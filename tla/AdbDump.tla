------------------------------- MODULE AdbDump --------------------------------
(***************************************************************************)
(* Partitions and packages between the host and an ADB device (adb/dump.rs, *)
(* adb/install.rs, the transfers of adb/sync.rs and adb/shell.rs, and the   *)
(* commands dump_partitions, dump_image, write_partition and install_apk).  *)
(* One job runs at a time (is_flashing).  With Shell V2 a partition is      *)
(* streamed and the exit code counts; with V1 it goes through a temporary   *)
(* file on the device, and the end of the output is all there is.           *)
(*                                                                         *)
(* A file is "none", "torn" (a part of what it should be), "whole" or, if   *)
(* it was there before the job, "old".                                      *)
(***************************************************************************)
EXTENDS Integers

CONSTANTS
  Parts,     \* partitions of a dump_partitions call: 1 .. n
  Requests,  \* what users ask dump_image for: [offset, size], size 0 for all that follows
  DiskSize   \* bound: length of the block device of dump_image

\* What the constants are.
DumpAssumption ==
  /\ 1 \in Parts /\ Parts \subseteq Nat \ {0} /\ DiskSize \in Nat
  /\ Requests \subseteq [offset : 0 .. DiskSize, size : 0 .. DiskSize]

VARIABLES
  job,       \* "none", "dump", "write", "install"
  stage,     \* what the job does next; "idle" between jobs
  at,        \* the partition it is at, 0 for dump_image
  request,   \* of dump_image
  features,  \* SHELL_V2_CACHE for the serial: "unknown", "v1", "v2"
  streamed,  \* shell_v2_supported said so for this partition
  present,   \* temporary files on the device, <<job, part>>
  complete,  \* the current one holds all it should
  pushed,    \* sync_push was answered OKAY for it
  armed,     \* its DeviceTempGuard
  files,     \* per partition: the local file
  partition, \* the contents of the partition that is written
  result,   \* "none", "ok", "failed"; of the job when it is idle
  doubtful   \* temporary files for which an rm was not sure to have run

dumpVars == <<job, stage, at, request, features, streamed, present, complete, pushed, armed, files, partition, result, doubtful>>
temporary == <<present, complete, pushed, armed, doubtful>>

Jobs == {"dump", "write", "install"}
Raw == 0
Regions == Parts \union {Raw}
Temps == ({"dump"} \X Regions) \union ({"write", "install"} \X {1})
Own == <<job, at>>

NoRequest == [offset |-> 0, size |-> 0]

Init ==
  /\ job = "none" /\ stage = "idle" /\ at = 1 /\ request = NoRequest /\ features = "unknown" /\ streamed = FALSE
  /\ present = {} /\ complete = FALSE /\ pushed = FALSE /\ armed = FALSE /\ doubtful = {}
  /\ files = [p \in Regions |-> "old"] /\ partition = "old" /\ result = "none"

Goto(s) == stage' = s /\ UNCHANGED <<job, at, request, streamed, result>>
Finish(v) == stage' = "idle" /\ result' = v /\ UNCHANGED <<job, at, request, streamed>>
ToGuard(v) == stage' = "guard" /\ result' = v /\ UNCHANGED <<job, at, request, streamed>>

\* `?` drops the guard, which every such step has: one attempt to remove the file.
Abandon == ToGuard("failed")

\* After a partition dump_partitions goes to the next one of its list; other jobs are done.
Advance ==
  \/ Finish("ok")
  \/ /\ job = "dump" /\ at /= Raw /\ at + 1 \in Parts
     /\ stage' = "choose" /\ at' = at + 1 /\ result' = "none" /\ UNCHANGED <<job, request, streamed>>

\* FlashGuard, the checks of the command, find_serial, check_root_sync and those of the operation
\* (file, sizes, names); some job fails here.
Start(j, a) ==
  /\ stage = "idle" /\ job' = j /\ at' = a /\ partition' = "old"
  /\ \/ stage' = "choose" /\ result' = "none"
     \/ stage' = "idle" /\ result' = "failed"
  /\ streamed' = FALSE /\ files' = [p \in Regions |-> "old"] /\ UNCHANGED <<features, temporary>>

DumpPartitions == Start("dump", 1) /\ request' = NoRequest
DumpImage == Start("dump", Raw) /\ request' \in Requests
WritePartition == Start("write", 1) /\ request' = NoRequest
InstallApk == Start("install", 1) /\ request' = NoRequest

\* shell_v2_supported: the cached answer; the banner of a USB connection fills the cache, else the
\* server is asked, and a query that fails is remembered as V1; with USB only and no connection yet
\* the answer is V1 for now.  run_install does not ask, it always pushes a file.
Choose ==
  /\ stage = "choose"
  /\ IF features = "unknown" THEN features' \in {"unknown", "v1", "v2"} ELSE UNCHANGED features
  /\ streamed' = (job /= "install" /\ features' = "v2")
  /\ stage' = CASE streamed' -> "stream" [] job = "install" -> "push" [] OTHER -> "sweep"
  /\ armed' = (job = "install") /\ complete' = FALSE /\ pushed' = FALSE
  /\ UNCHANGED <<job, at, request, result, present, doubtful, files, partition>>

\* A reboot clears the cache, at any time.
ForgetFeatures ==
  /\ features /= "unknown" /\ features' = "unknown"
  /\ UNCHANGED <<job, stage, at, request, streamed, files, partition, result, temporary>>

\* Mutant: the exit code is not looked at.
StreamDumpAnyCode ==
  /\ stage = "stream" /\ job = "dump"
  /\ \/ \E f \in {"torn", "whole"} : files' = [files EXCEPT ![at] = f] /\ Advance
     \/ UNCHANGED files /\ Finish("failed")
  /\ UNCHANGED <<features, partition, temporary>>

\* dd into a .tmp beside the file: renamed after exit code 0, which dd gives when it has read all;
\* removed after another code or an error.  A rename that fails fails the job.
StreamDump ==
  /\ stage = "stream" /\ job = "dump"
  /\ \/ files' = [files EXCEPT ![at] = "whole"] /\ Advance
     \/ UNCHANGED files /\ Finish("failed")
  /\ UNCHANGED <<features, partition, temporary>>

\* The file into dd's standard input; the partition is written as the data arrives.
StreamWrite ==
  /\ stage = "stream" /\ job = "write"
  /\ \/ partition' = "whole" /\ Finish("ok")
     \/ partition' \in {"old", "torn"} /\ Finish("failed")
  /\ UNCHANGED <<features, files, temporary>>

\* cleanup_device_temps, cleanup_write_temps: all files of the kind, as far as ls and rm work.
\* After it the guard is made.
Sweep ==
  /\ stage = "sweep"
  /\ \E kept \in SUBSET {t \in present : t[1] = job} :
       /\ present' = {t \in present : t[1] /= job} \union kept
       /\ doubtful' = {t \in doubtful : t[1] /= job} \union kept
  /\ armed' = TRUE /\ Goto(IF job = "dump" THEN "read" ELSE "push")
  /\ UNCHANGED <<features, complete, pushed, files, partition>>

\* The current file is made, or made again.
Create(whole) == present' = present \union {Own} /\ doubtful' = doubtful \ {Own} /\ complete' = whole

\* dd into the temporary file.  V1 returns Ok at the end of the output: dd ended, well or not; the
\* socket closed; or 30 s passed without output.
Read ==
  /\ stage = "read"
  /\ \/ \E whole \in BOOLEAN : Create(whole) /\ Goto("pull")
     \/ UNCHANGED <<present, doubtful, complete>> /\ Goto("pull")
     \/ Create(FALSE) /\ Abandon
     \/ UNCHANGED <<present, doubtful, complete>> /\ Abandon
  /\ UNCHANGED <<features, armed, pushed, files, partition>>

\* sync_pull: an error when there is no such file; else DATA into a .tmp, renamed after DONE and
\* removed after an error.
Pull ==
  /\ stage = "pull"
  /\ \/ Own \in present /\ files' = [files EXCEPT ![at] = IF complete THEN "whole" ELSE "torn"] /\ Goto("remove")
     \/ UNCHANGED files /\ Abandon
  /\ UNCHANGED <<features, partition, temporary>>

\* sync_push succeeds when the device says OKAY after DONE.
Push ==
  /\ stage = "push"
  /\ \/ Create(TRUE) /\ pushed' = TRUE /\ Goto("run")
     \/ Create(FALSE) /\ UNCHANGED pushed /\ Abandon
     \/ UNCHANGED <<present, doubtful, complete, pushed>> /\ Abandon
  /\ UNCHANGED <<features, armed, files, partition>>

\* write: dd from the temporary file to the partition, then sync; known error messages in the
\* output are failures, any other end of the output is success.
RunDd ==
  /\ stage = "run" /\ job = "write"
  /\ \/ partition' \in {"torn", "whole"} /\ Goto("remove")
     \/ partition' \in {"old", "torn"} /\ Abandon
  /\ UNCHANGED <<features, files, temporary>>

\* install: pm install; a failure it reports is kept until the file was removed.
RunPm ==
  /\ stage = "run" /\ job = "install"
  /\ \/ stage' = "remove" /\ result' \in {"none", "failed"} /\ UNCHANGED <<job, at, request, streamed>>
     \/ Abandon
  /\ UNCHANGED <<features, files, partition, temporary>>

\* One rm of the current file.  adb_shell is Ok when the output ended, whatever rm did.
Rm == \/ present' = present \ {Own} /\ doubtful' = doubtful \ {Own}
      \/ UNCHANGED present /\ doubtful' = doubtful \union ({Own} \intersect present)

\* After success the file is removed and the guard disarmed.  A dump or a write whose rm was not
\* answered leaves the guard armed for a second attempt; an install disarms it in any case.
Remove ==
  /\ stage = "remove" /\ Rm
  /\ IF result = "failed" THEN armed' = FALSE /\ Finish("failed")
     ELSE \/ armed' = FALSE /\ Advance
          \/ job /= "install" /\ UNCHANGED armed /\ ToGuard("ok")
  /\ UNCHANGED <<features, files, partition, complete, pushed>>

\* DeviceTempGuard::drop.
Guard ==
  /\ stage = "guard" /\ armed' = FALSE /\ Rm
  /\ IF result = "ok" THEN Advance ELSE Finish("failed")
  /\ UNCHANGED <<features, files, partition, complete, pushed>>

Next ==
  \/ DumpPartitions \/ DumpImage \/ WritePartition \/ InstallApk \/ Choose \/ ForgetFeatures
  \/ StreamDump \/ StreamWrite \/ Sweep \/ Read \/ Pull \/ Push \/ RunDd \/ RunPm \/ Remove \/ Guard

Spec == Init /\ [][Next]_dumpVars

------------------------------------------------------------------------------
(* What dump_image reads, in units smaller than both blocks of dd: 4096 bytes *)
(* with V1, 512 with V2.                                                     *)

Units == 0 .. DiskSize - 1
V1Block == 4
Sector == 2
RoundDown(n, block) == (n \div block) * block
RoundUp(n, block) == RoundDown(n + block - 1, block)
\* build_dd_command
DdRegion(r) ==
  LET skip == RoundDown(r.offset, V1Block)
      count == IF r.size = 0 THEN DiskSize ELSE RoundUp(r.size, V1Block)
  IN Units \intersect (skip .. skip + count - 1)

\* Both numbers are rounded down.  An offset without a size, and a size from offset 0, which the
\* command makes no offset, are ignored: all of the device is read.
StreamRegion(r) ==
  LET skip == RoundDown(r.offset, Sector)
  IN IF r.offset > 0 /\ r.size > 0 THEN Units \intersect (skip .. skip + RoundDown(r.size, Sector) - 1) ELSE Units

Region == IF streamed THEN StreamRegion(request) ELSE DdRegion(request)

------------------------------------------------------------------------------

DumpTypeOK ==
  /\ job \in Jobs \union {"none"} /\ at \in Regions /\ request \in Requests \union {NoRequest} /\ features \in {"unknown", "v1", "v2"}
  /\ stage \in {"idle", "choose", "stream", "sweep", "read", "pull", "push", "run", "remove", "guard"}
  /\ streamed \in BOOLEAN /\ complete \in BOOLEAN /\ pushed \in BOOLEAN /\ armed \in BOOLEAN
  /\ present \subseteq Temps /\ doubtful \subseteq Temps /\ result \in {"none", "ok", "failed"}
  /\ files \in [Regions -> {"old", "torn", "whole"}] /\ partition \in {"old", "torn", "whole"}

Asked == request.offset .. (IF request.size = 0 THEN DiskSize ELSE request.offset + request.size) - 1

\* What Shell V2 reports as done is done, a partition is written from a file only when all of it
\* was pushed, a job leaves a temporary file only where an rm went wrong, and dump_image reads all
\* that it was asked for when the offset is the beginning of a block and V2's size is in sectors.
TransfersSafe ==
  /\ stage = "idle" /\ result = "ok" /\ streamed =>
       (job = "dump" => files[at] = "whole") /\ (job = "write" => partition = "whole")
  /\ partition /= "old" /\ ~streamed => pushed
  /\ stage = "idle" => present \subseteq doubtful
  /\ at = Raw /\ request.offset % V1Block = 0 /\ (streamed => request.size % Sector = 0)
       => (Asked \intersect Units) \subseteq Region

\* A disconnection leaves no partial dump that counts as one.
NoPartialDump == stage = "idle" /\ result = "ok" /\ job = "dump" => files[at] = "whole"

==============================================================================
