---------------------------- MODULE FastbootFlash -----------------------------
(***************************************************************************)
(* flash_firmware: the workflow of flash/manager.rs and flash/validation.rs *)
(* over fastboot.rs, under the time limit of the command.  The limit drops  *)
(* the workflow wherever it waits and frees is_flashing; the device stays   *)
(* where it was: possibly in the middle of a download, for which it takes   *)
(* what the next flash sends, or with an answer that nobody read, which the *)
(* next flash takes for its own.  Sizes are in chunks of 256 KB, beside     *)
(* which the text of a command is nothing.                                  *)
(***************************************************************************)
EXTENDS Integers, Sequences

\* Of the files; u32::MAX; MAX_FIRMWARE_SIZE; a bound: with more answers unread nothing is begun.
CONSTANTS FirmwareSizes, MaxDownload, MaxFirmware, MaxUnread

\* What the constants are.
FastbootAssumption ==
  FirmwareSizes \subseteq Nat /\ MaxDownload \in Nat /\ MaxFirmware \in Nat /\ MaxUnread \in Nat

VARIABLES
  flash,     \* "idle", "reading", "opening", "download", "data" (waits for DATA), "sending",
             \* "finish", "command", "okay" (waits for the answer to `flash`)
  firmware,  \* the size of the file
  sent,
  announced, \* the size in the DATA that was read
  phone,     \* the device: "command", or "data" while it waits for `missing` chunks
  missing,
  buffer,    \* its download buffer: "none", "whole" (this file, so far), "other"
  answers,   \* what it said and nobody read
  flashed,   \* the partition: "old", "whole", "other"
  told,      \* of the last flash: "none", "ok", "failed", "timeout"
  behind     \* how many answers were unread when the last flash began

fastbootVars == <<flash, firmware, sent, announced, phone, missing, buffer, answers, flashed, told, behind>>

Answer == [is : {"DATA", "OKAY", "FAIL"}, size : 0 .. MaxDownload]
Data(n) == [is |-> "DATA", size |-> n]
Okay == [is |-> "OKAY", size |-> 0]
Fail == [is |-> "FAIL", size |-> 0]

Init ==
  /\ flash = "idle" /\ firmware = 0 /\ sent = 0 /\ announced = 0 /\ phone = "command" /\ missing = 0
  /\ buffer = "none" /\ answers = <<>> /\ flashed = "old" /\ told = "none" /\ behind = 0

Tell(what) == flash' = "idle" /\ told' = what
Device == <<phone, missing, buffer, answers, flashed>>

(* The device. *)

\* It answers and keeps the rest.
Says(answer) == answers' = Append(answers, answer) /\ UNCHANGED <<phone, missing, buffer>>

\* The last byte of a download has come, perhaps with more behind it: the rest of a packet is
\* dropped, or taken for a command that does not exist.
Downloaded(content) ==
  /\ missing' = 0 /\ phone' = "command"
  /\ \/ answers' = Append(answers, Okay)
     \/ content = "other" /\ answers' = answers \o <<Okay, Fail>>

\* A device that waits for data takes the text of a command for the next bytes of it; they may be
\* the last ones.
Swallows ==
  /\ phone = "data" /\ buffer' = "other"
  /\ \/ UNCHANGED <<phone, missing, answers>>
     \/ missing = 1 /\ Downloaded("other")

\* A chunk of a file; to a device that waits for a command it is none that exists.
TakesChunk ==
  IF phone = "command" THEN Says(Fail)
  ELSE /\ UNCHANGED buffer
       /\ IF missing = 1 THEN Downloaded(buffer)
          ELSE missing' = missing - 1 /\ UNCHANGED <<phone, answers>>

(* The host. *)

\* validate_firmware and validate_partition; is_critical_partition only warns; detect finds a
\* device or not.  What the device has downloaded before is of another file.
Start ==
  /\ flash = "idle" /\ Len(answers) <= MaxUnread
  /\ firmware' \in FirmwareSizes /\ sent' = 0 /\ announced' = 0 /\ behind' = Len(answers)
  /\ \/ firmware' \in 1 .. MaxFirmware /\ flash' = "reading" /\ told' = "none"
     \/ Tell("failed")
  /\ buffer' = (IF buffer = "none" THEN "none" ELSE "other") /\ flashed' = "old"
  /\ UNCHANGED <<phone, missing, answers>>

\* fs::read in a blocking task; only then the limit of fastboot is applied.
ReadFile ==
  /\ flash = "reading"
  /\ IF firmware > MaxDownload THEN Tell("failed") ELSE flash' = "opening" /\ UNCHANGED told
  /\ UNCHANGED <<firmware, sent, announced, behind, Device>>

\* open_client claims the interface; the device does not notice.
Open ==
  /\ flash = "opening"
  /\ \/ flash' = "download" /\ UNCHANGED told
     \/ Tell("failed")
  /\ UNCHANGED <<firmware, sent, announced, behind, Device>>

\* `download:size` is sent, a wait of its own; the device may refuse.
Download ==
  /\ flash = "download" /\ flash' = "data"
  /\ \/ Swallows
     \/ phone = "command" /\ Says(Fail)
     \/ /\ phone = "command" /\ phone' = "data" /\ missing' = firmware /\ buffer' = "whole"
        /\ answers' = Append(answers, Data(firmware))
  /\ UNCHANGED <<firmware, sent, announced, flashed, told, behind>>

\* The next answer of the device.
Reads == answers /= <<>> /\ answers' = Tail(answers) /\ UNCHANGED <<phone, missing, buffer, flashed>>

\* The answer to it is DATA, or an error.
DownloadAnswer ==
  /\ flash = "data" /\ Reads
  /\ IF Head(answers).is = "DATA"
       THEN flash' = "sending" /\ announced' = Head(answers).size /\ UNCHANGED told
       ELSE Tell("failed") /\ UNCHANGED announced
  /\ UNCHANGED <<firmware, sent, behind>>

\* The chunks of the file, never more than was announced.
Send ==
  /\ flash = "sending"
  /\ IF sent = announced THEN Tell("failed") /\ UNCHANGED <<sent, phone, missing, buffer, answers>>
     ELSE /\ TakesChunk /\ sent' = sent + 1 /\ UNCHANGED told
          /\ flash' = (IF sent + 1 = firmware THEN "finish" ELSE "sending")
  /\ UNCHANGED <<firmware, announced, flashed, behind>>

\* Mutant: finish does not wait for the answer.
FinishUnawaited ==
  /\ flash = "finish"
  /\ IF sent /= announced THEN Tell("failed") ELSE flash' = "command" /\ UNCHANGED told
  /\ UNCHANGED <<firmware, sent, announced, behind, Device>>

\* finish: nothing is left of what was announced, and OKAY.
FinishDownload ==
  /\ flash = "finish"
  /\ IF sent /= announced THEN Tell("failed") /\ UNCHANGED Device
     ELSE Reads /\ IF Head(answers) = Okay THEN flash' = "command" /\ UNCHANGED told ELSE Tell("failed")
  /\ UNCHANGED <<firmware, sent, announced, behind>>

\* `flash:partition` is sent; the device writes what it has, or fails.
Command ==
  /\ flash = "command" /\ flash' = "okay"
  /\ \/ Swallows /\ UNCHANGED flashed
     \/ phone = "command" /\ buffer /= "none" /\ flashed' = buffer /\ Says(Okay)
     \/ phone = "command" /\ flashed' \in {"old", "other"} /\ Says(Fail)
  /\ UNCHANGED <<firmware, sent, announced, told, behind>>

\* And its answer is read.
CommandAnswer ==
  /\ flash = "okay" /\ Reads
  /\ IF Head(answers) = Okay THEN Tell("ok") ELSE Tell("failed")
  /\ UNCHANGED <<firmware, sent, announced, behind>>

\* FLASH_TIMEOUT, at any await; a transfer error.
TimeOut == flash /= "idle" /\ Tell("timeout") /\ UNCHANGED <<firmware, sent, announced, behind, Device>>
TransferFails ==
  /\ flash \notin {"idle", "reading", "opening"} /\ Tell("failed")
  /\ UNCHANGED <<firmware, sent, announced, behind, Device>>

\* Between two flashes: a query (get_partitions, get_device_vars) is cut off by its own time limit
\* after it was sent, or the device is restarted by hand.
QueryCut ==
  /\ flash = "idle" /\ Len(answers) < MaxUnread
  /\ Swallows \/ (phone = "command" /\ Says(Okay))
  /\ UNCHANGED <<flash, firmware, sent, announced, flashed, told, behind>>
Restart ==
  /\ flash = "idle" /\ phone' = "command" /\ missing' = 0 /\ buffer' = "none" /\ answers' = <<>>
  /\ UNCHANGED <<flash, firmware, sent, announced, flashed, told, behind>>

Next ==
  \/ Start \/ ReadFile \/ Open \/ Download \/ DownloadAnswer \/ Send \/ FinishDownload \/ Command \/ CommandAnswer
  \/ TimeOut \/ TransferFails \/ QueryCut \/ Restart

Spec == Init /\ [][Next]_fastbootVars

------------------------------------------------------------------------------

FastbootTypeOK ==
  /\ flash \in {"idle", "reading", "opening", "download", "data", "sending", "finish", "command", "okay"}
  /\ firmware \in FirmwareSizes \union {0}
  /\ sent \in 0 .. MaxDownload /\ announced \in 0 .. MaxDownload /\ missing \in 0 .. MaxDownload
  /\ phone \in {"command", "data"} /\ buffer \in {"none", "whole", "other"} /\ answers \in Seq(Answer)
  /\ flashed \in {"old", "whole", "other"} /\ told \in {"none", "ok", "failed", "timeout"} /\ behind \in Nat

\* A flash that is reported complete and began with no answer of the device unread has put the
\* whole file into the partition, also after an earlier flash was cut off in the middle of a download.
\* (One that begins with an answer unread may be reported complete with another content.)
FirmwareWhole == told = "ok" /\ behind = 0 => flashed = "whole"

==============================================================================
