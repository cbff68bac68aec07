------------------------------- MODULE EdlFlash -------------------------------
(***************************************************************************)
(* The writing operations of edl.rs on an open Firehose connection: a       *)
(* partition is programmed or erased, or the sets of a rawprogram manifest  *)
(* (edl_xml.rs) and its patch file are, one after the other for every LUN.  *)
(* An entry that fails is noted and the others go on.                       *)
(*                                                                          *)
(* A set is what the manifest says; an entry's sector may be a number or an *)
(* expression that only the device can evaluate, and stands for a place.    *)
(* "gpt" is the place at sector 0.  An image file is raw, sparse, broken    *)
(* (a sparse one that cannot be expanded), empty or absent.                 *)
(***************************************************************************)
EXTENDS Integers, Sequences, FiniteSets

CONSTANTS
  Images,   \* names of image files
  Places,   \* places on the storage
  Disks,    \* the state of the image files when a job is started
  Plans     \* the jobs a user may start: [kind, sets]

Kinds == {"program", "erase", "batch", "dir"}
Files == {"raw", "sparse", "broken", "empty", "absent"}
Entry == [img : Images, at : Places, expr : BOOLEAN, placeholder : BOOLEAN]
Set == [readable : BOOLEAN, programs : Seq(Entry), erases : Seq(Places), patch : {"none", "good", "bad"}]

\* What the constants are.
FlashAssumption ==
  /\ "gpt" \in Places /\ Disks \subseteq [Images -> Files]
  /\ \A p \in Plans : /\ p.kind \in Kinds /\ p.sets \in Seq(Set) /\ p.sets /= <<>>
                      /\ p.kind /= "dir" => Len(p.sets) = 1

VARIABLES
  plan,      \* the job
  flashing,  \* where it is: the phase
  nset, nop, \* the set and the operation that are next
  disk,      \* disk[i]: the image file
  storage,   \* storage[p]: what is there
  temps,     \* images whose .raw.tmp file exists
  report,    \* BatchFlashResult: the operations that were done, that failed, the sets
             \* whose result was replaced by an error, what was verified
  outcome,   \* what the command returned
  written    \* history: the entries that were written, and where

flashVars == <<plan, flashing, nset, nop, disk, storage, temps, report, outcome, written>>

NoReport == [done |-> {}, failed |-> {}, lost |-> {}, verified |-> {}]
NoPlan == [kind |-> "program", sets |-> <<>>]

Init ==
  /\ plan = NoPlan /\ flashing = "idle" /\ nset = 1 /\ nop = 1
  /\ disk = [i \in Images |-> "raw"] /\ storage = [p \in Places |-> "old"] /\ temps = {}
  /\ report = NoReport /\ outcome = "none" /\ written = {}

This == plan.sets[nset]
\* parse_rawprogram skips an entry without a file name or with no sectors.
Programs(set) == {i \in DOMAIN set.programs : ~set.programs[i].placeholder}
Op(kind) == <<nset, kind, nop>>
Go(phase) == flashing' = phase /\ nop' = 1 /\ UNCHANGED <<nset, report, outcome>>
Another == nop' = nop + 1 /\ UNCHANGED <<flashing, nset, outcome>>
Return(o) == flashing' = "done" /\ outcome' = o /\ nop' = 1 /\ UNCHANGED nset
\* A single operation returns its result, an operation of a set notes it.
Single == plan.kind \in {"program", "erase"}
Done(op, checks) ==
  /\ report' = [report EXCEPT !.done = @ \union {op}, !.verified = @ \union checks]
  /\ IF Single THEN Return("ok") ELSE Another
\* Mutant: an error is logged and not noted.
FailUnnoted(op) == UNCHANGED report /\ IF Single THEN Return("err") ELSE Another

Fail(op) ==
  /\ report' = [report EXCEPT !.failed = @ \union {op}]
  /\ IF Single THEN Return("err") ELSE Another

\* The command starts; only a manifest is validated before anything is written.
Start ==
  /\ flashing = "idle"
  /\ plan' \in Plans /\ disk' \in Disks
  /\ flashing' = IF plan'.kind \in {"batch", "dir"} THEN "validate" ELSE plan'.kind
  /\ UNCHANGED <<nset, nop, storage, temps, report, outcome, written>>

NextSet ==
  IF nset < Len(plan.sets)
    THEN nset' = nset + 1 /\ flashing' = "validate" /\ nop' = 1 /\ UNCHANGED outcome
    ELSE Return("ok")

\* batch_flash returns an error, and with it no report of what the set has done.  For a
\* directory the error is noted and the next set is flashed.
SetFails ==
  /\ report' = [done |-> {op \in report.done : op[1] /= nset},
                failed |-> {op \in report.failed : op[1] /= nset},
                lost |-> report.lost \union {nset},
                verified |-> {v \in report.verified : v[1][1] /= nset}]
  /\ IF plan.kind = "dir" THEN NextSet ELSE Return("err")

SetEnds == UNCHANGED report /\ IF plan.kind = "dir" THEN NextSet ELSE Return("ok")

Readable == This.readable /\ \A i \in Programs(This) : disk[This.programs[i].img] /= "absent"

\* validate_batch_files: the manifest is read and all its images are there.
Validate ==
  /\ flashing = "validate"
  /\ IF Readable THEN Go("erase") ELSE SetFails
  /\ UNCHANGED <<plan, disk, storage, temps, written>>

------------------------------------------------------------------------------
(* Erases first, then programs in order.                                       *)

\* erase_partition writes zeroes.
Erase ==
  /\ flashing = "erase" /\ nop <= Len(This.erases)
  /\ \/ storage' = [storage EXCEPT ![This.erases[nop]] = "zero"] /\ Done(Op("erase"), {})
     \/ storage' \in {storage, [storage EXCEPT ![This.erases[nop]] = "torn"]} /\ Fail(Op("erase"))
  /\ UNCHANGED <<plan, disk, temps, written>>

Erased ==
  /\ flashing = "erase" /\ nop > Len(This.erases) /\ Go("program")
  /\ UNCHANGED <<plan, disk, storage, temps, written>>

\* attr_num: what does not parse as a number is 0.
StartSector(e) == IF e.expr THEN "gpt" ELSE e.at

\* program_partition: its checks, the expansion of a sparse image to a temporary file,
\* the write, the verification, and the removal of the temporary file.
Program ==
  /\ flashing = "program" /\ nop \in Programs(This)
  /\ LET e == This.programs[nop]
         p == StartSector(e)
         op == Op("program") IN
     \/ /\ disk[e.img] \in {"absent", "empty"} /\ Fail(op) /\ UNCHANGED <<storage, temps, written>>
     \/ /\ disk[e.img] = "broken" /\ Fail(op)
        /\ temps' = temps \union {e.img} /\ UNCHANGED <<storage, written>>
     \/ /\ disk[e.img] \in {"raw", "sparse"} /\ Fail(op)
        /\ storage' \in {storage, [storage EXCEPT ![p] = "torn"]}
        /\ temps' = temps \ {e.img} /\ UNCHANGED written
     \/ /\ disk[e.img] \in {"raw", "sparse"}
        /\ \E checks \in {{}} \union {{<<op, v>>} : v \in BOOLEAN} : Done(op, checks)
        /\ storage' = [storage EXCEPT ![p] = e.img] /\ written' = written \union {<<op, p>>}
        /\ temps' = temps \ {e.img}
  /\ UNCHANGED <<plan, disk>>

\* The parser left this entry out.
Skip ==
  /\ flashing = "program" /\ nop \in DOMAIN This.programs \ Programs(This) /\ Another
  /\ UNCHANGED <<plan, disk, storage, temps, report, written>>

Programmed ==
  /\ flashing = "program" /\ nop > Len(This.programs) /\ Go("patch")
  /\ UNCHANGED <<plan, disk, storage, temps, written>>

\* A patch that the device refuses is noted, a patch file that cannot be read ends the
\* set with an error.
Patch ==
  /\ flashing = "patch"
  /\ CASE This.patch = "bad" -> SetFails
       [] This.patch = "good" /\ nop = 1 -> Done(Op("patch"), {}) \/ Fail(Op("patch"))
       [] OTHER -> SetEnds
  /\ UNCHANGED <<plan, disk, storage, temps, written>>

\* The user removes an image while the command runs.
RemoveImage ==
  /\ flashing \notin {"idle", "done"}
  /\ \E i \in Images : disk[i] /= "absent" /\ disk' = [disk EXCEPT ![i] = "absent"]
  /\ UNCHANGED <<plan, flashing, nset, nop, storage, temps, report, outcome, written>>

Next == Start \/ Validate \/ Erase \/ Erased \/ Program \/ Skip \/ Programmed \/ Patch \/ RemoveImage

Spec == Init /\ [][Next]_flashVars

------------------------------------------------------------------------------

FlashTypeOK ==
  /\ plan \in Plans \union {NoPlan} /\ flashing \in {"idle", "validate", "erase", "program", "patch", "done"}
  /\ nset \in Nat /\ nop \in Nat /\ disk \in [Images -> Files]
  /\ storage \in [Places -> {"old", "zero", "torn"} \union Images] /\ temps \subseteq Images
  /\ outcome \in {"none", "ok", "err"} /\ \A w \in written : w[2] \in Places

Ops(s) ==
  LET t == plan.sets[s] IN
  {<<s, "erase", i>> : i \in DOMAIN t.erases} \union {<<s, "program", i>> : i \in Programs(t)}
    \union (IF t.patch = "good" THEN {<<s, "patch", 1>>} ELSE {})
Target(op) == IF op[2] = "erase" THEN plan.sets[op[1]].erases[op[3]] ELSE StartSector(plan.sets[op[1]].programs[op[3]])
Before(o, q) ==
  \/ o[1] < q[1]
  \/ o[1] = q[1] /\ o[2] = "erase" /\ q[2] = "program"
  \/ o[1] = q[1] /\ o[2] = q[2] /\ o[3] < q[3]

\* Every operation of the manifests was done, or has an error, or its set has.
NothingSilent ==
  outcome = "ok" /\ ~Single => \A s \in DOMAIN plan.sets : s \in report.lost
                                 \/ \A op \in Ops(s) : (op \in report.done) /= (op \in report.failed)

\* What is reported as programmed was written, and what was written is reported, but
\* for a set whose patch file could not be read.
WrittenIsReported ==
  flashing = "done" => {op \in report.done : op[2] = "program"} = {w[1] : w \in {v \in written : v[1][1] \notin report.lost}}

\* An image is not wiped by an erase of its own set: it is there unless an operation
\* that the manifests put after it touched its place.
ImagesStay ==
  flashing = "done" => \A op \in report.done : op[2] = "program" =>
     \/ storage[Target(op)] = plan.sets[op[1]].programs[op[3]].img
     \/ \E s \in DOMAIN plan.sets : \E o \in Ops(s) : o[2] /= "patch" /\ Target(o) = Target(op) /\ Before(op, o)

\* A batch that was refused has written nothing, and no temporary file of an image that
\* could be expanded is left.
CleanFailure ==
  /\ outcome = "err" /\ plan.kind = "batch" /\ This.patch /= "bad" => storage = [p \in Places |-> "old"]
  /\ \A i \in temps : disk[i] \in {"broken", "absent"}

FlashReported == NothingSilent /\ WrittenIsReported /\ ImagesStay /\ CleanFailure

\* "start_sector" of the manifest says where an image goes.
ProgramsWhereTold ==
  \A w \in written : w[2] = plan.sets[w[1][1]].programs[w[1][3]].at

==============================================================================
