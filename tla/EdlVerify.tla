------------------------------ MODULE EdlVerify -------------------------------
(***************************************************************************)
(* verify_write and compute_file_hashes of edl.rs: after an image was       *)
(* written to a partition, the first chunk of the partition, and the last   *)
(* one when it is large, are read back and their hashes compared with       *)
(* hashes of the file.  Lengths count sectors; two hashes are equal when    *)
(* what was hashed is.                                                      *)
(***************************************************************************)
EXTENDS Integers, Sequences

CONSTANTS
  Chunk,     \* VERIFY_CHUNK_SIZE, in sectors
  MaxLen     \* bound: length of a file and of a partition

\* What the constants are.
VerifyAssumption == Chunk \in Nat \ {0} /\ MaxLen \in Nat

VARIABLES
  source,    \* the file: its sectors, all different
  target,    \* the partition: what its sectors hold
  head, tail,\* the chunks read from it
  verdict    \* "none", "passed", "mismatch", "error"

verifyVars == <<source, target, head, tail, verdict>>

AtMost(n, bound) == IF n < bound THEN n ELSE bound
First(s, n) == SubSeq(s, 1, n)
Last(s, n) == SubSeq(s, Len(s) - n + 1, Len(s))

Init ==
  /\ source = <<>> /\ target = <<>> /\ head = <<>> /\ tail = <<>> /\ verdict = "none"

Old == 0
Bad == -1
\* What a write of file leaves in a partition: it is cut at the end of the partition,
\* and one sector may have gone wrong.
Written(file, total, wrong) ==
  [i \in 1 .. total |-> IF i = wrong THEN Bad ELSE IF i <= Len(file) THEN file[i] ELSE Old]

Write ==
  /\ source = <<>>
  /\ \E len \in 1 .. MaxLen, total \in 1 .. MaxLen, wrong \in 0 .. MaxLen :
       source' = [i \in 1 .. len |-> i] /\ target' = Written([i \in 1 .. len |-> i], total, wrong)
  /\ UNCHANGED <<head, tail, verdict>>

Total == Len(target)
CheckSize == AtMost(Chunk, Total)
\* Of the part of the file that fits: all of it, twice, or its ends.
FileHashes ==
  LET part == First(source, AtMost(Len(source), Total)) IN
  IF Len(part) <= 2 * Chunk THEN <<part, part>> ELSE <<First(part, Chunk), Last(part, Chunk)>>

ReadHead ==
  /\ target /= <<>> /\ head = <<>> /\ verdict = "none"
  /\ head' = First(target, CheckSize) /\ UNCHANGED <<source, target, tail, verdict>>

ReadTail ==
  /\ head /= <<>> /\ tail = <<>> /\ Total > 2 * Chunk /\ verdict = "none"
  /\ tail' = Last(target, CheckSize) /\ UNCHANGED <<source, target, head, verdict>>

ReadFails ==
  /\ target /= <<>> /\ verdict = "none" /\ verdict' = "error"
  /\ UNCHANGED <<source, target, head, tail>>

\* Mutant: the tail is not compared.
CompareHeads ==
  /\ head /= <<>> /\ (tail /= <<>> \/ Total <= 2 * Chunk) /\ verdict = "none"
  /\ verdict' = IF head = FileHashes[1] THEN "passed" ELSE "mismatch"
  /\ UNCHANGED <<source, target, head, tail>>

Compare ==
  /\ head /= <<>> /\ (tail /= <<>> \/ Total <= 2 * Chunk) /\ verdict = "none"
  /\ verdict' = IF head = FileHashes[1] /\ (Total <= 2 * Chunk \/ tail = FileHashes[2]) THEN "passed" ELSE "mismatch"
  /\ UNCHANGED <<source, target, head, tail>>

Next == Write \/ ReadHead \/ ReadTail \/ ReadFails \/ Compare

Spec == Init /\ [][Next]_verifyVars

------------------------------------------------------------------------------

VerifyTypeOK ==
  /\ source \in Seq(Nat) /\ target \in Seq(Int) /\ head \in Seq(Int) /\ tail \in Seq(Int)
  /\ verdict \in {"none", "passed", "mismatch", "error"}

Holds(i) == i <= Len(source) => target[i] = source[i]
Checked == 1 .. CheckSize \union (IF Total > 2 * Chunk THEN Total - Chunk + 1 .. Total ELSE {})
Correct == \A i \in 1 .. Total : Holds(i)

\* The file ends inside the head, or the head and the tail overlap.
EndsDiffer == Len(source) < Total \/ (Chunk < Total /\ Total <= 2 * Chunk)

\* A write that passes is right wherever it was checked, and one that is wrong there does
\* not; a file that fills its partition and is verified by its ends passes when it is right.
VerifyExact ==
  /\ verdict = "passed" => \A i \in Checked : Holds(i)
  /\ verdict = "mismatch" /\ Correct => EndsDiffer

\* The verification never calls a correct write a mismatch.
NoFalseAlarm == verdict = "mismatch" => ~Correct

==============================================================================
