----------------------------- MODULE AdbSideload ------------------------------
(***************************************************************************)
(* adb_sideload (adb/sideload.rs): the recovery asks for blocks of the      *)
(* package, in any order and as often as it likes, and ends with DONEDONE   *)
(* or FAILFAIL; the host answers each request from the file.  A request of  *)
(* eight digits times the block size of 64 KB does not leave 64 bits.       *)
(***************************************************************************)
EXTENDS Integers

CONSTANTS BlockSize, Lengths, MaxBlock   \* bounds: lengths of a package, last block asked for

\* What the constants are: SIDELOAD_BLOCK_SIZE is positive.
SideloadAssumption == BlockSize \in Nat \ {0} /\ Lengths \subseteq Nat /\ MaxBlock \in Nat

VARIABLES
  serving,   \* "idle", "serving", "done", "failed"
  length,    \* of the package
  reply      \* to the last request: [block, from, size], size 0 before the first one

sideloadVars == <<serving, length, reply>>

NoReply == [block |-> 0, from |-> 0, size |-> 0]
Init == serving = "idle" /\ length = 0 /\ reply = NoReply

\* An empty file is refused; else sideload-host is opened with both sizes, which may fail.
Start ==
  /\ serving = "idle" /\ length' \in Lengths /\ UNCHANGED reply
  /\ serving' \in IF length' = 0 THEN {"failed"} ELSE {"serving", "failed"}

AtMost(m, n) == IF n < m THEN n ELSE m

\* Mutant: the last block is sent as a whole one.
BlockReadWhole(b) == [block |-> b, from |-> b * BlockSize, size |-> IF b * BlockSize < length THEN BlockSize ELSE 0]

\* calculate_block_read.
BlockRead(b) ==
  LET from == b * BlockSize
  IN [block |-> b, from |-> from, size |-> AtMost(BlockSize, IF from > length THEN 0 ELSE length - from)]

\* A block behind the end of the file ends the transfer with an error.
Request(b) ==
  /\ serving = "serving"
  /\ IF BlockRead(b).size = 0 THEN serving' = "failed" /\ UNCHANGED reply
     ELSE reply' = BlockRead(b) /\ UNCHANGED serving
  /\ UNCHANGED length

\* DONEDONE, FAILFAIL, a malformed request, 60 s without one, the end of the stream.
End == serving = "serving" /\ serving' \in {"done", "failed"} /\ UNCHANGED <<length, reply>>

Next == Start \/ (\E b \in 0 .. MaxBlock : Request(b)) \/ End

Spec == Init /\ [][Next]_sideloadVars

------------------------------------------------------------------------------

SideloadTypeOK ==
  /\ serving \in {"idle", "serving", "done", "failed"} /\ length \in Lengths \union {0}
  /\ reply.block \in 0 .. MaxBlock /\ reply.from \in Nat /\ reply.size \in 0 .. BlockSize

\* The bytes sent for a block are those of the package at its place, all of them and no others:
\* the blocks, in whatever order they are asked for, make up the package.
BlockExact == reply /= NoReply =>
  {reply.from + i : i \in 0 .. reply.size - 1} = {p \in 0 .. length - 1 : p \div BlockSize = reply.block}

==============================================================================
