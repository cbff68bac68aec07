----------------------------- MODULE EdlTransfer ------------------------------
(***************************************************************************)
(* How edl_read_partition and edl_program_partition (commands.rs) report    *)
(* their progress: the blocking task moves the data through a reader or a   *)
(* writer that counts (edl.rs), a thread polls the count, and the task      *)
(* joins it before the command returns.  The total is what the command      *)
(* expected: the size of the file for a write, also when the file is sparse *)
(* and grows; it is 0 when the file's size is not known.                    *)
(***************************************************************************)
EXTENDS Integers

CONSTANTS Totals, MaxCount   \* totals; bound: chunks a transfer moves

\* What the constants are.
TransferAssumption == Totals \subseteq Nat /\ MaxCount \in Nat

VARIABLES
  task,      \* "idle", "moving", "joining", "returned", "failed"
  total, count,
  done,      \* the flag that stops the reporter
  reporter,  \* "none", "polling", "ended"
  last,      \* last_pct
  shown      \* the percentages shown so far: the last one, and how far it fell back

transferVars == <<task, total, count, done, reporter, last, shown>>

Init ==
  /\ task = "idle" /\ total = 0 /\ count = 0 /\ done = FALSE /\ reporter = "none"
  /\ last = 0 /\ shown = [pct |-> 0, fell |-> FALSE]

\* Creating the output file may fail, before there is a reporter.
Start ==
  /\ task = "idle" /\ total' \in Totals
  /\ \/ task' = "moving" /\ reporter' = "polling"
     \/ task' = "failed" /\ UNCHANGED reporter
  /\ UNCHANGED <<count, done, last, shown>>

\* ProgressReader::read and ProgressWriter::write add what the inner one moved.
Move ==
  /\ task = "moving" /\ count < MaxCount /\ count' = count + 1
  /\ UNCHANGED <<task, total, done, reporter, last, shown>>

\* Mutant: the flag is not set.
FinishSilently ==
  /\ task = "moving" /\ task' = "joining"
  /\ UNCHANGED <<total, count, done, reporter, last, shown>>

\* The transfer ends, well or not, if it does: qdl_safe turns a panic of qdlrs into an error.
Finish ==
  /\ task = "moving" /\ done' = TRUE /\ task' = "joining"
  /\ UNCHANGED <<total, count, reporter, last, shown>>

Return ==
  /\ task = "joining" /\ reporter = "ended" /\ task' = "returned"
  /\ UNCHANGED <<total, count, done, reporter, last, shown>>

\* Every 250 ms.
Percent == IF total > 0 THEN (count * 100) \div total ELSE 0
\* Mutant: the count may pass the total.
Unclamped(n) == n
AtMost100(n) == IF n > 100 THEN 100 ELSE n
Poll ==
  /\ reporter = "polling"
  /\ IF done THEN reporter' = "ended" /\ UNCHANGED <<last, shown>>
     ELSE /\ IF Percent > last \/ count >= total
               THEN /\ last' = Percent
                    /\ shown' = [pct |-> AtMost100(Percent), fell |-> shown.fell \/ AtMost100(Percent) < shown.pct]
               ELSE UNCHANGED <<last, shown>>
          /\ reporter' = IF total > 0 /\ count >= total THEN "ended" ELSE reporter
  /\ UNCHANGED <<task, total, count, done>>

Next == Start \/ Move \/ Finish \/ Return \/ Poll

Spec == Init /\ [][Next]_transferVars /\ WF_transferVars(Return) /\ WF_transferVars(Poll)

------------------------------------------------------------------------------

TransferTypeOK ==
  /\ task \in {"idle", "moving", "joining", "returned", "failed"} /\ total \in Totals \union {0} /\ count \in 0 .. MaxCount
  /\ done \in BOOLEAN /\ reporter \in {"none", "polling", "ended"} /\ last \in Nat /\ shown.pct \in 0 .. 100

\* No progress is shown for an operation that has returned, and what is shown never
\* goes back or beyond 100.
NoLateProgress == (task \in {"returned", "failed"} => reporter /= "polling") /\ ~shown.fell

\* Once the data has been moved, or not, the command returns, whatever total it expected, and its
\* reporter with it.  (Over USB a transfer has no time limit, and a silent device keeps both.)
TransferReturns == task = "joining" ~> task = "returned"
ReporterEnds == []NoLateProgress /\ TransferReturns

==============================================================================
