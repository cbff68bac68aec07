----------------------------- MODULE MessagePipe -----------------------------
(***************************************************************************)
(* What the dispatcher of protocols/adb_usb.rs relies on: a one-way pipe   *)
(* of messages from the device to the reader thread.  Messages are         *)
(* numbered 1, 2, 3, ... in the order the device sends them.  The pipe may *)
(* lose messages, and may break for good, but what it delivers it delivers *)
(* at most once and in the order it was sent.                              *)
(*                                                                         *)
(* UsbFraming implements this module; the reader of UsbDispatcher consumes *)
(* it.                                                                     *)
(***************************************************************************)
EXTENDS Naturals, Sequences

VARIABLES
  sent,        \* number of messages the device has sent
  delivered,   \* the messages handed to the reader, in order
  broken       \* the reader has stopped for good

pipeVars == <<sent, delivered, broken>>

\* The newest message delivered, 0 when there is none.
Latest == IF delivered = <<>> THEN 0 ELSE delivered[Len(delivered)]

Init ==
  /\ sent = 0
  /\ delivered = <<>>
  /\ broken = FALSE

Send ==
  /\ sent' = sent + 1
  /\ UNCHANGED <<delivered, broken>>

Deliver ==
  /\ ~broken
  /\ \E m \in (Latest + 1)..sent : delivered' = Append(delivered, m)
  /\ UNCHANGED <<sent, broken>>

Break ==
  /\ broken' = TRUE
  /\ UNCHANGED <<sent, delivered>>

Next == Send \/ Deliver \/ Break

Spec == Init /\ [][Next]_pipeVars
==============================================================================
