---------------------------- MODULE MCEdlSession -----------------------------
(* The instance of EdlSession checked by TLC: two commands at the same time,   *)
(* two devices that take turns on the bus.                                     *)
EXTENDS EdlSession

CONSTANTS c1, c2, u1, u2

MCCmds == {c1, c2}
MCUnits == {u1, u2}
==============================================================================
