------------------------------- MODULE EdlOwner -------------------------------
(***************************************************************************)
(* What the EDL commands of commands.rs promise about the device that is   *)
(* on the bus.  Its interface has one owner: nobody, a command, the slot   *)
(* of the transport that identify leaves behind, or the slot of the        *)
(* connection.  It goes from slot to slot only through a command, and from *)
(* one command to another only through a slot.  A programmer is loaded by  *)
(* the owner and nobody else.                                              *)
(*                                                                         *)
(* EdlSession implements this module.                                      *)
(***************************************************************************)
CONSTANT Cmds

VARIABLES
  owner,   \* "free", "stored", "connected" or a command
  loaded   \* the device runs a programmer

ownerVars == <<owner, loaded>>

Init == owner = "free" /\ loaded = FALSE

\* Another appearance of a device on the bus.
Attach == owner' = "free" /\ loaded' \in BOOLEAN

Open(c) == owner = "free" /\ owner' = c /\ UNCHANGED loaded

Take(c) == owner \in {"stored", "connected"} /\ owner' = c /\ UNCHANGED loaded

Store(c) == owner = c /\ owner' = "stored" /\ UNCHANGED loaded

Connect(c) == owner = c /\ owner' = "connected" /\ UNCHANGED loaded

Load(c) == owner = c /\ loaded' = TRUE /\ UNCHANGED owner

Release == owner' = "free" /\ UNCHANGED loaded

Next ==
  \/ \E c \in Cmds : Open(c) \/ Take(c) \/ Store(c) \/ Connect(c) \/ Load(c)
  \/ Attach \/ Release

Spec == Init /\ [][Next]_ownerVars
==============================================================================
