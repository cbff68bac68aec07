------------------------------ MODULE EdlSession ------------------------------
(***************************************************************************)
(* The EDL commands of commands.rs and the AppState they share.  Commands   *)
(* are async functions that run at the same time; every access to a field   *)
(* of AppState is a critical section of its own, and the work with the      *)
(* device happens on a blocking thread, with the transport moved out of     *)
(* AppState and put back afterwards.                                        *)
(*                                                                          *)
(* An appearance of an EDL device on the bus has a number, and so has the   *)
(* transport that is opened to it: there is at most one at a time, because  *)
(* opening claims the interface or the serial port exclusively.  0 is no    *)
(* transport.  A unit is a physical device, told apart by its serial.       *)
(*                                                                          *)
(* What Sahara and Firehose exchange with the device, and the programmer    *)
(* database, are left out.                                                  *)
(***************************************************************************)
EXTENDS Integers, Sequences

CONSTANTS
  Cmds,       \* commands running at the same time
  Units,      \* physical devices
  NoUnit,     \* no EDL device, or an unknown one
  MaxPlugs    \* bound: appearances of a device on the bus

ASSUME SessionAssumption ==
  /\ NoUnit \notin Units
  /\ "free" \notin Cmds /\ "stored" \notin Cmds /\ "connected" \notin Cmds
  /\ MaxPlugs \in Nat

VARIABLES
  \* AppState
  current,    \* current_device: the EDL unit detected, or NoUnit
  flashing,   \* is_flashing
  conn,       \* edl_connection: its transport, or 0
  connId,     \* the identity in its info
  sahara,     \* edl_sahara_device: the transport identify leaves, or 0
  cache,      \* edl_identify_cache
  \* the commands
  pc, held,   \* held[c]: the transport that c's blocking task owns
  ident,      \* ident[c]: the unit c found or read from the cache
  resume,     \* resume[c]: firehose_active, as c found or read it
  guard,      \* guard[c]: c has a FlashGuard
  \* the bus
  units,      \* units[n]: the unit of appearance n
  present,    \* the last one is still there
  firehose    \* it runs a programmer

appVars == <<current, flashing, conn, connId, sahara, cache>>
cmdVars == <<pc, held, ident, resume, guard>>
busVars == <<units, present, firehose>>
vars == <<appVars, cmdVars, busVars>>

NoCache == [on |-> FALSE, who |-> NoUnit, firehose |-> FALSE]
Era == Len(units)
Unit == IF present THEN units[Era] ELSE NoUnit

PCs == {"idle", "scanned", "invalidate",
        "identify", "identifying", "reopen", "retrying", "naming", "keeping", "caching",
        "connect", "resuming", "opening", "uploading", "configuring", "merging", "storing",
        "guarded", "operating", "panicked", "finish",
        "rebooting", "rebooted", "forget", "forgetAll", "uncache"}

Init ==
  /\ current = NoUnit /\ flashing = FALSE
  /\ conn = 0 /\ connId = NoUnit /\ sahara = 0 /\ cache = NoCache
  /\ pc = [c \in Cmds |-> "idle"] /\ held = [c \in Cmds |-> 0]
  /\ ident = [c \in Cmds |-> NoUnit] /\ resume = [c \in Cmds |-> FALSE]
  /\ guard = [c \in Cmds |-> FALSE]
  /\ units = <<>> /\ present = FALSE /\ firehose = FALSE

At(c, l) == pc[c] = l
Goto(c, l) == pc' = [pc EXCEPT ![c] = l] /\ UNCHANGED <<ident, resume>>
\* c goes on with what it found, or returns and forgets it.
GoWith(c, l, who, fh) ==
  /\ pc' = [pc EXCEPT ![c] = l]
  /\ ident' = [ident EXCEPT ![c] = who] /\ resume' = [resume EXCEPT ![c] = fh]
Return(c) == GoWith(c, "idle", NoUnit, FALSE)
Hold(c, n) == held' = [held EXCEPT ![c] = n]
\* The device's interface is claimed: some transport to it exists.
Claimed == Era > 0 /\ (conn = Era \/ sahara = Era \/ \E c \in Cmds : held[c] = Era)
\* The blocking task of c can talk to the device.
Reaches(c) == present /\ held[c] = Era

------------------------------------------------------------------------------
(* detect_device: scan, store the result, then clear what belongs to a device  *)
(* that is gone.                                                               *)

Scan(c) ==
  /\ At(c, "idle") /\ GoWith(c, "scanned", Unit, FALSE)
  /\ UNCHANGED <<appVars, held, guard, busVars>>

\* The scan failed or took more than eight seconds.
ScanFails(c) ==
  /\ At(c, "scanned") /\ Return(c)
  /\ UNCHANGED <<appVars, held, guard, busVars>>

StoreDevice(c) ==
  /\ At(c, "scanned") /\ Goto(c, "invalidate")
  /\ current' = ident[c]
  /\ UNCHANGED <<flashing, conn, connId, sahara, cache, held, guard, busVars>>

\* The cache lock is held over both assignments.
Invalidate(c) ==
  /\ At(c, "invalidate") /\ Return(c)
  /\ IF cache.on /\ ident[c] = NoUnit
       THEN cache' = NoCache /\ sahara' = 0
       ELSE UNCHANGED <<cache, sahara>>
  /\ UNCHANGED <<current, flashing, conn, connId, held, guard, busVars>>

------------------------------------------------------------------------------
(* edl_identify.                                                               *)

\* Nothing cached, or no EDL device detected.
IdentifyMiss(c) ==
  /\ At(c, "idle") /\ ~(cache.on /\ current /= NoUnit)
  /\ Goto(c, "identify")
  /\ UNCHANGED <<appVars, held, guard, busVars>>

\* Mutant: the claim is not exclusive.
OpenShared(c, from, to) ==
  /\ At(c, from) /\ present
  /\ Hold(c, Era) /\ Goto(c, to)
  /\ UNCHANGED <<appVars, guard, busVars>>

\* open_transport: the exclusive claim.
Open(c, from, to) ==
  /\ At(c, from) /\ present /\ ~Claimed
  /\ Hold(c, Era) /\ Goto(c, to)
  /\ UNCHANGED <<appVars, guard, busVars>>

IdentifyOpen(c) == Open(c, "identify", "identifying") \/ Open(c, "reopen", "retrying")

\* The transport cannot be opened, or neither Sahara nor Firehose answers.
IdentifyFails(c) ==
  /\ pc[c] \in {"identify", "identifying", "reopen", "retrying"}
  /\ Hold(c, 0) /\ Return(c)
  /\ UNCHANGED <<appVars, guard, busVars>>

\* RESET_REQ was acknowledged: the transport is dropped and opened once more.
IdentifyResets(c) ==
  /\ At(c, "identifying") /\ Reaches(c) /\ ~firehose
  /\ Hold(c, 0) /\ Goto(c, "reopen")
  /\ UNCHANGED <<appVars, guard, busVars>>

\* The device answers and the blocking task ends.  Sahara tells the serial, or only
\* the other fields; Firehose tells nothing.
IdentifyAnswered(c) ==
  /\ pc[c] \in {"identifying", "retrying"} /\ Reaches(c)
  /\ IF firehose THEN GoWith(c, "naming", NoUnit, TRUE)
     ELSE \E who \in {Unit, NoUnit} : GoWith(c, "keeping", who, FALSE)
  /\ UNCHANGED <<appVars, held, guard, busVars>>

\* For Firehose the serial is that of the device detected, if it has one.
IdentifyName(c) ==
  /\ At(c, "naming")
  /\ \E who \in {current, NoUnit} : GoWith(c, "keeping", who, TRUE)
  /\ UNCHANGED <<appVars, held, guard, busVars>>

\* The transport is stored, and whatever was stored is dropped.  Sahara's answer
\* without a serial is not cached.
IdentifyStore(c) ==
  /\ At(c, "keeping")
  /\ IF ident[c] = NoUnit /\ ~resume[c] THEN Return(c) ELSE Goto(c, "caching")
  /\ sahara' = held[c] /\ Hold(c, 0)
  /\ UNCHANGED <<current, flashing, conn, connId, cache, guard, busVars>>

IdentifyCache(c) ==
  /\ At(c, "caching") /\ Return(c)
  /\ cache' = [on |-> TRUE, who |-> ident[c], firehose |-> resume[c]]
  /\ UNCHANGED <<current, flashing, conn, connId, sahara, held, guard, busVars>>

------------------------------------------------------------------------------
(* edl_connect.                                                                *)

\* "Check if already connected".
ConnectCheck(c) ==
  /\ At(c, "idle") /\ conn = 0
  /\ Goto(c, "connect")
  /\ UNCHANGED <<appVars, held, guard, busVars>>

ConnectRead(c) ==
  /\ At(c, "connect") /\ GoWith(c, "resuming", NoUnit, cache.firehose)
  /\ UNCHANGED <<appVars, held, guard, busVars>>

\* Where the blocking task starts: the programmer is uploaded over the stored or a
\* fresh transport; to resume Firehose "requires stored transport".
Stage(c) == IF sahara = 0 THEN "opening" ELSE IF resume[c] THEN "configuring" ELSE "uploading"

\* Mutant: the stored transport is used and stays in its slot.
ConnectBorrow(c) ==
  /\ At(c, "resuming") /\ Hold(c, sahara)
  /\ Goto(c, Stage(c))
  /\ UNCHANGED <<appVars, guard, busVars>>

ConnectTake(c) ==
  /\ At(c, "resuming") /\ Hold(c, sahara) /\ sahara' = 0
  /\ Goto(c, Stage(c))
  /\ UNCHANGED <<current, flashing, conn, connId, cache, guard, busVars>>

ConnectOpen(c) == ~resume[c] /\ Open(c, "opening", "uploading")

ConnectUpload(c) ==
  /\ At(c, "uploading") /\ Reaches(c) /\ ~firehose
  /\ firehose' = TRUE /\ Goto(c, "configuring")
  /\ UNCHANGED <<appVars, held, guard, units, present>>

\* Configure is sent; no answer, or an unclear one, counts as success.
ConnectConfigure(c) ==
  /\ At(c, "configuring") /\ Reaches(c)
  /\ Goto(c, "merging")
  /\ UNCHANGED <<appVars, held, guard, busVars>>

\* Any error: the transport is dropped, stored or fresh.
ConnectFails(c) ==
  /\ pc[c] \in {"opening", "uploading", "configuring"}
  /\ Hold(c, 0) /\ Return(c)
  /\ UNCHANGED <<appVars, guard, busVars>>

\* Mutant: the cache entry is taken for the identity in it.
ConnectMergeEntry(c) ==
  /\ At(c, "merging") /\ GoWith(c, "storing", cache, FALSE)
  /\ UNCHANGED <<appVars, held, guard, busVars>>

\* The identity comes from the identify cache.
ConnectMerge(c) ==
  /\ At(c, "merging") /\ GoWith(c, "storing", cache.who, FALSE)
  /\ UNCHANGED <<appVars, held, guard, busVars>>

\* Whatever connection is there by now is dropped.
ConnectStore(c) ==
  /\ At(c, "storing") /\ Return(c)
  /\ conn' = held[c] /\ connId' = ident[c] /\ Hold(c, 0)
  /\ UNCHANGED <<current, flashing, sahara, cache, guard, busVars>>

------------------------------------------------------------------------------
(* The operations on the connection: list and read, and, with a FlashGuard,     *)
(* program, erase and batch flash.  The connection is taken and put back.       *)

\* FlashGuard::try_acquire.
Acquire(c) ==
  /\ At(c, "idle") /\ ~flashing
  /\ flashing' = TRUE /\ guard' = [guard EXCEPT ![c] = TRUE]
  /\ Goto(c, "guarded")
  /\ UNCHANGED <<current, conn, connId, sahara, cache, held, busVars>>

\* The connection is moved out of AppState.
TakeConn(c, to) ==
  /\ conn /= 0
  /\ Hold(c, conn) /\ GoWith(c, to, connId, FALSE)
  /\ conn' = 0 /\ connId' = NoUnit
  /\ UNCHANGED <<current, flashing, sahara, cache, guard, busVars>>

\* edl_list_partitions and edl_read_partition take no guard.
Read(c) == At(c, "idle") /\ TakeConn(c, "operating")
Write(c) == At(c, "guarded") /\ TakeConn(c, "operating")

\* Mutant: the early return leaves the flag set.
RefuseKeepsFlag(c) ==
  /\ At(c, "guarded") /\ conn = 0
  /\ guard' = [guard EXCEPT ![c] = FALSE] /\ Return(c)
  /\ UNCHANGED <<appVars, held, busVars>>

\* FlashGuard::drop.
Unguard(c) ==
  /\ flashing' = (flashing /\ ~guard[c]) /\ guard' = [guard EXCEPT ![c] = FALSE]
  /\ Return(c)

\* "EDL not connected": the guard is dropped.
Refuse(c) ==
  /\ At(c, "guarded") /\ conn = 0
  /\ Unguard(c)
  /\ UNCHANGED <<current, conn, connId, sahara, cache, held, busVars>>

\* The operation ends, well or with an error: the connection is put back.
PutBack(c) ==
  /\ At(c, "operating") /\ GoWith(c, "finish", NoUnit, FALSE)
  /\ conn' = held[c] /\ connId' = ident[c] /\ Hold(c, 0)
  /\ UNCHANGED <<current, flashing, sahara, cache, guard, busVars>>

\* The blocking task panics and the connection with it.
Panic(c) ==
  /\ At(c, "operating") /\ GoWith(c, "panicked", NoUnit, FALSE) /\ Hold(c, 0)
  /\ UNCHANGED <<appVars, guard, busVars>>

ClearConn(c, from, to) ==
  /\ At(c, from) /\ Goto(c, to)
  /\ conn' = 0 /\ connId' = NoUnit
  /\ UNCHANGED <<current, flashing, sahara, cache, held, guard, busVars>>

\* Mutant: a panic skips what follows the operation.
AfterPanicReturns(c) == ClearConn(c, "panicked", "idle")

AfterPanic(c) == ClearConn(c, "panicked", "finish")

Finish(c) ==
  /\ At(c, "finish") /\ Unguard(c)
  /\ UNCHANGED <<current, conn, connId, sahara, cache, held, busVars>>

------------------------------------------------------------------------------
(* edl_reboot and edl_disconnect.                                               *)

Reboot(c) == At(c, "idle") /\ TakeConn(c, "rebooting")

\* The command was sent, or failed; the task ends and drops the connection.
Rebooted(c) ==
  /\ At(c, "rebooting") /\ GoWith(c, "rebooted", NoUnit, FALSE) /\ Hold(c, 0)
  /\ UNCHANGED <<appVars, guard, busVars>>

AfterReboot(c) == ClearConn(c, "rebooted", "forget")

Disconnect(c) == ClearConn(c, "idle", "forgetAll")

Forget(c) ==
  /\ \/ At(c, "forget") /\ Return(c)
     \/ At(c, "forgetAll") /\ Goto(c, "uncache")
  /\ sahara' = 0
  /\ UNCHANGED <<current, flashing, conn, connId, cache, held, guard, busVars>>

Uncache(c) ==
  /\ At(c, "uncache") /\ Return(c)
  /\ cache' = NoCache
  /\ UNCHANGED <<current, flashing, conn, connId, sahara, held, guard, busVars>>

------------------------------------------------------------------------------
(* The bus.                                                                     *)

\* A device appears: fresh, or with a programmer of an earlier session.
Plug ==
  /\ ~present /\ Era < MaxPlugs
  /\ present' = TRUE /\ firehose' \in BOOLEAN
  /\ \E u \in Units : units' = Append(units, u)
  /\ UNCHANGED <<appVars, cmdVars>>

\* It is unplugged, or it reboots.
Unplug ==
  /\ present /\ present' = FALSE
  /\ UNCHANGED <<appVars, cmdVars, units, firehose>>

------------------------------------------------------------------------------

Detect(c) == Scan(c) \/ ScanFails(c) \/ StoreDevice(c) \/ Invalidate(c)

Identify(c) ==
  IdentifyMiss(c) \/ IdentifyOpen(c) \/ IdentifyFails(c) \/ IdentifyResets(c)
    \/ IdentifyAnswered(c) \/ IdentifyName(c) \/ IdentifyStore(c) \/ IdentifyCache(c)

Connect(c) ==
  ConnectCheck(c) \/ ConnectRead(c) \/ ConnectTake(c) \/ ConnectOpen(c)
    \/ ConnectUpload(c) \/ ConnectConfigure(c) \/ ConnectFails(c)
    \/ ConnectMerge(c) \/ ConnectStore(c)

Operate(c) ==
  Acquire(c) \/ Read(c) \/ Write(c) \/ Refuse(c) \/ PutBack(c) \/ Panic(c)
    \/ AfterPanic(c) \/ Finish(c)

Leave(c) ==
  Reboot(c) \/ Rebooted(c) \/ AfterReboot(c) \/ Disconnect(c) \/ Forget(c) \/ Uncache(c)

Next ==
  \/ \E c \in Cmds : Detect(c) \/ Identify(c) \/ Connect(c) \/ Operate(c) \/ Leave(c)
  \/ Plug \/ Unplug

\* A command that has the guard goes on, and its transfers fail when the device is
\* gone; a device that is there may never answer (transfers have no time limit).
Unblocked(c) ==
  \/ Write(c) \/ Refuse(c) \/ AfterPanic(c) \/ Finish(c)
  \/ (~Reaches(c) /\ (PutBack(c) \/ Panic(c)))

Spec == Init /\ [][Next]_vars /\ \A c \in Cmds : WF_vars(Unblocked(c))

------------------------------------------------------------------------------
(* Properties.                                                                  *)

UnitOrNone == Units \cup {NoUnit}

TypeOK ==
  /\ current \in UnitOrNone /\ flashing \in BOOLEAN
  /\ conn \in Nat /\ connId \in UnitOrNone /\ sahara \in Nat
  /\ cache \in [on : BOOLEAN, who : UnitOrNone, firehose : BOOLEAN]
  /\ pc \in [Cmds -> PCs] /\ held \in [Cmds -> Nat]
  /\ ident \in [Cmds -> UnitOrNone] /\ resume \in [Cmds -> BOOLEAN]
  /\ guard \in [Cmds -> BOOLEAN]
  /\ units \in Seq(Units) /\ present \in BOOLEAN /\ firehose \in BOOLEAN

\* A transport is in one place: the connection, the transport left by identify, or
\* one command's blocking task.  No two tasks ever talk to the device at once.
OneOwner ==
  /\ conn /= 0 => conn /= sahara
  /\ \A c \in Cmds : held[c] /= 0 =>
       /\ held[c] /= conn /\ held[c] /= sahara
       /\ \A d \in Cmds : held[d] = held[c] => d = c

\* "Another operation is in progress" is said if and only if one is: the flag is set
\* while exactly one command has a guard, and every path of it, panics and early
\* returns included, clears it.
GuardExact ==
  /\ flashing = (\E c \in Cmds : guard[c])
  /\ \A c, d \in Cmds : guard[c] /\ guard[d] => c = d
  /\ \A c \in Cmds : guard[c] => pc[c] \in {"guarded", "operating", "panicked", "finish"}

\* Unplugging the device ends the operation that holds the guard.
UnplugFreesGuard == (~present /\ flashing) ~> (present \/ ~flashing)

\* "detect_device already invalidates on device change": when nothing is under way,
\* the identity that edl_identify would return is the detected device's.
CacheIsCurrent ==
  (\A c \in Cmds : pc[c] = "idle") /\ cache.who /= NoUnit /\ current /= NoUnit
    => cache.who = current

Owner ==
  IF Era = 0 THEN "free"
  ELSE IF conn = Era THEN "connected"
  ELSE IF sahara = Era THEN "stored"
  ELSE IF \E c \in Cmds : held[c] = Era THEN CHOOSE c \in Cmds : held[c] = Era
  ELSE "free"

\* The commands implement the ownership of the device on the bus.
Ownership == INSTANCE EdlOwner WITH owner <- Owner, loaded <- firehose
ImplementsOwner == Ownership!Spec
==============================================================================
