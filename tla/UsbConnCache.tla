---------------------------- MODULE UsbConnCache -----------------------------
(***************************************************************************)
(* The cache of authenticated ADB-over-USB connections of                   *)
(* protocols/adb_usb.rs, for one device serial, and the threads that go     *)
(* through it with adb_connect of protocols/adb/mod.rs.                     *)
(*                                                                          *)
(* One mutex guards the cache and is held for a whole connection            *)
(* establishment.  A connection is the Arc<UsbDispatcher> that the cache    *)
(* entry, the openers and the streams share: the last one to drop it joins  *)
(* the reader thread (Drop of UsbDispatcher), holding whatever locks it     *)
(* holds.  A reader is blocked in bulk IN and tests its shutdown flag only  *)
(* after the device has sent something or gone away, as UsbFraming shows.   *)
(*                                                                          *)
(* What a stream does on its connection is the subject of UsbDispatcher.    *)
(***************************************************************************)
EXTENDS Integers

CONSTANTS
  Threads,     \* blocking threads that run device operations
  Conns,       \* identities of connections; bounds how many are established
  NoThread, NoConn,
  Refuses,     \* whether the device may answer OPEN with CLSE
  MaxReplugs   \* bound: times the device comes back on the bus

ASSUME CacheAssumption ==
  /\ NoThread \notin Threads
  /\ NoConn \notin Conns
  /\ Refuses \in BOOLEAN
  /\ MaxReplugs \in Nat

VARIABLES
  lock,     \* owner of the cache mutex
  cache,    \* the entry of the serial: a connection or NoConn
  made,     \* connections whose dispatcher was started
  flag,     \* flag[c]: the shutdown flag; is_alive is its negation
  rd,       \* rd[c]: reader thread "running", "ending", "stopped"
  users,    \* users[c]: threads that hold the Arc (the cache's is cache = c)
  epoch,    \* epoch[c]: which appearance of the device c talks to
  pc,       \* pc[t]: progress of the thread
  mine,     \* mine[t]: the connection t opens a stream or has a stream on
  attempt,  \* attempt[t]: 1 or 2 inside adb_connect, 0 outside
  failed,   \* failed[t]: the connection t saw fail last
  joins,    \* joins[t]: the connection whose reader t is joining
  plugged,  \* the device is on the bus
  era       \* number of the device's current or last appearance

connVars == <<cache, made, flag, rd, users, epoch>>
threadVars == <<pc, mine, attempt, failed>>
busVars == <<plugged, era>>
vars == <<lock, connVars, threadVars, joins, busVars>>

PCs == {"idle", "connect", "lookup", "claim", "handshake", "opening", "using",
        "leaving", "evict", "evicted"}
\* Inside the critical section of the cache mutex.
Holding == {"lookup", "claim", "handshake", "evicted"}

Init ==
  /\ lock = NoThread /\ cache = NoConn /\ made = {}
  /\ flag = [c \in Conns |-> FALSE] /\ rd = [c \in Conns |-> "stopped"]
  /\ users = [c \in Conns |-> {}] /\ epoch = [c \in Conns |-> 0]
  /\ pc = [t \in Threads |-> "idle"] /\ mine = [t \in Threads |-> NoConn]
  /\ attempt = [t \in Threads |-> 0] /\ failed = [t \in Threads |-> NoConn]
  /\ joins = [t \in Threads |-> NoConn]
  /\ plugged = TRUE /\ era = 0

Goto(t, l) == pc' = [pc EXCEPT ![t] = l]
Free(t) == joins[t] = NoConn
Present(c) == plugged /\ epoch[c] = era

\* The interface stays claimed while the reader or an Arc holds a clone of it.
Claimed(c) == c \in made /\ (rd[c] /= "stopped" \/ users[c] /= {} \/ cache = c)

\* Thread t drops an Arc of c, after which the users of c are `left` and the cache
\* entry is `entry`: the last one sets the flag and joins the reader.
DropArc(t, c, left, entry) ==
  /\ users' = [users EXCEPT ![c] = left]
  /\ cache' = entry
  /\ IF left = {} /\ entry /= c
       THEN flag' = [flag EXCEPT ![c] = TRUE] /\ joins' = [joins EXCEPT ![t] = c]
       ELSE UNCHANGED <<flag, joins>>

\* The end of Drop of the dispatcher: handle.join() returns.
Joined(t) ==
  /\ joins[t] /= NoConn /\ rd[joins[t]] = "stopped"
  /\ joins' = [joins EXCEPT ![t] = NoConn]
  /\ UNCHANGED <<lock, connVars, threadVars, busVars>>

------------------------------------------------------------------------------
(* adb_usb_connect, called by adb_connect.                                  *)

\* A device operation starts: the first attempt of adb_connect.
Begin(t) ==
  /\ pc[t] = "idle" /\ Free(t)
  /\ Goto(t, "connect")
  /\ attempt' = [attempt EXCEPT ![t] = 1]
  /\ failed' = [failed EXCEPT ![t] = NoConn]
  /\ UNCHANGED <<lock, connVars, mine, joins, busVars>>

LockCache(t) ==
  /\ pc[t] = "connect" /\ Free(t) /\ lock = NoThread
  /\ lock' = t /\ Goto(t, "lookup")
  /\ UNCHANGED <<connVars, mine, attempt, failed, joins, busVars>>

\* Return a connection: one more Arc for t, and the mutex is released.
Return(t, c) ==
  /\ users' = [users EXCEPT ![c] = @ \cup {t}]
  /\ mine' = [mine EXCEPT ![t] = c]
  /\ lock' = NoThread /\ Goto(t, "opening")
  /\ UNCHANGED <<attempt, failed, joins, busVars>>

\* "Reusing cached USB connection".
Hit(t) ==
  /\ pc[t] = "lookup" /\ cache /= NoConn /\ ~flag[cache]
  /\ Return(t, cache)
  /\ UNCHANGED <<cache, made, flag, rd, epoch>>

\* "Cached dispatcher is dead": the entry is dropped, the mutex stays held.
Dead(t) ==
  /\ pc[t] = "lookup" /\ cache /= NoConn /\ flag[cache]
  /\ DropArc(t, cache, users[cache], NoConn)
  /\ Goto(t, "claim")
  /\ UNCHANGED <<lock, made, rd, epoch, mine, attempt, failed, busVars>>

Miss(t) ==
  /\ pc[t] = "lookup" /\ cache = NoConn
  /\ Goto(t, "claim")
  /\ UNCHANGED <<lock, connVars, mine, attempt, failed, joins, busVars>>

\* Someone still has this appearance of the device claimed.
Busy ==
  \/ \E c \in Conns : Claimed(c) /\ Present(c)
  \/ \E t \in Threads : pc[t] = "handshake"

\* Mutant: the mutex is not held for the handshake.
ClaimUnlocks(t) ==
  /\ pc[t] = "claim" /\ Free(t) /\ plugged /\ ~Busy
  /\ lock' = NoThread /\ Goto(t, "handshake")
  /\ UNCHANGED <<connVars, mine, attempt, failed, joins, busVars>>

Claim(t) ==
  /\ pc[t] = "claim" /\ Free(t) /\ plugged /\ ~Busy
  /\ Goto(t, "handshake")
  /\ UNCHANGED <<lock, connVars, mine, attempt, failed, joins, busVars>>

\* An error return of adb_usb_connect: adb_connect goes on to invalidate.
ConnectError(t) ==
  /\ lock' = NoThread /\ Goto(t, "evict")
  /\ UNCHANGED <<connVars, mine, attempt, failed, joins, busVars>>

\* The device is not on the bus, or the interface is claimed by someone else.
ClaimFails(t) ==
  /\ pc[t] = "claim" /\ Free(t) /\ (~plugged \/ Busy)
  /\ ConnectError(t)

\* CNXN and AUTH succeed, the reader starts, the connection is cached.
HandshakeDone(t) ==
  /\ pc[t] = "handshake" /\ plugged
  /\ \E c \in Conns \ made :
       /\ made' = made \cup {c}
       /\ rd' = [rd EXCEPT ![c] = "running"]
       /\ epoch' = [epoch EXCEPT ![c] = era]
       /\ cache' = c
       /\ Return(t, c)
  /\ UNCHANGED flag

\* Send or read error, too many stale messages, authorisation refused.
HandshakeFails(t) == pc[t] = "handshake" /\ ConnectError(t)

------------------------------------------------------------------------------
(* adb_usb_open and the life of the stream.                                 *)

\* The device answers OPEN.  The reader routes the answer even when its flag is
\* already set, and only then looks at the flag.
Answered(c) ==
  /\ rd[c] = "running" /\ Present(c)
  /\ rd' = [rd EXCEPT ![c] = IF flag[c] THEN "ending" ELSE @]

OpenOk(t) ==
  /\ pc[t] = "opening" /\ Answered(mine[t])
  /\ Goto(t, "using")
  /\ attempt' = [attempt EXCEPT ![t] = 0]
  /\ UNCHANGED <<lock, cache, made, flag, users, epoch, mine, failed, joins, busVars>>

\* The error return of adb_usb_open: the UsbConnection it was given is dropped.
OpenError(t) ==
  /\ DropArc(t, mine[t], users[mine[t]] \ {t}, cache)
  /\ failed' = [failed EXCEPT ![t] = mine[t]]
  /\ mine' = [mine EXCEPT ![t] = NoConn]
  /\ UNCHANGED <<lock, made, epoch, busVars>>

\* Mutant: the retry starts without invalidating the connection that failed.
OpenFailsKeepsEntry(t) ==
  /\ pc[t] = "opening" /\ attempt[t] = 1
  /\ OpenError(t)
  /\ Goto(t, "connect") /\ attempt' = [attempt EXCEPT ![t] = 2]
  /\ UNCHANGED rd

\* A failed send, a timeout, or "USB dispatcher stopped during OPEN".
OpenFails(t) ==
  /\ pc[t] = "opening"
  /\ OpenError(t)
  /\ Goto(t, "evict")
  /\ UNCHANGED <<rd, attempt>>

\* "Device refused to open service".
OpenRefused(t) ==
  /\ Refuses /\ pc[t] = "opening" /\ Answered(mine[t])
  /\ OpenError(t)
  /\ Goto(t, "evict")
  /\ UNCHANGED attempt

\* A transfer reports DeviceDisconnected (shell.rs): invalidate, then give up.
UseFails(t) ==
  /\ pc[t] = "using" /\ rd[mine[t]] = "stopped"
  /\ Goto(t, "evict")
  /\ failed' = [failed EXCEPT ![t] = mine[t]]
  /\ UNCHANGED <<lock, connVars, mine, attempt, joins, busVars>>

\* The stream is dropped; find_sideload_device drops a connection it only looked at.
Release(t) ==
  /\ pc[t] \in {"opening", "using", "leaving"}
  /\ DropArc(t, mine[t], users[mine[t]] \ {t}, cache)
  /\ mine' = [mine EXCEPT ![t] = NoConn]
  /\ attempt' = [attempt EXCEPT ![t] = 0]
  /\ Goto(t, "idle")
  /\ UNCHANGED <<lock, made, rd, epoch, failed, busVars>>

------------------------------------------------------------------------------
(* invalidate_usb_cache and clear_usb_cache.                                *)

\* clear_usb_cache, called for a reboot and by find_sideload_device.
BeginClear(t) ==
  /\ pc[t] = "idle" /\ Free(t)
  /\ Goto(t, "evict")
  /\ failed' = [failed EXCEPT ![t] = NoConn]
  /\ UNCHANGED <<lock, connVars, mine, attempt, joins, busVars>>

\* Mutant: the entry is removed and its dispatcher not shut down.
EvictSilently(t) ==
  /\ pc[t] = "evict" /\ Free(t) /\ lock = NoThread
  /\ lock' = t /\ Goto(t, "evicted") /\ cache' = NoConn
  /\ UNCHANGED <<made, flag, rd, users, epoch, mine, attempt, failed, joins, busVars>>

\* Under the mutex: remove the entry, shut its dispatcher down, drop its Arc.
Evict(t) ==
  /\ pc[t] = "evict" /\ Free(t) /\ lock = NoThread
  /\ lock' = t /\ Goto(t, "evicted") /\ cache' = NoConn
  /\ IF cache = NoConn
       THEN UNCHANGED <<flag, joins>>
       ELSE /\ flag' = [flag EXCEPT ![cache] = TRUE]
            /\ joins' = IF users[cache] = {} THEN [joins EXCEPT ![t] = cache] ELSE joins
  /\ UNCHANGED <<made, rd, users, epoch, mine, attempt, failed, busVars>>

\* Mutant: one attempt too many.
AfterThree(t) ==
  IF attempt[t] \in 1..2
    THEN Goto(t, "connect") /\ attempt' = [attempt EXCEPT ![t] = @ + 1]
    ELSE /\ Goto(t, IF mine[t] = NoConn THEN "idle" ELSE "leaving")
         /\ attempt' = [attempt EXCEPT ![t] = 0]

\* The first attempt is retried; after the second USB is given up (an error, or the
\* ADB server); a stream that failed is dropped.
After(t) ==
  IF attempt[t] = 1
    THEN Goto(t, "connect") /\ attempt' = [attempt EXCEPT ![t] = 2]
    ELSE /\ Goto(t, IF mine[t] = NoConn THEN "idle" ELSE "leaving")
         /\ attempt' = [attempt EXCEPT ![t] = 0]

Unlock(t) ==
  /\ pc[t] = "evicted" /\ Free(t)
  /\ lock' = NoThread /\ After(t)
  /\ UNCHANGED <<connVars, mine, failed, joins, busVars>>

------------------------------------------------------------------------------
(* The readers and the bus.                                                 *)

\* Mutant: a reader takes the disconnect for a timeout.
RdFailsIgnored(c) ==
  /\ rd[c] = "running" /\ ~Present(c) /\ flag[c]
  /\ UNCHANGED vars

\* DeviceDisconnected: the flag is set, the registry is cleared, the loop ends.
RdFails(c) ==
  /\ rd[c] = "running" /\ ~Present(c)
  /\ rd' = [rd EXCEPT ![c] = "ending"] /\ flag' = [flag EXCEPT ![c] = TRUE]
  /\ UNCHANGED <<lock, cache, made, users, epoch, threadVars, joins, busVars>>

\* Any other read error of a device that is there.
RdError(c) ==
  /\ rd[c] = "running" /\ Present(c)
  /\ rd' = [rd EXCEPT ![c] = "ending"] /\ flag' = [flag EXCEPT ![c] = TRUE]
  /\ UNCHANGED <<lock, cache, made, users, epoch, threadVars, joins, busVars>>

\* The device sends something and the reader finds its flag set.
RdNotices(c) ==
  /\ rd[c] = "running" /\ Present(c) /\ flag[c]
  /\ rd' = [rd EXCEPT ![c] = "ending"]
  /\ UNCHANGED <<lock, cache, made, flag, users, epoch, threadVars, joins, busVars>>

\* The thread ends.
RdEnds(c) ==
  /\ rd[c] = "ending"
  /\ rd' = [rd EXCEPT ![c] = "stopped"]
  /\ UNCHANGED <<lock, cache, made, flag, users, epoch, threadVars, joins, busVars>>

Unplug ==
  /\ plugged /\ plugged' = FALSE
  /\ UNCHANGED <<lock, connVars, threadVars, joins, era>>

Replug ==
  /\ ~plugged /\ era < MaxReplugs
  /\ plugged' = TRUE /\ era' = era + 1
  /\ UNCHANGED <<lock, connVars, threadVars, joins>>

------------------------------------------------------------------------------

\* Steps inside the critical section and the end of a join: nothing but the
\* handshake and the reader that is joined can hold them up.
Critical(t) ==
  \/ Hit(t) \/ Dead(t) \/ Miss(t) \/ Claim(t) \/ ClaimFails(t) \/ Unlock(t) \/ Joined(t)
  \/ (~plugged /\ HandshakeFails(t))

Shake(t) == HandshakeDone(t) \/ (plugged /\ HandshakeFails(t))

Open(t) == OpenOk(t) \/ OpenFails(t) \/ OpenRefused(t) \/ UseFails(t) \/ Release(t)

Start(t) == Begin(t) \/ BeginClear(t) \/ LockCache(t) \/ Evict(t)

Reader(c) == RdFails(c) \/ RdEnds(c)

Next ==
  \/ \E t \in Threads : Critical(t) \/ Shake(t) \/ Open(t) \/ Start(t)
  \/ \E c \in Conns : Reader(c) \/ RdError(c) \/ RdNotices(c)
  \/ Unplug \/ Replug

\* A thread inside the mutex keeps running and a reader sees its device go away.
\* No fairness for the device's answers, for the user, or for taking the mutex.
Fairness ==
  /\ \A t \in Threads : WF_vars(Critical(t))
  /\ \A c \in Conns : WF_vars(Reader(c))

Spec == Init /\ [][Next]_vars /\ Fairness

------------------------------------------------------------------------------
(* Properties.                                                              *)

TypeOK ==
  /\ lock \in Threads \cup {NoThread} /\ cache \in Conns \cup {NoConn}
  /\ made \subseteq Conns /\ flag \in [Conns -> BOOLEAN]
  /\ rd \in [Conns -> {"running", "ending", "stopped"}]
  /\ users \in [Conns -> SUBSET Threads] /\ epoch \in [Conns -> Nat]
  /\ pc \in [Threads -> PCs] /\ mine \in [Threads -> Conns \cup {NoConn}]
  /\ attempt \in [Threads -> 0..2] /\ failed \in [Threads -> Conns \cup {NoConn}]
  /\ joins \in [Threads -> Conns \cup {NoConn}]
  /\ plugged \in BOOLEAN /\ era \in Nat

\* A connection that was not shut down is the cached one: at most one dispatcher
\* per device is alive, and the next operation finds it.
HealthyIsCached == \A c \in made : ~flag[c] => cache = c

\* "Second thread waits while first completes, then reuses": a thread about to claim
\* the interface never finds it held by a handshake or by a connection that is in
\* good order, only by one that was shut down and is still in use.
ClaimUncontended ==
  \A t \in Threads : pc[t] = "claim" =>
    /\ \A u \in Threads : pc[u] /= "handshake"
    /\ \A c \in Conns : Claimed(c) => flag[c]

\* "Retrying with fresh USB connection": the second attempt never gets the
\* connection on which the first one failed, whoever else connects in between.
RetryIsFresh ==
  \A t \in Threads :
    attempt[t] = 2 /\ mine[t] /= NoConn => mine[t] /= failed[t]

\* Whatever happens on the bus, unplugging the device gets the mutex released:
\* joining a reader under the mutex and a handshake both end with the device.
UnplugFreesLock == (~plugged /\ lock /= NoThread) ~> (lock = NoThread \/ plugged)

\* "Give the reader time to finish (it has a 5s read timeout)": the join of Drop
\* ends by itself.
JoinEnds == \A t \in Threads : joins[t] /= NoConn ~> joins[t] = NoConn
==============================================================================
