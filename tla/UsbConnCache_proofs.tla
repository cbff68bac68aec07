------------------------ MODULE UsbConnCache_proofs --------------------------
(***************************************************************************)
(* Proofs about UsbConnCache, for any number of threads, connections and    *)
(* reappearances of the device.  The inductive invariant IInv says what the *)
(* cache mutex protects: whoever is about to claim the interface, shakes    *)
(* hands or has just evicted the entry owns the mutex and there is no       *)
(* entry, so (HealthyIsCached) every connection made so far was shut down.  *)
(***************************************************************************)
EXTENDS UsbConnCache, TLAPS

------------------------------------------------------------------------------
(* What dropping an Arc does to the rest of the state.                      *)

\* DropArc leaves a well-typed state and never clears a shutdown flag.
LEMMA DropArcEffect ==
  ASSUME TypeOK, NEW t \in Threads, NEW c \in Conns,
         NEW left \in SUBSET Threads, NEW entry \in Conns \cup {NoConn},
         DropArc(t, c, left, entry)
  PROVE  /\ users' \in [Conns -> SUBSET Threads]
         /\ cache' = entry
         /\ flag' \in [Conns -> BOOLEAN]
         /\ \A d \in Conns : flag[d] => flag'[d]
         /\ joins' \in [Threads -> Conns \cup {NoConn}]
  BY DEF DropArc, TypeOK


------------------------------------------------------------------------------
(* The inductive invariant, conjunct by conjunct.                           *)

\* The critical section of the cache mutex is exclusive.
Mutex == \A t \in Threads : pc[t] \in Holding => lock = t

\* From the lookup's miss on, and after an eviction, there is no entry.
NoEntryInside ==
  \A t \in Threads : pc[t] \in {"claim", "handshake", "evicted"} => cache = NoConn

\* Nobody refers to a connection that was never made.
OnlyMade ==
  /\ cache \in made \cup {NoConn}
  /\ \A t \in Threads : /\ mine[t] \in made \cup {NoConn}
                        /\ failed[t] \in made \cup {NoConn}

\* A thread has a connection from the return of adb_usb_connect to its release;
\* it keeps it during the invalidation of UseFails, outside adb_connect.
Owning ==
  \A t \in Threads :
    /\ pc[t] \in {"opening", "using", "leaving"} => mine[t] /= NoConn
    /\ pc[t] \in {"idle", "connect", "lookup", "claim", "handshake"} => mine[t] = NoConn
    /\ pc[t] \in {"evict", "evicted"} /\ mine[t] /= NoConn => attempt[t] = 0
    /\ pc[t] = "using" => attempt[t] = 0

\* During the second attempt the connection of the first one is shut down.
FailedIsDead ==
  \A t \in Threads :
    attempt[t] = 2 /\ failed[t] /= NoConn /\ pc[t] \notin {"evict", "evicted"}
      => flag[failed[t]]

IInv == TypeOK /\ Mutex /\ NoEntryInside /\ OnlyMade /\ Owning /\ HealthyIsCached
          /\ FailedIsDead /\ RetryIsFresh
------------------------------------------------------------------------------

\* A thread that gives its connection up leaves the cache entry alone.
LEMMA GiveUpEffect ==
  ASSUME TypeOK, Owning, NEW t \in Threads,
         pc[t] \in {"opening", "using", "leaving"},
         DropArc(t, mine[t], users[mine[t]] \ {t}, cache)
  PROVE  /\ mine[t] \in Conns
         /\ users' \in [Conns -> SUBSET Threads]
         /\ cache' = cache
         /\ flag' \in [Conns -> BOOLEAN]
         /\ \A d \in Conns : flag[d] => flag'[d]
         /\ joins' \in [Threads -> Conns \cup {NoConn}]
<1>1. mine[t] \in Conns
  BY DEF TypeOK, Owning
<1>2. users[mine[t]] \ {t} \in SUBSET Threads
  BY <1>1 DEF TypeOK
<1>3. cache \in Conns \cup {NoConn}
  BY DEF TypeOK
<1>4. QED
  BY <1>1, <1>2, <1>3, DropArcEffect

\* Every step keeps the types; Owning says that the connection given up is one.
LEMMA TypeStep == TypeOK /\ Owning /\ [Next]_vars => TypeOK'
<1> SUFFICES ASSUME TypeOK, Owning, [Next]_vars PROVE TypeOK'
  OBVIOUS
<1> USE DEF TypeOK, connVars, threadVars, busVars, PCs
<1>1. QED
  <2>1. ASSUME NEW t \in Threads, Hit(t) PROVE TypeOK'
    BY <2>1 DEF Hit, Return, Goto
  <2>2. ASSUME NEW t \in Threads, Dead(t) PROVE TypeOK'
    BY <2>2, DropArcEffect DEF Dead, Goto
  <2>3. ASSUME NEW t \in Threads, Miss(t) PROVE TypeOK'
    BY <2>3 DEF Miss, Goto
  <2>4. ASSUME NEW t \in Threads, Claim(t) PROVE TypeOK'
    BY <2>4 DEF Claim, Goto
  <2>5. ASSUME NEW t \in Threads, ClaimFails(t) PROVE TypeOK'
    BY <2>5 DEF ClaimFails, ConnectError, Goto
  <2>6. ASSUME NEW t \in Threads, Unlock(t) PROVE TypeOK'
    BY <2>6 DEF Unlock, After, Goto
  <2>7. ASSUME NEW t \in Threads, Joined(t) PROVE TypeOK'
    BY <2>7 DEF Joined
  <2>8. ASSUME NEW t \in Threads, HandshakeFails(t) PROVE TypeOK'
    BY <2>8 DEF HandshakeFails, ConnectError, Goto
  <2>9. ASSUME NEW t \in Threads, HandshakeDone(t) PROVE TypeOK'
    BY <2>9 DEF HandshakeDone, Return, Goto
  <2>10. ASSUME NEW t \in Threads, OpenOk(t) PROVE TypeOK'
    BY <2>10 DEF Owning, OpenOk, Answered, Goto
  <2>11. ASSUME NEW t \in Threads, OpenFails(t) PROVE TypeOK'
    BY <2>11, GiveUpEffect DEF OpenFails, OpenError, Goto
  <2>12. ASSUME NEW t \in Threads, OpenRefused(t) PROVE TypeOK'
    BY <2>12, GiveUpEffect DEF OpenRefused, OpenError, Answered, Goto
  <2>13. ASSUME NEW t \in Threads, UseFails(t) PROVE TypeOK'
    BY <2>13 DEF UseFails, Goto
  <2>14. ASSUME NEW t \in Threads, Release(t) PROVE TypeOK'
    BY <2>14, GiveUpEffect DEF Release, Goto
  <2>15. ASSUME NEW t \in Threads, Begin(t) PROVE TypeOK'
    BY <2>15 DEF Begin, Goto
  <2>16. ASSUME NEW t \in Threads, BeginClear(t) PROVE TypeOK'
    BY <2>16 DEF BeginClear, Goto
  <2>17. ASSUME NEW t \in Threads, LockCache(t) PROVE TypeOK'
    BY <2>17 DEF LockCache, Goto
  <2>18. ASSUME NEW t \in Threads, Evict(t) PROVE TypeOK'
    BY <2>18 DEF Evict, Goto
  <2>19. ASSUME NEW c \in Conns, RdFails(c) PROVE TypeOK'
    BY <2>19 DEF RdFails
  <2>20. ASSUME NEW c \in Conns, RdEnds(c) PROVE TypeOK'
    BY <2>20 DEF RdEnds
  <2>21. ASSUME NEW c \in Conns, RdError(c) PROVE TypeOK'
    BY <2>21 DEF RdError
  <2>22. ASSUME NEW c \in Conns, RdNotices(c) PROVE TypeOK'
    BY <2>22 DEF RdNotices
  <2>23. CASE Unplug
    BY <2>23 DEF Unplug
  <2>24. CASE Replug
    BY <2>24 DEF Replug
  <2>25. CASE UNCHANGED vars
    BY <2>25 DEF vars
  <2>26. QED
    BY <2>1, <2>2, <2>3, <2>4, <2>5, <2>6, <2>7, <2>8, <2>9, <2>10, <2>11, <2>12, <2>13, <2>14, <2>15, <2>16, <2>17, <2>18, <2>19, <2>20, <2>21, <2>22, <2>23, <2>24, <2>25
    DEF Next, Critical, Shake, Open, Start, Reader

\* The conjuncts of IInv beyond the types.
RestOfIInv == Mutex /\ NoEntryInside /\ OnlyMade /\ Owning /\ HealthyIsCached
                /\ FailedIsDead /\ RetryIsFresh

\* Every step keeps the rest of the invariant.
LEMMA RestStep == IInv /\ [Next]_vars => RestOfIInv'
<1> SUFFICES ASSUME IInv, [Next]_vars PROVE RestOfIInv'
  OBVIOUS
<1>1. TypeOK'
  BY TypeStep DEF IInv
<1> USE CacheAssumption DEF IInv, RestOfIInv, Mutex, NoEntryInside, OnlyMade, Owning, HealthyIsCached,
        FailedIsDead, RetryIsFresh, Holding, connVars, threadVars, busVars
<1>2. QED
  <2>1. ASSUME NEW t \in Threads, Hit(t) PROVE RestOfIInv'
    BY <2>1 DEF TypeOK, Hit, Return, Goto
  <2>2. ASSUME NEW t \in Threads, Dead(t) PROVE RestOfIInv'
    <3>1. cache \in Conns /\ users[cache] \in SUBSET Threads /\ DropArc(t, cache, users[cache], NoConn)
      BY <2>2 DEF TypeOK, Dead
    <3>2. cache' = NoConn /\ \A d \in Conns : flag[d] => flag'[d]
      BY <3>1, DropArcEffect
    <3>3. QED
      BY <2>2, <3>2 DEF TypeOK, Dead, Goto
  <2>3. ASSUME NEW t \in Threads, Miss(t) PROVE RestOfIInv'
    BY <2>3 DEF TypeOK, Miss, Goto
  <2>4. ASSUME NEW t \in Threads, Claim(t) PROVE RestOfIInv'
    BY <2>4 DEF TypeOK, Claim, Goto
  <2>5. ASSUME NEW t \in Threads, ClaimFails(t) PROVE RestOfIInv'
    BY <2>5 DEF TypeOK, ClaimFails, ConnectError, Goto
  <2>6. ASSUME NEW t \in Threads, Unlock(t) PROVE RestOfIInv'
    BY <2>6 DEF TypeOK, Unlock, After, Goto
  <2>7. ASSUME NEW t \in Threads, Joined(t) PROVE RestOfIInv'
    BY <2>7 DEF TypeOK, Joined
  <2>8. ASSUME NEW t \in Threads, HandshakeFails(t) PROVE RestOfIInv'
    BY <2>8 DEF TypeOK, HandshakeFails, ConnectError, Goto
  <2>9. ASSUME NEW t \in Threads, HandshakeDone(t) PROVE RestOfIInv'
    BY <2>9 DEF TypeOK, HandshakeDone, Return, Goto
  <2>10. ASSUME NEW t \in Threads, OpenOk(t) PROVE RestOfIInv'
    BY <2>10 DEF TypeOK, OpenOk, Answered, Goto
  <2>11. ASSUME NEW t \in Threads, OpenFails(t) PROVE RestOfIInv'
    BY <2>11, GiveUpEffect DEF TypeOK, OpenFails, OpenError, Goto
  <2>12. ASSUME NEW t \in Threads, OpenRefused(t) PROVE RestOfIInv'
    BY <2>12, GiveUpEffect DEF TypeOK, OpenRefused, OpenError, Answered, Goto
  <2>13. ASSUME NEW t \in Threads, UseFails(t) PROVE RestOfIInv'
    BY <2>13 DEF TypeOK, UseFails, Goto
  <2>14. ASSUME NEW t \in Threads, Release(t) PROVE RestOfIInv'
    BY <2>14, GiveUpEffect DEF TypeOK, Release, Goto
  <2>15. ASSUME NEW t \in Threads, Begin(t) PROVE RestOfIInv'
    BY <2>15 DEF TypeOK, Begin, Goto
  <2>16. ASSUME NEW t \in Threads, BeginClear(t) PROVE RestOfIInv'
    BY <2>16 DEF TypeOK, BeginClear, Goto
  <2>17. ASSUME NEW t \in Threads, LockCache(t) PROVE RestOfIInv'
    BY <2>17 DEF TypeOK, LockCache, Goto
  <2>18. ASSUME NEW t \in Threads, Evict(t) PROVE RestOfIInv'
    BY <2>18 DEF TypeOK, Evict, Goto
  <2>19. ASSUME NEW c \in Conns, RdFails(c) PROVE RestOfIInv'
    BY <2>19 DEF TypeOK, RdFails
  <2>20. ASSUME NEW c \in Conns, RdEnds(c) PROVE RestOfIInv'
    BY <2>20 DEF TypeOK, RdEnds
  <2>21. ASSUME NEW c \in Conns, RdError(c) PROVE RestOfIInv'
    BY <2>21 DEF TypeOK, RdError
  <2>22. ASSUME NEW c \in Conns, RdNotices(c) PROVE RestOfIInv'
    BY <2>22 DEF TypeOK, RdNotices
  <2>23. CASE Unplug
    BY <2>23 DEF Unplug
  <2>24. CASE Replug
    BY <2>24 DEF Replug
  <2>25. CASE UNCHANGED vars
    BY <2>25 DEF vars
  <2>26. QED
    BY <2>1, <2>2, <2>3, <2>4, <2>5, <2>6, <2>7, <2>8, <2>9, <2>10, <2>11, <2>12, <2>13, <2>14, <2>15, <2>16, <2>17, <2>18, <2>19, <2>20, <2>21, <2>22, <2>23, <2>24, <2>25
    DEF Next, Critical, Shake, Open, Start, Reader

------------------------------------------------------------------------------

LEMMA Initially == Init => IInv
BY CacheAssumption
DEF Init, IInv, TypeOK, PCs, Mutex, NoEntryInside, OnlyMade, Owning, HealthyIsCached,
    FailedIsDead, RetryIsFresh, Holding

\* IInv is inductive.
THEOREM Invariance == Spec => []IInv
<1>1. IInv /\ [Next]_vars => IInv'
  <2> SUFFICES ASSUME IInv, [Next]_vars PROVE IInv'
    OBVIOUS
  <2>1. TypeOK'
    BY TypeStep DEF IInv
  <2>2. RestOfIInv'
    BY RestStep
  <2>3. QED
    BY <2>1, <2>2 DEF IInv, RestOfIInv
<1>2. QED
  BY Initially, <1>1, PTL DEF Spec

\* Type correctness, for any number of threads, connections and reappearances.
THEOREM TypeCorrect == Spec => []TypeOK
<1>1. IInv => TypeOK
  BY DEF IInv
<1>2. QED
  BY Invariance, <1>1, PTL

\* At most one dispatcher is alive: every connection not shut down is the cached one.
THEOREM OneAliveConnection == Spec => []HealthyIsCached
<1>1. IInv => HealthyIsCached
  BY DEF IInv
<1>2. QED
  BY Invariance, <1>1, PTL

\* The retry of adb_connect never gets the connection its first attempt failed on.
THEOREM FreshRetry == Spec => []RetryIsFresh
<1>1. IInv => RetryIsFresh
  BY DEF IInv
<1>2. QED
  BY Invariance, <1>1, PTL

\* A thread about to claim the interface finds no handshake under way, and the
\* interface held by connections only that were shut down.
THEOREM NoSelfContention == Spec => []ClaimUncontended
<1>1. IInv => ClaimUncontended
  <2> SUFFICES ASSUME IInv, NEW t \in Threads, pc[t] = "claim"
               PROVE  /\ \A u \in Threads : pc[u] /= "handshake"
                      /\ \A c \in Conns : Claimed(c) => flag[c]
    BY DEF ClaimUncontended
  <2>1. ASSUME NEW u \in Threads PROVE pc[u] /= "handshake"
    BY <2>1, CacheAssumption DEF IInv, Mutex, Holding
  <2>2. ASSUME NEW c \in Conns, Claimed(c) PROVE flag[c]
    BY <2>2, CacheAssumption DEF IInv, NoEntryInside, HealthyIsCached, Claimed
  <2>3. QED
    BY <2>1, <2>2
<1>2. QED
  BY Invariance, <1>1, PTL
==============================================================================
