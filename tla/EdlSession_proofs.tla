-------------------------- MODULE EdlSession_proofs --------------------------
(***************************************************************************)
(* What is proved of EdlSession for any commands, units and number of       *)
(* appearances: its types, that a transport has one owner, that the flag    *)
(* "in progress" is exact, and that the commands implement EdlOwner.        *)
(***************************************************************************)
EXTENDS EdlSession, TLAPS

------------------------------------------------------------------------------
(* Types.                                                                       *)

\* A device that is present has appeared.
Appeared == present => Era > 0

LEMMA TypeStep == TypeOK /\ Appeared /\ [Next]_vars => TypeOK'
<1> SUFFICES ASSUME TypeOK, Appeared, [Next]_vars PROVE TypeOK'
    OBVIOUS
<1> USE DEF TypeOK, UnitOrNone
<1>e. Era \in Nat /\ Unit \in UnitOrNone
  <2>1. Era \in Nat
    BY DEF Era
  <2>2. CASE present
    <3>1. Era \in 1..Len(units)
      BY <2>1, <2>2 DEF Appeared, Era
    <3>2. units[Era] \in Units
      BY <3>1
    <3> QED BY <2>1, <2>2, <3>2 DEF Unit
  <2>3. CASE ~present
    BY <2>1, <2>3 DEF Unit
  <2> QED BY <2>2, <2>3
<1>p. /\ "idle" \in PCs /\ "scanned" \in PCs /\ "invalidate" \in PCs /\ "identify" \in PCs
      /\ "identifying" \in PCs /\ "reopen" \in PCs /\ "retrying" \in PCs /\ "naming" \in PCs
      /\ "keeping" \in PCs /\ "caching" \in PCs /\ "connect" \in PCs /\ "resuming" \in PCs
      /\ "opening" \in PCs /\ "uploading" \in PCs /\ "configuring" \in PCs /\ "merging" \in PCs
      /\ "storing" \in PCs /\ "guarded" \in PCs /\ "operating" \in PCs /\ "panicked" \in PCs
      /\ "finish" \in PCs /\ "rebooting" \in PCs /\ "rebooted" \in PCs /\ "forget" \in PCs
      /\ "forgetAll" \in PCs /\ "uncache" \in PCs
  BY DEF PCs
<1> USE DEF appVars, busVars, GoWith, Goto, Return, Hold
<1>1. CASE UNCHANGED vars
  BY <1>1 DEF vars, cmdVars
<1>2. ASSUME NEW c \in Cmds, Detect(c) PROVE TypeOK'
  <2>1. CASE Scan(c)
    BY <2>1, <1>p, <1>e DEF Scan
  <2>2. CASE ScanFails(c)
    BY <2>2, <1>p DEF ScanFails
  <2>3. CASE StoreDevice(c)
    BY <2>3, <1>p DEF StoreDevice
  <2>4. CASE Invalidate(c)
    <3>1. cache' \in [on : BOOLEAN, who : UnitOrNone, firehose : BOOLEAN] /\ sahara' \in Nat
      <4>1. NoCache \in [on : BOOLEAN, who : UnitOrNone, firehose : BOOLEAN]
        BY DEF NoCache
      <4>2. CASE cache' = NoCache /\ sahara' = 0
        BY <4>1, <4>2
      <4>3. CASE UNCHANGED <<cache, sahara>>
        BY <4>3
      <4> QED BY <2>4, <4>2, <4>3 DEF Invalidate
    <3> QED BY <2>4, <3>1, <1>p DEF Invalidate
  <2> QED BY <1>2, <2>1, <2>2, <2>3, <2>4 DEF Detect
<1>3. ASSUME NEW c \in Cmds, Identify(c) PROVE TypeOK'
  <2>1. CASE IdentifyMiss(c)
    BY <2>1, <1>p DEF IdentifyMiss
  <2>2. CASE IdentifyOpen(c)
    BY <2>2, <1>p, <1>e DEF IdentifyOpen, Open
  <2>3. CASE IdentifyFails(c)
    BY <2>3, <1>p DEF IdentifyFails
  <2>4. CASE IdentifyResets(c)
    BY <2>4, <1>p DEF IdentifyResets
  <2>5. CASE IdentifyAnswered(c)
    <3>1. \E l \in {"naming", "keeping"}, who \in UnitOrNone, fh \in BOOLEAN : GoWith(c, l, who, fh)
      BY <2>5, <1>e DEF IdentifyAnswered
    <3> QED BY <2>5, <3>1, <1>p DEF IdentifyAnswered
  <2>6. CASE IdentifyName(c)
    BY <2>6, <1>p DEF IdentifyName
  <2>7. CASE IdentifyStore(c)
    BY <2>7, <1>p DEF IdentifyStore
  <2>8. CASE IdentifyCache(c)
    BY <2>8, <1>p DEF IdentifyCache
  <2> QED BY <1>3, <2>1, <2>2, <2>3, <2>4, <2>5, <2>6, <2>7, <2>8 DEF Identify
<1>4. ASSUME NEW c \in Cmds, Connect(c) PROVE TypeOK'
  <2>1. CASE ConnectCheck(c)
    BY <2>1, <1>p DEF ConnectCheck
  <2>2. CASE ConnectRead(c)
    BY <2>2, <1>p DEF ConnectRead
  <2>3. CASE ConnectTake(c)
    BY <2>3, <1>p DEF ConnectTake, Stage
  <2>4. CASE ConnectOpen(c)
    BY <2>4, <1>p, <1>e DEF ConnectOpen, Open
  <2>5. CASE ConnectUpload(c)
    BY <2>5, <1>p DEF ConnectUpload
  <2>6. CASE ConnectConfigure(c)
    BY <2>6, <1>p DEF ConnectConfigure
  <2>7. CASE ConnectFails(c)
    BY <2>7, <1>p DEF ConnectFails
  <2>8. CASE ConnectMerge(c)
    BY <2>8, <1>p DEF ConnectMerge
  <2>9. CASE ConnectStore(c)
    BY <2>9, <1>p DEF ConnectStore
  <2> QED BY <1>4, <2>1, <2>2, <2>3, <2>4, <2>5, <2>6, <2>7, <2>8, <2>9 DEF Connect
<1>5. ASSUME NEW c \in Cmds, Operate(c) PROVE TypeOK'
  <2>1. CASE Acquire(c)
    BY <2>1, <1>p DEF Acquire
  <2>2. CASE Read(c)
    BY <2>2, <1>p DEF Read, TakeConn
  <2>3. CASE Write(c)
    BY <2>3, <1>p DEF Write, TakeConn
  <2>4. CASE Refuse(c)
    BY <2>4, <1>p DEF Refuse, Unguard
  <2>5. CASE PutBack(c)
    BY <2>5, <1>p DEF PutBack
  <2>6. CASE Panic(c)
    BY <2>6, <1>p DEF Panic
  <2>7. CASE AfterPanic(c)
    BY <2>7, <1>p DEF AfterPanic, ClearConn
  <2>8. CASE Finish(c)
    BY <2>8, <1>p DEF Finish, Unguard
  <2> QED BY <1>5, <2>1, <2>2, <2>3, <2>4, <2>5, <2>6, <2>7, <2>8 DEF Operate
<1>6. ASSUME NEW c \in Cmds, Leave(c) PROVE TypeOK'
  <2>1. CASE Reboot(c)
    BY <2>1, <1>p DEF Reboot, TakeConn
  <2>2. CASE Rebooted(c)
    BY <2>2, <1>p DEF Rebooted
  <2>3. CASE AfterReboot(c)
    BY <2>3, <1>p DEF AfterReboot, ClearConn
  <2>4. CASE Disconnect(c)
    BY <2>4, <1>p DEF Disconnect, ClearConn
  <2>5. CASE Forget(c)
    BY <2>5, <1>p DEF Forget
  <2>6. CASE Uncache(c)
    BY <2>6, <1>p DEF Uncache, NoCache
  <2> QED BY <1>6, <2>1, <2>2, <2>3, <2>4, <2>5, <2>6 DEF Leave
<1>7. CASE Plug
  BY <1>7 DEF Plug, cmdVars
<1>8. CASE Unplug
  BY <1>8 DEF Unplug, cmdVars
<1> QED BY <1>1, <1>2, <1>3, <1>4, <1>5, <1>6, <1>7, <1>8 DEF Next

------------------------------------------------------------------------------
(* The owner of a transport.                                                    *)

\* A command moves one transport at most.  The connection and the stored slot hold
\* what they held, what the command held, or nothing; the command holds what it
\* held, what one of them held, the only transport to the present device, or
\* nothing; and what moves is not left behind.
LEMMA OwnerStep == TypeOK /\ Appeared /\ OneOwner /\ [Next]_vars => OneOwner'
<1> SUFFICES ASSUME TypeOK, Appeared, OneOwner, [Next]_vars PROVE OneOwner'
    OBVIOUS
<1> USE DEF TypeOK, Appeared, OneOwner, appVars, busVars, Hold
<1>1. CASE UNCHANGED vars
  BY <1>1 DEF vars, cmdVars
<1>2. ASSUME NEW c \in Cmds, Detect(c) PROVE OneOwner'
  <2>1. CASE Scan(c)
    BY <2>1 DEF Scan
  <2>2. CASE ScanFails(c)
    BY <2>2 DEF ScanFails
  <2>3. CASE StoreDevice(c)
    BY <2>3 DEF StoreDevice
  <2>4. CASE Invalidate(c)
    BY <2>4 DEF Invalidate
  <2> QED BY <1>2, <2>1, <2>2, <2>3, <2>4 DEF Detect
<1>3. ASSUME NEW c \in Cmds, Identify(c) PROVE OneOwner'
  <2>1. CASE IdentifyMiss(c)
    BY <2>1 DEF IdentifyMiss
  <2>2. CASE IdentifyOpen(c)
    BY <2>2 DEF IdentifyOpen, Open, Claimed
  <2>3. CASE IdentifyFails(c)
    BY <2>3 DEF IdentifyFails
  <2>4. CASE IdentifyResets(c)
    BY <2>4 DEF IdentifyResets
  <2>5. CASE IdentifyAnswered(c)
    BY <2>5 DEF IdentifyAnswered
  <2>6. CASE IdentifyName(c)
    BY <2>6 DEF IdentifyName
  <2>7. CASE IdentifyStore(c)
    BY <2>7 DEF IdentifyStore
  <2>8. CASE IdentifyCache(c)
    BY <2>8 DEF IdentifyCache
  <2> QED BY <1>3, <2>1, <2>2, <2>3, <2>4, <2>5, <2>6, <2>7, <2>8 DEF Identify
<1>4. ASSUME NEW c \in Cmds, Connect(c) PROVE OneOwner'
  <2>1. CASE ConnectCheck(c)
    BY <2>1 DEF ConnectCheck
  <2>2. CASE ConnectRead(c)
    BY <2>2 DEF ConnectRead
  <2>3. CASE ConnectTake(c)
    BY <2>3 DEF ConnectTake
  <2>4. CASE ConnectOpen(c)
    BY <2>4 DEF ConnectOpen, Open, Claimed
  <2>5. CASE ConnectUpload(c)
    BY <2>5 DEF ConnectUpload
  <2>6. CASE ConnectConfigure(c)
    BY <2>6 DEF ConnectConfigure
  <2>7. CASE ConnectFails(c)
    BY <2>7 DEF ConnectFails
  <2>8. CASE ConnectMerge(c)
    BY <2>8 DEF ConnectMerge
  <2>9. CASE ConnectStore(c)
    BY <2>9 DEF ConnectStore
  <2> QED BY <1>4, <2>1, <2>2, <2>3, <2>4, <2>5, <2>6, <2>7, <2>8, <2>9 DEF Connect
<1>5. ASSUME NEW c \in Cmds, Operate(c) PROVE OneOwner'
  <2>1. CASE Acquire(c)
    BY <2>1 DEF Acquire
  <2>2. CASE Read(c)
    BY <2>2 DEF Read, TakeConn
  <2>3. CASE Write(c)
    BY <2>3 DEF Write, TakeConn
  <2>4. CASE Refuse(c)
    BY <2>4 DEF Refuse
  <2>5. CASE PutBack(c)
    BY <2>5 DEF PutBack
  <2>6. CASE Panic(c)
    BY <2>6 DEF Panic
  <2>7. CASE AfterPanic(c)
    BY <2>7 DEF AfterPanic, ClearConn
  <2>8. CASE Finish(c)
    BY <2>8 DEF Finish
  <2> QED BY <1>5, <2>1, <2>2, <2>3, <2>4, <2>5, <2>6, <2>7, <2>8 DEF Operate
<1>6. ASSUME NEW c \in Cmds, Leave(c) PROVE OneOwner'
  <2>1. CASE Reboot(c)
    BY <2>1 DEF Reboot, TakeConn
  <2>2. CASE Rebooted(c)
    BY <2>2 DEF Rebooted
  <2>3. CASE AfterReboot(c)
    BY <2>3 DEF AfterReboot, ClearConn
  <2>4. CASE Disconnect(c)
    BY <2>4 DEF Disconnect, ClearConn
  <2>5. CASE Forget(c)
    BY <2>5 DEF Forget
  <2>6. CASE Uncache(c)
    BY <2>6 DEF Uncache
  <2> QED BY <1>6, <2>1, <2>2, <2>3, <2>4, <2>5, <2>6 DEF Leave
<1>7. CASE Plug
  BY <1>7 DEF Plug, cmdVars
<1>8. CASE Unplug
  BY <1>8 DEF Unplug, cmdVars
<1> QED BY <1>1, <1>2, <1>3, <1>4, <1>5, <1>6, <1>7, <1>8 DEF Next

------------------------------------------------------------------------------
(* The flag "in progress".                                                      *)

\* A command that has a guard is in the middle of an operation, and only the end of
\* the operation clears guard and flag; nobody else takes the flag meanwhile.
LEMMA GuardStep == TypeOK /\ GuardExact /\ [Next]_vars => GuardExact'
<1> SUFFICES ASSUME TypeOK, GuardExact, [Next]_vars PROVE GuardExact'
    OBVIOUS
<1> USE DEF TypeOK, GuardExact, At, Goto, GoWith, Return, appVars, busVars
<1>1. CASE UNCHANGED vars
  BY <1>1 DEF vars, cmdVars
<1>2. ASSUME NEW c \in Cmds, Detect(c) PROVE GuardExact'
  <2>1. CASE Scan(c)
    BY <2>1 DEF Scan
  <2>2. CASE ScanFails(c)
    BY <2>2 DEF ScanFails
  <2>3. CASE StoreDevice(c)
    BY <2>3 DEF StoreDevice
  <2>4. CASE Invalidate(c)
    BY <2>4 DEF Invalidate
  <2> QED BY <1>2, <2>1, <2>2, <2>3, <2>4 DEF Detect
<1>3. ASSUME NEW c \in Cmds, Identify(c) PROVE GuardExact'
  <2>1. CASE IdentifyMiss(c)
    BY <2>1 DEF IdentifyMiss
  <2>2. CASE IdentifyOpen(c)
    <3>1. CASE Open(c, "identify", "identifying")
      BY <3>1 DEF Open
    <3>2. CASE Open(c, "reopen", "retrying")
      BY <3>2 DEF Open
    <3> QED BY <2>2, <3>1, <3>2 DEF IdentifyOpen
  <2>3. CASE IdentifyFails(c)
    BY <2>3 DEF IdentifyFails
  <2>4. CASE IdentifyResets(c)
    BY <2>4 DEF IdentifyResets
  <2>5. CASE IdentifyAnswered(c)
    BY <2>5 DEF IdentifyAnswered
  <2>6. CASE IdentifyName(c)
    BY <2>6 DEF IdentifyName
  <2>7. CASE IdentifyStore(c)
    BY <2>7 DEF IdentifyStore
  <2>8. CASE IdentifyCache(c)
    BY <2>8 DEF IdentifyCache
  <2> QED BY <1>3, <2>1, <2>2, <2>3, <2>4, <2>5, <2>6, <2>7, <2>8 DEF Identify
<1>4. ASSUME NEW c \in Cmds, Connect(c) PROVE GuardExact'
  <2>1. CASE ConnectCheck(c)
    BY <2>1 DEF ConnectCheck
  <2>2. CASE ConnectRead(c)
    BY <2>2 DEF ConnectRead
  <2>3. CASE ConnectTake(c)
    BY <2>3 DEF ConnectTake
  <2>4. CASE ConnectOpen(c)
    BY <2>4 DEF ConnectOpen, Open
  <2>5. CASE ConnectUpload(c)
    BY <2>5 DEF ConnectUpload
  <2>6. CASE ConnectConfigure(c)
    BY <2>6 DEF ConnectConfigure
  <2>7. CASE ConnectFails(c)
    BY <2>7 DEF ConnectFails
  <2>8. CASE ConnectMerge(c)
    BY <2>8 DEF ConnectMerge
  <2>9. CASE ConnectStore(c)
    BY <2>9 DEF ConnectStore
  <2> QED BY <1>4, <2>1, <2>2, <2>3, <2>4, <2>5, <2>6, <2>7, <2>8, <2>9 DEF Connect
<1>5. ASSUME NEW c \in Cmds, Operate(c) PROVE GuardExact'
  <2>1. CASE Acquire(c)
    BY <2>1 DEF Acquire
  <2>2. CASE Read(c)
    BY <2>2 DEF Read, TakeConn, GoWith
  <2>3. CASE Write(c)
    BY <2>3 DEF Write, TakeConn, GoWith
  <2>4. CASE Refuse(c)
    BY <2>4 DEF Refuse, Unguard
  <2>5. CASE PutBack(c)
    BY <2>5 DEF PutBack
  <2>6. CASE Panic(c)
    BY <2>6 DEF Panic
  <2>7. CASE AfterPanic(c)
    BY <2>7 DEF AfterPanic, ClearConn
  <2>8. CASE Finish(c)
    BY <2>8 DEF Finish, Unguard
  <2> QED BY <1>5, <2>1, <2>2, <2>3, <2>4, <2>5, <2>6, <2>7, <2>8 DEF Operate
<1>6. ASSUME NEW c \in Cmds, Leave(c) PROVE GuardExact'
  <2>1. CASE Reboot(c)
    BY <2>1 DEF Reboot, TakeConn, GoWith
  <2>2. CASE Rebooted(c)
    BY <2>2 DEF Rebooted
  <2>3. CASE AfterReboot(c)
    BY <2>3 DEF AfterReboot, ClearConn
  <2>4. CASE Disconnect(c)
    BY <2>4 DEF Disconnect, ClearConn
  <2>5. CASE Forget(c)
    BY <2>5 DEF Forget
  <2>6. CASE Uncache(c)
    BY <2>6 DEF Uncache
  <2> QED BY <1>6, <2>1, <2>2, <2>3, <2>4, <2>5, <2>6 DEF Leave
<1>7. CASE Plug
  BY <1>7 DEF Plug, cmdVars
<1>8. CASE Unplug
  BY <1>8 DEF Unplug, cmdVars
<1> QED BY <1>1, <1>2, <1>3, <1>4, <1>5, <1>6, <1>7, <1>8 DEF Next

------------------------------------------------------------------------------
(* The inductive invariant.                                                     *)

\* No transport is newer than the device, so that none reaches the next one.
NoneNewer == conn <= Era /\ sahara <= Era /\ \A c \in Cmds : held[c] <= Era

IInv == TypeOK /\ Appeared /\ NoneNewer /\ OneOwner /\ GuardExact

LEMMA NewerStep == TypeOK /\ Appeared /\ NoneNewer /\ [Next]_vars => Appeared' /\ NoneNewer'
<1> SUFFICES ASSUME TypeOK, Appeared, NoneNewer, [Next]_vars PROVE Appeared' /\ NoneNewer'
    OBVIOUS
<1> USE DEF TypeOK, Appeared, NoneNewer, Era, appVars, busVars, Hold
<1>1. CASE UNCHANGED vars
  BY <1>1 DEF vars, cmdVars
<1>2. ASSUME NEW c \in Cmds, Detect(c) PROVE Appeared' /\ NoneNewer'
  <2>1. CASE Scan(c)
    BY <2>1 DEF Scan
  <2>2. CASE ScanFails(c)
    BY <2>2 DEF ScanFails
  <2>3. CASE StoreDevice(c)
    BY <2>3 DEF StoreDevice
  <2>4. CASE Invalidate(c)
    BY <2>4 DEF Invalidate
  <2> QED BY <1>2, <2>1, <2>2, <2>3, <2>4 DEF Detect
<1>3. ASSUME NEW c \in Cmds, Identify(c) PROVE Appeared' /\ NoneNewer'
  <2>1. CASE IdentifyMiss(c)
    BY <2>1 DEF IdentifyMiss
  <2>2. CASE IdentifyOpen(c)
    <3>1. CASE Open(c, "identify", "identifying")
      BY <3>1 DEF Open
    <3>2. CASE Open(c, "reopen", "retrying")
      BY <3>2 DEF Open
    <3> QED BY <2>2, <3>1, <3>2 DEF IdentifyOpen
  <2>3. CASE IdentifyFails(c)
    BY <2>3 DEF IdentifyFails
  <2>4. CASE IdentifyResets(c)
    BY <2>4 DEF IdentifyResets
  <2>5. CASE IdentifyAnswered(c)
    BY <2>5 DEF IdentifyAnswered
  <2>6. CASE IdentifyName(c)
    BY <2>6 DEF IdentifyName
  <2>7. CASE IdentifyStore(c)
    BY <2>7 DEF IdentifyStore
  <2>8. CASE IdentifyCache(c)
    BY <2>8 DEF IdentifyCache
  <2> QED BY <1>3, <2>1, <2>2, <2>3, <2>4, <2>5, <2>6, <2>7, <2>8 DEF Identify
<1>4. ASSUME NEW c \in Cmds, Connect(c) PROVE Appeared' /\ NoneNewer'
  <2>1. CASE ConnectCheck(c)
    BY <2>1 DEF ConnectCheck
  <2>2. CASE ConnectRead(c)
    BY <2>2 DEF ConnectRead
  <2>3. CASE ConnectTake(c)
    BY <2>3 DEF ConnectTake
  <2>4. CASE ConnectOpen(c)
    BY <2>4 DEF ConnectOpen, Open
  <2>5. CASE ConnectUpload(c)
    BY <2>5 DEF ConnectUpload
  <2>6. CASE ConnectConfigure(c)
    BY <2>6 DEF ConnectConfigure
  <2>7. CASE ConnectFails(c)
    BY <2>7 DEF ConnectFails
  <2>8. CASE ConnectMerge(c)
    BY <2>8 DEF ConnectMerge
  <2>9. CASE ConnectStore(c)
    BY <2>9 DEF ConnectStore
  <2> QED BY <1>4, <2>1, <2>2, <2>3, <2>4, <2>5, <2>6, <2>7, <2>8, <2>9 DEF Connect
<1>5. ASSUME NEW c \in Cmds, Operate(c) PROVE Appeared' /\ NoneNewer'
  <2>1. CASE Acquire(c)
    BY <2>1 DEF Acquire
  <2>2. CASE Read(c)
    BY <2>2 DEF Read, TakeConn
  <2>3. CASE Write(c)
    BY <2>3 DEF Write, TakeConn
  <2>4. CASE Refuse(c)
    BY <2>4 DEF Refuse
  <2>5. CASE PutBack(c)
    BY <2>5 DEF PutBack
  <2>6. CASE Panic(c)
    BY <2>6 DEF Panic
  <2>7. CASE AfterPanic(c)
    BY <2>7 DEF AfterPanic, ClearConn
  <2>8. CASE Finish(c)
    BY <2>8 DEF Finish
  <2> QED BY <1>5, <2>1, <2>2, <2>3, <2>4, <2>5, <2>6, <2>7, <2>8 DEF Operate
<1>6. ASSUME NEW c \in Cmds, Leave(c) PROVE Appeared' /\ NoneNewer'
  <2>1. CASE Reboot(c)
    BY <2>1 DEF Reboot, TakeConn
  <2>2. CASE Rebooted(c)
    BY <2>2 DEF Rebooted
  <2>3. CASE AfterReboot(c)
    BY <2>3 DEF AfterReboot, ClearConn
  <2>4. CASE Disconnect(c)
    BY <2>4 DEF Disconnect, ClearConn
  <2>5. CASE Forget(c)
    BY <2>5 DEF Forget
  <2>6. CASE Uncache(c)
    BY <2>6 DEF Uncache
  <2> QED BY <1>6, <2>1, <2>2, <2>3, <2>4, <2>5, <2>6 DEF Leave
<1>7. CASE Plug
  BY <1>7 DEF Plug, cmdVars
<1>8. CASE Unplug
  BY <1>8 DEF Unplug, cmdVars
<1> QED BY <1>1, <1>2, <1>3, <1>4, <1>5, <1>6, <1>7, <1>8 DEF Next

\* What holds of AppState, the commands and the bus in every state.
THEOREM Invariance == Spec => []IInv
<1>1. Init => IInv
  <2> SUFFICES ASSUME Init PROVE IInv
      OBVIOUS
  <2>1. TypeOK
    <3>1. "idle" \in PCs /\ <<>> \in Seq(Units)
      BY DEF PCs
    <3> QED BY <3>1 DEF Init, TypeOK, UnitOrNone, NoCache
  <2>2. Era = 0
    BY DEF Init, Era
  <2>3. Appeared /\ NoneNewer /\ OneOwner
    BY <2>2 DEF Init, Appeared, NoneNewer, OneOwner
  <2>4. GuardExact
    BY DEF Init, GuardExact
  <2> QED BY <2>1, <2>3, <2>4 DEF IInv
<1>2. IInv /\ [Next]_vars => IInv'
  BY TypeStep, NewerStep, OwnerStep, GuardStep DEF IInv
<1> QED BY <1>1, <1>2, PTL DEF Spec

\* Type correctness, for any commands, units and number of appearances.
THEOREM TypeCorrect == Spec => []TypeOK
<1>1. IInv => TypeOK
  BY DEF IInv
<1> QED BY <1>1, Invariance, PTL

\* No two of the connection, the stored transport and the blocking tasks ever have the
\* same transport: no two tasks talk to the device at once.
THEOREM OneTransportOwner == Spec => []OneOwner
<1>1. IInv => OneOwner
  BY DEF IInv
<1> QED BY <1>1, Invariance, PTL

\* "Another operation is in progress" is said if and only if one is.
THEOREM GuardIsExact == Spec => []GuardExact
<1>1. IInv => GuardExact
  BY DEF IInv
<1> QED BY <1>1, Invariance, PTL

------------------------------------------------------------------------------
(* The refinement of EdlOwner.                                                  *)

\* Owner, for appearance n and any contents of the slots.
OwnerOf(n, inConn, inSahara, h) ==
  IF n = 0 THEN "free"
  ELSE IF inConn = n THEN "connected"
  ELSE IF inSahara = n THEN "stored"
  ELSE IF \E c \in Cmds : h[c] = n THEN CHOOSE c \in Cmds : h[c] = n
  ELSE "free"

\* At most one slot or command has transport n.
Single(n, inConn, inSahara, h) == n /= 0 =>
  /\ inConn = n => inSahara /= n
  /\ \A c \in Cmds : h[c] = n =>
       /\ inConn /= n /\ inSahara /= n
       /\ \A d \in Cmds : h[d] = n => d = c

\* The command that has the transport is the owner.
LEMMA HolderOwns ==
  ASSUME NEW n, n /= 0, NEW k, NEW s, NEW h, Single(n, k, s, h),
         NEW c \in Cmds, h[c] = n
  PROVE  OwnerOf(n, k, s, h) = c
<1>1. \A d \in Cmds : h[d] = n <=> d = c
  BY DEF Single
<1>2. (CHOOSE d \in Cmds : h[d] = n) = c
  BY <1>1
<1> QED BY <1>2 DEF OwnerOf, Single

\* When only c moves transports, ownership goes from a slot to c, from c to a slot,
\* to c from nobody, or to nobody.
LEMMA OwnerMoves ==
  ASSUME NEW n, NEW k, NEW s, NEW h, NEW k2, NEW s2, NEW h2, NEW c \in Cmds,
         Single(n, k, s, h), Single(n, k2, s2, h2),
         n /= 0 /\ k2 = n => k = n \/ h[c] = n,
         n /= 0 /\ s2 = n => s = n \/ h[c] = n,
         \A d \in Cmds : d /= c => h2[d] = h[d],
         NEW o, o = OwnerOf(n, k, s, h), NEW o2, o2 = OwnerOf(n, k2, s2, h2)
  PROVE  \/ o2 = o \/ o2 = "free"
         \/ o \in {"free", "stored", "connected"} /\ o2 = c
         \/ o = c /\ o2 \in {"stored", "connected"}
<1>1. CASE n = 0
  BY <1>1 DEF OwnerOf
<1>2. CASE n /= 0 /\ k2 = n
  <2>1. o2 = "connected"
    BY <1>2 DEF OwnerOf
  <2>2. k = n => o = "connected"
    BY <1>2 DEF OwnerOf
  <2>3. h[c] = n => o = c
    BY <1>2, HolderOwns
  <2> QED BY <1>2, <2>1, <2>2, <2>3
<1>3. CASE n /= 0 /\ s2 = n
  <2>1. o2 = "stored"
    BY <1>3 DEF OwnerOf, Single
  <2>2. s = n => o = "stored"
    BY <1>3 DEF OwnerOf, Single
  <2>3. h[c] = n => o = c
    BY <1>3, HolderOwns
  <2> QED BY <1>3, <2>1, <2>2, <2>3
<1>4. CASE n /= 0 /\ h2[c] = n
  <2>1. o2 = c
    BY <1>4, HolderOwns
  <2>2. \A d \in Cmds : h[d] = n => d = c
    BY <1>4 DEF Single
  <2>3. o \in {"free", "stored", "connected", c}
    <3>1. CASE h[c] = n
      BY <3>1, <1>4, HolderOwns
    <3>2. CASE h[c] /= n
      <4>1. ~ \E d \in Cmds : h[d] = n
        BY <3>2, <2>2
      <4> QED BY <4>1, <1>4 DEF OwnerOf
    <3> QED BY <3>1, <3>2
  <2> QED BY <2>1, <2>3
<1>5. ASSUME n /= 0, NEW d \in Cmds, d /= c, h2[d] = n PROVE o2 = o
  <2>1. h[d] = n
    BY <1>5
  <2>2. o2 = d
    BY <1>5, HolderOwns
  <2>3. o = d
    BY <1>5, <2>1, HolderOwns
  <2> QED BY <2>2, <2>3
<1>6. CASE n /= 0 /\ k2 /= n /\ s2 /= n /\ ~ \E d \in Cmds : h2[d] = n
  BY <1>6 DEF OwnerOf
<1> QED BY <1>1, <1>2, <1>3, <1>4, <1>5, <1>6

\* What a command does to the transports: a slot is filled by it, from itself or with
\* what was there, and no other command's transport changes.
Moves(c) ==
  /\ UNCHANGED <<units, firehose>>
  /\ Era /= 0 /\ conn' = Era => conn = Era \/ held[c] = Era
  /\ Era /= 0 /\ sahara' = Era => sahara = Era \/ held[c] = Era
  /\ \A d \in Cmds : d /= c => held'[d] = held[d]

LEMMA CommandMoves ==
  ASSUME TypeOK, NEW c \in Cmds,
         Detect(c) \/ Identify(c) \/ Connect(c) \/ Operate(c) \/ Leave(c)
  PROVE  Moves(c) \/ ConnectUpload(c)
<1> USE DEF TypeOK, Moves, appVars, busVars, Hold
<1>1. CASE Detect(c)
  <2>1. CASE Scan(c)
    BY <2>1 DEF Scan
  <2>2. CASE ScanFails(c)
    BY <2>2 DEF ScanFails
  <2>3. CASE StoreDevice(c)
    BY <2>3 DEF StoreDevice
  <2>4. CASE Invalidate(c)
    BY <2>4 DEF Invalidate
  <2> QED BY <1>1, <2>1, <2>2, <2>3, <2>4 DEF Detect
<1>2. CASE Identify(c)
  <2>1. CASE IdentifyMiss(c)
    BY <2>1 DEF IdentifyMiss
  <2>2. CASE IdentifyOpen(c)
    <3>1. CASE Open(c, "identify", "identifying")
      BY <3>1 DEF Open
    <3>2. CASE Open(c, "reopen", "retrying")
      BY <3>2 DEF Open
    <3> QED BY <2>2, <3>1, <3>2 DEF IdentifyOpen
  <2>3. CASE IdentifyFails(c)
    BY <2>3 DEF IdentifyFails
  <2>4. CASE IdentifyResets(c)
    BY <2>4 DEF IdentifyResets
  <2>5. CASE IdentifyAnswered(c)
    BY <2>5 DEF IdentifyAnswered
  <2>6. CASE IdentifyName(c)
    BY <2>6 DEF IdentifyName
  <2>7. CASE IdentifyStore(c)
    BY <2>7 DEF IdentifyStore
  <2>8. CASE IdentifyCache(c)
    BY <2>8 DEF IdentifyCache
  <2> QED BY <1>2, <2>1, <2>2, <2>3, <2>4, <2>5, <2>6, <2>7, <2>8 DEF Identify
<1>3. CASE Connect(c)
  <2>1. CASE ConnectCheck(c)
    BY <2>1 DEF ConnectCheck
  <2>2. CASE ConnectRead(c)
    BY <2>2 DEF ConnectRead
  <2>3. CASE ConnectTake(c)
    BY <2>3 DEF ConnectTake
  <2>4. CASE ConnectOpen(c)
    BY <2>4 DEF ConnectOpen, Open
  <2>6. CASE ConnectConfigure(c)
    BY <2>6 DEF ConnectConfigure
  <2>7. CASE ConnectFails(c)
    BY <2>7 DEF ConnectFails
  <2>8. CASE ConnectMerge(c)
    BY <2>8 DEF ConnectMerge
  <2>9. CASE ConnectStore(c)
    BY <2>9 DEF ConnectStore
  <2> QED BY <1>3, <2>1, <2>2, <2>3, <2>4, <2>6, <2>7, <2>8, <2>9 DEF Connect
<1>4. CASE Operate(c)
  <2>1. CASE Acquire(c)
    BY <2>1 DEF Acquire
  <2>2. CASE Read(c)
    BY <2>2 DEF Read, TakeConn
  <2>3. CASE Write(c)
    BY <2>3 DEF Write, TakeConn
  <2>4. CASE Refuse(c)
    BY <2>4 DEF Refuse
  <2>5. CASE PutBack(c)
    BY <2>5 DEF PutBack
  <2>6. CASE Panic(c)
    BY <2>6 DEF Panic
  <2>7. CASE AfterPanic(c)
    BY <2>7 DEF AfterPanic, ClearConn
  <2>8. CASE Finish(c)
    BY <2>8 DEF Finish
  <2> QED BY <1>4, <2>1, <2>2, <2>3, <2>4, <2>5, <2>6, <2>7, <2>8 DEF Operate
<1>5. CASE Leave(c)
  <2>1. CASE Reboot(c)
    BY <2>1 DEF Reboot, TakeConn
  <2>2. CASE Rebooted(c)
    BY <2>2 DEF Rebooted
  <2>3. CASE AfterReboot(c)
    BY <2>3 DEF AfterReboot, ClearConn
  <2>4. CASE Disconnect(c)
    BY <2>4 DEF Disconnect, ClearConn
  <2>5. CASE Forget(c)
    BY <2>5 DEF Forget
  <2>6. CASE Uncache(c)
    BY <2>6 DEF Uncache
  <2> QED BY <1>5, <2>1, <2>2, <2>3, <2>4, <2>5, <2>6 DEF Leave
<1> QED BY <1>1, <1>2, <1>3, <1>4, <1>5

\* Every step of the commands and of the bus is a step of EdlOwner, or changes neither
\* the owner nor the programmer.
LEMMA RefineStep ==
  IInv /\ IInv' /\ [Next]_vars => [Ownership!Next]_(Ownership!ownerVars)
<1> SUFFICES ASSUME IInv, IInv', [Next]_vars
             PROVE  [Ownership!Next]_(Ownership!ownerVars)
    OBVIOUS
<1> USE DEF Ownership!Next, Ownership!ownerVars
<1>a. Owner = OwnerOf(Era, conn, sahara, held)
  BY DEF Owner, OwnerOf
<1>b. Owner' = OwnerOf(Era', conn', sahara', held')
  BY DEF Owner, OwnerOf
<1>c. Single(Era, conn, sahara, held)
  BY DEF IInv, TypeOK, OneOwner, Single
<1>d. Single(Era', conn', sahara', held')
  BY DEF IInv, TypeOK, OneOwner, Single
<1>1. CASE UNCHANGED vars
  BY <1>1 DEF vars, appVars, cmdVars, busVars, Owner, Era
<1>2. ASSUME NEW c \in Cmds, Moves(c) PROVE [Ownership!Next]_(Ownership!ownerVars)
  <2>1. Era' = Era /\ UNCHANGED firehose
    BY <1>2 DEF Moves, Era
  <2>2. \/ Owner' = Owner \/ Owner' = "free"
        \/ Owner \in {"free", "stored", "connected"} /\ Owner' = c
        \/ Owner = c /\ Owner' \in {"stored", "connected"}
    BY <1>a, <1>b, <1>c, <1>d, <1>2, <2>1, OwnerMoves DEF Moves
  <2> QED BY <2>1, <2>2
          DEF Ownership!Open, Ownership!Take, Ownership!Store, Ownership!Connect, Ownership!Release
<1>3. ASSUME NEW c \in Cmds, ConnectUpload(c) PROVE [Ownership!Next]_(Ownership!ownerVars)
  <2>1. Era /= 0 /\ held[c] = Era
    BY <1>3 DEF ConnectUpload, Reaches, IInv, TypeOK, Appeared
  <2>2. Owner = c
    BY <1>a, <1>c, <2>1, HolderOwns
  <2>3. Owner' = Owner /\ firehose' = TRUE
    BY <1>3 DEF ConnectUpload, appVars, Owner, Era
  <2> QED BY <2>2, <2>3 DEF Ownership!Load
<1>4. CASE Plug
  <2>1. Era' = Era + 1 /\ Era \in Nat /\ firehose' \in BOOLEAN /\ UNCHANGED <<conn, sahara, held>>
    BY <1>4 DEF Plug, Era, IInv, TypeOK, appVars, cmdVars
  <2>2. conn /= Era + 1 /\ sahara /= Era + 1 /\ \A c \in Cmds : held[c] /= Era + 1
    BY <2>1 DEF IInv, TypeOK, NoneNewer
  <2>3. Owner' = "free"
    BY <1>b, <2>1, <2>2 DEF OwnerOf
  <2> QED BY <2>1, <2>3 DEF Ownership!Attach
<1>5. CASE Unplug
  BY <1>5 DEF Unplug, appVars, cmdVars, Owner, Era
<1>6. TypeOK
  BY DEF IInv
<1> QED BY <1>1, <1>2, <1>3, <1>4, <1>5, <1>6, CommandMoves DEF Next

\* The commands implement EdlOwner: the device on the bus goes from slot to slot only
\* through a command, and only its owner loads a programmer.
THEOREM Implements == Spec => ImplementsOwner
<1>1. Init => Ownership!Init
  BY DEF Init, Ownership!Init, Owner, Era
<1>2. IInv /\ IInv' /\ [Next]_vars => [Ownership!Next]_(Ownership!ownerVars)
  BY RefineStep
<1> QED BY <1>1, <1>2, Invariance, PTL DEF Spec, ImplementsOwner, Ownership!Spec
==============================================================================
