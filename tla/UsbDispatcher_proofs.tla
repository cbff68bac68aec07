------------------------ MODULE UsbDispatcher_proofs -------------------------
(***************************************************************************)
(* Proofs about UsbDispatcher, for any set of streams and any bounds.       *)
(***************************************************************************)
EXTENDS UsbDispatcher, SequenceTheorems, TLAPS

------------------------------------------------------------------------------
(* Sequences and messages.                                                  *)

\* The head and the tail of a queue of S.
LEMMA HeadTail ==
  ASSUME NEW S, NEW q \in Seq(S), q /= <<>>
  PROVE  Head(q) \in S /\ Tail(q) \in Seq(S)
OBVIOUS

\* A queue of S with one more element.
LEMMA AppendType ==
  ASSUME NEW S, NEW q \in Seq(S), NEW e \in S
  PROVE  Append(q, e) \in Seq(S)
OBVIOUS

\* The answers the device sends are messages.
LEMMA ControlType ==
  ASSUME NEW s \in Streams
  PROVE  Msg(s, "OKAY", 0) \in Messages /\ Msg(s, "CLSE", 0) \in Messages
BY DEF Msg, Messages, Control

\* So is the data it sends.
LEMMA WrteType ==
  ASSUME NEW s \in Streams, NEW n \in Nat \ {0}
  PROVE  Msg(s, "WRTE", n) \in Messages
BY DEF Msg, Messages

\* Receiving from a channel.
LEMMA TakeType ==
  ASSUME TypeOK, NEW s \in Streams, chan[s] /= <<>>, Take(s)
  PROVE  chan' \in [Streams -> MsgSeqs]
<1>1. Tail(chan[s]) \in MsgSeqs
  BY HeadTail DEF TypeOK, MsgSeqs
<1>2. QED
  BY <1>1 DEF TypeOK, Take

\* What a WRTE brings is data.
LEMMA DatumType ==
  ASSUME TypeOK, NEW s \in Streams, Has(s, "WRTE")
  PROVE  Datum(s) \in Data
<1>1. Head(chan[s]) \in Messages
  BY HeadTail DEF TypeOK, MsgSeqs, Has
<1>2. Head(chan[s]).to \in Streams /\ Head(chan[s]).n \in Nat \ {0}
  BY <1>1 DEF Has, Messages, Control
<1>3. QED
  BY <1>2 DEF Datum, Data

\* The device puts a message on the bus.
LEMMA SendType ==
  ASSUME TypeOK, NEW m \in Messages
  PROVE  Append(inq, m) \in MsgSeqs
BY AppendType DEF TypeOK, MsgSeqs

------------------------------------------------------------------------------
(* Types.                                                                   *)

\* Every step keeps the types.
LEMMA TypeStep == TypeOK /\ [Next]_vars => TypeOK'
<1> SUFFICES ASSUME TypeOK, [Next]_vars PROVE TypeOK'
  OBVIOUS
<1> USE DEF TypeOK, PCs, Threads, Thread, Writer,
        regVars, rdVars, outVars, threadVars, devVars, linkVars, histVars
<1>1. ASSUME NEW s \in Streams, OpenHeader(s) PROVE TypeOK'
  BY <1>1 DEF OpenHeader, HeaderOut, LockFree, Goto
<1>2. ASSUME NEW s \in Streams, OpenPayload(s) PROVE TypeOK'
  BY <1>2 DEF OpenPayload, PayloadOut, Goto
<1>3. ASSUME NEW s \in Streams, OpenFails(s) PROVE TypeOK'
  BY <1>3 DEF OpenFails, SendFails, Goto
<1>4. ASSUME NEW s \in Streams, OpenReply(s) PROVE TypeOK'
  BY <1>4, TakeType DEF OpenReply, Unregister, Has, Goto
<1>5. ASSUME NEW s \in Streams, OpenDisconnected(s) PROVE TypeOK'
  BY <1>5 DEF OpenDisconnected, OpenGivesUp, Unregister, Goto
<1>6. ASSUME NEW s \in Streams, ReadBuffered(s) PROVE TypeOK'
  <2>1. Head(rbuf[s]) \in Data /\ Tail(rbuf[s]) \in Seq(Data)
    BY <1>6, HeadTail DEF ReadBuffered
  <2>2. Append(got[s], Head(rbuf[s])) \in Seq(Data)
    BY <2>1, AppendType
  <2>3. QED
    BY <1>6, <2>1, <2>2 DEF ReadBuffered
<1>7. ASSUME NEW s \in Streams, ReadData(s) PROVE TypeOK'
  <2>1. chan' \in [Streams -> MsgSeqs]
    BY <1>7, TakeType DEF ReadData, Has
  <2>2. Append(got[s], Datum(s)) \in Seq(Data)
    BY <1>7, DatumType, AppendType DEF ReadData
  <2>3. QED
    BY <1>7, <2>1, <2>2 DEF ReadData, AckOut, SingleOut, LockFree
<1>8. ASSUME NEW s \in Streams, ReadOther(s) PROVE TypeOK'
  BY <1>8, TakeType DEF ReadOther, Goto
<1>9. ASSUME NEW s \in Streams, ReadDisconnected(s) PROVE TypeOK'
  BY <1>9 DEF ReadDisconnected, Goto
<1>10. ASSUME NEW s \in Streams, WritePayload(s) PROVE TypeOK'
  <2>1. wlock' \in Threads \cup {NoOne} /\ bus' \in Threads \cup {NoOne} /\ torn' \in BOOLEAN
    BY <1>10 DEF WritePayload, PayloadOut
  <2>2. pc' \in [Streams -> PCs] /\ owed' \in [Streams -> Nat] /\ writes' \in [Streams -> Nat]
    BY <1>10 DEF WritePayload, DeliverWrite, Goto
  <2>3. QED
    BY <1>10, <2>1, <2>2 DEF WritePayload, DeliverWrite
<1>11. ASSUME NEW s \in Streams, WriteAcked(s) PROVE TypeOK'
  BY <1>11, TakeType DEF WriteAcked, Has, Goto
<1>12. ASSUME NEW s \in Streams, WriteBuffersData(s) PROVE TypeOK'
  <2>1. chan' \in [Streams -> MsgSeqs]
    BY <1>12, TakeType DEF WriteBuffersData, Has
  <2>2. Append(rbuf[s], Datum(s)) \in Seq(Data)
    BY <1>12, DatumType, AppendType DEF WriteBuffersData
  <2>3. QED
    BY <1>12, <2>1, <2>2 DEF WriteBuffersData, AckOut, SingleOut, LockFree
<1>13. ASSUME NEW s \in Streams, WriteClosed(s) PROVE TypeOK'
  BY <1>13, TakeType DEF WriteClosed, Has, Goto
<1>14. ASSUME NEW s \in Streams, StreamSendFails(s) PROVE TypeOK'
  <2>1. chan' \in [Streams -> MsgSeqs]
    BY <1>14, TakeType DEF StreamSendFails, Has
  <2>2. QED
    BY <1>14, <2>1 DEF StreamSendFails, SendFails, Goto
<1>15. ASSUME NEW s \in Streams, WriterPayload(s) PROVE TypeOK'
  <2>1. owed' \in [Streams -> Nat] /\ writes' \in [Streams -> Nat]
    BY <1>15 DEF WriterPayload, DeliverWrite
  <2>2. QED
    BY <1>15, <2>1 DEF WriterPayload, PayloadOut, DeliverWrite
<1>16. ASSUME NEW s \in Streams, WriterFails(s) PROVE TypeOK'
  BY <1>16 DEF WriterFails, SendFails
<1>17. ASSUME NEW s \in Streams, Connect(s) PROVE TypeOK'
  BY <1>17 DEF Connect, Goto
<1>18. ASSUME NEW s \in Streams, Register(s) PROVE TypeOK'
  BY <1>18 DEF Register, Goto
<1>19. ASSUME NEW s \in Streams, OpenTimeout(s) PROVE TypeOK'
  BY <1>19 DEF OpenTimeout, OpenGivesUp, Unregister, Goto
<1>20. ASSUME NEW s \in Streams, WriteHeader(s) PROVE TypeOK'
  BY <1>20 DEF WriteHeader, HeaderOut, LockFree, Goto
<1>21. ASSUME NEW s \in Streams, WriteTimeout(s) PROVE TypeOK'
  BY <1>21 DEF WriteTimeout, Goto
<1>22. ASSUME NEW s \in Streams, Drop(s) PROVE TypeOK'
  <2>1. Append(inq, Msg(s, "CLSE", 0)) \in MsgSeqs
    BY ControlType, SendType
  <2>2. CASE SingleOut /\ DeviceGetsClose(s)
    BY <1>22, <2>1, <2>2 DEF Drop, SingleOut, DeviceGetsClose, Unregister, Goto
  <2>3. CASE SendFails(Thread(s)) /\ UNCHANGED <<devVars, linkVars>>
    BY <1>22, <2>3 DEF Drop, SendFails, Unregister, Goto
  <2>4. CASE UNCHANGED <<outVars, devVars, linkVars>>
    BY <1>22, <2>4 DEF Drop, Unregister, Goto
  <2>5. QED
    BY <1>22, <2>2, <2>3, <2>4 DEF Drop
<1>23. ASSUME NEW s \in Streams, CreateWriter(s) PROVE TypeOK'
  BY <1>23 DEF CreateWriter
<1>24. ASSUME NEW s \in Streams, WriterHeader(s) PROVE TypeOK'
  BY <1>24 DEF WriterHeader, HeaderOut, LockFree
<1>25. ASSUME NEW s \in Streams, DeviceAnswersOpen(s) PROVE TypeOK'
  <2>1. inq' \in MsgSeqs
    BY <1>25, ControlType, SendType DEF DeviceAnswersOpen, DeviceSends
  <2>2. dev' \in [Streams -> {"none", "asked", "open", "closed"}]
    BY <1>25 DEF DeviceAnswersOpen
  <2>3. QED
    BY <1>25, <2>1, <2>2 DEF DeviceAnswersOpen, DeviceSends
<1>26. ASSUME NEW s \in Streams, DeviceWrites(s) PROVE TypeOK'
  <2>1. sent[s] + 1 \in Nat \ {0}
    OBVIOUS
  <2>2. inq' \in MsgSeqs
    BY <1>26, <2>1, WrteType, SendType DEF DeviceWrites, DeviceSends
  <2>3. QED
    BY <1>26, <2>1, <2>2 DEF DeviceWrites, DeviceSends
<1>27. ASSUME NEW s \in Streams, DeviceAcks(s) PROVE TypeOK'
  <2>1. inq' \in MsgSeqs
    BY <1>27, ControlType, SendType DEF DeviceAcks, DeviceSends
  <2>2. owed' \in [Streams -> Nat]
    BY <1>27 DEF DeviceAcks
  <2>3. QED
    BY <1>27, <2>1, <2>2 DEF DeviceAcks, DeviceSends
<1>28. ASSUME NEW s \in Streams, DeviceCloses(s) PROVE TypeOK'
  <2>1. inq' \in MsgSeqs
    BY <1>28, ControlType, SendType DEF DeviceCloses, DeviceSends
  <2>2. QED
    BY <1>28, <2>1 DEF DeviceCloses, DeviceSends
<1>29. CASE RdRoute
  <2>1. Head(inq) \in Messages /\ inq' \in MsgSeqs
    BY <1>29, HeadTail DEF RdRoute, MsgSeqs
  <2>2. chan' \in [Streams -> MsgSeqs]
    <3>1. CASE chan' = chan
      BY <3>1
    <3>2. CASE Head(inq).to \in Streams
               /\ chan' = [chan EXCEPT ![Head(inq).to] = Append(@, Head(inq))]
      BY <2>1, <3>2, AppendType DEF MsgSeqs
    <3>3. QED
      BY <1>29, <3>1, <3>2 DEF RdRoute
  <2>3. QED
    BY <1>29, <2>1, <2>2 DEF RdRoute, Again
<1>30. CASE RdDisconnected
  BY <1>30 DEF RdDisconnected, Stop
<1>31. CASE RdClear
  BY <1>31 DEF RdClear
<1>32. CASE RdLose
  <2>1. inq' \in MsgSeqs
    BY <1>32, HeadTail DEF RdLose, MsgSeqs
  <2>2. QED
    BY <1>32, <2>1 DEF RdLose, Again
<1>33. CASE RdError
  BY <1>33 DEF RdError, Stop
<1>34. CASE Shutdown
  BY <1>34 DEF Shutdown
<1>35. CASE Unplug
  BY <1>35 DEF Unplug
<1>36. CASE UNCHANGED vars
  BY <1>36 DEF vars
<1>37. QED
  BY <1>1, <1>2, <1>3, <1>4, <1>5, <1>6, <1>7, <1>8, <1>9, <1>10, <1>11, <1>12, <1>13, <1>14, <1>15, <1>16, <1>17, <1>18, <1>19, <1>20, <1>21, <1>22, <1>23, <1>24, <1>25, <1>26, <1>27, <1>28, <1>29, <1>30, <1>31, <1>32, <1>33, <1>34, <1>35, <1>36
  DEF Next, Progress, WriterProgress, Choice, Device, Reader

\* The initial state is well typed.
LEMMA TypeInit == Init => TypeOK
<1> SUFFICES ASSUME Init PROVE TypeOK
  OBVIOUS
<1>1. <<>> \in MsgSeqs /\ <<>> \in Seq(Data)
  BY DEF MsgSeqs
<1>2. QED
  BY <1>1 DEF Init, TypeOK, PCs, MsgSeqs

\* Type correctness, for any set of streams and any bounds.
THEOREM TypeCorrect == Spec => []TypeOK
BY TypeInit, TypeStep, PTL DEF Spec

------------------------------------------------------------------------------
(* The write lock.                                                          *)

\* FramesIntact with what makes it inductive: while the device is there it is in
\* the middle of the message of the lock's owner, and of no other.
Frames == FramesIntact /\ (plugged => bus = wlock)

\* Two threads' names are different, and none is NoOne.
LEMMA Names ==
  ASSUME NEW s \in Streams, NEW r \in Streams
  PROVE  /\ Thread(s) /= NoOne /\ Writer(s) /= NoOne
         /\ Thread(s) /= Writer(r)
         /\ Thread(s) = Thread(r) => s = r
         /\ Writer(s) = Writer(r) => s = r
BY DispatcherAssumption DEF Thread, Writer

\* Every step keeps the write lock and the bus in agreement.
LEMMA FramesStep == TypeOK /\ Frames /\ [Next]_vars => Frames'
<1> SUFFICES ASSUME TypeOK, Frames, [Next]_vars PROVE Frames'
  OBVIOUS
<1>1. pc \in [Streams -> PCs] /\ writer \in [Streams -> {"none", "ready", "half", "shut"}]
  BY DEF TypeOK
<1> USE <1>1, Names DEF Frames, FramesIntact,
        regVars, rdVars, outVars, threadVars, devVars, linkVars, histVars
<1>2. QED
  <2>1. ASSUME NEW s \in Streams, OpenHeader(s) PROVE Frames'
    BY <2>1 DEF OpenHeader, HeaderOut, LockFree, Goto
  <2>2. ASSUME NEW s \in Streams, OpenPayload(s) PROVE Frames'
    <3>1. wlock = Thread(s)
      BY <2>2 DEF OpenPayload
    <3>2. \A r \in Streams : /\ pc[r] \in {"openHalf", "writeHalf"} => r = s
                             /\ writer[r] /= "half"
      BY <3>1
    <3>3. QED
      BY <2>2, <3>1, <3>2 DEF OpenPayload, PayloadOut, Goto
  <2>3. ASSUME NEW s \in Streams, OpenFails(s) PROVE Frames'
    BY <2>3 DEF OpenFails, SendFails, Goto
  <2>4. ASSUME NEW s \in Streams, OpenReply(s) PROVE Frames'
    BY <2>4 DEF OpenReply, Unregister, Goto
  <2>5. ASSUME NEW s \in Streams, OpenDisconnected(s) PROVE Frames'
    BY <2>5 DEF OpenDisconnected, OpenGivesUp, Unregister, Goto
  <2>6. ASSUME NEW s \in Streams, ReadBuffered(s) PROVE Frames'
    BY <2>6 DEF ReadBuffered
  <2>7. ASSUME NEW s \in Streams, ReadData(s) PROVE Frames'
    BY <2>7 DEF ReadData, AckOut, SingleOut, LockFree
  <2>8. ASSUME NEW s \in Streams, ReadOther(s) PROVE Frames'
    BY <2>8 DEF ReadOther, Goto
  <2>9. ASSUME NEW s \in Streams, ReadDisconnected(s) PROVE Frames'
    BY <2>9 DEF ReadDisconnected, Goto
  <2>10. ASSUME NEW s \in Streams, WritePayload(s) PROVE Frames'
    <3>1. wlock = Thread(s)
      BY <2>10 DEF WritePayload
    <3>2. \A r \in Streams : /\ pc[r] \in {"openHalf", "writeHalf"} => r = s
                             /\ writer[r] /= "half"
      BY <3>1
    <3>3. QED
      BY <2>10, <3>1, <3>2 DEF WritePayload, PayloadOut, Goto
  <2>11. ASSUME NEW s \in Streams, WriteAcked(s) PROVE Frames'
    BY <2>11 DEF WriteAcked, Goto
  <2>12. ASSUME NEW s \in Streams, WriteBuffersData(s) PROVE Frames'
    BY <2>12 DEF WriteBuffersData, AckOut, SingleOut, LockFree
  <2>13. ASSUME NEW s \in Streams, WriteClosed(s) PROVE Frames'
    BY <2>13 DEF WriteClosed, Goto
  <2>14. ASSUME NEW s \in Streams, StreamSendFails(s) PROVE Frames'
    BY <2>14 DEF StreamSendFails, SendFails, Goto
  <2>15. ASSUME NEW s \in Streams, WriterPayload(s) PROVE Frames'
    <3>1. wlock = Writer(s)
      BY <2>15 DEF WriterPayload
    <3>2. \A r \in Streams : /\ pc[r] \notin {"openHalf", "writeHalf"}
                             /\ writer[r] = "half" => r = s
      BY <3>1
    <3>3. QED
      BY <2>15, <3>1, <3>2 DEF WriterPayload, PayloadOut
  <2>16. ASSUME NEW s \in Streams, WriterFails(s) PROVE Frames'
    BY <2>16 DEF WriterFails, SendFails
  <2>17. ASSUME NEW s \in Streams, Connect(s) PROVE Frames'
    BY <2>17 DEF Connect, Goto
  <2>18. ASSUME NEW s \in Streams, Register(s) PROVE Frames'
    BY <2>18 DEF Register, Goto
  <2>19. ASSUME NEW s \in Streams, OpenTimeout(s) PROVE Frames'
    BY <2>19 DEF OpenTimeout, OpenGivesUp, Unregister, Goto
  <2>20. ASSUME NEW s \in Streams, WriteHeader(s) PROVE Frames'
    BY <2>20 DEF WriteHeader, HeaderOut, LockFree, Goto
  <2>21. ASSUME NEW s \in Streams, WriteTimeout(s) PROVE Frames'
    BY <2>21 DEF WriteTimeout, Goto
  <2>22. ASSUME NEW s \in Streams, Drop(s) PROVE Frames'
    <3>1. pc' = [pc EXCEPT ![s] = "done"] /\ UNCHANGED writer
      BY <2>22 DEF Drop, Goto
    <3>2. CASE SingleOut /\ DeviceGetsClose(s)
      BY <3>1, <3>2 DEF SingleOut, LockFree, DeviceGetsClose
    <3>3. CASE SendFails(Thread(s)) /\ UNCHANGED <<devVars, linkVars>>
      <4>1. \A r \in Streams : r /= s => pc[r] \notin {"openHalf", "writeHalf"}
        BY <3>3 DEF SendFails
      <4>2. \A r \in Streams : writer[r] /= "half"
        BY <3>3 DEF SendFails
      <4>3. QED
        BY <3>1, <3>3, <4>1, <4>2 DEF SendFails
    <3>4. CASE UNCHANGED <<outVars, devVars, linkVars>>
      BY <3>1, <3>4
    <3>5. QED
      BY <2>22, <3>2, <3>3, <3>4 DEF Drop
  <2>23. ASSUME NEW s \in Streams, CreateWriter(s) PROVE Frames'
    BY <2>23 DEF CreateWriter
  <2>24. ASSUME NEW s \in Streams, WriterHeader(s) PROVE Frames'
    BY <2>24 DEF WriterHeader, HeaderOut, LockFree
  <2>25. ASSUME NEW s \in Streams, DeviceAnswersOpen(s) PROVE Frames'
    BY <2>25 DEF DeviceAnswersOpen, DeviceSends
  <2>26. ASSUME NEW s \in Streams, DeviceWrites(s) PROVE Frames'
    BY <2>26 DEF DeviceWrites, DeviceSends
  <2>27. ASSUME NEW s \in Streams, DeviceAcks(s) PROVE Frames'
    BY <2>27 DEF DeviceAcks, DeviceSends
  <2>28. ASSUME NEW s \in Streams, DeviceCloses(s) PROVE Frames'
    BY <2>28 DEF DeviceCloses, DeviceSends
  <2>29. CASE RdRoute
    BY <2>29 DEF RdRoute, Again
  <2>30. CASE RdDisconnected
    BY <2>30 DEF RdDisconnected, Stop
  <2>31. CASE RdClear
    BY <2>31 DEF RdClear
  <2>32. CASE RdLose
    BY <2>32 DEF RdLose, Again
  <2>33. CASE RdError
    BY <2>33 DEF RdError, Stop
  <2>34. CASE Shutdown
    BY <2>34 DEF Shutdown
  <2>35. CASE Unplug
    BY <2>35 DEF Unplug
  <2>36. CASE UNCHANGED vars
    BY <2>36 DEF vars
  <2>37. QED
    BY <2>1, <2>2, <2>3, <2>4, <2>5, <2>6, <2>7, <2>8, <2>9, <2>10, <2>11, <2>12,
       <2>13, <2>14, <2>15, <2>16, <2>17, <2>18, <2>19, <2>20, <2>21, <2>22, <2>23, <2>24,
       <2>25, <2>26, <2>27, <2>28, <2>29, <2>30, <2>31, <2>32, <2>33, <2>34, <2>35, <2>36
    DEF Next, Progress, WriterProgress, Choice, Device, Reader

\* No message starts inside another one, and the owner of the write lock is the
\* thread that is in the middle of a message.
THEOREM WholeMessages == Spec => []FramesIntact
<1>1. Init => Frames
  BY DEF Init, Frames, FramesIntact
<1>2. Frames => FramesIntact
  BY DEF Frames
<1>3. QED
  BY TypeInit, TypeStep, FramesStep, <1>1, <1>2, PTL DEF Spec

------------------------------------------------------------------------------
(* The registry.                                                            *)

\* Every step keeps the registry exact.
LEMMA RegistryStep == TypeOK /\ RegistryExact /\ [Next]_vars => RegistryExact'
<1> SUFFICES ASSUME TypeOK, RegistryExact, [Next]_vars PROVE RegistryExact'
  OBVIOUS
<1>1. pc \in [Streams -> PCs] /\ streams \subseteq Streams
  BY DEF TypeOK
<1> USE <1>1 DEF RegistryExact, Live,
        regVars, rdVars, outVars, threadVars, devVars, linkVars, histVars
<1>2. QED
  <2>1. ASSUME NEW s \in Streams, OpenHeader(s) PROVE RegistryExact'
    BY <2>1 DEF OpenHeader, HeaderOut, LockFree, Goto
  <2>2. ASSUME NEW s \in Streams, OpenPayload(s) PROVE RegistryExact'
    BY <2>2 DEF OpenPayload, PayloadOut, Goto
  <2>3. ASSUME NEW s \in Streams, OpenFails(s) PROVE RegistryExact'
    BY <2>3 DEF OpenFails, SendFails, Goto
  <2>4. ASSUME NEW s \in Streams, OpenReply(s) PROVE RegistryExact'
    BY <2>4 DEF OpenReply, Unregister, Goto
  <2>5. ASSUME NEW s \in Streams, OpenDisconnected(s) PROVE RegistryExact'
    BY <2>5 DEF OpenDisconnected, OpenGivesUp, Unregister, Goto
  <2>6. ASSUME NEW s \in Streams, ReadBuffered(s) PROVE RegistryExact'
    BY <2>6 DEF ReadBuffered
  <2>7. ASSUME NEW s \in Streams, ReadData(s) PROVE RegistryExact'
    BY <2>7 DEF ReadData, AckOut, SingleOut, LockFree
  <2>8. ASSUME NEW s \in Streams, ReadOther(s) PROVE RegistryExact'
    BY <2>8 DEF ReadOther, Goto
  <2>9. ASSUME NEW s \in Streams, ReadDisconnected(s) PROVE RegistryExact'
    BY <2>9 DEF ReadDisconnected, Goto
  <2>10. ASSUME NEW s \in Streams, WritePayload(s) PROVE RegistryExact'
    BY <2>10 DEF WritePayload, PayloadOut, Goto
  <2>11. ASSUME NEW s \in Streams, WriteAcked(s) PROVE RegistryExact'
    BY <2>11 DEF WriteAcked, Goto
  <2>12. ASSUME NEW s \in Streams, WriteBuffersData(s) PROVE RegistryExact'
    BY <2>12 DEF WriteBuffersData, AckOut, SingleOut, LockFree
  <2>13. ASSUME NEW s \in Streams, WriteClosed(s) PROVE RegistryExact'
    BY <2>13 DEF WriteClosed, Goto
  <2>14. ASSUME NEW s \in Streams, StreamSendFails(s) PROVE RegistryExact'
    BY <2>14 DEF StreamSendFails, SendFails, Goto
  <2>15. ASSUME NEW s \in Streams, WriterPayload(s) PROVE RegistryExact'
    BY <2>15 DEF WriterPayload, PayloadOut
  <2>16. ASSUME NEW s \in Streams, WriterFails(s) PROVE RegistryExact'
    BY <2>16 DEF WriterFails, SendFails
  <2>17. ASSUME NEW s \in Streams, Connect(s) PROVE RegistryExact'
    BY <2>17 DEF Connect, Goto
  <2>18. ASSUME NEW s \in Streams, Register(s) PROVE RegistryExact'
    BY <2>18 DEF Register, Goto
  <2>19. ASSUME NEW s \in Streams, OpenTimeout(s) PROVE RegistryExact'
    BY <2>19 DEF OpenTimeout, OpenGivesUp, Unregister, Goto
  <2>20. ASSUME NEW s \in Streams, WriteHeader(s) PROVE RegistryExact'
    BY <2>20 DEF WriteHeader, HeaderOut, LockFree, Goto
  <2>21. ASSUME NEW s \in Streams, WriteTimeout(s) PROVE RegistryExact'
    BY <2>21 DEF WriteTimeout, Goto
  <2>22. ASSUME NEW s \in Streams, Drop(s) PROVE RegistryExact'
    BY <2>22 DEF Drop, SingleOut, LockFree, SendFails, DeviceGetsClose, Unregister, Goto
  <2>23. ASSUME NEW s \in Streams, CreateWriter(s) PROVE RegistryExact'
    BY <2>23 DEF CreateWriter
  <2>24. ASSUME NEW s \in Streams, WriterHeader(s) PROVE RegistryExact'
    BY <2>24 DEF WriterHeader, HeaderOut, LockFree
  <2>25. ASSUME NEW s \in Streams, DeviceAnswersOpen(s) PROVE RegistryExact'
    BY <2>25 DEF DeviceAnswersOpen, DeviceSends
  <2>26. ASSUME NEW s \in Streams, DeviceWrites(s) PROVE RegistryExact'
    BY <2>26 DEF DeviceWrites, DeviceSends
  <2>27. ASSUME NEW s \in Streams, DeviceAcks(s) PROVE RegistryExact'
    BY <2>27 DEF DeviceAcks, DeviceSends
  <2>28. ASSUME NEW s \in Streams, DeviceCloses(s) PROVE RegistryExact'
    BY <2>28 DEF DeviceCloses, DeviceSends
  <2>29. CASE RdRoute
    BY <2>29 DEF RdRoute, Again
  <2>30. CASE RdDisconnected
    BY <2>30 DEF RdDisconnected, Stop
  <2>31. CASE RdClear
    BY <2>31 DEF RdClear
  <2>32. CASE RdLose
    BY <2>32 DEF RdLose, Again
  <2>33. CASE RdError
    BY <2>33 DEF RdError, Stop
  <2>34. CASE Shutdown
    BY <2>34 DEF Shutdown
  <2>35. CASE Unplug
    BY <2>35 DEF Unplug
  <2>36. CASE UNCHANGED vars
    BY <2>36 DEF vars
  <2>37. QED
    BY <2>1, <2>2, <2>3, <2>4, <2>5, <2>6, <2>7, <2>8, <2>9, <2>10, <2>11, <2>12,
       <2>13, <2>14, <2>15, <2>16, <2>17, <2>18, <2>19, <2>20, <2>21, <2>22, <2>23, <2>24,
       <2>25, <2>26, <2>27, <2>28, <2>29, <2>30, <2>31, <2>32, <2>33, <2>34, <2>35, <2>36
    DEF Next, Progress, WriterProgress, Choice, Device, Reader

\* Until the reader clears the registry every thread that may wait for messages
\* is registered, and a stream that was dropped is not.
THEOREM RegistryIsExact == Spec => []RegistryExact
<1>1. Init => RegistryExact
  BY DEF Init, RegistryExact, Live
<1>2. QED
  BY TypeInit, TypeStep, RegistryStep, <1>1, PTL DEF Spec

------------------------------------------------------------------------------
(* What is in flight.  A message for a stream is in its channel or still on the *)
(* bus; the invariants below only need the set of those messages, and whether   *)
(* there is at most one of a kind among them.                                   *)

\* The messages for s between the device and its thread.
Flight(s) == {chan[s][i] : i \in DOMAIN chan[s]}
               \cup {inq[i] : i \in {j \in DOMAIN inq : inq[j].to = s}}

\* One of them is a c.
Some(s, c) == \E m \in Flight(s) : m.cmd = c

\* At most one of them is a c.
AtMostOne(s, c) ==
  /\ \A i, j \in DOMAIN chan[s] : chan[s][i].cmd = c /\ chan[s][j].cmd = c => i = j
  /\ \A i, j \in DOMAIN inq :
       inq[i].to = s /\ inq[i].cmd = c /\ inq[j].to = s /\ inq[j].cmd = c => i = j
  /\ \A i \in DOMAIN chan[s], j \in DOMAIN inq :
       ~(chan[s][i].cmd = c /\ inq[j].to = s /\ inq[j].cmd = c)

------------------------------------------------------------------------------
(* Data, acknowledgements and closing of one stream.                             *)

\* Number of data messages the thread of s has taken for data.
Taken(s) == Len(got[s]) + Len(rbuf[s])

\* Data: what was taken is the beginning of what was sent, and at most one message
\* beyond it is on its way, exactly the next one.
DataInv(s) ==
  /\ \A m \in Flight(s) : m.to = s
  /\ \A i \in 1..Len(got[s]) : got[s][i] = <<s, i>>
  /\ \A i \in 1..Len(rbuf[s]) : rbuf[s][i] = <<s, Len(got[s]) + i>>
  /\ ~waitAck[s] => sent[s] = Taken(s) /\ ~Some(s, "WRTE")
  /\ waitAck[s] => /\ sent[s] = Taken(s) + 1 /\ AtMostOne(s, "WRTE")
                   /\ \A m \in Flight(s) : m.cmd = "WRTE" => m.n = sent[s]

\* The thread has not sent its OPEN.
Early == {"idle", "connected", "registered", "openHalf"}

\* Acknowledgements of a stream without a shell writer: none but the one the thread
\* waits for.
AckInv(s) ==
  writer[s] = "none" =>
    /\ pc[s] \in Early \cup {"opening", "open", "writeHalf"} => owed[s] = 0
    /\ pc[s] \in Early \cup {"open", "writeHalf"} \/ dev[s] = "asked" => ~Some(s, "OKAY")
    /\ pc[s] \in {"open", "writeHalf", "writing"} => dev[s] \in {"open", "closed"}
    /\ pc[s] = "opening" => dev[s] /= "none" /\ AtMostOne(s, "OKAY")
    /\ pc[s] = "writing" => \/ owed[s] = 0 /\ AtMostOne(s, "OKAY")
                            \/ owed[s] = 1 /\ ~Some(s, "OKAY")

\* Closing: a CLSE comes from a device that has closed its end; a stream that saw
\* the end, and one that was dropped, is closed there too.
CloseInv(s) ==
  /\ pc[s] \in Early => dev[s] = "none"
  /\ Some(s, "CLSE") => dev[s] = "closed"
  /\ pc[s] \in {"closed", "done"} => dev[s] = "closed" \/ ~plugged \/ shutdown

\* The reader stops only after setting the shutdown flag, or finding it set.
FlagInv == rd /= "blocked" => shutdown

\* A step that brings s no new message.
Thinner(s) ==
  /\ Flight(s)' \subseteq Flight(s)
  /\ \A c \in {"OKAY", "WRTE"} : AtMostOne(s, c) => AtMostOne(s, c)'

\* Nothing is sent or received.
LEMMA StillThinner ==
  ASSUME chan' = chan, inq' = inq, NEW s \in Streams
  PROVE  Thinner(s)
BY DEF Thinner, Flight, AtMostOne

\* The tail of a queue holds its elements, shifted by one.
LEMMA TailShift ==
  ASSUME NEW S, NEW q \in Seq(S), q /= <<>>
  PROVE  /\ 1 \in DOMAIN q /\ Head(q) = q[1]
         /\ \A i \in DOMAIN Tail(q) : i + 1 \in DOMAIN q /\ Tail(q)[i] = q[i + 1]
         /\ \A i \in DOMAIN Tail(q) : i \in Nat /\ i + 1 /= 1
         /\ \A i, j \in DOMAIN Tail(q) : i + 1 = j + 1 => i = j
OBVIOUS

\* Appending leaves the elements where they are and adds one.
LEMMA AppendShift ==
  ASSUME NEW S, NEW q \in Seq(S), NEW e \in S
  PROVE  /\ DOMAIN Append(q, e) = DOMAIN q \cup {Len(q) + 1} /\ Len(q) + 1 \notin DOMAIN q
         /\ \A i \in DOMAIN q : Append(q, e)[i] = q[i]
         /\ Append(q, e)[Len(q) + 1] = e
OBVIOUS

\* The thread of s receives a message: every stream has the messages it had or
\* fewer, and if that was the only one of its kind there is none left.
LEMMA TakeThinner ==
  ASSUME TypeOK, NEW s \in Streams, chan[s] /= <<>>, Take(s), inq' = inq, NEW r \in Streams
  PROVE  /\ Thinner(r)
         /\ Head(chan[s]) \in Flight(s)
         /\ \A c \in {"OKAY", "WRTE"} : Has(s, c) /\ AtMostOne(s, c) => ~Some(s, c)'
<1>1. chan[s] \in Seq(Messages)
  BY DEF TypeOK, MsgSeqs
<1>2. chan'[s] = Tail(chan[s]) /\ (r /= s => chan'[r] = chan[r])
  BY DEF Take, TypeOK
<1>3. Head(chan[s]) \in Flight(s)
  BY <1>1, TailShift DEF Flight
<1>4. Thinner(r)
  <2>1. CASE r /= s
    BY <1>2, <2>1 DEF Thinner, Flight, AtMostOne
  <2>2. CASE r = s
    <3>1. Flight(s)' \subseteq Flight(s)
      BY <1>1, <1>2, TailShift DEF Flight
    <3>2. ASSUME NEW c, AtMostOne(s, c) PROVE AtMostOne(s, c)'
      BY <1>1, <1>2, <3>2, TailShift DEF AtMostOne
    <3>3. QED
      BY <2>2, <3>1, <3>2 DEF Thinner
  <2>3. QED
    BY <2>1, <2>2
<1>5. ASSUME NEW c \in {"OKAY", "WRTE"}, Has(s, c), AtMostOne(s, c) PROVE ~Some(s, c)'
  <2>1. \A i \in DOMAIN Tail(chan[s]) : Tail(chan[s])[i].cmd /= c
    BY <1>1, <1>5, TailShift DEF AtMostOne, Has
  <2>2. \A i \in DOMAIN inq : inq[i].to = s => inq[i].cmd /= c
    BY <1>1, <1>5, TailShift DEF AtMostOne, Has
  <2>3. QED
    BY <1>2, <2>1, <2>2 DEF Some, Flight
<1>6. QED
  BY <1>3, <1>4, <1>5

\* A message m is put on the bus.
LEMMA SendFlight ==
  ASSUME TypeOK, NEW m \in Messages, chan' = chan, inq' = Append(inq, m), NEW r \in Streams
  PROVE  /\ r /= m.to => Thinner(r)
         /\ Flight(m.to)' = Flight(m.to) \cup {m}
         /\ \A c \in {"OKAY", "WRTE"} :
              /\ c /= m.cmd /\ AtMostOne(m.to, c) => AtMostOne(m.to, c)'
              /\ ~Some(m.to, c) => AtMostOne(m.to, c)'
<1>1. inq \in Seq(Messages)
  BY DEF TypeOK, MsgSeqs
<1>2. ASSUME r /= m.to PROVE Thinner(r)
  <2>1. Flight(r)' \subseteq Flight(r)
    BY <1>1, <1>2, AppendShift DEF Flight
  <2>2. ASSUME NEW c, AtMostOne(r, c) PROVE AtMostOne(r, c)'
    BY <1>1, <1>2, <2>2, AppendShift DEF AtMostOne
  <2>3. QED
    BY <2>1, <2>2 DEF Thinner
<1>3. Flight(m.to)' = Flight(m.to) \cup {m}
  BY <1>1, AppendShift DEF Flight
<1>4. ASSUME NEW c, c /= m.cmd, AtMostOne(m.to, c) PROVE AtMostOne(m.to, c)'
  BY <1>1, <1>4, AppendShift DEF AtMostOne
<1>5. ASSUME NEW c, ~Some(m.to, c) PROVE AtMostOne(m.to, c)'
  BY <1>1, <1>5, AppendShift DEF AtMostOne, Some, Flight
<1>6. QED
  BY <1>2, <1>3, <1>4, <1>5

\* The reader takes a message off the bus, and puts it in its channel or not.
LEMMA ReceiveThinner ==
  ASSUME TypeOK, inq /= <<>>, inq' = Tail(inq),
         \/ chan' = chan
         \/ chan' = [chan EXCEPT ![Head(inq).to] = Append(@, Head(inq))],
         NEW r \in Streams
  PROVE  Thinner(r)
<1>1. inq \in Seq(Messages) /\ chan \in [Streams -> Seq(Messages)]
  BY DEF TypeOK, MsgSeqs
<1>2. CASE chan' = chan
  <2>1. Flight(r)' \subseteq Flight(r)
    BY <1>1, <1>2, TailShift DEF Flight
  <2>2. ASSUME NEW c, AtMostOne(r, c) PROVE AtMostOne(r, c)'
    BY <1>1, <1>2, <2>2, TailShift DEF AtMostOne
  <2>3. QED
    BY <2>1, <2>2 DEF Thinner
<1>3. CASE chan' = [chan EXCEPT ![Head(inq).to] = Append(@, Head(inq))]
  <2> DEFINE h == Head(inq)
  <2>1. CASE h.to /= r
    <3>1. chan'[r] = chan[r]
      BY <1>1, <1>3, <2>1
    <3>2. Flight(r)' \subseteq Flight(r)
      BY <1>1, <3>1, TailShift DEF Flight
    <3>3. ASSUME NEW c, AtMostOne(r, c) PROVE AtMostOne(r, c)'
      BY <1>1, <3>1, <3>3, TailShift DEF AtMostOne
    <3>4. QED
      BY <3>2, <3>3 DEF Thinner
  <2>2. CASE h.to = r
    <3>1. chan'[r] = Append(chan[r], h) /\ h \in Messages /\ h = inq[1] /\ 1 \in DOMAIN inq
      BY <1>1, <1>3, <2>2, TailShift, HeadTail
    <3>2. /\ DOMAIN chan'[r] = DOMAIN chan[r] \cup {Len(chan[r]) + 1}
          /\ \A i \in DOMAIN chan[r] : chan'[r][i] = chan[r][i]
          /\ chan'[r][Len(chan[r]) + 1] = h
      BY <1>1, <3>1, AppendShift
    <3>3. Flight(r)' \subseteq Flight(r)
      BY <1>1, <2>2, <3>1, <3>2, TailShift DEF Flight
    <3>4. ASSUME NEW c, AtMostOne(r, c) PROVE AtMostOne(r, c)'
      BY <1>1, <2>2, <3>1, <3>2, <3>4, TailShift DEF AtMostOne
    <3>5. QED
      BY <3>3, <3>4 DEF Thinner
  <2>3. QED
    BY <2>1, <2>2
<1>4. QED
  BY <1>2, <1>3

\* What one step leaves alone of a stream r it is not about.
Calm(r) ==
  /\ pc'[r] = pc[r] /\ writer'[r] = writer[r] /\ got'[r] = got[r] /\ rbuf'[r] = rbuf[r]
  /\ dev'[r] = dev[r] /\ owed'[r] = owed[r] /\ waitAck'[r] = waitAck[r] /\ sent'[r] = sent[r]
  /\ Thinner(r)

\* No c in flight is at most one.
LEMMA NoneIsAtMostOne ==
  ASSUME NEW s, NEW c, ~Some(s, c)
  PROVE  AtMostOne(s, c)
BY DEF Some, AtMostOne, Flight

\* What holds of each stream by itself.
StreamInv(s) == DataInv(s) /\ AckInv(s) /\ CloseInv(s)

\* The device does not come back, and a dispatcher that was shut down stays so.
NoWayBack == (plugged' => plugged) /\ (shutdown => shutdown')

\* A stream keeps its invariant through the steps of others.
LEMMA CalmKeeps ==
  ASSUME NEW r \in Streams, StreamInv(r), Calm(r), NoWayBack
  PROVE  StreamInv(r)'
<1> USE DEF Calm, Thinner, Some, Taken
<1>1. DataInv(r)'
  BY DEF StreamInv, DataInv
<1>2. AckInv(r)'
  BY DEF StreamInv, AckInv
<1>3. CloseInv(r)'
  BY DEF StreamInv, CloseInv, NoWayBack
<1>4. QED
  BY <1>1, <1>2, <1>3 DEF StreamInv

\* Every step keeps the invariant of every stream.
LEMMA StreamStep ==
  ASSUME TypeOK, RegistryExact, FlagInv, \A s \in Streams : StreamInv(s), NoWayBack, [Next]_vars
  PROVE  \A s \in Streams : StreamInv(s)'
<1>1. /\ pc \in [Streams -> PCs] /\ writer \in [Streams -> {"none", "ready", "half", "shut"}]
      /\ got \in [Streams -> Seq(Data)] /\ rbuf \in [Streams -> Seq(Data)]
      /\ dev \in [Streams -> {"none", "asked", "open", "closed"}]
      /\ owed \in [Streams -> Nat] /\ waitAck \in [Streams -> BOOLEAN]
      /\ sent \in [Streams -> Nat]
  BY DEF TypeOK
<1>2. ASSUME NEW s \in Streams, \A r \in Streams : r /= s => Calm(r), StreamInv(s)'
      PROVE  \A r \in Streams : StreamInv(r)'
  BY <1>2, CalmKeeps
<1> USE <1>1 DEF regVars, rdVars, outVars, threadVars, devVars, linkVars, histVars
<1>3. ASSUME NEW s \in Streams, OpenHeader(s) PROVE \A r \in Streams : StreamInv(r)'
  <2>1. \A r \in Streams : Thinner(r)
    BY <1>3, StillThinner DEF OpenHeader, HeaderOut, LockFree, Goto
  <2>2. \A r \in Streams : r /= s => Calm(r)
    BY <1>3, <2>1 DEF Calm, OpenHeader, HeaderOut, LockFree, Goto
  <2>3. DataInv(s)'
    BY <1>3, <2>1
    DEF StreamInv, DataInv, Some, Taken, Thinner, OpenHeader, HeaderOut, LockFree, Goto
  <2>4. AckInv(s)'
    BY <1>3, <2>1
    DEF StreamInv, AckInv, CloseInv, Some, Thinner, Early, OpenHeader, HeaderOut,
        LockFree, Goto
  <2>5. CloseInv(s)'
    BY <1>3, <2>1
    DEF StreamInv, CloseInv, Some, Thinner, Early, NoWayBack, OpenHeader, HeaderOut,
        LockFree, Goto
  <2>6. QED
    BY <1>2, <2>2, <2>3, <2>4, <2>5 DEF StreamInv
<1>4. ASSUME NEW s \in Streams, OpenPayload(s) PROVE \A r \in Streams : StreamInv(r)'
  <2>1. \A r \in Streams : Thinner(r)
    BY <1>4, StillThinner DEF OpenPayload, PayloadOut, Goto
  <2>2. \A r \in Streams : r /= s => Calm(r)
    BY <1>4, <2>1 DEF Calm, OpenPayload, PayloadOut, Goto
  <2>3. DataInv(s)'
    BY <1>4, <2>1
    DEF StreamInv, DataInv, Some, Taken, Thinner, OpenPayload, PayloadOut, Goto
  <2>4. AckInv(s)'
    BY <1>4, <2>1, NoneIsAtMostOne
    DEF StreamInv, AckInv, CloseInv, Some, Thinner, Early, OpenPayload, PayloadOut, Goto
  <2>5. CloseInv(s)'
    BY <1>4, <2>1
    DEF StreamInv, CloseInv, Some, Thinner, Early, NoWayBack, OpenPayload, PayloadOut,
        Goto
  <2>6. QED
    BY <1>2, <2>2, <2>3, <2>4, <2>5 DEF StreamInv
<1>5. ASSUME NEW s \in Streams, OpenFails(s) PROVE \A r \in Streams : StreamInv(r)'
  <2>1. \A r \in Streams : Thinner(r)
    BY <1>5, StillThinner DEF OpenFails, SendFails, Goto
  <2>2. \A r \in Streams : r /= s => Calm(r)
    BY <1>5, <2>1 DEF Calm, OpenFails, SendFails, Goto
  <2>3. DataInv(s)'
    BY <1>5, <2>1
    DEF StreamInv, DataInv, Some, Taken, Thinner, OpenFails, SendFails, Goto
  <2>4. AckInv(s)'
    BY <1>5, <2>1
    DEF StreamInv, AckInv, CloseInv, Some, Thinner, Early, OpenFails, SendFails, Goto
  <2>5. CloseInv(s)'
    BY <1>5, <2>1
    DEF StreamInv, CloseInv, Some, Thinner, Early, NoWayBack, OpenFails, SendFails, Goto
  <2>6. QED
    BY <1>2, <2>2, <2>3, <2>4, <2>5 DEF StreamInv
<1>6. ASSUME NEW s \in Streams, OpenDisconnected(s) PROVE \A r \in Streams : StreamInv(r)'
  <2>1. \A r \in Streams : Thinner(r)
    BY <1>6, StillThinner DEF OpenDisconnected, OpenGivesUp, Unregister, Goto
  <2>2. \A r \in Streams : r /= s => Calm(r)
    BY <1>6, <2>1 DEF Calm, OpenDisconnected, OpenGivesUp, Unregister, Goto
  <2>3. DataInv(s)'
    BY <1>6, <2>1
    DEF StreamInv, DataInv, Some, Taken, Thinner, OpenDisconnected, OpenGivesUp,
        Unregister, Goto
  <2>4. AckInv(s)'
    BY <1>6, <2>1
    DEF StreamInv, AckInv, CloseInv, Some, Thinner, Early, OpenDisconnected,
        OpenGivesUp, Unregister, Goto
  <2>5. CloseInv(s)'
    BY <1>6, <2>1
    DEF StreamInv, CloseInv, Some, Thinner, Early, NoWayBack, OpenDisconnected,
        OpenGivesUp, Unregister, Goto
  <2>6. QED
    BY <1>2, <2>2, <2>3, <2>4, <2>5 DEF StreamInv
<1>7. ASSUME NEW s \in Streams, ReadBuffered(s) PROVE \A r \in Streams : StreamInv(r)'
  <2>1. \A r \in Streams : Thinner(r)
    BY <1>7, StillThinner DEF ReadBuffered
  <2>2. \A r \in Streams : r /= s => Calm(r)
    BY <1>7, <2>1 DEF Calm, ReadBuffered
  <2>3. DataInv(s)'
    BY <1>7, <2>1 DEF StreamInv, DataInv, Some, Taken, Thinner, ReadBuffered
  <2>4. AckInv(s)'
    BY <1>7, <2>1 DEF StreamInv, AckInv, CloseInv, Some, Thinner, Early, ReadBuffered
  <2>5. CloseInv(s)'
    BY <1>7, <2>1 DEF StreamInv, CloseInv, Some, Thinner, Early, NoWayBack, ReadBuffered
  <2>6. QED
    BY <1>2, <2>2, <2>3, <2>4, <2>5 DEF StreamInv
<1>8. ASSUME NEW s \in Streams, ReadDisconnected(s) PROVE \A r \in Streams : StreamInv(r)'
  <2>1. \A r \in Streams : Thinner(r)
    BY <1>8, StillThinner DEF ReadDisconnected, Goto
  <2>2. \A r \in Streams : r /= s => Calm(r)
    BY <1>8, <2>1 DEF Calm, ReadDisconnected, Goto
  <2>3. DataInv(s)'
    BY <1>8, <2>1 DEF StreamInv, DataInv, Some, Taken, Thinner, ReadDisconnected, Goto
  <2>4. AckInv(s)'
    BY <1>8, <2>1
    DEF StreamInv, AckInv, CloseInv, Some, Thinner, Early, ReadDisconnected, Goto
  <2>5. CloseInv(s)'
    BY <1>8, <2>1
    DEF StreamInv, CloseInv, Some, Thinner, Early, NoWayBack, RegistryExact, Live,
        FlagInv, Disconnected, ReadDisconnected, Goto
  <2>6. QED
    BY <1>2, <2>2, <2>3, <2>4, <2>5 DEF StreamInv
<1>9. ASSUME NEW s \in Streams, WritePayload(s) PROVE \A r \in Streams : StreamInv(r)'
  <2>1. \A r \in Streams : Thinner(r)
    BY <1>9, StillThinner DEF WritePayload, PayloadOut, DeliverWrite, Goto
  <2>2. \A r \in Streams : r /= s => Calm(r)
    BY <1>9, <2>1 DEF Calm, WritePayload, PayloadOut, DeliverWrite, Goto
  <2>3. DataInv(s)'
    BY <1>9, <2>1
    DEF StreamInv, DataInv, Some, Taken, Thinner, WritePayload, PayloadOut,
        DeliverWrite, Goto
  <2>4. AckInv(s)'
    BY <1>9, <2>1, NoneIsAtMostOne
    DEF StreamInv, AckInv, CloseInv, Some, Thinner, Early, WritePayload, PayloadOut,
        DeliverWrite, Goto
  <2>5. CloseInv(s)'
    BY <1>9, <2>1
    DEF StreamInv, CloseInv, Some, Thinner, Early, NoWayBack, WritePayload, PayloadOut,
        DeliverWrite, Goto
  <2>6. QED
    BY <1>2, <2>2, <2>3, <2>4, <2>5 DEF StreamInv
<1>10. ASSUME NEW s \in Streams, WriterPayload(s) PROVE \A r \in Streams : StreamInv(r)'
  <2>1. \A r \in Streams : Thinner(r)
    BY <1>10, StillThinner DEF WriterPayload, PayloadOut, DeliverWrite
  <2>2. \A r \in Streams : r /= s => Calm(r)
    BY <1>10, <2>1 DEF Calm, WriterPayload, PayloadOut, DeliverWrite
  <2>3. DataInv(s)'
    BY <1>10, <2>1
    DEF StreamInv, DataInv, Some, Taken, Thinner, WriterPayload, PayloadOut,
        DeliverWrite
  <2>4. AckInv(s)'
    BY <1>10, <2>1
    DEF StreamInv, AckInv, CloseInv, Some, Thinner, Early, WriterPayload, PayloadOut,
        DeliverWrite
  <2>5. CloseInv(s)'
    BY <1>10, <2>1
    DEF StreamInv, CloseInv, Some, Thinner, Early, NoWayBack, WriterPayload,
        PayloadOut, DeliverWrite
  <2>6. QED
    BY <1>2, <2>2, <2>3, <2>4, <2>5 DEF StreamInv
<1>11. ASSUME NEW s \in Streams, WriterFails(s) PROVE \A r \in Streams : StreamInv(r)'
  <2>1. \A r \in Streams : Thinner(r)
    BY <1>11, StillThinner DEF WriterFails, SendFails
  <2>2. \A r \in Streams : r /= s => Calm(r)
    BY <1>11, <2>1 DEF Calm, WriterFails, SendFails
  <2>3. DataInv(s)'
    BY <1>11, <2>1 DEF StreamInv, DataInv, Some, Taken, Thinner, WriterFails, SendFails
  <2>4. AckInv(s)'
    BY <1>11, <2>1
    DEF StreamInv, AckInv, CloseInv, Some, Thinner, Early, WriterFails, SendFails
  <2>5. CloseInv(s)'
    BY <1>11, <2>1
    DEF StreamInv, CloseInv, Some, Thinner, Early, NoWayBack, WriterFails, SendFails
  <2>6. QED
    BY <1>2, <2>2, <2>3, <2>4, <2>5 DEF StreamInv
<1>12. ASSUME NEW s \in Streams, Connect(s) PROVE \A r \in Streams : StreamInv(r)'
  <2>1. \A r \in Streams : Thinner(r)
    BY <1>12, StillThinner DEF Connect, Goto
  <2>2. \A r \in Streams : r /= s => Calm(r)
    BY <1>12, <2>1 DEF Calm, Connect, Goto
  <2>3. DataInv(s)'
    BY <1>12, <2>1 DEF StreamInv, DataInv, Some, Taken, Thinner, Connect, Goto
  <2>4. AckInv(s)'
    BY <1>12, <2>1 DEF StreamInv, AckInv, CloseInv, Some, Thinner, Early, Connect, Goto
  <2>5. CloseInv(s)'
    BY <1>12, <2>1
    DEF StreamInv, CloseInv, Some, Thinner, Early, NoWayBack, Connect, Goto
  <2>6. QED
    BY <1>2, <2>2, <2>3, <2>4, <2>5 DEF StreamInv
<1>13. ASSUME NEW s \in Streams, Register(s) PROVE \A r \in Streams : StreamInv(r)'
  <2>1. \A r \in Streams : Thinner(r)
    BY <1>13, StillThinner DEF Register, Goto
  <2>2. \A r \in Streams : r /= s => Calm(r)
    BY <1>13, <2>1 DEF Calm, Register, Goto
  <2>3. DataInv(s)'
    BY <1>13, <2>1 DEF StreamInv, DataInv, Some, Taken, Thinner, Register, Goto
  <2>4. AckInv(s)'
    BY <1>13, <2>1 DEF StreamInv, AckInv, CloseInv, Some, Thinner, Early, Register, Goto
  <2>5. CloseInv(s)'
    BY <1>13, <2>1
    DEF StreamInv, CloseInv, Some, Thinner, Early, NoWayBack, Register, Goto
  <2>6. QED
    BY <1>2, <2>2, <2>3, <2>4, <2>5 DEF StreamInv
<1>14. ASSUME NEW s \in Streams, OpenTimeout(s) PROVE \A r \in Streams : StreamInv(r)'
  <2>1. \A r \in Streams : Thinner(r)
    BY <1>14, StillThinner DEF OpenTimeout, OpenGivesUp, Unregister, Goto
  <2>2. \A r \in Streams : r /= s => Calm(r)
    BY <1>14, <2>1 DEF Calm, OpenTimeout, OpenGivesUp, Unregister, Goto
  <2>3. DataInv(s)'
    BY <1>14, <2>1
    DEF StreamInv, DataInv, Some, Taken, Thinner, OpenTimeout, OpenGivesUp, Unregister,
        Goto
  <2>4. AckInv(s)'
    BY <1>14, <2>1
    DEF StreamInv, AckInv, CloseInv, Some, Thinner, Early, OpenTimeout, OpenGivesUp,
        Unregister, Goto
  <2>5. CloseInv(s)'
    BY <1>14, <2>1
    DEF StreamInv, CloseInv, Some, Thinner, Early, NoWayBack, OpenTimeout, OpenGivesUp,
        Unregister, Goto
  <2>6. QED
    BY <1>2, <2>2, <2>3, <2>4, <2>5 DEF StreamInv
<1>15. ASSUME NEW s \in Streams, WriteHeader(s) PROVE \A r \in Streams : StreamInv(r)'
  <2>1. \A r \in Streams : Thinner(r)
    BY <1>15, StillThinner DEF WriteHeader, HeaderOut, LockFree, Goto
  <2>2. \A r \in Streams : r /= s => Calm(r)
    BY <1>15, <2>1 DEF Calm, WriteHeader, HeaderOut, LockFree, Goto
  <2>3. DataInv(s)'
    BY <1>15, <2>1
    DEF StreamInv, DataInv, Some, Taken, Thinner, WriteHeader, HeaderOut, LockFree, Goto
  <2>4. AckInv(s)'
    BY <1>15, <2>1
    DEF StreamInv, AckInv, CloseInv, Some, Thinner, Early, WriteHeader, HeaderOut,
        LockFree, Goto
  <2>5. CloseInv(s)'
    BY <1>15, <2>1
    DEF StreamInv, CloseInv, Some, Thinner, Early, NoWayBack, WriteHeader, HeaderOut,
        LockFree, Goto
  <2>6. QED
    BY <1>2, <2>2, <2>3, <2>4, <2>5 DEF StreamInv
<1>16. ASSUME NEW s \in Streams, WriteTimeout(s) PROVE \A r \in Streams : StreamInv(r)'
  <2>1. \A r \in Streams : Thinner(r)
    BY <1>16, StillThinner DEF WriteTimeout, Goto
  <2>2. \A r \in Streams : r /= s => Calm(r)
    BY <1>16, <2>1 DEF Calm, WriteTimeout, Goto
  <2>3. DataInv(s)'
    BY <1>16, <2>1 DEF StreamInv, DataInv, Some, Taken, Thinner, WriteTimeout, Goto
  <2>4. AckInv(s)'
    BY <1>16, <2>1
    DEF StreamInv, AckInv, CloseInv, Some, Thinner, Early, WriteTimeout, Goto
  <2>5. CloseInv(s)'
    BY <1>16, <2>1
    DEF StreamInv, CloseInv, Some, Thinner, Early, NoWayBack, WriteTimeout, Goto
  <2>6. QED
    BY <1>2, <2>2, <2>3, <2>4, <2>5 DEF StreamInv
<1>17. ASSUME NEW s \in Streams, CreateWriter(s) PROVE \A r \in Streams : StreamInv(r)'
  <2>1. \A r \in Streams : Thinner(r)
    BY <1>17, StillThinner DEF CreateWriter
  <2>2. \A r \in Streams : r /= s => Calm(r)
    BY <1>17, <2>1 DEF Calm, CreateWriter
  <2>3. DataInv(s)'
    BY <1>17, <2>1 DEF StreamInv, DataInv, Some, Taken, Thinner, CreateWriter
  <2>4. AckInv(s)'
    BY <1>17, <2>1 DEF StreamInv, AckInv, CloseInv, Some, Thinner, Early, CreateWriter
  <2>5. CloseInv(s)'
    BY <1>17, <2>1
    DEF StreamInv, CloseInv, Some, Thinner, Early, NoWayBack, CreateWriter
  <2>6. QED
    BY <1>2, <2>2, <2>3, <2>4, <2>5 DEF StreamInv
<1>18. ASSUME NEW s \in Streams, WriterHeader(s) PROVE \A r \in Streams : StreamInv(r)'
  <2>1. \A r \in Streams : Thinner(r)
    BY <1>18, StillThinner DEF WriterHeader, HeaderOut, LockFree
  <2>2. \A r \in Streams : r /= s => Calm(r)
    BY <1>18, <2>1 DEF Calm, WriterHeader, HeaderOut, LockFree
  <2>3. DataInv(s)'
    BY <1>18, <2>1
    DEF StreamInv, DataInv, Some, Taken, Thinner, WriterHeader, HeaderOut, LockFree
  <2>4. AckInv(s)'
    BY <1>18, <2>1
    DEF StreamInv, AckInv, CloseInv, Some, Thinner, Early, WriterHeader, HeaderOut,
        LockFree
  <2>5. CloseInv(s)'
    BY <1>18, <2>1
    DEF StreamInv, CloseInv, Some, Thinner, Early, NoWayBack, WriterHeader, HeaderOut,
        LockFree
  <2>6. QED
    BY <1>2, <2>2, <2>3, <2>4, <2>5 DEF StreamInv
<1>19. ASSUME NEW s \in Streams, OpenReply(s) PROVE \A r \in Streams : StreamInv(r)'
  <2>1. /\ \A r \in Streams : Thinner(r)
        /\ Head(chan[s]) \in Flight(s)
        /\ Has(s, "OKAY") /\ AtMostOne(s, "OKAY") => ~Some(s, "OKAY")'
    BY <1>19, TakeThinner DEF OpenReply, Has
  <2>2. \A r \in Streams : r /= s => Calm(r)
    BY <1>19, <2>1 DEF Calm, OpenReply, Unregister, Has, Goto
  <2>3. DataInv(s)'
    BY <1>19, <2>1
    DEF StreamInv, DataInv, Some, Taken, Thinner, OpenReply, Unregister, Has, Goto
  <2>4. AckInv(s)'
    BY <1>19, <2>1
    DEF StreamInv, AckInv, CloseInv, Some, Thinner, Early, OpenReply, Unregister, Has,
        Goto
  <2>5. CloseInv(s)'
    BY <1>19, <2>1
    DEF StreamInv, CloseInv, Some, Thinner, Early, NoWayBack, OpenReply, Unregister,
        Has, Goto
  <2>6. QED
    BY <1>2, <2>2, <2>3, <2>4, <2>5 DEF StreamInv
<1>20. ASSUME NEW s \in Streams, WriteAcked(s) PROVE \A r \in Streams : StreamInv(r)'
  <2>1. /\ \A r \in Streams : Thinner(r)
        /\ Head(chan[s]) \in Flight(s)
        /\ Has(s, "OKAY") /\ AtMostOne(s, "OKAY") => ~Some(s, "OKAY")'
    BY <1>20, TakeThinner DEF WriteAcked, Has
  <2>2. \A r \in Streams : r /= s => Calm(r)
    BY <1>20, <2>1 DEF Calm, WriteAcked, Has, Goto
  <2>3. DataInv(s)'
    BY <1>20, <2>1 DEF StreamInv, DataInv, Some, Taken, Thinner, WriteAcked, Has, Goto
  <2>4. AckInv(s)'
    BY <1>20, <2>1
    DEF StreamInv, AckInv, CloseInv, Some, Thinner, Early, WriteAcked, Has, Goto
  <2>5. CloseInv(s)'
    BY <1>20, <2>1
    DEF StreamInv, CloseInv, Some, Thinner, Early, NoWayBack, WriteAcked, Has, Goto
  <2>6. QED
    BY <1>2, <2>2, <2>3, <2>4, <2>5 DEF StreamInv
<1>21. ASSUME NEW s \in Streams, ReadOther(s) PROVE \A r \in Streams : StreamInv(r)'
  <2>1. /\ \A r \in Streams : Thinner(r)
        /\ Head(chan[s]) \in Flight(s)
        /\ Has(s, "OKAY") /\ AtMostOne(s, "OKAY") => ~Some(s, "OKAY")'
    BY <1>21, TakeThinner DEF ReadOther, Has
  <2>2. \A r \in Streams : r /= s => Calm(r)
    BY <1>21, <2>1 DEF Calm, ReadOther, Has, Goto
  <2>3. DataInv(s)'
    BY <1>21, <2>1 DEF StreamInv, DataInv, Some, Taken, Thinner, ReadOther, Has, Goto
  <2>4. AckInv(s)'
    BY <1>21, <2>1
    DEF StreamInv, AckInv, CloseInv, Some, Thinner, Early, ReadOther, Has, Goto
  <2>5. CloseInv(s)'
    BY <1>21, <2>1
    DEF StreamInv, CloseInv, Some, Thinner, Early, NoWayBack, ReadOther, Has, Goto
  <2>6. QED
    BY <1>2, <2>2, <2>3, <2>4, <2>5 DEF StreamInv
<1>22. ASSUME NEW s \in Streams, ReadData(s) PROVE \A r \in Streams : StreamInv(r)'
  <2>1. /\ \A r \in Streams : Thinner(r)
        /\ Head(chan[s]) \in Flight(s)
        /\ Has(s, "WRTE") /\ AtMostOne(s, "WRTE") => ~Some(s, "WRTE")'
    BY <1>22, TakeThinner DEF ReadData, Has
  <2>2. \A r \in Streams : r /= s => Calm(r)
    BY <1>22, <2>1 DEF Calm, ReadData, AckOut, SingleOut, LockFree
  <2>3. waitAck[s] /\ Datum(s) = <<s, Taken(s) + 1>> /\ ~Some(s, "WRTE")'
    BY <1>22, <2>1 DEF StreamInv, DataInv, Some, Datum, Has, ReadData
  <2>4. Datum(s) \in Data
    BY <1>22, DatumType DEF ReadData
  <2>5. got'[s] = Append(got[s], Datum(s)) /\ UNCHANGED <<rbuf, sent>> /\ ~waitAck'[s]
    BY <1>22 DEF ReadData, AckOut
  <2>6. /\ Len(got'[s]) = Len(got[s]) + 1
        /\ \A i \in 1..Len(got[s]) : got'[s][i] = got[s][i]
        /\ got'[s][Len(got[s]) + 1] = Datum(s)
    BY <2>4, <2>5, AppendShift
  <2>7. DataInv(s)'
    BY <1>22, <2>1, <2>3, <2>5, <2>6 DEF StreamInv, DataInv, Taken, Thinner, ReadData
  <2>8. AckInv(s)'
    BY <1>22, <2>1
    DEF StreamInv, AckInv, CloseInv, Some, Thinner, Early, ReadData, AckOut, SingleOut,
        LockFree
  <2>9. CloseInv(s)'
    BY <1>22, <2>1
    DEF StreamInv, CloseInv, Some, Thinner, Early, NoWayBack, ReadData, AckOut,
        SingleOut, LockFree
  <2>10. QED
    BY <1>2, <2>2, <2>7, <2>8, <2>9 DEF StreamInv
<1>23. ASSUME NEW s \in Streams, WriteBuffersData(s) PROVE \A r \in Streams : StreamInv(r)'
  <2>1. /\ \A r \in Streams : Thinner(r)
        /\ Head(chan[s]) \in Flight(s)
        /\ Has(s, "WRTE") /\ AtMostOne(s, "WRTE") => ~Some(s, "WRTE")'
    BY <1>23, TakeThinner DEF WriteBuffersData, Has
  <2>2. \A r \in Streams : r /= s => Calm(r)
    BY <1>23, <2>1 DEF Calm, WriteBuffersData, AckOut, SingleOut, LockFree
  <2>3. waitAck[s] /\ Datum(s) = <<s, Taken(s) + 1>> /\ ~Some(s, "WRTE")'
    BY <1>23, <2>1 DEF StreamInv, DataInv, Some, Datum, Has, WriteBuffersData
  <2>4. Datum(s) \in Data
    BY <1>23, DatumType DEF WriteBuffersData
  <2>5. rbuf'[s] = Append(rbuf[s], Datum(s)) /\ UNCHANGED <<got, sent>> /\ ~waitAck'[s]
    BY <1>23 DEF WriteBuffersData, AckOut
  <2>6. /\ Len(rbuf'[s]) = Len(rbuf[s]) + 1
        /\ \A i \in 1..Len(rbuf[s]) : rbuf'[s][i] = rbuf[s][i]
        /\ rbuf'[s][Len(rbuf[s]) + 1] = Datum(s)
    BY <2>4, <2>5, AppendShift
  <2>7. DataInv(s)'
    <3>1. \A i \in 1..Len(rbuf'[s]) : i \in 1..Len(rbuf[s]) \/ i = Len(rbuf[s]) + 1
      BY <2>6
    <3>2. Datum(s) = <<s, Len(got[s]) + (Len(rbuf[s]) + 1)>>
      BY <2>3 DEF Taken
    <3>3. \A i \in 1..Len(rbuf'[s]) : rbuf'[s][i] = <<s, Len(got[s]) + i>>
      BY <2>6, <3>1, <3>2 DEF StreamInv, DataInv
    <3>4. QED
      BY <1>23, <3>3, <2>1, <2>3, <2>5, <2>6 DEF StreamInv, DataInv, Taken, Thinner
  <2>8. AckInv(s)'
    BY <1>23, <2>1
    DEF StreamInv, AckInv, CloseInv, Some, Thinner, Early, WriteBuffersData, AckOut,
        SingleOut, LockFree
  <2>9. CloseInv(s)'
    BY <1>23, <2>1
    DEF StreamInv, CloseInv, Some, Thinner, Early, NoWayBack, WriteBuffersData, AckOut,
        SingleOut, LockFree
  <2>10. QED
    BY <1>2, <2>2, <2>7, <2>8, <2>9 DEF StreamInv
<1>24. ASSUME NEW s \in Streams, WriteClosed(s) PROVE \A r \in Streams : StreamInv(r)'
  <2>1. /\ \A r \in Streams : Thinner(r)
        /\ Has(s, "CLSE") => Head(chan[s]) \in Flight(s)
    <3>1. CASE Has(s, "CLSE") /\ Take(s)
      BY <1>24, <3>1, TakeThinner DEF WriteClosed, Has
    <3>2. CASE Disconnected(s) /\ UNCHANGED chan
      BY <1>24, <3>2, StillThinner DEF WriteClosed, Disconnected, Has
    <3>3. QED
      BY <1>24, <3>1, <3>2 DEF WriteClosed
  <2>2. \A r \in Streams : r /= s => Calm(r)
    BY <1>24, <2>1 DEF Calm, WriteClosed, Goto
  <2>3. DataInv(s)'
    BY <1>24, <2>1 DEF StreamInv, DataInv, Some, Taken, Thinner, WriteClosed, Goto
  <2>4. AckInv(s)'
    BY <1>24, <2>1
    DEF StreamInv, AckInv, CloseInv, Some, Thinner, Early, WriteClosed, Goto
  <2>5. CloseInv(s)'
    BY <1>24, <2>1
    DEF StreamInv, CloseInv, Some, Thinner, Early, NoWayBack, RegistryExact, Live,
        FlagInv, Disconnected, Has, WriteClosed, Goto
  <2>6. QED
    BY <1>2, <2>2, <2>3, <2>4, <2>5 DEF StreamInv
<1>25. ASSUME NEW s \in Streams, StreamSendFails(s) PROVE \A r \in Streams : StreamInv(r)'
  <2>1. \A r \in Streams : Thinner(r)
    <3>1. CASE Has(s, "WRTE") /\ Take(s)
      BY <1>25, <3>1, TakeThinner DEF StreamSendFails, Has
    <3>2. CASE chan' = chan
      BY <1>25, <3>2, StillThinner DEF StreamSendFails
    <3>3. QED
      BY <1>25, <3>1, <3>2 DEF StreamSendFails
  <2>2. \A r \in Streams : r /= s => Calm(r)
    BY <1>25, <2>1 DEF Calm, StreamSendFails, SendFails, Goto
  <2>3. DataInv(s)'
    BY <1>25, <2>1
    DEF StreamInv, DataInv, Some, Taken, Thinner, StreamSendFails, SendFails, Goto
  <2>4. AckInv(s)'
    BY <1>25, <2>1
    DEF StreamInv, AckInv, CloseInv, Some, Thinner, Early, StreamSendFails, SendFails,
        Goto
  <2>5. CloseInv(s)'
    BY <1>25, <2>1
    DEF StreamInv, CloseInv, Some, Thinner, Early, NoWayBack, StreamSendFails,
        SendFails, Goto
  <2>6. QED
    BY <1>2, <2>2, <2>3, <2>4, <2>5 DEF StreamInv
<1>26. ASSUME NEW s \in Streams, DeviceAcks(s) PROVE \A r \in Streams : StreamInv(r)'
  <2> DEFINE m == Msg(s, "OKAY", 0)
  <2>1. /\ \A r \in Streams : r /= s => Thinner(r)
        /\ Flight(s)' = Flight(s) \cup {m}
        /\ AtMostOne(s, "WRTE") => AtMostOne(s, "WRTE")'
        /\ ~Some(s, "OKAY") => AtMostOne(s, "OKAY")'
    BY <1>26, ControlType, SendFlight DEF DeviceAcks, DeviceSends, Msg
  <2>2. \A r \in Streams : r /= s => Calm(r)
    BY <1>26, <2>1 DEF Calm, DeviceAcks, DeviceSends, Msg
  <2>3. DataInv(s)'
    BY <1>26, <2>1
    DEF StreamInv, DataInv, Some, Taken, Thinner, DeviceAcks, DeviceSends, Msg
  <2>4. AckInv(s)'
    BY <1>26, <2>1
    DEF StreamInv, AckInv, CloseInv, Some, Thinner, Early, DeviceAcks, DeviceSends, Msg
  <2>5. CloseInv(s)'
    BY <1>26, <2>1
    DEF StreamInv, CloseInv, Some, Thinner, Early, NoWayBack, DeviceAcks, DeviceSends,
        Msg
  <2>6. QED
    BY <1>2, <2>2, <2>3, <2>4, <2>5 DEF StreamInv
<1>27. ASSUME NEW s \in Streams, DeviceCloses(s) PROVE \A r \in Streams : StreamInv(r)'
  <2> DEFINE m == Msg(s, "CLSE", 0)
  <2>1. /\ \A r \in Streams : r /= s => Thinner(r)
        /\ Flight(s)' = Flight(s) \cup {m}
        /\ AtMostOne(s, "WRTE") => AtMostOne(s, "WRTE")'
        /\ AtMostOne(s, "OKAY") => AtMostOne(s, "OKAY")'
    BY <1>27, ControlType, SendFlight DEF DeviceCloses, DeviceSends, Msg
  <2>2. \A r \in Streams : r /= s => Calm(r)
    BY <1>27, <2>1 DEF Calm, DeviceCloses, DeviceSends, Msg
  <2>3. DataInv(s)'
    BY <1>27, <2>1
    DEF StreamInv, DataInv, Some, Taken, Thinner, DeviceCloses, DeviceSends, Msg
  <2>4. AckInv(s)'
    BY <1>27, <2>1
    DEF StreamInv, AckInv, CloseInv, Some, Thinner, Early, DeviceCloses, DeviceSends,
        Msg
  <2>5. CloseInv(s)'
    BY <1>27, <2>1
    DEF StreamInv, CloseInv, Some, Thinner, Early, NoWayBack, DeviceCloses,
        DeviceSends, Msg
  <2>6. QED
    BY <1>2, <2>2, <2>3, <2>4, <2>5 DEF StreamInv
<1>28. ASSUME NEW s \in Streams, DeviceAnswersOpen(s) PROVE \A r \in Streams : StreamInv(r)'
  <2>1. dev[s] = "asked" /\ UNCHANGED <<owed, waitAck, sent>>
    BY <1>28 DEF DeviceAnswersOpen
  <2>2. ASSUME NEW c \in {"OKAY", "CLSE"}, DeviceSends(s, c, 0),
               dev' = [dev EXCEPT ![s] = IF c = "OKAY" THEN "open" ELSE "closed"]
        PROVE  \A r \in Streams : StreamInv(r)'
    <3>1. /\ \A r \in Streams : r /= s => Thinner(r)
          /\ Flight(s)' = Flight(s) \cup {Msg(s, c, 0)}
          /\ AtMostOne(s, "WRTE") => AtMostOne(s, "WRTE")'
          /\ ~Some(s, "OKAY") => AtMostOne(s, "OKAY")'
      BY <2>2, ControlType, SendFlight DEF DeviceSends, Msg
    <3>2. \A r \in Streams : r /= s => Calm(r)
      BY <2>1, <2>2, <3>1 DEF Calm, DeviceSends
    <3>3. DataInv(s)'
      BY <2>1, <2>2, <3>1 DEF StreamInv, DataInv, Some, Taken, DeviceSends, Msg
    <3>4. AckInv(s)'
      BY <2>1, <2>2, <3>1 DEF StreamInv, AckInv, CloseInv, Some, Early, DeviceSends, Msg
    <3>5. CloseInv(s)'
      <4>1. /\ dev'[s] = IF c = "OKAY" THEN "open" ELSE "closed"
            /\ UNCHANGED <<pc, got>>
        BY <2>2 DEF DeviceSends
      <4>2. ~Some(s, "CLSE") /\ pc[s] \notin Early
        BY <2>1 DEF StreamInv, CloseInv
      <4>3. Some(s, "CLSE")' => c = "CLSE"
        BY <3>1, <4>2 DEF Some, Msg
      <4>4. QED
        BY <2>1, <4>1, <4>2, <4>3 DEF StreamInv, CloseInv, Early, NoWayBack
    <3>6. QED
      BY <1>2, <3>2, <3>3, <3>4, <3>5 DEF StreamInv
  <2>3. QED
    BY <1>28, <2>2 DEF DeviceAnswersOpen
<1>29. ASSUME NEW s \in Streams, DeviceWrites(s) PROVE \A r \in Streams : StreamInv(r)'
  <2> DEFINE m == Msg(s, "WRTE", sent[s] + 1)
  <2>1. PICK k \in Nat \ {0} : k = sent[s] + 1
    OBVIOUS
  <2>2. Msg(s, "WRTE", k) \in Messages /\ inq' = Append(inq, Msg(s, "WRTE", k)) /\ chan' = chan
    BY <1>29, <2>1, WrteType DEF DeviceWrites, DeviceSends
  <2>3. /\ \A r \in Streams : r /= s => Thinner(r)
        /\ Flight(s)' = Flight(s) \cup {Msg(s, "WRTE", k)}
        /\ ~Some(s, "WRTE") => AtMostOne(s, "WRTE")'
        /\ AtMostOne(s, "OKAY") => AtMostOne(s, "OKAY")'
    BY <2>2, SendFlight DEF Msg
  <2>8. \A r \in Streams : r /= s => Calm(r)
    BY <1>29, <2>1, <2>3 DEF Calm, DeviceWrites, DeviceSends, Msg
  <2>9. DataInv(s)'
    BY <1>29, <2>1, <2>3
    DEF StreamInv, DataInv, Some, Taken, Thinner, DeviceWrites, DeviceSends, Msg
  <2>4. AckInv(s)'
    BY <1>29, <2>1, <2>3
    DEF StreamInv, AckInv, CloseInv, Some, Thinner, Early, DeviceWrites, DeviceSends,
        Msg
  <2>5. CloseInv(s)'
    BY <1>29, <2>1, <2>3
    DEF StreamInv, CloseInv, Some, Thinner, Early, NoWayBack, DeviceWrites,
        DeviceSends, Msg
  <2>6. QED
    BY <1>2, <2>8, <2>9, <2>4, <2>5 DEF StreamInv
<1>30. ASSUME NEW s \in Streams, Drop(s) PROVE \A r \in Streams : StreamInv(r)'
  <2>1. CASE SingleOut /\ DeviceGetsClose(s) /\ dev[s] = "open"
    <3>1. /\ \A r \in Streams : r /= s => Thinner(r)
          /\ Flight(s)' = Flight(s) \cup {Msg(s, "CLSE", 0)}
          /\ AtMostOne(s, "WRTE") => AtMostOne(s, "WRTE")'
      BY <1>30, <2>1, ControlType, SendFlight DEF Drop, DeviceGetsClose, Msg
    <3>2. \A r \in Streams : r /= s => Calm(r)
      BY <1>30, <2>1, <3>1 DEF Calm, Drop, DeviceGetsClose, Goto
    <3>3. DataInv(s)'
      <4>1. UNCHANGED <<got, rbuf, sent, waitAck>> /\ DataInv(s)
        BY <1>30, <2>1 DEF StreamInv, Drop, DeviceGetsClose
      <4>2. Msg(s, "CLSE", 0).to = s /\ Msg(s, "CLSE", 0).cmd = "CLSE"
        BY DEF Msg
      <4>3. \A m \in Flight(s)' : m \in Flight(s) \/ (m.to = s /\ m.cmd = "CLSE")
        BY <3>1, <4>2
      <4>4. Some(s, "WRTE")' => Some(s, "WRTE")
        BY <4>3 DEF Some
      <4>5. Taken(s)' = Taken(s)
        BY <4>1 DEF Taken
      <4>6. QED
        BY <3>1, <4>1, <4>3, <4>4, <4>5 DEF DataInv
    <3>4. AckInv(s)'
      BY <1>30, <2>1, <3>1 DEF AckInv, Early, Drop, DeviceGetsClose, Goto
    <3>5. CloseInv(s)'
      BY <1>30, <2>1, <3>1 DEF CloseInv, Early, Drop, DeviceGetsClose, Goto
    <3>6. QED
      BY <1>2, <3>2, <3>3, <3>4, <3>5 DEF StreamInv
  <2>2. CASE \/ SingleOut /\ DeviceGetsClose(s) /\ dev[s] /= "open"
             \/ SendFails(Thread(s)) /\ UNCHANGED <<devVars, linkVars>>
             \/ pc[s] = "closed" /\ UNCHANGED <<outVars, devVars, linkVars>>
    <3>1. \A r \in Streams : Thinner(r)
      BY <1>30, <2>2, StillThinner DEF Drop, DeviceGetsClose
    <3>2. \A r \in Streams : r /= s => Calm(r)
      BY <1>30, <2>2, <3>1 DEF Calm, Drop, DeviceGetsClose, Goto
    <3>3. DataInv(s)'
      BY <1>30, <2>2, <3>1
      DEF StreamInv, DataInv, Some, Taken, Thinner, Drop, DeviceGetsClose, Goto
    <3>4. AckInv(s)'
      BY <1>30, <2>2, <3>1
      DEF StreamInv, AckInv, CloseInv, Some, Thinner, Early, Drop, DeviceGetsClose, Goto
    <3>5. CloseInv(s)'
      BY <1>30, <2>2, <3>1
      DEF StreamInv, CloseInv, Some, Thinner, Early, NoWayBack, Drop, DeviceGetsClose,
          SendFails, Goto
    <3>6. QED
      BY <1>2, <3>2, <3>3, <3>4, <3>5 DEF StreamInv
  <2>3. QED
    BY <1>30, <2>1, <2>2 DEF Drop
<1>31. CASE RdRoute
  <2>1. \A r \in Streams : Thinner(r)
    BY <1>31, ReceiveThinner DEF RdRoute
  <2>2. \A r \in Streams : Calm(r)
    BY <1>31, <2>1 DEF Calm, RdRoute
  <2>3. QED
    BY <2>2, CalmKeeps
<1>32. CASE RdLose
  <2>1. \A r \in Streams : Thinner(r)
    BY <1>32, ReceiveThinner DEF RdLose
  <2>2. \A r \in Streams : Calm(r)
    BY <1>32, <2>1 DEF Calm, RdLose
  <2>3. QED
    BY <2>2, CalmKeeps
<1>33. CASE RdDisconnected
  <2>1. \A r \in Streams : Thinner(r)
    BY <1>33, StillThinner DEF RdDisconnected
  <2>2. \A r \in Streams : Calm(r)
    BY <1>33, <2>1 DEF Calm, RdDisconnected
  <2>3. QED
    BY <2>2, CalmKeeps
<1>34. CASE RdClear
  <2>1. \A r \in Streams : Thinner(r)
    BY <1>34, StillThinner DEF RdClear
  <2>2. \A r \in Streams : Calm(r)
    BY <1>34, <2>1 DEF Calm, RdClear
  <2>3. QED
    BY <2>2, CalmKeeps
<1>35. CASE RdError
  <2>1. \A r \in Streams : Thinner(r)
    BY <1>35, StillThinner DEF RdError
  <2>2. \A r \in Streams : Calm(r)
    BY <1>35, <2>1 DEF Calm, RdError
  <2>3. QED
    BY <2>2, CalmKeeps
<1>36. CASE Shutdown
  <2>1. \A r \in Streams : Thinner(r)
    BY <1>36, StillThinner DEF Shutdown
  <2>2. \A r \in Streams : Calm(r)
    BY <1>36, <2>1 DEF Calm, Shutdown
  <2>3. QED
    BY <2>2, CalmKeeps
<1>37. CASE Unplug
  <2>1. \A r \in Streams : Thinner(r)
    BY <1>37, StillThinner DEF Unplug
  <2>2. \A r \in Streams : Calm(r)
    BY <1>37, <2>1 DEF Calm, Unplug
  <2>3. QED
    BY <2>2, CalmKeeps
<1>38. CASE UNCHANGED vars
  <2>1. \A r \in Streams : Thinner(r)
    BY <1>38, StillThinner DEF vars
  <2>2. \A r \in Streams : Calm(r)
    BY <1>38, <2>1 DEF Calm, vars
  <2>3. QED
    BY <2>2, CalmKeeps
<1>39. QED
  BY <1>3, <1>4, <1>5, <1>6, <1>7, <1>8, <1>9, <1>10, <1>11, <1>12, <1>13, <1>14,
     <1>15, <1>16, <1>17, <1>18, <1>19, <1>20, <1>21, <1>22, <1>23, <1>24, <1>25,
     <1>26, <1>27, <1>28, <1>29, <1>30, <1>31, <1>32, <1>33, <1>34, <1>35, <1>36,
     <1>37, <1>38
  DEF Next, Progress, WriterProgress, Choice, Device, Reader

\* Every step keeps the flag in front of the reader, and neither the flag nor the
\* device goes back.
LEMMA FlagStep == FlagInv /\ [Next]_vars => FlagInv' /\ NoWayBack
<1> SUFFICES ASSUME FlagInv, [Next]_vars PROVE FlagInv' /\ NoWayBack
  OBVIOUS
<1> USE DEF FlagInv, NoWayBack,
        regVars, rdVars, outVars, threadVars, devVars, linkVars, histVars
<1>1. ASSUME NEW s \in Streams, Progress(s) PROVE UNCHANGED <<rdVars, plugged>>
  BY <1>1 DEF Progress, OpenHeader, OpenPayload, OpenFails, OpenReply, OpenDisconnected,
     OpenGivesUp, ReadBuffered, ReadData, ReadOther, ReadDisconnected, WritePayload,
     WriteAcked, WriteBuffersData, WriteClosed, StreamSendFails
<1>2. ASSUME NEW s \in Streams, WriterProgress(s) PROVE UNCHANGED <<rdVars, plugged>>
  BY <1>2 DEF WriterProgress, WriterPayload, WriterFails
<1>3. ASSUME NEW s \in Streams, Choice(s) PROVE UNCHANGED <<rdVars, plugged>>
  BY <1>3 DEF Choice, Connect, Register, OpenTimeout, OpenGivesUp, WriteHeader,
     WriteTimeout, Drop, DeviceGetsClose, CreateWriter, WriterHeader
<1>4. ASSUME NEW s \in Streams, Device(s) PROVE UNCHANGED <<rdVars, plugged>>
  BY <1>4 DEF Device, DeviceAnswersOpen, DeviceWrites, DeviceAcks, DeviceCloses, DeviceSends
<1>5. CASE Reader \/ RdLose \/ RdError
  BY <1>5 DEF Reader, RdRoute, RdDisconnected, RdClear, RdLose, RdError, Again, Stop
<1>6. CASE Shutdown \/ Unplug \/ UNCHANGED vars
  BY <1>6 DEF Shutdown, Unplug, vars
<1>7. QED
  BY <1>1, <1>2, <1>3, <1>4, <1>5, <1>6 DEF Next

\* The inductive invariant of the dispatcher.
DispatcherInv ==
  TypeOK /\ RegistryExact /\ FlagInv /\ \A s \in Streams : StreamInv(s)

\* It holds in every reachable state.
LEMMA DispatcherInvariant == Spec => []DispatcherInv
<1>1. Init => DispatcherInv
  <2> SUFFICES ASSUME Init PROVE DispatcherInv
    OBVIOUS
  <2>1. TypeOK
    BY TypeInit
  <2>2. RegistryExact /\ FlagInv
    BY DEF Init, RegistryExact, Live, FlagInv
  <2>3. ASSUME NEW s \in Streams PROVE StreamInv(s)
    <3>1. Flight(s) = {} /\ Taken(s) = 0
      BY DEF Init, Flight, Taken
    <3>2. QED
      BY <3>1 DEF Init, StreamInv, DataInv, AckInv, CloseInv, Some, Early
  <2>4. QED
    BY <2>1, <2>2, <2>3 DEF DispatcherInv
<1>2. DispatcherInv /\ [Next]_vars => DispatcherInv'
  BY TypeStep, RegistryStep, FlagStep, StreamStep DEF DispatcherInv
<1>3. QED
  BY <1>1, <1>2, PTL DEF Spec

\* Two sequences that count on from one another count without a gap together.
LEMMA CountOn ==
  ASSUME NEW S, NEW g \in Seq(S), NEW b \in Seq(S), NEW s,
         \A i \in 1..Len(g) : g[i] = <<s, i>>,
         \A i \in 1..Len(b) : b[i] = <<s, Len(g) + i>>
  PROVE  /\ g \o b \in Seq(S)
         /\ \A i \in 1..Len(g \o b) : (g \o b)[i] = <<s, i>>
<1>1. /\ g \o b \in Seq(S)
      /\ Len(g \o b) = Len(g) + Len(b)
      /\ \A i \in 1..(Len(g) + Len(b)) :
           (g \o b)[i] = IF i <= Len(g) THEN g[i] ELSE b[i - Len(g)]
  BY ConcatProperties
<1>2. \A i \in 1..(Len(g) + Len(b)) : (g \o b)[i] = <<s, i>>
  <2> TAKE i \in 1..(Len(g) + Len(b))
  <2>1. CASE i <= Len(g)
    BY <1>1, <2>1
  <2>2. CASE i > Len(g)
    <3> DEFINE j == i - Len(g)
    <3>1. Len(g) \in Nat /\ Len(b) \in Nat
      BY LenProperties
    <3>2. j \in 1..Len(b) /\ Len(g) + j = i
      BY <2>2, <3>1
    <3>3. (g \o b)[i] = b[j]
      BY <1>1, <2>2, <3>1
    <3>4. b[j] = <<s, Len(g) + j>>
      BY <3>2
    <3>5. QED
      BY <3>2, <3>3, <3>4
  <2>3. QED
    BY <2>1, <2>2
<1>3. QED
  BY <1>1, <1>2

\* What a thread has read or buffered is exactly the beginning of what the device
\* sent on its stream, whatever the link loses and however the reads, the writes
\* and the other streams interleave.
THEOREM DataIntact == Spec => []StreamIntact
<1>1. DispatcherInv => StreamIntact
  <2> SUFFICES ASSUME DispatcherInv, NEW s \in Streams
               PROVE  got[s] \o rbuf[s] = [i \in 1..Len(got[s] \o rbuf[s]) |-> <<s, i>>]
    BY DEF StreamIntact
  <2>1. got[s] \in Seq(Data) /\ rbuf[s] \in Seq(Data)
    BY DEF DispatcherInv, TypeOK
  <2>2. /\ \A i \in 1..Len(got[s]) : got[s][i] = <<s, i>>
        /\ \A i \in 1..Len(rbuf[s]) : rbuf[s][i] = <<s, Len(got[s]) + i>>
    BY DEF DispatcherInv, StreamInv, DataInv
  <2> DEFINE all == got[s] \o rbuf[s]
  <2>3. ASSUME NEW g \in Seq(Data), NEW b \in Seq(Data),
               \A i \in 1..Len(g) : g[i] = <<s, i>>,
               \A i \in 1..Len(b) : b[i] = <<s, Len(g) + i>>
        PROVE  g \o b \in Seq(Data) /\ \A i \in 1..Len(g \o b) : (g \o b)[i] = <<s, i>>
    BY <2>3, CountOn
  <2>4. all \in Seq(Data) /\ \A i \in 1..Len(all) : all[i] = <<s, i>>
    BY <2>1, <2>2, <2>3
  <2>5. all = [i \in 1..Len(all) |-> all[i]]
    BY <2>4, LenProperties
  <2>6. QED
    BY <2>4, <2>5
<1>2. QED
  BY DispatcherInvariant, <1>1, PTL

\* No acknowledgement is outstanding or in flight when no write is under way, so
\* each write() takes the OKAY of its own WRTE.
THEOREM AcksAreOwn == Spec => []AckIsOwn
<1>1. DispatcherInv => AckIsOwn
  BY DEF DispatcherInv, StreamInv, AckInv, AckIsOwn, InFlight, Some, Flight, Early
<1>2. QED
  BY DispatcherInvariant, <1>1, PTL

\* A UsbStream that was dropped is closed at the device, whatever was done with it before,
\* unless the dispatcher was shut down or the device unplugged.
THEOREM ClosesReachDevice == Spec => []CloseReachesDevice
<1>1. DispatcherInv => CloseReachesDevice
  BY DEF DispatcherInv, StreamInv, CloseInv, CloseReachesDevice
<1>2. QED
  BY DispatcherInvariant, <1>1, PTL

==============================================================================
