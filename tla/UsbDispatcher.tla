---------------------------- MODULE UsbDispatcher ----------------------------
(***************************************************************************)
(* One ADB-over-USB connection of protocols/adb_usb.rs after its handshake: *)
(* the UsbDispatcher (a registry of streams, one reader thread that routes  *)
(* messages to per-stream channels), the UsbStreams opened on it, each used *)
(* by a thread of its own, and the UsbShellWriters that share a stream's    *)
(* ids.  All of them send through one write lock; a message goes out as two *)
(* transfers, header then payload.                                          *)
(*                                                                          *)
(* A stream is its local id: NEXT_LOCAL_ID hands each out once.  The reader *)
(* consumes what MessagePipe promises: messages in order, possibly losing   *)
(* some.  The device is the environment: adbd keeps the protocol (one       *)
(* unacknowledged WRTE per stream, one OKAY per WRTE) and nothing else.     *)
(***************************************************************************)
EXTENDS Integers, Sequences

CONSTANTS
  Streams,     \* local stream ids
  LinkLoses,   \* whether messages from the device can be lost (UsbFraming says when)
  NoOne,       \* no thread, no message
  MaxData,     \* bound: MaxData[s] WRTE messages from the device on stream s
  MaxWrites    \* bound: MaxWrites[s] WRTE messages from the host on stream s

ASSUME DispatcherAssumption ==
  /\ NoOne \notin Streams \X {"stream", "writer"}
  /\ LinkLoses \in BOOLEAN
  /\ MaxData \in [Streams -> Nat]
  /\ MaxWrites \in [Streams -> Nat]

VARIABLES
  \* the dispatcher
  streams,     \* registry: ids with a sender in the map
  chan,        \* chan[s]: messages sent to the channel of s and not received
  rd,          \* reader thread: "blocked", "clear", "stopped"
  shutdown,    \* the shutdown flag; is_alive is its negation
  wlock,       \* owner of the write lock: a thread or NoOne
  \* the threads
  pc,          \* pc[s]: progress of the thread that opens and uses stream s
  rbuf,        \* rbuf[s]: read_buf, data received while waiting for a write ack
  writer,      \* writer[s]: the shell writer of s: "none", "ready", "half"
  \* the bus and the device
  inq,         \* messages on their way to the host
  bus,         \* the thread whose header the device has, payload still due
  plugged,     \* the device is on the bus
  dev,         \* dev[s]: the device's end: "none", "asked", "open", "closed"
  owed,        \* owed[s]: OKAYs the device owes for host WRTEs
  waitAck,     \* waitAck[s]: the device waits for the OKAY of its last WRTE
  \* history
  sent,        \* sent[s]: WRTEs sent by the device
  got,         \* got[s]: data read() has returned
  writes,      \* writes[s]: WRTEs the host has sent
  torn         \* a header reached the device where it expected a payload

regVars == <<streams, chan>>
rdVars == <<rd, shutdown>>
outVars == <<wlock, bus, torn>>
threadVars == <<pc, rbuf, writer>>
devVars == <<dev, owed, waitAck, sent>>
linkVars == <<inq, plugged>>
histVars == <<got, writes>>
vars == <<regVars, rdVars, outVars, threadVars, devVars, linkVars, histVars>>

Thread(s) == <<s, "stream">>
Writer(s) == <<s, "writer">>
Threads == Streams \X {"stream", "writer"}

Msg(s, cmd, n) == [to |-> s, cmd |-> cmd, n |-> n]
Control == [to : Streams, cmd : {"OKAY", "CLSE"}, n : {0}]
Messages == Control \cup [to : Streams, cmd : {"WRTE"}, n : Nat \ {0}]

\* Life of a stream's thread.  "connected": adb_usb_connect found the dispatcher
\* alive.  "registered": OPEN not sent yet.  "openHalf", "writeHalf": header sent,
\* payload not.  "opening", "writing": waiting on the channel.  "closed": the
\* stream's closed flag.  "failed": an I/O error made the caller give the stream
\* up.  "done": the UsbStream was dropped.  adb_usb_open ended without one, "unopened":
\* refused or without an answer, "leaked": with a failed send.
PCs == {"idle", "connected", "registered", "openHalf", "opening", "open",
        "writeHalf", "writing", "closed", "failed", "done", "unopened", "leaked"}
\* The states in which the thread can still be waiting for messages.
Live == {"registered", "openHalf", "opening", "open", "writeHalf", "writing"}

Init ==
  /\ streams = {} /\ chan = [s \in Streams |-> <<>>]
  /\ rd = "blocked" /\ shutdown = FALSE
  /\ wlock = NoOne /\ bus = NoOne /\ torn = FALSE
  /\ pc = [s \in Streams |-> "idle"]
  /\ rbuf = [s \in Streams |-> <<>>] /\ writer = [s \in Streams |-> "none"]
  /\ inq = <<>> /\ plugged = TRUE
  /\ dev = [s \in Streams |-> "none"] /\ owed = [s \in Streams |-> 0]
  /\ waitAck = [s \in Streams |-> FALSE] /\ sent = [s \in Streams |-> 0]
  /\ got = [s \in Streams |-> <<>>]
  /\ writes = [s \in Streams |-> 0]

------------------------------------------------------------------------------
(* The write side: usb_send_message under the write lock.                   *)

\* Mutant: messages are sent without taking the lock.
LockIgnored == TRUE

LockFree == wlock = NoOne

\* Transfer 1 of a message with payload; the lock stays held.
HeaderOut(t) ==
  /\ LockFree /\ plugged
  /\ wlock' = t /\ bus' = t
  /\ torn' = (torn \/ bus /= NoOne)

\* Transfer 2, and the lock is released.
PayloadOut(t) ==
  /\ plugged
  /\ wlock' = NoOne /\ bus' = NoOne
  /\ torn' = (torn \/ bus /= t)

\* A message without payload: one transfer.
SingleOut ==
  /\ LockFree /\ plugged
  /\ torn' = (torn \/ bus /= NoOne)
  /\ UNCHANGED <<wlock, bus>>

\* The transfer fails because the device is gone; a guard held by t is dropped.
SendFails(t) ==
  /\ ~plugged
  /\ wlock \in {NoOne, t}
  /\ wlock' = NoOne
  /\ UNCHANGED <<bus, torn>>

Unregister(s) == streams' = streams \ {s}
Goto(s, l) == pc' = [pc EXCEPT ![s] = l]

------------------------------------------------------------------------------
(* adb_usb_open.                                                            *)

\* adb_usb_connect returned a connection whose dispatcher was alive.
Connect(s) ==
  /\ pc[s] = "idle" /\ ~shutdown
  /\ Goto(s, "connected")
  /\ UNCHANGED <<rbuf, writer>>
  /\ UNCHANGED <<regVars, rdVars, outVars, devVars, linkVars, histVars>>

\* register_stream: a fresh channel, whatever the dispatcher's state is by now.
Register(s) ==
  /\ pc[s] = "connected"
  /\ streams' = streams \cup {s}
  /\ Goto(s, "registered")
  /\ UNCHANGED <<chan, rbuf, writer>>
  /\ UNCHANGED <<rdVars, outVars, devVars, linkVars, histVars>>

OpenHeader(s) ==
  /\ pc[s] = "registered"
  /\ HeaderOut(Thread(s))
  /\ Goto(s, "openHalf")
  /\ UNCHANGED <<rbuf, writer>>
  /\ UNCHANGED <<regVars, rdVars, devVars, linkVars, histVars>>

OpenPayload(s) ==
  /\ pc[s] = "openHalf"
  /\ PayloadOut(Thread(s))
  /\ dev' = [dev EXCEPT ![s] = "asked"]
  /\ Goto(s, "opening")
  /\ UNCHANGED <<owed, waitAck, sent, rbuf, writer>>
  /\ UNCHANGED <<regVars, rdVars, linkVars, histVars>>

\* The `?` on a failed OPEN leaves the registration behind.
OpenFails(s) ==
  /\ pc[s] \in {"registered", "openHalf"}
  /\ SendFails(Thread(s))
  /\ Goto(s, "leaked")
  /\ UNCHANGED <<rbuf, writer>>
  /\ UNCHANGED <<regVars, rdVars, devVars, linkVars, histVars>>


\* The oldest message of the channel of s is a c; take it.
Has(s, c) == chan[s] /= <<>> /\ Head(chan[s]).cmd = c
Take(s) == chan' = [chan EXCEPT ![s] = Tail(@)]
\* recv_timeout: the only sender is gone and nothing is queued.
Disconnected(s) == s \notin streams /\ chan[s] = <<>>

OpenReply(s) ==
  /\ pc[s] = "opening" /\ chan[s] /= <<>>
  /\ Take(s)
  /\ \/ Has(s, "OKAY") /\ Goto(s, "open") /\ UNCHANGED streams
     \/ Has(s, "CLSE") /\ Goto(s, "unopened") /\ Unregister(s)
     \/ Has(s, "WRTE") /\ UNCHANGED <<pc, streams>>
  /\ UNCHANGED <<rbuf, writer>>
  /\ UNCHANGED <<rdVars, outVars, devVars, linkVars, histVars>>

\* Mutant: the opener gives up without unregistering.
OpenGivesUpRegistered(s) ==
  /\ pc[s] = "opening" /\ chan[s] = <<>>
  /\ Goto(s, "unopened")
  /\ UNCHANGED <<streams, chan, rbuf, writer>>
  /\ UNCHANGED <<rdVars, outVars, devVars, linkVars, histVars>>

\* Timeout (ten seconds) or Disconnected: the opener unregisters and gives up.
OpenGivesUp(s) ==
  /\ pc[s] = "opening" /\ chan[s] = <<>>
  /\ Goto(s, "unopened") /\ Unregister(s)
  /\ UNCHANGED <<chan, rbuf, writer>>
  /\ UNCHANGED <<rdVars, outVars, devVars, linkVars, histVars>>

OpenDisconnected(s) == Disconnected(s) /\ OpenGivesUp(s)
OpenTimeout(s) == ~Disconnected(s) /\ OpenGivesUp(s)

------------------------------------------------------------------------------
(* UsbStream::read.                                                         *)

\* The OKAY for a WRTE just received.
AckOut(s) ==
  /\ SingleOut
  /\ waitAck' = [waitAck EXCEPT ![s] = FALSE]
  /\ UNCHANGED <<dev, owed, sent>>

Datum(s) == <<Head(chan[s]).to, Head(chan[s]).n>>

ReadBuffered(s) ==
  /\ pc[s] = "open" /\ rbuf[s] /= <<>>
  /\ got' = [got EXCEPT ![s] = Append(@, Head(rbuf[s]))]
  /\ rbuf' = [rbuf EXCEPT ![s] = Tail(@)]
  /\ UNCHANGED <<pc, writer, writes>>
  /\ UNCHANGED <<regVars, rdVars, outVars, devVars, linkVars>>

\* Mutant: everything but CLSE is taken for data.
ReadAnythingAsData(s) ==
  /\ pc[s] = "open" /\ rbuf[s] = <<>> /\ chan[s] /= <<>> /\ ~Has(s, "CLSE")
  /\ Take(s) /\ AckOut(s)
  /\ got' = [got EXCEPT ![s] = Append(@, Datum(s))]
  /\ UNCHANGED <<streams, writes>>
  /\ UNCHANGED <<rdVars, threadVars, linkVars>>

\* Data: acknowledge it, then hand it out.
ReadData(s) ==
  /\ pc[s] = "open" /\ rbuf[s] = <<>> /\ Has(s, "WRTE")
  /\ Take(s) /\ AckOut(s)
  /\ got' = [got EXCEPT ![s] = Append(@, Datum(s))]
  /\ UNCHANGED <<streams, writes>>
  /\ UNCHANGED <<rdVars, threadVars, linkVars>>

\* A stray OKAY (the ack of a shell writer's WRTE) is skipped, CLSE is the end.
ReadOther(s) ==
  /\ pc[s] = "open" /\ rbuf[s] = <<>> /\ chan[s] /= <<>>
  /\ Take(s)
  /\ \/ Has(s, "OKAY") /\ UNCHANGED pc
     \/ Has(s, "CLSE") /\ Goto(s, "closed")
  /\ UNCHANGED <<streams, rbuf, writer>>
  /\ UNCHANGED <<rdVars, outVars, devVars, linkVars, histVars>>

ReadDisconnected(s) ==
  /\ pc[s] = "open" /\ rbuf[s] = <<>> /\ Disconnected(s)
  /\ Goto(s, "closed")
  /\ UNCHANGED <<rbuf, writer>>
  /\ UNCHANGED <<regVars, rdVars, outVars, devVars, linkVars, histVars>>

------------------------------------------------------------------------------
(* UsbStream::write: one WRTE, then wait for its OKAY.                      *)

WriteHeader(s) ==
  /\ pc[s] = "open" /\ writer[s] = "none" /\ writes[s] < MaxWrites[s]
  /\ HeaderOut(Thread(s))
  /\ Goto(s, "writeHalf")
  /\ UNCHANGED <<rbuf, writer>>
  /\ UNCHANGED <<regVars, rdVars, devVars, linkVars, histVars>>

\* The device has a whole WRTE of s: an open stream owes its OKAY.
DeliverWrite(s) ==
  /\ owed' = [owed EXCEPT ![s] = IF dev[s] = "open" THEN @ + 1 ELSE @]
  /\ writes' = [writes EXCEPT ![s] = @ + 1]
  /\ UNCHANGED <<dev, waitAck, sent, got>>

WritePayload(s) ==
  /\ pc[s] = "writeHalf"
  /\ PayloadOut(Thread(s))
  /\ DeliverWrite(s)
  /\ Goto(s, "writing")
  /\ UNCHANGED <<rbuf, writer>>
  /\ UNCHANGED <<regVars, rdVars, linkVars>>

WriteAcked(s) ==
  /\ pc[s] = "writing" /\ Has(s, "OKAY")
  /\ Take(s)
  /\ Goto(s, "open")
  /\ UNCHANGED <<streams, rbuf, writer>>
  /\ UNCHANGED <<rdVars, outVars, devVars, linkVars, histVars>>

\* Mutant: data that arrives during a write is buffered and not acknowledged.
WriteBuffersSilently(s) ==
  /\ pc[s] = "writing" /\ Has(s, "WRTE")
  /\ Take(s)
  /\ rbuf' = [rbuf EXCEPT ![s] = Append(@, Datum(s))]
  /\ UNCHANGED <<streams, pc, writer>>
  /\ UNCHANGED <<rdVars, outVars, devVars, linkVars, histVars>>

\* Incoming data while waiting for the ack: buffer it and acknowledge it.
WriteBuffersData(s) ==
  /\ pc[s] = "writing" /\ Has(s, "WRTE")
  /\ Take(s) /\ AckOut(s)
  /\ rbuf' = [rbuf EXCEPT ![s] = Append(@, Datum(s))]
  /\ UNCHANGED <<streams, pc, writer>>
  /\ UNCHANGED <<rdVars, linkVars, histVars>>

\* CLSE, or the channel is disconnected: the stream is closed.
WriteClosed(s) ==
  /\ pc[s] = "writing"
  /\ \/ Has(s, "CLSE") /\ Take(s)
     \/ Disconnected(s) /\ UNCHANGED chan
  /\ Goto(s, "closed")
  /\ UNCHANGED <<streams, rbuf, writer>>
  /\ UNCHANGED <<rdVars, outVars, devVars, linkVars, histVars>>

\* Mutant: a write that timed out leaves the stream in use.
WriteTimeoutIgnored(s) ==
  /\ pc[s] = "writing" /\ chan[s] = <<>> /\ ~Disconnected(s)
  /\ Goto(s, "open")
  /\ UNCHANGED <<rbuf, writer>>
  /\ UNCHANGED <<regVars, rdVars, outVars, devVars, linkVars, histVars>>

\* No OKAY in time: TimedOut, and the caller gives the stream up.
WriteTimeout(s) ==
  /\ pc[s] = "writing" /\ chan[s] = <<>> /\ ~Disconnected(s)
  /\ Goto(s, "failed")
  /\ UNCHANGED <<rbuf, writer>>
  /\ UNCHANGED <<regVars, rdVars, outVars, devVars, linkVars, histVars>>

\* A send fails: a WRTE on its way out, or the OKAY of data just taken.
StreamSendFails(s) ==
  /\ SendFails(Thread(s))
  /\ \/ pc[s] = "writeHalf" /\ UNCHANGED chan
     \/ pc[s] = "open" /\ rbuf[s] = <<>> /\ Has(s, "WRTE") /\ Take(s)
     \/ pc[s] = "writing" /\ Has(s, "WRTE") /\ Take(s)
  /\ Goto(s, "failed")
  /\ UNCHANGED <<streams, rbuf, writer>>
  /\ UNCHANGED <<rdVars, devVars, linkVars, histVars>>

------------------------------------------------------------------------------
(* Drop of a UsbStream: a best-effort CLSE unless it is closed, then            *)
(* unregister_stream.                                                       *)

\* Mutant: Drop unregisters and does not send CLSE.
DropSilently(s) ==
  /\ pc[s] \in {"open", "closed", "failed"}
  /\ Goto(s, "done") /\ Unregister(s)
  /\ UNCHANGED <<chan, rbuf, writer>>
  /\ UNCHANGED <<rdVars, outVars, devVars, linkVars, histVars>>

\* The device's end closes, and adbd answers a CLSE of the host with its own.
DeviceGetsClose(s) ==
  /\ dev' = [dev EXCEPT ![s] = "closed"]
  /\ inq' = IF dev[s] = "open" THEN Append(inq, Msg(s, "CLSE", 0)) ELSE inq
  /\ UNCHANGED <<owed, waitAck, sent, plugged>>

Drop(s) ==
  /\ pc[s] \in {"open", "closed", "failed"}
  /\ \/ pc[s] /= "closed" /\ SingleOut /\ DeviceGetsClose(s)
     \/ pc[s] /= "closed" /\ SendFails(Thread(s)) /\ UNCHANGED <<devVars, linkVars>>
     \/ pc[s] = "closed" /\ UNCHANGED <<outVars, devVars, linkVars>>
  /\ Goto(s, "done") /\ Unregister(s)
  /\ UNCHANGED <<chan, rbuf, writer>>
  /\ UNCHANGED <<rdVars, histVars>>

------------------------------------------------------------------------------
(* UsbShellWriter: WRTE without waiting for the OKAY, from another thread.   *)

CreateWriter(s) ==
  /\ pc[s] = "open" /\ writer[s] = "none" /\ writes[s] = 0
  /\ writer' = [writer EXCEPT ![s] = "ready"]
  /\ UNCHANGED <<pc, rbuf>>
  /\ UNCHANGED <<regVars, rdVars, outVars, devVars, linkVars, histVars>>

\* The handle outlives the stream: nothing but `closed` and is_alive is tested.
WriterHeader(s) ==
  /\ writer[s] = "ready" /\ ~shutdown /\ writes[s] < MaxWrites[s]
  /\ HeaderOut(Writer(s))
  /\ writer' = [writer EXCEPT ![s] = "half"]
  /\ UNCHANGED <<pc, rbuf>>
  /\ UNCHANGED <<regVars, rdVars, devVars, linkVars, histVars>>

WriterPayload(s) ==
  /\ writer[s] = "half"
  /\ PayloadOut(Writer(s))
  /\ DeliverWrite(s)
  /\ writer' = [writer EXCEPT ![s] = "ready"]
  /\ UNCHANGED <<pc, rbuf>>
  /\ UNCHANGED <<regVars, rdVars, linkVars>>

\* A failed send: the error ends the handle's use.  (UsbShellWriter::shutdown, a
\* handle that is not used again, needs no step.)
WriterFails(s) ==
  /\ writer[s] = "half" /\ SendFails(Writer(s))
  /\ writer' = [writer EXCEPT ![s] = "shut"]
  /\ UNCHANGED <<pc, rbuf>>
  /\ UNCHANGED <<regVars, rdVars, devVars, linkVars, histVars>>

------------------------------------------------------------------------------
(* The reader thread: reader_loop.  It is "blocked" in bulk IN until a message *)
(* or an error arrives; it looks at the shutdown flag only between two reads.  *)

\* After a read: the top of the loop.
Again == rd' = IF shutdown THEN "clear" ELSE "blocked"
\* The end of the loop on an error: the flag is set, the map still to be cleared.
Stop == rd' = "clear" /\ shutdown' = TRUE

\* Mutant: a message goes to any registered stream.
RdRouteToAny ==
  /\ rd = "blocked" /\ inq /= <<>>
  /\ inq' = Tail(inq)
  /\ \E s \in streams : chan' = [chan EXCEPT ![s] = Append(@, Head(inq))]
  /\ Again
  /\ UNCHANGED <<streams, shutdown, plugged>>
  /\ UNCHANGED <<outVars, threadVars, devVars, histVars>>

\* A message arrives.  Under the registry lock it goes to the registered channel
\* (a dropped receiver makes the send fail), otherwise it is discarded.
RdRoute ==
  /\ rd = "blocked" /\ inq /= <<>>
  /\ inq' = Tail(inq)
  /\ LET m == Head(inq)
     IN chan' = IF m.to \in streams /\ pc[m.to] /= "leaked"
                THEN [chan EXCEPT ![m.to] = Append(@, m)]
                ELSE chan
  /\ Again
  /\ UNCHANGED <<streams, shutdown, plugged>>
  /\ UNCHANGED <<outVars, threadVars, devVars, histVars>>

\* A message is lost to a timeout or a bad magic: `continue`.
RdLose ==
  /\ rd = "blocked" /\ inq /= <<>> /\ LinkLoses
  /\ inq' = Tail(inq)
  /\ Again
  /\ UNCHANGED <<shutdown, plugged>>
  /\ UNCHANGED <<regVars, outVars, threadVars, devVars, histVars>>

\* Mutant: a disconnect is taken for a timeout.
RdDisconnectIgnored ==
  /\ rd = "blocked" /\ ~plugged
  /\ Again
  /\ UNCHANGED shutdown
  /\ UNCHANGED <<regVars, outVars, threadVars, devVars, linkVars, histVars>>

RdDisconnected ==
  /\ rd = "blocked" /\ ~plugged
  /\ Stop
  /\ UNCHANGED <<regVars, outVars, threadVars, devVars, linkVars, histVars>>

\* Any other error (bad checksum, oversized payload, transfer fault).
RdError ==
  /\ rd = "blocked" /\ plugged
  /\ Stop
  /\ UNCHANGED <<regVars, outVars, threadVars, devVars, linkVars, histVars>>

\* Drop all stream senders.
RdClear ==
  /\ rd = "clear"
  /\ rd' = "stopped" /\ streams' = {}
  /\ UNCHANGED <<chan, shutdown>>
  /\ UNCHANGED <<outVars, threadVars, devVars, linkVars, histVars>>

\* UsbDispatcher::shutdown, from invalidate_usb_cache or clear_usb_cache.
Shutdown ==
  /\ ~shutdown
  /\ shutdown' = TRUE
  /\ UNCHANGED rd
  /\ UNCHANGED <<regVars, outVars, threadVars, devVars, linkVars, histVars>>

------------------------------------------------------------------------------
(* The device (external).                                                   *)

DeviceSends(s, cmd, n) ==
  /\ plugged
  /\ inq' = Append(inq, Msg(s, cmd, n))
  /\ UNCHANGED plugged
  /\ UNCHANGED <<regVars, rdVars, outVars, threadVars, histVars>>

DeviceAnswersOpen(s) ==
  /\ dev[s] = "asked"
  /\ \/ DeviceSends(s, "OKAY", 0) /\ dev' = [dev EXCEPT ![s] = "open"]
     \/ DeviceSends(s, "CLSE", 0) /\ dev' = [dev EXCEPT ![s] = "closed"]
  /\ UNCHANGED <<owed, waitAck, sent>>

DeviceWrites(s) ==
  /\ dev[s] = "open" /\ ~waitAck[s] /\ sent[s] < MaxData[s]
  /\ DeviceSends(s, "WRTE", sent[s] + 1)
  /\ sent' = [sent EXCEPT ![s] = @ + 1]
  /\ waitAck' = [waitAck EXCEPT ![s] = TRUE]
  /\ UNCHANGED <<dev, owed>>

DeviceAcks(s) ==
  /\ dev[s] = "open" /\ owed[s] > 0
  /\ DeviceSends(s, "OKAY", 0)
  /\ owed' = [owed EXCEPT ![s] = @ - 1]
  /\ UNCHANGED <<dev, waitAck, sent>>

DeviceCloses(s) ==
  /\ dev[s] = "open"
  /\ DeviceSends(s, "CLSE", 0)
  /\ dev' = [dev EXCEPT ![s] = "closed"]
  /\ UNCHANGED <<owed, waitAck, sent>>

Unplug ==
  /\ plugged
  /\ plugged' = FALSE
  /\ UNCHANGED inq
  /\ UNCHANGED <<regVars, rdVars, outVars, threadVars, devVars, histVars>>

------------------------------------------------------------------------------

\* What a thread does without being asked again and without a timeout.
Progress(s) ==
  \/ OpenHeader(s) \/ OpenPayload(s) \/ OpenFails(s) \/ OpenReply(s) \/ OpenDisconnected(s)
  \/ ReadBuffered(s) \/ ReadData(s) \/ ReadOther(s) \/ ReadDisconnected(s)
  \/ WritePayload(s) \/ WriteAcked(s) \/ WriteBuffersData(s) \/ WriteClosed(s)
  \/ StreamSendFails(s)

WriterProgress(s) == WriterPayload(s) \/ WriterFails(s)

\* What depends on the user, a timeout or the rest of the program.
Choice(s) ==
  \/ Connect(s) \/ Register(s) \/ OpenTimeout(s) \/ WriteHeader(s) \/ WriteTimeout(s)
  \/ Drop(s) \/ CreateWriter(s) \/ WriterHeader(s)

Reader == RdRoute \/ RdDisconnected \/ RdClear

Device(s) ==
  DeviceAnswersOpen(s) \/ DeviceWrites(s) \/ DeviceAcks(s) \/ DeviceCloses(s)

Next ==
  \/ \E s \in Streams : Progress(s) \/ WriterProgress(s) \/ Choice(s) \/ Device(s)
  \/ Reader \/ RdLose \/ RdError \/ Shutdown \/ Unplug

\* The reader has its own OS thread and each stream a blocking thread that keeps
\* reading; the write lock is released because its owner finishes its transfer or
\* sees it fail.  No fairness for the device, the user, timeouts and errors.  No
\* thread can take these steps for ever, so one condition is as strong as one for
\* each thread.
Running == Reader \/ \E s \in Streams : Progress(s) \/ WriterProgress(s)

Spec == Init /\ [][Next]_vars /\ WF_vars(Running)

------------------------------------------------------------------------------
(* Properties.                                                              *)

MsgSeqs == Seq(Messages)
Data == Streams \X (Nat \ {0})

TypeOK ==
  /\ streams \subseteq Streams /\ chan \in [Streams -> MsgSeqs]
  /\ rd \in {"blocked", "clear", "stopped"} /\ shutdown \in BOOLEAN
  /\ wlock \in Threads \cup {NoOne} /\ bus \in Threads \cup {NoOne} /\ torn \in BOOLEAN
  /\ pc \in [Streams -> PCs] /\ rbuf \in [Streams -> Seq(Data)]
  /\ writer \in [Streams -> {"none", "ready", "half", "shut"}]
  /\ inq \in MsgSeqs /\ plugged \in BOOLEAN
  /\ dev \in [Streams -> {"none", "asked", "open", "closed"}]
  /\ owed \in [Streams -> Nat] /\ waitAck \in [Streams -> BOOLEAN]
  /\ sent \in [Streams -> Nat] /\ got \in [Streams -> Seq(Data)]
  /\ writes \in [Streams -> Nat]

\* Whoever holds the write lock is in the middle of a message, and the other way
\* round; with it, no message starts inside another one: the device never takes
\* the header of one thread for the payload of another.
FramesIntact ==
  /\ ~torn
  /\ \A s \in Streams :
       /\ pc[s] \in {"openHalf", "writeHalf"} => wlock = Thread(s)
       /\ writer[s] = "half" => wlock = Writer(s)

\* Routing: until the reader clears the registry a thread that may still wait for
\* messages is registered, so none of its messages is discarded; a stream that was
\* dropped is not, and only a failed OPEN leaves an entry behind.
RegistryExact ==
  /\ \A s \in streams : pc[s] \in Live \cup {"closed", "failed", "leaked"}
  /\ rd /= "stopped" => \A s \in Streams : pc[s] \in Live => s \in streams

\* What a thread has read or buffered on a stream is exactly the beginning of what
\* the device sent on that stream: nothing missing, repeated, reordered or taken
\* from another stream, also when the link loses messages.
StreamIntact ==
  \A s \in Streams :
    got[s] \o rbuf[s] = [i \in 1..Len(got[s] \o rbuf[s]) |-> <<s, i>>]

\* The messages for s between the device and its thread.
InFlight(s, cmd) ==
  \/ \E i \in DOMAIN chan[s] : chan[s][i].cmd = cmd
  \/ \E i \in DOMAIN inq : inq[i].to = s /\ inq[i].cmd = cmd

\* An OKAY acknowledges the write that waits for it: when no write is under way no
\* acknowledgement is outstanding or in flight that the next write() could take
\* for its own (a stream with a shell writer never waits for one).
AckIsOwn ==
  \A s \in Streams :
    pc[s] = "open" /\ writer[s] = "none" => owed[s] = 0 /\ ~InFlight(s, "OKAY")

\* A stream that was opened and dropped, whether it was read, written, timed out or ended by the
\* device, is closed at the device too, unless the device is gone or the dispatcher was stopped.
\* (An adb_usb_open that gave up has no stream to drop: what the device then accepts stays open.)
CloseReachesDevice ==
  \A s \in Streams : pc[s] = "done" /\ plugged /\ ~shutdown => dev[s] = "closed"

\* Back-pressure never wedges: data the device waits to see acknowledged is
\* acknowledged as long as its stream lives, the link loses nothing and the
\* dispatcher runs, also while the reading thread is itself waiting for an ack.
AckFlows ==
  \A s \in Streams :
    (waitAck[s] /\ ~LinkLoses) ~> (~waitAck[s] \/ shutdown \/ pc[s] \notin Live)

Waiting(s) == pc[s] \in {"opening", "writing"}

\* Unplugging the device releases every thread that waits on its channel, without
\* its timeout, if the reader was still there to notice.
UnplugWakes ==
  \A s \in Streams :
    (~plugged /\ rd /= "stopped" /\ Waiting(s)) ~> ~Waiting(s)

\* "Drain buffered data first": data that was acknowledged to the device and
\* buffered is still handed out; a closed stream reads as end of file at once.
BufferedDataIsReadable == \A s \in Streams : pc[s] = "closed" => rbuf[s] = <<>>
==============================================================================
