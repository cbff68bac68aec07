------------------------------ MODULE UsbFraming -----------------------------
(***************************************************************************)
(* The receive path of the ADB-over-USB dispatcher (protocols/adb_usb.rs): *)
(* usb_read_message, which rebuilds ADB messages from USB bulk IN          *)
(* transfers under one deadline, and reader_loop, which calls it for ever  *)
(* and decides, from the error, whether to go on.                          *)
(*                                                                         *)
(* A byte is [m, k]: byte number k of message m, header first.  A transfer *)
(* is a sequence of bytes; one bulk IN returns (a prefix of) one transfer. *)
(* The lengths are scaled down: HeaderLen stands for 24 bytes, HeaderCap   *)
(* for the 64-byte request of the header read, ChunkCap for USB_READ_BUF.  *)
(* A header is recognised (magic = command XOR 0xFFFFFFFF) when the first  *)
(* HeaderLen bytes in hand are the header of one message: payload bytes    *)
(* that look like a header are left out.                                   *)
(***************************************************************************)
EXTENDS Integers, Sequences

CONSTANTS
  HeaderLen,    \* ADB_HEADER_SIZE
  HeaderCap,    \* capacity asked for by the header read (need.max(64))
  ChunkCap,     \* USB_READ_BUF, the largest payload read
  MaxMsgs,      \* bound: messages the device sends
  MaxPayload    \* bound: longest payload

ASSUME FramingAssumption ==
  /\ HeaderLen \in Nat \ {0} /\ HeaderCap \in Nat /\ HeaderCap >= HeaderLen
  /\ ChunkCap \in Nat \ {0}
  /\ MaxMsgs \in Nat /\ MaxPayload \in Nat

VARIABLES
  msgs,      \* msgs[m]: payload length and defect of message m, for every message sent
  wire,      \* transfers the device has queued on the bulk IN endpoint
  pc,        \* the reader: "loop", "header", "inHeader", "payload", "inPayload", "stopped"
  buf,       \* bytes usb_read_message holds: header_buf, then header and payload
  expired,   \* the deadline of the current usb_read_message has passed
  shutdown,  \* the dispatcher's shutdown flag
  plugged,   \* the device is still on the bus
  routed,    \* history: the byte strings returned as messages, in order
  lost       \* history: messages whose bytes a timed-out read threw away

wireVars == <<msgs, wire, plugged>>
readerVars == <<pc, buf, expired, shutdown>>
vars == <<msgs, wire, pc, buf, expired, shutdown, plugged, routed, lost>>

\* What can be wrong with a message: a data_length above MAX_PAYLOAD, a checksum
\* that does not match.
Defects == {"none", "length", "checksum"}

Smaller(a, b) == IF a < b THEN a ELSE b
Larger(a, b) == IF a > b THEN a ELSE b

\* Bytes from..to of message m.
Bytes(m, from, to) == [i \in 1..(to - from + 1) |-> [m |-> m, k |-> from + i - 1]]
\* The whole message m.
Frame(m) == Bytes(m, 1, HeaderLen + msgs[m].len)
MessagesIn(s) == {s[i].m : i \in DOMAIN s}

Init ==
  /\ msgs = <<>> /\ wire = <<>> /\ plugged = TRUE
  /\ pc = "loop" /\ buf = <<>> /\ expired = FALSE /\ shutdown = FALSE
  /\ routed = <<>> /\ lost = {}

------------------------------------------------------------------------------
(* The device and the rest of the program.                                 *)

\* adbd queues a message: header and payload as two transfers, or both in one.
DeviceSend ==
  /\ plugged
  /\ Len(msgs) < MaxMsgs
  /\ \E n \in 0..MaxPayload, f \in Defects :
       LET m == Len(msgs) + 1
           h == Bytes(m, 1, HeaderLen)
           p == Bytes(m, HeaderLen + 1, HeaderLen + n)
       IN /\ msgs' = Append(msgs, [len |-> n, defect |-> f])
          /\ \/ wire' = wire \o (IF n = 0 THEN <<h>> ELSE <<h, p>>)
             \/ n > 0 /\ wire' = Append(wire, h \o p)
  /\ UNCHANGED <<plugged, routed, lost>> /\ UNCHANGED readerVars

Unplug ==
  /\ plugged
  /\ plugged' = FALSE
  /\ UNCHANGED <<msgs, wire, routed, lost>> /\ UNCHANGED readerVars

\* UsbDispatcher::shutdown, called by another thread.
Shutdown ==
  /\ ~shutdown
  /\ shutdown' = TRUE
  /\ UNCHANGED <<pc, buf, expired, routed, lost>> /\ UNCHANGED wireVars

\* Time passes beyond the deadline set when usb_read_message was entered.  The
\* reader can spend seconds only in a blocking transfer: waiting for a header
\* while the device has nothing to say, or for the payload of a slow one.  The
\* dispatcher's thread has no tokio runtime, so its transfer is not cancelled.
DeadlinePasses ==
  /\ \/ pc = "inHeader" /\ wire = <<>>
     \/ pc = "inPayload"
  /\ ~expired
  /\ expired' = TRUE
  /\ UNCHANGED <<pc, buf, shutdown, routed, lost>> /\ UNCHANGED wireVars

------------------------------------------------------------------------------
(* The reader thread.                                                      *)

\* Mutants: the buffer, or the deadline, outlives one usb_read_message.
LoopTopKeepsBuffer ==
  /\ pc = "loop"
  /\ IF shutdown
     THEN pc' = "stopped" /\ UNCHANGED <<buf, expired>>
     ELSE pc' = "header" /\ buf' = buf /\ expired' = FALSE
  /\ UNCHANGED <<shutdown, routed, lost>> /\ UNCHANGED wireVars

LoopTopKeepsDeadline ==
  /\ pc = "loop"
  /\ IF shutdown
     THEN pc' = "stopped" /\ UNCHANGED <<buf, expired>>
     ELSE pc' = "header" /\ buf' = <<>> /\ expired' = expired
  /\ UNCHANGED <<shutdown, routed, lost>> /\ UNCHANGED wireVars

\* Top of reader_loop: look at the flag, then enter usb_read_message.
LoopTop ==
  /\ pc = "loop"
  /\ IF shutdown
     THEN pc' = "stopped" /\ UNCHANGED <<buf, expired>>
     ELSE pc' = "header" /\ buf' = <<>> /\ expired' = FALSE
  /\ UNCHANGED <<shutdown, routed, lost>> /\ UNCHANGED wireVars

\* A timeout is "normal": back to the top, whatever the read had in hand (the comment
\* there, "no data available", does not hold of it).
GiveUp ==
  /\ pc' = "loop"
  /\ lost' = lost \cup MessagesIn(buf)
  /\ UNCHANGED <<buf, expired, shutdown, routed>> /\ UNCHANGED wireVars

\* Each round of a read loop tests the deadline before it issues the transfer.
CheckDeadline(at, blocked) ==
  /\ pc = at
  /\ IF expired
     THEN GiveUp
     ELSE /\ pc' = blocked
          /\ UNCHANGED <<buf, expired, shutdown, routed, lost>> /\ UNCHANGED wireVars

CheckHeaderDeadline == CheckDeadline("header", "inHeader")
CheckPayloadDeadline == CheckDeadline("payload", "inPayload")

\* What one bulk IN of this capacity returns, and what it leaves queued.  A
\* transfer longer than the request is cut, or, on hosts that report the overflow,
\* fails (TransferFails).
Incoming(cap) == SubSeq(Head(wire), 1, Smaller(cap, Len(Head(wire))))

Consume(cap) ==
  /\ wire' = IF Len(Head(wire)) <= cap
             THEN Tail(wire)
             ELSE <<SubSeq(Head(wire), cap + 1, Len(Head(wire)))>> \o Tail(wire)
  /\ UNCHANGED <<msgs, plugged>>

HeaderRequest == Larger(HeaderLen - Len(buf), HeaderCap)

\* Mutant: the magic is not validated.
AnyMagic(b) == Len(b) >= HeaderLen

\* The magic test: the first HeaderLen bytes are the header of one message.
GoodMagic(b) == \A i \in 1..HeaderLen : b[i] = [m |-> b[1].m, k |-> i]

\* Disconnected, or an error other than timeout and bad magic: the loop sets the
\* flag and ends.
Stop == shutdown' = TRUE /\ pc' = "stopped" /\ UNCHANGED routed

\* A complete message passes the checksum and goes to the routing step.
Finish(b) ==
  IF msgs[b[1].m].defect = "checksum"
  THEN Stop
  ELSE routed' = Append(routed, b) /\ pc' = "loop" /\ UNCHANGED shutdown

\* What usb_read_message does once b holds a full header.
AfterHeader(b) ==
  CASE ~GoodMagic(b) -> pc' = "loop" /\ UNCHANGED <<routed, shutdown>>
    [] GoodMagic(b) /\ msgs[b[1].m].defect = "length" -> Stop
    [] OTHER -> IF Len(b) >= HeaderLen + msgs[b[1].m].len
                THEN Finish(b)
                ELSE pc' = "payload" /\ UNCHANGED <<routed, shutdown>>

\* Mutant: bytes beyond the header are not kept as the start of the payload.
HeaderTransferDropsExcess ==
  /\ pc = "inHeader" /\ wire /= <<>>
  /\ LET b == buf \o Incoming(HeaderRequest)
         h == SubSeq(b, 1, Smaller(HeaderLen, Len(b)))
     IN /\ buf' = h
        /\ IF Len(b) < HeaderLen
           THEN pc' = "header" /\ UNCHANGED <<routed, shutdown>>
           ELSE AfterHeader(h)
  /\ Consume(HeaderRequest)
  /\ UNCHANGED <<expired, lost>>

HeaderTransfer ==
  /\ pc = "inHeader" /\ wire /= <<>>
  /\ LET b == buf \o Incoming(HeaderRequest)
     IN /\ buf' = b
        /\ IF Len(b) < HeaderLen
           THEN pc' = "header" /\ UNCHANGED <<routed, shutdown>>
           ELSE AfterHeader(b)
  /\ Consume(HeaderRequest)
  /\ UNCHANGED <<expired, lost>>

PayloadTransfer ==
  /\ pc = "inPayload" /\ wire /= <<>>
  /\ LET whole == HeaderLen + msgs[buf[1].m].len
         cap == Smaller(whole - Len(buf), ChunkCap)
         b == buf \o Incoming(cap)
     IN /\ buf' = b
        /\ Consume(cap)
        /\ IF Len(b) < whole
           THEN pc' = "payload" /\ UNCHANGED <<routed, shutdown>>
           ELSE Finish(b)
  /\ UNCHANGED <<expired, lost>>

TransferFails ==
  /\ \/ pc \in {"inHeader", "inPayload"} /\ ~plugged
     \/ pc = "inHeader" /\ wire /= <<>> /\ Len(Head(wire)) > HeaderRequest
  /\ Stop
  /\ UNCHANGED <<buf, expired, lost>> /\ UNCHANGED wireVars

Next ==
  \/ DeviceSend \/ Unplug \/ Shutdown \/ DeadlinePasses
  \/ LoopTop \/ CheckHeaderDeadline \/ CheckPayloadDeadline
  \/ HeaderTransfer \/ PayloadTransfer \/ TransferFails

Reader ==
  \/ LoopTop \/ CheckHeaderDeadline \/ CheckPayloadDeadline
  \/ HeaderTransfer \/ PayloadTransfer \/ TransferFails

\* The reader has an OS thread of its own, and a pending bulk IN completes when
\* the device has queued data; nothing makes the device send, a deadline pass, or
\* another thread shut the dispatcher down.
Spec == Init /\ [][Next]_vars /\ WF_vars(Reader)

------------------------------------------------------------------------------
(* Properties.                                                             *)

\* The type invariant; with it, a read never holds more than one message and the
\* excess of one header request.
TypeOK ==
  /\ msgs \in Seq([len : 0..MaxPayload, defect : Defects]) /\ Len(msgs) <= MaxMsgs
  /\ pc \in {"loop", "header", "inHeader", "payload", "inPayload", "stopped"}
  /\ expired \in BOOLEAN /\ shutdown \in BOOLEAN /\ plugged \in BOOLEAN
  /\ lost \subseteq 1..Len(msgs)
  /\ Len(buf) <= HeaderLen + Larger(HeaderCap, MaxPayload)

Reading == pc \in {"header", "inHeader", "payload", "inPayload"}
RoutedIds == {routed[i][1].m : i \in DOMAIN routed}

\* Every byte string usb_read_message returns as a message is one message of the
\* device, header and payload, with no byte of another: also after a timeout has
\* left the two ends out of step, whatever the transfers' boundaries were.
RoutedWhole == \A i \in DOMAIN routed : routed[i] = Frame(routed[i][1].m)

\* What a timeout costs.  Until a read whose deadline has passed throws bytes away,
\* every message taken off the endpoint has been returned or is being assembled (the
\* excess of a header transfer is not dropped).  The deadline need not pass in the
\* middle of a message: it may have passed while the reader waited for a header of an
\* idle device, and the first message that then arrives as two transfers is given up
\* at the test before its payload.  What such a read takes and throws away is in
\* every case a message with a payload: an OKAY or a CLSE is never lost to a timeout.
OnlyTimeoutsLose ==
  /\ lost = {} /\ pc /= "stopped" =>
       \A m \in 1..Len(msgs) :
         \/ m \in RoutedIds
         \/ \E i \in DOMAIN wire : m \in MessagesIn(wire[i])
         \/ Reading /\ m \in MessagesIn(buf)
  /\ \A m \in lost : msgs[m].len > 0

\* Skipping on a bad magic ("stale data") gets back in step: of two consecutive
\* messages without payload the second is returned, however far the reader had
\* fallen out of step before them.
Resynchronises ==
  pc /= "stopped" =>
    \A m \in 2..Len(msgs) :
      \/ msgs[m - 1].len > 0 \/ msgs[m].len > 0
      \/ m \in RoutedIds
      \/ \E i \in DOMAIN wire : m \in MessagesIn(wire[i])
      \/ Reading /\ m \in MessagesIn(buf)

\* The reader never stops draining the endpoint while it runs: skipping and timing
\* out do not make it spin.
KeepsDraining == (wire /= <<>>) ~> (wire = <<>> \/ pc = "stopped")

\* usb_read_message and reader_loop implement a pipe that may lose messages but
\* neither duplicates, reorders nor invents them.
Pipe == INSTANCE MessagePipe WITH
          sent <- Len(msgs),
          delivered <- [i \in DOMAIN routed |-> routed[i][1].m],
          broken <- (pc = "stopped")
ImplementsPipe == Pipe!Spec
==============================================================================
