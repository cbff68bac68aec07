---------------------- MODULE OperationsIdentify_proofs ----------------------
(*****************************************************************************)
(* What identify and connect leave a device in, for every value of the       *)
(* constants.  The inductive invariant says of each step what the device can be,*)
(* which packets can be unread and in which order, and, while no answer was  *)
(* late, what has been read.                                                 *)
(*****************************************************************************)
EXTENDS MCOperations, SequenceTheorems, TLAPS

\* A step of the operations is a step of the identification or leaves it alone.
LEMMA IdentifySteps == [Next]_operationVars => Identify!Next \/ UNCHANGED identifyVars
  BY DEF Next, Only, operationVars

\* The operations' constants are what EdlIdentify assumes of its own.
LEMMA IdentifyConstants == Identify!IdentifyAssumption
  BY OperationsAssumption DEF OperationsAssumption

Kinds == {"HELLO", "READY", "RESET", "ERR", "LOG", "RESP"}
Recovering == {"sahara", "drain", "blind", "ready", "switch", "reset", "resetrsp", "reopen", "nop", "nopread", "nopdrain"}
Configured == {"auth", "authdrain", "reconfigure", "probe", "connected"}

IdentifyTypes ==
  /\ mode \in {"hello", "command", "firehose", "hung", "resetting", "gone"} /\ inbox \in Seq(Kinds)
  /\ field \in 1 .. 3 /\ got \subseteq 1 .. 3 /\ active \in BOOLEAN /\ reads \in Nat /\ late \in Nat
  /\ retry \in {"no", "hacked", "reset"}

\* What is unread is of the device that is there, and in an order that it can be in.
Packets ==
  /\ mode = "gone" => inbox = <<>>
  /\ \A i \in DOMAIN inbox : (inbox[i] \in Identify!Xml => mode = "firehose") /\ (inbox[i] = "RESET" => mode = "resetting")
  /\ mode = "hello" => \A i \in DOMAIN inbox : inbox[i] /= "READY" /\ (inbox[i] = "HELLO" => i >= Len(inbox) - 1)
  /\ mode = "command" => \A i, j \in DOMAIN inbox : inbox[i] = "READY" /\ i < j => inbox[j] = "ERR"
  /\ mode = "firehose" => \A i \in DOMAIN inbox : inbox[i] /= "READY" /\ (i >= 2 => inbox[i] \in Identify!Xml)

\* What the host takes for a programmer is one, and the recovery is where the device allows it.
Modes ==
  /\ pc \in Recovering => ~active
  /\ pc \in Configured \union {"nopdrain", "resume", "configure", "response", "retried"} => mode \in {"firehose", "gone"}
  /\ active /\ pc /= "idle" => mode \in {"firehose", "gone"}
  /\ pc = "sahara" => mode /= "resetting"
  /\ pc \in {"ready", "switch"} => mode /= "hello"
  /\ pc = "switch" => mode /= "firehose"
  /\ pc = "resetrsp" => mode \notin Identify!Sahara
  /\ pc = "reopen" => mode \in {"hello", "resetting", "gone", "hung"}

\* Only a Sahara device gives fields, and the recovery has none.
Fields ==
  /\ pc \in Recovering \union {"identified"} /\ mode = "firehose" => got = {}
  /\ pc \in Recovering \ {"sahara"} => got = {} /\ field = 1
  /\ pc = "identified" /\ mode = "resetting" => got = {}

\* What is unread at some points.
Unread ==
  /\ pc = "reopen" /\ mode = "hello" => inbox = <<"HELLO">>
  /\ pc = "switch" /\ mode = "command" => \A i \in DOMAIN inbox : inbox[i] \notin {"HELLO", "READY"}
  /\ (pc = "nop" \/ (pc = "sahara" /\ retry = "reset")) /\ mode \in Identify!Sahara => Len(inbox) <= 1

\* A Sahara device that answers in time gives all its fields.
OnTrack == got = 1 .. field - 1 /\ Len(inbox) = 1 /\ Identify!Understood
Answering ==
  late = 0 /\ ~stale /\ mode \in Identify!Sahara =>
    /\ pc = "sahara" => OnTrack \/ (retry = "no" /\ got = {} /\ Len(inbox) <= 1 /\ (field > 1 => inbox = <<>>))
    /\ pc \in {"drain", "blind", "switch", "reset"} => inbox = <<>>
    /\ pc = "ready" => Len(inbox) <= 1
    /\ pc \notin {"resetrsp", "nop", "nopread", "nopdrain"}
    /\ pc = "identified" => got = Identify!Fields /\ mode = "hello" /\ inbox = <<"HELLO">>

\* A programmer that answers in time is found, and its answers are read in step.
InTime ==
  late = 0 /\ mode = "firehose" =>
    /\ pc = "nopread" => /\ Len(inbox) >= 1 /\ reads <= 1 /\ (reads = 1 => inbox[1] \in Identify!Xml)
                         /\ inbox[1] \in Identify!Xml \/ Len(inbox) >= 2
    /\ pc = "identified" => active
    /\ pc \in {"response", "retried"} => inbox /= <<>> /\ \A i \in DOMAIN inbox : inbox[i] = "RESP" <=> i = Len(inbox)
    /\ pc \in Configured \union {"configure"} => \A i \in DOMAIN inbox : inbox[i] /= "RESP"
    /\ pc \in {"authdrain", "reconfigure", "retried", "probe", "connected"} => ~prog.auth \/ authed

IdentifyInv == IdentifyTypes /\ Packets /\ Modes /\ Fields /\ Unread /\ Answering /\ InTime

\* What is left of the packets when one was read, and when answers came.
LEMMA Read ==
  ASSUME NEW s \in Seq(Kinds), s /= <<>>
  PROVE  /\ Tail(s) \in Seq(Kinds) /\ Len(s) \in Nat \ {0} /\ Len(Tail(s)) = Len(s) - 1 /\ Head(s) = s[1]
         /\ DOMAIN Tail(s) = 1 .. Len(s) - 1 /\ DOMAIN s = 1 .. Len(s)
         /\ \A i \in 1 .. Len(s) - 1 : Tail(s)[i] = s[i + 1]
  OBVIOUS

\* Sequences of packets put one behind the other.
LEMMA Came ==
  ASSUME NEW s \in Seq(Kinds), NEW t \in Seq(Kinds)
  PROVE  /\ s \o t \in Seq(Kinds) /\ Len(s \o t) = Len(s) + Len(t) /\ Len(s) \in Nat /\ Len(t) \in Nat
         /\ DOMAIN (s \o t) = 1 .. Len(s) + Len(t) /\ DOMAIN s = 1 .. Len(s)
         /\ \A i \in 1 .. Len(s) : (s \o t)[i] = s[i]
         /\ \A i \in 1 .. Len(t) : (s \o t)[Len(s) + i] = t[i]
  OBVIOUS

\* Reading a packet, or none, leaves the rest as it was.
LEMMA PacketsRead ==
  ASSUME IdentifyTypes, Packets, mode' = mode, inbox' = inbox \/ (inbox /= <<>> /\ inbox' = Tail(inbox))
  PROVE  Packets' /\ inbox' \in Seq(Kinds)
<1>1. CASE inbox' = inbox
  BY <1>1 DEF IdentifyTypes, Packets
<1>2. CASE inbox /= <<>> /\ inbox' = Tail(inbox)
  <2>1. /\ inbox' \in Seq(Kinds) /\ Len(inbox) \in Nat \ {0} /\ Len(inbox') = Len(inbox) - 1
        /\ DOMAIN inbox' = 1 .. Len(inbox) - 1 /\ DOMAIN inbox = 1 .. Len(inbox)
        /\ \A i \in 1 .. Len(inbox) - 1 : inbox'[i] = inbox[i + 1]
    BY <1>2, Read DEF IdentifyTypes
  <2>2. mode /= "gone"
    BY <1>2 DEF Packets
  <2>3. \A i \in DOMAIN inbox' : (inbox'[i] \in Identify!Xml => mode' = "firehose") /\ (inbox'[i] = "RESET" => mode' = "resetting")
    BY <2>1 DEF Packets
  <2>4. mode' = "hello" => \A i \in DOMAIN inbox' : inbox'[i] /= "READY" /\ (inbox'[i] = "HELLO" => i >= Len(inbox') - 1)
    BY <2>1 DEF Packets
  <2>5. mode' = "command" => \A i, j \in DOMAIN inbox' : inbox'[i] = "READY" /\ i < j => inbox'[j] = "ERR"
    BY <2>1 DEF Packets
  <2>6. mode' = "firehose" => \A i \in DOMAIN inbox' : inbox'[i] /= "READY" /\ (i >= 2 => inbox'[i] \in Identify!Xml)
    BY <2>1 DEF Packets
  <2> QED BY <2>1, <2>2, <2>3, <2>4, <2>5, <2>6 DEF Packets
<1> QED BY <1>1, <1>2

\* Answers come behind what was unread.
LEMMA PacketsCame ==
  ASSUME IdentifyTypes, Packets, mode' = mode, mode /= "gone", NEW a \in Seq(Kinds), inbox' = inbox \o a,
         mode = "firehose" => \A i \in DOMAIN a : a[i] \in Identify!Xml,
         mode /= "firehose" => \A i \in DOMAIN a : a[i] = "ERR",
         mode = "hello" => a = <<>> \/ (Len(inbox) <= 1 /\ Len(a) <= 1)
  PROVE  Packets' /\ inbox' \in Seq(Kinds)
<1>1. /\ inbox' \in Seq(Kinds) /\ Len(inbox') = Len(inbox) + Len(a) /\ Len(inbox) \in Nat /\ Len(a) \in Nat
      /\ DOMAIN inbox' = 1 .. Len(inbox) + Len(a) /\ DOMAIN inbox = 1 .. Len(inbox) /\ DOMAIN a = 1 .. Len(a)
      /\ \A i \in 1 .. Len(inbox) : inbox'[i] = inbox[i]
  BY Came DEF IdentifyTypes
<1>2. \A i \in DOMAIN inbox' : i \notin DOMAIN inbox => i - Len(inbox) \in DOMAIN a /\ inbox'[i] = a[i - Len(inbox)]
  <2>1. \A i \in 1 .. Len(a) : inbox'[Len(inbox) + i] = a[i]
    BY Came DEF IdentifyTypes
  <2>2. \A i \in DOMAIN inbox' : i \notin DOMAIN inbox => i - Len(inbox) \in 1 .. Len(a) /\ Len(inbox) + (i - Len(inbox)) = i
    BY <1>1
  <2> QED BY <1>1, <2>1, <2>2
<1>3. \A i \in DOMAIN inbox' : (inbox'[i] \in Identify!Xml => mode' = "firehose") /\ (inbox'[i] = "RESET" => mode' = "resetting")
  BY <1>1, <1>2 DEF Packets, Identify!Xml
<1>4. mode' = "hello" => \A i \in DOMAIN inbox' : inbox'[i] /= "READY" /\ (inbox'[i] = "HELLO" => i >= Len(inbox') - 1)
  <2>1. CASE a = <<>>
    BY <1>1, <2>1 DEF Packets
  <2>2. CASE mode = "hello" /\ Len(inbox) <= 1 /\ Len(a) <= 1
    BY <1>1, <1>2, <2>2 DEF Packets
  <2> QED BY <2>1, <2>2
<1>5. mode' = "command" => \A i, j \in DOMAIN inbox' : inbox'[i] = "READY" /\ i < j => inbox'[j] = "ERR"
  BY <1>1, <1>2 DEF Packets
<1>6. mode' = "firehose" => \A i \in DOMAIN inbox' : inbox'[i] /= "READY" /\ (i >= 2 => inbox'[i] \in Identify!Xml)
  BY <1>1, <1>2 DEF Packets, Identify!Xml
<1> QED BY <1>1, <1>3, <1>4, <1>5, <1>6 DEF Packets

\* Nothing is unread.
LEMMA Empty == Len(<<>>) = 0 /\ DOMAIN <<>> = {}
  OBVIOUS

\* What is left when a packet was read and another one came.
LEMMA ReadAndCame ==
  ASSUME NEW s \in Seq(Kinds), s /= <<>>, NEW x \in Kinds
  PROVE  /\ Tail(s) \o <<x>> \in Seq(Kinds) /\ Len(s) \in Nat \ {0} /\ Len(Tail(s) \o <<x>>) = Len(s)
         /\ \A i \in 1 .. Len(s) - 1 : (Tail(s) \o <<x>>)[i] = s[i + 1]
         /\ (Tail(s) \o <<x>>)[Len(s)] = x
  OBVIOUS

\* A Sahara command ends: the next one follows, or what the fields and the pass call for.
LEMMA FieldOver ==
  ASSUME IdentifyTypes, NEW fs \in SUBSET (1 .. 3), Identify!NextField(fs)
  PROVE  /\ got' = fs /\ reads' = 0 /\ active' = active /\ stale' = stale /\ retry' = retry /\ field' \in 1 .. 3
         /\ \/ field < 3 /\ field' = field + 1 /\ pc' = pc
            \/ field = 3 /\ field' = 1 /\ fs /= {} /\ pc' = "identified"
            \/ field = 3 /\ field' = 1 /\ fs = {} /\ pc' = "drain" /\ retry = "no"
            \/ field = 3 /\ field' = 1 /\ fs = {} /\ pc' = "reset" /\ retry = "hacked"
            \/ field = 3 /\ field' = 1 /\ fs = {} /\ pc' = "nop" /\ retry = "reset"
  BY DEF Identify!NextField, IdentifyTypes

\* The program waits for a packet: it reads the first one, or goes on without it.
LEMMA Listening ==
  ASSUME IdentifyTypes, Packets, mode' = mode, Identify!Receive \/ Identify!NoAnswer
  PROVE  /\ Packets' /\ inbox' \in Seq(Kinds) /\ late' \in Nat /\ (late' = 0 => late = 0)
         /\ \/ /\ Identify!Receive /\ inbox /= <<>> /\ inbox' = Tail(inbox) /\ Head(inbox) = inbox[1] /\ late' = late
               /\ Len(inbox) \in Nat \ {0} /\ Len(inbox') = Len(inbox) - 1
               /\ DOMAIN inbox' = 1 .. Len(inbox) - 1 /\ DOMAIN inbox = 1 .. Len(inbox)
               /\ \A i \in 1 .. Len(inbox) - 1 : inbox'[i] = inbox[i + 1]
            \/ Identify!NoAnswer /\ inbox' = inbox /\ (inbox = <<>> \/ late' > 0)
<1>1. CASE Identify!Receive
  <2>1. inbox /= <<>> /\ inbox' = Tail(inbox) /\ late' = late
    BY <1>1 DEF Identify!Receive
  <2>2. Packets' /\ inbox' \in Seq(Kinds)
    BY <2>1, PacketsRead
  <2> QED BY <1>1, <2>1, <2>2, Read DEF IdentifyTypes
<1>2. CASE Identify!NoAnswer
  <2>1. inbox' = inbox /\ late' \in Nat /\ ((inbox = <<>> /\ late' = late) \/ late' = late + 1)
    BY <1>2 DEF Identify!NoAnswer, Identify!Silence, Identify!Late, IdentifyTypes
  <2>2. Packets' /\ inbox' \in Seq(Kinds)
    BY <2>1, PacketsRead
  <2> QED BY <1>2, <2>1, <2>2 DEF IdentifyTypes
<1> QED BY <1>1, <1>2

\* A command that is answered gives its field, and the device is back in hello mode.
LEMMA KeepsSaharaCommand ==
  ASSUME IdentifyInv, Identify!SaharaCommand
  PROVE  IdentifyInv'
<1> USE DEF IdentifyInv
<1>1. /\ pc = "sahara" /\ mode' = "hello" /\ inbox /= <<>> /\ inbox' = Tail(inbox) \o <<"HELLO">>
      /\ (Head(inbox) = "HELLO" /\ mode = "hello") \/ (Head(inbox) = "READY" /\ mode = "command")
      /\ late' = late
  BY DEF Identify!SaharaCommand, Identify!Understood
<1>2. /\ inbox' \in Seq(Kinds) /\ Len(inbox) \in Nat \ {0} /\ Len(inbox') = Len(inbox)
      /\ DOMAIN inbox = 1 .. Len(inbox) /\ DOMAIN inbox' = 1 .. Len(inbox) /\ Head(inbox) = inbox[1]
      /\ \A i \in 1 .. Len(inbox) - 1 : inbox'[i] = inbox[i + 1]
      /\ inbox'[Len(inbox)] = "HELLO"
  <2>1. "HELLO" \in Kinds /\ inbox \in Seq(Kinds)
    BY DEF Kinds, IdentifyTypes
  <2> QED BY <1>1, <2>1, ReadAndCame, Read
<1>3. \A i \in 1 .. Len(inbox) - 1 : inbox'[i] \notin {"LOG", "RESP", "RESET", "READY"} /\ (inbox'[i] = "HELLO" => i >= Len(inbox) - 1)
      /\ (mode = "command" => inbox'[i] = "ERR")
  <2>1. CASE mode = "hello"
    <3>1. /\ inbox[1] = "HELLO"
          /\ \A j \in 1 .. Len(inbox) : inbox[j] \notin {"LOG", "RESP", "RESET", "READY"} /\ (inbox[j] = "HELLO" => j >= Len(inbox) - 1)
      BY <1>1, <1>2, <2>1 DEF Packets, Identify!Xml
    <3>2. Len(inbox) <= 2
      BY <1>2, <3>1
    <3>3. \A i \in 1 .. Len(inbox) - 1 : i + 1 \in 1 .. Len(inbox) /\ i >= Len(inbox) - 1
      BY <1>2, <3>2
    <3> QED BY <1>2, <2>1, <3>1, <3>3
  <2>2. CASE mode = "command"
    <3>1. \A i, j \in 1 .. Len(inbox) : inbox[i] = "READY" /\ i < j => inbox[j] = "ERR"
      BY <1>2, <2>2 DEF Packets
    <3>2. inbox[1] = "READY" /\ 1 \in 1 .. Len(inbox)
      <4>1. Head(inbox) = "READY"
        BY <1>1, <2>2
      <4>2. 1 \in 1 .. Len(inbox)
        BY <1>2
      <4> QED BY <1>2, <4>1, <4>2
    <3>3. \A i \in 1 .. Len(inbox) - 1 : i + 1 \in 1 .. Len(inbox) /\ 1 < i + 1
      BY <1>2
    <3> QED BY <1>2, <2>2, <3>1, <3>2, <3>3
  <2> QED BY <1>1, <2>1, <2>2
<1>4. Packets'
  <2>1. \A i \in 1 .. Len(inbox) : i = Len(inbox) \/ i \in 1 .. Len(inbox) - 1
    <3>1. \A n \in Nat : \A i \in 1 .. n : i = n \/ i \in 1 .. n - 1
      OBVIOUS
    <3>2. Len(inbox) \in Nat
      BY <1>2
    <3> QED BY <3>1, <3>2
  <2>2. \A i \in DOMAIN inbox' : inbox'[i] \notin {"LOG", "RESP", "RESET"} /\ (mode' = "hello" => inbox'[i] /= "READY")
    BY <1>1, <1>2, <1>3, <2>1
  <2>3. \A i \in DOMAIN inbox' : inbox'[i] = "HELLO" => i >= Len(inbox') - 1
    <3>1. \A i \in 1 .. Len(inbox) - 1 : inbox'[i] = "HELLO" => i >= Len(inbox') - 1
      BY <1>2, <1>3
    <3>2. Len(inbox) >= Len(inbox') - 1
      BY <1>2
    <3> QED BY <1>2, <2>1, <3>1, <3>2
  <2>4. \A i \in DOMAIN inbox' : inbox'[i] = "READY" => i = Len(inbox')
    BY <1>1, <1>2, <1>3, <2>1
  <2>5. \A i, j \in DOMAIN inbox' : inbox'[i] = "READY" => ~(i < j)
    BY <1>2, <2>4
  <2> QED BY <1>1, <2>2, <2>3, <2>5 DEF Packets, Identify!Xml
<1>5. got \union {field} \in SUBSET (1 .. 3) /\ got \union {field} /= {} /\ Identify!NextField(got \union {field})
  BY DEF Identify!SaharaCommand, IdentifyTypes
<1>6. /\ got' = got \union {field} /\ reads' = 0 /\ active' = active /\ stale' = stale /\ retry' = retry /\ field' \in 1 .. 3
      /\ \/ field < 3 /\ field' = field + 1 /\ pc' = pc
         \/ field = 3 /\ field' = 1 /\ pc' = "identified"
  BY <1>5, FieldOver
<1>7. IdentifyTypes'
  BY <1>1, <1>2, <1>5, <1>6 DEF IdentifyTypes
<1>8. Modes' /\ Fields'
  BY <1>1, <1>6 DEF Modes, Fields, Recovering, Configured, Identify!Sahara
<1>9. Unread'
  BY <1>1, <1>2, <1>6 DEF Unread, Identify!Sahara
<1>10. Answering'
  <2>1. SUFFICES ASSUME late = 0, ~stale
                 PROVE  /\ pc' = "sahara" => OnTrack'
                        /\ pc' = "identified" => got' = Identify!Fields /\ inbox' = <<"HELLO">>
    BY <1>1, <1>6 DEF Answering
  <2>2. OnTrack
    <3>1. OnTrack \/ (retry = "no" /\ got = {} /\ Len(inbox) <= 1 /\ (field > 1 => inbox = <<>>))
      BY <1>1, <2>1 DEF Answering, Identify!Sahara
    <3>2. CASE retry = "no" /\ got = {} /\ Len(inbox) <= 1 /\ (field > 1 => inbox = <<>>)
      <4>1. field = 1 /\ Len(inbox) = 1
        <5>1. field = 1
          BY <1>1, <3>2 DEF IdentifyTypes
        <5>2. Len(inbox) = 1
          BY <1>2, <3>2
        <5> QED BY <5>1, <5>2
      <4>2. got = 1 .. field - 1
        BY <3>2, <4>1
      <4> QED BY <1>1, <4>1, <4>2 DEF OnTrack, Identify!Understood
    <3> QED BY <3>1, <3>2
  <2>3. got' = 1 .. field /\ Len(inbox') = 1 /\ inbox'[1] = "HELLO"
    <3>1. got = 1 .. field - 1 /\ field \in 1 .. 3
      BY <2>2 DEF OnTrack, IdentifyTypes
    <3>2. (1 .. field - 1) \union {field} = 1 .. field
      BY <3>1
    <3> QED BY <1>2, <1>6, <2>2, <3>1, <3>2 DEF OnTrack
  <2>4. inbox' = <<"HELLO">>
    BY <1>2, <2>3
  <2>5. pc' = "sahara" => got' = 1 .. field' - 1
    BY <1>6, <2>3 DEF IdentifyTypes
  <2>6. pc' = "identified" => got' = 1 .. 3
    BY <1>1, <1>6, <2>3
  <2>7. Identify!Understood'
    <3>1. Head(inbox') = "HELLO"
      BY <2>4
    <3> QED BY <1>1, <3>1 DEF Identify!Understood
  <2> QED BY <2>3, <2>4, <2>5, <2>6, <2>7 DEF OnTrack, Identify!Fields
<1>11. InTime'
  BY <1>1 DEF InTime
<1> QED BY <1>4, <1>7, <1>8, <1>9, <1>10, <1>11

\* A CMD_READY that comes too late leaves the device in command mode, and a late answer unread.
LEMMA KeepsSaharaLate ==
  ASSUME IdentifyInv, Identify!SaharaLate
  PROVE  IdentifyInv'
<1> USE DEF IdentifyInv
<1>1. /\ pc = "sahara" /\ mode' = "command" /\ inbox /= <<>> /\ inbox' = Tail(inbox) \o <<"READY">>
      /\ (Head(inbox) = "HELLO" /\ mode = "hello") \/ (Head(inbox) = "READY" /\ mode = "command")
      /\ late' = late + 1
  BY DEF Identify!SaharaLate, Identify!Understood
<1>2. /\ inbox' \in Seq(Kinds) /\ Len(inbox) \in Nat \ {0} /\ Len(inbox') = Len(inbox)
      /\ DOMAIN inbox = 1 .. Len(inbox) /\ DOMAIN inbox' = 1 .. Len(inbox) /\ Head(inbox) = inbox[1]
      /\ \A i \in 1 .. Len(inbox) - 1 : inbox'[i] = inbox[i + 1]
      /\ inbox'[Len(inbox)] = "READY"
  <2>1. "READY" \in Kinds /\ inbox \in Seq(Kinds)
    BY DEF Kinds, IdentifyTypes
  <2> QED BY <1>1, <2>1, ReadAndCame, Read
<1>3. \A i \in 1 .. Len(inbox) - 1 : inbox'[i] \notin {"LOG", "RESP", "RESET", "READY"} /\ (inbox'[i] = "HELLO" => i >= Len(inbox) - 1)
      /\ (mode = "command" => inbox'[i] = "ERR")
  <2>1. CASE mode = "hello"
    <3>1. /\ inbox[1] = "HELLO"
          /\ \A j \in 1 .. Len(inbox) : inbox[j] \notin {"LOG", "RESP", "RESET", "READY"} /\ (inbox[j] = "HELLO" => j >= Len(inbox) - 1)
      BY <1>1, <1>2, <2>1 DEF Packets, Identify!Xml
    <3>2. Len(inbox) <= 2
      BY <1>2, <3>1
    <3>3. \A i \in 1 .. Len(inbox) - 1 : i + 1 \in 1 .. Len(inbox) /\ i >= Len(inbox) - 1
      BY <1>2, <3>2
    <3> QED BY <1>2, <2>1, <3>1, <3>3
  <2>2. CASE mode = "command"
    <3>1. \A i, j \in 1 .. Len(inbox) : inbox[i] = "READY" /\ i < j => inbox[j] = "ERR"
      BY <1>2, <2>2 DEF Packets
    <3>2. inbox[1] = "READY" /\ 1 \in 1 .. Len(inbox)
      <4>1. Head(inbox) = "READY"
        BY <1>1, <2>2
      <4>2. 1 \in 1 .. Len(inbox)
        BY <1>2
      <4> QED BY <1>2, <4>1, <4>2
    <3>3. \A i \in 1 .. Len(inbox) - 1 : i + 1 \in 1 .. Len(inbox) /\ 1 < i + 1
      BY <1>2
    <3> QED BY <1>2, <2>2, <3>1, <3>2, <3>3
  <2> QED BY <1>1, <2>1, <2>2
<1>4. Packets'
  <2>1. \A i \in 1 .. Len(inbox) : i = Len(inbox) \/ i \in 1 .. Len(inbox) - 1
    <3>1. \A n \in Nat : \A i \in 1 .. n : i = n \/ i \in 1 .. n - 1
      OBVIOUS
    <3>2. Len(inbox) \in Nat
      BY <1>2
    <3> QED BY <3>1, <3>2
  <2>2. \A i \in DOMAIN inbox' : inbox'[i] \notin {"LOG", "RESP", "RESET"} /\ (mode' = "hello" => inbox'[i] /= "READY")
    BY <1>1, <1>2, <1>3, <2>1
  <2>3. \A i \in DOMAIN inbox' : inbox'[i] = "HELLO" => i >= Len(inbox') - 1
    <3>1. \A i \in 1 .. Len(inbox) - 1 : inbox'[i] = "HELLO" => i >= Len(inbox') - 1
      BY <1>2, <1>3
    <3>2. Len(inbox) >= Len(inbox') - 1
      BY <1>2
    <3> QED BY <1>2, <2>1, <3>1, <3>2
  <2>4. \A i \in DOMAIN inbox' : inbox'[i] = "READY" => i = Len(inbox')
    BY <1>1, <1>2, <1>3, <2>1
  <2>5. \A i, j \in DOMAIN inbox' : inbox'[i] = "READY" => ~(i < j)
    BY <1>2, <2>4
  <2> QED BY <1>1, <2>2, <2>3, <2>5 DEF Packets, Identify!Xml
<1>5. got \in SUBSET (1 .. 3) /\ Identify!NextField(got) /\ late' \in Nat /\ late' > 0
  BY <1>1 DEF Identify!SaharaLate, IdentifyTypes
<1>6. /\ got' = got /\ reads' = 0 /\ active' = active /\ stale' = stale /\ retry' = retry /\ field' \in 1 .. 3
      /\ \/ field < 3 /\ field' = field + 1 /\ pc' = pc
         \/ field = 3 /\ field' = 1 /\ got /= {} /\ pc' = "identified"
         \/ field = 3 /\ field' = 1 /\ got = {} /\ pc' \in {"drain", "reset"}
         \/ field = 3 /\ field' = 1 /\ got = {} /\ pc' = "nop" /\ retry = "reset"
  BY <1>5, FieldOver
<1>7. IdentifyTypes'
  BY <1>1, <1>2, <1>5, <1>6 DEF IdentifyTypes
<1>8. Modes' /\ Fields'
  BY <1>1, <1>6 DEF Modes, Fields, Recovering, Configured, Identify!Sahara
<1>9. Unread'
  BY <1>1, <1>2, <1>6 DEF Unread, Identify!Sahara
<1>10. Answering' /\ InTime'
  BY <1>1, <1>5 DEF Answering, InTime
<1> QED BY <1>4, <1>7, <1>8, <1>9, <1>10

\* A packet that is not understood gives no field.
LEMMA KeepsSaharaUnexpected ==
  ASSUME IdentifyInv, Identify!SaharaUnexpected
  PROVE  IdentifyInv'
<1> USE DEF IdentifyInv
<1>1. pc = "sahara" /\ mode' = mode /\ got \in SUBSET (1 .. 3) /\ Identify!NextField(got) /\ (Identify!Receive \/ Identify!NoAnswer)
      /\ (Identify!Receive => ~Identify!Understood)
  BY DEF Identify!SaharaUnexpected, IdentifyTypes, Identify!Receive, Identify!NoAnswer, Identify!Silence, Identify!Late
<1>2. /\ Packets' /\ inbox' \in Seq(Kinds) /\ late' \in Nat /\ (late' = 0 => late = 0)
      /\ \/ inbox /= <<>> /\ Len(inbox) \in Nat \ {0} /\ Len(inbox') = Len(inbox) - 1 /\ ~Identify!Understood
         \/ inbox' = inbox /\ (inbox = <<>> \/ late' > 0)
  BY <1>1, Listening
<1>3. /\ got' = got /\ reads' = 0 /\ active' = active /\ stale' = stale /\ retry' = retry /\ field' \in 1 .. 3
      /\ \/ field < 3 /\ field' = field + 1 /\ pc' = pc
         \/ field = 3 /\ field' = 1 /\ got /= {} /\ pc' = "identified"
         \/ field = 3 /\ field' = 1 /\ got = {} /\ pc' = "drain" /\ retry = "no"
         \/ field = 3 /\ field' = 1 /\ got = {} /\ pc' = "reset" /\ retry = "hacked"
         \/ field = 3 /\ field' = 1 /\ got = {} /\ pc' = "nop" /\ retry = "reset"
  BY <1>1, FieldOver
<1>4. IdentifyTypes'
  BY <1>1, <1>2, <1>3 DEF IdentifyTypes
<1>5. Modes' /\ Fields'
  BY <1>1, <1>3 DEF Modes, Fields, Recovering, Configured, Identify!Sahara
<1>6. Unread'
  BY <1>1, <1>2, <1>3 DEF Unread, IdentifyTypes
<1>7. Answering'
  <2>1. SUFFICES ASSUME late' = 0, ~stale, mode \in Identify!Sahara
                 PROVE  /\ pc' = "sahara" => retry = "no" /\ got = {} /\ Len(inbox') <= 1 /\ (field' > 1 => inbox' = <<>>)
                        /\ (pc' = "drain" /\ inbox' = <<>>) \/ pc' = "sahara"
    BY <1>1, <1>3 DEF Answering
  <2>2. retry = "no" /\ got = {} /\ Len(inbox) <= 1 /\ inbox' = <<>>
    <3>1. OnTrack \/ (retry = "no" /\ got = {} /\ Len(inbox) <= 1)
      BY <1>1, <1>2, <2>1 DEF Answering
    <3>2. ~OnTrack
      <4>1. OnTrack => inbox /= <<>> /\ Identify!Understood
        BY Empty DEF OnTrack
      <4> QED BY <1>2, <2>1, <4>1
    <3>3. Len(inbox) <= 1 => inbox' = <<>>
      BY <1>2, <2>1
    <3> QED BY <3>1, <3>2, <3>3
  <2> QED BY <1>1, <1>3, <2>2
<1>8. InTime'
  BY <1>1, <1>3 DEF InTime, Fields, Recovering, Configured
<1> QED BY <1>2, <1>4, <1>5, <1>6, <1>7, <1>8

\* A command without an answer gives no field.
LEMMA KeepsSaharaTimesOut ==
  ASSUME IdentifyInv, Identify!SaharaTimesOut
  PROVE  IdentifyInv'
<1> USE DEF IdentifyInv
<1>1. pc = "sahara" /\ mode' = mode /\ got \in SUBSET (1 .. 3) /\ Identify!NextField(got) /\ (Identify!Receive \/ Identify!NoAnswer)
      /\ (Identify!Receive => ~Identify!Understood)
  BY DEF Identify!SaharaTimesOut, IdentifyTypes, Identify!Receive, Identify!NoAnswer, Identify!Silence, Identify!Late
<1>2. /\ Packets' /\ inbox' \in Seq(Kinds) /\ late' \in Nat /\ (late' = 0 => late = 0)
      /\ \/ inbox /= <<>> /\ Len(inbox) \in Nat \ {0} /\ Len(inbox') = Len(inbox) - 1 /\ ~Identify!Understood
         \/ inbox' = inbox /\ (inbox = <<>> \/ late' > 0)
  BY <1>1, Listening
<1>3. /\ got' = got /\ reads' = 0 /\ active' = active /\ stale' = stale /\ retry' = retry /\ field' \in 1 .. 3
      /\ \/ field < 3 /\ field' = field + 1 /\ pc' = pc
         \/ field = 3 /\ field' = 1 /\ got /= {} /\ pc' = "identified"
         \/ field = 3 /\ field' = 1 /\ got = {} /\ pc' = "drain" /\ retry = "no"
         \/ field = 3 /\ field' = 1 /\ got = {} /\ pc' = "reset" /\ retry = "hacked"
         \/ field = 3 /\ field' = 1 /\ got = {} /\ pc' = "nop" /\ retry = "reset"
  BY <1>1, FieldOver
<1>4. IdentifyTypes'
  BY <1>1, <1>2, <1>3 DEF IdentifyTypes
<1>5. Modes' /\ Fields'
  BY <1>1, <1>3 DEF Modes, Fields, Recovering, Configured, Identify!Sahara
<1>6. Unread'
  BY <1>1, <1>2, <1>3 DEF Unread, IdentifyTypes
<1>7. Answering'
  <2>1. SUFFICES ASSUME late' = 0, ~stale, mode \in Identify!Sahara
                 PROVE  /\ pc' = "sahara" => retry = "no" /\ got = {} /\ Len(inbox') <= 1 /\ (field' > 1 => inbox' = <<>>)
                        /\ (pc' = "drain" /\ inbox' = <<>>) \/ pc' = "sahara"
    BY <1>1, <1>3 DEF Answering
  <2>2. retry = "no" /\ got = {} /\ Len(inbox) <= 1 /\ inbox' = <<>>
    <3>1. OnTrack \/ (retry = "no" /\ got = {} /\ Len(inbox) <= 1)
      BY <1>1, <1>2, <2>1 DEF Answering
    <3>2. ~OnTrack
      <4>1. OnTrack => inbox /= <<>> /\ Identify!Understood
        BY Empty DEF OnTrack
      <4> QED BY <1>2, <2>1, <4>1
    <3>3. Len(inbox) <= 1 => inbox' = <<>>
      BY <1>2, <2>1
    <3> QED BY <3>1, <3>2, <3>3
  <2> QED BY <1>1, <1>3, <2>2
<1>8. InTime'
  BY <1>1, <1>3 DEF InTime, Fields, Recovering, Configured
<1> QED BY <1>2, <1>4, <1>5, <1>6, <1>7, <1>8

\* One more packet is unread.
LEMMA Appended ==
  ASSUME NEW s \in Seq(Kinds), NEW x \in Kinds
  PROVE  /\ Append(s, x) \in Seq(Kinds) /\ Len(s) \in Nat /\ Len(Append(s, x)) = Len(s) + 1
         /\ DOMAIN Append(s, x) = 1 .. Len(s) + 1 /\ DOMAIN s = 1 .. Len(s)
         /\ \A i \in 1 .. Len(s) : Append(s, x)[i] = s[i]
         /\ Append(s, x)[Len(s) + 1] = x
         /\ \A i \in 1 .. Len(s) + 1 : i \in 1 .. Len(s) \/ i = Len(s) + 1
  OBVIOUS

\* What a programmer, or a device in Sahara mode, says.
LEMMA Said ==
  /\ <<>> \in Seq(Kinds) /\ <<"LOG">> \in Seq(Kinds) /\ <<"ERR">> \in Seq(Kinds) /\ <<"RESP">> \in Seq(Kinds)
  /\ <<"LOG", "RESP">> \in Seq(Kinds) /\ <<"HELLO">> \in Seq(Kinds)
  /\ Len(<<>>) = 0 /\ DOMAIN <<>> = {}
  /\ Len(<<"LOG">>) = 1 /\ DOMAIN <<"LOG">> = {1} /\ <<"LOG">>[1] = "LOG"
  /\ Len(<<"ERR">>) = 1 /\ DOMAIN <<"ERR">> = {1} /\ <<"ERR">>[1] = "ERR"
  /\ Len(<<"RESP">>) = 1 /\ DOMAIN <<"RESP">> = {1} /\ <<"RESP">>[1] = "RESP"
  /\ Len(<<"HELLO">>) = 1 /\ DOMAIN <<"HELLO">> = {1} /\ <<"HELLO">>[1] = "HELLO" /\ Head(<<"HELLO">>) = "HELLO"
  /\ Len(<<"LOG", "RESP">>) = 2 /\ DOMAIN <<"LOG", "RESP">> = {1, 2} /\ <<"LOG", "RESP">>[1] = "LOG" /\ <<"LOG", "RESP">>[2] = "RESP"
  BY DEF Kinds

\* The packets unread are counted.
LEMMA Length ==
  ASSUME IdentifyTypes
  PROVE  Len(inbox) \in Nat
  BY DEF IdentifyTypes

\* A device that enters Sahara mode has sent its HELLO and nothing else.
LEMMA PacketsOneHello ==
  ASSUME inbox' = <<"HELLO">>, mode' = "hello"
  PROVE  Packets' /\ inbox' \in Seq(Kinds)
  BY Said DEF Packets, Identify!Xml

\* A device that did not come back after the reset ends identify.
LEMMA KeepsReopenFails ==
  ASSUME IdentifyInv, Identify!ReopenFails
  PROVE  IdentifyInv'
<1> USE DEF IdentifyInv, Identify!ReopenFails, Identify!Goto, Identify!Again, Identify!Drained,
  Identify!Receive, Identify!NoAnswer, Identify!Silence, Identify!Late, Identify!Answered,
  Identify!NextField, Identify!Sahara, Identify!Xml, Identify!Off, Identify!Attach, Identify!ConnectFails,
  Identify!Understood, Identify!devVars, Identify!scratch
<1>1. inbox /= <<>> =>
        /\ Tail(inbox) \in Seq(Kinds) /\ Len(inbox) \in Nat \ {0} /\ Len(Tail(inbox)) = Len(inbox) - 1 /\ Head(inbox) = inbox[1]
        /\ DOMAIN Tail(inbox) = 1 .. Len(inbox) - 1 /\ DOMAIN inbox = 1 .. Len(inbox)
        /\ \A i \in 1 .. Len(inbox) - 1 : Tail(inbox)[i] = inbox[i + 1]
  BY Read DEF IdentifyTypes
<1>2. Packets' /\ inbox' \in Seq(Kinds)
  BY PacketsRead DEF IdentifyTypes
<1>3. IdentifyTypes'
  <2>1. late' \in Nat /\ reads' \in Nat
    BY DEF IdentifyTypes
  <2>2. mode' = mode /\ field' = field /\ got' = got /\ retry' = retry /\ active' \in BOOLEAN
    BY DEF IdentifyTypes
  <2> QED BY <1>2, <2>1, <2>2 DEF IdentifyTypes
<1>4. Modes'
  BY <1>1 DEF Modes, Packets, IdentifyTypes, Recovering, Configured
<1>5. Fields'
  BY <1>1 DEF Fields, Modes, IdentifyTypes, Recovering
<1>6. Unread'
  BY <1>1 DEF Unread, Modes, Packets, IdentifyTypes
<1>7. Answering'
  BY <1>1 DEF Answering, Modes, Fields, Unread, Packets, IdentifyTypes, OnTrack, Recovering, Identify!Fields
<1>8. InTime'
  BY <1>1 DEF InTime, Modes, Fields, Packets, IdentifyTypes, Configured, Recovering
<1> QED BY <1>2, <1>3, <1>4, <1>5, <1>6, <1>7, <1>8

\* Emptying the transport before the blind HELLO_RSP.
LEMMA KeepsPblHackDrain ==
  ASSUME IdentifyInv, Identify!PblHackDrain
  PROVE  IdentifyInv'
<1> USE DEF IdentifyInv, Identify!PblHackDrain, Identify!Goto, Identify!Again, Identify!Drained,
  Identify!Receive, Identify!NoAnswer, Identify!Silence, Identify!Late, Identify!Answered,
  Identify!NextField, Identify!Sahara, Identify!Xml, Identify!Off, Identify!Attach, Identify!ConnectFails,
  Identify!Understood, Identify!devVars, Identify!scratch
<1>1. inbox /= <<>> =>
        /\ Tail(inbox) \in Seq(Kinds) /\ Len(inbox) \in Nat \ {0} /\ Len(Tail(inbox)) = Len(inbox) - 1 /\ Head(inbox) = inbox[1]
        /\ DOMAIN Tail(inbox) = 1 .. Len(inbox) - 1 /\ DOMAIN inbox = 1 .. Len(inbox)
        /\ \A i \in 1 .. Len(inbox) - 1 : Tail(inbox)[i] = inbox[i + 1]
  BY Read DEF IdentifyTypes
<1>2. Packets' /\ inbox' \in Seq(Kinds)
  BY PacketsRead DEF IdentifyTypes
<1>3. IdentifyTypes'
  <2>1. late' \in Nat /\ reads' \in Nat
    BY DEF IdentifyTypes
  <2>2. mode' = mode /\ field' = field /\ got' = got /\ retry' = retry /\ active' \in BOOLEAN
    BY DEF IdentifyTypes
  <2> QED BY <1>2, <2>1, <2>2 DEF IdentifyTypes
<1>4. Modes'
  BY <1>1 DEF Modes, Packets, IdentifyTypes, Recovering, Configured
<1>5. Fields'
  BY <1>1 DEF Fields, Modes, IdentifyTypes, Recovering
<1>6. Unread'
  BY <1>1 DEF Unread, Modes, Packets, IdentifyTypes
<1>7. Answering'
  BY <1>1 DEF Answering, Modes, Fields, Unread, Packets, IdentifyTypes, OnTrack, Recovering, Identify!Fields
<1>8. InTime'
  BY <1>1 DEF InTime, Modes, Fields, Packets, IdentifyTypes, Configured, Recovering
<1> QED BY <1>2, <1>3, <1>4, <1>5, <1>6, <1>7, <1>8

\* The blind HELLO_RSP puts a device that waits for one in command mode.
LEMMA KeepsBlindHelloRsp ==
  ASSUME IdentifyInv, Identify!BlindHelloRsp
  PROVE  IdentifyInv'
<1> USE DEF IdentifyInv, Identify!BlindHelloRsp, Identify!Goto, Identify!Again, Identify!Drained,
  Identify!Receive, Identify!NoAnswer, Identify!Silence, Identify!Late, Identify!Answered,
  Identify!NextField, Identify!Sahara, Identify!Xml, Identify!Off, Identify!Attach, Identify!ConnectFails,
  Identify!Understood, Identify!devVars, Identify!scratch
<1>1. inbox /= <<>> =>
        /\ Tail(inbox) \in Seq(Kinds) /\ Len(inbox) \in Nat \ {0} /\ Len(Tail(inbox)) = Len(inbox) - 1 /\ Head(inbox) = inbox[1]
        /\ DOMAIN Tail(inbox) = 1 .. Len(inbox) - 1 /\ DOMAIN inbox = 1 .. Len(inbox)
        /\ \A i \in 1 .. Len(inbox) - 1 : Tail(inbox)[i] = inbox[i + 1]
  BY Read DEF IdentifyTypes
<1>2. Packets' /\ inbox' \in Seq(Kinds)
  <2>1. CASE mode = "hello"
    <3>1. mode' = "command" /\ inbox' = Append(inbox, "READY")
      BY <2>1
    <3>2. "READY" \in Kinds /\ inbox \in Seq(Kinds)
      BY DEF Kinds, IdentifyTypes
    <3>3. /\ inbox' \in Seq(Kinds) /\ Len(inbox) \in Nat /\ DOMAIN inbox' = 1 .. Len(inbox) + 1 /\ DOMAIN inbox = 1 .. Len(inbox)
          /\ \A i \in 1 .. Len(inbox) : inbox'[i] = inbox[i]
          /\ inbox'[Len(inbox) + 1] = "READY"
          /\ \A i \in DOMAIN inbox' : i \in 1 .. Len(inbox) \/ i = Len(inbox) + 1
      BY <3>1, <3>2, Appended
    <3>4. \A i \in DOMAIN inbox' : inbox'[i] \notin {"LOG", "RESP", "RESET"} /\ (inbox'[i] = "READY" => i = Len(inbox) + 1)
      BY <2>1, <3>3 DEF Packets
    <3>5. \A i, j \in DOMAIN inbox' : inbox'[i] = "READY" => ~(i < j)
      BY <3>3, <3>4
    <3> QED BY <3>1, <3>3, <3>4, <3>5 DEF Packets
  <2>2. CASE mode \in {"command", "firehose"}
    <3>1. PICK a \in {<<>>, <<"ERR">>, <<"LOG">>} :
            mode' = mode /\ inbox' = inbox \o a /\ (a = <<>> \/ a = IF mode = "firehose" THEN <<"LOG">> ELSE <<"ERR">>)
      BY <2>2
    <3> QED BY <2>2, <3>1, Said, PacketsCame
  <2>3. CASE mode \in {"hung", "resetting", "gone"}
    BY <2>3, PacketsRead DEF IdentifyTypes
  <2> QED BY <2>1, <2>2, <2>3 DEF IdentifyTypes
<1>3. IdentifyTypes'
  BY <1>2 DEF IdentifyTypes
<1>4. Modes'
  BY <1>1 DEF Modes, Packets, IdentifyTypes, Recovering, Configured
<1>5. Fields'
  BY <1>1 DEF Fields, Modes, IdentifyTypes, Recovering
<1>6. Unread'
  BY <1>1 DEF Unread, Modes, Packets, IdentifyTypes
<1>7. Answering'
  BY <1>1 DEF Answering, Modes, Fields, Unread, Packets, IdentifyTypes, OnTrack, Recovering, Identify!Fields
<1>8. InTime'
  BY <1>1 DEF InTime, Modes, Fields, Packets, IdentifyTypes, Configured, Recovering
<1> QED BY <1>2, <1>3, <1>4, <1>5, <1>6, <1>7, <1>8

\* The CMD_READY of a device that took the blind HELLO_RSP.
LEMMA KeepsPblHackReady ==
  ASSUME IdentifyInv, Identify!PblHackReady
  PROVE  IdentifyInv'
<1> USE DEF IdentifyInv, Identify!PblHackReady, Identify!Goto, Identify!Again, Identify!Drained,
  Identify!Receive, Identify!NoAnswer, Identify!Silence, Identify!Late, Identify!Answered,
  Identify!NextField, Identify!Sahara, Identify!Xml, Identify!Off, Identify!Attach, Identify!ConnectFails,
  Identify!Understood, Identify!devVars, Identify!scratch
<1>1. inbox /= <<>> =>
        /\ Tail(inbox) \in Seq(Kinds) /\ Len(inbox) \in Nat \ {0} /\ Len(Tail(inbox)) = Len(inbox) - 1 /\ Head(inbox) = inbox[1]
        /\ DOMAIN Tail(inbox) = 1 .. Len(inbox) - 1 /\ DOMAIN inbox = 1 .. Len(inbox)
        /\ \A i \in 1 .. Len(inbox) - 1 : Tail(inbox)[i] = inbox[i + 1]
  BY Read DEF IdentifyTypes
<1>2. Packets' /\ inbox' \in Seq(Kinds)
  BY PacketsRead DEF IdentifyTypes
<1>3. IdentifyTypes'
  <2>1. late' \in Nat /\ reads' \in Nat
    BY DEF IdentifyTypes
  <2>2. mode' = mode /\ field' = field /\ got' = got /\ retry' = retry /\ active' \in BOOLEAN
    BY DEF IdentifyTypes
  <2> QED BY <1>2, <2>1, <2>2 DEF IdentifyTypes
<1>4. Modes'
  BY <1>1 DEF Modes, Packets, IdentifyTypes, Recovering, Configured
<1>5. Fields'
  BY <1>1 DEF Fields, Modes, IdentifyTypes, Recovering
<1>6. Unread'
  BY <1>1 DEF Unread, Modes, Packets, IdentifyTypes
<1>7. Answering'
  BY <1>1 DEF Answering, Modes, Fields, Unread, Packets, IdentifyTypes, OnTrack, Recovering, Identify!Fields
<1>8. InTime'
  BY <1>1 DEF InTime, Modes, Fields, Packets, IdentifyTypes, Configured, Recovering
<1> QED BY <1>2, <1>3, <1>4, <1>5, <1>6, <1>7, <1>8

\* After SWITCH_MODE the device has sent a fresh HELLO, and the commands start again.
LEMMA KeepsPblHackSwitchMode ==
  ASSUME IdentifyInv, Identify!PblHackSwitchMode
  PROVE  IdentifyInv'
<1> USE DEF IdentifyInv, Identify!PblHackSwitchMode, Identify!Goto, Identify!Again, Identify!Drained,
  Identify!Receive, Identify!NoAnswer, Identify!Silence, Identify!Late, Identify!Answered,
  Identify!NextField, Identify!Sahara, Identify!Xml, Identify!Off, Identify!Attach, Identify!ConnectFails,
  Identify!Understood, Identify!devVars, Identify!scratch
<1>1. inbox /= <<>> =>
        /\ Tail(inbox) \in Seq(Kinds) /\ Len(inbox) \in Nat \ {0} /\ Len(Tail(inbox)) = Len(inbox) - 1 /\ Head(inbox) = inbox[1]
        /\ DOMAIN Tail(inbox) = 1 .. Len(inbox) - 1 /\ DOMAIN inbox = 1 .. Len(inbox)
        /\ \A i \in 1 .. Len(inbox) - 1 : Tail(inbox)[i] = inbox[i + 1]
  BY Read DEF IdentifyTypes
<1>2. Packets' /\ inbox' \in Seq(Kinds)
  <2>1. CASE mode = "command"
    <3>1. mode' = "hello" /\ inbox' = Append(inbox, "HELLO")
      BY <2>1
    <3>2. "HELLO" \in Kinds /\ inbox \in Seq(Kinds)
      BY DEF Kinds, IdentifyTypes
    <3>3. /\ inbox' \in Seq(Kinds) /\ Len(inbox) \in Nat /\ Len(inbox') = Len(inbox) + 1
          /\ DOMAIN inbox' = 1 .. Len(inbox) + 1 /\ DOMAIN inbox = 1 .. Len(inbox)
          /\ \A i \in 1 .. Len(inbox) : inbox'[i] = inbox[i]
          /\ inbox'[Len(inbox) + 1] = "HELLO"
          /\ \A i \in DOMAIN inbox' : i \in 1 .. Len(inbox) \/ i = Len(inbox) + 1
      BY <3>1, <3>2, Appended
    <3>4. \A i \in DOMAIN inbox : inbox[i] \notin {"LOG", "RESP", "RESET"} /\ inbox[i] \notin {"HELLO", "READY"}
      BY <2>1 DEF Packets, Unread
    <3>5. \A i \in DOMAIN inbox' : inbox'[i] \notin {"LOG", "RESP", "RESET", "READY"} /\ (inbox'[i] = "HELLO" => i = Len(inbox'))
      BY <3>3, <3>4
    <3>6. \A i \in DOMAIN inbox' : inbox'[i] = "HELLO" => i >= Len(inbox') - 1
      BY <3>3, <3>5
    <3> QED BY <3>1, <3>3, <3>5, <3>6 DEF Packets
  <2>2. CASE mode = "hung"
    <3>1. PICK a \in {<<>>, <<"ERR">>} : mode' = mode /\ inbox' = inbox \o a
      BY <2>2
    <3> QED BY <2>2, <3>1, Said, PacketsCame
  <2>3. CASE mode \in {"resetting", "gone"}
    BY <2>3, PacketsRead DEF IdentifyTypes
  <2> QED BY <2>1, <2>2, <2>3 DEF IdentifyTypes, Modes
<1>3. IdentifyTypes'
  BY <1>2 DEF IdentifyTypes
<1>4. Modes'
  BY <1>1 DEF Modes, Packets, IdentifyTypes, Recovering, Configured
<1>5. Fields'
  BY <1>1 DEF Fields, Modes, IdentifyTypes, Recovering
<1>6. Unread'
  BY <1>1 DEF Unread, Modes, Packets, IdentifyTypes
<1>7. Answering'
  BY <1>1 DEF Answering, Modes, Fields, Unread, Packets, IdentifyTypes, OnTrack, Recovering, Identify!Fields
<1>8. InTime'
  BY <1>1 DEF InTime, Modes, Fields, Packets, IdentifyTypes, Configured, Recovering
<1> QED BY <1>2, <1>3, <1>4, <1>5, <1>6, <1>7, <1>8

\* RESET_REQ takes a Sahara device off the bus.
LEMMA KeepsSaharaReset ==
  ASSUME IdentifyInv, Identify!SaharaReset
  PROVE  IdentifyInv'
<1> USE DEF IdentifyInv, Identify!SaharaReset, Identify!Goto, Identify!Again, Identify!Drained,
  Identify!Receive, Identify!NoAnswer, Identify!Silence, Identify!Late, Identify!Answered,
  Identify!NextField, Identify!Sahara, Identify!Xml, Identify!Off, Identify!Attach, Identify!ConnectFails,
  Identify!Understood, Identify!devVars, Identify!scratch
<1>1. inbox /= <<>> =>
        /\ Tail(inbox) \in Seq(Kinds) /\ Len(inbox) \in Nat \ {0} /\ Len(Tail(inbox)) = Len(inbox) - 1 /\ Head(inbox) = inbox[1]
        /\ DOMAIN Tail(inbox) = 1 .. Len(inbox) - 1 /\ DOMAIN inbox = 1 .. Len(inbox)
        /\ \A i \in 1 .. Len(inbox) - 1 : Tail(inbox)[i] = inbox[i + 1]
  BY Read DEF IdentifyTypes
<1>2. Packets' /\ inbox' \in Seq(Kinds)
  <2>1. CASE mode \in {"hello", "command"}
    <3>1. mode' = "resetting" /\ inbox' = Append(inbox, "RESET")
      BY <2>1
    <3>2. "RESET" \in Kinds /\ inbox \in Seq(Kinds)
      BY DEF Kinds, IdentifyTypes
    <3>3. /\ inbox' \in Seq(Kinds) /\ DOMAIN inbox' = 1 .. Len(inbox) + 1 /\ DOMAIN inbox = 1 .. Len(inbox)
          /\ \A i \in 1 .. Len(inbox) : inbox'[i] = inbox[i]
          /\ inbox'[Len(inbox) + 1] = "RESET"
          /\ \A i \in DOMAIN inbox' : i \in 1 .. Len(inbox) \/ i = Len(inbox) + 1
      BY <3>1, <3>2, Appended
    <3>4. \A i \in DOMAIN inbox' : inbox'[i] \notin {"LOG", "RESP"}
      BY <2>1, <3>3 DEF Packets
    <3> QED BY <3>1, <3>3, <3>4 DEF Packets
  <2>2. CASE mode = "firehose"
    <3>1. PICK a \in {<<>>, <<"LOG">>} : mode' = mode /\ inbox' = inbox \o a
      BY <2>2
    <3> QED BY <2>2, <3>1, Said, PacketsCame
  <2>3. CASE mode \in {"hung", "resetting", "gone"}
    BY <2>3, PacketsRead DEF IdentifyTypes
  <2> QED BY <2>1, <2>2, <2>3 DEF IdentifyTypes
<1>3. IdentifyTypes'
  BY <1>2 DEF IdentifyTypes
<1>4. Modes'
  BY <1>1 DEF Modes, Packets, IdentifyTypes, Recovering, Configured
<1>5. Fields'
  BY <1>1 DEF Fields, Modes, IdentifyTypes, Recovering
<1>6. Unread'
  BY <1>1 DEF Unread, Modes, Packets, IdentifyTypes
<1>7. Answering'
  BY <1>1 DEF Answering, Modes, Fields, Unread, Packets, IdentifyTypes, OnTrack, Recovering, Identify!Fields
<1>8. InTime'
  BY <1>1 DEF InTime, Modes, Fields, Packets, IdentifyTypes, Configured, Recovering
<1> QED BY <1>2, <1>3, <1>4, <1>5, <1>6, <1>7, <1>8

\* The answer to RESET_REQ: the transport is opened again, or the device was none of Sahara.
LEMMA KeepsSaharaResetRsp ==
  ASSUME IdentifyInv, Identify!SaharaResetRsp
  PROVE  IdentifyInv'
<1> USE DEF IdentifyInv, Identify!SaharaResetRsp, Identify!Goto, Identify!Again, Identify!Drained,
  Identify!Receive, Identify!NoAnswer, Identify!Silence, Identify!Late, Identify!Answered,
  Identify!NextField, Identify!Sahara, Identify!Xml, Identify!Off, Identify!Attach, Identify!ConnectFails,
  Identify!Understood, Identify!devVars, Identify!scratch
<1>1. inbox /= <<>> =>
        /\ Tail(inbox) \in Seq(Kinds) /\ Len(inbox) \in Nat \ {0} /\ Len(Tail(inbox)) = Len(inbox) - 1 /\ Head(inbox) = inbox[1]
        /\ DOMAIN Tail(inbox) = 1 .. Len(inbox) - 1 /\ DOMAIN inbox = 1 .. Len(inbox)
        /\ \A i \in 1 .. Len(inbox) - 1 : Tail(inbox)[i] = inbox[i + 1]
  BY Read DEF IdentifyTypes
<1>2. Packets' /\ inbox' \in Seq(Kinds)
  BY PacketsRead DEF IdentifyTypes
<1>3. IdentifyTypes'
  <2>1. late' \in Nat /\ reads' \in Nat
    BY DEF IdentifyTypes
  <2>2. mode' = mode /\ field' = field /\ got' = got /\ retry' = retry /\ active' \in BOOLEAN
    BY DEF IdentifyTypes
  <2> QED BY <1>2, <2>1, <2>2 DEF IdentifyTypes
<1>4. Modes'
  BY <1>1 DEF Modes, Packets, IdentifyTypes, Recovering, Configured
<1>5. Fields'
  BY <1>1 DEF Fields, Modes, IdentifyTypes, Recovering
<1>6. Unread'
  BY <1>1 DEF Unread, Modes, Packets, IdentifyTypes
<1>7. Answering'
  BY <1>1 DEF Answering, Modes, Fields, Unread, Packets, IdentifyTypes, OnTrack, Recovering, Identify!Fields
<1>8. InTime'
  BY <1>1 DEF InTime, Modes, Fields, Packets, IdentifyTypes, Configured, Recovering
<1> QED BY <1>2, <1>3, <1>4, <1>5, <1>6, <1>7, <1>8

\* The nop is sent, and a programmer answers it.
LEMMA KeepsNopProbe ==
  ASSUME IdentifyInv, Identify!NopProbe
  PROVE  IdentifyInv'
<1> USE DEF IdentifyInv, Identify!NopProbe, Identify!Goto, Identify!Again, Identify!Drained,
  Identify!Receive, Identify!NoAnswer, Identify!Silence, Identify!Late, Identify!Answered,
  Identify!NextField, Identify!Sahara, Identify!Xml, Identify!Off, Identify!Attach, Identify!ConnectFails,
  Identify!Understood, Identify!devVars, Identify!scratch
<1>1. inbox /= <<>> =>
        /\ Tail(inbox) \in Seq(Kinds) /\ Len(inbox) \in Nat \ {0} /\ Len(Tail(inbox)) = Len(inbox) - 1 /\ Head(inbox) = inbox[1]
        /\ DOMAIN Tail(inbox) = 1 .. Len(inbox) - 1 /\ DOMAIN inbox = 1 .. Len(inbox)
        /\ \A i \in 1 .. Len(inbox) - 1 : Tail(inbox)[i] = inbox[i + 1]
  BY Read DEF IdentifyTypes
<1>2. Packets' /\ inbox' \in Seq(Kinds)
  <2>1. CASE mode \in {"hello", "command"}
    <3>1. PICK a \in {<<>>, <<"ERR">>} : mode' = mode /\ inbox' = inbox \o a
      BY <2>1
    <3>2. Len(inbox) <= 1
      <4>1. pc = "nop"
        OBVIOUS
      <4>2. mode \in Identify!Sahara
        BY <2>1
      <4> HIDE DEF Identify!NopProbe, Identify!Sahara
      <4> QED BY <4>1, <4>2 DEF Unread
    <3>3. a \in Seq(Kinds) /\ Len(a) <= 1 /\ \A i \in DOMAIN a : a[i] = "ERR"
      <4>1. CASE a = <<>>
        BY <4>1, Said
      <4>2. CASE a = <<"ERR">>
        BY <4>2, Said
      <4> QED BY <3>1, <4>1, <4>2
    <3> HIDE DEF Identify!NopProbe
    <3> QED BY <2>1, <3>1, <3>2, <3>3, PacketsCame
  <2>2. CASE mode = "firehose"
    <3>1. PICK a \in {<<"RESP">>, <<"LOG", "RESP">>} : mode' = mode /\ inbox' = inbox \o a
      BY <2>2
    <3> QED BY <2>2, <3>1, Said, PacketsCame
  <2>3. CASE mode \in {"hung", "resetting", "gone"}
    BY <2>3, PacketsRead DEF IdentifyTypes
  <2> QED BY <2>1, <2>2, <2>3 DEF IdentifyTypes
<1>3. IdentifyTypes'
  BY <1>2 DEF IdentifyTypes
<1>4. Modes'
  BY <1>1 DEF Modes, Packets, IdentifyTypes, Recovering, Configured
<1>5. Fields'
  BY <1>1 DEF Fields, Modes, IdentifyTypes, Recovering
<1>6. Unread'
  BY <1>1 DEF Unread, Modes, Packets, IdentifyTypes
<1>7. Answering'
  BY <1>1 DEF Answering, Modes, Fields, Unread, Packets, IdentifyTypes, OnTrack, Recovering, Identify!Fields
<1>8. InTime'
  BY <1>1 DEF InTime, Modes, Fields, Packets, IdentifyTypes, Configured, Recovering
<1> QED BY <1>2, <1>3, <1>4, <1>5, <1>6, <1>7, <1>8

\* One of the five reads that look for XML.
LEMMA KeepsNopRead ==
  ASSUME IdentifyInv, Identify!NopRead
  PROVE  IdentifyInv'
<1> USE DEF IdentifyInv, Identify!NopRead, Identify!Goto, Identify!Again, Identify!Drained,
  Identify!Receive, Identify!NoAnswer, Identify!Silence, Identify!Late, Identify!Answered,
  Identify!NextField, Identify!Sahara, Identify!Xml, Identify!Off, Identify!Attach, Identify!ConnectFails,
  Identify!Understood, Identify!devVars, Identify!scratch
<1>1. inbox /= <<>> =>
        /\ Tail(inbox) \in Seq(Kinds) /\ Len(inbox) \in Nat \ {0} /\ Len(Tail(inbox)) = Len(inbox) - 1 /\ Head(inbox) = inbox[1]
        /\ DOMAIN Tail(inbox) = 1 .. Len(inbox) - 1 /\ DOMAIN inbox = 1 .. Len(inbox)
        /\ \A i \in 1 .. Len(inbox) - 1 : Tail(inbox)[i] = inbox[i + 1]
  BY Read DEF IdentifyTypes
<1>2. Packets' /\ inbox' \in Seq(Kinds)
  BY PacketsRead DEF IdentifyTypes
<1>3. IdentifyTypes'
  <2>1. late' \in Nat /\ reads' \in Nat
    BY DEF IdentifyTypes
  <2>2. mode' = mode /\ field' = field /\ got' = got /\ retry' = retry /\ active' \in BOOLEAN
    BY DEF IdentifyTypes
  <2> QED BY <1>2, <2>1, <2>2 DEF IdentifyTypes
<1>4. Modes'
  BY <1>1 DEF Modes, Packets, IdentifyTypes, Recovering, Configured
<1>5. Fields'
  BY <1>1 DEF Fields, Modes, IdentifyTypes, Recovering
<1>6. Unread'
  BY <1>1 DEF Unread, Modes, Packets, IdentifyTypes
<1>7. Answering'
  BY <1>1 DEF Answering, Modes, Fields, Unread, Packets, IdentifyTypes, OnTrack, Recovering, Identify!Fields
<1>8. InTime'
  BY <1>1 DEF InTime, Modes, Fields, Packets, IdentifyTypes, Configured, Recovering
<1> QED BY <1>2, <1>3, <1>4, <1>5, <1>6, <1>7, <1>8

\* The drain before the programmer is taken for found.
LEMMA KeepsNopDrain ==
  ASSUME IdentifyInv, Identify!NopDrain
  PROVE  IdentifyInv'
<1> USE DEF IdentifyInv, Identify!NopDrain, Identify!Goto, Identify!Again, Identify!Drained,
  Identify!Receive, Identify!NoAnswer, Identify!Silence, Identify!Late, Identify!Answered,
  Identify!NextField, Identify!Sahara, Identify!Xml, Identify!Off, Identify!Attach, Identify!ConnectFails,
  Identify!Understood, Identify!devVars, Identify!scratch
<1>1. inbox /= <<>> =>
        /\ Tail(inbox) \in Seq(Kinds) /\ Len(inbox) \in Nat \ {0} /\ Len(Tail(inbox)) = Len(inbox) - 1 /\ Head(inbox) = inbox[1]
        /\ DOMAIN Tail(inbox) = 1 .. Len(inbox) - 1 /\ DOMAIN inbox = 1 .. Len(inbox)
        /\ \A i \in 1 .. Len(inbox) - 1 : Tail(inbox)[i] = inbox[i + 1]
  BY Read DEF IdentifyTypes
<1>2. Packets' /\ inbox' \in Seq(Kinds)
  BY PacketsRead DEF IdentifyTypes
<1>3. IdentifyTypes'
  <2>1. late' \in Nat /\ reads' \in Nat
    BY DEF IdentifyTypes
  <2>2. mode' = mode /\ field' = field /\ got' = got /\ retry' = retry /\ active' \in BOOLEAN
    BY DEF IdentifyTypes
  <2> QED BY <1>2, <2>1, <2>2 DEF IdentifyTypes
<1>4. Modes'
  BY <1>1 DEF Modes, Packets, IdentifyTypes, Recovering, Configured
<1>5. Fields'
  BY <1>1 DEF Fields, Modes, IdentifyTypes, Recovering
<1>6. Unread'
  BY <1>1 DEF Unread, Modes, Packets, IdentifyTypes
<1>7. Answering'
  BY <1>1 DEF Answering, Modes, Fields, Unread, Packets, IdentifyTypes, OnTrack, Recovering, Identify!Fields
<1>8. InTime'
  BY <1>1 DEF InTime, Modes, Fields, Packets, IdentifyTypes, Configured, Recovering
<1> QED BY <1>2, <1>3, <1>4, <1>5, <1>6, <1>7, <1>8

\* The upload starts a programmer with nothing unread, or ends connect.
LEMMA KeepsUploadProgrammer ==
  ASSUME IdentifyInv, Identify!UploadProgrammer
  PROVE  IdentifyInv'
<1> USE DEF IdentifyInv, Identify!UploadProgrammer, Identify!Goto, Identify!Again, Identify!Drained,
  Identify!Receive, Identify!NoAnswer, Identify!Silence, Identify!Late, Identify!Answered,
  Identify!NextField, Identify!Sahara, Identify!Xml, Identify!Off, Identify!Attach, Identify!ConnectFails,
  Identify!Understood, Identify!devVars, Identify!scratch
<1>1. inbox /= <<>> =>
        /\ Tail(inbox) \in Seq(Kinds) /\ Len(inbox) \in Nat \ {0} /\ Len(Tail(inbox)) = Len(inbox) - 1 /\ Head(inbox) = inbox[1]
        /\ DOMAIN Tail(inbox) = 1 .. Len(inbox) - 1 /\ DOMAIN inbox = 1 .. Len(inbox)
        /\ \A i \in 1 .. Len(inbox) - 1 : Tail(inbox)[i] = inbox[i + 1]
  BY Read DEF IdentifyTypes
<1>2. Packets' /\ inbox' \in Seq(Kinds)
  <2>1. CASE mode' = mode
    BY <2>1, PacketsRead DEF IdentifyTypes
  <2>2. CASE mode' /= mode
    <3>1. PICK log \in {<<>>, <<"LOG">>} : inbox' = Tail(inbox) \o log
      BY <2>2
    <3>2. /\ inbox /= <<>> /\ Head(inbox) = "HELLO" /\ mode = "hello" /\ mode' = "firehose"
      BY <2>2
    <3> HIDE DEF Identify!UploadProgrammer
    <3>3. Len(inbox) <= 2 /\ \A i \in 1 .. Len(inbox) : inbox[i] \notin {"RESET", "READY", "LOG", "RESP"}
      <4>1. inbox[1] = "HELLO" /\ 1 \in DOMAIN inbox /\ Len(inbox) \in Nat
        BY <1>1, <3>2
      <4>2. 1 >= Len(inbox) - 1
        BY <3>2, <4>1 DEF Packets
      <4>3. Len(inbox) <= 2
        BY <4>1, <4>2
      <4> QED BY <1>1, <3>2, <4>3 DEF Packets
    <3> DEFINE rest == Tail(inbox)
    <3>4. rest \in Seq(Kinds) /\ Len(rest) <= 1 /\ Len(rest) \in Nat /\ \A i \in 1 .. Len(rest) : rest[i] \notin {"RESET", "READY"}
      <4>1. /\ rest \in Seq(Kinds) /\ Len(rest) = Len(inbox) - 1 /\ Len(inbox) \in Nat \ {0}
            /\ \A i \in 1 .. Len(inbox) - 1 : rest[i] = inbox[i + 1]
        BY <1>1, <3>2
      <4> HIDE DEF rest
      <4>2. \A i \in 1 .. Len(inbox) - 1 : i + 1 \in 1 .. Len(inbox)
        BY <4>1
      <4> QED BY <3>3, <4>1, <4>2
    <3>5. log \in Seq(Kinds) /\ \A i \in 1 .. Len(log) : log[i] = "LOG"
      <4>1. CASE log = <<>>
        BY <4>1, Said
      <4>2. CASE log = <<"LOG">>
        BY <4>2, Said
      <4> QED BY <3>1, <4>1, <4>2
    <3>6. inbox' = rest \o log
      BY <3>1
    <3> HIDE DEF rest
    <3>7. /\ inbox' \in Seq(Kinds) /\ DOMAIN inbox' = 1 .. Len(rest) + Len(log) /\ Len(log) \in Nat
          /\ \A i \in 1 .. Len(rest) : inbox'[i] = rest[i]
          /\ \A i \in 1 .. Len(log) : inbox'[Len(rest) + i] = log[i]
      BY <3>4, <3>5, <3>6, Came
    <3>8. \A i \in DOMAIN inbox' : i \in 1 .. Len(rest) \/ \E k \in 1 .. Len(log) : i = Len(rest) + k
      <4>1. \A m, n \in Nat : \A i \in 1 .. m + n : i \in 1 .. m \/ (i - m \in 1 .. n /\ i = m + (i - m))
        OBVIOUS
      <4> QED BY <3>4, <3>7, <4>1
    <3>9. \A i \in DOMAIN inbox' : inbox'[i] \notin {"RESET", "READY"} /\ (i >= 2 => inbox'[i] = "LOG")
      BY <3>4, <3>5, <3>7, <3>8
    <3> QED BY <3>2, <3>7, <3>9 DEF Packets
  <2> QED BY <2>1, <2>2
<1>3. IdentifyTypes'
  <2>1. late' \in Nat /\ reads' \in Nat
    BY DEF IdentifyTypes
  <2>2. mode' \in {mode, "firehose"} /\ field' = field /\ got' = got /\ retry' = retry /\ active' = active
    OBVIOUS
  <2> QED BY <1>2, <2>1, <2>2 DEF IdentifyTypes
<1>4. Modes'
  BY <1>1 DEF Modes, Packets, IdentifyTypes, Recovering, Configured
<1>5. Fields'
  BY <1>1 DEF Fields, Modes, IdentifyTypes, Recovering
<1>6. Unread'
  BY <1>1 DEF Unread, Modes, Packets, IdentifyTypes
<1>7. Answering'
  BY <1>1 DEF Answering, Modes, Fields, Unread, Packets, IdentifyTypes, OnTrack, Recovering, Identify!Fields
<1>8. InTime'
  BY <1>1 DEF InTime, Modes, Fields, Packets, IdentifyTypes, Configured, Recovering
<1> QED BY <1>2, <1>3, <1>4, <1>5, <1>6, <1>7, <1>8

\* The drain of a session that is resumed.
LEMMA KeepsResumeDrain ==
  ASSUME IdentifyInv, Identify!ResumeDrain
  PROVE  IdentifyInv'
<1> USE DEF IdentifyInv, Identify!ResumeDrain, Identify!Goto, Identify!Again, Identify!Drained,
  Identify!Receive, Identify!NoAnswer, Identify!Silence, Identify!Late, Identify!Answered,
  Identify!NextField, Identify!Sahara, Identify!Xml, Identify!Off, Identify!Attach, Identify!ConnectFails,
  Identify!Understood, Identify!devVars, Identify!scratch
<1>1. inbox /= <<>> =>
        /\ Tail(inbox) \in Seq(Kinds) /\ Len(inbox) \in Nat \ {0} /\ Len(Tail(inbox)) = Len(inbox) - 1 /\ Head(inbox) = inbox[1]
        /\ DOMAIN Tail(inbox) = 1 .. Len(inbox) - 1 /\ DOMAIN inbox = 1 .. Len(inbox)
        /\ \A i \in 1 .. Len(inbox) - 1 : Tail(inbox)[i] = inbox[i + 1]
  BY Read DEF IdentifyTypes
<1>2. Packets' /\ inbox' \in Seq(Kinds)
  BY PacketsRead DEF IdentifyTypes
<1>3. IdentifyTypes'
  <2>1. late' \in Nat /\ reads' \in Nat
    BY DEF IdentifyTypes
  <2>2. mode' = mode /\ field' = field /\ got' = got /\ retry' = retry /\ active' \in BOOLEAN
    BY DEF IdentifyTypes
  <2> QED BY <1>2, <2>1, <2>2 DEF IdentifyTypes
<1>4. Modes'
  BY <1>1 DEF Modes, Packets, IdentifyTypes, Recovering, Configured
<1>5. Fields'
  BY <1>1 DEF Fields, Modes, IdentifyTypes, Recovering
<1>6. Unread'
  BY <1>1 DEF Unread, Modes, Packets, IdentifyTypes
<1>7. Answering'
  BY <1>1 DEF Answering, Modes, Fields, Unread, Packets, IdentifyTypes, OnTrack, Recovering, Identify!Fields
<1>8. InTime'
  BY <1>1 DEF InTime, Modes, Fields, Packets, IdentifyTypes, Configured, Recovering
<1> QED BY <1>2, <1>3, <1>4, <1>5, <1>6, <1>7, <1>8

\* The first configure is sent, and answered.
LEMMA KeepsConfigure ==
  ASSUME IdentifyInv, Identify!Configure
  PROVE  IdentifyInv'
<1> USE DEF IdentifyInv, Identify!Configure, Identify!Goto, Identify!Again, Identify!Drained,
  Identify!Receive, Identify!NoAnswer, Identify!Silence, Identify!Late, Identify!Answered,
  Identify!NextField, Identify!Sahara, Identify!Xml, Identify!Off, Identify!Attach, Identify!ConnectFails,
  Identify!Understood, Identify!devVars, Identify!scratch
<1>1. inbox /= <<>> =>
        /\ Tail(inbox) \in Seq(Kinds) /\ Len(inbox) \in Nat \ {0} /\ Len(Tail(inbox)) = Len(inbox) - 1 /\ Head(inbox) = inbox[1]
        /\ DOMAIN Tail(inbox) = 1 .. Len(inbox) - 1 /\ DOMAIN inbox = 1 .. Len(inbox)
        /\ \A i \in 1 .. Len(inbox) - 1 : Tail(inbox)[i] = inbox[i + 1]
  BY Read DEF IdentifyTypes
<1>2. Packets' /\ inbox' \in Seq(Kinds)
  <2>1. CASE mode = "gone"
    BY <2>1, PacketsRead DEF IdentifyTypes
  <2>2. CASE mode /= "gone"
    <3>1. mode = "firehose"
      BY <2>2 DEF Modes, Configured
    <3>2. PICK a \in {<<"RESP">>, <<"LOG", "RESP">>} : mode' = mode /\ inbox' = inbox \o a
      BY <2>2
    <3> QED BY <3>1, <3>2, Said, PacketsCame
  <2> QED BY <2>1, <2>2
<1>3. IdentifyTypes'
  <2>1. late' \in Nat /\ reads' \in Nat
    BY DEF IdentifyTypes
  <2>2. mode' = mode /\ field' = field /\ got' = got /\ retry' = retry /\ active' \in BOOLEAN
    BY DEF IdentifyTypes
  <2> QED BY <1>2, <2>1, <2>2 DEF IdentifyTypes
<1>4. Modes'
  BY <1>1 DEF Modes, Packets, IdentifyTypes, Recovering, Configured
<1>5. Fields'
  BY <1>1 DEF Fields, Modes, IdentifyTypes, Recovering
<1>6. Unread'
  BY <1>1 DEF Unread, Modes, Packets, IdentifyTypes
<1>7. Answering'
  BY <1>1 DEF Answering, Modes, Fields, Unread, Packets, IdentifyTypes, OnTrack, Recovering, Identify!Fields
<1>8. InTime'
  <2>1. CASE mode = "gone"
    BY <2>1 DEF InTime
  <2>2. CASE mode /= "gone"
    <3>1. mode = "firehose" /\ mode' = mode /\ late' = late /\ inbox \in Seq(Kinds) /\ UNCHANGED <<prog, authed>>
      BY <2>2 DEF Modes, Configured, IdentifyTypes
    <3>2. PICK a \in {<<"RESP">>, <<"LOG", "RESP">>} : inbox' = inbox \o a
      BY <2>2
    <3>3. pc \in {"configure", "reconfigure"} /\ pc' = IF pc = "configure" THEN "response" ELSE "retried"
      BY <2>2
    <3> HIDE DEF Identify!Configure
    <3>4. ASSUME late = 0
          PROVE  inbox' /= <<>> /\ \A i \in DOMAIN inbox' : inbox'[i] = "RESP" <=> i = Len(inbox')
      <4>1. \A i \in DOMAIN inbox : inbox[i] /= "RESP"
        BY <3>1, <3>3, <3>4 DEF InTime, Configured
      <4>2. a \in Seq(Kinds) /\ Len(a) \in Nat \ {0} /\ \A i \in 1 .. Len(a) : a[i] = "RESP" <=> i = Len(a)
        <5>1. CASE a = <<"RESP">>
          BY <5>1, Said
        <5>2. CASE a = <<"LOG", "RESP">>
          BY <5>2, Said
        <5> QED BY <5>1, <5>2
      <4>3. /\ Len(inbox') = Len(inbox) + Len(a) /\ Len(inbox) \in Nat /\ DOMAIN inbox = 1 .. Len(inbox)
            /\ DOMAIN inbox' = 1 .. Len(inbox) + Len(a)
            /\ \A i \in 1 .. Len(inbox) : inbox'[i] = inbox[i]
            /\ \A i \in 1 .. Len(a) : inbox'[Len(inbox) + i] = a[i]
        BY <3>1, <3>2, <4>2, Came
      <4>4. \A i \in DOMAIN inbox' : i \in 1 .. Len(inbox) \/ (i - Len(inbox) \in 1 .. Len(a) /\ i = Len(inbox) + (i - Len(inbox)))
        <5>1. \A m, n \in Nat : \A i \in 1 .. m + n : i \in 1 .. m \/ (i - m \in 1 .. n /\ i = m + (i - m))
          OBVIOUS
        <5> QED BY <4>2, <4>3, <5>1
      <4>5. ASSUME NEW i \in DOMAIN inbox' PROVE inbox'[i] = "RESP" <=> i = Len(inbox')
        <5>1. CASE i \in 1 .. Len(inbox)
          BY <4>1, <4>2, <4>3, <5>1
        <5>2. CASE i - Len(inbox) \in 1 .. Len(a) /\ i = Len(inbox) + (i - Len(inbox))
          <6>1. inbox'[i] = a[i - Len(inbox)]
            BY <4>3, <5>2
          <6>2. i - Len(inbox) = Len(a) <=> i = Len(inbox')
            <7>1. \A m, n \in Nat : \A k \in 1 .. m + n : k - m = n <=> k = m + n
              OBVIOUS
            <7>2. i \in 1 .. Len(inbox) + Len(a) /\ Len(a) \in Nat /\ Len(inbox) \in Nat
              BY <4>2, <4>3, <4>5
            <7> QED BY <4>3, <7>1, <7>2
          <6> QED BY <4>2, <5>2, <6>1, <6>2
        <5> QED BY <4>4, <5>1, <5>2
      <4>6. inbox' /= <<>>
        BY <4>2, <4>3, Empty
      <4> QED BY <4>5, <4>6
    <3>5. pc = "reconfigure" /\ late = 0 => ~prog.auth \/ authed
      BY <3>1 DEF InTime
    <3> QED BY <3>1, <3>3, <3>4, <3>5 DEF InTime, Configured
  <2> QED BY <2>1, <2>2
<1> QED BY <1>2, <1>3, <1>4, <1>5, <1>6, <1>7, <1>8

\* The response to configure, behind its logs, and what its text decides.
LEMMA KeepsConfigureResponse ==
  ASSUME IdentifyInv, Identify!ConfigureResponse
  PROVE  IdentifyInv'
<1> USE DEF IdentifyInv, Identify!ConfigureResponse, Identify!Goto, Identify!Again, Identify!Drained,
  Identify!Receive, Identify!NoAnswer, Identify!Silence, Identify!Late, Identify!Answered,
  Identify!NextField, Identify!Sahara, Identify!Xml, Identify!Off, Identify!Attach, Identify!ConnectFails,
  Identify!Understood, Identify!devVars, Identify!scratch
<1>1. inbox /= <<>> =>
        /\ Tail(inbox) \in Seq(Kinds) /\ Len(inbox) \in Nat \ {0} /\ Len(Tail(inbox)) = Len(inbox) - 1 /\ Head(inbox) = inbox[1]
        /\ DOMAIN Tail(inbox) = 1 .. Len(inbox) - 1 /\ DOMAIN inbox = 1 .. Len(inbox)
        /\ \A i \in 1 .. Len(inbox) - 1 : Tail(inbox)[i] = inbox[i + 1]
  BY Read DEF IdentifyTypes
<1>2. Packets' /\ inbox' \in Seq(Kinds)
  BY PacketsRead DEF IdentifyTypes
<1>3. IdentifyTypes'
  <2>1. late' \in Nat /\ reads' \in Nat
    BY DEF IdentifyTypes
  <2>2. mode' = mode /\ field' = field /\ got' = got /\ retry' = retry /\ active' \in BOOLEAN
    BY DEF IdentifyTypes
  <2> QED BY <1>2, <2>1, <2>2 DEF IdentifyTypes
<1>4. Modes'
  BY <1>1 DEF Modes, Packets, IdentifyTypes, Recovering, Configured
<1>5. Fields'
  BY <1>1 DEF Fields, Modes, IdentifyTypes, Recovering
<1>6. Unread'
  BY <1>1 DEF Unread, Modes, Packets, IdentifyTypes
<1>7. Answering'
  BY <1>1 DEF Answering, Modes, Fields, Unread, Packets, IdentifyTypes, OnTrack, Recovering, Identify!Fields
<1>8. InTime'
  <2>1. SUFFICES ASSUME late' = 0, mode = "firehose"
                 PROVE  InTime'
    BY DEF InTime
  <2>2. /\ pc = "response" /\ mode' = mode /\ UNCHANGED <<prog, authed>>
        /\ Identify!Receive \/ Identify!NoAnswer
        /\ \/ Identify!Receive /\ Head(inbox) /= "RESP" /\ pc' = pc
           \/ Identify!Receive /\ Head(inbox) = "RESP" /\ pc' = "auth"
           \/ Identify!Receive /\ Head(inbox) = "RESP" /\ pc' \in {"reconfigure", "probe"} /\ Identify!Configurable
           \/ Identify!NoAnswer /\ pc' = "probe"
    OBVIOUS
  <2> HIDE DEF Identify!ConfigureResponse, Identify!Receive, Identify!NoAnswer
  <2>3. late = 0 /\ \/ /\ inbox /= <<>> /\ inbox' = Tail(inbox) /\ Head(inbox) = inbox[1] /\ Identify!Receive
                       /\ Len(inbox) \in Nat \ {0} /\ Len(inbox') = Len(inbox) - 1 /\ inbox' \in Seq(Kinds)
                       /\ DOMAIN inbox' = 1 .. Len(inbox) - 1 /\ DOMAIN inbox = 1 .. Len(inbox)
                       /\ \A i \in 1 .. Len(inbox) - 1 : inbox'[i] = inbox[i + 1]
                    \/ inbox = <<>>
    BY <2>1, <2>2, Listening
  <2>4. inbox /= <<>> /\ \A i \in DOMAIN inbox : inbox[i] = "RESP" <=> i = Len(inbox)
    BY <2>1, <2>2, <2>3 DEF InTime
  <2>5. /\ Len(inbox) \in Nat \ {0} /\ Len(inbox') = Len(inbox) - 1 /\ inbox' \in Seq(Kinds) /\ Head(inbox) = inbox[1]
        /\ DOMAIN inbox' = 1 .. Len(inbox) - 1 /\ DOMAIN inbox = 1 .. Len(inbox) /\ Identify!Receive
        /\ \A i \in 1 .. Len(inbox) - 1 : inbox'[i] = inbox[i + 1] /\ i + 1 \in DOMAIN inbox
    BY <2>3, <2>4
  <2>6. \A i \in DOMAIN inbox' : inbox'[i] = "RESP" <=> i = Len(inbox')
    BY <2>4, <2>5
  <2>7. inbox[1] /= "RESP" => inbox' /= <<>>
    BY <2>4, <2>5, Empty
  <2>8. inbox[1] = "RESP" => \A i \in DOMAIN inbox' : inbox'[i] /= "RESP"
    <3>1. inbox[1] = "RESP" => Len(inbox) = 1
      <4>1. 1 \in DOMAIN inbox
        BY <2>5
      <4> QED BY <2>4, <4>1
    <3>2. Len(inbox) = 1 => DOMAIN inbox' = {}
      BY <2>5
    <3> QED BY <3>1, <3>2
  <2>9. CASE Head(inbox) /= "RESP" /\ pc' = pc
    BY <2>1, <2>2, <2>3, <2>5, <2>6, <2>7, <2>9 DEF InTime, Configured
  <2>10. CASE Head(inbox) = "RESP" /\ (pc' = "auth" \/ (pc' \in {"reconfigure", "probe"} /\ Identify!Configurable))
    BY <2>1, <2>2, <2>3, <2>5, <2>8, <2>10 DEF InTime, Configured, Identify!Configurable
  <2>11. ~Identify!NoAnswer
    BY <2>4, <2>3, <2>1 DEF Identify!NoAnswer, Identify!Silence, Identify!Late, IdentifyTypes
  <2> QED BY <2>2, <2>9, <2>10, <2>11
<1> QED BY <1>2, <1>3, <1>4, <1>5, <1>6, <1>7, <1>8

\* A token is accepted, or connect fails.
LEMMA KeepsAuthenticate ==
  ASSUME IdentifyInv, Identify!Authenticate
  PROVE  IdentifyInv'
<1> USE DEF IdentifyInv, Identify!Authenticate, Identify!Goto, Identify!Again, Identify!Drained,
  Identify!Receive, Identify!NoAnswer, Identify!Silence, Identify!Late, Identify!Answered,
  Identify!NextField, Identify!Sahara, Identify!Xml, Identify!Off, Identify!Attach, Identify!ConnectFails,
  Identify!Understood, Identify!devVars, Identify!scratch
<1>1. inbox /= <<>> =>
        /\ Tail(inbox) \in Seq(Kinds) /\ Len(inbox) \in Nat \ {0} /\ Len(Tail(inbox)) = Len(inbox) - 1 /\ Head(inbox) = inbox[1]
        /\ DOMAIN Tail(inbox) = 1 .. Len(inbox) - 1 /\ DOMAIN inbox = 1 .. Len(inbox)
        /\ \A i \in 1 .. Len(inbox) - 1 : Tail(inbox)[i] = inbox[i + 1]
  BY Read DEF IdentifyTypes
<1>2. Packets' /\ inbox' \in Seq(Kinds)
  BY PacketsRead DEF IdentifyTypes
<1>3. IdentifyTypes'
  <2>1. late' \in Nat /\ reads' \in Nat
    BY DEF IdentifyTypes
  <2>2. mode' = mode /\ field' = field /\ got' = got /\ retry' = retry /\ active' \in BOOLEAN
    BY DEF IdentifyTypes
  <2> QED BY <1>2, <2>1, <2>2 DEF IdentifyTypes
<1>4. Modes'
  BY <1>1 DEF Modes, Packets, IdentifyTypes, Recovering, Configured
<1>5. Fields'
  BY <1>1 DEF Fields, Modes, IdentifyTypes, Recovering
<1>6. Unread'
  BY <1>1 DEF Unread, Modes, Packets, IdentifyTypes
<1>7. Answering'
  BY <1>1 DEF Answering, Modes, Fields, Unread, Packets, IdentifyTypes, OnTrack, Recovering, Identify!Fields
<1>8. InTime'
  BY <1>1 DEF InTime, Modes, Fields, Packets, IdentifyTypes, Configured, Recovering
<1> QED BY <1>2, <1>3, <1>4, <1>5, <1>6, <1>7, <1>8

\* The drain after the authentication, and the second configure.
LEMMA KeepsAuthDrain ==
  ASSUME IdentifyInv, Identify!AuthDrain
  PROVE  IdentifyInv'
<1> USE DEF IdentifyInv, Identify!AuthDrain, Identify!Goto, Identify!Again, Identify!Drained,
  Identify!Receive, Identify!NoAnswer, Identify!Silence, Identify!Late, Identify!Answered,
  Identify!NextField, Identify!Sahara, Identify!Xml, Identify!Off, Identify!Attach, Identify!ConnectFails,
  Identify!Understood, Identify!devVars, Identify!scratch
<1>1. inbox /= <<>> =>
        /\ Tail(inbox) \in Seq(Kinds) /\ Len(inbox) \in Nat \ {0} /\ Len(Tail(inbox)) = Len(inbox) - 1 /\ Head(inbox) = inbox[1]
        /\ DOMAIN Tail(inbox) = 1 .. Len(inbox) - 1 /\ DOMAIN inbox = 1 .. Len(inbox)
        /\ \A i \in 1 .. Len(inbox) - 1 : Tail(inbox)[i] = inbox[i + 1]
  BY Read DEF IdentifyTypes
<1>2. Packets' /\ inbox' \in Seq(Kinds)
  BY PacketsRead DEF IdentifyTypes
<1>3. IdentifyTypes'
  <2>1. late' \in Nat /\ reads' \in Nat
    BY DEF IdentifyTypes
  <2>2. mode' = mode /\ field' = field /\ got' = got /\ retry' = retry /\ active' \in BOOLEAN
    BY DEF IdentifyTypes
  <2> QED BY <1>2, <2>1, <2>2 DEF IdentifyTypes
<1>4. Modes'
  BY <1>1 DEF Modes, Packets, IdentifyTypes, Recovering, Configured
<1>5. Fields'
  BY <1>1 DEF Fields, Modes, IdentifyTypes, Recovering
<1>6. Unread'
  BY <1>1 DEF Unread, Modes, Packets, IdentifyTypes
<1>7. Answering'
  BY <1>1 DEF Answering, Modes, Fields, Unread, Packets, IdentifyTypes, OnTrack, Recovering, Identify!Fields
<1>8. InTime'
  BY <1>1 DEF InTime, Modes, Fields, Packets, IdentifyTypes, Configured, Recovering
<1> QED BY <1>2, <1>3, <1>4, <1>5, <1>6, <1>7, <1>8

\* The response to the second configure.
LEMMA KeepsReconfigureResponse ==
  ASSUME IdentifyInv, Identify!ReconfigureResponse
  PROVE  IdentifyInv'
<1> USE DEF IdentifyInv, Identify!ReconfigureResponse, Identify!Goto, Identify!Again, Identify!Drained,
  Identify!Receive, Identify!NoAnswer, Identify!Silence, Identify!Late, Identify!Answered,
  Identify!NextField, Identify!Sahara, Identify!Xml, Identify!Off, Identify!Attach, Identify!ConnectFails,
  Identify!Understood, Identify!devVars, Identify!scratch
<1>1. inbox /= <<>> =>
        /\ Tail(inbox) \in Seq(Kinds) /\ Len(inbox) \in Nat \ {0} /\ Len(Tail(inbox)) = Len(inbox) - 1 /\ Head(inbox) = inbox[1]
        /\ DOMAIN Tail(inbox) = 1 .. Len(inbox) - 1 /\ DOMAIN inbox = 1 .. Len(inbox)
        /\ \A i \in 1 .. Len(inbox) - 1 : Tail(inbox)[i] = inbox[i + 1]
  BY Read DEF IdentifyTypes
<1>2. Packets' /\ inbox' \in Seq(Kinds)
  BY PacketsRead DEF IdentifyTypes
<1>3. IdentifyTypes'
  <2>1. late' \in Nat /\ reads' \in Nat
    BY DEF IdentifyTypes
  <2>2. mode' = mode /\ field' = field /\ got' = got /\ retry' = retry /\ active' \in BOOLEAN
    BY DEF IdentifyTypes
  <2> QED BY <1>2, <2>1, <2>2 DEF IdentifyTypes
<1>4. Modes'
  BY <1>1 DEF Modes, Packets, IdentifyTypes, Recovering, Configured
<1>5. Fields'
  BY <1>1 DEF Fields, Modes, IdentifyTypes, Recovering
<1>6. Unread'
  BY <1>1 DEF Unread, Modes, Packets, IdentifyTypes
<1>7. Answering'
  BY <1>1 DEF Answering, Modes, Fields, Unread, Packets, IdentifyTypes, OnTrack, Recovering, Identify!Fields
<1>8. InTime'
  BY <1>1 DEF InTime, Modes, Fields, Packets, IdentifyTypes, Configured, Recovering
<1> QED BY <1>2, <1>3, <1>4, <1>5, <1>6, <1>7, <1>8

\* The storage info of the LUNs is asked for and read.
LEMMA KeepsProbeLuns ==
  ASSUME IdentifyInv, Identify!ProbeLuns
  PROVE  IdentifyInv'
<1> USE DEF IdentifyInv, Identify!ProbeLuns, Identify!Goto, Identify!Again, Identify!Drained,
  Identify!Receive, Identify!NoAnswer, Identify!Silence, Identify!Late, Identify!Answered,
  Identify!NextField, Identify!Sahara, Identify!Xml, Identify!Off, Identify!Attach, Identify!ConnectFails,
  Identify!Understood, Identify!devVars, Identify!scratch
<1>1. inbox /= <<>> =>
        /\ Tail(inbox) \in Seq(Kinds) /\ Len(inbox) \in Nat \ {0} /\ Len(Tail(inbox)) = Len(inbox) - 1 /\ Head(inbox) = inbox[1]
        /\ DOMAIN Tail(inbox) = 1 .. Len(inbox) - 1 /\ DOMAIN inbox = 1 .. Len(inbox)
        /\ \A i \in 1 .. Len(inbox) - 1 : Tail(inbox)[i] = inbox[i + 1]
  BY Read DEF IdentifyTypes
<1>2. Packets' /\ inbox' \in Seq(Kinds)
  BY PacketsRead DEF IdentifyTypes
<1>3. IdentifyTypes'
  <2>1. late' \in Nat /\ reads' \in Nat
    BY DEF IdentifyTypes
  <2>2. mode' = mode /\ field' = field /\ got' = got /\ retry' = retry /\ active' \in BOOLEAN
    BY DEF IdentifyTypes
  <2> QED BY <1>2, <2>1, <2>2 DEF IdentifyTypes
<1>4. Modes'
  BY <1>1 DEF Modes, Packets, IdentifyTypes, Recovering, Configured
<1>5. Fields'
  BY <1>1 DEF Fields, Modes, IdentifyTypes, Recovering
<1>6. Unread'
  BY <1>1 DEF Unread, Modes, Packets, IdentifyTypes
<1>7. Answering'
  BY <1>1 DEF Answering, Modes, Fields, Unread, Packets, IdentifyTypes, OnTrack, Recovering, Identify!Fields
<1>8. InTime'
  BY <1>1 DEF InTime, Modes, Fields, Packets, IdentifyTypes, Configured, Recovering
<1> QED BY <1>2, <1>3, <1>4, <1>5, <1>6, <1>7, <1>8

\* identify begins with what the last program left in the device and in the transport.
LEMMA KeepsIdentify ==
  ASSUME IdentifyInv, Identify!Identify
  PROVE  IdentifyInv'
<1> USE DEF IdentifyInv, Identify!Identify, Identify!Goto, Identify!Again, Identify!Drained,
  Identify!Receive, Identify!NoAnswer, Identify!Silence, Identify!Late, Identify!Answered,
  Identify!NextField, Identify!Sahara, Identify!Xml, Identify!Off, Identify!Attach, Identify!ConnectFails,
  Identify!Understood, Identify!devVars, Identify!scratch
<1>1. inbox /= <<>> =>
        /\ Tail(inbox) \in Seq(Kinds) /\ Len(inbox) \in Nat \ {0} /\ Len(Tail(inbox)) = Len(inbox) - 1 /\ Head(inbox) = inbox[1]
        /\ DOMAIN Tail(inbox) = 1 .. Len(inbox) - 1 /\ DOMAIN inbox = 1 .. Len(inbox)
        /\ \A i \in 1 .. Len(inbox) - 1 : Tail(inbox)[i] = inbox[i + 1]
  BY Read DEF IdentifyTypes
<1>2. Packets' /\ inbox' \in Seq(Kinds)
  <2>1. (mode' = mode /\ inbox' = inbox) \/ (mode' = "hello" /\ inbox' = <<"HELLO">>)
    OBVIOUS
  <2> QED BY <2>1, PacketsRead, PacketsOneHello DEF IdentifyTypes
<1>3. IdentifyTypes'
  <2>1. late' \in Nat /\ reads' \in Nat
    BY DEF IdentifyTypes
  <2>2. field' = 1 /\ got' = {} /\ retry' \in {"no", "reset"} /\ active' = FALSE
    OBVIOUS
  <2>3. mode' \in {"hello", "command", "firehose", "hung", "resetting", "gone"}
    BY DEF IdentifyTypes
  <2> HIDE DEF Identify!Identify
  <2>4. field' \in 1 .. 3 /\ got' \subseteq 1 .. 3
    BY <2>2
  <2>5. active' \in BOOLEAN
    BY <2>2
  <2> QED BY <1>2, <2>1, <2>2, <2>3, <2>4, <2>5 DEF IdentifyTypes
<1>4. Modes'
  BY <1>1 DEF Modes, Packets, IdentifyTypes, Recovering, Configured
<1>5. Fields'
  BY <1>1 DEF Fields, Modes, IdentifyTypes, Recovering
<1>6. Unread'
  <2>1. pc' = "sahara" /\ field' = 1 /\ got' = {} /\ mode /= "gone"
    OBVIOUS
  <2>2. \/ pc = "idle" /\ retry' = "no" /\ stale' = (mode /= "resetting" /\ Len(inbox) > 1)
        \/ pc = "reopen" /\ retry' = "reset"
    OBVIOUS
  <2>3. \/ mode = "resetting" /\ mode' = "hello" /\ inbox' = <<"HELLO">>
        \/ mode /= "resetting" /\ mode' = mode /\ inbox' = inbox
    OBVIOUS
  <2> HIDE DEF Identify!Identify
  <2>4. pc = "reopen" /\ mode' \in {"hello", "command"} => mode' = "hello" /\ inbox' = <<"HELLO">>
    <3>1. pc = "reopen" => mode \in {"hello", "resetting", "gone", "hung"} /\ (mode = "hello" => inbox = <<"HELLO">>)
      BY DEF Modes, Unread
    <3> QED BY <2>3, <3>1
  <2>5. inbox' = <<"HELLO">> => Len(inbox') <= 1
    BY Said
  <2> QED BY <2>1, <2>2, <2>4, <2>5 DEF Unread
<1>7. Answering'
  <2>1. pc' = "sahara" /\ field' = 1 /\ got' = {} /\ mode /= "gone"
    OBVIOUS
  <2>2. \/ pc = "idle" /\ retry' = "no" /\ stale' = (mode /= "resetting" /\ Len(inbox) > 1)
        \/ pc = "reopen" /\ retry' = "reset"
    OBVIOUS
  <2>3. \/ mode = "resetting" /\ mode' = "hello" /\ inbox' = <<"HELLO">>
        \/ mode /= "resetting" /\ mode' = mode /\ inbox' = inbox
    OBVIOUS
  <2> HIDE DEF Identify!Identify
  <2>4. pc = "reopen" /\ mode' \in {"hello", "command"} => mode' = "hello" /\ inbox' = <<"HELLO">>
    <3>1. pc = "reopen" => mode \in {"hello", "resetting", "gone", "hung"} /\ (mode = "hello" => inbox = <<"HELLO">>)
      BY DEF Modes, Unread
    <3> QED BY <2>3, <3>1
  <2>5. CASE inbox' = <<"HELLO">> /\ mode' = "hello"
    <3>1. OnTrack'
      BY <2>1, <2>5, Said DEF OnTrack
    <3> QED BY <2>1, <2>5, <3>1 DEF Answering
  <2>6. CASE pc = "idle" /\ inbox' = inbox /\ mode /= "resetting"
    <3>1. ~stale' => ~(Len(inbox) > 1)
      BY <2>2, <2>6
    <3>2. ~stale' => Len(inbox') <= 1
      BY <2>6, <3>1, Length
    <3> QED BY <2>1, <2>2, <2>6, <3>2 DEF Answering
  <2>7. CASE mode' \notin {"hello", "command"}
    BY <2>7 DEF Answering
  <2> QED BY <2>2, <2>3, <2>4, <2>5, <2>6, <2>7
<1>8. InTime'
  BY <1>1 DEF InTime, Modes, Fields, Packets, IdentifyTypes, Configured, Recovering
<1> QED BY <1>2, <1>3, <1>4, <1>5, <1>6, <1>7, <1>8

\* connect begins with the transport that identify left, or with a fresh one.
LEMMA KeepsConnect ==
  ASSUME IdentifyInv, Identify!Connect
  PROVE  IdentifyInv'
<1> USE DEF IdentifyInv, Identify!Connect, Identify!Goto, Identify!Again, Identify!Drained,
  Identify!Receive, Identify!NoAnswer, Identify!Silence, Identify!Late, Identify!Answered,
  Identify!NextField, Identify!Sahara, Identify!Xml, Identify!Off, Identify!Attach, Identify!ConnectFails,
  Identify!Understood, Identify!devVars, Identify!scratch
<1>1. inbox /= <<>> =>
        /\ Tail(inbox) \in Seq(Kinds) /\ Len(inbox) \in Nat \ {0} /\ Len(Tail(inbox)) = Len(inbox) - 1 /\ Head(inbox) = inbox[1]
        /\ DOMAIN Tail(inbox) = 1 .. Len(inbox) - 1 /\ DOMAIN inbox = 1 .. Len(inbox)
        /\ \A i \in 1 .. Len(inbox) - 1 : Tail(inbox)[i] = inbox[i + 1]
  BY Read DEF IdentifyTypes
<1>2. Packets' /\ inbox' \in Seq(Kinds)
  <2>1. (mode' = mode /\ inbox' = inbox) \/ (mode' = "hello" /\ inbox' = <<"HELLO">>)
    OBVIOUS
  <2> QED BY <2>1, PacketsRead, PacketsOneHello DEF IdentifyTypes
<1>3. IdentifyTypes'
  <2>1. late' \in Nat /\ reads' \in Nat
    BY DEF IdentifyTypes
  <2>2. mode' \in {mode, "hello"} /\ field' = field /\ got' \in {got, {}} /\ retry' = retry /\ active' \in {active, FALSE}
    OBVIOUS
  <2> QED BY <1>2, <2>1, <2>2 DEF IdentifyTypes
<1>4. Modes'
  BY <1>1 DEF Modes, Packets, IdentifyTypes, Recovering, Configured
<1>5. Fields'
  BY <1>1 DEF Fields, Modes, IdentifyTypes, Recovering
<1>6. Unread'
  BY <1>1 DEF Unread, Modes, Packets, IdentifyTypes
<1>7. Answering'
  BY <1>1 DEF Answering, Modes, Fields, Unread, Packets, IdentifyTypes, OnTrack, Recovering, Identify!Fields
<1>8. InTime'
  BY <1>1 DEF InTime, Modes, Fields, Packets, IdentifyTypes, Configured, Recovering
<1> QED BY <1>2, <1>3, <1>4, <1>5, <1>6, <1>7, <1>8

\* The program ends at any step.
LEMMA KeepsCrash ==
  ASSUME IdentifyInv, Identify!Crash
  PROVE  IdentifyInv'
<1> USE DEF IdentifyInv, Identify!Crash, Identify!Goto, Identify!Again, Identify!Drained, Identify!Receive,
  Identify!NoAnswer, Identify!Silence, Identify!Late, Identify!Answered, Identify!NextField,
  Identify!Sahara, Identify!Xml, Identify!Off, Identify!Attach, Identify!ConnectFails, Identify!Understood,
  Identify!devVars, Identify!scratch
<1>1. inbox /= <<>> =>
        /\ Tail(inbox) \in Seq(Kinds) /\ Len(inbox) \in Nat \ {0} /\ Len(Tail(inbox)) = Len(inbox) - 1 /\ Head(inbox) = inbox[1]
        /\ DOMAIN Tail(inbox) = 1 .. Len(inbox) - 1 /\ DOMAIN inbox = 1 .. Len(inbox)
        /\ \A i \in 1 .. Len(inbox) - 1 : Tail(inbox)[i] = inbox[i + 1]
  BY Read DEF IdentifyTypes
<1>2. Packets' /\ inbox' \in Seq(Kinds)
  <2>1. CASE inbox' = inbox /\ mode' = mode
    BY <2>1, PacketsRead DEF IdentifyTypes
  <2>2. CASE inbox' = <<>>
    BY <2>2, Said DEF Packets
  <2> QED BY <2>1, <2>2
<1>3. IdentifyTypes'
  BY <1>2 DEF IdentifyTypes
<1>4. Modes'
  BY <1>1 DEF Modes, Packets, IdentifyTypes, Recovering, Configured
<1>5. Fields'
  BY <1>1 DEF Fields, Modes, IdentifyTypes, Recovering
<1>6. Unread'
  BY <1>1 DEF Unread, Modes, Packets, IdentifyTypes
<1>7. Answering'
  BY <1>1 DEF Answering, Modes, Fields, Unread, Packets, IdentifyTypes, OnTrack, Recovering, Identify!Fields
<1>8. InTime'
  BY <1>1 DEF InTime, Modes, Fields, Packets, IdentifyTypes, Configured, Recovering
<1> QED BY <1>2, <1>3, <1>4, <1>5, <1>6, <1>7, <1>8

\* The device stops to answer at any step.
LEMMA KeepsHang ==
  ASSUME IdentifyInv, Identify!Hang
  PROVE  IdentifyInv'
<1> USE DEF IdentifyInv, Identify!Hang, Identify!Goto, Identify!Again, Identify!Drained, Identify!Receive,
  Identify!NoAnswer, Identify!Silence, Identify!Late, Identify!Answered, Identify!NextField,
  Identify!Sahara, Identify!Xml, Identify!Off, Identify!Attach, Identify!ConnectFails, Identify!Understood,
  Identify!devVars, Identify!scratch
<1>1. inbox /= <<>> =>
        /\ Tail(inbox) \in Seq(Kinds) /\ Len(inbox) \in Nat \ {0} /\ Len(Tail(inbox)) = Len(inbox) - 1 /\ Head(inbox) = inbox[1]
        /\ DOMAIN Tail(inbox) = 1 .. Len(inbox) - 1 /\ DOMAIN inbox = 1 .. Len(inbox)
        /\ \A i \in 1 .. Len(inbox) - 1 : Tail(inbox)[i] = inbox[i + 1]
  BY Read DEF IdentifyTypes
<1>2. Packets' /\ inbox' \in Seq(Kinds)
  BY <1>1 DEF Packets, IdentifyTypes
<1>3. IdentifyTypes'
  BY <1>2 DEF IdentifyTypes
<1>4. Modes'
  BY <1>1 DEF Modes, Packets, IdentifyTypes, Recovering, Configured
<1>5. Fields'
  BY <1>1 DEF Fields, Modes, IdentifyTypes, Recovering
<1>6. Unread'
  BY <1>1 DEF Unread, Modes, Packets, IdentifyTypes
<1>7. Answering'
  BY <1>1 DEF Answering, Modes, Fields, Unread, Packets, IdentifyTypes, OnTrack, Recovering, Identify!Fields
<1>8. InTime'
  BY <1>1 DEF InTime, Modes, Fields, Packets, IdentifyTypes, Configured, Recovering
<1> QED BY <1>2, <1>3, <1>4, <1>5, <1>6, <1>7, <1>8

\* The device is unplugged at any step.
LEMMA KeepsUnplug ==
  ASSUME IdentifyInv, Identify!Unplug
  PROVE  IdentifyInv'
<1> USE DEF IdentifyInv, Identify!Unplug, Identify!Goto, Identify!Again, Identify!Drained, Identify!Receive,
  Identify!NoAnswer, Identify!Silence, Identify!Late, Identify!Answered, Identify!NextField,
  Identify!Sahara, Identify!Xml, Identify!Off, Identify!Attach, Identify!ConnectFails, Identify!Understood,
  Identify!devVars, Identify!scratch
<1>1. inbox /= <<>> =>
        /\ Tail(inbox) \in Seq(Kinds) /\ Len(inbox) \in Nat \ {0} /\ Len(Tail(inbox)) = Len(inbox) - 1 /\ Head(inbox) = inbox[1]
        /\ DOMAIN Tail(inbox) = 1 .. Len(inbox) - 1 /\ DOMAIN inbox = 1 .. Len(inbox)
        /\ \A i \in 1 .. Len(inbox) - 1 : Tail(inbox)[i] = inbox[i + 1]
  BY Read DEF IdentifyTypes
<1>2. Packets' /\ inbox' \in Seq(Kinds)
  BY <1>1 DEF Packets, IdentifyTypes
<1>3. IdentifyTypes'
  BY <1>2 DEF IdentifyTypes
<1>4. Modes'
  BY <1>1 DEF Modes, Packets, IdentifyTypes, Recovering, Configured
<1>5. Fields'
  BY <1>1 DEF Fields, Modes, IdentifyTypes, Recovering
<1>6. Unread'
  BY <1>1 DEF Unread, Modes, Packets, IdentifyTypes
<1>7. Answering'
  BY <1>1 DEF Answering, Modes, Fields, Unread, Packets, IdentifyTypes, OnTrack, Recovering, Identify!Fields
<1>8. InTime'
  BY <1>1 DEF InTime, Modes, Fields, Packets, IdentifyTypes, Configured, Recovering
<1> QED BY <1>2, <1>3, <1>4, <1>5, <1>6, <1>7, <1>8

\* Another device is plugged in.
LEMMA KeepsPlug ==
  ASSUME IdentifyInv, Identify!Plug
  PROVE  IdentifyInv'
<1> USE DEF IdentifyInv, Identify!Plug, Identify!Goto, Identify!Again, Identify!Drained, Identify!Receive,
  Identify!NoAnswer, Identify!Silence, Identify!Late, Identify!Answered, Identify!NextField,
  Identify!Sahara, Identify!Xml, Identify!Off, Identify!Attach, Identify!ConnectFails, Identify!Understood,
  Identify!devVars, Identify!scratch
<1>1. inbox /= <<>> =>
        /\ Tail(inbox) \in Seq(Kinds) /\ Len(inbox) \in Nat \ {0} /\ Len(Tail(inbox)) = Len(inbox) - 1 /\ Head(inbox) = inbox[1]
        /\ DOMAIN Tail(inbox) = 1 .. Len(inbox) - 1 /\ DOMAIN inbox = 1 .. Len(inbox)
        /\ \A i \in 1 .. Len(inbox) - 1 : Tail(inbox)[i] = inbox[i + 1]
  BY Read DEF IdentifyTypes
<1>2. Packets' /\ inbox' \in Seq(Kinds)
  BY PacketsOneHello
<1>3. IdentifyTypes'
  BY <1>2 DEF IdentifyTypes
<1>4. Modes'
  BY <1>1 DEF Modes, Packets, IdentifyTypes, Recovering, Configured
<1>5. Fields'
  BY <1>1 DEF Fields, Modes, IdentifyTypes, Recovering
<1>6. Unread'
  BY <1>1 DEF Unread, Modes, Packets, IdentifyTypes
<1>7. Answering'
  BY <1>1 DEF Answering, Modes, Fields, Unread, Packets, IdentifyTypes, OnTrack, Recovering, Identify!Fields
<1>8. InTime'
  BY <1>1 DEF InTime, Modes, Fields, Packets, IdentifyTypes, Configured, Recovering
<1> QED BY <1>2, <1>3, <1>4, <1>5, <1>6, <1>7, <1>8

\* IdentifyInv holds in every state of identify and connect: one lemma for each of their actions,
\* and for the ends of the program and of the device.
THEOREM IdentifyInvariance == Spec => []IdentifyInv
<1>1. Init => IdentifyInv
  <2>1. ASSUME Identify!Init PROVE IdentifyInv
    <3>1. /\ mode = "hello" /\ inbox = <<"HELLO">> /\ pc = "idle" /\ retry = "no" /\ field = 1 /\ got = {}
          /\ active = FALSE /\ reads = 0 /\ late = 0
      BY <2>1 DEF Identify!Init
    <3>2. IdentifyTypes
      <4>1. inbox \in Seq(Kinds) /\ field \in 1 .. 3 /\ got \subseteq 1 .. 3 /\ reads \in Nat /\ late \in Nat
        BY <3>1, Said
      <4>2. active \in BOOLEAN
        BY <3>1
      <4> QED BY <3>1, <4>1, <4>2 DEF IdentifyTypes
    <3>3. Packets
      BY <3>1, Said DEF Packets, Identify!Xml
    <3>4. Modes /\ Fields /\ Unread /\ Answering /\ InTime
      BY <3>1 DEF Modes, Fields, Unread, Answering, InTime, Recovering, Configured
    <3> QED BY <3>2, <3>3, <3>4 DEF IdentifyInv
  <2> QED BY <2>1 DEF Init
<1>2. IdentifyInv /\ [Next]_operationVars => IdentifyInv'
  <2>1. ASSUME IdentifyInv, Identify!Next PROVE IdentifyInv'
    BY <2>1, KeepsSaharaCommand, KeepsSaharaLate, KeepsSaharaUnexpected, KeepsSaharaTimesOut,
       KeepsReopenFails, KeepsPblHackDrain,
       KeepsBlindHelloRsp, KeepsPblHackReady, KeepsPblHackSwitchMode, KeepsSaharaReset, KeepsSaharaResetRsp, KeepsNopProbe,
       KeepsNopRead, KeepsNopDrain, KeepsUploadProgrammer, KeepsResumeDrain, KeepsConfigure, KeepsConfigureResponse,
       KeepsAuthenticate, KeepsAuthDrain, KeepsReconfigureResponse, KeepsProbeLuns, KeepsIdentify, KeepsConnect, KeepsCrash,
       KeepsHang, KeepsUnplug, KeepsPlug DEF Identify!Next, Identify!Host
  <2>2. ASSUME IdentifyInv, UNCHANGED identifyVars PROVE IdentifyInv'
    BY <2>2 DEF identifyVars, IdentifyInv, IdentifyTypes, Packets, Modes, Fields, Unread, Answering, InTime,
       OnTrack, Identify!Understood
  <2> QED BY <2>1, <2>2, IdentifySteps
<1> QED BY <1>1, <1>2, PTL DEF Spec

\* What identify and connect promise of the device they leave, whatever the last program left in it
\* and whenever answers come: a Sahara device that answers in time gives all its fields and has its HELLO
\* pending for the upload, a programmer is found and nothing else is taken for one, no command reads the
\* answer to an earlier one, and no programmer that wants authentication is configured without it.
THEOREM IdentifiesExactly == Spec => []IdentifyExact
<1>1. ASSUME IdentifyInv PROVE IdentifyExact
  <2> USE <1>1 DEF IdentifyInv, Identify!Sahara, Identify!Off
  <2>1. Identify!SaharaRecovered
    BY DEF Answering, Identify!SaharaRecovered, Identify!Identified
  <2>2. Identify!HelloPending
    <3>1. SUFFICES ASSUME pc = "identified", mode \notin {"hung", "gone"}, late = 0, ~stale, got /= {}
                   PROVE  mode = "hello" /\ Head(inbox) = "HELLO"
      BY DEF Identify!HelloPending, Identify!Identified
    <3>2. mode \in {"hello", "command"}
      BY <3>1 DEF Fields, IdentifyTypes, Recovering
    <3>3. mode = "hello" /\ inbox = <<"HELLO">>
      BY <3>1, <3>2 DEF Answering
    <3> QED BY <3>3
  <2>3. Identify!FirehoseFound
    BY DEF InTime, Modes, Identify!FirehoseFound, Identify!Identified
  <2>4. Identify!InStep
    <3>1. SUFFICES ASSUME pc = "connected", late = 0 PROVE ~Identify!Contains(inbox, "RESP")
      BY DEF Identify!InStep
    <3>2. mode \in {"firehose", "gone"}
      BY <3>1 DEF Modes, Configured
    <3>3. \A i \in DOMAIN inbox : inbox[i] /= "RESP"
      <4>1. CASE mode = "gone"
        BY <4>1, Said DEF Packets
      <4>2. CASE mode = "firehose"
        BY <3>1, <4>2 DEF InTime, Configured
      <4> QED BY <3>2, <4>1, <4>2
    <3>4. DOMAIN inbox = 1 .. Len(inbox)
      BY DEF IdentifyTypes
    <3> QED BY <3>3, <3>4 DEF Identify!Contains
  <2>5. Identify!AuthenticatedFirst
    BY DEF InTime, Identify!AuthenticatedFirst, Identify!Configurable
  <2> QED BY <2>1, <2>2, <2>3, <2>4, <2>5 DEF IdentifyExact, Identify!IdentifyExact
<1> QED BY <1>1, IdentifyInvariance, PTL

------------------------------------------------------------------------------
\* The types of what the invariant above leaves open: a Firehose device runs one of the programmers, and no
\* loop reads more often, and no identify meets more late answers, than the code and the bound let it.
HostTypes ==
  /\ prog \in Programmers \union {Identify!NoProgrammer} /\ authed \in BOOLEAN
  /\ mode = "firehose" => prog \in Programmers
  /\ pc \in Identify!PCs /\ backend \in Backends /\ stale \in BOOLEAN /\ reads \in 0 .. 4
  /\ cfg \in {"ufs", "emmc"} /\ info \in {"ufs", "emmc", Identify!NoInfo} /\ late \in 0 .. MaxLate

\* Reading leaves the device's programmer and counts a late answer while there is room for one.
LEMMA ListeningCounts ==
  ASSUME HostTypes, Identify!Receive \/ Identify!NoAnswer
  PROVE  late' \in 0 .. MaxLate
<1>1. MaxLate \in Nat
  BY IdentifyConstants DEF Identify!IdentifyAssumption
<1> QED BY <1>1 DEF HostTypes, Identify!Receive, Identify!NoAnswer, Identify!Silence, Identify!Late

\* A configuration comes from a programmer that is there: one that answers is one of the programmers.
LEMMA ConfigTyped ==
  ASSUME IdentifyInv, HostTypes, pc \in {"response", "retried"}, Identify!Receive
  PROVE  Identify!Other(cfg) \in {"ufs", "emmc"} /\ prog.storage \in {"ufs", "emmc"}
<1>1. inbox /= <<>>
  BY DEF Identify!Receive
<1>2. mode = "firehose"
  BY <1>1 DEF IdentifyInv, Modes, Packets
<1>3. prog \in Programmers
  BY <1>2 DEF HostTypes
<1>4. prog.storage \in {"ufs", "emmc"}
  BY <1>3, IdentifyConstants DEF Identify!IdentifyAssumption
<1> QED BY <1>4 DEF HostTypes, Identify!Other

\* HostTypes holds with IdentifyInv.
LEMMA HostTypesInvariance == Spec => []HostTypes
<1>1. Init => HostTypes
  <2>1. ASSUME Identify!Init PROVE HostTypes
    <3>1. 0 \in 0 .. MaxLate /\ 0 \in 0 .. 4
      BY IdentifyConstants DEF Identify!IdentifyAssumption
    <3> QED BY <2>1, <3>1 DEF Identify!Init, HostTypes, Identify!PCs, Identify!NoInfo
  <2> QED BY <2>1 DEF Init
<1>2. IdentifyInv /\ HostTypes /\ [Next]_operationVars => HostTypes'
  <2> SUFFICES ASSUME IdentifyInv, HostTypes, [Next]_operationVars PROVE HostTypes'
    OBVIOUS
  <2>s. Identify!Next \/ UNCHANGED identifyVars
    BY IdentifySteps
  <2>a. MaxLate \in Nat /\ \A p \in Programmers : p.storage \in {"ufs", "emmc"}
    BY IdentifyConstants DEF Identify!IdentifyAssumption
  <2>b. reads \in 0 .. 4 /\ (reads < 4 => reads + 1 \in 0 .. 4) /\ 0 \in 0 .. 4 /\ 0 \in 0 .. MaxLate
    BY <2>a DEF HostTypes
  <2>c. field \in 1 .. 3 /\ retry \in {"no", "hacked", "reset"}
    BY DEF IdentifyInv, IdentifyTypes
  <2>l. Identify!Receive \/ Identify!NoAnswer => late' \in 0 .. MaxLate
    BY ListeningCounts
  <2>1. CASE Identify!SaharaCommand
    BY <2>1, <2>a, <2>b, <2>c, <2>l
    DEF HostTypes, Identify!SaharaCommand, Identify!PCs, Identify!NextField
  <2>2. CASE Identify!SaharaLate
    BY <2>2, <2>a, <2>b, <2>c, <2>l
    DEF HostTypes, Identify!SaharaLate, Identify!PCs, Identify!NextField
  <2>3. CASE Identify!SaharaUnexpected
    BY <2>3, <2>a, <2>b, <2>c, <2>l
    DEF HostTypes, Identify!SaharaUnexpected, Identify!PCs, Identify!NextField
  <2>4. CASE Identify!SaharaTimesOut
    BY <2>4, <2>a, <2>b, <2>c, <2>l
    DEF HostTypes, Identify!SaharaTimesOut, Identify!PCs, Identify!NextField
  <2>5. CASE Identify!ReopenFails
    BY <2>5, <2>a, <2>b, <2>c, <2>l
    DEF HostTypes, Identify!ReopenFails, Identify!PCs, Identify!devVars, Identify!scratch
  <2>6. CASE Identify!PblHackDrain
    BY <2>6, <2>a, <2>b, <2>c, <2>l
    DEF HostTypes, Identify!PblHackDrain, Identify!PCs, Identify!Goto, Identify!Again
  <2>7. CASE Identify!BlindHelloRsp
    BY <2>7, <2>a, <2>b, <2>c, <2>l
    DEF HostTypes, Identify!BlindHelloRsp, Identify!PCs, Identify!Goto, Identify!Answered
  <2>8. CASE Identify!PblHackReady
    BY <2>8, <2>a, <2>b, <2>c, <2>l
    DEF HostTypes, Identify!PblHackReady, Identify!PCs, Identify!Goto
  <2>9. CASE Identify!PblHackSwitchMode
    BY <2>9, <2>a, <2>b, <2>c, <2>l
    DEF HostTypes, Identify!PblHackSwitchMode, Identify!PCs, Identify!Off, Identify!Answered
  <2>10. CASE Identify!SaharaReset
    BY <2>10, <2>a, <2>b, <2>c, <2>l
    DEF HostTypes, Identify!SaharaReset, Identify!PCs, Identify!Goto, Identify!Answered, Identify!Sahara
  <2>11. CASE Identify!SaharaResetRsp
    BY <2>11, <2>a, <2>b, <2>c, <2>l
    DEF HostTypes, Identify!SaharaResetRsp, Identify!PCs, Identify!Goto
  <2>12. CASE Identify!NopProbe
    BY <2>12, <2>a, <2>b, <2>c, <2>l
    DEF HostTypes, Identify!NopProbe, Identify!PCs, Identify!Goto, Identify!Answered, Identify!Sahara
  <2>13. CASE Identify!NopRead
    BY <2>13, <2>a, <2>b, <2>c, <2>l
    DEF HostTypes, Identify!NopRead, Identify!PCs, Identify!Goto, Identify!Again
  <2>14. CASE Identify!NopDrain
    BY <2>14, <2>a, <2>b, <2>c, <2>l
    DEF HostTypes, Identify!NopDrain, Identify!PCs, Identify!Drained
  <2>15. CASE Identify!UploadProgrammer
    BY <2>15, <2>a, <2>b, <2>c, <2>l
    DEF HostTypes, Identify!UploadProgrammer, Identify!PCs, Identify!ConnectFails, Identify!Goto
  <2>16. CASE Identify!ResumeDrain
    BY <2>16, <2>a, <2>b, <2>c, <2>l
    DEF HostTypes, Identify!ResumeDrain, Identify!PCs, Identify!Drained, Identify!Again, Identify!Goto
  <2>17. CASE Identify!Configure
    BY <2>17, <2>a, <2>b, <2>c, <2>l
    DEF HostTypes, Identify!Configure, Identify!PCs, Identify!Goto, Identify!Answered
  <2>18. CASE Identify!ConfigureResponse
    BY <2>18, <2>a, <2>b, <2>c, <2>l, ConfigTyped
    DEF HostTypes, Identify!ConfigureResponse, Identify!PCs, Identify!devVars, Identify!ApplyConfigure
  <2>19. CASE Identify!Authenticate
    BY <2>19, <2>a, <2>b, <2>c, <2>l
    DEF HostTypes, Identify!Authenticate, Identify!PCs
  <2>20. CASE Identify!AuthDrain
    BY <2>20, <2>a, <2>b, <2>c, <2>l
    DEF HostTypes, Identify!AuthDrain, Identify!PCs, Identify!Drained, Identify!Goto
  <2>21. CASE Identify!ReconfigureResponse
    BY <2>21, <2>a, <2>b, <2>c, <2>l, ConfigTyped
    DEF HostTypes, Identify!ReconfigureResponse, Identify!PCs, Identify!devVars, Identify!ApplyConfigure
  <2>22. CASE Identify!ProbeLuns
    BY <2>22, <2>a, <2>b, <2>c, <2>l
    DEF HostTypes, Identify!ProbeLuns, Identify!PCs, Identify!devVars, Identify!scratch
  <2>23. CASE Identify!Identify
    BY <2>23, <2>a, <2>b, <2>c, <2>l
    DEF HostTypes, Identify!Identify, Identify!PCs, Identify!Attach, Identify!NoInfo
  <2>24. CASE Identify!Connect
    BY <2>24, <2>a, <2>b, <2>c, <2>l
    DEF HostTypes, Identify!Connect, Identify!PCs, Identify!Attach, Identify!NoInfo
  <2>25. CASE Identify!Crash
    BY <2>25, <2>a, <2>b, <2>c, <2>l
    DEF HostTypes, Identify!Crash, Identify!PCs, Identify!Goto
  <2>26. CASE Identify!Hang
    BY <2>26, <2>a, <2>b, <2>c, <2>l
    DEF HostTypes, Identify!Hang, Identify!PCs, Identify!Sahara, Identify!scratch
  <2>27. CASE Identify!Unplug
    BY <2>27, <2>a, <2>b, <2>c, <2>l
    DEF HostTypes, Identify!Unplug, Identify!PCs, Identify!scratch
  <2>28. CASE Identify!Plug
    BY <2>28, <2>a, <2>b, <2>c, <2>l
    DEF HostTypes, Identify!Plug, Identify!PCs, Identify!scratch
  <2>z. CASE UNCHANGED identifyVars
    BY <2>z DEF identifyVars, HostTypes
  <2> QED BY <2>s, <2>1, <2>2, <2>3, <2>4, <2>5, <2>6, <2>7, <2>8, <2>9, <2>10, <2>11, <2>12, <2>13, <2>14, <2>15, <2>16, <2>17, <2>18, <2>19, <2>20, <2>21, <2>22, <2>23, <2>24, <2>25, <2>26, <2>27, <2>28, <2>z DEF Identify!Next, Identify!Host
<1> QED BY <1>1, <1>2, IdentifyInvariance, PTL DEF Spec

\* Every variable of identify and connect keeps its type.
THEOREM IdentifyTypesKept == Spec => []Identify!IdentifyTypeOK
<1>1. IdentifyInv /\ HostTypes => Identify!IdentifyTypeOK
  <2>1. Kinds = {"HELLO", "READY", "RESET", "ERR"} \union Identify!Xml
    BY DEF Kinds, Identify!Xml
  <2> QED BY <2>1 DEF IdentifyInv, IdentifyTypes, HostTypes, Identify!IdentifyTypeOK, Identify!Sahara, Identify!Off, Identify!Fields
<1> QED BY <1>1, IdentifyInvariance, HostTypesInvariance, PTL

==============================================================================
