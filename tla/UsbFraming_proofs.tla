---------------------------- MODULE UsbFraming_proofs ----------------------------
(***************************************************************************)
(* Proofs about UsbFraming, for every length and every bound: its type     *)
(* invariant, the integrity of what is returned, what a timeout can lose,  *)
(* getting back in step, and the implementation of MessagePipe.            *)
(*                                                                         *)
(* The argument.  The endpoint holds a stretch of the bytes the device     *)
(* sends, in order and without a gap, cut at header or message boundaries  *)
(* except where a payload read was cut short; so it is at one byte, Here,  *)
(* of one message.  Either the reader holds exactly the beginning of that  *)
(* message, or it is out of step and holds at most the end of the payload  *)
(* before it.  A byte string that starts anywhere but at byte 1 fails the  *)
(* magic test, so out of step nothing is returned, and one bad magic later *)
(* the endpoint is at a header again.                                      *)
(***************************************************************************)
EXTENDS UsbFraming, SequenceTheorems, TLAPS

(* Stretches of the bytes of one message.                                  *)

\* One byte: its message and its number in it.
Byte == [m : Nat, k : Nat]

\* A stretch of bytes: its length, its elements, and its two ends.
LEMMA BytesAre ==
  ASSUME NEW m \in Nat, NEW a \in Nat \ {0}, NEW b \in Nat, a <= b
  PROVE  /\ Bytes(m, a, b) \in Seq(Byte) /\ Bytes(m, a, b) /= <<>>
         /\ Len(Bytes(m, a, b)) = b - a + 1
         /\ \A i \in 1..(b - a + 1) : Bytes(m, a, b)[i] = [m |-> m, k |-> a + i - 1]
<1> DEFINE n == b - a + 1
<1>1. n \in Nat /\ n >= 1
  OBVIOUS
<1>2. \A i \in 1..n : a + i - 1 \in Nat
  OBVIOUS
<1>3. Bytes(m, a, b) \in [1..n -> Byte]
  BY <1>2 DEF Bytes, Byte
<1>4. Bytes(m, a, b) \in Seq(Byte)
  BY <1>1, <1>3, SeqDef
<1>5. DOMAIN Bytes(m, a, b) = 1..n
  BY DEF Bytes
<1>6. Len(Bytes(m, a, b)) = n
  BY <1>1, <1>4, <1>5, LenProperties
<1>7. \A i \in 1..n : Bytes(m, a, b)[i] = [m |-> m, k |-> a + i - 1]
  BY DEF Bytes
<1>8. QED
  BY <1>1, <1>4, <1>6, <1>7

\* A sequence with the elements of a stretch is that stretch.
LEMMA BytesBy ==
  ASSUME NEW m \in Nat, NEW a \in Nat \ {0}, NEW b \in Nat, a <= b,
         NEW t \in Seq(Byte), Len(t) = b - a + 1,
         \A i \in 1..Len(t) : t[i] = [m |-> m, k |-> a + i - 1]
  PROVE  t = Bytes(m, a, b)
<1> DEFINE u == Bytes(m, a, b)
<1>1. /\ u \in Seq(Byte) /\ Len(u) = b - a + 1
      /\ \A i \in 1..(b - a + 1) : u[i] = [m |-> m, k |-> a + i - 1]
  BY BytesAre
<1> HIDE DEF u
<1>2. \A i \in 1..Len(t) : t[i] = u[i]
  BY <1>1
<1>3. t = u
  BY <1>1, <1>2, SeqEqual
<1>4. QED
  BY <1>3 DEF u

\* Two stretches of a message that meet.
LEMMA BytesJoin ==
  ASSUME NEW m \in Nat, NEW a \in Nat \ {0}, NEW b \in Nat, NEW c \in Nat, a <= b, b < c
  PROVE  Bytes(m, a, b) \o Bytes(m, b + 1, c) = Bytes(m, a, c)
<1> DEFINE s == Bytes(m, a, b)
           t == Bytes(m, b + 1, c)
<1>1. /\ s \in Seq(Byte) /\ Len(s) = b - a + 1
      /\ \A i \in 1..(b - a + 1) : s[i] = [m |-> m, k |-> a + i - 1]
  BY BytesAre
<1>2. b + 1 \in Nat \ {0} /\ b + 1 <= c
  OBVIOUS
<1>3. /\ t \in Seq(Byte) /\ Len(t) = c - (b + 1) + 1
      /\ \A i \in 1..(c - (b + 1) + 1) : t[i] = [m |-> m, k |-> b + 1 + i - 1]
  BY <1>2, BytesAre
<1> HIDE DEF s, t
<1>4. /\ s \o t \in Seq(Byte) /\ Len(s \o t) = c - a + 1
      /\ \A i \in 1..(c - a + 1) : (s \o t)[i] = IF i <= Len(s) THEN s[i] ELSE t[i - Len(s)]
  <2>1. /\ s \o t \in Seq(Byte) /\ Len(s \o t) = Len(s) + Len(t)
        /\ \A i \in 1..Len(s) + Len(t) :
             (s \o t)[i] = IF i <= Len(s) THEN s[i] ELSE t[i - Len(s)]
    BY <1>1, <1>3, ConcatProperties
  <2>2. Len(s) + Len(t) = c - a + 1
    BY <1>1, <1>3
  <2>3. QED
    BY <2>1, <2>2
<1>5. \A i \in 1..(c - a + 1) : (s \o t)[i] = [m |-> m, k |-> a + i - 1]
  <2> TAKE i \in 1..(c - a + 1)
  <2>0. i <= Len(s) \/ i > Len(s)
    BY <1>1
  <2>1. CASE i <= Len(s)
    BY <1>1, <1>4, <2>1
  <2>2. CASE i > Len(s)
    <3>1. i - Len(s) \in 1..(c - (b + 1) + 1) /\ b + 1 + (i - Len(s)) - 1 = a + i - 1
      BY <1>1, <2>2
    <3>2. QED
      BY <1>1, <1>3, <1>4, <2>2, <3>1
  <2>3. QED
    BY <2>0, <2>1, <2>2
<1>6. s \o t = Bytes(m, a, c)
  <2>1. a <= c /\ \A i \in 1..Len(s \o t) : (s \o t)[i] = [m |-> m, k |-> a + i - 1]
    BY <1>4, <1>5
  <2>2. QED
    BY <1>4, <2>1, BytesBy
<1>7. QED
  BY <1>6 DEF s, t

\* A stretch is cut after its n-th byte: its beginning and what is left.
CutAt(m, a, b, n) ==
  /\ SubSeq(Bytes(m, a, b), 1, n) = Bytes(m, a, a + n - 1)
  /\ n < b - a + 1 => SubSeq(Bytes(m, a, b), n + 1, b - a + 1) = Bytes(m, a + n, b)

\* Every stretch can be cut.
LEMMA BytesCut ==
  ASSUME NEW m \in Nat, NEW a \in Nat \ {0}, NEW b \in Nat, NEW n \in Nat \ {0}, n <= b - a + 1
  PROVE  CutAt(m, a, b, n)
<1> DEFINE t == Bytes(m, a, b)
<1>1. a <= b
  OBVIOUS
<1>2. /\ t \in Seq(Byte) /\ Len(t) = b - a + 1
      /\ \A i \in 1..(b - a + 1) : t[i] = [m |-> m, k |-> a + i - 1]
  BY <1>1, BytesAre
<1> HIDE DEF t
<1>3. \A i \in 1..(b - a + 1) : t[i] \in Byte
  BY <1>2, ElementOfSeq
<1>4. SubSeq(t, 1, n) = Bytes(m, a, a + n - 1)
  <2>1. /\ SubSeq(t, 1, n) \in Seq(Byte) /\ Len(SubSeq(t, 1, n)) = n
        /\ \A i \in 1..n : SubSeq(t, 1, n)[i] = t[i]
    <3>1. \A i \in 1..n : t[i] \in Byte
      BY <1>3
    <3>2. QED
      BY <3>1, SubSeqProperties
  <2>2. \A i \in 1..n : SubSeq(t, 1, n)[i] = [m |-> m, k |-> a + i - 1]
    BY <1>2, <2>1
  <2>3. a + n - 1 \in Nat /\ a <= a + n - 1 /\ (a + n - 1) - a + 1 = n
    OBVIOUS
  <2>4. QED
    <3> DEFINE r == SubSeq(t, 1, n)
               e == a + n - 1
    <3>1. r \in Seq(Byte) /\ Len(r) = e - a + 1 /\ e \in Nat /\ a <= e
      BY <2>1, <2>3
    <3>2. \A i \in 1..Len(r) : r[i] = [m |-> m, k |-> a + i - 1]
      BY <2>1, <2>2
    <3> HIDE DEF r, e
    <3>3. r = Bytes(m, a, e)
      BY <3>1, <3>2, BytesBy
    <3>4. QED
      BY <3>3 DEF r, e
<1>5. ASSUME n < b - a + 1 PROVE SubSeq(t, n + 1, b - a + 1) = Bytes(m, a + n, b)
  <2> DEFINE r == SubSeq(t, n + 1, b - a + 1)
  <2>1. /\ r \in Seq(Byte) /\ Len(r) = b - (a + n) + 1
        /\ \A i \in 1..(b - (a + n) + 1) : r[i] = t[n + i]
    <3>1. \A i \in (n + 1)..(b - a + 1) : t[i] \in Byte
      BY <1>3
    <3>2. (b - a + 1) - (n + 1) + 1 = b - (a + n) + 1 /\ n + 1 <= b - a + 1
      BY <1>5
    <3>3. \A i \in 1..(b - (a + n) + 1) : (n + 1) + i - 1 = n + i
      OBVIOUS
    <3>4. QED
      BY <3>1, <3>2, <3>3, SubSeqProperties
  <2>2. \A i \in 1..(b - (a + n) + 1) : r[i] = [m |-> m, k |-> (a + n) + i - 1]
    <3> TAKE i \in 1..(b - (a + n) + 1)
    <3>1. n + i \in 1..(b - a + 1) /\ a + (n + i) - 1 = (a + n) + i - 1
      OBVIOUS
    <3>2. QED
      BY <1>2, <2>1, <3>1
  <2>3. a + n \in Nat \ {0} /\ a + n <= b
    BY <1>5
  <2>4. QED
    <3> DEFINE f == a + n
    <3>1. f \in Nat \ {0} /\ f <= b /\ r \in Seq(Byte) /\ Len(r) = b - f + 1
      BY <2>1, <2>3
    <3>2. \A i \in 1..Len(r) : r[i] = [m |-> m, k |-> f + i - 1]
      BY <2>1, <2>2
    <3> HIDE DEF r, f
    <3>3. r = Bytes(m, f, b)
      BY <3>1, <3>2, BytesBy
    <3>4. QED
      BY <3>3 DEF r, f
<1>6. QED
  BY <1>4, <1>5 DEF t, CutAt

\* What is known of the ends of a stretch t.
BytesEnds(t, m, a, b) ==
  /\ t \in Seq(Byte) /\ t /= <<>> /\ Len(t) = b - a + 1 /\ 1 \in 1..Len(t)
  /\ t[1] = [m |-> m, k |-> a] /\ t[Len(t)] = [m |-> m, k |-> b]

\* The first and the last byte of a stretch.
LEMMA BytesHaveEnds ==
  ASSUME NEW m \in Nat, NEW a \in Nat \ {0}, NEW b \in Nat, a <= b, NEW t, t = Bytes(m, a, b)
  PROVE  BytesEnds(t, m, a, b)
<1>1. /\ t \in Seq(Byte) /\ t /= <<>> /\ Len(t) = b - a + 1
      /\ \A i \in 1..(b - a + 1) : t[i] = [m |-> m, k |-> a + i - 1]
  BY BytesAre
<1>2. /\ 1 \in 1..(b - a + 1) /\ a + 1 - 1 = a
      /\ b - a + 1 \in 1..(b - a + 1) /\ a + (b - a + 1) - 1 = b
  OBVIOUS
<1>3. t[1] = [m |-> m, k |-> a] /\ t[b - a + 1] = [m |-> m, k |-> b]
  BY <1>1, <1>2
<1>4. QED
  BY <1>1, <1>2, <1>3 DEF BytesEnds

------------------------------------------------------------------------------
(* The endpoint: ms are the messages sent so far, w the transfers queued.     *)

\* What the device may have sent.
MsgSeqs == Seq([len : 0..MaxPayload, defect : Defects])

\* Where message m ends.
End(ms, m) == HeaderLen + ms[m].len

\* The byte that follows b in what the device sends.
NextByte(ms, b) ==
  IF b.k = End(ms, b.m) THEN [m |-> b.m + 1, k |-> 1] ELSE [m |-> b.m, k |-> b.k + 1]

\* The first byte the device has not sent, and the first one still queued.
FirstUnsent(ms) == [m |-> Len(ms) + 1, k |-> 1]
At(ms, w) == IF w = <<>> THEN FirstUnsent(ms) ELSE w[1][1]

\* A transfer, or what is left of one: a header, alone or with its payload, or the
\* end of a payload.
Transfer(ms, t) ==
  \E m \in 1..Len(ms), f \in Nat \ {0}, e \in Nat :
    /\ t = Bytes(m, f, e) /\ f <= e
    /\ \/ f = 1 /\ e \in {HeaderLen, End(ms, m)}
       \/ f > HeaderLen /\ e = End(ms, m)

\* The byte that comes after transfer i: the first one of the next.
Following(ms, w, i) == IF i = Len(w) THEN FirstUnsent(ms) ELSE w[i + 1][1]

\* The endpoint holds everything from its first byte on, in order, without a gap.
Queue(ms, w) ==
  /\ w \in Seq(Seq(Byte))
  /\ \A i \in 1..Len(w) : Transfer(ms, w[i])
  /\ \A i \in 1..Len(w) : NextByte(ms, w[i][Len(w[i])]) = Following(ms, w, i)
  /\ \A n \in Nat : At(ms, w).m <= n /\ n <= Len(ms) => \E i \in 1..Len(w) : w[i][1].m = n

\* A message ends with its header or after it.
LEMMA EndIs ==
  ASSUME NEW ms \in MsgSeqs, NEW m \in 1..Len(ms)
  PROVE  End(ms, m) \in Nat /\ End(ms, m) >= HeaderLen /\ ms[m].len \in Nat
<1>1. ms[m] \in [len : 0..MaxPayload, defect : Defects]
  BY ElementOfSeq DEF MsgSeqs
<1>2. QED
  BY <1>1, FramingAssumption DEF End

\* A transfer is not empty, and its ends are bytes of one message.
LEMMA TransferIs ==
  ASSUME NEW ms \in MsgSeqs, NEW t, Transfer(ms, t)
  PROVE  \E m \in 1..Len(ms), f \in Nat \ {0}, e \in Nat :
           /\ t = Bytes(m, f, e) /\ f <= e /\ e <= End(ms, m)
           /\ \/ f = 1 /\ e \in {HeaderLen, End(ms, m)}
              \/ f > HeaderLen /\ e = End(ms, m)
           /\ t \in Seq(Byte) /\ t /= <<>> /\ Len(t) = e - f + 1
           /\ t[1] = [m |-> m, k |-> f] /\ t[Len(t)] = [m |-> m, k |-> e]
<1>1. PICK m \in 1..Len(ms), f \in Nat \ {0}, e \in Nat :
        /\ t = Bytes(m, f, e) /\ f <= e
        /\ \/ f = 1 /\ e \in {HeaderLen, End(ms, m)}
           \/ f > HeaderLen /\ e = End(ms, m)
  BY DEF Transfer
<1>2. e <= End(ms, m) /\ m \in Nat
  BY <1>1, EndIs, FramingAssumption
<1>3. BytesEnds(t, m, f, e)
  BY <1>1, <1>2, BytesHaveEnds
<1>4. QED
  BY <1>1, <1>2, <1>3 DEF BytesEnds

\* The endpoint's position is a byte of a message, or the first one not sent.
LEMMA AtIs ==
  ASSUME NEW ms \in MsgSeqs, NEW w, Queue(ms, w)
  PROVE  \E m \in 1..(Len(ms) + 1), f \in Nat \ {0} :
           /\ At(ms, w) = [m |-> m, k |-> f]
           /\ w /= <<>> => m <= Len(ms) /\ f <= End(ms, m)
           /\ w = <<>> => m = Len(ms) + 1
           /\ f = 1 \/ f > HeaderLen
<1>1. Len(ms) \in Nat
  BY DEF MsgSeqs
<1>2. CASE w = <<>>
  <2>1. Len(ms) + 1 \in 1..(Len(ms) + 1) /\ 1 \in Nat \ {0}
    BY <1>1
  <2>2. At(ms, w) = [m |-> Len(ms) + 1, k |-> 1]
    BY <1>2 DEF At, FirstUnsent
  <2>3. QED
    BY <1>2, <2>1, <2>2
<1>3. CASE w /= <<>>
  <2>1. 1 \in 1..Len(w)
    BY <1>3 DEF Queue
  <2>2. Transfer(ms, w[1])
    BY <2>1 DEF Queue
  <2>3. PICK m \in 1..Len(ms), f \in Nat \ {0}, e \in Nat :
          /\ w[1][1] = [m |-> m, k |-> f] /\ f <= e /\ e <= End(ms, m)
          /\ f = 1 \/ f > HeaderLen
    BY <2>2, TransferIs
  <2>4. At(ms, w) = [m |-> m, k |-> f]
    BY <1>3, <2>3 DEF At
  <2>5. End(ms, m) \in Nat /\ f <= End(ms, m) /\ m \in 1..(Len(ms) + 1)
    BY <1>1, <2>3, EndIs
  <2>6. QED
    BY <1>3, <2>3, <2>4, <2>5
<1>4. QED
  BY <1>2, <1>3

\* Taking the first transfer off the endpoint.
LEMMA QueueTail ==
  ASSUME NEW ms \in MsgSeqs, NEW w, Queue(ms, w), w /= <<>>,
         NEW m \in 1..Len(ms), NEW f \in Nat \ {0}, NEW e \in Nat, e <= End(ms, m),
         w[1][1] = [m |-> m, k |-> f], w[1][Len(w[1])] = [m |-> m, k |-> e]
  PROVE  Queue(ms, Tail(w)) /\ At(ms, Tail(w)) = NextByte(ms, [m |-> m, k |-> e])
<1> DEFINE v == Tail(w)
           b == [m |-> m, k |-> e]
<1>1. w \in Seq(Seq(Byte)) /\ 1 \in 1..Len(w) /\ Len(w) \in Nat
  BY DEF Queue
<1>2. /\ v \in Seq(Seq(Byte)) /\ Len(v) = Len(w) - 1
      /\ \A i \in 1..Len(v) : v[i] = w[i + 1] /\ i + 1 \in 1..Len(w)
  BY <1>1
<1> HIDE DEF v
<1>3. \A i \in 1..Len(v) : Following(ms, v, i) = Following(ms, w, i + 1)
  <2> TAKE i \in 1..Len(v)
  <2>1. (i + 1 = Len(w)) = (i = Len(v))
    <3>1. Len(v) = Len(w) - 1 /\ Len(w) \in Nat /\ i \in Int
      BY <1>1, <1>2
    <3>2. i + 1 = Len(w) => i = Len(v)
      BY <3>1
    <3>3. i = Len(v) => i + 1 = Len(w)
      BY <3>1
    <3>4. QED
      BY <3>2, <3>3
  <2>2. i /= Len(v) => v[i + 1] = w[(i + 1) + 1]
    BY <1>2
  <2>3. QED
    BY <2>1, <2>2 DEF Following
<1>4. At(ms, v) = Following(ms, w, 1)
  <2>1. CASE Len(w) = 1
    <3>1. v = <<>>
      BY <1>2, <2>1
    <3>2. QED
      BY <2>1, <3>1 DEF At, Following
  <2>2. CASE Len(w) /= 1
    <3>1. v /= <<>> /\ 1 \in 1..Len(v)
      BY <1>1, <1>2, <2>2
    <3>2. v[1] = w[1 + 1]
      BY <1>2, <3>1
    <3>3. QED
      BY <2>2, <3>1, <3>2 DEF At, Following
  <2>3. QED
    BY <2>1, <2>2
<1>5. At(ms, v) = NextByte(ms, b)
  BY <1>1, <1>4 DEF Queue
<1>6. ASSUME NEW n \in Nat, At(ms, v).m <= n, n <= Len(ms)
      PROVE  \E i \in 1..Len(v) : v[i][1].m = n
  <2>1. m <= n /\ At(ms, w).m = m
    <3>1. At(ms, v).m \in {m, m + 1}
      BY <1>5 DEF NextByte
    <3>2. QED
      BY <1>6, <3>1 DEF At
  <2>2. PICK i \in 1..Len(w) : w[i][1].m = n
    BY <1>6, <2>1 DEF Queue
  <2>3. CASE i /= 1
    <3>1. i - 1 \in 1..Len(v) /\ v[i - 1] = w[i]
      BY <1>1, <1>2, <2>3
    <3>2. QED
      BY <2>2, <3>1
  <2>4. CASE i = 1
    <3>1. n = m
      BY <2>2, <2>4
    <3>2. v /= <<>>
      <4>1. ASSUME v = <<>> PROVE FALSE
        <5>1. At(ms, v).m = Len(ms) + 1
          BY <4>1 DEF At, FirstUnsent
        <5>2. Len(ms) \in Nat
          BY DEF MsgSeqs
        <5>3. QED
          BY <1>6, <5>1, <5>2
      <4>2. QED
        BY <4>1
    <3>3. 1 \in 1..Len(v) /\ v[1][1].m = At(ms, v).m
      BY <1>2, <3>2 DEF At
    <3>4. At(ms, v).m = m
      <4>1. At(ms, v).m \in {m, m + 1}
        BY <1>5 DEF NextByte
      <4>2. QED
        BY <1>6, <3>1, <4>1
    <3>5. QED
      BY <3>1, <3>3, <3>4
  <2>5. QED
    BY <2>3, <2>4
<1>7. \A i \in 1..Len(v) : Transfer(ms, v[i])
  BY <1>2 DEF Queue
<1>8. \A i \in 1..Len(v) : NextByte(ms, v[i][Len(v[i])]) = Following(ms, v, i)
  BY <1>2, <1>3 DEF Queue
<1>9. Queue(ms, v)
  BY <1>2, <1>6, <1>7, <1>8 DEF Queue
<1>10. QED
  BY <1>5, <1>9 DEF v

\* Taking the beginning of the first transfer and leaving its end r.
LEMMA QueueCut ==
  ASSUME NEW ms \in MsgSeqs, NEW w, Queue(ms, w), w /= <<>>,
         NEW r \in Seq(Byte), r /= <<>>, Transfer(ms, r),
         r[1].m = w[1][1].m, r[Len(r)] = w[1][Len(w[1])]
  PROVE  Queue(ms, <<r>> \o Tail(w)) /\ At(ms, <<r>> \o Tail(w)) = r[1]
<1> DEFINE v == <<r>> \o Tail(w)
<1>1. w \in Seq(Seq(Byte)) /\ 1 \in 1..Len(w) /\ Len(w) \in Nat
  BY DEF Queue
<1>2. /\ v \in Seq(Seq(Byte)) /\ Len(v) = Len(w) /\ v /= <<>>
      /\ v[1] = r /\ \A i \in 2..Len(w) : v[i] = w[i]
  <2> DEFINE p == <<r>>
             q == Tail(w)
  <2>1. /\ q \in Seq(Seq(Byte)) /\ Len(q) = Len(w) - 1
        /\ \A i \in 1..Len(q) : q[i] = w[i + 1]
    BY <1>1
  <2>2. p \in Seq(Seq(Byte)) /\ Len(p) = 1 /\ p[1] = r
    OBVIOUS
  <2> HIDE DEF p, q
  <2>3. /\ p \o q \in Seq(Seq(Byte)) /\ Len(p \o q) = Len(p) + Len(q)
        /\ \A i \in 1..Len(p) + Len(q) :
             (p \o q)[i] = IF i <= Len(p) THEN p[i] ELSE q[i - Len(p)]
    BY <2>1, <2>2, ConcatProperties
  <2>4. Len(p \o q) = Len(w) /\ p \o q /= <<>>
    BY <1>1, <2>1, <2>2, <2>3
  <2>5. (p \o q)[1] = r
    BY <2>1, <2>2, <2>3
  <2>6. ASSUME NEW i \in 2..Len(w) PROVE (p \o q)[i] = w[i]
    <3>1. i \in 1..Len(p) + Len(q) /\ ~(i <= Len(p)) /\ i - Len(p) = i - 1
      BY <1>1, <2>1, <2>2
    <3>2. i - 1 \in 1..Len(q) /\ (i - 1) + 1 = i
      BY <1>1, <2>1
    <3>3. (p \o q)[i] = q[i - 1] /\ q[i - 1] = w[i]
      BY <2>1, <2>3, <3>1, <3>2
    <3>4. QED
      BY <3>3
  <2>7. QED
    BY <2>3, <2>4, <2>5, <2>6 DEF p, q
<1> HIDE DEF v
<1>3. At(ms, v) = r[1] /\ At(ms, v).m = At(ms, w).m
  BY <1>2 DEF At
<1>4. \A i \in 1..Len(v) : Transfer(ms, v[i])
  <2>1. \A i \in 1..Len(w) : i = 1 \/ i \in 2..Len(w)
    BY <1>1
  <2>2. QED
    BY <1>2, <2>1 DEF Queue
<1>5. \A i \in 1..Len(v) : v[i][Len(v[i])] = w[i][Len(w[i])] /\ v[i][1].m = w[i][1].m
  <2>1. \A i \in 1..Len(w) : i = 1 \/ i \in 2..Len(w)
    BY <1>1
  <2>2. QED
    BY <1>2, <2>1
<1>6. \A i \in 1..Len(v) : Following(ms, v, i) = Following(ms, w, i)
  <2> TAKE i \in 1..Len(v)
  <2>1. i /= Len(w) => i + 1 \in 2..Len(w)
    BY <1>1, <1>2
  <2>2. QED
    BY <1>2, <2>1 DEF Following
<1>7. \A i \in 1..Len(v) : NextByte(ms, v[i][Len(v[i])]) = Following(ms, v, i)
  BY <1>2, <1>5, <1>6 DEF Queue
<1>8. \A n \in Nat : At(ms, v).m <= n /\ n <= Len(ms) => \E i \in 1..Len(v) : v[i][1].m = n
  BY <1>2, <1>3, <1>5 DEF Queue
<1>9. QED
  BY <1>2, <1>3, <1>4, <1>7, <1>8 DEF Queue, v

\* What a bulk IN of capacity cap takes off the endpoint, and what it leaves.
Taken(w, cap) == SubSeq(Head(w), 1, Smaller(cap, Len(Head(w))))
Left(w, cap) ==
  IF Len(Head(w)) <= cap THEN Tail(w)
  ELSE <<SubSeq(Head(w), cap + 1, Len(Head(w)))>> \o Tail(w)

\* A bulk IN returns the next bytes of one message, all the queued transfer holds or
\* as many as were asked for, and the endpoint moves on behind them.
Takes(ms, w, cap) ==
  \E m \in 1..Len(ms), f \in Nat \ {0}, e \in Nat :
    /\ At(ms, w) = [m |-> m, k |-> f] /\ Taken(w, cap) = Bytes(m, f, e)
    /\ f <= e /\ e <= End(ms, m) /\ e - f + 1 <= cap
    /\ f = 1 \/ f > HeaderLen
    /\ f = 1 => e >= HeaderLen
    /\ e < End(ms, m) => f = 1 \/ e - f + 1 = cap
    /\ Queue(ms, Left(w, cap))
    /\ At(ms, Left(w, cap)) = NextByte(ms, [m |-> m, k |-> e])

\* Every bulk IN on a non-empty endpoint does: a header read asks for a header or more.
LEMMA TakenOff ==
  ASSUME NEW ms \in MsgSeqs, NEW w, Queue(ms, w), w /= <<>>,
         NEW cap \in Nat \ {0}, At(ms, w).k = 1 => cap >= HeaderLen
  PROVE  Takes(ms, w, cap)
<1> DEFINE t == w[1]
<1>1. w \in Seq(Seq(Byte)) /\ 1 \in 1..Len(w) /\ Head(w) = w[1]
  BY DEF Queue
<1>2. Transfer(ms, w[1])
  BY <1>1 DEF Queue
<1>3. PICK m \in 1..Len(ms), f \in Nat \ {0}, e \in Nat :
        /\ t = Bytes(m, f, e) /\ f <= e /\ e <= End(ms, m)
        /\ \/ f = 1 /\ e \in {HeaderLen, End(ms, m)}
           \/ f > HeaderLen /\ e = End(ms, m)
        /\ t \in Seq(Byte) /\ t /= <<>> /\ Len(t) = e - f + 1
        /\ t[1] = [m |-> m, k |-> f] /\ t[Len(t)] = [m |-> m, k |-> e]
  BY <1>2, TransferIs
<1>4. Head(w) = t
  BY <1>1
<1> HIDE DEF t
<1>5. m \in Nat /\ End(ms, m) \in Nat /\ End(ms, m) >= HeaderLen /\ HeaderLen \in Nat \ {0}
  BY EndIs, FramingAssumption
<1>6. At(ms, w) = [m |-> m, k |-> f]
  BY <1>3 DEF At, t
<1>7. f = 1 => cap >= HeaderLen
  BY <1>6
<1>8. CASE Len(t) <= cap
  <2>1. Smaller(cap, Len(t)) = Len(t)
    BY <1>3, <1>8 DEF Smaller
  <2>2. SubSeq(t, 1, Len(t)) = t
    <3>1. SubSeq(Bytes(m, f, e), 1, e - f + 1) = Bytes(m, f, f + (e - f + 1) - 1)
      <4>1. e - f + 1 \in Nat \ {0} /\ e - f + 1 <= e - f + 1
        BY <1>3
      <4>2. QED
        BY <1>5, <4>1, BytesCut DEF CutAt
    <3>2. f + (e - f + 1) - 1 = e
      OBVIOUS
    <3>3. QED
      BY <1>3, <3>1, <3>2
  <2>3. Taken(w, cap) = Bytes(m, f, e)
    BY <1>3, <1>4, <2>1, <2>2 DEF Taken
  <2>4. Left(w, cap) = Tail(w)
    BY <1>4, <1>8 DEF Left
  <2>5. Queue(ms, Tail(w)) /\ At(ms, Tail(w)) = NextByte(ms, [m |-> m, k |-> e])
    BY <1>3, QueueTail DEF t
  <2>6. /\ e - f + 1 <= cap
        /\ f = 1 \/ f > HeaderLen
        /\ f = 1 => e >= HeaderLen
        /\ e < End(ms, m) => f = 1 \/ e - f + 1 = cap
    BY <1>3, <1>5, <1>8
  <2>7. QED
    BY <1>3, <1>6, <2>3, <2>4, <2>5, <2>6 DEF Takes
<1>9. CASE ~(Len(t) <= cap)
  <2> DEFINE g == f + cap - 1
             r == Bytes(m, f + cap, e)
  <2>1. /\ cap < e - f + 1 /\ g \in Nat /\ f <= g /\ g < e /\ g - f + 1 = cap
        /\ f + cap \in Nat \ {0} /\ f + cap <= e /\ g + 1 = f + cap
    BY <1>3, <1>9
  <2>2. e = End(ms, m) /\ f + cap > HeaderLen /\ (f = 1 => g >= HeaderLen)
    BY <1>3, <1>5, <1>7, <2>1
  <2>3. Smaller(cap, Len(t)) = cap
    BY <1>3, <1>9 DEF Smaller
  <2>4. SubSeq(t, 1, cap) = Bytes(m, f, g) /\ SubSeq(t, cap + 1, Len(t)) = r
    <3>1. /\ SubSeq(Bytes(m, f, e), 1, cap) = Bytes(m, f, g)
          /\ SubSeq(Bytes(m, f, e), cap + 1, e - f + 1) = r
      <4>1. cap <= e - f + 1 /\ cap < e - f + 1
        BY <2>1
      <4>2. CutAt(m, f, e, cap)
        BY <1>5, <4>1, BytesCut
      <4>3. QED
        BY <4>1, <4>2 DEF CutAt
    <3>2. QED
      BY <1>3, <3>1
  <2>5. Taken(w, cap) = Bytes(m, f, g)
    BY <1>4, <2>3, <2>4 DEF Taken
  <2>6. Left(w, cap) = <<r>> \o Tail(w)
    BY <1>4, <1>9, <2>4 DEF Left
  <2>7. BytesEnds(r, m, f + cap, e)
    BY <1>5, <2>1, BytesHaveEnds
  <2>8. Transfer(ms, r)
    BY <2>1, <2>2 DEF Transfer
  <2>9. Queue(ms, <<r>> \o Tail(w)) /\ At(ms, <<r>> \o Tail(w)) = r[1]
    <3>1. /\ r \in Seq(Byte) /\ r /= <<>>
          /\ r[1].m = w[1][1].m /\ r[Len(r)] = w[1][Len(w[1])]
      BY <1>3, <2>7 DEF BytesEnds, t
    <3> HIDE DEF r
    <3>2. QED
      BY <2>8, <3>1, QueueCut
  <2>10. r[1] = NextByte(ms, [m |-> m, k |-> g])
    <3>1. r[1] = [m |-> m, k |-> f + cap]
      BY <2>7 DEF BytesEnds
    <3>2. g /= End(ms, m)
      BY <2>1, <2>2
    <3> HIDE DEF g, r
    <3>3. QED
      BY <2>1, <3>1, <3>2 DEF NextByte
  <2>11. g <= End(ms, m) /\ g - f + 1 <= cap /\ (f = 1 \/ f > HeaderLen)
    BY <1>3, <2>1, <2>2
  <2> HIDE DEF g, r
  <2>12. QED
    BY <1>6, <2>1, <2>2, <2>5, <2>6, <2>9, <2>10, <2>11 DEF Takes
<1>10. QED
  BY <1>8, <1>9

\* What is known of the messages sent when the device has sent r after ms.
Extends(ms, m2, r) ==
  /\ m2 \in MsgSeqs /\ Len(ms) \in Nat /\ Len(m2) = Len(ms) + 1 /\ m2[Len(ms) + 1] = r
  /\ \A m \in 1..Len(ms) : m2[m] = ms[m] /\ End(m2, m) = End(ms, m)
  /\ End(m2, Len(ms) + 1) = HeaderLen + r.len

\* One more message extends what was sent.
LEMMA OneMore ==
  ASSUME NEW ms \in MsgSeqs, NEW r \in [len : 0..MaxPayload, defect : Defects],
         NEW m2, m2 = Append(ms, r)
  PROVE  Extends(ms, m2, r)
<1>1. /\ m2 \in MsgSeqs /\ Len(m2) = Len(ms) + 1 /\ m2[Len(ms) + 1] = r
      /\ Len(ms) \in Nat /\ \A m \in 1..Len(ms) : m2[m] = ms[m]
  BY DEF MsgSeqs
<1>2. \A m \in 1..Len(ms) : End(m2, m) = End(ms, m)
  BY <1>1 DEF End
<1>3. End(m2, Len(ms) + 1) = HeaderLen + r.len
  BY <1>1 DEF End
<1>4. QED
  BY <1>1, <1>2, <1>3 DEF Extends

\* A transfer stays one when the device sends another message.
LEMMA StillTransfer ==
  ASSUME NEW ms \in MsgSeqs, NEW t, Transfer(ms, t), NEW m2, NEW r, Extends(ms, m2, r)
  PROVE  Transfer(m2, t)
<1>1. PICK m \in 1..Len(ms), f \in Nat \ {0}, e \in Nat :
        /\ t = Bytes(m, f, e) /\ f <= e
        /\ \/ f = 1 /\ e \in {HeaderLen, End(ms, m)}
           \/ f > HeaderLen /\ e = End(ms, m)
  BY DEF Transfer
<1>2. Len(m2) = Len(ms) + 1 /\ End(m2, m) = End(ms, m) /\ Len(ms) \in Nat
  BY DEF Extends
<1>3. m \in 1..Len(m2)
  BY <1>2
<1>4. QED
  BY <1>1, <1>2, <1>3 DEF Transfer

\* Nor does the byte that follows a transfer change.
LEMMA SameNext ==
  ASSUME NEW ms \in MsgSeqs, NEW t, Transfer(ms, t), NEW m2, NEW r, Extends(ms, m2, r)
  PROVE  NextByte(m2, t[Len(t)]) = NextByte(ms, t[Len(t)])
<1>1. PICK m \in 1..Len(ms), f \in Nat \ {0}, e \in Nat : t[Len(t)] = [m |-> m, k |-> e]
  BY TransferIs
<1>2. End(m2, m) = End(ms, m)
  BY DEF Extends
<1>3. QED
  BY <1>1, <1>2 DEF NextByte

\* us holds the message the device sends after ms.
Holds(ms, m2, us) == Queue(m2, us) /\ us /= <<>> /\ At(m2, us) = FirstUnsent(ms)

\* The endpoint holds everything up to m2 and is where it was.
Grown(ms, w, m2, w2) == Queue(m2, w2) /\ At(m2, w2) = At(ms, w)

\* A message behind what is queued: the endpoint's position is the same.
LEMMA QueueMore ==
  ASSUME NEW ms \in MsgSeqs, NEW w, Queue(ms, w),
         NEW m2, NEW r, Extends(ms, m2, r), NEW us, Holds(ms, m2, us)
  PROVE  Grown(ms, w, m2, w \o us)
<1>0. Queue(m2, us) /\ us /= <<>> /\ At(m2, us) = FirstUnsent(ms)
  BY DEF Holds
<1> DEFINE v == w \o us
<1>1. /\ m2 \in MsgSeqs /\ Len(m2) = Len(ms) + 1 /\ Len(ms) \in Nat
      /\ \A m \in 1..Len(ms) : End(m2, m) = End(ms, m)
      /\ \A t : Transfer(ms, t) => Transfer(m2, t)
  <2>1. \A t : Transfer(ms, t) => Transfer(m2, t)
    BY StillTransfer
  <2>2. QED
    BY <2>1 DEF Extends
<1>2. w \in Seq(Seq(Byte)) /\ us \in Seq(Seq(Byte)) /\ Len(w) \in Nat /\ Len(us) \in Nat \ {0}
  <2>1. w \in Seq(Seq(Byte)) /\ us \in Seq(Seq(Byte))
    BY <1>0 DEF Queue
  <2>2. \A x \in Seq(Seq(Byte)) : Len(x) \in Nat /\ (x /= <<>> => Len(x) \in Nat \ {0})
    OBVIOUS
  <2>3. QED
    BY <1>0, <2>1, <2>2, Zenon
<1>3. /\ v \in Seq(Seq(Byte)) /\ Len(v) = Len(w) + Len(us)
      /\ \A i \in 1..(Len(w) + Len(us)) : v[i] = IF i <= Len(w) THEN w[i] ELSE us[i - Len(w)]
  BY <1>2, ConcatProperties
<1> HIDE DEF v
<1>4. \A i \in 1..Len(w) : i \in 1..Len(v) /\ v[i] = w[i]
  <2> TAKE i \in 1..Len(w)
  <2>1. i \in 1..(Len(w) + Len(us)) /\ i <= Len(w)
    BY <1>2
  <2>2. QED
    BY <1>3, <2>1
<1>5. \A i \in 1..Len(us) : Len(w) + i \in 1..Len(v) /\ v[Len(w) + i] = us[i]
  <2> TAKE i \in 1..Len(us)
  <2>1. Len(w) + i \in 1..(Len(w) + Len(us)) /\ ~(Len(w) + i <= Len(w)) /\ Len(w) + i - Len(w) = i
    BY <1>2
  <2>2. QED
    BY <1>3, <2>1
<1>6. \A i \in 1..Len(v) : i \in 1..Len(w) \/ \E j \in 1..Len(us) : i = Len(w) + j
  <2> TAKE i \in 1..Len(v)
  <2>1. i \in 1..Len(w) \/ (i - Len(w) \in 1..Len(us) /\ i = Len(w) + (i - Len(w)))
    BY <1>2, <1>3
  <2>2. QED
    BY <2>1
<1>7. us[1][1] = FirstUnsent(ms) /\ 1 \in 1..Len(us)
  BY <1>0, <1>2 DEF At
<1>8. At(m2, v) = At(ms, w)
  <2>1. v /= <<>>
    BY <1>2, <1>3
  <2>2. CASE w = <<>>
    <3>1. Len(w) + 1 = 1
      BY <2>2
    <3>2. v[1] = us[1]
      BY <1>5, <1>7, <3>1
    <3>3. QED
      BY <1>7, <2>1, <2>2, <3>2 DEF At
  <2>3. CASE w /= <<>>
    <3>1. 1 \in 1..Len(w)
      BY <1>2, <2>3
    <3>2. QED
      BY <1>4, <2>1, <2>3, <3>1 DEF At
  <2>4. QED
    BY <2>2, <2>3
<1>9. ASSUME NEW i \in 1..Len(v) PROVE Transfer(m2, v[i])
  <2>1. CASE i \in 1..Len(w)
    <3>1. Transfer(ms, w[i])
      BY <2>1 DEF Queue
    <3>2. QED
      BY <1>1, <1>4, <2>1, <3>1
  <2>2. ASSUME NEW j \in 1..Len(us), i = Len(w) + j PROVE Transfer(m2, v[i])
    <3>1. Transfer(m2, us[j])
      BY <1>0 DEF Queue
    <3>2. QED
      BY <1>5, <2>2, <3>1
  <2>3. QED
    BY <1>6, <2>1, <2>2
<1>10. ASSUME NEW i \in 1..Len(v)
       PROVE  NextByte(m2, v[i][Len(v[i])]) = Following(m2, v, i)
  <2>1. CASE i \in 1..Len(w)
    <3>1. NextByte(m2, w[i][Len(w[i])]) = NextByte(ms, w[i][Len(w[i])])
      <4>1. Transfer(ms, w[i])
        BY <2>1 DEF Queue
      <4>2. QED
        BY <4>1, SameNext
    <3>2. Following(m2, v, i) = Following(ms, w, i)
      <4>1. CASE i = Len(w)
        <5>1. i /= Len(v) /\ v[i + 1] = us[1]
          BY <1>2, <1>3, <1>5, <1>7, <4>1
        <5>2. QED
          BY <1>7, <4>1, <5>1 DEF Following
      <4>2. CASE i /= Len(w)
        <5>1. i /= Len(v) /\ i + 1 \in 1..Len(w)
          BY <1>2, <1>3, <2>1, <4>2
        <5>2. v[i + 1] = w[i + 1]
          BY <1>4, <5>1
        <5>3. QED
          BY <4>2, <5>1, <5>2 DEF Following
      <4>3. QED
        BY <4>1, <4>2
    <3>3. v[i] = w[i] /\ NextByte(ms, w[i][Len(w[i])]) = Following(ms, w, i)
      BY <1>4, <2>1 DEF Queue
    <3>4. QED
      BY <3>1, <3>2, <3>3
  <2>2. ASSUME NEW j \in 1..Len(us), i = Len(w) + j
        PROVE  NextByte(m2, v[i][Len(v[i])]) = Following(m2, v, i)
    <3>1. v[i] = us[j] /\ NextByte(m2, us[j][Len(us[j])]) = Following(m2, us, j)
      BY <1>0, <1>5, <2>2 DEF Queue
    <3>2. Following(m2, v, i) = Following(m2, us, j)
      <4>1. CASE j = Len(us)
        <5>1. i = Len(v)
          BY <1>3, <2>2, <4>1
        <5>2. QED
          BY <4>1, <5>1 DEF Following
      <4>2. CASE j /= Len(us)
        <5>1. i /= Len(v) /\ j + 1 \in 1..Len(us) /\ i + 1 = Len(w) + (j + 1)
          BY <1>2, <1>3, <2>2, <4>2
        <5>2. v[i + 1] = us[j + 1]
          BY <1>5, <5>1
        <5>3. QED
          BY <4>2, <5>1, <5>2 DEF Following
      <4>3. QED
        BY <4>1, <4>2
    <3>3. QED
      BY <3>1, <3>2
  <2>3. QED
    BY <1>6, <2>1, <2>2
<1>11. ASSUME NEW n \in Nat, At(m2, v).m <= n, n <= Len(m2)
       PROVE  \E i \in 1..Len(v) : v[i][1].m = n
  <2>1. CASE n <= Len(ms)
    <3>1. PICK i \in 1..Len(w) : w[i][1].m = n
      BY <1>8, <1>11, <2>1 DEF Queue
    <3>2. QED
      BY <1>4, <3>1
  <2>2. CASE n > Len(ms)
    <3>1. n = Len(ms) + 1
      BY <1>1, <1>11, <2>2
    <3>2. us[1][1].m = n
      BY <1>7, <3>1 DEF FirstUnsent
    <3>3. QED
      BY <1>5, <1>7, <3>2
  <2>3. QED
    BY <1>1, <2>1, <2>2
<1>12. Queue(m2, v)
  BY <1>3, <1>9, <1>10, <1>11 DEF Queue
<1>13. QED
  BY <1>8, <1>12 DEF v, Grown

\* A single transfer that holds a whole message.
LEMMA HoldsOne ==
  ASSUME NEW ms \in MsgSeqs, NEW r \in [len : 0..MaxPayload, defect : Defects],
         NEW m2, Extends(ms, m2, r),
         NEW t, t = Bytes(Len(ms) + 1, 1, HeaderLen + r.len)
  PROVE  Holds(ms, m2, <<t>>)
<1> DEFINE m == Len(ms) + 1
           e == HeaderLen + r.len
           us == <<t>>
<1>1. /\ m \in 1..Len(m2) /\ m \in Nat /\ Len(m2) = m /\ e \in Nat /\ 1 <= e /\ End(m2, m) = e
  BY FramingAssumption DEF Extends
<1>2. BytesEnds(t, m, 1, e)
  <2>1. m \in Nat /\ 1 \in Nat \ {0} /\ e \in Nat /\ 1 <= e
    BY <1>1
  <2> HIDE DEF m, e
  <2>2. t = Bytes(m, 1, e)
    BY DEF m, e
  <2>3. QED
    BY <2>1, <2>2, BytesHaveEnds
<1>3. Transfer(m2, t)
  <2>1. 1 \in Nat \ {0} /\ t = Bytes(m, 1, e)
    OBVIOUS
  <2> HIDE DEF m, e
  <2>2. QED
    BY <1>1, <2>1 DEF Transfer
<1>4. us \in Seq(Seq(Byte)) /\ us /= <<>> /\ Len(us) = 1 /\ us[1] = t
  BY <1>2 DEF BytesEnds
<1>5. t[1] = FirstUnsent(ms) /\ t[Len(t)] = [m |-> m, k |-> e]
  BY <1>2 DEF BytesEnds, FirstUnsent
<1> HIDE DEF m, e, us
<1>6. NextByte(m2, t[Len(t)]) = FirstUnsent(m2)
  BY <1>1, <1>5 DEF NextByte, FirstUnsent
<1>7. \A i \in 1..Len(us) : NextByte(m2, us[i][Len(us[i])]) = Following(m2, us, i)
  <2>1. \A i \in 1..Len(us) : i = 1
    BY <1>4
  <2>2. NextByte(m2, us[1][Len(us[1])]) = Following(m2, us, 1)
    BY <1>4, <1>6 DEF Following
  <2>3. QED
    BY <2>1, <2>2
<1>8. At(m2, us) = FirstUnsent(ms)
  BY <1>4, <1>5 DEF At
<1>9. ASSUME NEW n \in Nat, At(m2, us).m <= n, n <= Len(m2)
      PROVE  \E i \in 1..Len(us) : us[i][1].m = n
  <2>1. At(m2, us).m = m /\ us[1][1].m = m
    BY <1>4, <1>5, <1>8 DEF FirstUnsent, m
  <2>2. n = m /\ 1 \in 1..Len(us)
    BY <1>1, <1>4, <1>9, <2>1
  <2>3. QED
    BY <2>1, <2>2
<1>10. \A i \in 1..Len(us) : Transfer(m2, us[i])
  <2>1. \A i \in 1..Len(us) : i = 1
    BY <1>4
  <2>2. QED
    BY <1>3, <1>4, <2>1
<1>11. Queue(m2, us)
  BY <1>4, <1>7, <1>9, <1>10 DEF Queue
<1>12. QED
  BY <1>4, <1>8, <1>11 DEF Holds, us

\* A header and its payload as two transfers.
LEMMA HoldsTwo ==
  ASSUME NEW ms \in MsgSeqs, NEW r \in [len : 0..MaxPayload, defect : Defects], r.len > 0,
         NEW m2, Extends(ms, m2, r),
         NEW h, h = Bytes(Len(ms) + 1, 1, HeaderLen),
         NEW p, p = Bytes(Len(ms) + 1, HeaderLen + 1, HeaderLen + r.len)
  PROVE  Holds(ms, m2, <<h, p>>)
<1> DEFINE m == Len(ms) + 1
           e == HeaderLen + r.len
           us == <<h, p>>
<1>1. /\ m \in 1..Len(m2) /\ m \in Nat /\ Len(m2) = m /\ e \in Nat /\ 1 <= e /\ End(m2, m) = e
      /\ HeaderLen \in Nat \ {0} /\ 1 <= HeaderLen /\ HeaderLen < e
      /\ HeaderLen + 1 \in Nat \ {0} /\ HeaderLen + 1 <= e /\ HeaderLen + 1 > HeaderLen
      /\ 1 \in Nat \ {0}
  BY FramingAssumption DEF Extends
<1>2. h = Bytes(m, 1, HeaderLen) /\ p = Bytes(m, HeaderLen + 1, e)
  OBVIOUS
<1> HIDE DEF m, e
<1>3. BytesEnds(h, m, 1, HeaderLen)
  BY <1>1, <1>2, BytesHaveEnds
<1>4. BytesEnds(p, m, HeaderLen + 1, e)
  BY <1>1, <1>2, BytesHaveEnds
<1>5. Transfer(m2, h)
  BY <1>1, <1>2 DEF Transfer
<1>6. Transfer(m2, p)
  BY <1>1, <1>2 DEF Transfer
<1>7. us \in Seq(Seq(Byte)) /\ us /= <<>> /\ Len(us) = 2 /\ us[1] = h /\ us[2] = p
  BY <1>3, <1>4 DEF BytesEnds
<1>8. /\ h[1] = FirstUnsent(ms) /\ h[Len(h)] = [m |-> m, k |-> HeaderLen]
      /\ p[1] = [m |-> m, k |-> HeaderLen + 1] /\ p[Len(p)] = [m |-> m, k |-> e]
  BY <1>3, <1>4 DEF BytesEnds, FirstUnsent, m
<1> HIDE DEF us
<1>9. \A i \in 1..Len(us) : i = 1 \/ i = 2
  BY <1>7
<1>10. \A i \in 1..Len(us) : NextByte(m2, us[i][Len(us[i])]) = Following(m2, us, i)
  <2>1. NextByte(m2, h[Len(h)]) = Following(m2, us, 1)
    <3>1. Following(m2, us, 1) = us[2][1]
      BY <1>7 DEF Following
    <3>2. NextByte(m2, [m |-> m, k |-> HeaderLen]) = [m |-> m, k |-> HeaderLen + 1]
      BY <1>1 DEF NextByte
    <3>3. QED
      BY <1>7, <1>8, <3>1, <3>2
  <2>2. NextByte(m2, p[Len(p)]) = Following(m2, us, 2)
    BY <1>1, <1>7, <1>8 DEF Following, NextByte, FirstUnsent
  <2>3. QED
    BY <1>7, <1>9, <2>1, <2>2
<1>11. At(m2, us) = FirstUnsent(ms)
  BY <1>7, <1>8 DEF At
<1>12. ASSUME NEW n \in Nat, At(m2, us).m <= n, n <= Len(m2)
       PROVE  \E i \in 1..Len(us) : us[i][1].m = n
  <2>1. At(m2, us).m = m /\ us[1][1].m = m
    BY <1>7, <1>8, <1>11 DEF FirstUnsent, m
  <2>2. n = m /\ 1 \in 1..Len(us)
    BY <1>1, <1>7, <1>12, <2>1
  <2>3. QED
    BY <2>1, <2>2
<1>13. \A i \in 1..Len(us) : Transfer(m2, us[i])
  BY <1>5, <1>6, <1>7, <1>9
<1>14. Queue(m2, us)
  BY <1>7, <1>10, <1>12, <1>13 DEF Queue
<1>15. QED
  BY <1>7, <1>11, <1>14 DEF Holds, us

\* However the device queues a message, the endpoint holds everything, and its
\* position is what it was.
LEMMA QueueSent ==
  ASSUME NEW ms \in MsgSeqs, NEW r \in [len : 0..MaxPayload, defect : Defects],
         NEW m2, m2 = Append(ms, r), NEW w, Queue(ms, w),
         NEW h, h = Bytes(Len(ms) + 1, 1, HeaderLen),
         NEW p, p = Bytes(Len(ms) + 1, HeaderLen + 1, HeaderLen + r.len),
         NEW w2, \/ w2 = w \o (IF r.len = 0 THEN <<h>> ELSE <<h, p>>)
                 \/ r.len > 0 /\ w2 = Append(w, h \o p)
  PROVE  Grown(ms, w, m2, w2)
<1>1. Extends(ms, m2, r) /\ r.len \in Nat /\ Len(ms) \in Nat
  <2>1. Extends(ms, m2, r)
    BY OneMore
  <2>2. QED
    BY <2>1 DEF Extends
<1>2. ASSUME NEW us, Holds(ms, m2, us), w2 = w \o us
      PROVE  Grown(ms, w, m2, w2)
  BY <1>1, <1>2, QueueMore
<1>3. CASE w2 = w \o (IF r.len = 0 THEN <<h>> ELSE <<h, p>>)
  <2>1. CASE r.len = 0
    <3>1. HeaderLen + r.len = HeaderLen
      BY <2>1, FramingAssumption
    <3>2. Holds(ms, m2, <<h>>)
      BY <1>1, <3>1, HoldsOne
    <3>3. QED
      BY <1>2, <1>3, <2>1, <3>2
  <2>2. CASE r.len /= 0
    <3>1. Holds(ms, m2, <<h, p>>)
      BY <1>1, <2>2, HoldsTwo
    <3>2. QED
      BY <1>2, <1>3, <2>2, <3>1
  <2>3. QED
    BY <2>1, <2>2
<1>4. CASE r.len > 0 /\ w2 = Append(w, h \o p)
  <2>1. h \o p = Bytes(Len(ms) + 1, 1, HeaderLen + r.len)
    <3>1. /\ Len(ms) + 1 \in Nat /\ 1 \in Nat \ {0} /\ HeaderLen \in Nat
          /\ HeaderLen + r.len \in Nat /\ 1 <= HeaderLen /\ HeaderLen < HeaderLen + r.len
      BY <1>1, <1>4, FramingAssumption
    <3>2. QED
      BY <3>1, BytesJoin
  <2>2. Holds(ms, m2, <<h \o p>>)
    BY <1>1, <2>1, HoldsOne
  <2>3. w2 = w \o <<h \o p>>
    <3>1. w \in Seq(Seq(Byte)) /\ h \o p \in Seq(Byte)
      BY <2>2 DEF Queue, Holds
    <3>2. QED
      BY <1>4, <3>1, AppendIsConcat
  <2>4. QED
    BY <1>2, <2>2, <2>3
<1>5. QED
  BY <1>3, <1>4

------------------------------------------------------------------------------
(* The invariant.                                                            *)

\* The first byte the endpoint still holds.
Here == At(msgs, wire)

\* What usb_read_message holds: while it waits for a payload, the message up to the
\* endpoint's position; while it waits for a header, nothing or the end of a payload,
\* shorter than a header.
HeldInv ==
  /\ buf \in Seq(Byte)
  /\ pc \in {"payload", "inPayload"} =>
       Here.k > HeaderLen /\ buf = Bytes(Here.m, 1, Here.k - 1)
  /\ pc \in {"header", "inHeader"} /\ buf /= <<>> =>
       \E m \in 1..Len(msgs), f \in Nat \ {0} :
         /\ f > HeaderLen /\ f <= End(msgs, m) /\ End(msgs, m) - f + 1 < HeaderLen
         /\ buf = Bytes(m, f, End(msgs, m)) /\ Here = [m |-> m + 1, k |-> 1]

\* What was returned: whole messages, each newer than the one before, and none that
\* the endpoint still holds.
RoutedInv ==
  /\ routed \in Seq(Seq(Byte))
  /\ \A i \in 1..Len(routed) :
       /\ routed[i][1].m \in 1..(Here.m - 1)
       /\ routed[i] = Bytes(routed[i][1].m, 1, End(msgs, routed[i][1].m))
  /\ \A i, j \in 1..Len(routed) : i < j => routed[i][1].m < routed[j][1].m

\* As long as nothing was lost the reader is in step with the device.
InStep ==
  lost = {} /\ pc /= "stopped" =>
    /\ pc \in {"loop", "header", "inHeader"} => Here.k = 1
    /\ pc \in {"header", "inHeader"} => buf = <<>>
    /\ \A m \in 1..(Here.m - 1) : m \in RoutedIds

\* Of two messages without payload taken off the endpoint the second was returned.
Resynced ==
  pc /= "stopped" =>
    \A m \in 2..(Here.m - 1) : msgs[m - 1].len = 0 /\ msgs[m].len = 0 => m \in RoutedIds

\* The inductive invariant.
ReceiveInv ==
  /\ TypeOK /\ Queue(msgs, wire)
  /\ HeldInv /\ RoutedInv /\ InStep /\ Resynced

\* The endpoint's position, as a message and a byte of it.
LEMMA HereIs ==
  ASSUME msgs \in MsgSeqs, Queue(msgs, wire)
  PROVE  \E m \in 1..(Len(msgs) + 1), f \in Nat \ {0} :
           /\ Here = [m |-> m, k |-> f] /\ Here.m = m /\ Here.k = f
           /\ m \in Nat /\ Len(msgs) \in Nat
           /\ wire /= <<>> => m \in 1..Len(msgs) /\ f <= End(msgs, m)
           /\ wire = <<>> => m = Len(msgs) + 1 /\ f = 1
           /\ f = 1 \/ f > HeaderLen
<1>1. PICK m \in 1..(Len(msgs) + 1), f \in Nat \ {0} :
        /\ At(msgs, wire) = [m |-> m, k |-> f]
        /\ wire /= <<>> => m <= Len(msgs) /\ f <= End(msgs, m)
        /\ wire = <<>> => m = Len(msgs) + 1
        /\ f = 1 \/ f > HeaderLen
  BY AtIs
<1>2. Len(msgs) \in Nat
  BY DEF MsgSeqs
<1>3. wire = <<>> => f = 1
  BY <1>1 DEF At, FirstUnsent
<1>4. QED
  BY <1>1, <1>2, <1>3 DEF Here

\* The messages of a stretch.
LEMMA BytesOfOne ==
  ASSUME NEW m \in Nat, NEW a \in Nat \ {0}, NEW b \in Nat, a <= b
  PROVE  MessagesIn(Bytes(m, a, b)) = {m}
<1> DEFINE t == Bytes(m, a, b)
<1>1. /\ t \in Seq(Byte) /\ Len(t) = b - a + 1
      /\ \A i \in 1..(b - a + 1) : t[i] = [m |-> m, k |-> a + i - 1]
  BY BytesAre
<1> HIDE DEF t
<1>2. DOMAIN t = 1..(b - a + 1) /\ 1 \in 1..(b - a + 1)
  BY <1>1
<1>3. \A i \in DOMAIN t : t[i].m = m
  BY <1>1, <1>2
<1>4. MessagesIn(t) = {m}
  <2>1. \A x \in MessagesIn(t) : x = m
    BY <1>3 DEF MessagesIn
  <2>2. t[1].m \in MessagesIn(t)
    BY <1>2 DEF MessagesIn
  <2>3. QED
    BY <2>1, <2>2
<1>5. QED
  BY <1>4 DEF t

\* The invariant holds at the start.
LEMMA StartReceives == Init => ReceiveInv
<1> SUFFICES ASSUME Init PROVE ReceiveInv
  OBVIOUS
<1>1. msgs = <<>> /\ wire = <<>> /\ buf = <<>> /\ routed = <<>> /\ lost = {} /\ pc = "loop"
  BY DEF Init
<1>2. TypeOK
  <2>1. msgs \in Seq([len : 0..MaxPayload, defect : Defects]) /\ Len(msgs) = 0 /\ Len(buf) = 0
    BY <1>1
  <2>2. Len(msgs) <= MaxMsgs /\ Len(buf) <= HeaderLen + Larger(HeaderCap, MaxPayload)
    BY <2>1, FramingAssumption DEF Larger
  <2>3. expired \in BOOLEAN /\ shutdown \in BOOLEAN /\ plugged \in BOOLEAN
    BY DEF Init
  <2>4. QED
    BY <1>1, <2>1, <2>2, <2>3 DEF TypeOK
<1>3. Here = [m |-> 1, k |-> 1] /\ Here.m = 1 /\ Here.k = 1
  BY <1>1 DEF Here, At, FirstUnsent
<1>4. Queue(msgs, wire)
  <2>1. /\ wire \in Seq(Seq(Byte)) /\ Len(wire) = 0 /\ Len(msgs) = 0
    BY <1>1
  <2>2. \A n \in Nat : ~(At(msgs, wire).m <= n /\ n <= Len(msgs))
    BY <1>3, <2>1 DEF Here
  <2>3. \A i \in 1..Len(wire) : FALSE
    BY <2>1
  <2>4. QED
    BY <2>1, <2>2, <2>3 DEF Queue
<1>5. HeldInv
  BY <1>1 DEF HeldInv
<1>6. RoutedInv
  <2>1. routed \in Seq(Seq(Byte)) /\ \A i \in 1..Len(routed) : FALSE
    BY <1>1
  <2>2. QED
    BY <2>1 DEF RoutedInv
<1>7. InStep /\ Resynced
  BY <1>1, <1>3 DEF InStep, Resynced
<1>8. QED
  BY <1>2, <1>4, <1>5, <1>6, <1>7 DEF ReceiveInv

\* A step that leaves the endpoint and what was returned alone keeps the invariant
\* when it keeps the parts about the reader.
LEMMA ReaderOnly ==
  ASSUME ReceiveInv, UNCHANGED <<msgs, wire, routed>>,
         TypeOK', HeldInv', InStep', pc = "stopped" => pc' = "stopped"
  PROVE  ReceiveInv'
<1>1. Here' = Here
  BY DEF Here, At, FirstUnsent
<1>2. Queue(msgs, wire)'
  BY DEF ReceiveInv
<1>3. RoutedInv'
  BY <1>1 DEF ReceiveInv, RoutedInv, End
<1>4. RoutedIds' = RoutedIds
  BY DEF RoutedIds
<1>5. Resynced'
  BY <1>1, <1>4 DEF ReceiveInv, Resynced
<1>6. QED
  BY <1>2, <1>3, <1>5 DEF ReceiveInv

\* Nor does a step that only moves pc within a phase, or the flags.
LEMMA SamePhase ==
  ASSUME ReceiveInv, UNCHANGED <<msgs, wire, routed, buf, lost>>, TypeOK',
         \/ pc' = pc
         \/ pc = "header" /\ pc' = "inHeader"
         \/ pc = "payload" /\ pc' = "inPayload"
         \/ pc' = "stopped"
  PROVE  ReceiveInv'
<1>1. Here' = Here /\ RoutedIds' = RoutedIds
  BY DEF Here, At, FirstUnsent, RoutedIds
<1>2. HeldInv'
  BY <1>1 DEF ReceiveInv, HeldInv, End
<1>3. InStep'
  BY <1>1 DEF ReceiveInv, InStep
<1>4. pc = "stopped" => pc' = "stopped"
  OBVIOUS
<1>5. QED
  BY <1>2, <1>3, <1>4, ReaderOnly

------------------------------------------------------------------------------
(* Each action keeps the invariant.                                          *)

\* Another thread or the bus moves: what the reader holds is the same.
LEMMA OutsideKeeps == ReceiveInv /\ (Unplug \/ Shutdown \/ DeadlinePasses) => ReceiveInv'
<1> SUFFICES ASSUME ReceiveInv, Unplug \/ Shutdown \/ DeadlinePasses PROVE ReceiveInv'
  OBVIOUS
<1>1. UNCHANGED <<msgs, wire, routed, buf, lost, pc>>
  BY DEF Unplug, Shutdown, DeadlinePasses, readerVars, wireVars
<1>2. expired' \in BOOLEAN /\ shutdown' \in BOOLEAN /\ plugged' \in BOOLEAN
  BY DEF Unplug, Shutdown, DeadlinePasses, readerVars, wireVars, ReceiveInv, TypeOK
<1>3. TypeOK'
  BY <1>1, <1>2 DEF ReceiveInv, TypeOK
<1>4. QED
  BY <1>1, <1>3, SamePhase

\* The reader enters usb_read_message with an empty buffer.
LEMMA LoopKeeps == ReceiveInv /\ LoopTop => ReceiveInv'
<1> SUFFICES ASSUME ReceiveInv, LoopTop PROVE ReceiveInv'
  OBVIOUS
<1>1. UNCHANGED <<msgs, wire, routed, lost, shutdown, plugged>> /\ pc = "loop"
  BY DEF LoopTop, wireVars
<1>2. CASE shutdown
  <2>1. pc' = "stopped" /\ UNCHANGED <<buf, expired>>
    BY <1>2 DEF LoopTop
  <2>2. TypeOK'
    BY <1>1, <2>1 DEF ReceiveInv, TypeOK
  <2>3. QED
    BY <1>1, <2>1, <2>2, SamePhase
<1>3. CASE ~shutdown
  <2>1. pc' = "header" /\ buf' = <<>> /\ expired' = FALSE
    BY <1>3 DEF LoopTop
  <2>2. TypeOK'
    <3>1. Len(buf') <= HeaderLen + Larger(HeaderCap, MaxPayload)
      BY <2>1, FramingAssumption DEF Larger
    <3>2. QED
      BY <1>1, <2>1, <3>1 DEF ReceiveInv, TypeOK
  <2>3. HeldInv'
    BY <2>1 DEF HeldInv
  <2>4. InStep'
    <3>1. Here' = Here /\ RoutedIds' = RoutedIds
      BY <1>1 DEF Here, At, FirstUnsent, RoutedIds
    <3>2. QED
      BY <1>1, <2>1, <3>1 DEF ReceiveInv, InStep
  <2>5. QED
    BY <1>1, <2>1, <2>2, <2>3, <2>4, ReaderOnly
<1>4. QED
  BY <1>2, <1>3

\* What the reader has in hand while it reads belongs to a message of the device,
\* and a payload phase has something in hand.
LEMMA HeldBytes ==
  ASSUME ReceiveInv, pc \in {"header", "inHeader", "payload", "inPayload"}
  PROVE  /\ MessagesIn(buf) \subseteq 1..Len(msgs)
         /\ pc \in {"payload", "inPayload"} => MessagesIn(buf) /= {}
         /\ buf /= <<>> => MessagesIn(buf) /= {}
<1>1. msgs \in MsgSeqs /\ Queue(msgs, wire) /\ HeldInv /\ HeaderLen \in Nat \ {0}
  BY FramingAssumption DEF ReceiveInv, TypeOK, MsgSeqs
<1>2. CASE pc \in {"payload", "inPayload"}
  <2>1. Here.k > HeaderLen /\ buf = Bytes(Here.m, 1, Here.k - 1)
    BY <1>1, <1>2 DEF HeldInv
  <2>2. PICK m \in 1..(Len(msgs) + 1), f \in Nat \ {0} :
          /\ Here.m = m /\ Here.k = f /\ m \in Nat
          /\ wire /= <<>> => m \in 1..Len(msgs)
          /\ wire = <<>> => f = 1
    BY <1>1, HereIs
  <2>3. m \in 1..Len(msgs) /\ f - 1 \in Nat /\ 1 <= f - 1 /\ 1 \in Nat \ {0}
    BY <1>1, <2>1, <2>2
  <2>4. MessagesIn(Bytes(m, 1, f - 1)) = {m}
    BY <2>2, <2>3, BytesOfOne
  <2>5. QED
    BY <2>1, <2>2, <2>3, <2>4
<1>3. CASE pc \in {"header", "inHeader"} /\ buf /= <<>>
  <2>1. PICK m \in 1..Len(msgs), f \in Nat \ {0} :
          f <= End(msgs, m) /\ buf = Bytes(m, f, End(msgs, m))
    BY <1>1, <1>3 DEF HeldInv
  <2>2. End(msgs, m) \in Nat /\ m \in Nat
    BY <1>1, EndIs
  <2>3. MessagesIn(buf) = {m}
    BY <2>1, <2>2, BytesOfOne
  <2>4. QED
    BY <1>3, <2>3
<1>4. CASE buf = <<>>
  <2>1. DOMAIN buf = {}
    BY <1>4
  <2>2. MessagesIn(buf) = {}
    BY <2>1 DEF MessagesIn
  <2>3. QED
    BY <1>2, <1>4, <2>2
<1>5. QED
  BY <1>2, <1>3, <1>4

\* Going on to the transfer, or giving the read up.
LEMMA CheckKeeps == ReceiveInv /\ (CheckHeaderDeadline \/ CheckPayloadDeadline) => ReceiveInv'
<1> SUFFICES ASSUME ReceiveInv, CheckHeaderDeadline \/ CheckPayloadDeadline PROVE ReceiveInv'
  OBVIOUS
<1>1. UNCHANGED <<msgs, wire, routed, buf, expired, shutdown, plugged>> /\ pc \in {"header", "payload"}
  BY DEF CheckHeaderDeadline, CheckPayloadDeadline, CheckDeadline, GiveUp, wireVars
<1>2. CASE ~expired
  <2>1. /\ lost' = lost
        /\ \/ pc = "header" /\ pc' = "inHeader"
           \/ pc = "payload" /\ pc' = "inPayload"
    BY <1>2 DEF CheckHeaderDeadline, CheckPayloadDeadline, CheckDeadline, wireVars
  <2>2. TypeOK'
    BY <1>1, <2>1 DEF ReceiveInv, TypeOK
  <2>3. QED
    BY <1>1, <2>1, <2>2, SamePhase
<1>3. CASE expired
  <2>1. pc' = "loop" /\ lost' = lost \cup MessagesIn(buf)
    BY <1>3 DEF CheckHeaderDeadline, CheckPayloadDeadline, CheckDeadline, GiveUp
  <2>2. /\ MessagesIn(buf) \subseteq 1..Len(msgs)
        /\ pc = "payload" => MessagesIn(buf) /= {}
        /\ buf /= <<>> => MessagesIn(buf) /= {}
    BY <1>1, HeldBytes
  <2>3. TypeOK'
    BY <1>1, <2>1, <2>2 DEF ReceiveInv, TypeOK
  <2>4. HeldInv'
    BY <1>1, <2>1 DEF ReceiveInv, HeldInv
  <2>5. InStep'
    <3>1. Here' = Here /\ RoutedIds' = RoutedIds
      BY <1>1 DEF Here, At, FirstUnsent, RoutedIds
    <3>2. lost' = {} => lost = {} /\ pc = "header"
      BY <1>1, <2>1, <2>2
    <3>3. QED
      BY <2>1, <3>1, <3>2 DEF ReceiveInv, InStep
  <2>6. QED
    BY <1>1, <2>1, <2>3, <2>4, <2>5, ReaderOnly
<1>4. QED
  BY <1>2, <1>3

\* The transfer fails and the reader ends.
LEMMA FailKeeps == ReceiveInv /\ TransferFails => ReceiveInv'
<1> SUFFICES ASSUME ReceiveInv, TransferFails PROVE ReceiveInv'
  OBVIOUS
<1>1. UNCHANGED <<msgs, wire, routed, buf, lost, expired, plugged>> /\ pc' = "stopped" /\ shutdown' = TRUE
  BY DEF TransferFails, Stop, wireVars
<1>2. TypeOK'
  BY <1>1 DEF ReceiveInv, TypeOK
<1>3. QED
  BY <1>1, <1>2, SamePhase

\* The device sends: nothing the reader has or has returned is affected.
LEMMA SendKeeps == ReceiveInv /\ DeviceSend => ReceiveInv'
<1> SUFFICES ASSUME ReceiveInv, DeviceSend PROVE ReceiveInv'
  OBVIOUS
<1>1. UNCHANGED <<pc, buf, expired, shutdown, plugged, routed, lost>> /\ Len(msgs) < MaxMsgs
  BY DEF DeviceSend, readerVars
<1>2. msgs \in MsgSeqs /\ Queue(msgs, wire)
  BY DEF ReceiveInv, TypeOK, MsgSeqs
<1>3. PICK n \in 0..MaxPayload, d \in Defects :
        LET h == Bytes(Len(msgs) + 1, 1, HeaderLen)
            p == Bytes(Len(msgs) + 1, HeaderLen + 1, HeaderLen + n)
        IN /\ msgs' = Append(msgs, [len |-> n, defect |-> d])
           /\ \/ wire' = wire \o (IF n = 0 THEN <<h>> ELSE <<h, p>>)
              \/ n > 0 /\ wire' = Append(wire, h \o p)
  BY DEF DeviceSend
<1>4. PICK r \in [len : 0..MaxPayload, defect : Defects] : r.len = n /\ msgs' = Append(msgs, r)
  <2>1. [len |-> n, defect |-> d] \in [len : 0..MaxPayload, defect : Defects]
    OBVIOUS
  <2>2. QED
    BY <1>3, <2>1
<1>5. Grown(msgs, wire, msgs', wire')
  <2>1. PICK h : h = Bytes(Len(msgs) + 1, 1, HeaderLen)
    OBVIOUS
  <2>2. PICK p : p = Bytes(Len(msgs) + 1, HeaderLen + 1, HeaderLen + r.len)
    OBVIOUS
  <2>3. \/ wire' = wire \o (IF r.len = 0 THEN <<h>> ELSE <<h, p>>)
        \/ r.len > 0 /\ wire' = Append(wire, h \o p)
    BY <1>3, <1>4, <2>1, <2>2
  <2>4. QED
    BY <1>2, <1>4, <2>1, <2>2, <2>3, QueueSent
<1>6. Extends(msgs, msgs', r)
  BY <1>2, <1>4, OneMore
<1>7. Here' = Here /\ Queue(msgs', wire')
  BY <1>5 DEF Grown, Here
<1>8. /\ msgs' \in MsgSeqs /\ Len(msgs) \in Nat /\ Len(msgs') = Len(msgs) + 1
      /\ \A m \in 1..Len(msgs) : msgs'[m] = msgs[m] /\ End(msgs', m) = End(msgs, m)
  BY <1>6 DEF Extends
<1>9. Here.m \in 1..(Len(msgs) + 1)
  BY <1>2, HereIs
<1>10. RoutedIds' = RoutedIds
  BY <1>1 DEF RoutedIds
<1>11. TypeOK'
  <2>1. /\ msgs' \in Seq([len : 0..MaxPayload, defect : Defects]) /\ Len(msgs') <= MaxMsgs
        /\ lost \subseteq 1..Len(msgs')
    BY <1>1, <1>8, FramingAssumption DEF ReceiveInv, TypeOK, MsgSeqs
  <2>2. QED
    BY <1>1, <2>1 DEF ReceiveInv, TypeOK
<1>12. HeldInv'
  <2>1. buf' \in Seq(Byte) /\ (pc' \in {"payload", "inPayload"} =>
          Here'.k > HeaderLen /\ buf' = Bytes(Here'.m, 1, Here'.k - 1))
    BY <1>1, <1>7 DEF ReceiveInv, HeldInv
  <2>2. ASSUME pc' \in {"header", "inHeader"}, buf' /= <<>>
        PROVE  \E m \in 1..Len(msgs'), f \in Nat \ {0} :
                 /\ f > HeaderLen /\ f <= End(msgs', m) /\ End(msgs', m) - f + 1 < HeaderLen
                 /\ buf' = Bytes(m, f, End(msgs', m)) /\ Here' = [m |-> m + 1, k |-> 1]
    <3>1. PICK m \in 1..Len(msgs), f \in Nat \ {0} :
            /\ f > HeaderLen /\ f <= End(msgs, m) /\ End(msgs, m) - f + 1 < HeaderLen
            /\ buf = Bytes(m, f, End(msgs, m)) /\ Here = [m |-> m + 1, k |-> 1]
      BY <1>1, <2>2 DEF ReceiveInv, HeldInv
    <3>2. m \in 1..Len(msgs') /\ End(msgs', m) = End(msgs, m)
      BY <1>8
    <3>3. QED
      BY <1>1, <1>7, <3>1, <3>2
  <2>3. QED
    BY <2>1, <2>2 DEF HeldInv
<1>13. RoutedInv'
  <2>1. \A i \in 1..Len(routed) : routed[i][1].m \in 1..Len(msgs)
    <3>1. \A i \in 1..Len(routed) : routed[i][1].m \in 1..(Here.m - 1)
      BY DEF ReceiveInv, RoutedInv
    <3>2. \A x \in 1..(Here.m - 1) : x \in 1..Len(msgs)
      BY <1>8, <1>9
    <3>3. QED
      BY <3>1, <3>2
  <2>2. \A i \in 1..Len(routed) : End(msgs', routed[i][1].m) = End(msgs, routed[i][1].m)
    BY <1>8, <2>1
  <2>3. QED
    BY <1>1, <1>7, <2>2 DEF ReceiveInv, RoutedInv
<1>14. InStep'
  BY <1>1, <1>7, <1>10 DEF ReceiveInv, InStep
<1>15. Resynced'
  <2>1. \A m \in 2..(Here.m - 1) : msgs'[m - 1] = msgs[m - 1] /\ msgs'[m] = msgs[m]
    BY <1>8, <1>9
  <2>2. QED
    BY <1>1, <1>7, <1>10, <2>1 DEF ReceiveInv, Resynced
<1>16. QED
  BY <1>7, <1>11, <1>12, <1>13, <1>14, <1>15 DEF ReceiveInv

\* A byte string that is the beginning of a message, header and all, is recognised.
LEMMA Magic ==
  ASSUME NEW m \in Nat, NEW e \in Nat, e >= HeaderLen, NEW b, b = Bytes(m, 1, e)
  PROVE  GoodMagic(b) /\ b[1].m = m /\ Len(b) = e /\ b \in Seq(Byte)
<1>0. HeaderLen \in Nat \ {0} /\ 1 \in 1..HeaderLen
  BY FramingAssumption
<1>1. 1 \in Nat \ {0} /\ 1 <= e
  BY <1>0
<1>2. /\ b \in Seq(Byte) /\ Len(b) = e - 1 + 1
      /\ \A i \in 1..(e - 1 + 1) : b[i] = [m |-> m, k |-> 1 + i - 1]
  BY <1>1, BytesAre
<1>3. Len(b) = e /\ \A i \in 1..HeaderLen : i \in 1..(e - 1 + 1) /\ 1 + i - 1 = i
  BY <1>0, <1>2
<1>4. \A i \in 1..HeaderLen : b[i] = [m |-> m, k |-> i]
  BY <1>2, <1>3
<1>5. b[1].m = m
  <2>1. b[1] = [m |-> m, k |-> 1]
    BY <1>0, <1>4
  <2>2. QED
    BY <2>1
<1>6. GoodMagic(b)
  BY <1>4, <1>5 DEF GoodMagic
<1>7. QED
  BY <1>2, <1>3, <1>5, <1>6

\* One that starts elsewhere is not.
LEMMA NoMagic == ASSUME NEW b, b[1].k /= 1 PROVE ~GoodMagic(b)
<1>1. 1 \in 1..HeaderLen
  BY FramingAssumption
<1>2. ASSUME GoodMagic(b) PROVE FALSE
  <2>1. b[1] = [m |-> b[1].m, k |-> 1]
    BY <1>1, <1>2 DEF GoodMagic
  <2>2. \A x : [m |-> x, k |-> 1].k = 1
    OBVIOUS
  <2>3. b[1].k = 1
    BY <2>1, <2>2, Zenon
  <2>4. QED
    BY <2>3
<1>3. QED
  BY <1>2

\* The reader takes bytes e of message m off the endpoint and returns nothing.  The
\* message, if they were its last ones, is not the second of two without payload.
LEMMA Passes ==
  ASSUME ReceiveInv, msgs' = msgs, routed' = routed, pc /= "stopped",
         NEW m \in 1..Len(msgs), NEW e \in Nat, e <= End(msgs, m), Here.m = m,
         Queue(msgs, wire'), At(msgs, wire') = NextByte(msgs, [m |-> m, k |-> e]),
         pc' = "stopped" \/ e < End(msgs, m) \/ msgs[m].len > 0
           \/ (m >= 2 /\ msgs[m - 1].len > 0),
         TypeOK', HeldInv', InStep'
  PROVE  ReceiveInv'
<1>1. msgs \in MsgSeqs /\ Len(msgs) \in Nat
  BY DEF ReceiveInv, TypeOK, MsgSeqs
<1>2. Here' = NextByte(msgs, [m |-> m, k |-> e]) /\ RoutedIds' = RoutedIds
  BY DEF Here, At, FirstUnsent, RoutedIds
<1>3. Here'.m = IF e = End(msgs, m) THEN m + 1 ELSE m
  BY <1>2 DEF NextByte
<1>4. \A x \in 1..(Here.m - 1) : x \in 1..(Here'.m - 1)
  BY <1>1, <1>3
<1>5. RoutedInv'
  BY <1>4 DEF ReceiveInv, RoutedInv, End
<1>6. Resynced'
  <2>1. SUFFICES ASSUME pc' /= "stopped", NEW n \in 2..(Here'.m - 1),
                        msgs[n - 1].len = 0, msgs[n].len = 0
                 PROVE  n \in RoutedIds
    BY <1>2 DEF Resynced
  <2>2. CASE n \in 2..(Here.m - 1)
    BY <2>1, <2>2 DEF ReceiveInv, Resynced
  <2>3. CASE n \notin 2..(Here.m - 1)
    <3>1. n = m /\ e = End(msgs, m)
      BY <1>1, <1>3, <2>1, <2>3
    <3>2. QED
      BY <1>1, <2>1, <3>1, EndIs
  <2>4. QED
    BY <2>2, <2>3
<1>7. Queue(msgs, wire)'
  OBVIOUS
<1>8. QED
  BY <1>5, <1>6, <1>7 DEF ReceiveInv

\* The reader takes the last bytes of message m off the endpoint and returns it.
LEMMA Routes ==
  ASSUME ReceiveInv, msgs' = msgs, lost' = lost, pc /= "stopped", pc' = "loop",
         NEW m \in 1..Len(msgs), Here.m = m,
         NEW b, b = Bytes(m, 1, End(msgs, m)), routed' = Append(routed, b),
         Queue(msgs, wire'), At(msgs, wire') = NextByte(msgs, [m |-> m, k |-> End(msgs, m)]),
         TypeOK', buf' \in Seq(Byte)
  PROVE  ReceiveInv'
<1>1. /\ msgs \in MsgSeqs /\ Len(msgs) \in Nat /\ m \in Nat /\ routed \in Seq(Seq(Byte))
      /\ HeaderLen \in Nat \ {0} /\ End(msgs, m) \in Nat /\ End(msgs, m) >= HeaderLen
  <2>1. msgs \in MsgSeqs /\ routed \in Seq(Seq(Byte))
    BY DEF ReceiveInv, TypeOK, MsgSeqs, RoutedInv
  <2>2. Len(msgs) \in Nat /\ m \in Nat
    BY <2>1 DEF MsgSeqs
  <2>3. QED
    BY <2>1, <2>2, EndIs, FramingAssumption
<1>2. Here' = [m |-> m + 1, k |-> 1]
  BY DEF Here, At, FirstUnsent, NextByte
<1>3. b \in Seq(Byte) /\ b[1].m = m
  BY <1>1, Magic
<1>4. /\ routed' \in Seq(Seq(Byte)) /\ Len(routed') = Len(routed) + 1 /\ Len(routed) \in Nat
      /\ \A i \in 1..Len(routed) : routed'[i] = routed[i]
      /\ routed'[Len(routed) + 1] = b
  BY <1>1, <1>3, AppendProperties
<1>5. \A i \in 1..Len(routed') : i \in 1..Len(routed) \/ i = Len(routed) + 1
  BY <1>4
<1>6. /\ \A i \in 1..Len(routed) : routed[i][1].m \in 1..(m - 1)
      /\ \A i \in 1..Len(routed) : routed[i] = Bytes(routed[i][1].m, 1, End(msgs, routed[i][1].m))
      /\ \A i, j \in 1..Len(routed) : i < j => routed[i][1].m < routed[j][1].m
  BY DEF ReceiveInv, RoutedInv
<1>7. RoutedInv'
  <2>1. \A i \in 1..Len(routed') :
          routed'[i] = Bytes(routed'[i][1].m, 1, End(msgs, routed'[i][1].m))
    BY <1>3, <1>4, <1>5, <1>6
  <2>2. \A i \in 1..Len(routed') : routed'[i][1].m \in 1..(Here'.m - 1)
    <3>1. Here'.m - 1 = m /\ \A x \in 1..(m - 1) : x \in 1..m
      BY <1>1, <1>2
    <3>2. ASSUME NEW i \in 1..Len(routed') PROVE routed'[i][1].m \in 1..m
      <4>1. CASE i \in 1..Len(routed)
        BY <1>4, <1>6, <3>1, <4>1
      <4>2. CASE i = Len(routed) + 1
        <5>1. routed'[i][1].m = m /\ m \in 1..m
          BY <1>3, <1>4, <4>2
        <5>2. QED
          BY <5>1
      <4>3. QED
        BY <1>5, <4>1, <4>2
    <3>3. QED
      BY <3>1, <3>2
  <2>3. ASSUME NEW i \in 1..Len(routed'), NEW j \in 1..Len(routed'), i < j
        PROVE  routed'[i][1].m < routed'[j][1].m
    <3>1. i \in 1..Len(routed)
      BY <1>4, <2>3
    <3>2. CASE j \in 1..Len(routed)
      BY <1>4, <1>6, <2>3, <3>1, <3>2
    <3>3. CASE j = Len(routed) + 1
      <4>1. routed'[i][1].m \in 1..(m - 1) /\ routed'[j][1].m = m
        BY <1>3, <1>4, <1>6, <3>1, <3>3
      <4>2. \A x \in 1..(m - 1) : x < m
        BY <1>1
      <4>3. QED
        BY <4>1, <4>2
    <3>4. QED
      BY <1>5, <3>2, <3>3
  <2>4. QED
    BY <1>4, <2>1, <2>2, <2>3 DEF RoutedInv, End
<1>8. m \in RoutedIds' /\ \A x \in RoutedIds : x \in RoutedIds'
  <2>1. DOMAIN routed = 1..Len(routed) /\ DOMAIN routed' = 1..Len(routed')
    BY <1>1, <1>4
  <2>2. Len(routed) + 1 \in DOMAIN routed' /\ routed'[Len(routed) + 1][1].m = m
    BY <1>3, <1>4, <2>1
  <2>3. \A i \in DOMAIN routed : i \in DOMAIN routed' /\ routed'[i][1].m = routed[i][1].m
    BY <1>4, <2>1
  <2>4. QED
    BY <2>2, <2>3 DEF RoutedIds
<1>9. \A x \in 1..(Here'.m - 1) : x = m \/ x \in 1..(Here.m - 1)
  BY <1>1, <1>2
<1>10. InStep'
  BY <1>2, <1>8, <1>9 DEF ReceiveInv, InStep
<1>11. Resynced'
  <2>1. \A x \in 2..(Here'.m - 1) : x = m \/ x \in 2..(Here.m - 1)
    BY <1>1, <1>2
  <2>2. QED
    BY <1>8, <2>1 DEF ReceiveInv, Resynced
<1>12. HeldInv'
  BY DEF HeldInv
<1>13. Queue(msgs, wire)'
  OBVIOUS
<1>14. QED
  BY <1>7, <1>10, <1>11, <1>12, <1>13 DEF ReceiveInv

\* The request of a header read is HeaderCap bytes, whatever is in hand.
LEMMA HeaderRequestIs ==
  ASSUME Len(buf) \in Nat
  PROVE  HeaderRequest = HeaderCap /\ HeaderCap \in Nat \ {0} /\ HeaderCap >= HeaderLen
  BY FramingAssumption DEF HeaderRequest, Larger

\* What AfterHeader makes of a byte string: it returns the string, or nothing.
LEMMA AfterHeaderIs ==
  ASSUME NEW b, AfterHeader(b), shutdown \in BOOLEAN
  PROVE  /\ pc' \in {"loop", "payload", "stopped"} /\ shutdown' \in BOOLEAN
         /\ ~GoodMagic(b) => pc' = "loop" /\ routed' = routed
         /\ GoodMagic(b) =>
              \/ pc' = "stopped" /\ routed' = routed
              \/ /\ Len(b) >= HeaderLen + msgs[b[1].m].len
                 /\ pc' = "loop" /\ routed' = Append(routed, b)
              \/ /\ ~(Len(b) >= HeaderLen + msgs[b[1].m].len)
                 /\ pc' = "payload" /\ routed' = routed
<1>1. CASE ~GoodMagic(b)
  <2>1. pc' = "loop" /\ UNCHANGED <<routed, shutdown>>
    BY <1>1 DEF AfterHeader
  <2>2. QED
    BY <1>1, <2>1
<1>2. CASE GoodMagic(b) /\ msgs[b[1].m].defect = "length"
  <2>1. Stop
    BY <1>2 DEF AfterHeader
  <2>2. QED
    BY <1>2, <2>1 DEF Stop
<1>3. CASE GoodMagic(b) /\ msgs[b[1].m].defect /= "length"
  <2>1. IF Len(b) >= HeaderLen + msgs[b[1].m].len
        THEN Finish(b)
        ELSE pc' = "payload" /\ UNCHANGED <<routed, shutdown>>
    BY <1>3 DEF AfterHeader
  <2>2. QED
    BY <1>3, <2>1 DEF Finish, Stop
<1>4. QED
  BY <1>1, <1>2, <1>3

\* A header read: the header of a message, or stale data up to the next header.
LEMMA HeaderKeeps == ReceiveInv /\ HeaderTransfer => ReceiveInv'
<1> SUFFICES ASSUME ReceiveInv, HeaderTransfer PROVE ReceiveInv'
  OBVIOUS
<1>1. PICK b : /\ b = buf \o Incoming(HeaderRequest) /\ buf' = b
               /\ IF Len(b) < HeaderLen
                  THEN pc' = "header" /\ UNCHANGED <<routed, shutdown>>
                  ELSE AfterHeader(b)
  BY DEF HeaderTransfer
<1>2. /\ pc = "inHeader" /\ wire /= <<>> /\ UNCHANGED <<expired, lost, msgs, plugged>>
      /\ wire' = Left(wire, HeaderRequest)
  BY DEF HeaderTransfer, Consume, Left
<1>3. /\ msgs \in MsgSeqs /\ Queue(msgs, wire) /\ buf \in Seq(Byte) /\ Len(buf) \in Nat
      /\ HeldInv /\ HeaderLen \in Nat \ {0} /\ shutdown \in BOOLEAN
  <2>1. msgs \in MsgSeqs /\ Queue(msgs, wire) /\ buf \in Seq(Byte) /\ HeldInv
    BY DEF ReceiveInv, TypeOK, MsgSeqs, HeldInv
  <2>2. shutdown \in BOOLEAN
    BY DEF ReceiveInv, TypeOK
  <2>3. QED
    BY <2>1, <2>2, FramingAssumption
<1>4. HeaderRequest = HeaderCap /\ HeaderCap \in Nat \ {0} /\ HeaderCap >= HeaderLen
  BY <1>3, HeaderRequestIs
<1>5. PICK m \in 1..Len(msgs), f \in Nat \ {0}, e \in Nat :
        /\ Here = [m |-> m, k |-> f] /\ Incoming(HeaderRequest) = Bytes(m, f, e)
        /\ f <= e /\ e <= End(msgs, m) /\ e - f + 1 <= HeaderCap
        /\ f = 1 \/ f > HeaderLen
        /\ f = 1 => e >= HeaderLen
        /\ e < End(msgs, m) => f = 1 \/ e - f + 1 = HeaderCap
        /\ Queue(msgs, wire')
        /\ At(msgs, wire') = NextByte(msgs, [m |-> m, k |-> e])
  <2>1. wire' = Left(wire, HeaderCap) /\ Incoming(HeaderRequest) = Taken(wire, HeaderCap)
    BY <1>2, <1>4 DEF Incoming, Taken
  <2>2. PICK m \in 1..Len(msgs), f \in Nat \ {0}, e \in Nat :
          /\ At(msgs, wire) = [m |-> m, k |-> f] /\ Taken(wire, HeaderCap) = Bytes(m, f, e)
          /\ f <= e /\ e <= End(msgs, m) /\ e - f + 1 <= HeaderCap
          /\ f = 1 \/ f > HeaderLen
          /\ f = 1 => e >= HeaderLen
          /\ e < End(msgs, m) => f = 1 \/ e - f + 1 = HeaderCap
          /\ Queue(msgs, Left(wire, HeaderCap))
          /\ At(msgs, Left(wire, HeaderCap)) = NextByte(msgs, [m |-> m, k |-> e])
    <3>1. Takes(msgs, wire, HeaderCap)
      BY <1>2, <1>3, <1>4, TakenOff
    <3>2. QED
      BY <3>1 DEF Takes
  <2>3. QED
    BY <2>1, <2>2 DEF Here
<1>6. /\ End(msgs, m) \in Nat /\ End(msgs, m) >= HeaderLen /\ m \in Nat
      /\ End(msgs, m) = HeaderLen + msgs[m].len /\ Here.m = m /\ Here.k = f
      /\ msgs[m].len \in Nat
  <2>1. Len(msgs) \in Nat
    BY <1>3 DEF MsgSeqs
  <2>2. QED
    BY <1>3, <1>5, <2>1, EndIs DEF End
<1>7. BytesEnds(Bytes(m, f, e), m, f, e)
  BY <1>5, <1>6, BytesHaveEnds
<1>8. /\ b \in Seq(Byte) /\ Len(b) = Len(buf) + (e - f + 1) /\ 1 \in 1..Len(b)
      /\ buf = <<>> => b = Bytes(m, f, e)
      /\ buf /= <<>> => b[1] = buf[1]
  <2> DEFINE in == Bytes(m, f, e)
  <2>1. in \in Seq(Byte) /\ Len(in) = e - f + 1 /\ 1 \in 1..Len(in) /\ b = buf \o in
    BY <1>1, <1>5, <1>7 DEF BytesEnds
  <2> HIDE DEF in
  <2>2. /\ b \in Seq(Byte) /\ Len(b) = Len(buf) + Len(in)
        /\ \A i \in 1..Len(buf) + Len(in) :
             b[i] = IF i <= Len(buf) THEN buf[i] ELSE in[i - Len(buf)]
    BY <1>3, <2>1, ConcatProperties
  <2>3. buf = <<>> => b = in
    BY <2>1
  <2>4. buf /= <<>> => Len(buf) >= 1
    BY <1>3
  <2>5. 1 \in 1..Len(b) /\ 1 \in 1..Len(buf) + Len(in)
    BY <1>3, <2>1, <2>2
  <2>6. buf /= <<>> => b[1] = buf[1]
    BY <2>2, <2>4, <2>5
  <2>7. QED
    BY <2>1, <2>2, <2>3, <2>5, <2>6 DEF in
<1>9. Len(buf) < HeaderLen
  <2>1. CASE buf = <<>>
    BY <1>3, <2>1
  <2>2. CASE buf /= <<>>
    <3>1. PICK n \in 1..Len(msgs), g \in Nat \ {0} :
            /\ g > HeaderLen /\ g <= End(msgs, n) /\ End(msgs, n) - g + 1 < HeaderLen
            /\ buf = Bytes(n, g, End(msgs, n))
      BY <1>2, <1>3, <2>2 DEF HeldInv
    <3>2. End(msgs, n) \in Nat /\ n \in Nat
      BY <1>3, EndIs
    <3>3. Len(buf) = End(msgs, n) - g + 1
      BY <3>1, <3>2, BytesAre
    <3>4. QED
      BY <3>1, <3>3
  <2>3. QED
    BY <2>1, <2>2
<1>10. TypeOK'
  <2>1. Len(b) <= HeaderLen + HeaderCap
    BY <1>3, <1>4, <1>5, <1>8, <1>9
  <2>2. HeaderCap <= Larger(HeaderCap, MaxPayload) /\ Larger(HeaderCap, MaxPayload) \in Nat
    BY FramingAssumption DEF Larger
  <2>3. Len(b) <= HeaderLen + Larger(HeaderCap, MaxPayload)
    BY <1>3, <1>4, <1>8, <2>1, <2>2
  <2>4. pc' \in {"loop", "header", "payload", "stopped"} /\ shutdown' \in BOOLEAN
    <3>1. CASE Len(b) < HeaderLen
      BY <1>1, <1>3, <3>1
    <3>2. CASE ~(Len(b) < HeaderLen)
      <4>1. AfterHeader(b)
        BY <1>1, <3>2
      <4>2. pc' \in {"loop", "payload", "stopped"} /\ shutdown' \in BOOLEAN
        BY <1>3, <4>1, AfterHeaderIs
      <4>3. QED
        BY <4>2
    <3>3. QED
      BY <3>1, <3>2
  <2>5. QED
    BY <1>1, <1>2, <2>3, <2>4 DEF ReceiveInv, TypeOK
<1>11. Here' = NextByte(msgs, [m |-> m, k |-> e]) /\ buf' = b /\ b \in Seq(Byte)
  BY <1>1, <1>2, <1>5, <1>8 DEF Here, At, FirstUnsent
<1>12. CASE buf = <<>> /\ f = 1
  <2>1. b = Bytes(m, 1, e) /\ e >= HeaderLen
    BY <1>5, <1>8, <1>12
  <2>2. GoodMagic(b) /\ b[1].m = m /\ Len(b) = e
    BY <1>6, <2>1, Magic
  <2>3. AfterHeader(b)
    <3>1. ~(Len(b) < HeaderLen)
      BY <1>3, <2>1, <2>2
    <3>2. QED
      BY <1>1, <3>1
  <2>4. \/ pc' = "stopped" /\ routed' = routed
        \/ e >= HeaderLen + msgs[m].len /\ pc' = "loop" /\ routed' = Append(routed, b)
        \/ ~(e >= HeaderLen + msgs[m].len) /\ pc' = "payload" /\ routed' = routed
    BY <1>3, <2>2, <2>3, AfterHeaderIs
  <2>5. CASE pc' = "stopped" /\ routed' = routed
    <3>1. HeldInv' /\ InStep'
      BY <1>11, <2>5 DEF HeldInv, InStep
    <3>2. QED
      BY <1>2, <1>5, <1>6, <1>10, <2>5, <3>1, Passes
  <2>6. CASE e >= HeaderLen + msgs[m].len /\ pc' = "loop" /\ routed' = Append(routed, b)
    <3>1. e = End(msgs, m)
      BY <1>5, <1>6, <2>6
    <3>2. QED
      BY <1>2, <1>5, <1>6, <1>10, <1>11, <2>1, <2>6, <3>1, Routes
  <2>7. CASE ~(e >= HeaderLen + msgs[m].len) /\ pc' = "payload" /\ routed' = routed
    <3>1. e < End(msgs, m) /\ e /= End(msgs, m)
      BY <1>6, <2>7
    <3>2. Here' = [m |-> m, k |-> e + 1] /\ e + 1 > HeaderLen /\ (e + 1) - 1 = e
      BY <1>3, <1>11, <2>1, <3>1 DEF NextByte
    <3>3. HeldInv'
      BY <1>11, <2>1, <2>7, <3>2 DEF HeldInv
    <3>4. InStep'
      <4>1. Here'.m = Here.m /\ RoutedIds' = RoutedIds
        BY <1>6, <2>7, <3>2 DEF RoutedIds
      <4>2. QED
        BY <1>2, <2>7, <4>1 DEF ReceiveInv, InStep
    <3>5. QED
      BY <1>2, <1>5, <1>6, <1>10, <2>7, <3>1, <3>3, <3>4, Passes
  <2>8. QED
    BY <2>4, <2>5, <2>6, <2>7
<1>13. CASE buf = <<>> /\ f /= 1
  <2>1. f > HeaderLen /\ msgs[m].len > 0
    BY <1>3, <1>5, <1>6, <1>13
  <2>2. b = Bytes(m, f, e) /\ b[1].k = f /\ Len(b) = e - f + 1
    BY <1>7, <1>8, <1>13 DEF BytesEnds
  <2>3. ~GoodMagic(b)
    BY <1>13, <2>2, NoMagic
  <2>4. InStep'
    <3>1. lost' /= {}
      BY <1>2, <1>6, <1>13 DEF ReceiveInv, InStep
    <3>2. QED
      BY <3>1 DEF InStep
  <2>5. CASE Len(b) < HeaderLen
    <3>1. pc' = "header" /\ routed' = routed
      BY <1>1, <2>5
    <3>2. e = End(msgs, m)
      BY <1>3, <1>4, <1>5, <1>6, <1>13, <2>2, <2>5
    <3>3. Here' = [m |-> m + 1, k |-> 1]
      BY <1>11, <3>2 DEF NextByte
    <3>4. HeldInv'
      <4>1. /\ f > HeaderLen /\ f <= End(msgs, m) /\ End(msgs, m) - f + 1 < HeaderLen
            /\ b = Bytes(m, f, End(msgs, m))
        BY <1>5, <2>1, <2>2, <2>5, <3>2
      <4>2. \E n \in 1..Len(msgs), g \in Nat \ {0} :
              /\ g > HeaderLen /\ g <= End(msgs, n) /\ End(msgs, n) - g + 1 < HeaderLen
              /\ b = Bytes(n, g, End(msgs, n)) /\ Here' = [m |-> n + 1, k |-> 1]
        BY <3>3, <4>1
      <4>3. QED
        BY <1>2, <1>11, <3>1, <4>2 DEF HeldInv, End
    <3>5. QED
      BY <1>2, <1>5, <1>6, <1>10, <2>1, <2>4, <3>1, <3>4, Passes
  <2>6. CASE ~(Len(b) < HeaderLen)
    <3>1. pc' = "loop" /\ routed' = routed
      BY <1>1, <1>3, <2>3, <2>6, AfterHeaderIs
    <3>2. HeldInv'
      BY <1>11, <3>1 DEF HeldInv
    <3>3. QED
      BY <1>2, <1>5, <1>6, <1>10, <2>1, <2>4, <3>1, <3>2, Passes
  <2>7. QED
    BY <2>5, <2>6
<1>14. CASE buf /= <<>>
  <2>1. PICK n \in 1..Len(msgs), g \in Nat \ {0} :
          /\ g > HeaderLen /\ g <= End(msgs, n)
          /\ buf = Bytes(n, g, End(msgs, n)) /\ Here = [m |-> n + 1, k |-> 1]
    BY <1>2, <1>3, <1>14 DEF HeldInv
  <2>2. m = n + 1 /\ f = 1
    BY <1>6, <2>1
  <2>3. End(msgs, n) \in Nat /\ n \in Nat /\ msgs[n].len > 0
    <3>1. End(msgs, n) \in Nat /\ n \in Nat /\ End(msgs, n) = HeaderLen + msgs[n].len /\ msgs[n].len \in Nat
      BY <1>3, EndIs DEF End
    <3>2. QED
      BY <1>3, <2>1, <3>1
  <2>4. buf[1].k = g
    <3>1. BytesEnds(buf, n, g, End(msgs, n))
      BY <2>1, <2>3, BytesHaveEnds
    <3>2. QED
      BY <3>1 DEF BytesEnds
  <2>5. ~GoodMagic(b)
    <3>1. b[1].k /= 1
      BY <1>3, <1>8, <1>14, <2>1, <2>4
    <3>2. QED
      BY <3>1, NoMagic
  <2>6. ~(Len(b) < HeaderLen)
    BY <1>3, <1>5, <1>8, <2>2
  <2>7. pc' = "loop" /\ routed' = routed
    BY <1>1, <1>3, <2>5, <2>6, AfterHeaderIs
  <2>8. HeldInv'
    BY <1>11, <2>7 DEF HeldInv
  <2>9. InStep'
    <3>1. lost' /= {}
      BY <1>2, <1>14 DEF ReceiveInv, InStep
    <3>2. QED
      BY <3>1 DEF InStep
  <2>10. m >= 2 /\ msgs[m - 1].len > 0
    BY <2>2, <2>3
  <2>11. QED
    BY <1>2, <1>5, <1>6, <1>10, <2>7, <2>8, <2>9, <2>10, Passes
<1>15. QED
  BY <1>12, <1>13, <1>14

\* A payload read: more of the message in hand, or the rest of it.
LEMMA PayloadKeeps == ReceiveInv /\ PayloadTransfer => ReceiveInv'
<1> SUFFICES ASSUME ReceiveInv, PayloadTransfer PROVE ReceiveInv'
  OBVIOUS
<1>1. /\ pc = "inPayload" /\ wire /= <<>> /\ UNCHANGED <<expired, lost, msgs, plugged>>
      /\ msgs \in MsgSeqs /\ Queue(msgs, wire) /\ HeldInv /\ shutdown \in BOOLEAN
      /\ HeaderLen \in Nat \ {0} /\ ChunkCap \in Nat \ {0}
  <2>1. msgs \in MsgSeqs /\ Queue(msgs, wire) /\ HeldInv /\ shutdown \in BOOLEAN
    BY DEF ReceiveInv, TypeOK, MsgSeqs
  <2>2. pc = "inPayload" /\ wire /= <<>> /\ UNCHANGED <<expired, lost, msgs, plugged>>
    BY DEF PayloadTransfer, Consume
  <2>3. QED
    BY <2>1, <2>2, FramingAssumption
<1>2. PICK m \in 1..Len(msgs), f \in Nat \ {0} :
        /\ Here = [m |-> m, k |-> f] /\ Here.m = m /\ Here.k = f
        /\ m \in Nat /\ Len(msgs) \in Nat /\ f <= End(msgs, m)
  BY <1>1, HereIs
<1>3. /\ f > HeaderLen /\ buf = Bytes(m, 1, f - 1)
      /\ End(msgs, m) \in Nat /\ End(msgs, m) = HeaderLen + msgs[m].len /\ msgs[m].len \in 0..MaxPayload
  <2>1. f > HeaderLen /\ buf = Bytes(m, 1, f - 1)
    BY <1>1, <1>2 DEF HeldInv
  <2>2. msgs[m] \in [len : 0..MaxPayload, defect : Defects]
    BY <1>1, ElementOfSeq DEF MsgSeqs
  <2>3. QED
    BY <1>1, <2>1, <2>2, EndIs DEF End
<1>4. GoodMagic(buf) /\ buf[1].m = m /\ Len(buf) = f - 1
  <2>1. f - 1 \in Nat /\ f - 1 >= HeaderLen
    BY <1>1, <1>3
  <2>2. QED
    BY <1>2, <1>3, <2>1, Magic
<1>5. PICK cap : cap = Smaller(End(msgs, m) - Len(buf), ChunkCap)
  OBVIOUS
<1>6. cap \in Nat \ {0} /\ cap <= End(msgs, m) - (f - 1)
  <2>1. End(msgs, m) - (f - 1) \in Nat \ {0}
    BY <1>2, <1>3
  <2>2. QED
    BY <1>1, <1>4, <1>5, <2>1 DEF Smaller
<1>7. PICK b : /\ b = buf \o Incoming(cap) /\ buf' = b
               /\ IF Len(b) < End(msgs, m)
                  THEN pc' = "payload" /\ UNCHANGED <<routed, shutdown>>
                  ELSE Finish(b)
  <2>1. End(msgs, m) = HeaderLen + msgs[buf[1].m].len
    BY <1>3, <1>4
  <2>2. QED
    BY <1>5, <2>1 DEF PayloadTransfer
<1>8. wire' = Left(wire, cap)
  <2>1. End(msgs, m) = HeaderLen + msgs[buf[1].m].len
    BY <1>3, <1>4
  <2>2. QED
    BY <1>5, <2>1 DEF PayloadTransfer, Consume, Left
<1>9. PICK e \in Nat :
        /\ Incoming(cap) = Bytes(m, f, e) /\ f <= e /\ e <= End(msgs, m)
        /\ Queue(msgs, wire') /\ At(msgs, wire') = NextByte(msgs, [m |-> m, k |-> e])
  <2>1. PICK n \in 1..Len(msgs), g \in Nat \ {0}, e \in Nat :
          /\ At(msgs, wire) = [m |-> n, k |-> g] /\ Taken(wire, cap) = Bytes(n, g, e)
          /\ g <= e /\ e <= End(msgs, n) /\ e - g + 1 <= cap
          /\ g = 1 \/ g > HeaderLen
          /\ g = 1 => e >= HeaderLen
          /\ e < End(msgs, n) => g = 1 \/ e - g + 1 = cap
          /\ Queue(msgs, Left(wire, cap))
          /\ At(msgs, Left(wire, cap)) = NextByte(msgs, [m |-> n, k |-> e])
    <3>1. At(msgs, wire).k = 1 => cap >= HeaderLen
      BY <1>1, <1>2, <1>3 DEF Here
    <3>2. cap \in Nat \ {0}
      BY <1>6
    <3>3. Takes(msgs, wire, cap)
      BY <1>1, <3>1, <3>2, TakenOff
    <3>4. QED
      BY <3>3 DEF Takes
  <2>2. n = m /\ g = f
    BY <1>2, <2>1 DEF Here
  <2>3. Incoming(cap) = Taken(wire, cap)
    BY DEF Incoming, Taken
  <2>4. QED
    BY <1>8, <2>1, <2>2, <2>3
<1>10. b = Bytes(m, 1, e)
  <2>1. /\ 1 \in Nat \ {0} /\ f - 1 \in Nat /\ 1 <= f - 1 /\ f - 1 < e /\ (f - 1) + 1 = f
    BY <1>1, <1>3, <1>9
  <2>2. PICK g : g = f - 1
    OBVIOUS
  <2>3. m \in Nat /\ 1 \in Nat \ {0} /\ g \in Nat /\ e \in Nat /\ 1 <= g /\ g < e
    BY <1>2, <2>1, <2>2
  <2>4. Bytes(m, 1, g) \o Bytes(m, g + 1, e) = Bytes(m, 1, e)
    BY <2>3, BytesJoin
  <2>5. QED
    BY <1>3, <1>7, <1>9, <2>1, <2>2, <2>4
<1>11. /\ b[1].m = m /\ Len(b) = e /\ b \in Seq(Byte) /\ e >= HeaderLen
  <2>1. e >= HeaderLen
    BY <1>1, <1>3, <1>9
  <2>2. QED
    BY <1>2, <1>10, <2>1, Magic
<1>12. TypeOK'
  <2>1. Len(b) <= HeaderLen + Larger(HeaderCap, MaxPayload)
    <3>1. MaxPayload <= Larger(HeaderCap, MaxPayload) /\ Larger(HeaderCap, MaxPayload) \in Nat
      BY FramingAssumption DEF Larger
    <3>2. e <= HeaderLen + MaxPayload
      BY <1>1, <1>3, <1>9, FramingAssumption
    <3>3. QED
      BY <1>1, <1>11, <3>1, <3>2, FramingAssumption
  <2>2. pc' \in {"loop", "payload", "stopped"} /\ shutdown' \in BOOLEAN
    BY <1>1, <1>7 DEF Finish, Stop
  <2>3. QED
    BY <1>1, <1>7, <2>1, <2>2 DEF ReceiveInv, TypeOK
<1>13. Here' = NextByte(msgs, [m |-> m, k |-> e])
  BY <1>1, <1>9 DEF Here, At, FirstUnsent
<1>14. CASE Len(b) < End(msgs, m)
  <2>1. pc' = "payload" /\ routed' = routed
    BY <1>7, <1>14
  <2>2. e < End(msgs, m) /\ e /= End(msgs, m)
    BY <1>3, <1>11, <1>14
  <2>3. Here' = [m |-> m, k |-> e + 1] /\ e + 1 > HeaderLen /\ (e + 1) - 1 = e
    BY <1>1, <1>11, <1>13, <2>2 DEF NextByte
  <2>4. HeldInv'
    BY <1>7, <1>10, <1>11, <2>1, <2>3 DEF HeldInv
  <2>5. InStep'
    <3>1. Here'.m = Here.m /\ RoutedIds' = RoutedIds
      BY <1>2, <2>1, <2>3 DEF RoutedIds
    <3>2. QED
      BY <1>1, <2>1, <3>1 DEF ReceiveInv, InStep
  <2>6. QED
    BY <1>1, <1>2, <1>9, <1>12, <2>1, <2>2, <2>4, <2>5, Passes
<1>15. CASE ~(Len(b) < End(msgs, m))
  <2>1. Finish(b) /\ e = End(msgs, m)
    BY <1>3, <1>7, <1>9, <1>11, <1>15
  <2>2. CASE msgs[b[1].m].defect = "checksum"
    <3>1. pc' = "stopped" /\ routed' = routed
      BY <2>1, <2>2 DEF Finish, Stop
    <3>2. HeldInv' /\ InStep'
      BY <1>7, <1>11, <3>1 DEF HeldInv, InStep
    <3>3. QED
      BY <1>1, <1>2, <1>9, <1>12, <3>1, <3>2, Passes
  <2>3. CASE msgs[b[1].m].defect /= "checksum"
    <3>1. pc' = "loop" /\ routed' = Append(routed, b)
      BY <2>1, <2>3 DEF Finish
    <3>2. QED
      BY <1>1, <1>2, <1>7, <1>9, <1>10, <1>11, <1>12, <2>1, <3>1, Routes
  <2>4. QED
    BY <2>2, <2>3
<1>16. QED
  BY <1>14, <1>15

------------------------------------------------------------------------------
(* The theorems.                                                             *)

\* Every step keeps the invariant.
LEMMA ReceiverStep == ReceiveInv /\ [Next]_vars => ReceiveInv'
<1> SUFFICES ASSUME ReceiveInv, [Next]_vars PROVE ReceiveInv'
  OBVIOUS
<1>1. CASE Unplug \/ Shutdown \/ DeadlinePasses
  BY <1>1, OutsideKeeps
<1>2. CASE DeviceSend
  BY <1>2, SendKeeps
<1>3. CASE LoopTop
  BY <1>3, LoopKeeps
<1>4. CASE CheckHeaderDeadline \/ CheckPayloadDeadline
  BY <1>4, CheckKeeps
<1>5. CASE HeaderTransfer
  BY <1>5, HeaderKeeps
<1>6. CASE PayloadTransfer
  BY <1>6, PayloadKeeps
<1>7. CASE TransferFails
  BY <1>7, FailKeeps
<1>8. CASE UNCHANGED vars
  <2>1. /\ UNCHANGED <<msgs, wire, routed, buf, lost>> /\ UNCHANGED <<expired, shutdown, plugged>>
        /\ pc' = pc
    BY <1>8 DEF vars
  <2>2. TypeOK'
    BY <2>1 DEF ReceiveInv, TypeOK
  <2>3. QED
    BY <2>1, <2>2, SamePhase
<1>9. QED
  BY <1>1, <1>2, <1>3, <1>4, <1>5, <1>6, <1>7, <1>8 DEF Next

\* The invariant holds in every state of every run.
LEMMA ReceiverInvariant == Spec => []ReceiveInv
<1>1. QED
  BY StartReceives, ReceiverStep, PTL DEF Spec

\* Every variable keeps its type, and usb_read_message never holds more than a header
\* and the larger of a header request and a payload.
THEOREM TypeCorrect == Spec => []TypeOK
<1>1. ReceiveInv => TypeOK
  BY DEF ReceiveInv
<1>2. QED
  BY <1>1, ReceiverInvariant, PTL

\* Whatever the transfers' boundaries, the timeouts and the skipped bytes were, every byte
\* string usb_read_message returns is one whole message of the device.
THEOREM WholeMessages == Spec => []RoutedWhole
<1>1. ReceiveInv => RoutedWhole
  <2> SUFFICES ASSUME ReceiveInv PROVE RoutedWhole
    OBVIOUS
  <2>1. routed \in Seq(Seq(Byte)) /\ DOMAIN routed = 1..Len(routed)
    BY DEF ReceiveInv, RoutedInv
  <2>2. \A i \in DOMAIN routed : routed[i] = Bytes(routed[i][1].m, 1, End(msgs, routed[i][1].m))
    BY <2>1 DEF ReceiveInv, RoutedInv
  <2>3. QED
    BY <2>2 DEF RoutedWhole, Frame, End
<1>2. QED
  BY <1>1, ReceiverInvariant, PTL

\* A message the device has sent is behind the endpoint's position or still queued.
LEMMA BehindOrQueued ==
  ASSUME ReceiveInv, NEW m \in 1..Len(msgs)
  PROVE  m \in 1..(Here.m - 1) \/ \E i \in DOMAIN wire : m \in MessagesIn(wire[i])
<1>1. /\ msgs \in MsgSeqs /\ Queue(msgs, wire) /\ Len(msgs) \in Nat
      /\ wire \in Seq(Seq(Byte)) /\ DOMAIN wire = 1..Len(wire)
  BY DEF ReceiveInv, TypeOK, MsgSeqs, Queue
<1>2. Here.m \in Nat
  <2>1. PICK n \in Nat : Here.m = n
    BY <1>1, HereIs
  <2>2. QED
    BY <2>1
<1>3. CASE m < Here.m
  BY <1>1, <1>2, <1>3
<1>4. CASE ~(m < Here.m)
  <2>1. PICK i \in 1..Len(wire) : wire[i][1].m = m
    <3>1. At(msgs, wire).m <= m /\ m <= Len(msgs) /\ m \in Nat
      BY <1>1, <1>2, <1>4 DEF Here
    <3>2. QED
      BY <1>1, <3>1 DEF Queue
  <2>2. 1 \in DOMAIN wire[i]
    <3>1. Transfer(msgs, wire[i])
      BY <1>1, <2>1 DEF Queue
    <3>2. wire[i] \in Seq(Byte) /\ wire[i] /= <<>>
      BY <1>1, <3>1, TransferIs
    <3>3. QED
      BY <3>2
  <2>3. m \in MessagesIn(wire[i])
    BY <2>1, <2>2 DEF MessagesIn
  <2>4. QED
    BY <1>1, <2>1, <2>3
<1>5. QED
  BY <1>3, <1>4

\* The messages that timed-out reads threw away have a payload.
LostInv == \A m \in lost : msgs[m].len > 0

\* What a read has in hand when it tests its deadline belongs to a message with payload.
LEMMA HeldHasPayload ==
  ASSUME ReceiveInv, pc \in {"header", "payload"}
  PROVE  \A x \in MessagesIn(buf) : msgs[x].len > 0
<1>1. msgs \in MsgSeqs /\ Queue(msgs, wire) /\ HeldInv /\ HeaderLen \in Nat \ {0}
  BY FramingAssumption DEF ReceiveInv, TypeOK, MsgSeqs
<1>2. CASE pc = "payload"
  <2>1. Here.k > HeaderLen /\ buf = Bytes(Here.m, 1, Here.k - 1)
    BY <1>1, <1>2 DEF HeldInv
  <2>2. PICK m \in 1..(Len(msgs) + 1), f \in Nat \ {0} :
          /\ Here.m = m /\ Here.k = f /\ m \in Nat
          /\ wire /= <<>> => m \in 1..Len(msgs) /\ f <= End(msgs, m)
          /\ wire = <<>> => f = 1
    BY <1>1, HereIs
  <2>3. m \in 1..Len(msgs) /\ f <= End(msgs, m) /\ f - 1 \in Nat /\ 1 <= f - 1
    BY <1>1, <2>1, <2>2
  <2>4. MessagesIn(Bytes(m, 1, f - 1)) = {m}
    BY <2>2, <2>3, BytesOfOne
  <2>5. msgs[m].len \in Nat /\ End(msgs, m) = HeaderLen + msgs[m].len
    BY <1>1, <2>3, EndIs DEF End
  <2>6. msgs[m].len > 0
    BY <1>1, <2>1, <2>2, <2>3, <2>5
  <2>7. QED
    BY <2>1, <2>2, <2>4, <2>6
<1>3. CASE pc = "header" /\ buf /= <<>>
  <2>1. PICK m \in 1..Len(msgs), f \in Nat \ {0} :
          f > HeaderLen /\ f <= End(msgs, m) /\ buf = Bytes(m, f, End(msgs, m))
    BY <1>1, <1>3 DEF HeldInv
  <2>2. End(msgs, m) \in Nat /\ m \in Nat
    BY <1>1, EndIs
  <2>3. MessagesIn(buf) = {m}
    BY <2>1, <2>2, BytesOfOne
  <2>4. msgs[m].len \in Nat /\ End(msgs, m) = HeaderLen + msgs[m].len
    BY <1>1, <2>1, EndIs DEF End
  <2>5. msgs[m].len > 0
    BY <1>1, <2>1, <2>4
  <2>6. QED
    BY <2>3, <2>5
<1>4. CASE buf = <<>>
  <2>1. DOMAIN buf = {}
    BY <1>4
  <2>2. QED
    BY <2>1 DEF MessagesIn
<1>5. QED
  BY <1>2, <1>3, <1>4

\* Only giving up a read adds to them.
LEMMA LostKeeps == ReceiveInv /\ LostInv /\ [Next]_vars => LostInv'
<1> SUFFICES ASSUME ReceiveInv, LostInv, [Next]_vars PROVE LostInv'
  OBVIOUS
<1>1. lost \subseteq 1..Len(msgs) /\ msgs \in MsgSeqs
  BY DEF ReceiveInv, TypeOK, MsgSeqs
<1>2. CASE CheckHeaderDeadline \/ CheckPayloadDeadline
  <2>1. pc \in {"header", "payload"} /\ msgs' = msgs
        /\ lost' \in {lost, lost \cup MessagesIn(buf)}
    BY <1>2 DEF CheckHeaderDeadline, CheckPayloadDeadline, CheckDeadline, GiveUp, wireVars
  <2>2. \A x \in MessagesIn(buf) : msgs[x].len > 0
    BY <2>1, HeldHasPayload
  <2>3. QED
    BY <2>1, <2>2 DEF LostInv
<1>3. CASE DeviceSend
  <2>1. lost' = lost /\ \E r \in [len : 0..MaxPayload, defect : Defects] : msgs' = Append(msgs, r)
    BY <1>3 DEF DeviceSend, readerVars
  <2>2. \A m \in 1..Len(msgs) : msgs'[m] = msgs[m]
    BY <1>1, <2>1 DEF MsgSeqs
  <2>3. QED
    BY <1>1, <2>1, <2>2 DEF LostInv
<1>4. CASE Unplug \/ Shutdown \/ DeadlinePasses \/ LoopTop \/ TransferFails \/ UNCHANGED vars
  <2>1. lost' = lost /\ msgs' = msgs
    BY <1>4 DEF Unplug, Shutdown, DeadlinePasses, LoopTop, TransferFails, wireVars, readerVars, vars
  <2>2. QED
    BY <2>1 DEF LostInv
<1>5. CASE HeaderTransfer \/ PayloadTransfer
  <2>1. lost' = lost /\ msgs' = msgs
    BY <1>5 DEF HeaderTransfer, PayloadTransfer, Consume
  <2>2. QED
    BY <2>1 DEF LostInv
<1>6. QED
  BY <1>2, <1>3, <1>4, <1>5 DEF Next

\* Until a read whose deadline has passed (in the middle of a message, or before it, while
\* the device was idle) throws bytes away, a running reader has lost nothing: no excess of
\* a header transfer is dropped.  What such reads throw away are messages with a payload.
THEOREM TimeoutsOnly == Spec => []OnlyTimeoutsLose
<1>1. ReceiveInv /\ LostInv => OnlyTimeoutsLose
  <2> SUFFICES ASSUME ReceiveInv, lost = {}, pc /= "stopped", NEW m \in 1..Len(msgs)
               PROVE  \/ m \in RoutedIds
                      \/ \E i \in DOMAIN wire : m \in MessagesIn(wire[i])
    BY DEF OnlyTimeoutsLose, LostInv
  <2>1. \A x \in 1..(Here.m - 1) : x \in RoutedIds
    BY DEF ReceiveInv, InStep
  <2>2. QED
    BY <2>1, BehindOrQueued
<1>2. Init => LostInv
  BY DEF Init, LostInv
<1>3. Spec => []LostInv
  BY <1>2, LostKeeps, ReceiverInvariant, PTL DEF Spec
<1>4. QED
  BY <1>1, <1>3, ReceiverInvariant, PTL

\* A running reader returns the second of two consecutive messages without payload, however
\* far out of step a timeout had left it: skipping on a bad magic resynchronises.
THEOREM BackInStep == Spec => []Resynchronises
<1>1. ReceiveInv => Resynchronises
  <2> SUFFICES ASSUME ReceiveInv, pc /= "stopped", NEW m \in 2..Len(msgs),
                      ~(msgs[m - 1].len > 0), ~(msgs[m].len > 0)
               PROVE  \/ m \in RoutedIds
                      \/ \E i \in DOMAIN wire : m \in MessagesIn(wire[i])
    BY DEF Resynchronises
  <2>1. msgs \in MsgSeqs /\ Len(msgs) \in Nat
    BY DEF ReceiveInv, TypeOK, MsgSeqs
  <2>2. m - 1 \in 1..Len(msgs) /\ m \in 1..Len(msgs)
    BY <2>1
  <2>3. msgs[m - 1].len = 0 /\ msgs[m].len = 0
    BY <2>1, <2>2, EndIs
  <2>4. m \in 1..(Here.m - 1) => m \in RoutedIds
    <3>1. m \in 1..(Here.m - 1) => m \in 2..(Here.m - 1)
      BY <2>1
    <3>2. QED
      BY <2>3, <3>1 DEF ReceiveInv, Resynced
  <2>5. QED
    BY <2>2, <2>4, BehindOrQueued
<1>2. QED
  BY <1>1, ReceiverInvariant, PTL

------------------------------------------------------------------------------
(* The refinement.                                                           *)

\* What a step of anything but the device does to what was returned.
Returns ==
  /\ msgs' = msgs
  /\ \/ routed' = routed /\ (pc = "stopped" => pc' = "stopped")
     \/ pc /= "stopped" /\ pc' /= "stopped" /\ \E b : routed' = Append(routed, b)

\* A complete message is returned, or stops the reader.
LEMMA FinishReturns ==
  ASSUME NEW b, Finish(b), msgs' = msgs, pc /= "stopped"
  PROVE  Returns
<1>1. CASE msgs[b[1].m].defect = "checksum"
  BY <1>1 DEF Finish, Stop, Returns
<1>2. CASE msgs[b[1].m].defect /= "checksum"
  BY <1>2 DEF Finish, Returns
<1>3. QED
  BY <1>1, <1>2

\* Every step that is not the device's returns at most one message.
LEMMA StepReturns ==
  ASSUME ReceiveInv, [Next]_vars
  PROVE  DeviceSend \/ Returns
<1>1. CASE Unplug \/ Shutdown \/ DeadlinePasses
  BY <1>1 DEF Unplug, Shutdown, DeadlinePasses, Returns, readerVars, wireVars
<1>2. CASE LoopTop
  BY <1>2 DEF LoopTop, Returns, wireVars
<1>3. CASE CheckHeaderDeadline \/ CheckPayloadDeadline
  BY <1>3 DEF CheckHeaderDeadline, CheckPayloadDeadline, CheckDeadline, GiveUp, Returns, wireVars
<1>4. CASE TransferFails
  BY <1>4 DEF TransferFails, Stop, Returns, wireVars
<1>5. CASE UNCHANGED vars
  BY <1>5 DEF vars, Returns
<1>6. CASE HeaderTransfer
  <2>1. msgs' = msgs /\ pc = "inHeader" /\ shutdown \in BOOLEAN
    BY <1>6 DEF HeaderTransfer, Consume, ReceiveInv, TypeOK
  <2>2. PICK b : IF Len(b) < HeaderLen
                 THEN pc' = "header" /\ UNCHANGED <<routed, shutdown>>
                 ELSE AfterHeader(b)
    BY <1>6 DEF HeaderTransfer
  <2>3. CASE Len(b) < HeaderLen
    BY <2>1, <2>2, <2>3 DEF Returns
  <2>4. CASE ~(Len(b) < HeaderLen)
    <3>1. AfterHeader(b)
      BY <2>2, <2>4
    <3>2. \/ routed' = routed
          \/ pc' = "loop" /\ routed' = Append(routed, b)
      BY <2>1, <3>1, AfterHeaderIs
    <3>3. QED
      BY <2>1, <3>2 DEF Returns
  <2>5. QED
    BY <2>3, <2>4
<1>7. CASE PayloadTransfer
  <2>1. msgs' = msgs /\ pc = "inPayload"
    BY <1>7 DEF PayloadTransfer, Consume
  <2>2. PICK b : \/ pc' = "payload" /\ UNCHANGED <<routed, shutdown>>
                 \/ Finish(b)
    BY <1>7 DEF PayloadTransfer
  <2>3. QED
    BY <2>1, <2>2, FinishReturns DEF Returns
<1>8. QED
  BY <1>1, <1>2, <1>3, <1>4, <1>5, <1>6, <1>7 DEF Next

\* A sequence with the elements of s and then x is s with x appended.
LEMMA AppendBy ==
  ASSUME NEW s \in Seq(Nat), NEW t \in Seq(Nat), NEW x \in Nat, Len(t) = Len(s) + 1,
         \A i \in 1..Len(s) : t[i] = s[i], t[Len(s) + 1] = x
  PROVE  t = Append(s, x)
<1>1. /\ Append(s, x) \in Seq(Nat) /\ Len(Append(s, x)) = Len(s) + 1
      /\ \A i \in 1..Len(s) : Append(s, x)[i] = s[i]
      /\ Append(s, x)[Len(s) + 1] = x
  BY AppendProperties
<1>2. \A i \in 1..Len(t) : i \in 1..Len(s) \/ i = Len(s) + 1
  OBVIOUS
<1>3. \A i \in 1..Len(t) : t[i] = Append(s, x)[i]
  BY <1>1, <1>2
<1>4. QED
  BY <1>1, <1>3, SeqEqual

\* The numbers of the messages in r.
Numbers(r) == [i \in DOMAIN r |-> r[i][1].m]

\* They are a sequence of numbers as long as r.
LEMMA NumbersAre ==
  ASSUME NEW r \in Seq(Seq(Byte)), \A i \in 1..Len(r) : r[i][1].m \in Nat
  PROVE  /\ Numbers(r) \in Seq(Nat) /\ Len(Numbers(r)) = Len(r)
         /\ \A i \in 1..Len(r) : Numbers(r)[i] = r[i][1].m
<1>1. DOMAIN r = 1..Len(r) /\ Len(r) \in Nat
  OBVIOUS
<1>2. Numbers(r) \in [1..Len(r) -> Nat]
  BY <1>1 DEF Numbers
<1>3. Numbers(r) \in Seq(Nat) /\ DOMAIN Numbers(r) = 1..Len(r)
  <2>1. PICK n \in Nat : n = Len(r)
    BY <1>1
  <2>2. Numbers(r) \in [1..n -> Nat]
    BY <1>2, <2>1
  <2>3. Numbers(r) \in Seq(Nat)
    BY <2>2, SeqDef
  <2>4. QED
    BY <1>2, <2>3
<1>4. Len(Numbers(r)) = Len(r)
  BY <1>1, <1>3, LenProperties
<1>5. \A i \in 1..Len(r) : Numbers(r)[i] = r[i][1].m
  BY <1>1 DEF Numbers
<1>6. QED
  BY <1>3, <1>4, <1>5

\* The numbers of what was returned: increasing, and all of messages sent.
LEMMA RoutedNumbers ==
  ASSUME ReceiveInv
  PROVE  /\ routed \in Seq(Seq(Byte)) /\ Len(msgs) \in Nat
         /\ \A i \in 1..Len(routed) : routed[i][1].m \in 1..Len(msgs)
         /\ \A i, j \in 1..Len(routed) : i < j => routed[i][1].m < routed[j][1].m
<1>1. msgs \in MsgSeqs /\ Queue(msgs, wire) /\ Len(msgs) \in Nat
  BY DEF ReceiveInv, TypeOK, MsgSeqs
<1>2. \A x \in 1..(Here.m - 1) : x \in 1..Len(msgs)
  <2>1. Here.m \in 1..(Len(msgs) + 1)
    BY <1>1, HereIs
  <2>2. QED
    BY <1>1, <2>1
<1>3. \A i \in 1..Len(routed) : routed[i][1].m \in 1..(Here.m - 1)
  BY DEF ReceiveInv, RoutedInv
<1>4. /\ routed \in Seq(Seq(Byte))
      /\ \A i, j \in 1..Len(routed) : i < j => routed[i][1].m < routed[j][1].m
  BY DEF ReceiveInv, RoutedInv
<1>5. QED
  BY <1>1, <1>2, <1>3, <1>4

\* Returning a message delivers one that is newer than the latest.
LEMMA Delivers ==
  ASSUME ReceiveInv, ReceiveInv', msgs' = msgs, NEW b, routed' = Append(routed, b)
  PROVE  LET d == Numbers(routed)
             last == IF d = <<>> THEN 0 ELSE d[Len(d)]
         IN \E m \in (last + 1)..Len(msgs) : Numbers(routed)' = Append(d, m)
<1> DEFINE d == Numbers(routed)
           e == Numbers(routed')
           n == Len(routed)
           x == routed'[n + 1][1].m
<1>1. /\ routed \in Seq(Seq(Byte)) /\ Len(msgs) \in Nat /\ n \in Nat
      /\ \A i \in 1..n : routed[i][1].m \in 1..Len(msgs)
  BY RoutedNumbers
<1>2. /\ routed' \in Seq(Seq(Byte))
      /\ \A i \in 1..Len(routed') : routed'[i][1].m \in 1..Len(msgs)
      /\ \A i, j \in 1..Len(routed') : i < j => routed'[i][1].m < routed'[j][1].m
  <2>1. (/\ routed \in Seq(Seq(Byte)) /\ Len(msgs) \in Nat
         /\ \A i \in 1..Len(routed) : routed[i][1].m \in 1..Len(msgs)
         /\ \A i, j \in 1..Len(routed) : i < j => routed[i][1].m < routed[j][1].m)'
    BY RoutedNumbers, PTL
  <2>2. QED
    BY <2>1
<1>3. /\ Len(routed') = n + 1 /\ \A i \in 1..n : routed'[i] = routed[i]
  BY <1>1, <1>2
<1>4. \A i \in 1..n : i \in 1..Len(routed') /\ i < n + 1 /\ n + 1 \in 1..Len(routed')
  BY <1>1, <1>3
<1>5. /\ d \in Seq(Nat) /\ Len(d) = n /\ \A i \in 1..n : d[i] = routed[i][1].m
  <2>1. \A i \in 1..Len(routed) : routed[i][1].m \in Nat
    BY <1>1
  <2>2. QED
    BY <1>1, <2>1, NumbersAre
<1>6. /\ e \in Seq(Nat) /\ Len(e) = n + 1 /\ \A i \in 1..Len(routed') : e[i] = routed'[i][1].m
  <2>1. \A i \in 1..Len(routed') : routed'[i][1].m \in Nat
    <3>1. \A y \in 1..Len(msgs) : y \in Nat
      BY <1>1
    <3>2. QED
      BY <1>2, <3>1
  <2>2. QED
    BY <1>2, <1>3, <2>1, NumbersAre
<1>7. n + 1 \in 1..Len(routed') /\ x \in 1..Len(msgs) /\ x \in Nat
  BY <1>1, <1>2, <1>3
<1> HIDE DEF d, e, n, x
<1>8. e = Append(d, x)
  <2>1. \A i \in 1..Len(d) : e[i] = d[i]
    BY <1>3, <1>4, <1>5, <1>6
  <2>2. e[Len(d) + 1] = x
    BY <1>5, <1>6, <1>7 DEF x
  <2>3. QED
    BY <1>5, <1>6, <1>7, <2>1, <2>2, AppendBy
<1>9. x \in ((IF d = <<>> THEN 0 ELSE d[Len(d)]) + 1)..Len(msgs)
  <2>1. CASE d = <<>>
    BY <1>1, <1>7, <2>1
  <2>2. CASE d /= <<>>
    <3>1. n \in 1..n
      BY <1>1, <1>5, <2>2
    <3>2. d[Len(d)] = routed[n][1].m /\ routed[n][1].m \in 1..Len(msgs)
      BY <1>1, <1>5, <3>1 DEF n
    <3>3. routed[n][1].m < x
      BY <1>2, <1>3, <1>4, <3>1 DEF x
    <3>4. QED
      BY <1>1, <1>7, <2>2, <3>2, <3>3
  <2>3. QED
    BY <2>1, <2>2
<1>10. e = Numbers(routed)'
  BY DEF e, Numbers
<1>11. QED
  BY <1>8, <1>9, <1>10 DEF d

\* Every step of the reader, of the device and of the rest of the program is a step of
\* the pipe or leaves it alone.
LEMMA PipeStep == ReceiveInv /\ ReceiveInv' /\ [Next]_vars => [Pipe!Next]_(Pipe!pipeVars)
<1> SUFFICES ASSUME ReceiveInv, ReceiveInv', [Next]_vars
             PROVE  [Pipe!Next]_(Pipe!pipeVars)
  OBVIOUS
<1>1. CASE DeviceSend
  <2>1. Len(msgs') = Len(msgs) + 1
    <3>1. msgs \in MsgSeqs
      BY DEF ReceiveInv, TypeOK, MsgSeqs
    <3>2. PICK r : msgs' = Append(msgs, r) /\ r \in [len : 0..MaxPayload, defect : Defects]
      BY <1>1 DEF DeviceSend
    <3>3. QED
      BY <3>1, <3>2 DEF MsgSeqs
  <2>2. routed' = routed /\ pc' = pc
    BY <1>1 DEF DeviceSend, readerVars
  <2>3. Pipe!Send
    BY <2>1, <2>2 DEF Pipe!Send
  <2>4. QED
    BY <2>3 DEF Pipe!Next
<1>2. CASE Returns /\ routed' = routed
  <2>1. CASE pc' = "stopped"
    <3>1. Pipe!Break
      BY <1>2, <2>1 DEF Returns, Pipe!Break
    <3>2. QED
      BY <3>1 DEF Pipe!Next
  <2>2. CASE pc' /= "stopped"
    <3>1. UNCHANGED Pipe!pipeVars
      BY <1>2, <2>2 DEF Returns, Pipe!pipeVars
    <3>2. QED
      BY <3>1
  <2>3. QED
    BY <2>1, <2>2
<1>3. CASE Returns /\ routed' /= routed
  <2>1. PICK b : pc /= "stopped" /\ pc' /= "stopped" /\ routed' = Append(routed, b) /\ msgs' = msgs
    BY <1>3 DEF Returns
  <2>2. LET d == Numbers(routed)
            last == IF d = <<>> THEN 0 ELSE d[Len(d)]
        IN \E m \in (last + 1)..Len(msgs) : Numbers(routed)' = Append(d, m)
    BY <2>1, Delivers
  <2>3. Pipe!Deliver
    BY <2>1, <2>2 DEF Pipe!Deliver, Pipe!Latest, Numbers
  <2>4. QED
    BY <2>3 DEF Pipe!Next
<1>4. QED
  BY <1>1, <1>2, <1>3, StepReturns

\* usb_read_message and reader_loop implement the pipe the dispatcher relies on: nothing is
\* returned twice, out of order, or that the device did not send.
THEOREM Implements == Spec => ImplementsPipe
<1>1. Init => Pipe!Init
  <2> SUFFICES ASSUME Init PROVE Pipe!Init
    OBVIOUS
  <2>1. msgs = <<>> /\ routed = <<>> /\ pc = "loop"
    BY DEF Init
  <2>2. DOMAIN routed = {} /\ Len(msgs) = 0
    BY <2>1
  <2>3. [i \in DOMAIN routed |-> routed[i][1].m] = <<>>
    BY <2>2
  <2>4. QED
    BY <2>1, <2>2, <2>3 DEF Pipe!Init
<1>2. ReceiveInv /\ ReceiveInv' /\ [Next]_vars => [Pipe!Next]_(Pipe!pipeVars)
  BY PipeStep
<1>3. QED
  BY <1>1, <1>2, ReceiverInvariant, PTL DEF Spec, ImplementsPipe, Pipe!Spec
================================================================================
