------------------------ MODULE OperationsEdl_proofs -------------------------
(*****************************************************************************)
(* What the EDL operations do with a device, for every value of the constants:*)
(* verify_write, the list of partitions, transfers and the batch flash.  The  *)
(* variables of one do not depend on those of another, so each has an        *)
(* inductive invariant of its own.                                           *)
(*****************************************************************************)
EXTENDS MCOperations, SequenceTheorems, TLAPS

------------------------------------------------------------------------------
(* verify_write.                                                            *)

\* A step of the operations is a step of edl_verify or leaves it alone.
LEMMA VerifySteps == [Next]_operationVars => Verify!Next \/ UNCHANGED verifyVars
  BY DEF Next, Only, operationVars

\* The operations' constants are what EdlVerify assumes of its own.
LEMMA VerifyConstants == Verify!VerifyAssumption
  BY OperationsAssumption DEF OperationsAssumption

\* The first and the last n elements of a sequence of numbers.
LEMMA Ends ==
  ASSUME NEW s \in Seq(Int), NEW n \in 0 .. Len(s)
  PROVE  /\ Verify!First(s, n) \in Seq(Int) /\ Len(Verify!First(s, n)) = n
         /\ \A i \in 1 .. n : Verify!First(s, n)[i] = s[i]
         /\ Verify!Last(s, n) \in Seq(Int) /\ Len(Verify!Last(s, n)) = n
         /\ \A i \in 1 .. n : Verify!Last(s, n)[i] = s[Len(s) - n + i]
<1> DEFINE l == Len(s)
<1>1. l \in Nat /\ n \in Int /\ l - n + 1 \in Int /\ \A i \in 1 .. l : s[i] \in Int
  OBVIOUS
<1>2. (\A i \in 1 .. n : s[i] \in Int) /\ (\A i \in l - n + 1 .. l : s[i] \in Int)
  BY <1>1
<1>3. /\ SubSeq(s, 1, n) \in Seq(Int) /\ Len(SubSeq(s, 1, n)) = IF 1 <= n THEN n - 1 + 1 ELSE 0
      /\ \A i \in 1 .. n - 1 + 1 : SubSeq(s, 1, n)[i] = s[1 + i - 1]
  BY <1>1, <1>2, SubSeqProperties
<1> DEFINE a == l - n + 1
<1>4. /\ SubSeq(s, a, l) \in Seq(Int) /\ Len(SubSeq(s, a, l)) = IF a <= l THEN l - a + 1 ELSE 0
      /\ \A i \in 1 .. l - a + 1 : SubSeq(s, a, l)[i] = s[a + i - 1]
  <2> a \in Int /\ l \in Int /\ \A i \in a .. l : s[i] \in Int
    BY <1>1, <1>2
  <2> HIDE DEF a, l
  <2> QED BY SubSeqProperties
<1>5. /\ Verify!First(s, n) \in Seq(Int) /\ Len(Verify!First(s, n)) = n
      /\ \A i \in 1 .. n : Verify!First(s, n)[i] = s[i]
  BY <1>1, <1>3 DEF Verify!First
<1>6. /\ Verify!Last(s, n) \in Seq(Int) /\ Len(Verify!Last(s, n)) = n
      /\ \A i \in 1 .. n : Verify!Last(s, n)[i] = s[l - n + i]
  <2>1. Verify!Last(s, n) = SubSeq(s, a, l)
    BY DEF Verify!Last
  <2> QED BY <1>1, <1>4, <2>1
<1> QED BY <1>5, <1>6

\* What a comparison of hashes has found.
Agree ==
  /\ head = Verify!FileHashes[1]
  /\ Verify!Total <= 2 * Chunk \/ tail = Verify!FileHashes[2]

\* The file's sectors are numbered, each of the partition's holds the file's, what was there before
\* or a wrong one; a chunk that was read is an end of the partition; the verdict is that of the hashes.
VerifyInv ==
  /\ source \in Seq(Nat) /\ target \in Seq(Int) /\ head \in Seq(Int) /\ tail \in Seq(Int)
  /\ verdict \in {"none", "passed", "mismatch", "error"}
  /\ (source = <<>>) <=> (target = <<>>)
  /\ target = <<>> => head = <<>>
  /\ head = <<>> => tail = <<>>
  /\ \A i \in 1 .. Len(source) : source[i] = i
  /\ \A i \in 1 .. Len(target) : target[i] \in {Verify!Bad, Verify!Old} \/ (i <= Len(source) /\ target[i] = i)
  /\ head /= <<>> => head = Verify!First(target, Verify!CheckSize)
  /\ tail /= <<>> => tail = Verify!Last(target, Verify!CheckSize)
  /\ verdict \in {"passed", "mismatch"} =>
       /\ head /= <<>> /\ (tail /= <<>> \/ Verify!Total <= 2 * Chunk)
       /\ verdict = "passed" <=> Agree

\* VerifyInv holds from every call of edl_verify to its end.
LEMMA VerifyInvariance == Spec => []VerifyInv
<1> USE VerifyConstants DEF Verify!VerifyAssumption
<1>1. Init => VerifyInv
  BY DEF Init, Verify!Init, VerifyInv
<1>2. VerifyInv /\ [Next]_operationVars => VerifyInv'
  <2> SUFFICES ASSUME VerifyInv, [Next]_operationVars PROVE VerifyInv'
    OBVIOUS
  <2>s. Verify!Next \/ UNCHANGED verifyVars
    BY VerifySteps
  <2>1. CASE Verify!Write
    <3>1. PICK len \in 1 .. MaxLen, extent \in 1 .. MaxLen, wrong \in 0 .. MaxLen :
            /\ source' = [i \in 1 .. len |-> i]
            /\ target' = Verify!Written([i \in 1 .. len |-> i], extent, wrong)
      BY <2>1 DEF Verify!Write
    <3>2. /\ source' \in Seq(Nat) /\ Len(source') = len /\ source' /= <<>>
          /\ \A i \in 1 .. Len(source') : source'[i] = i
      BY <3>1
    <3>3. /\ target' \in Seq(Int) /\ Len(target') = extent /\ target' /= <<>>
          /\ \A i \in 1 .. extent : target'[i] \in {Verify!Bad, Verify!Old} \/ (i <= len /\ target'[i] = i)
      <4>1. target' = [i \in 1 .. extent |-> IF i = wrong THEN -1 ELSE IF i <= len THEN i ELSE 0]
        BY <3>1 DEF Verify!Written, Verify!Bad, Verify!Old
      <4> QED BY <4>1 DEF Verify!Bad, Verify!Old
    <3>4. source = <<>> /\ head = <<>> /\ tail = <<>> /\ UNCHANGED <<head, tail, verdict>>
          /\ verdict \notin {"passed", "mismatch"}
      BY <2>1 DEF Verify!Write, VerifyInv
    <3> QED BY <3>2, <3>3, <3>4 DEF VerifyInv
  <2>2. CASE Verify!ReadHead
    <3>1. target \in Seq(Int) /\ Verify!CheckSize \in 1 .. Len(target)
      BY <2>2 DEF VerifyInv, Verify!ReadHead, Verify!CheckSize, Verify!AtMost, Verify!Total
    <3>2. Verify!First(target, Verify!CheckSize) \in Seq(Int) /\ Len(Verify!First(target, Verify!CheckSize)) >= 1
      BY <3>1, Ends
    <3>3. head' = Verify!First(target, Verify!CheckSize) /\ head' /= <<>> /\ head' \in Seq(Int)
          /\ UNCHANGED <<source, target, tail, verdict>> /\ verdict = "none" /\ head = <<>> /\ target /= <<>>
      BY <2>2, <3>2 DEF Verify!ReadHead
    <3> QED BY <3>3 DEF VerifyInv, Verify!CheckSize, Verify!Total
  <2>3. CASE Verify!ReadTail
    <3>1. target \in Seq(Int) /\ Verify!CheckSize \in 1 .. Len(target)
      BY <2>3 DEF VerifyInv, Verify!ReadTail, Verify!CheckSize, Verify!AtMost, Verify!Total
    <3>2. Verify!Last(target, Verify!CheckSize) \in Seq(Int) /\ Len(Verify!Last(target, Verify!CheckSize)) >= 1
      BY <3>1, Ends
    <3>3. tail' = Verify!Last(target, Verify!CheckSize) /\ tail' /= <<>> /\ tail' \in Seq(Int)
          /\ UNCHANGED <<source, target, head, verdict>> /\ verdict = "none" /\ head /= <<>>
      BY <2>3, <3>2 DEF Verify!ReadTail
    <3> QED BY <3>3 DEF VerifyInv, Verify!CheckSize, Verify!Total
  <2>4. CASE Verify!ReadFails \/ UNCHANGED verifyVars
    BY <2>4 DEF Verify!ReadFails, verifyVars, VerifyInv, Agree, Verify!FileHashes, Verify!Total, Verify!CheckSize
  <2>5. CASE Verify!Compare
    BY <2>5 DEF Verify!Compare, VerifyInv, Agree, Verify!FileHashes, Verify!Total, Verify!CheckSize
  <2> QED BY <2>s, <2>1, <2>2, <2>3, <2>4, <2>5 DEF Verify!Next
<1> QED BY <1>1, <1>2, PTL DEF Spec

\* What the chunks are, sector by sector.
LEMMA Chunks ==
  ASSUME VerifyInv, verdict \in {"passed", "mismatch"}
  PROVE  /\ Len(source) \in Nat \ {0} /\ Len(target) \in Nat \ {0}
         /\ head \in Seq(Int) /\ Len(head) = Verify!CheckSize
         /\ \A i \in 1 .. Verify!CheckSize : head[i] = target[i]
         /\ Verify!Total > 2 * Chunk =>
              /\ tail \in Seq(Int) /\ Len(tail) = Chunk
              /\ \A i \in 1 .. Chunk : tail[i] = target[Len(target) - Chunk + i]
<1> USE VerifyConstants DEF Verify!VerifyAssumption
<1>1. /\ source \in Seq(Nat) /\ target \in Seq(Int) /\ source /= <<>> /\ target /= <<>>
      /\ head = Verify!First(target, Verify!CheckSize)
      /\ tail /= <<>> => tail = Verify!Last(target, Verify!CheckSize)
      /\ tail /= <<>> \/ Verify!Total <= 2 * Chunk
  BY DEF VerifyInv
<1>2. Len(source) \in Nat \ {0} /\ Len(target) \in Nat \ {0}
  BY <1>1
<1>3. Verify!CheckSize \in 1 .. Len(target) /\ (Verify!Total > 2 * Chunk => Verify!CheckSize = Chunk)
  BY <1>2 DEF Verify!CheckSize, Verify!AtMost, Verify!Total
<1>4. head \in Seq(Int) /\ Len(head) = Verify!CheckSize /\ \A i \in 1 .. Verify!CheckSize : head[i] = target[i]
  <2>1. target \in Seq(Int) /\ Verify!CheckSize \in 0 .. Len(target)
    BY <1>1, <1>2, <1>3
  <2>2. LET h == Verify!First(target, Verify!CheckSize) IN
        h \in Seq(Int) /\ Len(h) = Verify!CheckSize /\ \A i \in 1 .. Verify!CheckSize : h[i] = target[i]
    BY <2>1, Ends
  <2> QED BY <1>1, <2>2
<1>5. ASSUME Verify!Total > 2 * Chunk
      PROVE  /\ tail \in Seq(Int) /\ Len(tail) = Chunk
             /\ \A i \in 1 .. Chunk : tail[i] = target[Len(target) - Chunk + i]
  <2>1. tail = Verify!Last(target, Chunk) /\ Chunk \in 0 .. Len(target)
    BY <1>1, <1>2, <1>3, <1>5 DEF Verify!Total
  <2> QED BY <1>1, <2>1, Ends
<1> QED BY <1>2, <1>4, <1>5

\* What the file's hashes are of: with n sectors of the file in the partition, its first and last ones.
LEMMA Hashed ==
  ASSUME VerifyInv, verdict \in {"passed", "mismatch"},
         NEW n, n = Verify!AtMost(Len(source), Len(target)),
         NEW c, c = IF n <= 2 * Chunk THEN n ELSE Chunk
  PROVE  /\ n \in Nat /\ c \in Nat /\ c <= n
         /\ Verify!FileHashes[1] \in Seq(Int) /\ Len(Verify!FileHashes[1]) = c
         /\ \A i \in 1 .. c : Verify!FileHashes[1][i] = i
         /\ Verify!FileHashes[2] \in Seq(Int) /\ Len(Verify!FileHashes[2]) = c
         /\ \A i \in 1 .. c : Verify!FileHashes[2][i] = n - c + i
<1> USE VerifyConstants DEF Verify!VerifyAssumption
<1> DEFINE part == Verify!First(source, n)
<1>1. source \in Seq(Int) /\ \A i \in 1 .. Len(source) : source[i] = i
  BY DEF VerifyInv
<1>2. Len(source) \in Nat /\ Len(target) \in Nat /\ n \in 0 .. Len(source)
  BY <1>1, Chunks DEF Verify!AtMost
<1>3. part \in Seq(Int) /\ Len(part) = n /\ \A i \in 1 .. n : part[i] = i
  <2>1. part \in Seq(Int) /\ Len(part) = n /\ \A i \in 1 .. n : part[i] = source[i]
    BY <1>1, <1>2, Ends
  <2> HIDE DEF part
  <2> QED BY <1>1, <1>2, <2>1
<1>4. Verify!FileHashes = IF Len(part) <= 2 * Chunk THEN <<part, part>>
                          ELSE <<Verify!First(part, Chunk), Verify!Last(part, Chunk)>>
  BY DEF Verify!FileHashes, Verify!Total
<1> HIDE DEF part
<1>5. CASE n <= 2 * Chunk
  BY <1>2, <1>3, <1>4, <1>5
<1>6. CASE n > 2 * Chunk
  <2>1. c = Chunk /\ Chunk \in 0 .. Len(part)
        /\ Verify!FileHashes[1] = Verify!First(part, Chunk) /\ Verify!FileHashes[2] = Verify!Last(part, Chunk)
    BY <1>2, <1>3, <1>4, <1>6
  <2>2. /\ Verify!First(part, Chunk) \in Seq(Int) /\ Len(Verify!First(part, Chunk)) = Chunk
        /\ \A i \in 1 .. Chunk : Verify!First(part, Chunk)[i] = part[i]
        /\ Verify!Last(part, Chunk) \in Seq(Int) /\ Len(Verify!Last(part, Chunk)) = Chunk
        /\ \A i \in 1 .. Chunk : Verify!Last(part, Chunk)[i] = part[Len(part) - Chunk + i]
    BY <1>3, <2>1, Ends
  <2>3. \A i \in 1 .. Chunk : i \in 1 .. n /\ Len(part) - Chunk + i \in 1 .. n
    BY <1>2, <1>3, <1>6
  <2>4. \A i \in 1 .. Chunk : part[i] = i /\ part[Len(part) - Chunk + i] = n - Chunk + i
    BY <1>3, <2>3
  <2>5. /\ \A i \in 1 .. Chunk : Verify!FileHashes[1][i] = i
        /\ \A i \in 1 .. Chunk : Verify!FileHashes[2][i] = n - Chunk + i
    BY <2>1, <2>2, <2>4
  <2>6. n \in Nat /\ c \in Nat /\ c <= n
    BY <1>2, <1>6, <2>1
  <2>7. /\ Verify!FileHashes[1] \in Seq(Int) /\ Len(Verify!FileHashes[1]) = c
        /\ Verify!FileHashes[2] \in Seq(Int) /\ Len(Verify!FileHashes[2]) = c
    BY <2>1, <2>2
  <2> DEFINE first == Verify!FileHashes[1]
             final == Verify!FileHashes[2]
  <2>8. /\ \A i \in 1 .. c : first[i] = i
        /\ \A i \in 1 .. c : final[i] = n - c + i
    BY <2>1, <2>5
  <2>9. first \in Seq(Int) /\ Len(first) = c /\ final \in Seq(Int) /\ Len(final) = c
    BY <2>7
  <2> HIDE DEF first, final
  <2>10. /\ first \in Seq(Int) /\ Len(first) = c /\ \A i \in 1 .. c : first[i] = i
         /\ final \in Seq(Int) /\ Len(final) = c /\ \A i \in 1 .. c : final[i] = n - c + i
    BY <2>8, <2>9, Zenon
  <2> QED BY <2>6, <2>10, Zenon DEF first, final
<1>7. n <= 2 * Chunk \/ n > 2 * Chunk
  BY <1>2
<1> QED BY <1>5, <1>6, <1>7, Zenon

\* verify_write passes no write that differs where it looks, and only the ends of a file that is short or
\* checked by overlapping ends make it call a correct one wrong: VerifyExact, for every file and chunk size.
THEOREM VerifyIsExact == Spec => []VerifyExact
<1> USE VerifyConstants DEF Verify!VerifyAssumption
<1>1. ASSUME VerifyInv, verdict = "passed", NEW i \in Verify!Checked PROVE Verify!Holds(i)
  <2> DEFINE n == Verify!AtMost(Len(source), Len(target))
             c == IF n <= 2 * Chunk THEN n ELSE Chunk
  <2> SUFFICES ASSUME i <= Len(source) PROVE target[i] = source[i]
    BY DEF Verify!Holds
  <2>1. /\ Len(source) \in Nat \ {0} /\ Len(target) \in Nat \ {0}
        /\ Len(head) = Verify!CheckSize /\ \A k \in 1 .. Verify!CheckSize : head[k] = target[k]
        /\ Verify!Total > 2 * Chunk =>
             Len(tail) = Chunk /\ \A k \in 1 .. Chunk : tail[k] = target[Len(target) - Chunk + k]
    BY <1>1, Chunks
  <2>2. /\ n \in Nat /\ c \in Nat /\ c <= n
        /\ Len(Verify!FileHashes[1]) = c /\ \A k \in 1 .. c : Verify!FileHashes[1][k] = k
        /\ Len(Verify!FileHashes[2]) = c /\ \A k \in 1 .. c : Verify!FileHashes[2][k] = n - c + k
    <3> HIDE DEF c, n
    <3> QED BY <1>1, Hashed DEF c, n
  <2>3. head = Verify!FileHashes[1] /\ (Verify!Total <= 2 * Chunk \/ tail = Verify!FileHashes[2])
    BY <1>1 DEF VerifyInv, Agree
  <2>4. /\ \A k \in 1 .. Len(source) : source[k] = k
        /\ \A k \in 1 .. Len(target) : target[k] \in {-1, 0} \/ (k <= Len(source) /\ target[k] = k)
    BY <1>1 DEF VerifyInv, Verify!Bad, Verify!Old
  <2>5. CASE i \in 1 .. Verify!CheckSize
    BY <2>1, <2>2, <2>3, <2>4, <2>5 DEF Verify!CheckSize, Verify!AtMost, Verify!Total
  <2>6. CASE Verify!Total > 2 * Chunk /\ i \in Verify!Total - Chunk + 1 .. Verify!Total
    <3> DEFINE t == Len(target)
               l == Len(source)
    <3>1. tail = Verify!FileHashes[2] /\ c = Chunk /\ t > 2 * Chunk /\ i \in t - Chunk + 1 .. t /\ i <= l
      BY <2>1, <2>2, <2>3, <2>6 DEF Verify!Total
    <3>2. n > 2 * Chunk /\ n = IF l < t THEN l ELSE t
      BY <2>1, <2>6, <3>1 DEF Verify!AtMost
    <3>3. \A k \in 1 .. Chunk : target[t - Chunk + k] = n - Chunk + k
      BY <2>1, <2>2, <2>6, <3>1
    <3> HIDE DEF n, c
    <3>4. i - (t - Chunk) \in 1 .. Chunk /\ t - Chunk + (i - (t - Chunk)) = i
      BY <2>1, <3>1
    <3>5. target[i] = n - Chunk + (i - (t - Chunk))
      <4> DEFINE k == i - (t - Chunk)
      <4>1. target[t - Chunk + k] = n - Chunk + k
        BY <3>3, <3>4
      <4> QED BY <3>4, <4>1
    <3>6. target[i] > 0
      <4>1. n \in Int /\ t \in Int /\ i \in Int /\ Chunk \in Nat /\ i > t - Chunk /\ n > 2 * Chunk
        BY <2>1, <2>2, <3>1, <3>2
      <4> HIDE DEF t
      <4> QED BY <3>5, <4>1
    <3>7. target[i] = i
      <4>1. i \in 1 .. Len(target)
        BY <2>1, <3>1
      <4>2. target[i] \in {-1, 0} \/ target[i] = i
        BY <2>4, <4>1
      <4> QED BY <3>6, <4>2
    <3> QED BY <2>1, <2>4, <3>1, <3>7
  <2> QED BY <1>1, <2>5, <2>6 DEF Verify!Checked
<1>2. ASSUME VerifyInv, verdict = "mismatch", Verify!Correct, ~Verify!EndsDiffer PROVE FALSE
  <2> DEFINE n == Verify!AtMost(Len(source), Len(target))
             c == IF n <= 2 * Chunk THEN n ELSE Chunk
             t == Len(target)
  <2>1. /\ Len(source) \in Nat \ {0} /\ t \in Nat \ {0}
        /\ head \in Seq(Int) /\ Len(head) = Verify!CheckSize /\ \A k \in 1 .. Verify!CheckSize : head[k] = target[k]
        /\ Verify!Total > 2 * Chunk =>
             tail \in Seq(Int) /\ Len(tail) = Chunk /\ \A k \in 1 .. Chunk : tail[k] = target[t - Chunk + k]
    BY <1>2, Chunks
  <2>2. /\ n \in Nat /\ c \in Nat /\ c <= n
        /\ Verify!FileHashes[1] \in Seq(Int) /\ Len(Verify!FileHashes[1]) = c
        /\ \A k \in 1 .. c : Verify!FileHashes[1][k] = k
        /\ Verify!FileHashes[2] \in Seq(Int) /\ Len(Verify!FileHashes[2]) = c
        /\ \A k \in 1 .. c : Verify!FileHashes[2][k] = n - c + k
    <3> HIDE DEF c, n
    <3> QED BY <1>2, Hashed DEF c, n
  <2>3. t <= Len(source) /\ (t <= Chunk \/ t > 2 * Chunk) /\ Verify!CheckSize = IF Chunk < t THEN Chunk ELSE t
    BY <1>2, <2>1 DEF Verify!EndsDiffer, Verify!Total, Verify!CheckSize, Verify!AtMost
  <2>4. \A k \in 1 .. t : target[k] = k
    <3>1. \A k \in 1 .. t : k <= Len(source) => target[k] = source[k]
      BY <1>2 DEF Verify!Correct, Verify!Holds, Verify!Total
    <3>2. \A k \in 1 .. Len(source) : source[k] = k
      BY <1>2 DEF VerifyInv
    <3>3. \A k \in 1 .. t : k \in 1 .. Len(source)
      BY <2>1, <2>3
    <3> HIDE DEF t
    <3> QED BY <3>1, <3>2, <3>3
  <2>5. n = t /\ c = Verify!CheckSize
    BY <2>1, <2>3 DEF Verify!AtMost
  <2>6. head = Verify!FileHashes[1]
    <3> DEFINE h == Verify!FileHashes[1]
               e == Verify!CheckSize
    <3>1. head \in Seq(Int) /\ Len(head) = e /\ h \in Seq(Int) /\ Len(h) = e
      BY <2>1, <2>2, <2>5
    <3>2. \A k \in 1 .. e : k \in 1 .. t
      BY <2>1, <2>3
    <3>3. \A k \in 1 .. e : head[k] = k /\ h[k] = k
      BY <2>1, <2>2, <2>4, <2>5, <3>2
    <3> HIDE DEF h, e
    <3>4. head = h
      BY <3>1, <3>3
    <3> QED BY <3>4 DEF h
  <2>7. t > 2 * Chunk => tail = Verify!FileHashes[2]
    <3> SUFFICES ASSUME t > 2 * Chunk PROVE tail = Verify!FileHashes[2]
      OBVIOUS
    <3>1. c = Chunk /\ tail \in Seq(Int) /\ Len(tail) = Chunk /\ \A k \in 1 .. Chunk : tail[k] = target[t - Chunk + k]
      BY <2>1, <2>3, <2>5 DEF Verify!Total
    <3>2. \A k \in 1 .. Chunk : tail[k] = t - Chunk + k
      <4>1. \A k \in 1 .. Chunk : t - Chunk + k \in 1 .. t
        BY <2>1
      <4> QED BY <2>4, <3>1, <4>1
    <3> DEFINE g == Verify!FileHashes[2]
    <3>3. g \in Seq(Int) /\ Len(g) = Chunk /\ \A k \in 1 .. Chunk : g[k] = t - Chunk + k
      <4> HIDE DEF n, c, t
      <4> QED BY <2>2, <2>5, <3>1
    <3> HIDE DEF g
    <3>4. \A k \in 1 .. Chunk : tail[k] = g[k]
      BY <3>2, <3>3
    <3>5. tail = g
      BY <3>1, <3>3, <3>4
    <3> QED BY <3>5 DEF g
  <2>8. Agree
    BY <2>1, <2>6, <2>7 DEF Agree, Verify!Total
  <2> QED BY <1>2, <2>8 DEF VerifyInv
<1>3. VerifyInv => VerifyExact
  BY <1>1, <1>2 DEF VerifyExact, Verify!VerifyExact
<1> QED BY <1>3, VerifyInvariance, PTL

------------------------------------------------------------------------------
(* list_partitions.                                                         *)

\* A step of the operations is a step of the listing of partitions or leaves it alone.
LEMMA GptSteps == [Next]_operationVars => Gpt!Next \/ UNCHANGED gptVars
  BY DEF Next, Only, operationVars

\* The operations' constants are what EdlGpt assumes of its own.
LEMMA GptConstants == Gpt!GptAssumption
  BY OperationsAssumption DEF OperationsAssumption

\* What the listing says of a partition.
Listing == [entry : Nat, start : Nat, sectors : Nat]

\* A row of the listing is a valid one of the entries es.
IsEntry(r, es) ==
  LET e == es[r.entry] IN Gpt!Valid(e) /\ r.start = e.first /\ r.sectors = Gpt!Sectors(e)

\* What holds of the walk of a table whose address fits: the entries walked were in the sectors read,
\* and the valid ones among them are listed.
Straight ==
  /\ \A i \in 1 .. row : Gpt!InRead(i)
  /\ \A k \in 1 .. Len(parts) : IsEntry(parts[k], table.entries)
  /\ \A i \in 1 .. row : Gpt!Valid(table.entries[i]) => \E k \in 1 .. Len(parts) : parts[k].entry = i
  /\ listing = "listed" => row = Len(table.entries) \/ ~Gpt!InRead(row + 1)

\* The rows listed are some of those walked, in order.
GptInv ==
  /\ table \in Tables \union {Gpt!NoTable}
  /\ listing \in {"none", "read", "walking", "listed", "error", "panic"}
  /\ row \in 0 .. Len(table.entries) /\ parts \in Seq(Listing) /\ Len(parts) <= row
  /\ listing \notin {"walking", "listed", "panic"} => row = 0
  /\ \A k \in 1 .. Len(parts) : parts[k].entry \in 1 .. row
  /\ \A j, k \in 1 .. Len(parts) : j < k => parts[j].entry < parts[k].entry
  /\ ~Gpt!Astray => Straight

\* What is read ends before the last address.
LEMMA GptSpace ==
  /\ ReadSectors * SectorSize \in Nat /\ AddressSpace \in Nat \ {0} /\ ReadSectors * SectorSize < AddressSpace
<1>1. ReadSectors \in Nat /\ SectorSize \in Nat /\ AddressSpace \in Nat /\ ReadSectors * SectorSize < AddressSpace
  BY GptConstants DEF Gpt!GptAssumption
<1>2. ReadSectors * SectorSize \in Nat
  BY <1>1, Z3
<1> DEFINE r == ReadSectors * SectorSize
<1> HIDE DEF r
<1>3. r \in Nat /\ r < AddressSpace => AddressSpace \in Nat \ {0}
  BY <1>1
<1> QED BY <1>1, <1>2, <1>3 DEF r

\* A table, also the empty one of the beginning.
LEMMA TableTypes ==
  ASSUME table \in Tables \union {Gpt!NoTable}
  PROVE  /\ table.size \in Gpt!Address /\ table.lba \in Gpt!Address /\ table.entries \in Seq(Gpt!Entry)
         /\ table.size \in Nat /\ table.lba \in Nat /\ table.size < AddressSpace
<1>0. 0 \in Gpt!Address /\ AddressSpace \in Nat
  BY GptSpace DEF Gpt!Address
<1>1. CASE table \in Tables
  <2>1. table.size \in Gpt!Address /\ table.lba \in Gpt!Address /\ table.entries \in Seq(Entries) /\ Entries \subseteq Gpt!Entry
    BY <1>1, GptConstants DEF Gpt!GptAssumption
  <2>2. table.entries \in Seq(Gpt!Entry)
    BY <2>1
  <2> QED BY <1>0, <2>1, <2>2 DEF Gpt!Address
<1>2. CASE table = Gpt!NoTable
  <2>1. table.size = 0 /\ table.lba = 0 /\ table.entries = <<>>
    BY <1>2 DEF Gpt!NoTable
  <2> QED BY <1>0, <2>1 DEF Gpt!Address
<1> QED BY <1>1, <1>2

\* The remainder of a sum of two numbers below the divisor.
LEMMA Remainder ==
  ASSUME NEW n \in Nat \ {0}, NEW x \in Nat, NEW y \in Nat, x < n, y < n
  PROVE  (x + y) % n = IF x + y < n THEN x + y ELSE x + y - n
  BY Z3

\* The next entry of a table whose address fits is taken exactly when it lies in what was read.
LEMMA EntryFits ==
  ASSUME table \in Tables \union {Gpt!NoTable}, ~Gpt!Astray, row \in Nat, \A i \in 1 .. row : Gpt!InRead(i)
  PROVE  /\ Gpt!Fits(row + 1) /\ Gpt!Offset(row + 1) <= Gpt!After(row + 1) => Gpt!InRead(row + 1)
         /\ ~Gpt!Fits(row + 1) => ~Gpt!InRead(row + 1)
<1> DEFINE m == table.size
           a == Gpt!Start
           b == row * m
           c == ReadSectors * SectorSize
<1>1. /\ m \in Nat /\ m < AddressSpace /\ a \in Nat /\ a < AddressSpace /\ AddressSpace \in Nat \ {0}
      /\ c \in Nat /\ c < AddressSpace
  <2>1. m \in Nat /\ m < AddressSpace /\ table.lba \in Nat /\ SectorSize \in Nat
    BY TableTypes, GptConstants DEF Gpt!GptAssumption
  <2>2. table.lba * SectorSize \in Nat
    BY <2>1, Z3
  <2>3. a = table.lba * SectorSize
    BY DEF Gpt!Start
  <2>4. a \in Nat /\ ~(a >= AddressSpace)
    BY <2>2, <2>3 DEF Gpt!Astray
  <2> HIDE DEF a, m, c
  <2>5. c \in Nat /\ c < AddressSpace /\ AddressSpace \in Nat \ {0}
    BY GptSpace DEF c
  <2> QED BY <2>1, <2>4, <2>5
<1>2. b \in Nat /\ (row + 1) * m = b + m /\ ((row + 1) - 1) * m = b /\ (row = 0 => b = 0)
  <2>1. m \in Nat
    BY <1>1
  <2> HIDE DEF m
  <2> QED BY <2>1, Z3
<1>3. a + b < AddressSpace
  <2>1. CASE row = 0
    <3>1. b = 0
      BY <1>2, <2>1
    <3> HIDE DEF a, b
    <3> QED BY <1>1, <3>1
  <2>2. CASE row /= 0
    <3>1. Gpt!InRead(row)
      BY <2>2
    <3>2. a + b <= c
      BY <3>1 DEF Gpt!InRead, Gpt!End
    <3> HIDE DEF a, b, c
    <3> QED BY <1>1, <1>2, <3>2
  <2> QED BY <2>1, <2>2
<1>4. Gpt!Offset(row + 1) = (a + b) % AddressSpace
  BY <1>2 DEF Gpt!Offset
<1>5. Gpt!After(row + 1) = (Gpt!Offset(row + 1) + m) % AddressSpace
  BY DEF Gpt!After
<1>6. Gpt!Fits(row + 1) <=> Gpt!After(row + 1) <= c
  BY DEF Gpt!Fits
<1>7. Gpt!InRead(row + 1) <=> a + (b + m) <= c
  BY <1>2 DEF Gpt!InRead, Gpt!End
<1> HIDE DEF a, b, c, m
<1> DEFINE o == a + b
<1>8. o \in Nat /\ o < AddressSpace /\ a + (b + m) = o + m
  BY <1>1, <1>2, <1>3
<1>9. Gpt!Offset(row + 1) = o
  <2> HIDE DEF o
  <2>1. o % AddressSpace = o
    BY <1>1, <1>8, Z3
  <2> QED BY <1>4, <2>1 DEF o
<1> HIDE DEF o
<1>10. (o + m) % AddressSpace = IF o + m < AddressSpace THEN o + m ELSE o + m - AddressSpace
  BY <1>1, <1>8, Remainder
<1> DEFINE f == Gpt!After(row + 1)
<1>11. f = IF o + m < AddressSpace THEN o + m ELSE o + m - AddressSpace
  BY <1>5, <1>9, <1>10
<1>12. (Gpt!Fits(row + 1) <=> f <= c) /\ (Gpt!InRead(row + 1) <=> o + m <= c) /\ Gpt!Offset(row + 1) = o
  BY <1>6, <1>7, <1>8, <1>9
<1> HIDE DEF f
<1>13. (f <= c /\ o <= f => o + m <= c) /\ (~(f <= c) => ~(o + m <= c))
  BY <1>1, <1>8, <1>11
<1> QED BY <1>12, <1>13 DEF f

\* Entries that follow one that does not fit do not fit either.
LEMMA NoMoreFit ==
  ASSUME table \in Tables \union {Gpt!NoTable}, NEW i \in Nat, NEW j \in Nat, i <= j, ~Gpt!InRead(i)
  PROVE  ~Gpt!InRead(j)
<1>1. table.size \in Nat /\ table.lba \in Nat /\ SectorSize \in Nat /\ ReadSectors \in Nat
  BY TableTypes, GptConstants DEF Gpt!GptAssumption
<1> DEFINE s == table.size
           a == table.lba * SectorSize
           c == ReadSectors * SectorSize
<1>2. s \in Nat /\ a \in Int /\ c \in Int
  BY <1>1, Z3
<1>3. (Gpt!InRead(i) <=> a + i * s <= c) /\ (Gpt!InRead(j) <=> a + j * s <= c)
  BY DEF Gpt!InRead, Gpt!End, Gpt!Start
<1> HIDE DEF s, a, c
<1>4. i * s <= j * s /\ i * s \in Int /\ j * s \in Int
  BY <1>2, Z3
<1> DEFINE x == i * s
           y == j * s
<1>5. x <= y /\ x \in Int /\ y \in Int /\ (Gpt!InRead(i) <=> a + x <= c) /\ (Gpt!InRead(j) <=> a + y <= c)
  BY <1>3, <1>4
<1> HIDE DEF x, y
<1> QED BY <1>2, <1>5

\* GptInv holds throughout the walk of a table.
LEMMA GptInvariance == Spec => []GptInv
<1>1. Init => GptInv
  BY DEF Init, Gpt!Init, Gpt!NoTable, GptInv, Straight
<1>2. GptInv /\ [Next]_operationVars => GptInv'
  <2> SUFFICES ASSUME GptInv, [Next]_operationVars PROVE GptInv'
    OBVIOUS
  <2>s. Gpt!Next \/ UNCHANGED gptVars
    BY GptSteps
  <2>t. table.size \in Nat /\ table.entries \in Seq(Gpt!Entry) /\ Len(table.entries) \in Nat /\ row \in Nat
    BY TableTypes DEF GptInv
  <2>1. CASE Gpt!ReadTable
    <3>1. row = 0 /\ parts = <<>> /\ row' = 0 /\ parts' = <<>> /\ table' \in Tables
          /\ listing' \in {"read", "error"}
      BY <2>1, <2>t DEF Gpt!ReadTable, GptInv
    <3>2. table'.entries \in Seq(Entries)
      BY <3>1, GptConstants DEF Gpt!GptAssumption
    <3>3. Len(table'.entries) \in Nat
      BY <3>2
    <3>4. Straight'
      BY <3>1 DEF Straight
    <3> QED BY <3>1, <3>3, <3>4 DEF GptInv
  <2>2. CASE Gpt!ParseHeader
    <3>1. listing = "read" /\ listing' \in {"walking", "error"} /\ UNCHANGED <<table, row, parts>>
      BY <2>2 DEF Gpt!ParseHeader
    <3>2. Gpt!Astray' = Gpt!Astray /\ (Straight => Straight')
      BY <3>1 DEF Straight, IsEntry, Gpt!Astray, Gpt!InRead, Gpt!End, Gpt!Start
    <3> QED BY <3>1, <3>2 DEF GptInv
  <2>3. CASE Gpt!ParseEntry
    <3>1. /\ table \in Tables \union {Gpt!NoTable} /\ row < Len(table.entries)
          /\ Gpt!Fits(row + 1) /\ Gpt!Offset(row + 1) <= Gpt!After(row + 1)
          /\ row' = row + 1 /\ UNCHANGED <<table, listing>> /\ listing = "walking"
          /\ parts \in Seq(Listing) /\ Len(parts) <= row
      BY <2>3, <2>t DEF Gpt!ParseEntry, GptInv
    <3>e. PICK e \in IF Gpt!Astray THEN Entries ELSE {table.entries[row + 1]} :
            parts' = IF Gpt!Valid(e)
                       THEN Append(parts, [entry |-> row + 1, start |-> e.first, sectors |-> Gpt!Sectors(e)])
                       ELSE parts
      BY <2>3 DEF Gpt!ParseEntry
    <3> DEFINE r == [entry |-> row + 1, start |-> e.first, sectors |-> Gpt!Sectors(e)]
    <3>2. e \in Gpt!Entry /\ (~Gpt!Astray => e = table.entries[row + 1])
      <4>1. Entries \subseteq Gpt!Entry /\ table.entries[row + 1] \in Gpt!Entry
        BY <2>t, <3>1, GptConstants DEF Gpt!GptAssumption
      <4> QED BY <4>1
    <3>3. r \in Listing
      <4>1. e.first \in Nat /\ e.last \in Nat /\ AddressSpace \in Nat \ {0}
        BY <3>2, GptSpace DEF Gpt!Entry, Gpt!Address
      <4>3. Gpt!Sectors(e) \in Nat
        BY <4>1, Z3 DEF Gpt!Sectors
      <4> QED BY <2>t, <4>1, <4>3 DEF Listing
    <3>u. r.entry = row + 1 /\ r.start = e.first /\ r.sectors = Gpt!Sectors(e)
      OBVIOUS
    <3> HIDE DEF r
    <3>4. row' \in 0 .. Len(table'.entries) /\ Gpt!Astray' = Gpt!Astray
      BY <2>t, <3>1 DEF Gpt!Astray, Gpt!Start
    <3>i. ASSUME ~Gpt!Astray PROVE \A i \in 1 .. row' : Gpt!InRead(i)'
      <4>1. \A i \in 1 .. row : Gpt!InRead(i)
        BY <3>i DEF GptInv, Straight
      <4>2. Gpt!InRead(row + 1)
        BY <2>t, <3>1, <3>i, <4>1, EntryFits
      <4> QED BY <2>t, <3>1, <4>1, <4>2 DEF Gpt!InRead, Gpt!End, Gpt!Start
    <3>5. CASE ~Gpt!Valid(e)
      <4>1. parts' = parts /\ Len(parts') <= row'
        BY <2>t, <3>1, <3>e, <3>5
      <4>2. ASSUME ~Gpt!Astray PROVE Straight'
        <5>1. \A i \in 1 .. row' : Gpt!Valid(table'.entries[i]) => i \in 1 .. row
          BY <2>t, <3>1, <3>2, <3>5, <4>2
        <5>2. \A i \in 1 .. row' : Gpt!Valid(table'.entries[i]) => \E k \in 1 .. Len(parts') : parts'[k].entry = i
          BY <3>1, <4>1, <4>2, <5>1 DEF GptInv, Straight
        <5>3. \A k \in 1 .. Len(parts') : IsEntry(parts'[k], table'.entries)
          BY <3>1, <4>1, <4>2 DEF GptInv, Straight
        <5> QED BY <3>1, <3>i, <4>2, <5>2, <5>3 DEF Straight
      <4>3. \A k \in 1 .. Len(parts') : parts'[k].entry \in 1 .. row'
        BY <2>t, <3>1, <4>1 DEF GptInv
      <4> QED BY <3>1, <3>4, <4>1, <4>2, <4>3 DEF GptInv
    <3>6. CASE Gpt!Valid(e)
      <4> DEFINE n == Len(parts)
      <4>0. parts' = Append(parts, r)
        BY <3>e, <3>6 DEF r
      <4>1. /\ parts' \in Seq(Listing) /\ Len(parts') = n + 1 /\ n \in Nat
            /\ \A k \in 1 .. n : parts'[k] = parts[k]
            /\ parts'[n + 1] = r
        BY <3>1, <3>3, <4>0, AppendProperties
      <4>3. \A k \in 1 .. Len(parts') : parts'[k].entry \in 1 .. row'
        BY <2>t, <3>1, <3>u, <4>1 DEF GptInv
      <4>4. \A j, k \in 1 .. Len(parts') : j < k => parts'[j].entry < parts'[k].entry
        <5> SUFFICES ASSUME NEW j \in 1 .. Len(parts'), NEW k \in 1 .. Len(parts'), j < k
                     PROVE  parts'[j].entry < parts'[k].entry
          OBVIOUS
        <5>1. j \in 1 .. n /\ parts'[j] = parts[j] /\ parts[j].entry \in 1 .. row
          BY <4>1 DEF GptInv
        <5>2. CASE k = n + 1
          BY <2>t, <3>1, <3>u, <4>1, <5>1, <5>2
        <5>3. CASE k \in 1 .. n
          BY <4>1, <5>1, <5>3 DEF GptInv
        <5> QED BY <4>1, <5>2, <5>3
      <4>5. ASSUME ~Gpt!Astray PROVE Straight'
        <5>1. ASSUME NEW i \in 1 .. row', Gpt!Valid(table.entries[i])
              PROVE  \E k \in 1 .. Len(parts') : parts'[k].entry = i
          <6>1. CASE i = row + 1
            BY <3>u, <4>1, <6>1
          <6>2. CASE i \in 1 .. row
            <7>1. PICK k \in 1 .. n : parts[k].entry = i
              BY <4>5, <5>1, <6>2 DEF GptInv, Straight
            <7> QED BY <4>1, <7>1
          <6> QED BY <2>t, <3>1, <6>1, <6>2
        <5>2. ASSUME NEW k \in 1 .. Len(parts') PROVE IsEntry(parts'[k], table.entries)
          <6>1. CASE k = n + 1
            BY <3>2, <3>6, <3>u, <4>1, <4>5, <6>1 DEF IsEntry
          <6>2. CASE k \in 1 .. n
            BY <4>1, <4>5, <6>2 DEF GptInv, Straight
          <6> QED BY <4>1, <6>1, <6>2
        <5> QED BY <3>1, <3>i, <4>5, <5>1, <5>2 DEF Straight
      <4>6. Len(parts') <= row'
        BY <2>t, <3>1, <4>1
      <4> QED BY <3>1, <3>4, <4>1, <4>3, <4>4, <4>5, <4>6 DEF GptInv
    <3> QED BY <3>5, <3>6
  <2>4. CASE Gpt!Listed
    <3>1. listing = "walking" /\ UNCHANGED <<table, row, parts>> /\ listing' = "listed"
          /\ (row = Len(table.entries) \/ ~Gpt!Fits(row + 1))
      BY <2>4 DEF Gpt!Listed
    <3>2. Gpt!Astray' = Gpt!Astray
      BY <3>1 DEF Gpt!Astray, Gpt!Start
    <3>3. ASSUME ~Gpt!Astray PROVE Straight'
      <4>1. Straight /\ table \in Tables \union {Gpt!NoTable}
        BY <3>3 DEF GptInv
      <4>2. row = Len(table.entries) \/ ~Gpt!InRead(row + 1)
        BY <2>t, <3>1, <3>3, <4>1, EntryFits DEF Straight
      <4> QED BY <3>1, <4>1, <4>2 DEF Straight, IsEntry, Gpt!InRead, Gpt!End, Gpt!Start
    <3> QED BY <3>1, <3>2, <3>3 DEF GptInv
  <2>5. CASE Gpt!Panic
    <3>1. listing' = "panic" /\ UNCHANGED <<table, row, parts>>
      BY <2>5 DEF Gpt!Panic
    <3>2. Gpt!Astray' = Gpt!Astray /\ (Straight => Straight')
      BY <3>1 DEF Straight, IsEntry, Gpt!Astray, Gpt!InRead, Gpt!End, Gpt!Start
    <3> QED BY <3>1, <3>2 DEF GptInv
  <2>6. CASE UNCHANGED gptVars
    <3>1. UNCHANGED <<table, row, parts, listing>>
      BY <2>6 DEF gptVars
    <3>2. Gpt!Astray' = Gpt!Astray /\ (Straight => Straight')
      BY <3>1 DEF Straight, IsEntry, Gpt!Astray, Gpt!InRead, Gpt!End, Gpt!Start
    <3> QED BY <3>1, <3>2 DEF GptInv
  <2> QED BY <2>s, <2>1, <2>2, <2>3, <2>4, <2>5, <2>6 DEF Gpt!Next
<1> QED BY <1>1, <1>2, PTL DEF Spec

\* A number of addresses that fit is its own remainder, all of them have none.
LEMMA Wraps ==
  ASSUME NEW n \in Nat \ {0}, NEW x \in 1 .. n
  PROVE  x % n = IF x = n THEN 0 ELSE x
  BY Z3

\* list_partitions lists the valid entries of the sectors it read, each once, in order and with its extent;
\* only one that covers every address has no size: GptExact, for every table that begins at an address
\* there is, and every number of addresses.
THEOREM ListingIsExact == Spec => []GptExact
<1>1. GptInv => GptExact
  <2> SUFFICES ASSUME GptInv PROVE Gpt!GptExact
    BY DEF GptExact
  <2>0. table.entries \in Seq(Gpt!Entry) /\ Len(table.entries) \in Nat /\ row \in 0 .. Len(table.entries)
        /\ DOMAIN parts = 1 .. Len(parts) /\ DOMAIN table.entries = 1 .. Len(table.entries)
    BY TableTypes DEF GptInv
  <2>1. \A j, k \in DOMAIN parts : j < k => parts[j].entry < parts[k].entry
    BY <2>0 DEF GptInv
  <2>2. ASSUME listing = "listed", ~Gpt!Astray
        PROVE  {parts[k].entry : k \in DOMAIN parts} =
                 {i \in DOMAIN table.entries : Gpt!Valid(table.entries[i]) /\ Gpt!InRead(i)}
    <3>1. ASSUME NEW k \in DOMAIN parts
          PROVE  LET i == parts[k].entry IN
                 i \in DOMAIN table.entries /\ Gpt!Valid(table.entries[i]) /\ Gpt!InRead(i)
      BY <2>0, <2>2, <3>1 DEF GptInv, Straight, IsEntry
    <3>2. ASSUME NEW i \in DOMAIN table.entries, Gpt!Valid(table.entries[i]), Gpt!InRead(i)
          PROVE  \E k \in DOMAIN parts : parts[k].entry = i
      <4>1. i \in 1 .. row
        <5>1. CASE row = Len(table.entries)
          BY <2>0, <5>1
        <5>2. CASE ~Gpt!InRead(row + 1)
          <6>1. table \in Tables \union {Gpt!NoTable} /\ row + 1 \in Nat /\ i \in Nat
            BY <2>0 DEF GptInv
          <6>2. ~(row + 1 <= i)
            BY <3>2, <5>2, <6>1, NoMoreFit
          <6> QED BY <2>0, <6>1, <6>2
        <5> QED BY <2>2, <5>1, <5>2 DEF GptInv, Straight
      <4> QED BY <2>0, <2>2, <3>2, <4>1 DEF GptInv, Straight
    <3> QED BY <3>1, <3>2
  <2>3. ASSUME ~Gpt!Astray, NEW k \in DOMAIN parts
        PROVE  LET e == table.entries[parts[k].entry] IN
               /\ parts[k].start = e.first
               /\ parts[k].start + parts[k].sectors - 1 = e.last
                    \/ (parts[k].sectors = 0 /\ e.first = 0 /\ e.last = AddressSpace - 1)
    <3> DEFINE e == table.entries[parts[k].entry]
    <3>1. /\ e \in Gpt!Entry /\ Gpt!Valid(e) /\ parts[k].start = e.first
          /\ parts[k].sectors = (e.last - e.first + 1) % AddressSpace
      BY <2>0, <2>3 DEF GptInv, Straight, IsEntry, Gpt!Sectors
    <3> DEFINE f == e.first
               l == e.last
    <3>2. f \in 0 .. AddressSpace - 1 /\ l \in 0 .. AddressSpace - 1 /\ f <= l /\ AddressSpace \in Nat \ {0}
      BY <3>1, GptSpace DEF Gpt!Entry, Gpt!Address, Gpt!Valid
    <3> HIDE DEF f, l
    <3>3. l - f + 1 \in 1 .. AddressSpace
      BY <3>2
    <3>4. (l - f + 1) % AddressSpace = IF l - f + 1 = AddressSpace THEN 0 ELSE l - f + 1
      BY <3>2, <3>3, Wraps
    <3>5. f + ((l - f + 1) % AddressSpace) - 1 = l
            \/ ((l - f + 1) % AddressSpace = 0 /\ f = 0 /\ l = AddressSpace - 1)
      BY <3>2, <3>4
    <3> QED BY <3>1, <3>5 DEF f, l
  <2> QED BY <2>1, <2>2, <2>3 DEF Gpt!GptExact
<1> QED BY <1>1, GptInvariance, PTL

------------------------------------------------------------------------------
(* The progress of a transfer.                                             *)

\* A step of the operations is a step of a transfer or leaves it alone.
LEMMA TransferSteps == [Next]_operationVars => Transfer!Next \/ UNCHANGED transferVars
  BY DEF Next, Only, operationVars

\* The operations' constants are what EdlTransfer assumes of its own.
LEMMA TransferConstants == Transfer!TransferAssumption
  BY OperationsAssumption DEF OperationsAssumption

\* More of a total is not a smaller part of it.
LEMMA MoreIsMore ==
  ASSUME NEW a \in Nat, NEW b \in Nat, a <= b, NEW t \in Nat \ {0}
  PROVE  a \div t <= b \div t /\ a \div t \in Nat
<1> DEFINE p == a \div t
           q == b \div t
<1>1. p \in Nat /\ p * t <= a
  BY Z3
<1>2. q \in Nat /\ b < q * t + t
  BY Z3
<1> HIDE DEF p, q
<1>3. ~ (q + 1 <= p)
  <2>1. q + 1 <= p => (q + 1) * t <= p * t
    BY <1>1, <1>2, Z3
  <2> QED BY <1>1, <1>2, <2>1, Z3
<1>4. p <= q
  BY <1>1, <1>2, <1>3
<1> QED BY <1>1, <1>4 DEF p, q

\* The part of t that c chunks are, in percent.
Part(c, t) == IF t > 0 THEN (c * 100) \div t ELSE 0

\* More chunks are not a smaller part.
LEMMA PartGrows ==
  ASSUME NEW c \in Nat, NEW d \in Nat, c <= d, NEW t \in Nat
  PROVE  Part(c, t) \in Nat /\ Part(c, t) <= Part(d, t)
<1> DEFINE x == c * 100
           y == d * 100
<1>1. x \in Nat
  BY Z3
<1>2. y \in Nat
  BY Z3
<1>3. x <= y
  BY Z3
<1> HIDE DEF x, y
<1>4. CASE t > 0
  <2>1. t \in Nat \ {0}
    BY <1>4
  <2>2. x \div t <= y \div t /\ x \div t \in Nat
    BY <1>1, <1>2, <1>3, <2>1, MoreIsMore
  <2> QED BY <1>4, <2>2 DEF Part, x, y
<1>5. CASE ~(t > 0)
  BY <1>5 DEF Part
<1> QED BY <1>4, <1>5

\* Nothing is no part of any total.
LEMMA PartOfNothing ==
  ASSUME NEW t \in Nat
  PROVE  Part(0, t) = 0
<1>1. CASE t > 0
  <2>1. 0 * 100 = 0
    BY Z3
  <2>2. 0 \div t = 0
    <3>1. t \in Nat \ {0}
      BY <1>1
    <3> QED BY <3>1, Z3
  <2> QED BY <1>1, <2>1, <2>2 DEF Part
<1>2. CASE ~(t > 0)
  BY <1>2 DEF Part
<1> QED BY <1>1, <1>2

\* What was shown last is the percentage polled last, which is not above what would be polled now.
TransferInv ==
  /\ task \in {"idle", "moving", "joining", "returned", "failed"} /\ total \in Nat /\ count \in Nat /\ last \in Nat
  /\ done \in BOOLEAN /\ reporter \in {"none", "polling", "ended"}
  /\ shown = [pct |-> Transfer!AtMost100(last), fell |-> FALSE]
  /\ last <= Transfer!Percent
  /\ task = "idle" => count = 0 /\ last = 0 /\ reporter = "none"
  /\ task \in {"returned", "failed"} => reporter /= "polling"

\* What is polled later is at least what was polled before.
LEMMA PercentGrows ==
  ASSUME total \in Nat, count \in Nat, total' \in Nat, count' \in Nat,
         (total' = total /\ count <= count') \/ (count = 0 /\ count' = 0)
  PROVE  Transfer!Percent \in Nat /\ Transfer!Percent' \in Nat /\ Transfer!Percent <= Transfer!Percent'
<1>1. Transfer!Percent = Part(count, total) /\ Transfer!Percent' = Part(count', total')
  BY DEF Part, Transfer!Percent
<1>2. Part(count, total) \in Nat /\ Part(count', total') \in Nat
  <2>1. count <= count /\ count' <= count'
    OBVIOUS
  <2>2. Part(count, total) \in Nat
    BY <2>1, PartGrows
  <2>3. Part(count', total') \in Nat
    BY <2>1, PartGrows
  <2> QED BY <2>2, <2>3
<1>3. CASE total' = total /\ count <= count'
  BY <1>1, <1>2, <1>3, PartGrows
<1>4. CASE count = 0 /\ count' = 0
  BY <1>1, <1>4, PartOfNothing
<1> QED BY <1>1, <1>2, <1>3, <1>4

\* TransferInv holds from every start of a transfer to its end.
LEMMA TransferInvariance == Spec => []TransferInv
<1>1. Init => TransferInv
  <2>1. SUFFICES ASSUME Transfer!Init PROVE TransferInv
    BY DEF Init
  <2>2. Transfer!Percent = 0 /\ Transfer!AtMost100(last) = 0 /\ last = 0
    BY <2>1 DEF Transfer!Init, Transfer!Percent, Transfer!AtMost100
  <2>3. shown = [pct |-> Transfer!AtMost100(last), fell |-> FALSE]
    BY <2>1, <2>2 DEF Transfer!Init
  <2>4. last <= Transfer!Percent
    BY <2>2
  <2>5. /\ task = "idle" /\ total \in Nat /\ count \in Nat /\ last \in Nat /\ done = FALSE /\ reporter = "none"
        /\ count = 0 /\ last = 0
    BY <2>1 DEF Transfer!Init
  <2> QED BY <2>3, <2>4, <2>5 DEF TransferInv
<1>2. TransferInv /\ [Next]_operationVars => TransferInv'
  <2> SUFFICES ASSUME TransferInv, [Next]_operationVars PROVE TransferInv'
    OBVIOUS
  <2> USE DEF TransferInv
  <2>1. CASE Transfer!Start
    <3>1. total' \in Nat /\ UNCHANGED <<count, done, last, shown>> /\ task = "idle"
      BY <2>1, TransferConstants DEF Transfer!Start, Transfer!TransferAssumption
    <3>2. last' <= Transfer!Percent'
      BY <3>1, PercentGrows
    <3> QED BY <2>1, <3>1, <3>2 DEF Transfer!Start, Transfer!AtMost100
  <2>2. CASE Transfer!Move
    <3>1. count' = count + 1 /\ UNCHANGED <<task, total, done, reporter, last, shown>> /\ task = "moving"
      BY <2>2 DEF Transfer!Move
    <3>2. Transfer!Percent \in Nat /\ Transfer!Percent' \in Nat /\ Transfer!Percent <= Transfer!Percent'
      BY <3>1, PercentGrows
    <3>3. last' <= Transfer!Percent'
      BY <3>1, <3>2
    <3> QED BY <3>1, <3>3 DEF Transfer!AtMost100
  <2>3. CASE Transfer!Finish \/ Transfer!Return
    BY <2>3 DEF Transfer!Finish, Transfer!Return, Transfer!AtMost100, Transfer!Percent
  <2>4. CASE Transfer!Poll
    <3>1. UNCHANGED <<task, total, count, done>> /\ reporter = "polling" /\ reporter' \in {"polling", "ended"}
      BY <2>4 DEF Transfer!Poll
    <3>2. Transfer!Percent' = Transfer!Percent
      BY <3>1 DEF Transfer!Percent
    <3>3. Transfer!Percent \in Nat
      BY <3>1, PercentGrows
    <3>4. CASE UNCHANGED <<last, shown>>
      BY <3>1, <3>2, <3>4 DEF Transfer!AtMost100
    <3>5. CASE /\ last' = Transfer!Percent
               /\ shown' = [pct |-> Transfer!AtMost100(Transfer!Percent),
                            fell |-> shown.fell \/ Transfer!AtMost100(Transfer!Percent) < shown.pct]
      <4>1. shown.pct = Transfer!AtMost100(last) /\ shown.fell = FALSE
        OBVIOUS
      <4>2. ~(Transfer!AtMost100(Transfer!Percent) < Transfer!AtMost100(last))
        BY <3>3 DEF Transfer!AtMost100
      <4>3. shown' = [pct |-> Transfer!AtMost100(last'), fell |-> FALSE]
        BY <3>5, <4>1, <4>2
      <4>4. shown' = [pct |-> Transfer!AtMost100(last)', fell |-> FALSE]
        BY <4>3 DEF Transfer!AtMost100
      <4>5. last' \in Nat /\ last' <= Transfer!Percent'
        BY <3>2, <3>3, <3>5
      <4> QED BY <3>1, <4>4, <4>5
    <3> QED BY <2>4, <3>4, <3>5 DEF Transfer!Poll
  <2>5. CASE UNCHANGED transferVars
    BY <2>5 DEF transferVars, Transfer!AtMost100, Transfer!Percent
  <2> QED BY <2>1, <2>2, <2>3, <2>4, <2>5, TransferSteps DEF Transfer!Next
<1> QED BY <1>1, <1>2, PTL DEF Spec

\* The progress of edl_read_partition and edl_program_partition never goes back, and no thread shows
\* it for an operation that has returned: NoLateProgress, the safety part of ReporterEnds, for every total,
\* also one that is 0 or that the transfer moves beyond.
THEOREM ProgressIsHonest == Spec => []Transfer!NoLateProgress
<1>1. TransferInv => Transfer!NoLateProgress
  BY DEF TransferInv, Transfer!NoLateProgress
<1> QED BY <1>1, TransferInvariance, PTL

------------------------------------------------------------------------------
(* The batch flash.                                                         *)

\* A step of the operations is a step of edl_flash or leaves it alone.
LEMMA FlashSteps == [Next]_operationVars => Flash!Next \/ UNCHANGED flashVars
  BY DEF Next, Only, operationVars

\* The operations' constants are what EdlFlash assumes of its own.
LEMMA FlashConstants == Flash!FlashAssumption
  BY OperationsAssumption DEF OperationsAssumption

\* An operation of the plan is numbered in its set: erases, then programs, then the patch.
Triples == Nat \X {"erase", "program", "patch"} \X Nat
IsOp(op) ==
  /\ op \in Triples /\ op[1] \in DOMAIN plan.sets
  /\ \/ op[2] = "erase" /\ op[3] \in DOMAIN plan.sets[op[1]].erases
     \/ op[2] = "program" /\ op[3] \in Flash!Programs(plan.sets[op[1]])
     \/ op[2] = "patch" /\ op[3] = 1 /\ plan.sets[op[1]].patch = "good"

\* It lies before the place where the command is.
Past(op) ==
  \/ op[1] < nset \/ flashing = "done"
  \/ /\ op[1] = nset
     /\ \/ op[2] = flashing /\ op[3] < nop
        \/ op[2] = "erase" /\ flashing \in {"program", "patch"}
        \/ op[2] = "program" /\ flashing = "patch"

\* What the report, the history of writes and the storage are records of.
FlashTypes ==
  /\ report \in [done : SUBSET Triples, failed : SUBSET Triples, lost : SUBSET Nat, verified : SUBSET (Triples \X BOOLEAN)]
  /\ plan \in Plans \union {Flash!NoPlan} /\ flashing \in {"idle", "validate", "erase", "program", "patch", "done"}
  /\ nset \in Nat \ {0} /\ nop \in Nat \ {0} /\ disk \in [Images -> Flash!Files]
  /\ storage \in [Places -> {"old", "zero", "torn"} \union Images] /\ temps \subseteq Images
  /\ outcome \in {"none", "ok", "err"} /\ written \subseteq Triples \X Places

\* Where the command is.
Place ==
  /\ flashing = "idle" => plan = Flash!NoPlan /\ nset = 1 /\ nop = 1 /\ report = Flash!NoReport /\ written = {} /\ temps = {}
  /\ flashing /= "idle" => plan \in Plans /\ nset \in DOMAIN plan.sets
  /\ outcome = "none" <=> flashing /= "done"
  /\ plan.kind /= "dir" => nset = 1
  /\ outcome = "ok" /\ ~Flash!Single => nset = Len(plan.sets)

\* The report is of operations behind, of sets that are not lost, once each; and of all of them.
Reported ==
  /\ \A op \in report.done \union report.failed : IsOp(op) /\ Past(op) /\ op[1] \notin report.lost
  /\ report.done \intersect report.failed = {}
  /\ \A s \in report.lost : s <= nset /\ (flashing /= "done" => s < nset)
  /\ ~Flash!Single /\ outcome /= "err" =>
       \A op \in Triples : IsOp(op) /\ Past(op) /\ op[1] \notin report.lost => op \in report.done \union report.failed
  /\ \A op \in report.done : op[2] = "program" => \E w \in written : w[1] = op
  /\ \A w \in written :
       w[1][2] = "program" /\ w[1][1] <= nset /\ (w[1][1] \notin report.lost => w[1] \in report.done)

\* An image that was written is there, unless a later operation has touched its place.
Stays ==
  \A op \in report.done : op[2] = "program" =>
    \/ storage[Flash!Target(op)] = plan.sets[op[1]].programs[op[3]].img
    \/ \E o \in Triples : IsOp(o) /\ o[2] /= "patch" /\ Flash!Target(o) = Flash!Target(op) /\ Flash!Before(op, o)

\* Nothing is written before a manifest was validated; an unfinished expansion stays.
Clean ==
  /\ flashing \in {"idle", "validate"} /\ nset = 1 => storage = [p \in Places |-> "old"]
  /\ outcome = "err" /\ plan.kind = "batch" /\ Flash!This.patch /= "bad" => storage = [p \in Places |-> "old"]
  /\ \A i \in temps : disk[i] \in {"broken", "absent"}

FlashInv == FlashTypes /\ Place /\ Reported /\ Stays /\ Clean

\* The set that is flashed, while the command runs.
LEMMA ThisSet ==
  ASSUME FlashTypes, Place, flashing /= "idle"
  PROVE  /\ plan.kind \in Flash!Kinds /\ plan.sets \in Seq(Flash!Set) /\ nset \in 1 .. Len(plan.sets)
         /\ plan.kind /= "dir" => Len(plan.sets) = 1
         /\ Flash!This \in Flash!Set /\ Flash!This.programs \in Seq(Flash!Entry) /\ Flash!This.erases \in Seq(Places)
<1>1. plan \in Plans /\ nset \in DOMAIN plan.sets
  BY DEF Place
<1>2. plan.kind \in Flash!Kinds /\ plan.sets \in Seq(Flash!Set) /\ (plan.kind /= "dir" => Len(plan.sets) = 1)
  BY <1>1, FlashConstants DEF Flash!FlashAssumption
<1>3. nset \in 1 .. Len(plan.sets) /\ Flash!This \in Flash!Set
  BY <1>1, <1>2 DEF Flash!This
<1> QED BY <1>2, <1>3 DEF Flash!Set

\* A command returns, or goes on with the next set.
LEMMA SetOver ==
  ASSUME FlashTypes, Place, flashing \notin {"idle", "done"}, UNCHANGED plan,
         (plan.kind = "dir" /\ Flash!NextSet) \/ (plan.kind /= "dir" /\ (Flash!Return("ok") \/ Flash!Return("err")))
  PROVE  /\ flashing' \in {"validate", "done"} /\ nop' = 1 /\ nset' \in 1 .. Len(plan.sets)
         /\ outcome' \in {"none", "ok", "err"} /\ (outcome' = "none" <=> flashing' /= "done")
         /\ flashing' = "validate" => plan.kind = "dir" /\ nset' = nset + 1
         /\ flashing' = "done" => nset' = nset /\ nset = Len(plan.sets)
         /\ outcome' = "err" => plan.kind /= "dir"
<1>1. nset \in 1 .. Len(plan.sets) /\ (plan.kind /= "dir" => Len(plan.sets) = 1) /\ Len(plan.sets) \in Nat
      /\ outcome = "none"
  BY ThisSet DEF Place
<1>2. CASE plan.kind = "dir" /\ nset < Len(plan.sets)
  BY <1>1, <1>2 DEF Flash!NextSet
<1>3. CASE plan.kind = "dir" /\ ~(nset < Len(plan.sets))
  <2>1. Flash!Return("ok")
    BY <1>3 DEF Flash!NextSet
  <2>2. nset = Len(plan.sets)
    BY <1>1, <1>3
  <2> QED BY <1>1, <1>3, <2>1, <2>2 DEF Flash!Return
<1>4. CASE plan.kind /= "dir"
  <2>1. Flash!Return("ok") \/ Flash!Return("err")
    BY <1>4
  <2>2. flashing' = "done" /\ nop' = 1 /\ nset' = nset /\ outcome' \in {"ok", "err"}
    BY <2>1 DEF Flash!Return
  <2>3. nset = Len(plan.sets)
    <3>1. Len(plan.sets) = 1
      BY <1>1, <1>4
    <3>2. nset = 1
      BY <1>4 DEF Place
    <3> QED BY <3>1, <3>2
  <2> QED BY <1>1, <1>4, <2>2, <2>3
<1> QED BY <1>2, <1>3, <1>4

\* What an operation does to the command: it returns or goes on.
LEMMA OperationOver ==
  ASSUME FlashTypes, Place, flashing \in {"erase", "program", "patch"}, NEW op \in Triples,
         UNCHANGED plan,
         (\E checks \in SUBSET (Triples \X BOOLEAN) : Flash!Done(op, checks)) \/ Flash!Fail(op)
  PROVE  /\ report' \in [done : SUBSET Triples, failed : SUBSET Triples, lost : SUBSET Nat, verified : SUBSET (Triples \X BOOLEAN)]
         /\ report'.lost = report.lost
         /\ \/ report'.done = report.done \union {op} /\ report'.failed = report.failed
            \/ report'.done = report.done /\ report'.failed = report.failed \union {op}
         /\ nset' = nset /\ nop' \in Nat \ {0} /\ outcome' \in {"none", "ok", "err"}
         /\ IF Flash!Single THEN flashing' = "done" /\ outcome' /= "none"
            ELSE flashing' = flashing /\ nop' = nop + 1 /\ outcome' = outcome
<1> USE DEF FlashTypes, Flash!Return, Flash!Another
<1>1. ASSUME NEW checks \in SUBSET (Triples \X BOOLEAN), Flash!Done(op, checks)
      PROVE  /\ report' \in [done : SUBSET Triples, failed : SUBSET Triples, lost : SUBSET Nat, verified : SUBSET (Triples \X BOOLEAN)]
             /\ report'.lost = report.lost /\ report'.done = report.done \union {op} /\ report'.failed = report.failed
  BY <1>1 DEF Flash!Done
<1>2. ASSUME Flash!Fail(op)
      PROVE  /\ report' \in [done : SUBSET Triples, failed : SUBSET Triples, lost : SUBSET Nat, verified : SUBSET (Triples \X BOOLEAN)]
             /\ report'.lost = report.lost /\ report'.done = report.done /\ report'.failed = report.failed \union {op}
  BY <1>2 DEF Flash!Fail
<1>3. IF Flash!Single THEN Flash!Return("ok") \/ Flash!Return("err") ELSE Flash!Another
  BY DEF Flash!Done, Flash!Fail
<1> QED BY <1>1, <1>2, <1>3

\* SetFails forgets what the set has done.
LEMMA SetForgotten ==
  ASSUME FlashTypes, Place, flashing \notin {"idle", "done"}, UNCHANGED plan, Flash!SetFails
  PROVE  /\ report' \in [done : SUBSET Triples, failed : SUBSET Triples, lost : SUBSET Nat, verified : SUBSET (Triples \X BOOLEAN)]
         /\ report'.lost = report.lost \union {nset}
         /\ report'.done = {op \in report.done : op[1] /= nset}
         /\ report'.failed = {op \in report.failed : op[1] /= nset}
         /\ (plan.kind = "dir" /\ Flash!NextSet) \/ (plan.kind /= "dir" /\ Flash!Return("err"))
  BY DEF FlashTypes, Flash!SetFails

\* A set whose last operation is behind is finished: the next one begins, or the command returns.
LEMMA SetFinished ==
  ASSUME Flash!SetEnds
  PROVE  UNCHANGED report /\ ((plan.kind = "dir" /\ Flash!NextSet) \/ (plan.kind /= "dir" /\ Flash!Return("ok")))
  BY DEF Flash!SetEnds

\* Every erase and every program has a place.
LEMMA OpPlace ==
  ASSUME FlashTypes, Place, flashing /= "idle", NEW op \in Triples, IsOp(op), op[2] /= "patch"
  PROVE  Flash!Target(op) \in Places
<1>1. plan.sets \in Seq(Flash!Set) /\ "gpt" \in Places
  BY ThisSet, FlashConstants DEF Flash!FlashAssumption
<1>2. plan.sets[op[1]] \in Flash!Set
  BY <1>1 DEF IsOp
<1>3. CASE op[2] = "erase"
  <2>1. plan.sets[op[1]].erases \in Seq(Places)
    BY <1>2 DEF Flash!Set
  <2>2. op[3] \in DOMAIN plan.sets[op[1]].erases
    BY <1>3 DEF IsOp
  <2> QED BY <1>3, <2>1, <2>2 DEF Flash!Target
<1>4. CASE op[2] = "program"
  <2>1. plan.sets[op[1]].programs \in Seq(Flash!Entry)
    BY <1>2 DEF Flash!Set
  <2>2. op[3] \in DOMAIN plan.sets[op[1]].programs
    BY <1>4 DEF IsOp, Flash!Programs
  <2>3. plan.sets[op[1]].programs[op[3]] \in Flash!Entry
    BY <2>1, <2>2
  <2>4. Flash!StartSector(plan.sets[op[1]].programs[op[3]]) \in Places
    BY <1>1, <2>3 DEF Flash!StartSector, Flash!Entry
  <2> QED BY <1>4, <2>4 DEF Flash!Target
<1> QED BY <1>3, <1>4 DEF IsOp

\* An operation that is noted is the one the command is at; what it touched is its place.
LEMMA Noted ==
  ASSUME FlashTypes, Place, Reported, Stays, flashing \in {"erase", "program", "patch"},
         NEW op \in Triples, op = <<nset, flashing, nop>>, IsOp(op), UNCHANGED plan,
         (\E checks \in SUBSET (Triples \X BOOLEAN) : Flash!Done(op, checks)) \/ Flash!Fail(op),
         storage' = storage \/ (op[2] /= "patch" /\ \E v : storage' = [storage EXCEPT ![Flash!Target(op)] = v]),
         op \in report'.done /\ op[2] = "program" => storage'[Flash!Target(op)] = plan.sets[op[1]].programs[op[3]].img,
         \/ UNCHANGED written /\ ~(op \in report'.done /\ op[2] = "program")
         \/ op[2] = "program" /\ op \in report'.done /\ \E p \in Places : written' = written \union {<<op, p>>}
  PROVE  Place' /\ Reported' /\ Stays'
<1>1. /\ report'.lost = report.lost /\ nset' = nset
      /\ \/ report'.done = report.done \union {op} /\ report'.failed = report.failed
         \/ report'.done = report.done /\ report'.failed = report.failed \union {op}
      /\ IF Flash!Single THEN flashing' = "done" /\ outcome' \in {"ok", "err"}
         ELSE flashing' = flashing /\ nop' = nop + 1 /\ outcome' = outcome
  BY OperationOver
<1>2. Flash!Single' = Flash!Single
  BY DEF Flash!Single
<1>3. nset \in Nat /\ nop \in Nat /\ flashing \notin {"idle", "done"} /\ outcome = "none"
  BY DEF FlashTypes, Place
<1>4. Place'
  BY <1>1, <1>2, <1>3 DEF Place
<1>5. ~Past(op) /\ op[1] = nset /\ op[2] = flashing /\ op[3] = nop
  BY <1>3 DEF Past
<1>6. \A o \in Triples : IsOp(o) <=> IsOp(o)'
  BY DEF IsOp, Flash!Programs
<1>7. /\ Past(op)'
      /\ \A o \in Triples : IsOp(o) /\ Past(o) => Past(o)'
      /\ ~Flash!Single => \A o \in Triples : IsOp(o) /\ Past(o)' => Past(o) \/ o = op
  <2>1. CASE Flash!Single
    BY <1>1, <2>1 DEF Past
  <2>2. CASE ~Flash!Single
    <3>1. Past(op)'
      BY <1>1, <1>3, <1>5, <2>2 DEF Past
    <3>2. ASSUME NEW o \in Triples, Past(o) PROVE Past(o)'
      <4>1. o[3] \in Nat /\ o[1] \in Nat
        BY DEF Triples
      <4> QED BY <1>1, <1>3, <2>2, <3>2, <4>1 DEF Past
    <3>3. ASSUME NEW o \in Triples, Past(o)', ~Past(o) PROVE o = op
      <4>1. o[3] \in Nat /\ o[1] \in Nat /\ o = <<o[1], o[2], o[3]>>
        BY DEF Triples
      <4>2. o[1] = nset /\ o[2] = flashing /\ o[3] < nop + 1 /\ ~(o[3] < nop)
        BY <1>1, <1>3, <2>2, <3>3, <4>1 DEF Past
      <4>3. o[3] = nop
        BY <4>1, <4>2, <1>3
      <4> QED BY <4>1, <4>2, <4>3
    <3> QED BY <3>1, <3>2, <3>3, <2>2
  <2> QED BY <2>1, <2>2
<1>8. /\ \A s \in report.lost : s <= nset /\ s < nset
      /\ \A o \in report.done \union report.failed : IsOp(o) /\ Past(o) /\ o[1] \notin report.lost /\ o \in Triples
      /\ \A w \in written : w[1] \in Triples
  BY <1>3 DEF Reported, FlashTypes
<1>9. nset \notin report.lost /\ op \notin report.done \union report.failed /\ report.lost \subseteq Nat
  BY <1>3, <1>5, <1>8 DEF FlashTypes
<1>10. /\ \A o \in report'.done \union report'.failed : IsOp(o)' /\ Past(o)' /\ o[1] \notin report'.lost
       /\ report'.done \intersect report'.failed = {}
  <2>1. report.done \intersect report.failed = {}
    BY DEF Reported
  <2> QED BY <1>1, <1>5, <1>6, <1>7, <1>8, <1>9, <2>1
<1>11. \A s \in report'.lost : s <= nset' /\ (flashing' /= "done" => s < nset')
  BY <1>1, <1>8
<1>12. ASSUME ~Flash!Single, NEW o \in Triples, IsOp(o)', Past(o)', o[1] \notin report'.lost
       PROVE  o \in report'.done \union report'.failed
  <2>1. IsOp(o) /\ (Past(o) \/ o = op) /\ o[1] \notin report.lost
    BY <1>1, <1>6, <1>7, <1>12
  <2>2. Past(o) => o \in report.done \union report.failed
    BY <1>3, <1>12, <2>1 DEF Reported
  <2> QED BY <1>1, <2>1, <2>2
<1>13. \A o \in report'.done : o[2] = "program" => \E w \in written' : w[1] = o
  <2>1. \A o \in report.done : o[2] = "program" => \E w \in written : w[1] = o
    BY DEF Reported
  <2>2. written \subseteq written'
    OBVIOUS
  <2>3. ASSUME op \in report'.done, op[2] = "program" PROVE \E w \in written' : w[1] = op
    <3>1. PICK p \in Places : written' = written \union {<<op, p>>}
      BY <2>3
    <3>2. <<op, p>> \in written' /\ <<op, p>>[1] = op
      BY <3>1
    <3> QED BY <3>2
  <2> QED BY <1>1, <2>1, <2>2, <2>3
<1>14. \A w \in written' :
         w[1][2] = "program" /\ w[1][1] <= nset' /\ (w[1][1] \notin report'.lost => w[1] \in report'.done)
  <2>1. \A w \in written :
          w[1][2] = "program" /\ w[1][1] <= nset /\ (w[1][1] \notin report.lost => w[1] \in report.done)
    BY DEF Reported
  <2>2. ASSUME op[2] = "program", op \in report'.done, NEW p \in Places
        PROVE  <<op, p>>[1] = op /\ op[1] <= nset
    BY <1>3, <1>5
  <2> QED BY <1>1, <2>1, <2>2
<1>15. Reported'
  BY <1>2, <1>10, <1>11, <1>12, <1>13, <1>14 DEF Reported
<1>16. Stays'
  <2>1. \A o \in Triples : Flash!Target(o)' = Flash!Target(o)
    BY DEF Flash!Target, Flash!StartSector
  <2>2. ASSUME NEW o \in report'.done, o[2] = "program"
        PROVE  \/ storage'[Flash!Target(o)] = plan.sets[o[1]].programs[o[3]].img
               \/ \E q \in Triples : IsOp(q) /\ q[2] /= "patch" /\ Flash!Target(q) = Flash!Target(o) /\ Flash!Before(o, q)
    <3>1. CASE o = op
      BY <2>2, <3>1
    <3>2. CASE o /= op
      <4>1. o \in report.done /\ Past(o) /\ IsOp(o) /\ o \in Triples
        BY <1>1, <1>8, <3>2
      <4>2. \/ storage[Flash!Target(o)] = plan.sets[o[1]].programs[o[3]].img
            \/ \E q \in Triples : IsOp(q) /\ q[2] /= "patch" /\ Flash!Target(q) = Flash!Target(o) /\ Flash!Before(o, q)
        BY <2>2, <4>1 DEF Stays
      <4>3. Flash!Target(o) \in Places
        BY <1>3, <2>2, <4>1, OpPlace
      <4>5. storage'[Flash!Target(o)] = storage[Flash!Target(o)] \/ (op[2] /= "patch" /\ Flash!Target(o) = Flash!Target(op))
        BY <4>3 DEF FlashTypes
      <4>4. op[2] /= "patch" => Flash!Before(o, op)
        BY <1>3, <1>5, <2>2, <4>1 DEF Past, Flash!Before
      <4> QED BY <4>1, <4>2, <4>4, <4>5
    <3> QED BY <3>1, <3>2
  <2>3. \A o \in report'.done : o \in Triples
    BY <1>1, <1>8
  <2> QED BY <2>1, <2>2, <2>3, <1>6 DEF Stays, Flash!Before
<1> QED BY <1>4, <1>15, <1>16

\* Going on to another operation or phase changes nothing that was noted.
LEMMA Moved ==
  ASSUME FlashTypes, Place, Reported, Stays, flashing \notin {"idle", "done"}, flashing' \notin {"idle", "done"},
         UNCHANGED <<plan, storage, written, report, nset, outcome>>,
         \A o \in Triples : IsOp(o) => (Past(o)' <=> Past(o))
  PROVE  Place' /\ Reported' /\ Stays'
<1>1. \A o \in Triples : IsOp(o) <=> IsOp(o)'
  BY DEF IsOp, Flash!Programs
<1>2. Flash!Single' = Flash!Single
  BY DEF Flash!Single
<1>3. Place'
  BY <1>2 DEF Place
<1>4. \A o \in report.done \union report.failed : o \in Triples
  BY DEF FlashTypes
<1>5. Reported'
  BY <1>1, <1>2, <1>4 DEF Reported
<1>6. Stays'
  <2>1. \A o \in Triples : Flash!Target(o)' = Flash!Target(o)
    BY DEF Flash!Target, Flash!StartSector
  <2> QED BY <1>1, <1>4, <2>1 DEF Stays, Flash!Before
<1> QED BY <1>3, <1>5, <1>6

\* A set that has ended has all its operations behind it.
LEMMA Ended ==
  ASSUME FlashTypes, Place, Reported, Stays, flashing = "patch", UNCHANGED <<plan, storage, written>>,
         Flash!This.patch /= "good" \/ nop /= 1, Flash!SetEnds
  PROVE  Place' /\ Reported' /\ Stays'
<1>1. /\ flashing' \in {"validate", "done"} /\ nop' = 1 /\ nset' \in 1 .. Len(plan.sets)
      /\ outcome' \in {"none", "ok", "err"} /\ (outcome' = "none" <=> flashing' /= "done")
      /\ flashing' = "validate" => plan.kind = "dir" /\ nset' = nset + 1
      /\ flashing' = "done" => nset' = nset /\ nset = Len(plan.sets)
      /\ UNCHANGED report /\ plan \in Plans /\ plan.sets \in Seq(Flash!Set)
      /\ outcome = "none" /\ nset \in Nat /\ nop \in Nat \ {0}
  BY SetOver, SetFinished, ThisSet DEF Place, FlashTypes
<1>2. \A o \in Triples : IsOp(o) <=> IsOp(o)'
  BY DEF IsOp, Flash!Programs
<1>3. Flash!Single' = Flash!Single
  BY DEF Flash!Single
<1>4. \A o \in Triples : IsOp(o) => o[1] \in 1 .. Len(plan.sets) /\ o[3] \in Nat
  BY <1>1 DEF IsOp, Triples
<1>5. ASSUME NEW o \in Triples, IsOp(o) PROVE Past(o)' <=> Past(o)
  <2>1. Past(o) <=> o[1] <= nset
    <3>1. o[1] = nset /\ o[2] = "patch" => o[3] < nop
      BY <1>1, <1>5 DEF IsOp, Flash!This
    <3> QED BY <1>1, <1>4, <1>5, <3>1 DEF Past, IsOp
  <2>2. CASE flashing' = "validate"
    BY <1>1, <1>4, <1>5, <2>1, <2>2 DEF Past, IsOp
  <2>3. CASE flashing' = "done"
    BY <1>1, <1>4, <1>5, <2>1, <2>3 DEF Past
  <2> QED BY <1>1, <2>2, <2>3
<1>6. plan.kind /= "dir" => nset' = 1
  BY <1>1 DEF Place
<1>7. Place'
  BY <1>1, <1>3, <1>6 DEF Place
<1>8. (\A o \in report.done \union report.failed : o \in Triples) /\ report.lost \subseteq Nat /\ \A w \in written : w[1][1] \in Nat
  BY DEF FlashTypes, Triples
<1>9. \A s \in report'.lost : s <= nset' /\ (flashing' /= "done" => s < nset')
  BY <1>1, <1>8 DEF Reported
<1>10. \A w \in written' :
         w[1][2] = "program" /\ w[1][1] <= nset' /\ (w[1][1] \notin report'.lost => w[1] \in report'.done)
  BY <1>1, <1>8 DEF Reported
<1>11. Reported'
  BY <1>1, <1>2, <1>3, <1>5, <1>8, <1>9, <1>10 DEF Reported
<1>12. Stays'
  <2>1. \A o \in Triples : Flash!Target(o)' = Flash!Target(o)
    BY DEF Flash!Target, Flash!StartSector
  <2> QED BY <1>1, <1>2, <1>8, <2>1 DEF Stays, Flash!Before
<1> QED BY <1>7, <1>11, <1>12

\* A set that is lost takes with it what was noted of it, and nothing else.
LEMMA Lost ==
  ASSUME FlashTypes, Place, Reported, Stays, flashing \in {"validate", "patch"}, UNCHANGED <<plan, storage, written>>,
         Flash!SetFails
  PROVE  Place' /\ Reported' /\ Stays'
<1>0. report'.lost = report.lost \union {nset} /\ report'.done = {op \in report.done : op[1] /= nset}
      /\ report'.failed = {op \in report.failed : op[1] /= nset}
      /\ ((plan.kind = "dir" /\ Flash!NextSet) \/ (plan.kind /= "dir" /\ Flash!Return("err")))
  BY SetForgotten
<1>1. /\ flashing' \in {"validate", "done"} /\ nop' = 1 /\ nset' \in 1 .. Len(plan.sets)
      /\ outcome' \in {"none", "ok", "err"} /\ (outcome' = "none" <=> flashing' /= "done")
      /\ flashing' = "validate" => plan.kind = "dir" /\ nset' = nset + 1
      /\ flashing' = "done" => nset' = nset /\ nset = Len(plan.sets)
      /\ plan \in Plans /\ plan.sets \in Seq(Flash!Set) /\ outcome = "none" /\ nset \in Nat
  BY <1>0, SetOver, ThisSet DEF Place, FlashTypes
<1>2. \A o \in Triples : IsOp(o) <=> IsOp(o)'
  BY DEF IsOp, Flash!Programs
<1>3. Flash!Single' = Flash!Single
  BY DEF Flash!Single
<1>4. \A o \in Triples : o[1] \in Nat /\ (IsOp(o) => o[1] \in 1 .. Len(plan.sets))
  BY <1>1 DEF IsOp, Triples
<1>5. ASSUME NEW o \in Triples, IsOp(o), o[1] /= nset PROVE Past(o)' <=> Past(o)
  <2>1. Past(o) <=> o[1] < nset
    BY <1>5 DEF Past
  <2>2. CASE flashing' = "validate"
    BY <1>1, <1>4, <1>5, <2>1, <2>2 DEF Past, IsOp
  <2>3. CASE flashing' = "done"
    BY <1>1, <1>4, <1>5, <2>1, <2>3 DEF Past
  <2> QED BY <1>1, <2>2, <2>3
<1>6. plan.kind /= "dir" => nset' = 1
  BY <1>1 DEF Place
<1>7. Place'
  BY <1>1, <1>3, <1>6 DEF Place
<1>8. (\A o \in report.done \union report.failed : o \in Triples) /\ report.lost \subseteq Nat /\ \A w \in written : w[1] \in Triples
  BY DEF FlashTypes
<1>9. \A s \in report'.lost : s <= nset' /\ (flashing' /= "done" => s < nset')
  <2>1. \A s \in report.lost : s <= nset
    BY DEF Reported
  <2> QED BY <1>0, <1>1, <1>8, <2>1
<1>10. \A w \in written' :
         w[1][2] = "program" /\ w[1][1] <= nset' /\ (w[1][1] \notin report'.lost => w[1] \in report'.done)
  <2>1. \A w \in written :
          w[1][2] = "program" /\ w[1][1] <= nset /\ (w[1][1] \notin report.lost => w[1] \in report.done)
    BY DEF Reported
  <2> QED BY <1>0, <1>1, <1>4, <1>8, <2>1
<1>11. \A o \in report'.done \union report'.failed : IsOp(o)' /\ Past(o)' /\ o[1] \notin report'.lost
  BY <1>0, <1>2, <1>5, <1>8 DEF Reported
<1>12. ASSUME ~Flash!Single, NEW o \in Triples, IsOp(o)', Past(o)', o[1] \notin report'.lost
       PROVE  o \in report'.done \union report'.failed
  <2>1. IsOp(o) /\ Past(o) /\ o[1] /= nset /\ o[1] \notin report.lost
    BY <1>0, <1>2, <1>5, <1>12
  <2>2. o \in report.done \union report.failed
    BY <1>1, <1>12, <2>1 DEF Reported
  <2> QED BY <1>0, <2>1, <2>2
<1>13. Reported'
  <2>1. report'.done \intersect report'.failed = {} /\ \A o \in report'.done : o[2] = "program" => \E w \in written' : w[1] = o
    BY <1>0 DEF Reported
  <2> QED BY <1>3, <1>9, <1>10, <1>11, <1>12, <2>1 DEF Reported
<1>14. Stays'
  <2>1. \A o \in Triples : Flash!Target(o)' = Flash!Target(o)
    BY DEF Flash!Target, Flash!StartSector
  <2> QED BY <1>0, <1>2, <1>8, <2>1 DEF Stays, Flash!Before
<1> QED BY <1>7, <1>13, <1>14

\* The command starts with its first set, and with nothing to report.
LEMMA Started ==
  ASSUME FlashInv, Flash!Start
  PROVE  FlashInv'
<1>1. /\ plan' \in Plans /\ disk' \in Disks /\ nset' = 1 /\ nop' = 1 /\ outcome' = "none"
      /\ report' = Flash!NoReport /\ written' = {} /\ temps' = {} /\ storage' = storage
      /\ flashing' = IF plan'.kind \in {"batch", "dir"} THEN "validate" ELSE plan'.kind
      /\ storage = [p \in Places |-> "old"]
  BY DEF FlashInv, FlashTypes, Place, Clean, Flash!Start
<1>2. /\ plan'.kind \in Flash!Kinds /\ plan'.sets \in Seq(Flash!Set) /\ plan'.sets /= <<>>
      /\ disk' \in [Images -> Flash!Files]
  BY <1>1, FlashConstants DEF Flash!FlashAssumption
<1>3. flashing' \in {"validate", "program", "erase"} /\ 1 \in DOMAIN plan'.sets
  BY <1>1, <1>2 DEF Flash!Kinds
<1>4. FlashTypes'
  BY <1>1, <1>2, <1>3 DEF FlashInv, FlashTypes, Flash!NoReport
<1>5. Place'
  BY <1>1, <1>3 DEF Place
<1>6. Reported'
  <2>1. ASSUME ~Flash!Single', NEW o \in Triples, IsOp(o)', Past(o)' PROVE FALSE
    <3>1. flashing' = "validate"
      BY <1>1, <1>2, <2>1 DEF Flash!Single, Flash!Kinds
    <3>2. o[1] \in 1 .. Len(plan'.sets)
      BY <1>2, <2>1 DEF IsOp
    <3>3. o[1] < 1 \/ o[2] = "validate"
      BY <1>1, <2>1, <3>1 DEF Past
    <3> QED BY <2>1, <3>2, <3>3 DEF IsOp
  <2> QED BY <1>1, <2>1 DEF Reported, Flash!NoReport
<1>7. Stays'
  BY <1>1 DEF Stays, Flash!NoReport
<1>8. Clean'
  BY <1>1 DEF Clean
<1> QED BY <1>4, <1>5, <1>6, <1>7, <1>8 DEF FlashInv

\* A manifest is read, or its set is lost.
LEMMA Validated ==
  ASSUME FlashInv, Flash!Validate
  PROVE  FlashInv'
<1> USE DEF FlashInv
<1>1. flashing = "validate" /\ UNCHANGED <<plan, disk, storage, temps, written>>
      /\ plan.sets \in Seq(Flash!Set) /\ nset \in 1 .. Len(plan.sets) /\ plan.kind \in Flash!Kinds
  BY ThisSet DEF Flash!Validate
<1>2. CASE Flash!Go("erase")
  <2>1. flashing' = "erase" /\ nop' = 1 /\ UNCHANGED <<nset, report, outcome>>
    BY <1>2 DEF Flash!Go
  <2>2. FlashTypes'
    BY <1>1, <2>1 DEF FlashTypes
  <2>3. ASSUME NEW o \in Triples, IsOp(o) PROVE Past(o)' <=> Past(o)
    <3>1. o[2] = "erase" => o[3] \in Nat \ {0}
      <4>1. plan.sets[o[1]] \in Flash!Set
        BY <1>1, <2>3 DEF IsOp
      <4>2. plan.sets[o[1]].erases \in Seq(Places)
        BY <4>1 DEF Flash!Set
      <4> QED BY <2>3, <4>2 DEF IsOp
    <3> QED BY <1>1, <2>1, <2>3, <3>1 DEF Past, IsOp
  <2>4. Place' /\ Reported' /\ Stays'
    BY <1>1, <2>1, <2>3, Moved
  <2>5. Clean'
    BY <1>1, <2>1 DEF Clean, Place
  <2> QED BY <2>2, <2>4, <2>5
<1>3. CASE Flash!SetFails
  <2>1. Place' /\ Reported' /\ Stays'
    BY <1>1, <1>3, Lost
  <2>2. /\ report' \in [done : SUBSET Triples, failed : SUBSET Triples, lost : SUBSET Nat, verified : SUBSET (Triples \X BOOLEAN)]
        /\ flashing' \in {"validate", "done"} /\ nop' = 1 /\ nset' \in 1 .. Len(plan.sets)
        /\ outcome' \in {"none", "ok", "err"}
        /\ flashing' = "validate" => nset' = nset + 1
        /\ (flashing' = "done" => nset' = nset) /\ (outcome' = "none" <=> flashing' /= "done")
        /\ outcome' = "err" => plan.kind /= "dir"
    BY <1>1, <1>3, SetForgotten, SetOver
  <2>3. FlashTypes'
    BY <1>1, <2>2 DEF FlashTypes
  <2>4. Clean'
    <3>1. flashing' = "validate" => nset' /= 1
      BY <1>1, <2>2
    <3>2. outcome' = "err" => nset = 1
      BY <1>1, <2>2 DEF Place
    <3>3. outcome' = "err" => storage = [p \in Places |-> "old"]
      BY <1>1, <3>2 DEF Clean
    <3> QED BY <1>1, <2>2, <3>1, <3>3 DEF Clean
  <2> QED BY <2>1, <2>3, <2>4
<1> QED BY <1>2, <1>3 DEF Flash!Validate

\* The command goes on to the next phase when the entries of one are all behind.
LEMMA PhaseOver ==
  ASSUME FlashInv, Flash!Erased \/ Flash!Programmed \/ Flash!Skip
  PROVE  FlashInv'
<1> USE DEF FlashInv
<1>1. flashing \in {"erase", "program"} /\ UNCHANGED <<plan, disk, storage, temps, written, nset, report, outcome>>
  BY DEF Flash!Erased, Flash!Programmed, Flash!Skip, Flash!Go, Flash!Another
<1>2. /\ plan.sets \in Seq(Flash!Set) /\ Flash!This.programs \in Seq(Flash!Entry) /\ Flash!This.erases \in Seq(Places)
      /\ Flash!This = plan.sets[nset] /\ nop \in Nat \ {0}
  BY <1>1, ThisSet DEF FlashTypes, Flash!This
<1>3. flashing' \in {"program", "patch"} /\ nop' \in Nat \ {0}
  BY <1>2 DEF Flash!Erased, Flash!Programmed, Flash!Skip, Flash!Go, Flash!Another
<1>4. FlashTypes'
  BY <1>1, <1>3 DEF FlashTypes
<1>5. ASSUME NEW o \in Triples, IsOp(o) PROVE Past(o)' <=> Past(o)
  <2>1. o[1] = nset /\ o[2] = "erase" => o[3] \in 1 .. Len(Flash!This.erases)
    BY <1>2, <1>5 DEF IsOp
  <2>2. o[1] = nset /\ o[2] = "program" => o[3] \in 1 .. Len(Flash!This.programs) /\ o[3] \in Flash!Programs(Flash!This)
    BY <1>2, <1>5 DEF IsOp, Flash!Programs
  <2>3. o[1] = nset /\ o[2] = "patch" => o[3] = 1
    BY <1>5 DEF IsOp
  <2>4. CASE Flash!Erased
    BY <1>1, <1>2, <1>5, <2>1, <2>2, <2>4 DEF Past, IsOp, Flash!Erased, Flash!Go
  <2>5. CASE Flash!Programmed
    BY <1>1, <1>2, <1>5, <2>1, <2>2, <2>3, <2>5 DEF Past, IsOp, Flash!Programmed, Flash!Go
  <2>6. CASE Flash!Skip
    <3>1. flashing = "program" /\ flashing' = "program" /\ nop' = nop + 1 /\ nop \notin Flash!Programs(Flash!This)
      BY <2>6 DEF Flash!Skip, Flash!Another
    <3>2. o[1] = nset /\ o[2] = "program" => (o[3] < nop + 1 <=> o[3] < nop)
      BY <1>2, <2>2, <3>1
    <3> QED BY <1>1, <3>1, <3>2 DEF Past
  <2> QED BY <2>4, <2>5, <2>6
<1>6. Place' /\ Reported' /\ Stays'
  BY <1>1, <1>3, <1>5, Moved
<1>7. Clean'
  BY <1>1, <1>3 DEF Clean, Place
<1> QED BY <1>4, <1>6, <1>7

\* An operation leaves the command in its phase, or the command was that operation.
LEMMA OperationLeaves ==
  ASSUME FlashTypes, Place, flashing \in {"erase", "program", "patch"}, NEW op \in Triples,
         UNCHANGED plan,
         (\E checks \in SUBSET (Triples \X BOOLEAN) : Flash!Done(op, checks)) \/ Flash!Fail(op)
  PROVE  /\ report' \in [done : SUBSET Triples, failed : SUBSET Triples, lost : SUBSET Nat, verified : SUBSET (Triples \X BOOLEAN)]
         /\ flashing' \in {"erase", "program", "patch", "done"} /\ nset' = nset /\ nop' \in Nat \ {0}
         /\ outcome' \in {"none", "ok", "err"} /\ (outcome' = "err" => plan.kind /= "batch")
         /\ report'.done \subseteq report.done \union {op}
<1>1. outcome = "none"
  BY DEF Place
<1> QED BY <1>1, OperationOver DEF Flash!Single

\* Erase, of an entry or of the erase command, preserves the invariant.
LEMMA Erasing ==
  ASSUME FlashInv, Flash!Erase
  PROVE  FlashInv'
<1> DEFINE op == <<nset, "erase", nop>>
<1>1. /\ flashing = "erase" /\ nop \in 1 .. Len(Flash!This.erases) /\ UNCHANGED <<plan, disk, temps, written>>
      /\ plan.sets \in Seq(Flash!Set) /\ Flash!This.erases \in Seq(Places) /\ nset \in DOMAIN plan.sets
      /\ nset \in Nat /\ nop \in Nat
  BY ThisSet DEF FlashInv, FlashTypes, Flash!Erase
<1>2. /\ op \in Triples /\ IsOp(op) /\ Flash!Target(op) = Flash!This.erases[nop] /\ Flash!This.erases[nop] \in Places
      /\ op = <<nset, flashing, nop>> /\ op[2] = "erase" /\ op = Flash!Op("erase")
  BY <1>1 DEF IsOp, Triples, Flash!Target, Flash!This, Flash!Op
<1> HIDE DEF op
<1>3. (\E checks \in SUBSET (Triples \X BOOLEAN) : Flash!Done(op, checks)) \/ Flash!Fail(op)
  <2>1. Flash!Done(op, {}) \/ Flash!Fail(op)
    BY <1>2 DEF Flash!Erase
  <2> QED BY <2>1
<1>4. storage' = storage \/ \E v \in {"zero", "torn"} : storage' = [storage EXCEPT ![Flash!Target(op)] = v]
  BY <1>2 DEF Flash!Erase
<1>5. storage' \in [Places -> {"old", "zero", "torn"} \union Images]
  BY <1>4 DEF FlashInv, FlashTypes
<1>6. storage' = storage \/ (op[2] /= "patch" /\ \E v : storage' = [storage EXCEPT ![Flash!Target(op)] = v])
  BY <1>2, <1>4
<1>7. Place' /\ Reported' /\ Stays'
  BY <1>1, <1>2, <1>3, <1>6, Noted DEF FlashInv
<1>8. /\ report' \in [done : SUBSET Triples, failed : SUBSET Triples, lost : SUBSET Nat, verified : SUBSET (Triples \X BOOLEAN)]
      /\ flashing' \in {"erase", "program", "patch", "done"} /\ nset' = nset /\ nop' \in Nat \ {0}
      /\ outcome' \in {"none", "ok", "err"} /\ (outcome' = "err" => plan.kind /= "batch")
  BY <1>1, <1>2, <1>3, OperationLeaves DEF FlashInv
<1>9. FlashTypes'
  BY <1>1, <1>5, <1>8 DEF FlashInv, FlashTypes
<1>10. Clean'
  BY <1>1, <1>8 DEF FlashInv, Clean
<1> QED BY <1>7, <1>9, <1>10 DEF FlashInv

\* Program, written or failed, preserves the invariant.
LEMMA Programming ==
  ASSUME FlashInv, Flash!Program
  PROVE  FlashInv'
<1> DEFINE op == <<nset, "program", nop>>
           e == Flash!This.programs[nop]
<1>1. /\ flashing = "program" /\ nop \in Flash!Programs(Flash!This) /\ UNCHANGED <<plan, disk>>
      /\ plan.sets \in Seq(Flash!Set) /\ Flash!This.programs \in Seq(Flash!Entry) /\ nset \in DOMAIN plan.sets
      /\ nset \in Nat /\ nop \in Nat
  BY ThisSet DEF FlashInv, FlashTypes, Flash!Program
<1>2. /\ op \in Triples /\ IsOp(op) /\ op = <<nset, flashing, nop>> /\ op[1] = nset /\ op[2] = "program" /\ op[3] = nop
      /\ op = Flash!Op("program")
  BY <1>1 DEF IsOp, Triples, Flash!This, Flash!Op
<1>3. Flash!Target(op) = Flash!StartSector(e) /\ plan.sets[op[1]].programs[op[3]] = e
  BY <1>2 DEF Flash!Target, Flash!This
<1>4. e.img \in Images /\ Flash!Target(op) \in Places
  <2>1. nop \in DOMAIN Flash!This.programs
    BY <1>1 DEF Flash!Programs
  <2>2. e \in Flash!Entry
    BY <1>1, <2>1
  <2>3. Flash!Target(op) \in Places
    BY <1>1, <1>2, OpPlace DEF FlashInv
  <2> QED BY <2>2, <2>3 DEF Flash!Entry
<1> DEFINE p == Flash!Target(op)
<1>5. \/ /\ disk[e.img] \in {"absent", "empty"} /\ Flash!Fail(op) /\ UNCHANGED <<storage, temps, written>>
      \/ /\ disk[e.img] = "broken" /\ Flash!Fail(op)
         /\ temps' = temps \union {e.img} /\ UNCHANGED <<storage, written>>
      \/ /\ disk[e.img] \in {"raw", "sparse"} /\ Flash!Fail(op)
         /\ storage' \in {storage, [storage EXCEPT ![p] = "torn"]}
         /\ temps' = temps \ {e.img} /\ UNCHANGED written
      \/ /\ disk[e.img] \in {"raw", "sparse"}
         /\ \E checks \in {{}} \union {{<<op, v>>} : v \in BOOLEAN} : Flash!Done(op, checks)
         /\ storage' = [storage EXCEPT ![p] = e.img] /\ written' = written \union {<<op, p>>}
         /\ temps' = temps \ {e.img}
  BY <1>2, <1>3 DEF Flash!Program
<1>6. temps' \subseteq Images /\ \A i \in temps' : disk'[i] \in {"broken", "absent"}
  BY <1>1, <1>4, <1>5 DEF FlashInv, FlashTypes, Clean
<1>7. storage' = storage \/ \E v \in {"torn"} \union Images : storage' = [storage EXCEPT ![p] = v]
  BY <1>4, <1>5
<1>8. storage' \in [Places -> {"old", "zero", "torn"} \union Images]
  BY <1>4, <1>7 DEF FlashInv, FlashTypes
<1>9. written' = written \/ written' = written \union {<<op, p>>}
  BY <1>5
<1> HIDE DEF e, op
<1>10. (\E checks \in SUBSET (Triples \X BOOLEAN) : Flash!Done(op, checks)) \/ Flash!Fail(op)
  <2>1. \A checks \in {{}} \union {{<<op, v>>} : v \in BOOLEAN} : checks \in SUBSET (Triples \X BOOLEAN)
    BY <1>2
  <2> QED BY <1>5, <2>1
<1>11. /\ report' \in [done : SUBSET Triples, failed : SUBSET Triples, lost : SUBSET Nat, verified : SUBSET (Triples \X BOOLEAN)]
       /\ flashing' \in {"erase", "program", "patch", "done"} /\ nset' = nset /\ nop' \in Nat \ {0}
       /\ outcome' \in {"none", "ok", "err"} /\ (outcome' = "err" => plan.kind /= "batch")
  BY <1>1, <1>2, <1>10, OperationLeaves DEF FlashInv
<1>12. FlashTypes'
  <2>1. written' \subseteq Triples \X Places
    BY <1>2, <1>4, <1>9 DEF FlashInv, FlashTypes
  <2> QED BY <1>1, <1>6, <1>8, <1>11, <2>1 DEF FlashInv, FlashTypes
<1>13. Clean'
  BY <1>6, <1>11, <1>1 DEF FlashInv, Clean
<1>14. Flash!Fail(op) => op \notin report'.done
  <2>1. op \notin report.done
    <3>1. ~Past(op) /\ outcome = "none"
      BY <1>1, <1>2 DEF Past, FlashInv, Place
    <3> QED BY <3>1 DEF FlashInv, Reported
  <2> QED BY <2>1 DEF Flash!Fail, FlashInv, FlashTypes
<1>15. (\E checks : Flash!Done(op, checks)) => op \in report'.done
  BY DEF Flash!Done, FlashInv, FlashTypes
<1>16. op \in report'.done => storage'[p] = e.img
  BY <1>4, <1>5, <1>14 DEF FlashInv, FlashTypes
<1>17. \/ UNCHANGED written /\ ~(op \in report'.done /\ op[2] = "program")
       \/ op[2] = "program" /\ op \in report'.done /\ \E q \in Places : written' = written \union {<<op, q>>}
  BY <1>2, <1>4, <1>5, <1>14, <1>15
<1>18. storage' = storage \/ (op[2] /= "patch" /\ \E v : storage' = [storage EXCEPT ![Flash!Target(op)] = v])
  BY <1>2, <1>7
<1>19. Place' /\ Reported' /\ Stays'
  BY <1>1, <1>2, <1>3, <1>10, <1>16, <1>17, <1>18, Noted DEF FlashInv
<1> QED BY <1>12, <1>13, <1>19 DEF FlashInv

\* Patch, the last operation of a set, preserves the invariant.
LEMMA Patching ==
  ASSUME FlashInv, Flash!Patch
  PROVE  FlashInv'
<1> DEFINE op == <<nset, "patch", nop>>
<1>1. /\ flashing = "patch" /\ UNCHANGED <<plan, disk, storage, temps, written>>
      /\ plan.sets \in Seq(Flash!Set) /\ nset \in DOMAIN plan.sets /\ plan.kind \in Flash!Kinds
      /\ nset \in Nat /\ nop \in Nat /\ nset \in 1 .. Len(plan.sets)
  BY ThisSet DEF FlashInv, FlashTypes, Flash!Patch
<1>2. CASE Flash!This.patch = "good" /\ nop = 1
  <2>1. op \in Triples /\ IsOp(op) /\ op = <<nset, flashing, nop>> /\ op[2] = "patch" /\ op = Flash!Op("patch")
    BY <1>1, <1>2 DEF IsOp, Triples, Flash!This, Flash!Op
  <2> HIDE DEF op
  <2>2. (\E checks \in SUBSET (Triples \X BOOLEAN) : Flash!Done(op, checks)) \/ Flash!Fail(op)
    <3>1. Flash!Done(op, {}) \/ Flash!Fail(op)
      BY <1>2, <2>1 DEF Flash!Patch
    <3> QED BY <3>1
  <2>3. Place' /\ Reported' /\ Stays'
    BY <1>1, <2>1, <2>2, Noted DEF FlashInv
  <2>4. /\ report' \in [done : SUBSET Triples, failed : SUBSET Triples, lost : SUBSET Nat, verified : SUBSET (Triples \X BOOLEAN)]
        /\ flashing' \in {"erase", "program", "patch", "done"} /\ nset' = nset /\ nop' \in Nat \ {0}
        /\ outcome' \in {"none", "ok", "err"} /\ (outcome' = "err" => plan.kind /= "batch")
    BY <1>1, <2>1, <2>2, OperationLeaves DEF FlashInv
  <2>5. FlashTypes' /\ Clean'
    BY <1>1, <2>4 DEF FlashInv, FlashTypes, Clean
  <2> QED BY <2>3, <2>5 DEF FlashInv
<1>3. CASE ~(Flash!This.patch = "good" /\ nop = 1)
  <2>1. IF Flash!This.patch = "bad" THEN Flash!SetFails ELSE Flash!SetEnds
    BY <1>3 DEF Flash!Patch
  <2>2. Place' /\ Reported' /\ Stays'
    BY <1>1, <1>3, <2>1, Lost, Ended DEF FlashInv
  <2>3. /\ report' \in [done : SUBSET Triples, failed : SUBSET Triples, lost : SUBSET Nat, verified : SUBSET (Triples \X BOOLEAN)]
        /\ (plan.kind = "dir" /\ Flash!NextSet) \/ (plan.kind /= "dir" /\ (Flash!Return("ok") \/ Flash!Return("err")))
        /\ Flash!This.patch /= "bad" => ((plan.kind = "dir" /\ Flash!NextSet) \/ (plan.kind /= "dir" /\ Flash!Return("ok")))
    BY <1>1, <2>1, SetForgotten, SetFinished DEF FlashInv, FlashTypes
  <2>4. /\ flashing' \in {"validate", "done"} /\ nop' = 1 /\ nset' \in 1 .. Len(plan.sets)
        /\ outcome' \in {"none", "ok", "err"} /\ (flashing' = "validate" => nset' = nset + 1)
        /\ outcome' = "err" => plan.kind /= "dir"
        /\ (flashing' = "done" => nset' = nset) /\ (outcome' = "none" <=> flashing' /= "done")
    BY <1>1, <2>3, SetOver DEF FlashInv
  <2>5. FlashTypes'
    BY <1>1, <2>3, <2>4 DEF FlashInv, FlashTypes
  <2>6. outcome' = "err" => Flash!This'.patch = "bad"
    <3>1. outcome' = "err" => Flash!This.patch = "bad"
      BY <2>3, <2>4 DEF Flash!Return
    <3> QED BY <1>1, <2>4, <3>1 DEF Flash!This
  <2>7. Clean'
    BY <1>1, <2>4, <2>6 DEF FlashInv, Clean
  <2> QED BY <2>2, <2>5, <2>7 DEF FlashInv
<1> QED BY <1>2, <1>3

\* RemoveDirs, of one expansion at a time, preserves the invariant.
LEMMA Removing ==
  ASSUME FlashInv, Flash!RemoveImage
  PROVE  FlashInv'
<1>1. /\ flashing \notin {"idle", "done"} /\ UNCHANGED <<plan, flashing, nset, nop, storage, temps, report, outcome, written>>
      /\ \E i \in Images : disk' = [disk EXCEPT ![i] = "absent"]
  BY DEF Flash!RemoveImage
<1>2. FlashTypes' /\ Clean'
  BY <1>1 DEF FlashInv, FlashTypes, Clean, Flash!Files, Flash!This
<1>3. Place' /\ Reported' /\ Stays'
  BY <1>1, Moved DEF FlashInv, Past
<1> QED BY <1>2, <1>3 DEF FlashInv

\* FlashInv holds in every state of the command: one case for each action.
THEOREM FlashInvariance == Spec => []FlashInv
<1>1. Init => FlashInv
  <2>1. Flash!Init => FlashTypes /\ Place /\ Clean
    BY FlashConstants DEF Flash!FlashAssumption, Flash!Init, FlashTypes, Place, Clean, Flash!Files,
       Flash!NoReport, Flash!NoPlan,
      Flash!Single
  <2>2. Flash!Init => Reported /\ Stays
    BY DEF Flash!Init, Reported, Stays, Flash!NoReport, Flash!NoPlan, IsOp, Flash!Single
  <2> QED BY <2>1, <2>2 DEF Init, FlashInv
<1>2. FlashInv /\ [Next]_operationVars => FlashInv'
  <2>1. ASSUME FlashInv, Flash!Next PROVE FlashInv'
    BY <2>1, Started, Validated, PhaseOver, Erasing, Programming, Patching, Removing DEF Flash!Next
  <2>2. ASSUME FlashInv, UNCHANGED flashVars PROVE FlashInv'
    <3>1. UNCHANGED <<plan, flashing, nset, nop, disk, storage, temps, report, outcome, written>>
      BY <2>2 DEF flashVars
    <3>2. FlashTypes' /\ Place' /\ Clean'
      BY <2>2, <3>1 DEF FlashInv, FlashTypes, Place, Clean, Flash!This, Flash!Single
    <3>3. \A o \in Triples : (IsOp(o)' <=> IsOp(o)) /\ (Past(o)' <=> Past(o)) /\ Flash!Target(o)' = Flash!Target(o)
      BY <3>1 DEF IsOp, Past, Flash!Programs, Flash!Target, Flash!StartSector
    <3>4. \A o \in report.done \union report.failed : o \in Triples
      BY <2>2 DEF FlashInv, FlashTypes
    <3>5. Reported'
      BY <2>2, <3>1, <3>3, <3>4 DEF FlashInv, Reported, Flash!Single
    <3>6. Stays'
      BY <2>2, <3>1, <3>3, <3>4 DEF FlashInv, Stays, Flash!Before
    <3> QED BY <3>2, <3>5, <3>6 DEF FlashInv
  <2> QED BY <2>1, <2>2, FlashSteps
<1> QED BY <1>1, <1>2, PTL DEF Spec

\* The operations of a set are those that IsOp numbers in it.
LEMMA SetOperations ==
  ASSUME FlashInv, NEW s \in DOMAIN plan.sets, flashing /= "idle"
  PROVE  Flash!Ops(s) = {op \in Triples : IsOp(op) /\ op[1] = s}
<1>1. plan.sets[s] \in Flash!Set /\ s \in Nat
  BY ThisSet DEF FlashInv
<1>2. plan.sets[s].programs \in Seq(Flash!Entry) /\ plan.sets[s].erases \in Seq(Places)
  BY <1>1 DEF Flash!Set
<1>3. DOMAIN plan.sets[s].erases \subseteq Nat /\ Flash!Programs(plan.sets[s]) \subseteq Nat
  BY <1>2 DEF Flash!Programs
<1>4. ASSUME NEW op \in Flash!Ops(s) PROVE op \in Triples /\ IsOp(op) /\ op[1] = s
  BY <1>1, <1>3, <1>4 DEF Flash!Ops, IsOp, Triples
<1>5. ASSUME NEW op \in Triples, IsOp(op), op[1] = s PROVE op \in Flash!Ops(s)
  <2>1. op = <<s, op[2], op[3]>>
    BY <1>5 DEF Triples
  <2> QED BY <1>5, <2>1 DEF Flash!Ops, IsOp
<1> QED BY <1>4, <1>5

\* The report of a batch flash accounts for every operation of every manifest, once; what it says was
\* programmed was written, and is still there unless a later operation touched its place; a batch that was
\* refused has written nothing, and no temporary file is left: FlashReported, for every plan.
THEOREM ReportIsHonest == Spec => []FlashReported
<1>1. FlashInv => Flash!NothingSilent
  <2>1. SUFFICES ASSUME FlashInv, outcome = "ok", ~Flash!Single, NEW s \in DOMAIN plan.sets, s \notin report.lost,
                        NEW op \in Flash!Ops(s)
                 PROVE  (op \in report.done) /= (op \in report.failed)
    BY DEF Flash!NothingSilent
  <2>2. flashing = "done"
    BY <2>1 DEF FlashInv, Place
  <2>3. op \in Triples /\ IsOp(op) /\ op[1] = s /\ Past(op)
    BY <2>1, <2>2, SetOperations DEF Past
  <2>4. op \in report.done \union report.failed
    BY <2>1, <2>3 DEF FlashInv, Reported
  <2>5. report.done \intersect report.failed = {}
    BY <2>1 DEF FlashInv, Reported
  <2> QED BY <2>4, <2>5
<1>2. FlashInv => Flash!WrittenIsReported
  BY DEF FlashInv, Reported, Flash!WrittenIsReported
<1>3. FlashInv => Flash!ImagesStay
  <2>1. SUFFICES ASSUME FlashInv, flashing = "done", NEW op \in report.done, op[2] = "program",
                        storage[Flash!Target(op)] /= plan.sets[op[1]].programs[op[3]].img
                 PROVE  \E s \in DOMAIN plan.sets : \E o \in Flash!Ops(s) :
                          o[2] /= "patch" /\ Flash!Target(o) = Flash!Target(op) /\ Flash!Before(op, o)
    BY DEF Flash!ImagesStay
  <2>2. PICK o \in Triples : IsOp(o) /\ o[2] /= "patch" /\ Flash!Target(o) = Flash!Target(op) /\ Flash!Before(op, o)
    BY <2>1 DEF FlashInv, Stays
  <2>3. o[1] \in DOMAIN plan.sets /\ o \in Flash!Ops(o[1])
    BY <2>1, <2>2, SetOperations DEF IsOp
  <2> QED BY <2>2, <2>3
<1>4. FlashInv => Flash!CleanFailure
  BY DEF FlashInv, Clean, Flash!CleanFailure
<1>5. FlashInv => FlashReported
  BY <1>1, <1>2, <1>3, <1>4 DEF FlashReported, Flash!FlashReported
<1> QED BY FlashInvariance, <1>5, PTL

------------------------------------------------------------------------------
(* Types.                                                                   *)

\* A transfer has one of the totals, and counts up to the bound.
TransferBounds == total \in Totals \union {0} /\ count \in 0 .. MaxCount

\* TransferBounds holds from every start of a transfer to its end.
LEMMA TransferBoundsKept == Spec => []TransferBounds
<1>0. MaxCount \in Nat
  BY TransferConstants DEF Transfer!TransferAssumption
<1>1. Init => TransferBounds
  BY <1>0 DEF Init, Transfer!Init, TransferBounds
<1>2. TransferBounds /\ [Next]_operationVars => TransferBounds'
  BY <1>0, TransferSteps DEF TransferBounds, Transfer!Next, Transfer!Start, Transfer!Move, Transfer!Finish,
     Transfer!Return, Transfer!Poll, transferVars
<1> QED BY <1>1, <1>2, PTL DEF Spec

\* Every variable of a flash, a transfer, a verification and a listing keeps its type.
THEOREM EdlTypesKept ==
  Spec => [](Flash!FlashTypeOK /\ Transfer!TransferTypeOK /\ Verify!VerifyTypeOK /\ Gpt!GptTypeOK)
<1>1. FlashInv => Flash!FlashTypeOK
  BY DEF FlashInv, FlashTypes, Flash!FlashTypeOK
<1>2. TransferInv /\ TransferBounds => Transfer!TransferTypeOK
  <2> SUFFICES ASSUME TransferInv, TransferBounds PROVE Transfer!TransferTypeOK
    OBVIOUS
  <2>1. last \in Nat /\ shown.pct = Transfer!AtMost100(last)
    BY DEF TransferInv
  <2>2. shown.pct \in 0 .. 100
    BY <2>1 DEF Transfer!AtMost100
  <2> QED BY <2>1, <2>2 DEF TransferInv, TransferBounds, Transfer!TransferTypeOK
<1>3. VerifyInv => Verify!VerifyTypeOK
  BY DEF VerifyInv, Verify!VerifyTypeOK
<1>4. GptInv => Gpt!GptTypeOK
  BY DEF GptInv, Gpt!GptTypeOK
<1> QED BY <1>1, <1>2, <1>3, <1>4, FlashInvariance, TransferInvariance, TransferBoundsKept, VerifyInvariance,
       GptInvariance, PTL

==============================================================================
