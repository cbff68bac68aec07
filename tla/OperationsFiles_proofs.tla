----------------------- MODULE OperationsFiles_proofs ------------------------
(*****************************************************************************)
(* What the EDL operations make of the files they are given, for every value  *)
(* of the constants: the manifests of a directory, the programmer database,   *)
(* the sparse images, of any length, and what a programmer file tells of     *)
(* itself, for chains of certificates of any length.                         *)
(*****************************************************************************)
EXTENDS MCOperations, SequenceTheorems, WellFoundedInduction, TLAPS

\* A set of natural numbers that is not empty has a least element.
LEMMA Least ==
  ASSUME NEW T \in SUBSET Nat, T /= {}
  PROVE  \E x \in T : \A y \in T : x <= y
<1> DEFINE R == OpToRel(<, Nat)
<1>1. IsWellFoundedOn(R, Nat)
  BY NatLessThanWellFounded
<1>2. \A a, b \in Nat : a < b => <<a, b>> \in R
  BY DEF OpToRel
<1> HIDE DEF R
<1>3. PICK x \in T : \A y \in T : ~ (<<y, x>> \in R)
  BY <1>1, WFMin
<1>4. ASSUME NEW y \in T PROVE x <= y
  <2>1. x \in Nat /\ y \in Nat
    OBVIOUS
  <2>2. ~(y < x)
    BY <1>2, <1>3, <2>1
  <2> QED BY <2>1, <2>2
<1> QED BY <1>4

------------------------------------------------------------------------------
(* The manifests of a directory.                                            *)

\* A step of the operations is a step of discover_rawprograms or leaves it alone.
LEMMA ManifestSteps == [Next]_operationVars => Manifest!Next \/ UNCHANGED manifestVars
  BY DEF Next, Only, operationVars

\* The operations' constants are what EdlManifest assumes of its own.
LEMMA ManifestConstants == Manifest!ManifestAssumption
  BY OperationsAssumption DEF OperationsAssumption

\* What was looked at, and the patch files for every LUN.
Luns == 0 .. 9
SetRecords == [file : FileNames, lun : Luns, patch : SUBSET FileNames]
LookedAt == {dir[k] : k \in 1 .. looked}
PatchOf == [l \in Luns |-> Manifest!MatchingPatch(l)]
\* A set is of a manifest that was looked at, with its LUN and the patch files for that LUN.
Right(s, names, patches) ==
  s.file \in names /\ Manifest!Allowed(s.file) /\ s.lun = Manifest!LunHint(s.file) /\ s.patch = patches[s.lun]
\* Every manifest that was looked at has a set of its LUN, also after sort and dedup.
Covers(ss, f) == \E i \in DOMAIN ss : ss[i].lun = Manifest!LunHint(f)
AllRight == \A i \in DOMAIN sets : Right(sets[i], LookedAt, PatchOf)
AllCovered == \A f \in LookedAt : Manifest!Allowed(f) => Covers(sets, f)
ManifestInv ==
  /\ dir \in Seq(FileNames) /\ looked \in 0 .. Len(dir)
  /\ sets \in Seq(SetRecords) /\ Len(sets) <= looked
  /\ discovery \in {"none", "looking", "sorted", "found"}
  /\ discovery = "none" => looked = 0 /\ sets = <<>>
  /\ discovery \in {"sorted", "found"} => looked = Len(dir)
  /\ AllRight /\ AllCovered
  /\ discovery = "sorted" => \A i, j \in DOMAIN sets : i < j => sets[i].lun <= sets[j].lun
  /\ discovery = "found" => \A i, j \in DOMAIN sets : i < j => sets[i].lun < sets[j].lun

\* The LUN of a manifest is a digit.
LEMMA LunIsDigit ==
  ASSUME NEW f \in FileNames
  PROVE  Manifest!LunHint(f) \in Luns
<1>1. f.first \in -1 .. 9 /\ f.last \in -1 .. 9
  BY ManifestConstants DEF Manifest!ManifestAssumption, Manifest!Name, Manifest!None
<1> QED BY <1>1 DEF Manifest!LunHint, Manifest!None, Luns

\* The patch files for a LUN are files of the directory.
LEMMA PatchesAreFiles ==
  ASSUME dir \in Seq(FileNames), NEW lun \in Luns
  PROVE  Manifest!MatchingPatch(lun) \in SUBSET FileNames
<1>1. Manifest!ToSet(dir) \subseteq FileNames
  BY DEF Manifest!ToSet
<1> QED BY <1>1 DEF Manifest!MatchingPatch, Manifest!Patches

\* ManifestInv holds while the files are looked at.
LEMMA LookKeeps ==
  ASSUME ManifestInv, Manifest!Look
  PROVE  ManifestInv'
<1> DEFINE nm == dir[looked + 1]
           lun == Manifest!LunHint(nm)
           s == [file |-> nm, lun |-> lun, patch |-> Manifest!MatchingPatch(lun)]
<1>1. /\ discovery = "looking" /\ looked < Len(dir) /\ looked' = looked + 1 /\ UNCHANGED <<dir, discovery>>
      /\ sets' = IF Manifest!Allowed(nm) THEN Append(sets, s) ELSE sets
  BY DEF Manifest!Look
<1>2. nm \in FileNames /\ looked \in Nat /\ looked' \in 0 .. Len(dir)
  BY <1>1 DEF ManifestInv, AllRight
<1>3. lun \in Luns /\ s \in SetRecords
  BY <1>2, LunIsDigit, PatchesAreFiles DEF ManifestInv, SetRecords
<1>4. PatchOf' = PatchOf
  BY <1>1 DEF PatchOf, Manifest!MatchingPatch, Manifest!Patches, Manifest!ToSet
<1>5. LookedAt' = LookedAt \union {nm}
  BY <1>1, <1>2 DEF LookedAt
<1>6. s.file = nm /\ s.lun = lun /\ s.patch = PatchOf[lun]
  BY <1>3 DEF PatchOf
<1> HIDE DEF nm, lun, s
<1>7. CASE Manifest!Allowed(nm)
  <2>1. /\ sets' = Append(sets, s) /\ sets' \in Seq(SetRecords) /\ Len(sets') = Len(sets) + 1
        /\ sets'[Len(sets) + 1] = s /\ \A i \in DOMAIN sets : sets'[i] = sets[i]
        /\ DOMAIN sets' = 1 .. Len(sets) + 1 /\ DOMAIN sets = 1 .. Len(sets) /\ Len(sets) \in Nat
    BY <1>1, <1>3, <1>7 DEF ManifestInv
  <2>2. Right(s, LookedAt', PatchOf)
    BY <1>5, <1>6, <1>7 DEF Right, lun
  <2>3. AllRight'
    BY <1>4, <1>5, <2>1, <2>2 DEF ManifestInv, AllRight, Right
  <2>4. AllCovered'
    BY <1>5, <1>6, <2>1 DEF ManifestInv, AllCovered, Covers, lun
  <2> QED BY <1>1, <1>2, <2>1, <2>3, <2>4 DEF ManifestInv
<1>8. CASE ~Manifest!Allowed(nm)
  <2>1. sets' = sets
    BY <1>1, <1>8
  <2>2. AllRight' /\ AllCovered'
    BY <1>4, <1>5, <1>8, <2>1 DEF ManifestInv, AllRight, Right, AllCovered
  <2> QED BY <1>1, <1>2, <2>1, <2>2 DEF ManifestInv
<1> QED BY <1>7, <1>8

\* A step that keeps the files, and of the sets at least one for every LUN, keeps what they are.
LEMMA SetsKept ==
  ASSUME ManifestInv, UNCHANGED <<dir, looked>>, sets' \in Seq(SetRecords), Len(sets') <= Len(sets),
         \A i \in DOMAIN sets' : \E k \in DOMAIN sets : sets'[i] = sets[k],
         \A k \in DOMAIN sets : \E i \in DOMAIN sets' : sets'[i].lun = sets[k].lun
  PROVE  /\ AllRight' /\ AllCovered'
         /\ dir' \in Seq(FileNames) /\ looked' \in 0 .. Len(dir') /\ Len(sets') <= looked'
<1>1. PatchOf' = PatchOf /\ LookedAt' = LookedAt
  BY DEF PatchOf, LookedAt, Manifest!MatchingPatch, Manifest!Patches, Manifest!ToSet
<1>2. AllRight'
  BY <1>1 DEF ManifestInv, AllRight
<1>3. AllCovered'
  BY <1>1 DEF ManifestInv, AllCovered, Covers
<1>4. dir' \in Seq(FileNames) /\ looked' \in 0 .. Len(dir') /\ Len(sets') <= looked'
  BY DEF ManifestInv
<1> QED BY <1>2, <1>3, <1>4

\* ManifestInv holds of the sorted sets.
LEMMA SortKeeps ==
  ASSUME ManifestInv, Manifest!Sort
  PROVE  ManifestInv'
<1> DEFINE D == DOMAIN sets
<1>1. /\ discovery = "looking" /\ looked = Len(dir) /\ discovery' = "sorted" /\ UNCHANGED <<dir, looked>>
      /\ \E p \in Manifest!Surjection(D, D) : Manifest!ByLun(p) /\ sets' = [i \in D |-> sets[p[i]]]
  BY DEF Manifest!Sort
<1>2. PICK p \in Manifest!Surjection(D, D) : Manifest!ByLun(p) /\ sets' = [i \in D |-> sets[p[i]]]
  BY <1>1
<1>3. p \in [D -> D] /\ \A k \in D : \E i \in D : p[i] = k
  BY <1>2 DEF Manifest!Surjection
<1>4. D = 1 .. Len(sets) /\ Len(sets) \in Nat /\ \A i \in D : sets[i] \in SetRecords
  BY DEF ManifestInv
<1>5. sets' \in [1 .. Len(sets) -> SetRecords] /\ sets' \in Seq(SetRecords) /\ Len(sets') = Len(sets) /\ DOMAIN sets' = D
  BY <1>2, <1>3, <1>4
<1>6. \A i, j \in D : i < j => sets'[i].lun <= sets'[j].lun
  <2>r. \A r \in SetRecords : r.lun \in Int
    BY DEF SetRecords, Luns
  <2>1. \A i \in D : sets'[i] = sets[p[i]] /\ sets[p[i]].lun \in Int
    BY <1>2, <1>3, <1>4, <2>r
  <2> QED BY <1>2, <2>1 DEF Manifest!ByLun
<1>7. \A i \in D : \E k \in D : sets'[i] = sets[k]
  BY <1>2, <1>3
<1>8. \A k \in D : \E i \in D : sets'[i].lun = sets[k].lun
  BY <1>2, <1>3
<1>9. Len(sets') <= Len(sets)
  BY <1>4, <1>5
<1> HIDE DEF D
<1>10. /\ AllRight' /\ AllCovered'
       /\ dir' \in Seq(FileNames) /\ looked' \in 0 .. Len(dir') /\ Len(sets') <= looked'
  BY <1>1, <1>5, <1>7, <1>8, <1>9, SetsKept DEF D
<1> QED BY <1>1, <1>5, <1>6, <1>10 DEF ManifestInv, D

\* The first set of every LUN is kept.
LEMMA FirstOfLun ==
  ASSUME ManifestInv, NEW i \in DOMAIN sets
  PROVE  \E k \in Manifest!Firsts(sets) : sets[k].lun = sets[i].lun
<1>1. DOMAIN sets = 1 .. Len(sets) /\ Len(sets) \in Nat
  BY DEF ManifestInv
<1> DEFINE T == {k \in 1 .. Len(sets) : sets[k].lun = sets[i].lun}
<1>2. T \in SUBSET Nat /\ T /= {}
  BY <1>1
<1> HIDE DEF T
<1>3. PICK x \in T : \A y \in T : x <= y
  BY <1>2, Least
<1>4. x \in 1 .. Len(sets) /\ sets[x].lun = sets[i].lun
  BY DEF T
<1>5. x = 1 \/ (x - 1 \in 1 .. Len(sets) /\ ~(x <= x - 1))
  BY <1>1, <1>4
<1>6. x = 1 \/ sets[x - 1].lun /= sets[x].lun
  BY <1>3, <1>4, <1>5 DEF T
<1> QED BY <1>1, <1>4, <1>6 DEF Manifest!Firsts

\* ManifestInv holds of the sets without repetitions.
LEMMA DedupKeeps ==
  ASSUME ManifestInv, Manifest!Dedup
  PROVE  ManifestInv'
<1> DEFINE F == Manifest!Firsts(sets)
<1>1. /\ discovery = "sorted" /\ discovery' = "found" /\ UNCHANGED <<dir, looked>>
      /\ \E n \in 0 .. Len(sets) : \E keep \in Manifest!Surjection(1 .. n, F) :
           /\ \A i, j \in 1 .. n : i < j => keep[i] < keep[j]
           /\ sets' = [i \in 1 .. n |-> sets[keep[i]]]
  BY DEF Manifest!Dedup
<1>n. PICK n \in 0 .. Len(sets) : \E keep \in Manifest!Surjection(1 .. n, F) :
        /\ \A i, j \in 1 .. n : i < j => keep[i] < keep[j]
        /\ sets' = [i \in 1 .. n |-> sets[keep[i]]]
  BY <1>1
<1>2. PICK keep \in Manifest!Surjection(1 .. n, F) :
        /\ \A i, j \in 1 .. n : i < j => keep[i] < keep[j]
        /\ sets' = [i \in 1 .. n |-> sets[keep[i]]]
  BY <1>n
<1>3. keep \in [1 .. n -> F] /\ \A k \in F : \E i \in 1 .. n : keep[i] = k
  BY <1>2 DEF Manifest!Surjection
<1>r. \A r \in SetRecords : r.lun \in Int
  BY DEF SetRecords, Luns
<1>4. /\ DOMAIN sets = 1 .. Len(sets) /\ Len(sets) \in Nat
      /\ \A i \in 1 .. Len(sets) : sets[i] \in SetRecords /\ sets[i].lun \in Int
      /\ \A i, j \in 1 .. Len(sets) : i < j => sets[i].lun <= sets[j].lun
  <2>1. sets \in Seq(SetRecords) /\ \A i, j \in 1 .. Len(sets) : i < j => sets[i].lun <= sets[j].lun
    BY <1>1 DEF ManifestInv
  <2> HIDE DEF F
  <2>2. DOMAIN sets = 1 .. Len(sets) /\ Len(sets) \in Nat /\ \A i \in 1 .. Len(sets) : sets[i] \in SetRecords
    BY <2>1
  <2> QED BY <1>r, <2>1, <2>2
<1>5. \A k \in F : k \in 1 .. Len(sets) /\ (k = 1 \/ sets[k - 1].lun /= sets[k].lun)
  BY <1>4 DEF Manifest!Firsts
<1>6. n \in Nat /\ n <= Len(sets)
  BY <1>4
<1>7. sets' \in [1 .. n -> SetRecords] /\ sets' \in Seq(SetRecords) /\ Len(sets') = n /\ DOMAIN sets' = 1 .. n
  <2> HIDE DEF F
  <2>1. \A i \in 1 .. n : sets[keep[i]] \in SetRecords
    BY <1>3, <1>4, <1>5
  <2>2. sets' \in [1 .. n -> SetRecords]
    BY <1>2, <2>1
  <2> QED BY <1>6, <2>2
<1>8. \A i, j \in 1 .. n : i < j => sets'[i].lun < sets'[j].lun
  <2>1. SUFFICES ASSUME NEW i \in 1 .. n, NEW j \in 1 .. n, i < j PROVE sets[keep[i]].lun < sets[keep[j]].lun
    BY <1>2
  <2> DEFINE a == keep[i]
             b == keep[j]
  <2>2. a \in F /\ b \in F /\ a < b
    BY <1>2, <1>3, <2>1
  <2> HIDE DEF a, b
  <2>3. a \in 1 .. Len(sets) /\ b \in 1 .. Len(sets) /\ b - 1 \in 1 .. Len(sets) /\ a <= b - 1 /\ b - 1 < b /\ b /= 1
    BY <1>4, <1>5, <2>2
  <2>4. sets[b - 1].lun < sets[b].lun
    <3>1. sets[b - 1].lun <= sets[b].lun /\ sets[b - 1].lun \in Int /\ sets[b].lun \in Int
      BY <1>4, <2>3
    <3>2. sets[b - 1].lun /= sets[b].lun
      BY <1>5, <2>2, <2>3
    <3> QED BY <3>1, <3>2
  <2>5. a = b - 1 \/ a < b - 1
    BY <2>3
  <2>6. sets[a].lun <= sets[b - 1].lun
    BY <1>4, <2>3, <2>5
  <2> QED BY <1>4, <2>3, <2>4, <2>6 DEF a, b
<1>9. \A i \in 1 .. n : \E k \in DOMAIN sets : sets'[i] = sets[k]
  BY <1>2, <1>3, <1>4, <1>5
<1>10. ASSUME NEW k \in DOMAIN sets PROVE \E i \in 1 .. n : sets'[i].lun = sets[k].lun
  <2>1. PICK f \in F : sets[f].lun = sets[k].lun
    BY FirstOfLun
  <2>2. PICK i \in 1 .. n : keep[i] = f
    BY <1>3, <2>1
  <2> QED BY <1>2, <2>1, <2>2
<1>11. /\ AllRight' /\ AllCovered'
       /\ dir' \in Seq(FileNames) /\ looked' \in 0 .. Len(dir') /\ Len(sets') <= looked'
  BY <1>1, <1>6, <1>7, <1>9, <1>10, SetsKept
<1>12. looked' = Len(dir')
  BY <1>1 DEF ManifestInv
<1> QED BY <1>1, <1>7, <1>8, <1>11, <1>12 DEF ManifestInv

\* ManifestInv is inductive.
LEMMA ManifestInvariance == Spec => []ManifestInv
<1>1. Init => ManifestInv
  BY DEF Init, Manifest!Init, ManifestInv, AllRight, AllCovered, LookedAt
<1>2. ManifestInv /\ [Next]_operationVars => ManifestInv'
  <2> SUFFICES ASSUME ManifestInv, [Next]_operationVars PROVE ManifestInv'
    OBVIOUS
  <2>s. Manifest!Next \/ UNCHANGED manifestVars
    BY ManifestSteps
  <2>1. CASE Manifest!Discover
    <3>1. /\ discovery = "none" /\ discovery' = "looking" /\ UNCHANGED <<looked, sets>>
          /\ dir' \in Manifest!BoundedSeq(FileNames, MaxFiles)
      BY <2>1 DEF Manifest!Discover
    <3>2. PICK m \in 0 .. MaxFiles : dir' \in [1 .. m -> FileNames]
      BY <3>1 DEF Manifest!BoundedSeq, Manifest!SeqOf
    <3>3. dir' \in Seq(FileNames) /\ Len(dir') = m /\ m \in Nat
      BY <3>2, ManifestConstants DEF Manifest!ManifestAssumption
    <3>4. looked = 0 /\ sets = <<>>
      BY <3>1 DEF ManifestInv
    <3> QED BY <3>1, <3>3, <3>4 DEF ManifestInv, AllRight, AllCovered, LookedAt
  <2>6. CASE UNCHANGED manifestVars
    BY <2>6, SetsKept DEF manifestVars, ManifestInv
  <2> QED BY <2>s, <2>1, LookKeeps, SortKeeps, DedupKeeps, <2>6 DEF Manifest!Next
<1> QED BY <1>1, <1>2, PTL DEF Spec

\* A directory is flashed with one manifest per LUN, in the order of the LUNs, none that wipes, each with
\* its own LUN's patch file when there is one, and no LUN that has a manifest is left out.
THEOREM OneManifestPerLun == Spec => []OneSetPerLun
<1>1. ManifestInv => OneSetPerLun
  <2> SUFFICES ASSUME ManifestInv, discovery = "found" PROVE OneSetPerLun
    BY DEF OneSetPerLun, Manifest!OneSetPerLun
  <2>1. \A i, j \in DOMAIN sets : i < j => sets[i].lun < sets[j].lun
    BY DEF ManifestInv
  <2>2. Manifest!ToSet(dir) = LookedAt
    BY DEF ManifestInv, Manifest!ToSet, LookedAt
  <2>3. ASSUME NEW i \in DOMAIN sets
        PROVE  /\ sets[i].file \in Manifest!ToSet(dir) /\ Manifest!Allowed(sets[i].file)
               /\ sets[i].file.first \in {Manifest!None, sets[i].lun}
               /\ \A p \in sets[i].patch : p.first = sets[i].lun \/ (p.first = Manifest!None /\ sets[i].lun = 0)
               /\ sets[i].patch = {} => \A n \in Manifest!ToSet(dir) : n.kind = "patch" => n.first /= sets[i].lun
    <3>0. sets[i] \in SetRecords
      BY DEF ManifestInv
    <3>1. Right(sets[i], LookedAt, PatchOf) /\ sets[i].lun \in Luns
      BY <3>0 DEF ManifestInv, AllRight, SetRecords
    <3>2. sets[i].lun /= Manifest!None
      BY <3>1 DEF Luns, Manifest!None
    <3>3. sets[i].file \in Manifest!ToSet(dir) /\ Manifest!Allowed(sets[i].file) /\ sets[i].lun = Manifest!LunHint(sets[i].file)
      BY <2>2, <3>1 DEF Right
    <3>4. sets[i].file.first \in {Manifest!None, sets[i].lun}
      BY <3>3 DEF Manifest!LunHint
    <3>5. sets[i].patch = Manifest!MatchingPatch(sets[i].lun)
      BY <3>1 DEF Right, PatchOf
    <3>6. \A p \in sets[i].patch : p.first = sets[i].lun \/ (p.first = Manifest!None /\ sets[i].lun = 0)
      BY <3>2, <3>5 DEF Manifest!MatchingPatch, Manifest!Patches
    <3>7. sets[i].patch = {} => \A n \in Manifest!ToSet(dir) : n.kind = "patch" => n.first /= sets[i].lun
      BY <3>2, <3>5 DEF Manifest!MatchingPatch, Manifest!Patches
    <3> QED BY <3>3, <3>4, <3>6, <3>7
  <2>4. \A f \in Manifest!ToSet(dir) : Manifest!Allowed(f) => \E i \in DOMAIN sets : sets[i].lun = Manifest!LunHint(f)
    BY <2>2 DEF ManifestInv, AllCovered, Covers
  <2> QED BY <2>1, <2>3, <2>4 DEF OneSetPerLun, Manifest!OneSetPerLun
<1> QED BY <1>1, ManifestInvariance, PTL

------------------------------------------------------------------------------
(* The programmer database.                                                 *)

\* A step of the operations is a step of the programmer database or leaves it alone.
LEMMA ProgrammerSteps == [Next]_operationVars => Programmer!Next \/ UNCHANGED programmerVars
  BY DEF Next, Only, operationVars

\* The operations' constants are what EdlProgrammers assumes of its own.
LEMMA ProgrammerConstants == Programmer!ProgrammersAssumption
  BY OperationsAssumption DEF OperationsAssumption

\* What was saved is in the file, and in memory once the file was read.
Remembers(es) == \A d \in DOMAIN kept : d \in DOMAIN es /\ es[d] = kept[d]
DatabaseInv == Remembers(Programmer!OnDisk) /\ (loaded /\ ~missed => Remembers(entries))

\* What a command loads is what was saved, if the file can be read.
LEMMA LoadsRemember ==
  ASSUME DatabaseInv, NEW l \in Programmer!Loads
  PROVE  l.missed \/ Remembers(l.entries)
<1>1. CASE loaded
  <2>1. l = [entries |-> entries, missed |-> missed]
    BY <1>1 DEF Programmer!Loads
  <2>2. l.entries = entries
    BY <2>1
  <2>3. l.missed = missed
    BY <2>1, Zenon
  <2>4. CASE missed
    BY <2>3, <2>4, Zenon
  <2>5. CASE ~missed
    <3>1. Remembers(entries)
      BY <1>1, <2>5, Zenon DEF DatabaseInv
    <3> QED BY <2>2, <3>1, Zenon
  <2> QED BY <2>4, <2>5
<1>2. CASE ~loaded
  <2>1. \/ l = [entries |-> Programmer!OnDisk, missed |-> FALSE]
        \/ l = [entries |-> Programmer!NoEntries, missed |-> TRUE]
    BY <1>2, Zenon DEF Programmer!Loads
  <2>2. CASE l = [entries |-> Programmer!OnDisk, missed |-> FALSE]
    <3>1. l.entries = Programmer!OnDisk
      BY <2>2, Zenon
    <3>2. Remembers(Programmer!OnDisk)
      BY Zenon DEF DatabaseInv
    <3> QED BY <3>1, <3>2, Zenon
  <2>3. CASE l = [entries |-> Programmer!NoEntries, missed |-> TRUE]
    <3>1. l.missed = TRUE
      BY <2>3, Zenon
    <3> QED BY <3>1, Zenon
  <2> QED BY <2>1, <2>2, <2>3
<1> QED BY <1>1, <1>2

\* A save of what was loaded, with an entry more or less.
LEMMA SaveKeeps ==
  ASSUME DatabaseInv, NEW l \in Programmer!Loads, NEW d, Programmer!Save(entries', d, l.missed),
         \A x \in DOMAIN l.entries \ {d} : x \in DOMAIN entries' /\ entries'[x] = l.entries[x]
  PROVE  DatabaseInv'
<1>1. CASE dbFile' = [ok |-> TRUE, entries |-> entries'] /\ kept' = entries'
  <2>1. dbFile'.entries = entries'
    BY <1>1
  <2>2. dbFile'.ok = TRUE
    BY <1>1, Zenon
  <2>3. Programmer!OnDisk' = entries'
    BY <2>1, <2>2, Zenon DEF Programmer!OnDisk
  <2> QED BY <1>1, <2>3 DEF DatabaseInv, Remembers
<1>2. CASE UNCHANGED dbFile /\ kept' = Programmer!Without(kept, d) /\ missed' = l.missed
  <2>1. DOMAIN kept' = DOMAIN kept \ {d} /\ \A x \in DOMAIN kept' : kept'[x] = kept[x]
    BY <1>2 DEF Programmer!Without
  <2>2. Programmer!OnDisk' = Programmer!OnDisk
    BY <1>2, Zenon DEF Programmer!OnDisk
  <2>3. Remembers(Programmer!OnDisk)'
    <3>1. Remembers(Programmer!OnDisk)
      BY Zenon DEF DatabaseInv
    <3> QED BY <2>1, <2>2, <3>1 DEF Remembers
  <2>4. ASSUME ~missed' PROVE Remembers(entries)'
    <3>1. ~l.missed
      BY <1>2, <2>4, Zenon
    <3>2. Remembers(l.entries)
      BY <3>1, LoadsRemember, Zenon
    <3> QED BY <2>1, <3>2 DEF Remembers
  <2> QED BY <2>3, <2>4, Zenon DEF DatabaseInv
<1>3. CASE dbFile' = [ok |-> FALSE, entries |-> Programmer!NoEntries] /\ kept' = Programmer!NoEntries
  <2>1. DOMAIN kept' = {}
    BY <1>3 DEF Programmer!NoEntries
  <2> QED BY <2>1 DEF DatabaseInv, Remembers
<1> QED BY <1>1, <1>2, <1>3 DEF Programmer!Save

\* A command that only loads the database.
LEMMA LoadKeeps ==
  ASSUME DatabaseInv, NEW l \in Programmer!Loads, entries' = l.entries, missed' = l.missed, UNCHANGED <<dbFile, kept>>
  PROVE  DatabaseInv'
<1>1. Remembers(Programmer!OnDisk)'
  <2>1. Remembers(Programmer!OnDisk)
    BY Zenon DEF DatabaseInv
  <2>2. Programmer!OnDisk' = Programmer!OnDisk
    BY Zenon DEF Programmer!OnDisk
  <2> QED BY <2>1, <2>2 DEF Remembers
<1>2. ASSUME ~missed' PROVE Remembers(entries)'
  <2>1. Remembers(l.entries)
    BY <1>2, LoadsRemember, Zenon
  <2> QED BY <2>1 DEF Remembers
<1> QED BY <1>1, <1>2, Zenon DEF DatabaseInv

\* DatabaseInv holds through saves, failed and torn writes, failed reads, and restarts.
LEMMA DatabaseInvariance == Spec => []DatabaseInv
<1>1. Init => DatabaseInv
  BY DEF Init, Programmer!Init, DatabaseInv, Remembers, Programmer!NoEntries
<1>2. DatabaseInv /\ [Next]_operationVars => DatabaseInv'
  <2> SUFFICES ASSUME DatabaseInv, [Next]_operationVars PROVE DatabaseInv'
    OBVIOUS
  <2>s. Programmer!Next \/ UNCHANGED programmerVars
    BY ProgrammerSteps
  <2>1. CASE Programmer!Connected
    <3>1. PICK u \in Uses, l \in Programmer!Loads :
            entries' = Programmer!Added(l.entries, u[1], u[2]) /\ Programmer!Save(entries', u[1], l.missed)
      BY <2>1, Zenon DEF Programmer!Connected
    <3>2. \A x \in DOMAIN l.entries \ {u[1]} : x \in DOMAIN entries' /\ entries'[x] = l.entries[x]
      BY <3>1 DEF Programmer!Added
    <3> QED BY <3>1, <3>2, SaveKeeps, Zenon
  <2>2. CASE Programmer!Forget
    <3>1. PICK d \in Devices, l \in Programmer!Loads :
            entries' = Programmer!Without(l.entries, d) /\ Programmer!Save(entries', d, l.missed)
      BY <2>2, Zenon DEF Programmer!Forget
    <3>2. \A x \in DOMAIN l.entries \ {d} : x \in DOMAIN entries' /\ entries'[x] = l.entries[x]
      BY <3>1 DEF Programmer!Without
    <3> QED BY <3>1, <3>2, SaveKeeps, Zenon
  <2>3. CASE Programmer!Look
    <3>1. PICK l \in Programmer!Loads : entries' = l.entries /\ missed' = l.missed /\ UNCHANGED <<dbFile, kept>>
      BY <2>3, Zenon DEF Programmer!Look
    <3> QED BY <3>1, LoadKeeps, Zenon
  <2>4. CASE Programmer!Restart
    <3>1. loaded' = FALSE
      BY <2>4 DEF Programmer!Restart
    <3>2. CASE UNCHANGED <<dbFile, kept>>
      <4>1. Remembers(Programmer!OnDisk)
        BY Zenon DEF DatabaseInv
      <4>2. Programmer!OnDisk' = Programmer!OnDisk
        BY <3>2, Zenon DEF Programmer!OnDisk
      <4> QED BY <3>1, <3>2, <4>1, <4>2 DEF DatabaseInv, Remembers
    <3>3. CASE kept' = Programmer!NoEntries
      <4>1. DOMAIN kept' = {}
        BY <3>3 DEF Programmer!NoEntries
      <4> QED BY <4>1 DEF DatabaseInv, Remembers
    <3> QED BY <2>4, <3>2, <3>3 DEF Programmer!Restart
  <2>5. CASE UNCHANGED <<entries, loaded, missed, dbFile, kept>>
    BY <2>5 DEF DatabaseInv, Remembers, Programmer!OnDisk
  <2>6. CASE Programmer!Replace \/ Programmer!Scan \/ Programmer!ScanFails \/ Programmer!Collect \/ Programmer!Collected
    BY <2>5, <2>6 DEF Programmer!Replace, Programmer!Scan, Programmer!ScanFails, Programmer!Collect,
       Programmer!Collected, Programmer!dbVars
  <2>7. CASE Programmer!Parse \/ Programmer!Scanned
    BY <2>5, <2>7 DEF Programmer!Parse, Programmer!Scanned, Programmer!dbVars
  <2>8. CASE Programmer!Rank
    <3>1. \/ \E l \in Programmer!Loads : entries' = l.entries /\ missed' = l.missed
          \/ UNCHANGED <<loaded, entries, missed>>
      BY <2>8, Zenon DEF Programmer!Rank
    <3>2. UNCHANGED <<dbFile, kept>>
      BY <2>8 DEF Programmer!Rank
    <3> QED BY <2>5, <3>1, <3>2, LoadKeeps
  <2>9. CASE UNCHANGED programmerVars
    BY <2>5, <2>9 DEF programmerVars
  <2> QED BY <2>s, <2>1, <2>2, <2>3, <2>4, <2>6, <2>7, <2>8, <2>9 DEF Programmer!Next
<1> QED BY <1>1, <1>2, PTL DEF Spec

\* A programmer that was saved for a device is in the file, across restarts and whatever command loads the
\* database first, until it is removed, the file is damaged, or a session that could not read the file saves
\* its own entries over it; and a session that could read it knows it: MappingsKept of ProgrammersRight.
THEOREM SavedIsRemembered == Spec => []Programmer!MappingsKept
<1>1. DatabaseInv => Programmer!MappingsKept
  <2> SUFFICES ASSUME DatabaseInv, NEW d \in DOMAIN kept
               PROVE  /\ dbFile.ok /\ d \in DOMAIN dbFile.entries /\ dbFile.entries[d] = kept[d]
                      /\ ~missed => d \in DOMAIN Programmer!Loaded /\ Programmer!Loaded[d] = kept[d]
    BY Zenon DEF Programmer!MappingsKept
  <2>1. d \in DOMAIN Programmer!OnDisk /\ Programmer!OnDisk[d] = kept[d]
    BY DEF DatabaseInv, Remembers
  <2>2. dbFile.ok
    <3> SUFFICES ASSUME ~dbFile.ok PROVE FALSE
      BY Zenon
    <3>1. Programmer!OnDisk = Programmer!NoEntries
      BY Zenon DEF Programmer!OnDisk
    <3> QED BY <2>1, <3>1 DEF Programmer!NoEntries
  <2>3. Programmer!OnDisk = dbFile.entries
    BY <2>2, Zenon DEF Programmer!OnDisk
  <2>4. ASSUME ~missed PROVE d \in DOMAIN Programmer!Loaded /\ Programmer!Loaded[d] = kept[d]
    <3>1. CASE ~loaded
      <4>1. Programmer!Loaded = Programmer!OnDisk
        BY <3>1, Zenon DEF Programmer!Loaded
      <4> QED BY <2>1, <4>1, Zenon
    <3>2. CASE loaded
      <4>1. Programmer!Loaded = entries
        BY <3>2, Zenon DEF Programmer!Loaded
      <4>2. d \in DOMAIN entries /\ entries[d] = kept[d]
        BY <2>4, <3>2 DEF DatabaseInv, Remembers
      <4> QED BY <4>1, <4>2, Zenon
    <3> QED BY <3>1, <3>2
  <2>5. d \in DOMAIN dbFile.entries /\ dbFile.entries[d] = kept[d]
    BY <2>1, <2>3, Zenon
  <2> QED BY <2>2, <2>4, <2>5, Zenon
<1> QED BY <1>1, DatabaseInvariance, PTL

\* The caches and the files are what was seen, except where a file was replaced while a scan was between its
\* size and its identity.
Sizes == {b.size : b \in Binaries}
Identities == {b.identity : b \in Binaries}
Sightings == Paths \X Sizes \X Identities
MaybeParsed == Identities \union {Programmer!NoIdentity}
MatchLevels == DOMAIN Programmer!Order
Candidates == [path : Paths, size : Sizes, identity : MaybeParsed, level : MatchLevels]
FilesInv ==
  /\ seen \subseteq Sightings /\ DOMAIN programmers = Paths
  /\ \A q \in Paths : programmers[q].identity \in MaybeParsed
  /\ \A q \in Programmer!Present : <<q, programmers[q].size, programmers[q].identity>> \in seen
CacheInv ==
  /\ idCache \subseteq Sightings /\ scanCache \subseteq Sightings /\ crossed \subseteq Paths
  /\ \A c \in idCache \union scanCache : c[1] \notin crossed => c \in seen
ScanInv ==
  /\ ranking \in Seq(Candidates) /\ parsed \in 0 .. Len(ranking)
  /\ scanning = "scanning" => parsed = 0
  /\ scanning \in {"scanned", "ranked"} => parsed = Len(ranking)
Sighted(c) == c.identity = Programmer!NoIdentity \/ c.path \in crossed \/ <<c.path, c.size, c.identity>> \in seen
Unchanged(c) == c.path \in crossed \/ (c.path \in Programmer!Present /\ programmers[c.path].size = c.size)
SightInv ==
  /\ \A k \in DOMAIN ranking : Sighted(ranking[k])
  /\ \A k \in parsed + 1 .. Len(ranking) : Unchanged(ranking[k])
\* After score_candidates: their order and their evidence.
Speaks(c, d) == c.level = "BinaryVerified" => \E i \in c.identity : i.pk = d /\ \A h \in i.hw : h[1] = d
Before(c, e) ==
  \/ Programmer!Order[c.level] < Programmer!Order[e.level]
  \/ c.level = e.level /\ c.path < e.path
Ordered(r) == \A j, k \in DOMAIN r : j < k => Before(r[j], r[k])
RankInv ==
  /\ scanning /= "ranked" => wanted = {}
  /\ wanted /= {} => Ordered(ranking)
  /\ \A d \in wanted : \A k \in DOMAIN ranking : Speaks(ranking[k], d)
CandidatesInv == FilesInv /\ CacheInv /\ ScanInv /\ SightInv /\ RankInv

\* Nothing of CandidatesInv depends on the database.
LEMMA NoScanKeeps ==
  ASSUME CandidatesInv, UNCHANGED <<programmers, seen, crossed, Programmer!scanVars, scanning>>
  PROVE  CandidatesInv'
<1>1. UNCHANGED <<programmers, seen, crossed, idCache, scanCache, ranking, parsed, wanted, scanning>>
  BY DEF Programmer!scanVars
<1>2. FilesInv' /\ CacheInv'
  BY <1>1 DEF CandidatesInv, FilesInv, CacheInv, Programmer!Present
<1>3. ScanInv' /\ RankInv'
  BY <1>1 DEF CandidatesInv, ScanInv, RankInv, Ordered
<1>4. SightInv'
  BY <1>1 DEF CandidatesInv, SightInv, Sighted, Unchanged, Programmer!Present
<1> QED BY <1>2, <1>3, <1>4 DEF CandidatesInv

\* Without candidates there is nothing to show of them.
LEMMA NoCandidates ==
  ASSUME CandidatesInv, UNCHANGED <<programmers, seen>>, ranking' = <<>>, parsed' = 0, wanted' = {},
         (idCache' \union scanCache') \subseteq (idCache \union scanCache), crossed' = crossed \/ idCache' \union scanCache' = {},
         crossed' \subseteq crossed
  PROVE  CandidatesInv'
<1>1. FilesInv'
  BY DEF CandidatesInv, FilesInv, Programmer!Present
<1>2. CacheInv'
  BY DEF CandidatesInv, CacheInv
<1>3. ScanInv' /\ RankInv' /\ SightInv'
  BY DEF ScanInv, RankInv, SightInv
<1> QED BY <1>1, <1>2, <1>3 DEF CandidatesInv

\* A file is put somewhere, also under a scan.
LEMMA ReplaceKeeps ==
  ASSUME CandidatesInv, Programmer!Replace
  PROVE  CandidatesInv'
<1>1. PICK q \in Paths, b \in Binaries :
        /\ programmers' = [programmers EXCEPT ![q] = [size |-> b.size, identity |-> b.identity]]
        /\ seen' = seen \union {<<q, b.size, b.identity>>}
        /\ crossed' = crossed \union ({q} \intersect Programmer!Unparsed)
  BY DEF Programmer!Replace
<1>2. UNCHANGED <<idCache, scanCache, scanning, ranking, parsed, wanted>>
  BY DEF Programmer!Replace, Programmer!scanVars
<1>3. /\ DOMAIN programmers' = Paths
      /\ \A x \in Paths : programmers'[x] = IF x = q THEN [size |-> b.size, identity |-> b.identity] ELSE programmers[x]
  BY <1>1 DEF CandidatesInv, FilesInv
<1>4. b.size \in Sizes /\ b.identity \in Identities
  BY DEF Sizes, Identities
<1>5. FilesInv'
  <2>1. seen' \subseteq Sightings
    BY <1>1, <1>4 DEF CandidatesInv, FilesInv, Sightings
  <2>2. \A x \in Paths : programmers'[x].identity \in MaybeParsed
    BY <1>3, <1>4 DEF CandidatesInv, FilesInv, MaybeParsed
  <2>3. ASSUME NEW x \in Programmer!Present' PROVE <<x, programmers'[x].size, programmers'[x].identity>> \in seen'
    BY <1>1, <1>3 DEF CandidatesInv, FilesInv, Programmer!Present
  <2> QED BY <1>3, <2>1, <2>2, <2>3 DEF FilesInv
<1>6. CacheInv'
  BY <1>1, <1>2 DEF CandidatesInv, CacheInv
<1>7. ScanInv' /\ RankInv'
  BY <1>2 DEF CandidatesInv, ScanInv, RankInv, Ordered
<1>8. SightInv'
  <2>1. \A k \in DOMAIN ranking : Sighted(ranking[k])'
    BY <1>1, <1>2 DEF CandidatesInv, SightInv, Sighted
  <2>2. ASSUME NEW k \in parsed + 1 .. Len(ranking) PROVE Unchanged(ranking[k])'
    <3>1. CASE ranking[k].path \in crossed
      BY <1>1, <1>2, <3>1 DEF Unchanged
    <3>2. CASE ranking[k].path = q
      <4>1. q \in crossed'
        BY <1>1, <3>2 DEF Programmer!Unparsed
      <4> QED BY <1>2, <3>2, <4>1 DEF Unchanged
    <3>3. CASE ranking[k].path \notin crossed /\ ranking[k].path /= q
      BY <1>2, <1>3, <3>3 DEF CandidatesInv, SightInv, Unchanged, Programmer!Present
    <3> QED BY <3>1, <3>2, <3>3
  <2> QED BY <1>2, <2>1, <2>2 DEF SightInv
<1> QED BY <1>5, <1>6, <1>7, <1>8 DEF CandidatesInv

\* A candidate with a level is one, and tells the same.
LEMMA CandidateParts ==
  ASSUME NEW c \in Candidates
  PROVE  /\ c.path \in Paths /\ c.size \in Sizes /\ c.identity \in MaybeParsed /\ c.level \in MatchLevels
         /\ \A l \in MatchLevels : LET e == [c EXCEPT !.level = l] IN
              e \in Candidates /\ e.path = c.path /\ e.size = c.size /\ e.identity = c.identity /\ e.level = l
         /\ \A i \in MaybeParsed : LET e == [c EXCEPT !.identity = i] IN
              e \in Candidates /\ e.path = c.path /\ e.size = c.size /\ e.identity = i /\ e.level = c.level
  BY DEF Candidates

\* The next file of the directory.
LEMMA CollectKeeps ==
  ASSUME CandidatesInv, Programmer!Collect
  PROVE  CandidatesInv'
<1>1. PICK q \in Programmer!Ahead :
        ranking' = Append(ranking, [path |-> q, size |-> programmers[q].size, identity |-> Programmer!NoIdentity, level |-> "Unknown"])
  BY DEF Programmer!Collect
<1>2. /\ UNCHANGED <<programmers, seen, crossed, idCache, scanCache, parsed, wanted, scanning>>
      /\ scanning = "scanning"
  BY DEF Programmer!Collect
<1>3. q \in Programmer!Present
  BY DEF Programmer!Ahead
<1>4. q \in Paths /\ programmers[q].size \in Sizes
  BY <1>3 DEF CandidatesInv, FilesInv, Programmer!Present, Sightings
<1>5. Programmer!NoIdentity \in MaybeParsed /\ "Unknown" \in MatchLevels
  BY DEF MaybeParsed, MatchLevels, Programmer!Order
<1> DEFINE c == [path |-> q, size |-> programmers[q].size, identity |-> Programmer!NoIdentity, level |-> "Unknown"]
<1>6. c \in Candidates /\ c.path = q /\ c.size = programmers[q].size /\ c.identity = Programmer!NoIdentity
  BY <1>4, <1>5 DEF Candidates
<1>7. ranking' = Append(ranking, c)
  BY <1>1
<1> HIDE DEF c
<1>8. ranking \in Seq(Candidates) /\ parsed = 0 /\ wanted = {}
  BY <1>2 DEF CandidatesInv, ScanInv, RankInv
<1>9. /\ ranking' \in Seq(Candidates) /\ Len(ranking') = Len(ranking) + 1 /\ Len(ranking) \in Nat
      /\ \A k \in DOMAIN ranking' : ranking'[k] = c \/ (k \in DOMAIN ranking /\ ranking'[k] = ranking[k])
      /\ DOMAIN ranking = 1 .. Len(ranking) /\ DOMAIN ranking' = 1 .. Len(ranking')
  <2>1. ranking \in Seq(Candidates) /\ c \in Candidates
    BY <1>6, <1>8
  <2>2. ranking' \in Seq(Candidates) /\ Len(ranking') = Len(ranking) + 1 /\ Len(ranking) \in Nat
    BY <1>7, <2>1
  <2>3. DOMAIN ranking = 1 .. Len(ranking) /\ DOMAIN ranking' = 1 .. Len(ranking')
    BY <2>1, <2>2
  <2>4. ASSUME NEW k \in DOMAIN ranking' PROVE ranking'[k] = c \/ (k \in DOMAIN ranking /\ ranking'[k] = ranking[k])
    BY <1>7, <2>1, <2>2, <2>3
  <2> QED BY <2>2, <2>3, <2>4
<1>10. ScanInv' /\ RankInv'
  BY <1>2, <1>8, <1>9 DEF ScanInv, RankInv
<1>11. FilesInv' /\ CacheInv'
  BY <1>2 DEF CandidatesInv, FilesInv, CacheInv, Programmer!Present
<1>12. SightInv'
  <2>1. Sighted(c) /\ Unchanged(c)
    BY <1>3, <1>6 DEF Sighted, Unchanged
  <2>2. \A k \in DOMAIN ranking : Sighted(ranking[k]) /\ Unchanged(ranking[k])
    BY <1>8, <1>9 DEF CandidatesInv, SightInv
  <2>3. \A k \in DOMAIN ranking' : Sighted(ranking'[k]) /\ Unchanged(ranking'[k])
    BY <1>9, <2>1, <2>2
  <2>4. \A k \in DOMAIN ranking' : Sighted(ranking[k])' /\ Unchanged(ranking[k])'
    BY <1>2, <2>3 DEF Sighted, Unchanged, Programmer!Present
  <2> QED BY <1>2, <1>8, <1>9, <2>4 DEF SightInv
<1> QED BY <1>10, <1>11, <1>12 DEF CandidatesInv

\* The identity of the next candidate.
LEMMA ParseKeeps ==
  ASSUME CandidatesInv, Programmer!Parse
  PROVE  CandidatesInv'
<1> DEFINE k == parsed + 1
           c == ranking[k]
<1>1. /\ scanning = "parsing" /\ scanning' = scanning /\ k \in DOMAIN ranking /\ c \in Candidates
      /\ parsed' = k /\ UNCHANGED <<programmers, seen, crossed, idCache, wanted>>
      /\ ranking \in Seq(Candidates) /\ wanted = {}
      /\ parsed \in 0 .. Len(ranking) /\ DOMAIN ranking = 1 .. Len(ranking) /\ Len(ranking) \in Nat
  BY DEF Programmer!Parse, Programmer!dbVars, CandidatesInv, ScanInv, RankInv
<1>c. c.path \in Paths /\ c.size \in Sizes
  BY <1>1, CandidateParts
<1>2. PICK i : /\ ranking' = [ranking EXCEPT ![k].identity = i]
               /\ \/ UNCHANGED scanCache /\ \E x \in Programmer!Cached(c) : i = x[3]
                  \/ /\ i = programmers[c.path].identity \/ i = Programmer!NoIdentity
                     /\ scanCache' = scanCache \union (IF i = Programmer!NoIdentity THEN {} ELSE {<<c.path, c.size, i>>})
  BY DEF Programmer!Parse
<1>3. i \in MaybeParsed /\ (i = Programmer!NoIdentity \/ c.path \in crossed \/ <<c.path, c.size, i>> \in seen)
      /\ scanCache' \subseteq Sightings
      /\ \A x \in scanCache' : x[1] \in crossed \/ x \in seen
  <2>1. ASSUME UNCHANGED scanCache, NEW x \in Programmer!Cached(c), i = x[3] PROVE <1>3
    <3>1. x \in scanCache /\ x \in Sightings /\ x[1] = c.path /\ x[2] = c.size
      BY <2>1 DEF Programmer!Cached, CandidatesInv, CacheInv
    <3>2. x = <<x[1], x[2], x[3]>> /\ x[3] \in Identities
      BY <3>1 DEF Sightings
    <3> QED BY <2>1, <3>1, <3>2 DEF MaybeParsed, CandidatesInv, CacheInv
  <2>2. ASSUME i = programmers[c.path].identity \/ i = Programmer!NoIdentity,
               scanCache' = scanCache \union (IF i = Programmer!NoIdentity THEN {} ELSE {<<c.path, c.size, i>>})
        PROVE  <1>3
    <3>1. i \in MaybeParsed
      BY <1>c, <2>2 DEF CandidatesInv, FilesInv, MaybeParsed
    <3>2. i = Programmer!NoIdentity \/ c.path \in crossed \/ <<c.path, c.size, i>> \in seen
      <4>1. k \in parsed + 1 .. Len(ranking)
        BY <1>1
      <4>2. Unchanged(c)
        BY <4>1 DEF CandidatesInv, SightInv
      <4> HIDE DEF c, k
      <4> QED BY <2>2, <4>2 DEF Unchanged, CandidatesInv, FilesInv
    <3>3. i /= Programmer!NoIdentity => <<c.path, c.size, i>> \in Sightings /\ <<c.path, c.size, i>>[1] = c.path
      BY <1>c, <3>1 DEF Sightings, MaybeParsed
    <3> HIDE DEF c, k
    <3> QED BY <2>2, <3>1, <3>2, <3>3 DEF CandidatesInv, CacheInv
  <2> QED BY <1>2, <2>1, <2>2
<1>4. /\ [c EXCEPT !.identity = i] \in Candidates /\ [c EXCEPT !.identity = i].path = c.path
      /\ [c EXCEPT !.identity = i].size = c.size /\ [c EXCEPT !.identity = i].identity = i
  BY <1>1, <1>3, CandidateParts
<1>5. /\ ranking' \in Seq(Candidates) /\ Len(ranking') = Len(ranking) /\ DOMAIN ranking' = DOMAIN ranking
      /\ \A j \in DOMAIN ranking : ranking'[j] = IF j = k THEN [c EXCEPT !.identity = i] ELSE ranking[j]
  <2>1. ranking' = [ranking EXCEPT ![k] = [c EXCEPT !.identity = i]]
    BY <1>2
  <2> DEFINE e == [c EXCEPT !.identity = i]
  <2>2. e \in Candidates /\ ranking' = [ranking EXCEPT ![k] = e]
    BY <1>4, <2>1
  <2> HIDE DEF e, k
  <2>3. /\ ranking' \in Seq(Candidates) /\ Len(ranking') = Len(ranking) /\ DOMAIN ranking' = DOMAIN ranking
        /\ \A j \in DOMAIN ranking : ranking'[j] = IF j = k THEN e ELSE ranking[j]
    BY <1>1, <2>2
  <2> QED BY <2>3 DEF e
<1> HIDE DEF c
<1>6. ScanInv' /\ RankInv'
  BY <1>1, <1>5 DEF ScanInv, RankInv
<1>7. FilesInv'
  BY <1>1 DEF CandidatesInv, FilesInv, Programmer!Present
<1>8. CacheInv'
  BY <1>1, <1>3 DEF CandidatesInv, CacheInv
<1>9. SightInv'
  <2>1. ASSUME NEW j \in DOMAIN ranking PROVE Sighted(ranking'[j])
    <3>1. Sighted(ranking[j])
      BY DEF CandidatesInv, SightInv
    <3>2. CASE j = k
      <4> DEFINE e == [c EXCEPT !.identity = i]
      <4>1. e.path = c.path /\ e.size = c.size /\ e.identity = i /\ ranking'[j] = e
        BY <1>4, <1>5, <3>2
      <4> HIDE DEF e
      <4> QED BY <1>3, <4>1 DEF Sighted
    <3>3. CASE j /= k
      BY <1>5, <3>1, <3>3
    <3> QED BY <3>2, <3>3
  <2>2. ASSUME NEW j \in k + 1 .. Len(ranking) PROVE Unchanged(ranking'[j])
    <3>1. j \in parsed + 1 .. Len(ranking) /\ j \in DOMAIN ranking /\ j /= k
      BY <1>1
    <3>2. Unchanged(ranking[j])
      BY <3>1 DEF CandidatesInv, SightInv
    <3> QED BY <1>5, <3>1, <3>2
  <2>3. \A j \in DOMAIN ranking' : Sighted(ranking[j])'
    BY <1>1, <1>5, <2>1 DEF Sighted
  <2>4. \A j \in k + 1 .. Len(ranking) : Unchanged(ranking[j])'
    BY <1>1, <2>2 DEF Unchanged, Programmer!Present
  <2> QED BY <1>1, <1>5, <2>3, <2>4 DEF SightInv
<1> QED BY <1>6, <1>7, <1>8, <1>9 DEF CandidatesInv

\* The scan ends, and gives its cache back.
LEMMA CollectedKeeps ==
  ASSUME CandidatesInv, Programmer!Collected \/ Programmer!Scanned
  PROVE  CandidatesInv'
<1>1. UNCHANGED <<programmers, seen, crossed, ranking, parsed, wanted>> /\ wanted = {}
  BY DEF Programmer!Collected, Programmer!Scanned, Programmer!dbVars, CandidatesInv, RankInv
<1>2. scanning' = "parsing" \/ (scanning' = "scanned" /\ parsed = Len(ranking))
  <2>1. CASE Programmer!Collected
    BY <2>1, Zenon DEF Programmer!Collected
  <2>2. CASE Programmer!Scanned
    BY <2>2, Zenon DEF Programmer!Scanned
  <2> QED BY <2>1, <2>2
<1>3. idCache' \union scanCache' = idCache \union scanCache
  BY DEF Programmer!Collected, Programmer!Scanned
<1>4. FilesInv' /\ CacheInv'
  BY <1>1, <1>3 DEF CandidatesInv, FilesInv, CacheInv, Programmer!Present
<1>5. ScanInv' /\ RankInv'
  BY <1>1, <1>2 DEF CandidatesInv, ScanInv, RankInv
<1>6. SightInv'
  BY <1>1 DEF CandidatesInv, SightInv, Sighted, Unchanged, Programmer!Present
<1> QED BY <1>4, <1>5, <1>6 DEF CandidatesInv

\* The level of a candidate is one of MatchLevel's, and BinaryVerified is what its identity speaks for.
LEMMA LevelOfEvidence ==
  ASSUME NEW c, NEW es, NEW d
  PROVE  /\ Programmer!Level(c, es, d) \in MatchLevels
         /\ Programmer!Level(c, es, d) = "BinaryVerified" => \E i \in c.identity : i.pk = d /\ \A h \in i.hw : h[1] = d
<1>1. Programmer!Level(c, es, d) \in MatchLevels
  BY DEF Programmer!Level, MatchLevels, Programmer!Order
<1>2. ASSUME Programmer!Level(c, es, d) = "BinaryVerified" PROVE Programmer!Verified(c, d)
  BY <1>2 DEF Programmer!Level
<1>3. Programmer!Verified(c, d) => \E i \in c.identity : i.pk = d /\ \A h \in i.hw : h[1] = d
  BY DEF Programmer!Verified, Programmer!HwOk
<1> QED BY <1>1, <1>2, <1>3

\* CandidatesInv holds of the sorted candidates.
LEMMA RankKeeps ==
  ASSUME CandidatesInv, Programmer!Rank
  PROVE  CandidatesInv'
<1> DEFINE D == DOMAIN ranking
<1>1. /\ scanning' = "ranked" /\ scanning = "scanned" /\ wanted = {} /\ parsed = Len(ranking)
      /\ UNCHANGED <<programmers, seen, crossed, idCache, scanCache, parsed>>
  BY DEF Programmer!Rank, CandidatesInv, RankInv, ScanInv
<1>f. FilesInv' /\ CacheInv'
  BY <1>1 DEF CandidatesInv, FilesInv, CacheInv, Programmer!Present
<1>2. CASE UNCHANGED <<wanted, ranking>>
  <2>1. ScanInv' /\ RankInv'
    BY <1>1, <1>2 DEF CandidatesInv, ScanInv, RankInv
  <2>2. SightInv'
    BY <1>1, <1>2 DEF CandidatesInv, SightInv, Sighted, Unchanged, Programmer!Present
  <2> QED BY <1>f, <2>1, <2>2 DEF CandidatesInv
<1>3. ASSUME NEW d \in Devices, NEW es, NEW levels, levels = [k \in D |-> Programmer!Level(ranking[k], es, d)],
             wanted' = {d}, NEW p \in Programmer!Surjection(D, D), Programmer!ByLevel(p, levels),
             ranking' = [k \in D |-> [ranking[p[k]] EXCEPT !.level = levels[p[k]]]]
      PROVE  CandidatesInv'
  <2>1. p \in [D -> D]
    BY <1>3 DEF Programmer!Surjection
  <2>2. \A k \in D : /\ levels[k] \in MatchLevels
                     /\ levels[k] = "BinaryVerified" =>
                          \E i \in ranking[k].identity : i.pk = d /\ \A h \in i.hw : h[1] = d
    BY <1>3, LevelOfEvidence
  <2>3. D = 1 .. Len(ranking) /\ Len(ranking) \in Nat /\ \A k \in D : ranking[k] \in Candidates
    BY DEF CandidatesInv, ScanInv
  <2> HIDE DEF D
  <2>5. ASSUME NEW k \in D
        PROVE  /\ ranking'[k] \in Candidates /\ ranking'[k].path = ranking[p[k]].path
               /\ ranking'[k].size = ranking[p[k]].size
               /\ ranking'[k].identity = ranking[p[k]].identity /\ ranking'[k].level = levels[p[k]]
    <3>1. p[k] \in D /\ ranking'[k] = [ranking[p[k]] EXCEPT !.level = levels[p[k]]]
      BY <1>3, <2>1
    <3>2. ranking[p[k]] \in Candidates /\ levels[p[k]] \in MatchLevels
      BY <2>2, <2>3, <3>1
    <3> HIDE DEF MatchLevels
    <3> QED BY CandidateParts, <3>1, <3>2
  <2>6. ranking' \in [1 .. Len(ranking) -> Candidates] /\ DOMAIN ranking' = D
    BY <1>3, <2>3, <2>5
  <2>7. Ordered(ranking')
    <3>1. SUFFICES ASSUME NEW j \in D, NEW k \in D, j < k PROVE Before(ranking'[j], ranking'[k])
      BY <2>6 DEF Ordered
    <3>2. \/ Programmer!Order[levels[p[j]]] < Programmer!Order[levels[p[k]]]
          \/ levels[p[j]] = levels[p[k]] /\ ranking[p[j]].path < ranking[p[k]].path
      BY <1>3, <3>1 DEF Programmer!ByLevel, D
    <3> QED BY <2>5, <3>2 DEF Before
  <2>8. \A k \in D : Speaks(ranking'[k], d)
    BY <2>1, <2>2, <2>5 DEF Speaks
  <2>9. ranking' \in Seq(Candidates) /\ Len(ranking') = Len(ranking)
    BY <2>3, <2>6
  <2>s. ScanInv'
    BY <1>1, <2>3, <2>9 DEF ScanInv
  <2>r. RankInv'
    <3>1. wanted' = {d} /\ scanning' = "ranked" /\ DOMAIN ranking' = D
      BY <1>1, <1>3, <2>6
    <3>2. \A x \in wanted' : \A k \in DOMAIN ranking' : Speaks(ranking[k], x)'
      BY <2>8, <3>1 DEF Speaks
    <3>3. Ordered(ranking)'
      BY <2>7 DEF Ordered, Before
    <3> QED BY <3>1, <3>2, <3>3 DEF RankInv
  <2>11. SightInv'
    <3>1. ASSUME NEW k \in D PROVE Sighted(ranking[k])'
      <4>1. p[k] \in D
        BY <2>1
      <4>2. Sighted(ranking[p[k]])
        BY <4>1 DEF CandidatesInv, SightInv, D
      <4> QED BY <1>1, <2>5, <4>2 DEF Sighted
    <3>2. parsed' + 1 .. Len(ranking') = {}
      BY <1>1, <2>3, <2>9
    <3> QED BY <2>6, <3>1, <3>2 DEF SightInv
  <2> QED BY <1>f, <2>s, <2>r, <2>11 DEF CandidatesInv
<1>4. \/ \E d \in Devices, l \in Programmer!Loads :
           /\ wanted' = {d}
           /\ LET levels == [k \in D |-> Programmer!Level(ranking[k], l.entries, d)] IN
              \E p \in Programmer!Surjection(D, D) :
                Programmer!ByLevel(p, levels) /\ ranking' = [k \in D |-> [ranking[p[k]] EXCEPT !.level = levels[p[k]]]]
      \/ UNCHANGED <<wanted, ranking>>
  BY Zenon DEF Programmer!Rank
<1> HIDE DEF D
<1> QED BY <1>2, <1>3, <1>4

\* CandidatesInv holds while scans run and files are replaced under them.
LEMMA CandidatesInvariance == Spec => []CandidatesInv
<1>1. Init => CandidatesInv
  <2> SUFFICES ASSUME Programmer!Init PROVE CandidatesInv
    BY DEF Init
  <2>1. FilesInv
    BY DEF Programmer!Init, FilesInv, Programmer!Present, MaybeParsed
  <2>2. CacheInv
    BY DEF Programmer!Init, CacheInv
  <2>3. ScanInv /\ SightInv /\ RankInv
    BY DEF Programmer!Init, ScanInv, SightInv, RankInv
  <2> QED BY <2>1, <2>2, <2>3 DEF CandidatesInv
<1>2. CandidatesInv /\ [Next]_operationVars => CandidatesInv'
  <2> SUFFICES ASSUME CandidatesInv, [Next]_operationVars PROVE CandidatesInv'
    OBVIOUS
  <2>s. Programmer!Next \/ UNCHANGED programmerVars
    BY ProgrammerSteps
  <2>1. CASE Programmer!Connected \/ Programmer!Forget \/ Programmer!Look
    <3>1. UNCHANGED <<programmers, seen, crossed, Programmer!scanVars>>
      BY <2>1 DEF Programmer!Connected, Programmer!Forget, Programmer!Look
    <3>2. UNCHANGED scanning
      BY <3>1 DEF Programmer!scanVars
    <3> QED BY <3>1, <3>2, NoScanKeeps
  <2>2. CASE Programmer!Restart
    BY <2>2, NoCandidates DEF Programmer!Restart
  <2>3. CASE Programmer!Scan
    BY <2>3, NoCandidates DEF Programmer!Scan, Programmer!dbVars
  <2>4. CASE Programmer!ScanFails
    <3>1. parsed = 0 /\ wanted = {}
      BY <2>4 DEF Programmer!ScanFails, CandidatesInv, ScanInv, RankInv
    <3> QED BY <2>4, <3>1, NoCandidates DEF Programmer!ScanFails
  <2>5. CASE UNCHANGED programmerVars
    <3>1. UNCHANGED <<programmers, seen, crossed, Programmer!scanVars, scanning>>
      BY <2>5 DEF programmerVars, Programmer!scanVars
    <3> QED BY <3>1, NoScanKeeps
  <2> QED BY <2>s, <2>1, <2>2, <2>3, <2>4, <2>5, ReplaceKeeps, CollectKeeps, ParseKeeps, CollectedKeeps, RankKeeps
     DEF Programmer!Next
<1> QED BY <1>1, <1>2, PTL DEF Spec

\* What a scan remembers and tells of a file was seen in a file of that size at that path, unless a file there was
\* replaced while a scan had its size and not yet its identity: IdentityFresh of ProgrammersRight.
THEOREM IdentitiesAreFresh == Spec => []Programmer!IdentityFresh
<1>1. CandidatesInv => Programmer!IdentityFresh
  BY DEF CandidatesInv, CacheInv, SightInv, Sighted, Programmer!IdentityFresh
<1> QED BY <1>1, CandidatesInvariance, PTL

\* A saved programmer is not forgotten, an identity is told of the file it was read from, both with the exceptions
\* stated there, and candidates are ranked by their evidence: what was used with this device first, then what its
\* binary speaks for.
THEOREM ProgrammersAreRight == Spec => []ProgrammersRight
<1>1. CandidatesInv => Programmer!RankedByEvidence
  <2> SUFFICES ASSUME CandidatesInv, NEW d \in wanted, NEW k \in DOMAIN ranking
               PROVE  /\ ranking[k].level = "BinaryVerified" =>
                           \E i \in ranking[k].identity : i.pk = d /\ \A h \in i.hw : h[1] = d
                      /\ \A j \in 1 .. k - 1 :
                           /\ ranking[k].level = "DbExact" => ranking[j].level = "DbExact"
                           /\ ranking[j].level = "DbOtherDevice" => ranking[k].level = "DbOtherDevice"
                           /\ ranking[j].level = ranking[k].level => ranking[j].path < ranking[k].path
    BY DEF Programmer!RankedByEvidence
  <2>1. ranking[k].level = "BinaryVerified" => \E i \in ranking[k].identity : i.pk = d /\ \A h \in i.hw : h[1] = d
    BY DEF CandidatesInv, RankInv, Speaks
  <2>2. ASSUME NEW j \in 1 .. k - 1
        PROVE  /\ ranking[k].level = "DbExact" => ranking[j].level = "DbExact"
               /\ ranking[j].level = "DbOtherDevice" => ranking[k].level = "DbOtherDevice"
               /\ ranking[j].level = ranking[k].level => ranking[j].path < ranking[k].path
    <3>1. DOMAIN ranking = 1 .. Len(ranking) /\ Len(ranking) \in Nat /\ \A i \in DOMAIN ranking : ranking[i] \in Candidates
      BY DEF CandidatesInv, ScanInv
    <3>2. j \in DOMAIN ranking /\ j < k
      BY <3>1
    <3>3. Before(ranking[j], ranking[k])
      BY <3>2 DEF CandidatesInv, RankInv, Ordered
    <3>4. ranking[j].level \in MatchLevels /\ ranking[k].level \in MatchLevels
      BY <3>1, <3>2 DEF Candidates
    <3> QED BY <3>3, <3>4 DEF Before, MatchLevels, Programmer!Order
  <2> QED BY <2>1, <2>2
<1>2. Programmer!MappingsKept /\ Programmer!IdentityFresh /\ Programmer!RankedByEvidence => ProgrammersRight
  BY DEF ProgrammersRight, Programmer!ProgrammersRight
<1> QED BY <1>1, <1>2, SavedIsRemembered, IdentitiesAreFresh, CandidatesInvariance, PTL

------------------------------------------------------------------------------
(* Sequences of sequences.                                                  *)

\* What FlattenSeq builds, one sequence after the other.
Grows(g, ss) == \A i \in 1 .. Len(ss) : g[i] = g[i - 1] \o ss[i]

\* The recursion of FlattenSeq has a solution.
LEMMA FlattenExists ==
  ASSUME NEW T, NEW ss \in Seq(Seq(T)), Len(ss) /= 0
  PROVE  \E g \in [1 .. Len(ss) -> Seq(T)] :
           \A i \in 1 .. Len(ss) : g[i] = IF i = 1 THEN ss[i] ELSE g[i - 1] \o ss[i]
<1> DEFINE n == Len(ss)
           Solved(m) == \E g \in [1 .. m -> Seq(T)] : \A i \in 1 .. m : g[i] = IF i = 1 THEN ss[i] ELSE g[i - 1] \o ss[i]
           Bad == {m \in 1 .. n : ~Solved(m)}
<1>1. n \in Nat /\ n >= 1 /\ \A i \in 1 .. n : ss[i] \in Seq(T)
  OBVIOUS
<1>2. ASSUME NEW x \in 1 .. n, x /= 1 => Solved(x - 1) PROVE Solved(x)
  <2>1. CASE x = 1
    <3> DEFINE h == [i \in 1 .. 1 |-> ss[1]]
    <3>1. h \in [1 .. 1 -> Seq(T)] /\ \A i \in 1 .. 1 : i = 1 /\ h[i] = ss[i]
      BY <1>1
    <3> HIDE DEF h
    <3>2. \A i \in 1 .. 1 : h[i] = IF i = 1 THEN ss[i] ELSE h[i - 1] \o ss[i]
      BY <3>1
    <3> QED BY <2>1, <3>1, <3>2
  <2>2. CASE x /= 1
    <3>1. PICK g \in [1 .. x - 1 -> Seq(T)] : \A i \in 1 .. x - 1 : g[i] = IF i = 1 THEN ss[i] ELSE g[i - 1] \o ss[i]
      BY <1>2, <2>2
    <3> DEFINE h == [i \in 1 .. x |-> IF i = x THEN g[x - 1] \o ss[x] ELSE g[i]]
    <3>2. x - 1 \in 1 .. x - 1 /\ ss[x] \in Seq(T) /\ \A i \in 1 .. x : i = x \/ i \in 1 .. x - 1
      BY <1>1, <2>2
    <3>3. g[x - 1] \o ss[x] \in Seq(T)
      BY <3>2
    <3>4. h \in [1 .. x -> Seq(T)]
      BY <3>2, <3>3
    <3>5. ASSUME NEW i \in 1 .. x PROVE h[i] = IF i = 1 THEN ss[i] ELSE h[i - 1] \o ss[i]
      <4>1. CASE i = x
        <5>1. x - 1 \in 1 .. x /\ x - 1 /= x /\ x \in 1 .. x
          BY <1>1, <2>2
        <5>2. h[x] = g[x - 1] \o ss[x] /\ h[x - 1] = g[x - 1]
          BY <5>1
        <5> QED BY <2>2, <4>1, <5>2
      <4>2. CASE i \in 1 .. x - 1
        <5>1. i \in Nat /\ x \in Nat /\ i < x
          BY <1>1, <4>2
        <5>2. i /= x /\ i \in 1 .. x /\ (i /= 1 => i - 1 \in 1 .. x /\ i - 1 /= x)
          BY <4>2, <5>1
        <5>3. h[i] = g[i] /\ (i /= 1 => h[i - 1] = g[i - 1])
          BY <5>2
        <5> QED BY <3>1, <4>2, <5>3
      <4> QED BY <3>2, <4>1, <4>2
    <3> HIDE DEF h
    <3> QED BY <3>4, <3>5
  <2> QED BY <2>1, <2>2
<1> HIDE DEF Solved
<1>3. Bad = {}
  <2> SUFFICES ASSUME Bad /= {} PROVE FALSE
    OBVIOUS
  <2>1. Bad \in SUBSET Nat
    BY <1>1
  <2>2. PICK x \in Bad : \A y \in Bad : x <= y
    BY <2>1, Least
  <2>3. x \in 1 .. n /\ ~Solved(x)
    BY <2>2
  <2>4. x /= 1 => x - 1 \in 1 .. n /\ ~(x <= x - 1)
    BY <1>1, <2>3
  <2>5. x /= 1 => Solved(x - 1)
    BY <2>2, <2>4
  <2> QED BY <1>2, <2>3, <2>5
<1>4. Solved(n)
  BY <1>1, <1>3
<1> QED BY <1>4 DEF Solved

\* FlattenSeq appends one sequence after the other to the empty one.
LEMMA Flattens ==
  ASSUME NEW T, NEW ss \in Seq(Seq(T))
  PROVE  \E g \in [0 .. Len(ss) -> Seq(T)] :
           g[0] = <<>> /\ Grows(g, ss) /\ Sparse!FlattenSeq(ss) = g[Len(ss)]
<1> DEFINE n == Len(ss)
<1>1. n \in Nat /\ (\A i \in 1 .. n : ss[i] \in Seq(T)) /\ \A s \in Seq(T) : <<>> \o s = s
  OBVIOUS
<1>2. CASE n = 0
  <2>1. ss = <<>>
    BY <1>2
  <2>2. Sparse!FlattenSeq(ss) = <<>>
    BY <2>1 DEF Sparse!FlattenSeq
  <2> DEFINE g == [i \in 0 .. 0 |-> <<>>]
  <2>3. g \in [0 .. n -> Seq(T)] /\ g[0] = <<>>
    BY <1>2
  <2>4. Grows(g, ss)
    BY <1>2 DEF Grows
  <2> HIDE DEF g
  <2> QED BY <1>2, <2>2, <2>3, <2>4
<1>3. CASE n /= 0
  <2> DEFINE Solves(g) == g = [i \in 1 .. n |-> IF i = 1 THEN ss[i] ELSE g[i - 1] \o ss[i]]
             f == CHOOSE g : Solves(g)
  <2>1. PICK h \in [1 .. n -> Seq(T)] : \A i \in 1 .. n : h[i] = IF i = 1 THEN ss[i] ELSE h[i - 1] \o ss[i]
    BY <1>3, FlattenExists
  <2>2. Solves(h)
    BY <2>1
  <2>3. Solves(f)
    BY <2>2
  <2>4. Sparse!FlattenSeq(ss) = f[n]
    BY <1>3 DEF Sparse!FlattenSeq
  <2>5. \A i \in 1 .. n : f[i] = IF i = 1 THEN ss[i] ELSE f[i - 1] \o ss[i]
    BY <2>3
  <2> HIDE DEF f
  <2>6. \A i \in 1 .. n : f[i] \in Seq(T)
    <3> DEFINE Bad == {i \in 1 .. n : f[i] \notin Seq(T)}
    <3> SUFFICES ASSUME Bad /= {} PROVE FALSE
      OBVIOUS
    <3>1. Bad \in SUBSET Nat
      BY <1>1
    <3>2. PICK x \in Bad : \A y \in Bad : x <= y
      BY <3>1, Least
    <3>3. x \in 1 .. n /\ f[x] \notin Seq(T)
      BY <3>2
    <3>4. x = 1 \/ (x - 1 \in 1 .. n /\ ~(x <= x - 1))
      BY <1>1, <3>3
    <3>5. x = 1 \/ f[x - 1] \in Seq(T)
      BY <3>2, <3>4
    <3>6. f[x] = IF x = 1 THEN ss[x] ELSE f[x - 1] \o ss[x]
      BY <2>5, <3>3
    <3>7. ss[x] \in Seq(T)
      BY <1>1, <3>3
    <3> HIDE DEF Bad
    <3> QED BY <3>3, <3>5, <3>6, <3>7
  <2> DEFINE g == [i \in 0 .. n |-> IF i = 0 THEN <<>> ELSE f[i]]
  <2>7. g \in [0 .. n -> Seq(T)]
    <3>1. \A i \in 0 .. n : i = 0 \/ i \in 1 .. n
      BY <1>1
    <3>2. <<>> \in Seq(T)
      OBVIOUS
    <3> QED BY <2>6, <3>1, <3>2
  <2>8. \A i \in 1 .. n : g[i] = g[i - 1] \o ss[i]
    <3> TAKE i \in 1 .. n
    <3>1. i \in 0 .. n /\ i /= 0 /\ i - 1 \in 0 .. n /\ (i /= 1 => i - 1 /= 0)
      BY <1>1
    <3>2. g[i] = f[i]
      BY <3>1
    <3>3. CASE i = 1
      <4>1. g[i - 1] = <<>>
        BY <1>1, <3>3
      <4>2. f[i] = ss[i] /\ ss[i] \in Seq(T)
        BY <1>1, <2>5, <3>3
      <4> QED BY <1>1, <3>2, <4>1, <4>2
    <3>4. CASE i /= 1
      <4>1. g[i - 1] = f[i - 1]
        BY <3>1, <3>4
      <4> QED BY <2>5, <3>2, <3>4, <4>1
    <3> QED BY <3>3, <3>4
  <2>9. g[0] = <<>> /\ g[n] = f[n]
    BY <1>1, <1>3
  <2> HIDE DEF g
  <2> QED BY <2>4, <2>7, <2>8, <2>9 DEF Grows
<1> QED BY <1>2, <1>3

\* b begins with a.
Front(a, b) == Len(a) <= Len(b) /\ \A k \in 1 .. Len(a) : b[k] = a[k]

\* What was built stays in front of what comes after it.
LEMMA StaysInFront ==
  ASSUME NEW T, NEW ss \in Seq(Seq(T)), NEW g \in [0 .. Len(ss) -> Seq(T)], Grows(g, ss),
         NEW i \in 0 .. Len(ss), NEW z \in i .. Len(ss)
  PROVE  Front(g[i], g[z])
<1> DEFINE n == Len(ss)
           Good(j) == Front(g[i], g[j])
           Bad == {j \in i .. n : ~Good(j)}
<1> SUFFICES ASSUME Bad /= {} PROVE FALSE
  OBVIOUS
<1>1. n \in Nat /\ i \in Nat /\ Bad \in SUBSET Nat
  OBVIOUS
<1>2. PICK x \in Bad : \A y \in Bad : x <= y
  BY <1>1, Least
<1>3. x \in i .. n /\ ~Good(x)
  BY <1>2
<1>4. Good(i)
  <2>1. g[i] \in Seq(T)
    OBVIOUS
  <2> QED BY <2>1 DEF Front
<1>5. x - 1 \in i .. n /\ ~(x <= x - 1) /\ x \in 1 .. n /\ x \in 0 .. n /\ x - 1 \in 0 .. n
  BY <1>1, <1>3, <1>4
<1>6. Good(x - 1)
  BY <1>2, <1>5
<1>7. g[x] = g[x - 1] \o ss[x] /\ g[x - 1] \in Seq(T) /\ ss[x] \in Seq(T) /\ g[i] \in Seq(T)
  <2>1. \A y \in 1 .. n : ss[y] \in Seq(T)
    OBVIOUS
  <2>2. \A y \in 0 .. n : g[y] \in Seq(T)
    OBVIOUS
  <2> QED BY <1>5, <2>1, <2>2 DEF Grows
<1>8. Len(g[x]) = Len(g[x - 1]) + Len(ss[x]) /\ \A k \in 1 .. Len(g[x - 1]) : g[x][k] = g[x - 1][k]
  <2> DEFINE a == g[x - 1]
             b == ss[x]
  <2>1. a \in Seq(T) /\ b \in Seq(T) /\ g[x] = a \o b
    BY <1>7
  <2> HIDE DEF a, b
  <2>2. Len(a \o b) = Len(a) + Len(b) /\ \A k \in 1 .. Len(a) : (a \o b)[k] = a[k]
    BY <2>1
  <2> QED BY <2>1, <2>2 DEF a, b
<1>9. Len(ss[x]) \in Nat /\ Len(g[x - 1]) \in Nat /\ Len(g[i]) \in Nat
  BY <1>7
<1> USE DEF Front
<1>10. Len(g[i]) <= Len(g[x])
  <2>1. Len(g[i]) <= Len(g[x - 1])
    BY <1>6
  <2>2. \A l, m, o \in Nat : l <= m => l <= m + o
    OBVIOUS
  <2> HIDE DEF Good
  <2> QED BY <1>8, <1>9, <2>1, <2>2
<1>11. \A k \in 1 .. Len(g[i]) : k \in 1 .. Len(g[x - 1])
  BY <1>6, <1>9
<1> QED BY <1>3, <1>6, <1>8, <1>10, <1>11

\* A sequence, n times.
LEMMA Repeats ==
  ASSUME NEW T, NEW s \in Seq(T), NEW n \in Nat
  PROVE  /\ Sparse!Repeat(s, n) \in Seq(T) /\ Len(Sparse!Repeat(s, n)) = n * Len(s)
         /\ \A i \in 0 .. n - 1 : \A k \in 1 .. Len(s) : Sparse!Repeat(s, n)[i * Len(s) + k] = s[k]
<1> DEFINE ss == [i \in 1 .. n |-> s]
           l == Len(s)
<1>1. ss \in Seq(Seq(T)) /\ Len(ss) = n /\ (\A i \in 1 .. n : ss[i] = s) /\ l \in Nat
  OBVIOUS
<1> HIDE DEF ss, l
<1>2. PICK g \in [0 .. n -> Seq(T)] : g[0] = <<>> /\ Grows(g, ss) /\ Sparse!FlattenSeq(ss) = g[n]
  BY <1>1, Flattens
<1>3. ASSUME NEW i \in 1 .. n
      PROVE  /\ i - 1 \in 0 .. n /\ i \in 0 .. n /\ g[i] = g[i - 1] \o s /\ Len(g[i - 1]) \in Nat
             /\ Len(g[i]) = Len(g[i - 1]) + l /\ \A k \in 1 .. l : g[i][Len(g[i - 1]) + k] = s[k]
  <2> DEFINE a == g[i - 1]
  <2>0. i - 1 \in 0 .. n /\ i \in 0 .. n
    OBVIOUS
  <2>1. i - 1 \in 0 .. n /\ i \in 0 .. n /\ a \in Seq(T) /\ g[i] = a \o s
    <3>1. g[i] = g[i - 1] \o ss[i]
      BY <1>1, <1>2 DEF Grows
    <3> QED BY <1>1, <2>0, <3>1
  <2> HIDE DEF a
  <2>2. Len(a) \in Nat /\ Len(a \o s) = Len(a) + Len(s) /\ \A k \in 1 .. Len(s) : (a \o s)[Len(a) + k] = s[k]
    BY <2>1
  <2> QED BY <2>1, <2>2 DEF a, l
<1>4. \A i \in 0 .. n : Len(g[i]) = i * l
  <2> DEFINE Bad == {i \in 0 .. n : Len(g[i]) /= i * l}
  <2> SUFFICES ASSUME Bad /= {} PROVE FALSE
    OBVIOUS
  <2>1. Bad \in SUBSET Nat
    OBVIOUS
  <2>2. PICK x \in Bad : \A y \in Bad : x <= y
    BY <2>1, Least
  <2>3. x \in 0 .. n /\ Len(g[x]) /= x * l
    BY <2>2
  <2>4. x /= 0
    BY <1>1, <1>2, <2>3
  <2>5. x \in 1 .. n /\ x - 1 \in 0 .. n /\ ~(x <= x - 1)
    BY <2>3, <2>4
  <2>6. Len(g[x - 1]) = (x - 1) * l
    BY <2>2, <2>5
  <2>7. Len(g[x]) = (x - 1) * l + l
    BY <1>3, <2>5, <2>6
  <2>8. (x - 1) * l + l = x * l
    BY <1>1, <2>5
  <2> QED BY <2>3, <2>7, <2>8
<1>5. ASSUME NEW j \in 0 .. n PROVE \A k \in 1 .. Len(g[j]) : g[n][k] = g[j][k]
  <2>1. /\ n \in j .. n /\ ss \in Seq(Seq(T)) /\ Grows(g, ss)
        /\ g \in [0 .. Len(ss) -> Seq(T)] /\ j \in 0 .. Len(ss)
    BY <1>1, <1>2
  <2>2. Front(g[j], g[n])
    BY <1>1, <2>1, StaysInFront
  <2> QED BY <2>2 DEF Front
<1>6. ASSUME NEW i \in 0 .. n - 1, NEW k \in 1 .. l PROVE g[n][i * l + k] = s[k]
  <2>1. i + 1 \in 1 .. n /\ i + 1 \in 0 .. n /\ i \in 0 .. n /\ (i + 1) - 1 = i /\ i * l \in Nat
    BY <1>1
  <2>2. Len(g[i]) = i * l
    BY <1>4, <2>1
  <2>3. Len(g[i + 1]) = Len(g[i]) + l /\ g[i + 1][Len(g[i]) + k] = s[k]
    BY <1>3, <2>1
  <2>4. \A m \in Nat : m + k \in 1 .. m + l
    BY <1>1
  <2>5. i * l + k \in 1 .. Len(g[i + 1])
    BY <2>1, <2>2, <2>3, <2>4
  <2> QED BY <1>5, <2>1, <2>2, <2>3, <2>5
<1>7. Sparse!Repeat(s, n) = g[n] /\ g[n] \in Seq(T)
  BY <1>2 DEF Sparse!Repeat, ss
<1> QED BY <1>4, <1>6, <1>7 DEF l

\* A place in a repeated sequence is a round and a place in the sequence.
LEMMA Rounds ==
  ASSUME NEW n \in Nat, NEW l \in Nat, NEW k \in 1 .. n * l
  PROVE  \E i \in 0 .. n - 1 : \E j \in 1 .. l : k = i * l + j
<1>1. n * l \in Nat /\ l > 0 /\ k \in Nat /\ k >= 1 /\ k <= n * l
  BY Z3
<1> DEFINE i == (k - 1) \div l
           r == (k - 1) % l
<1>2. i \in Int /\ r \in 0 .. l - 1 /\ k - 1 = i * l + r
  BY <1>1, Z3
<1> HIDE DEF i, r
<1>3. i \in 0 .. n - 1
  BY <1>1, <1>2, Z3
<1>4. r + 1 \in 1 .. l /\ k = i * l + (r + 1)
  BY <1>1, <1>2, <1>3, Z3
<1> QED BY <1>3, <1>4

\* A fill is its pattern over and over, when the blocks are whole words.
LEMMA Filled ==
  ASSUME NEW v \in Nat, NEW w \in Nat, NEW b \in Nat
  PROVE  Sparse!Repeat(Sparse!Repeat(Sparse!Pattern(v), w), b) = [k \in 1 .. b * (4 * w) |-> <<v, ((k - 1) % 4) + 1>>]
<1> DEFINE T == Nat \X Nat
           p == Sparse!Pattern(v)
           y == Sparse!Repeat(p, w)
           x == Sparse!Repeat(y, b)
<1>1. p \in Seq(T) /\ Len(p) = 4 /\ \A k \in 1 .. 4 : p[k] = <<v, k>>
  BY DEF Sparse!Pattern, Sparse!Word
<1> HIDE DEF p, T
<1>2. y \in Seq(T) /\ Len(y) = w * 4 /\ \A i \in 0 .. w - 1 : \A k \in 1 .. 4 : y[i * 4 + k] = <<v, k>>
  <2>1. /\ y \in Seq(T) /\ Len(y) = w * Len(p)
        /\ \A i \in 0 .. w - 1 : \A k \in 1 .. Len(p) : y[i * Len(p) + k] = p[k]
    BY <1>1, Repeats
  <2> HIDE DEF y
  <2> QED BY <1>1, <2>1
<1>3. w * 4 = 4 * w /\ 4 * w \in Nat /\ b * (4 * w) \in Nat
  BY Z3
<1> HIDE DEF y
<1>4. /\ x \in Seq(T) /\ Len(x) = b * (4 * w)
      /\ \A i \in 0 .. b - 1 : \A k \in 1 .. 4 * w : x[i * (4 * w) + k] = y[k]
  <2>1. /\ x \in Seq(T) /\ Len(x) = b * Len(y)
        /\ \A i \in 0 .. b - 1 : \A k \in 1 .. Len(y) : x[i * Len(y) + k] = y[k]
    BY <1>2, Repeats
  <2>2. Len(y) = 4 * w
    BY <1>2, <1>3
  <2> HIDE DEF x
  <2> QED BY <2>1, <2>2
<1> HIDE DEF x
<1>5. ASSUME NEW k \in 1 .. b * (4 * w) PROVE x[k] = <<v, ((k - 1) % 4) + 1>>
  <2>1. PICK i \in 0 .. b - 1 : \E j \in 1 .. 4 * w : k = i * (4 * w) + j
    BY <1>3, Rounds
  <2>2. PICK j \in 1 .. 4 * w : k = i * (4 * w) + j
    BY <2>1
  <2>0. j \in 1 .. w * 4 /\ 4 \in Nat
    BY <1>3
  <2>3. PICK i2 \in 0 .. w - 1 : \E j2 \in 1 .. 4 : j = i2 * 4 + j2
    BY <2>0, Rounds
  <2>4. PICK j2 \in 1 .. 4 : j = i2 * 4 + j2
    BY <2>3
  <2>5. x[k] = <<v, j2>>
    BY <1>2, <1>4, <2>2, <2>4
  <2>6. i * w \in Int /\ i * (4 * w) = 4 * (i * w)
    BY Z3
  <2>7. k - 1 = 4 * (i * w + i2) + (j2 - 1)
    BY <2>2, <2>4, <2>6
  <2>8. (k - 1) % 4 = j2 - 1
    <3> DEFINE m == i * w + i2
    <3>1. m \in Int /\ k - 1 = 4 * m + (j2 - 1)
      BY <2>6, <2>7
    <3> HIDE DEF m
    <3> QED BY <3>1, Z3
  <2> QED BY <2>5, <2>8
<1>6. x = [k \in 1 .. Len(x) |-> x[k]]
  BY <1>4
<1> QED BY <1>4, <1>5, <1>6 DEF x, y, p

\* A skipped chunk is zeroes.
LEMMA Skipped0 ==
  ASSUME NEW n \in Nat
  PROVE  Sparse!Repeat(<<Sparse!Zero>>, n) = [k \in 1 .. n |-> Sparse!Zero]
<1> DEFINE T == Nat \X Nat
           x == Sparse!Repeat(<<Sparse!Zero>>, n)
<1>1. <<Sparse!Zero>> \in Seq(T) /\ Len(<<Sparse!Zero>>) = 1 /\ <<Sparse!Zero>>[1] = Sparse!Zero
  BY DEF Sparse!Zero
<1> HIDE DEF T
<1>2. x \in Seq(T) /\ Len(x) = n * 1 /\ \A i \in 0 .. n - 1 : x[i * 1 + 1] = Sparse!Zero
  <2> DEFINE z == <<Sparse!Zero>>
  <2>1. z \in Seq(T) /\ Len(z) = 1 /\ z[1] = Sparse!Zero
    BY <1>1
  <2> HIDE DEF z
  <2>2. /\ Sparse!Repeat(z, n) \in Seq(T) /\ Len(Sparse!Repeat(z, n)) = n * Len(z)
        /\ \A i \in 0 .. n - 1 : \A k \in 1 .. Len(z) : Sparse!Repeat(z, n)[i * Len(z) + k] = z[k]
    BY <2>1, Repeats
  <2>3. x = Sparse!Repeat(z, n)
    BY DEF z
  <2> HIDE DEF x
  <2> QED BY <2>1, <2>2, <2>3
<1> HIDE DEF x
<1>3. ASSUME NEW k \in 1 .. n PROVE x[k] = Sparse!Zero
  <2>1. k - 1 \in 0 .. n - 1 /\ (k - 1) * 1 + 1 = k
    OBVIOUS
  <2> QED BY <1>2, <2>1
<1>4. x = [k \in 1 .. Len(x) |-> x[k]] /\ Len(x) = n
  BY <1>2
<1> QED BY <1>3, <1>4 DEF x

------------------------------------------------------------------------------
(* Sparse images.                                                           *)

\* A step of the operations is a step of decompress_sparse or leaves it alone.
LEMMA SparseSteps == [Next]_operationVars => Sparse!Next \/ UNCHANGED sparseVars
  BY DEF Next, Only, operationVars

\* The operations' constants are what EdlSparse assumes of its own.
LEMMA SparseConstants == Sparse!SparseAssumption
  BY OperationsAssumption DEF OperationsAssumption

\* An image and its chunks, as cells of the file and as bytes of the partition.
ChunkRecords == [kind : Sparse!Kinds, blocks : Blocks]
CellSet ==
  [cell : {"chunk"}, kind : Sparse!Kinds, blocks : Nat]
    \union [cell : {"byte"}, value : Nat \X Nat] \union [cell : {"word"}, value : Nat]
ByteSet == Nat \X Nat
HeaderOf(n) == [cell |-> "chunk", kind |-> chunks[n].kind, blocks |-> chunks[n].blocks]
Piece(n) == <<HeaderOf(n)>> \o Sparse!Body(chunks[n], n, blockSize)
Pieces == [n \in DOMAIN chunks |-> Piece(n)]
BytesFor(n) == [k \in 1 .. Sparse!Size(chunks[n]) |-> Sparse!ByteOf(n, k)]
Contents == [n \in DOMAIN chunks |-> BytesFor(n)]
ImageCells == Sparse!Cells(chunks, blockSize)

Typed == chunks \in Seq(ChunkRecords) /\ blockSize \in Nat

\* A cell in front of others.
LEMMA Prepended ==
  ASSUME NEW T, NEW x, NEW s \in Seq(T)
  PROVE  /\ Len(<<x>> \o s) = 1 + Len(s) /\ (<<x>> \o s)[1] = x
         /\ \A k \in 1 .. Len(s) : (<<x>> \o s)[1 + k] = s[k]
         /\ <<x>> \o s \in Seq(T \union {x})
<1> DEFINE a == <<x>>
           U == T \union {x}
<1>1. a \in Seq(U) /\ s \in Seq(U) /\ Len(a) = 1 /\ a[1] = x
  OBVIOUS
<1> HIDE DEF a, U
<1>2. /\ a \o s \in Seq(U) /\ Len(a \o s) = 1 + Len(s) /\ (a \o s)[1] = a[1]
      /\ \A k \in 1 .. Len(s) : (a \o s)[1 + k] = s[k]
  <2>0. Len(s) \in Nat
    OBVIOUS
  <2>a. a \in Seq(U)
    BY <1>1
  <2>s. s \in Seq(U)
    BY <1>1
  <2>1. a \o s \in Seq(U) /\ Len(a \o s) = Len(a) + Len(s)
    BY <2>a, <2>s, ConcatProperties
  <2>2. \A k \in 1 .. Len(a) + Len(s) : (a \o s)[k] = IF k <= Len(a) THEN a[k] ELSE s[k - Len(a)]
    BY <1>1, ConcatProperties
  <2>3. 1 \in 1 .. 1 + Len(s) /\ \A k \in 1 .. Len(s) : 1 + k \in 1 .. 1 + Len(s) /\ ~(1 + k <= 1) /\ (1 + k) - 1 = k
    BY <2>0
  <2> QED BY <1>1, <2>1, <2>2, <2>3
<1> QED BY <1>1, <1>2 DEF a, U

\* The body of a chunk, by its kind.
LEMMA Bodies ==
  ASSUME Typed, NEW n \in DOMAIN chunks
  PROVE  /\ n \in Nat /\ chunks[n].kind \in Sparse!Kinds /\ chunks[n].blocks \in Nat
         /\ chunks[n].blocks * blockSize \in Nat
         /\ Sparse!Body(chunks[n], n, blockSize) \in Seq(CellSet)
         /\ chunks[n].kind = "raw" =>
              /\ Len(Sparse!Body(chunks[n], n, blockSize)) = chunks[n].blocks * blockSize
              /\ \A k \in 1 .. chunks[n].blocks * blockSize : Sparse!Body(chunks[n], n, blockSize)[k].value = <<n, k>>
         /\ chunks[n].kind \in {"fill", "crc32"} =>
              /\ Len(Sparse!Body(chunks[n], n, blockSize)) = 1
              /\ Sparse!Body(chunks[n], n, blockSize)[1].value = n
         /\ chunks[n].kind \in {"dont_care", "other"} => Len(Sparse!Body(chunks[n], n, blockSize)) = 0
<1> DEFINE c == chunks[n]
           m == c.blocks * blockSize
<1>1. n \in Nat /\ c \in ChunkRecords /\ Blocks \subseteq Nat
  BY SparseConstants DEF Typed, Sparse!SparseAssumption
<1>2. c.kind \in Sparse!Kinds /\ c.blocks \in Nat
  BY <1>1 DEF ChunkRecords
<1>3. m \in Nat
  <2>1. \A a, b \in Nat : a * b \in Nat
    BY Z3
  <2> QED BY <1>2, <2>1 DEF Typed
<1> HIDE DEF m
<1>4. CASE c.kind = "raw"
  <2> DEFINE s == [k \in 1 .. m |-> [cell |-> "byte", value |-> <<n, k>>]]
  <2>1. Sparse!Body(c, n, blockSize) = s
    BY <1>4 DEF Sparse!Body, m
  <2>2. \A k \in 1 .. m : [cell |-> "byte", value |-> <<n, k>>] \in CellSet
    BY <1>1, <1>3 DEF CellSet
  <2>3. s \in Seq(CellSet) /\ Len(s) = m /\ \A k \in 1 .. m : s[k].value = <<n, k>>
    BY <1>3, <2>2
  <2> HIDE DEF s
  <2> QED BY <1>1, <1>2, <1>3, <1>4, <2>1, <2>3 DEF m
<1>5. CASE c.kind \in {"fill", "crc32"}
  <2> DEFINE x == [cell |-> "word", value |-> n]
  <2>1. Sparse!Body(c, n, blockSize) = <<x>>
    BY <1>5 DEF Sparse!Body
  <2>2. x \in CellSet /\ x.value = n
    BY <1>1 DEF CellSet
  <2> HIDE DEF x
  <2>3. <<x>> \in Seq(CellSet) /\ Len(<<x>>) = 1 /\ <<x>>[1] = x
    BY <2>2
  <2> QED BY <1>1, <1>2, <1>3, <1>5, <2>1, <2>2, <2>3 DEF m
<1>6. CASE c.kind \in {"dont_care", "other"}
  <2>1. Sparse!Body(c, n, blockSize) = <<>>
    BY <1>6 DEF Sparse!Body
  <2> QED BY <1>1, <1>2, <1>3, <1>6, <2>1 DEF m
<1> QED BY <1>2, <1>4, <1>5, <1>6 DEF Sparse!Kinds

\* The cells of a chunk: its header and then its body.
LEMMA PieceCells ==
  ASSUME Typed, NEW n \in DOMAIN chunks
  PROVE  /\ Piece(n) \in Seq(CellSet)
         /\ Len(Piece(n)) = 1 + Len(Sparse!Body(chunks[n], n, blockSize)) /\ Piece(n)[1] = HeaderOf(n)
         /\ \A k \in 1 .. Len(Sparse!Body(chunks[n], n, blockSize)) :
              Piece(n)[1 + k] = Sparse!Body(chunks[n], n, blockSize)[k]
<1> DEFINE s == Sparse!Body(chunks[n], n, blockSize)
<1>1. s \in Seq(CellSet)
  BY Bodies
<1>2. HeaderOf(n) \in CellSet
  BY Bodies DEF HeaderOf, CellSet
<1>3. CellSet \union {HeaderOf(n)} = CellSet
  BY <1>2
<1> HIDE DEF s
<1>4. /\ Len(<<HeaderOf(n)>> \o s) = 1 + Len(s) /\ (<<HeaderOf(n)>> \o s)[1] = HeaderOf(n)
      /\ \A k \in 1 .. Len(s) : (<<HeaderOf(n)>> \o s)[1 + k] = s[k]
      /\ <<HeaderOf(n)>> \o s \in Seq(CellSet)
  <2>1. <<HeaderOf(n)>> \o s \in Seq(CellSet \union {HeaderOf(n)})
    BY <1>1, Prepended
  <2> QED BY <1>1, <1>3, <2>1, Prepended
<1>5. Piece(n) = <<HeaderOf(n)>> \o s
  BY DEF Piece, s
<1> QED BY <1>4, <1>5 DEF s

\* The bytes of a chunk.
LEMMA PieceBytes ==
  ASSUME Typed, NEW n \in DOMAIN chunks
  PROVE  BytesFor(n) \in Seq(ByteSet)
<1>1. Sparse!Size(chunks[n]) \in Nat
  BY Bodies DEF Sparse!Size
<1>2. \A k \in 1 .. Sparse!Size(chunks[n]) : Sparse!ByteOf(n, k) \in ByteSet
  <2> TAKE k \in 1 .. Sparse!Size(chunks[n])
  <2>1. k \in Nat /\ n \in Nat
    BY <1>1, Bodies
  <2>2. ((k - 1) % 4) + 1 \in Nat
    BY <2>1
  <2> QED BY <2>1, <2>2 DEF Sparse!ByteOf, Sparse!Zero, Sparse!Word, ByteSet
<1> QED BY <1>1, <1>2 DEF BytesFor

\* The cells and the bytes up to each chunk.
Layout ==
  CHOOSE g \in [0 .. Len(chunks) -> Seq(CellSet)] :
    g[0] = <<>> /\ Grows(g, Pieces) /\ Sparse!FlattenSeq(Pieces) = g[Len(chunks)]
Filling ==
  CHOOSE g \in [0 .. Len(chunks) -> Seq(ByteSet)] :
    g[0] = <<>> /\ Grows(g, Contents) /\ Sparse!FlattenSeq(Contents) = g[Len(chunks)]

\* They are there.
LEMMA Layouts ==
  ASSUME Typed
  PROVE  /\ Pieces \in Seq(Seq(CellSet)) /\ Len(Pieces) = Len(chunks)
         /\ Layout \in [0 .. Len(chunks) -> Seq(CellSet)]
         /\ Layout[0] = <<>> /\ Grows(Layout, Pieces) /\ Sparse!FlattenSeq(Pieces) = Layout[Len(chunks)]
         /\ Contents \in Seq(Seq(ByteSet)) /\ Len(Contents) = Len(chunks)
         /\ Filling \in [0 .. Len(chunks) -> Seq(ByteSet)]
         /\ Filling[0] = <<>> /\ Grows(Filling, Contents) /\ Sparse!FlattenSeq(Contents) = Filling[Len(chunks)]
<1>1. DOMAIN chunks = 1 .. Len(chunks) /\ Len(chunks) \in Nat
  BY DEF Typed
<1>2. Pieces \in Seq(Seq(CellSet)) /\ Len(Pieces) = Len(chunks)
  BY <1>1, PieceCells DEF Pieces
<1>3. Contents \in Seq(Seq(ByteSet)) /\ Len(Contents) = Len(chunks)
  BY <1>1, PieceBytes DEF Contents
<1>4. \E g \in [0 .. Len(chunks) -> Seq(CellSet)] :
        g[0] = <<>> /\ Grows(g, Pieces) /\ Sparse!FlattenSeq(Pieces) = g[Len(chunks)]
  <2>1. \E g \in [0 .. Len(Pieces) -> Seq(CellSet)] :
          g[0] = <<>> /\ Grows(g, Pieces) /\ Sparse!FlattenSeq(Pieces) = g[Len(Pieces)]
    BY <1>2, Flattens
  <2> QED BY <1>2, <2>1
<1>5. \E g \in [0 .. Len(chunks) -> Seq(ByteSet)] :
        g[0] = <<>> /\ Grows(g, Contents) /\ Sparse!FlattenSeq(Contents) = g[Len(chunks)]
  <2>1. \E g \in [0 .. Len(Contents) -> Seq(ByteSet)] :
          g[0] = <<>> /\ Grows(g, Contents) /\ Sparse!FlattenSeq(Contents) = g[Len(Contents)]
    BY <1>3, Flattens
  <2> QED BY <1>3, <2>1
<1>6. /\ Layout \in [0 .. Len(chunks) -> Seq(CellSet)]
      /\ Layout[0] = <<>> /\ Grows(Layout, Pieces) /\ Sparse!FlattenSeq(Pieces) = Layout[Len(chunks)]
  BY <1>4 DEF Layout
<1>7. /\ Filling \in [0 .. Len(chunks) -> Seq(ByteSet)]
      /\ Filling[0] = <<>> /\ Grows(Filling, Contents) /\ Sparse!FlattenSeq(Contents) = Filling[Len(chunks)]
  BY <1>5 DEF Filling
<1> QED BY <1>2, <1>3, <1>6, <1>7

\* A whole image is its header and its chunks.
LEMMA ImageLayout ==
  ASSUME Typed
  PROVE  /\ Len(ImageCells) = 1 + Len(Layout[Len(chunks)])
         /\ ImageCells[1] = [cell |-> "image", chunks |-> Len(chunks)]
         /\ \A k \in 1 .. Len(Layout[Len(chunks)]) : ImageCells[1 + k] = Layout[Len(chunks)][k]
         /\ ImageCells \in Seq(CellSet \union {[cell |-> "image", chunks |-> Len(chunks)]})
<1> DEFINE x == [cell |-> "image", chunks |-> Len(chunks)]
           s == Layout[Len(chunks)]
<1>1. ImageCells = <<x>> \o s
  <2>1. Pieces = [n \in DOMAIN chunks |-> <<[cell |-> "chunk", kind |-> chunks[n].kind, blocks |-> chunks[n].blocks]>>
                                            \o Sparse!Body(chunks[n], n, blockSize)]
    BY DEF Pieces, Piece, HeaderOf
  <2>2. Sparse!FlattenSeq(Pieces) = s
    BY Layouts
  <2> QED BY <2>1, <2>2 DEF ImageCells, Sparse!Cells
<1>2. s \in Seq(CellSet)
  BY Layouts DEF Typed
<1> HIDE DEF x, s
<1>3. /\ Len(<<x>> \o s) = 1 + Len(s) /\ (<<x>> \o s)[1] = x
      /\ \A k \in 1 .. Len(s) : (<<x>> \o s)[1 + k] = s[k]
      /\ <<x>> \o s \in Seq(CellSet \union {x})
  BY <1>2, Prepended
<1> QED BY <1>1, <1>3 DEF x, s

\* A whole image is a sequence of cells, in this state and in the next.
LEMMA ImageIsSequence ==
  Typed => Len(ImageCells) \in Nat /\ ImageCells \in Seq(CellSet \union {[cell |-> "image", chunks |-> Len(chunks)]})
<1> SUFFICES ASSUME Typed
             PROVE  /\ Len(ImageCells) \in Nat
                    /\ ImageCells \in Seq(CellSet \union {[cell |-> "image", chunks |-> Len(chunks)]})
  OBVIOUS
<1> DEFINE U == CellSet \union {[cell |-> "image", chunks |-> Len(chunks)]}
<1>1. ImageCells \in Seq(U)
  BY ImageLayout
<1> HIDE DEF U
<1>2. Len(ImageCells) \in Nat
  BY <1>1
<1> QED BY <1>1, <1>2 DEF U

\* Where a chunk is in the image.
LEMMA NextPiece ==
  ASSUME Typed, NEW i \in DOMAIN chunks
  PROVE  /\ Len(Layout[i - 1]) \in Nat /\ Len(Piece(i)) \in Nat /\ Len(ImageCells) \in Nat
         /\ Len(Layout[i]) = Len(Layout[i - 1]) + Len(Piece(i)) /\ 1 + Len(Layout[i]) <= Len(ImageCells)
         /\ \A k \in 1 .. Len(Piece(i)) : ImageCells[1 + Len(Layout[i - 1]) + k] = Piece(i)[k]
         /\ Filling[i] = Filling[i - 1] \o BytesFor(i)
<1> DEFINE n == Len(chunks)
           a == Layout[i - 1]
           b == Piece(i)
           c == Layout[i]
           d == Layout[n]
<1>1. DOMAIN chunks = 1 .. n /\ n \in Nat /\ i \in 0 .. n /\ i - 1 \in 0 .. n /\ i \in 1 .. n /\ n \in i .. n /\ n \in 0 .. n
  BY DEF Typed
<1>2. Pieces[i] = b /\ Contents[i] = BytesFor(i)
  BY DEF Pieces, Contents
<1>3. c = a \o b /\ Filling[i] = Filling[i - 1] \o BytesFor(i)
  BY <1>1, <1>2, Layouts DEF Grows
<1>4. a \in Seq(CellSet) /\ b \in Seq(CellSet) /\ c \in Seq(CellSet) /\ d \in Seq(CellSet)
  BY <1>1, Layouts, PieceCells
<1>5. Front(c, d)
  <2>1. /\ Pieces \in Seq(Seq(CellSet)) /\ Grows(Layout, Pieces) /\ Layout \in [0 .. Len(Pieces) -> Seq(CellSet)]
        /\ i \in 0 .. Len(Pieces) /\ n \in i .. Len(Pieces)
    BY <1>1, Layouts
  <2> QED BY <2>1, StaysInFront
<1>6. Len(ImageCells) = 1 + Len(d) /\ \A k \in 1 .. Len(d) : ImageCells[1 + k] = d[k]
  BY ImageLayout
<1> HIDE DEF a, b, c, d, n
<1>7. Len(a) \in Nat /\ Len(b) \in Nat /\ Len(d) \in Nat /\ Len(a \o b) = Len(a) + Len(b)
      /\ \A k \in 1 .. Len(b) : (a \o b)[Len(a) + k] = b[k]
  BY <1>4
<1>8. Len(c) = Len(a) + Len(b) /\ Len(c) <= Len(d) /\ 1 + Len(c) <= Len(ImageCells)
  BY <1>3, <1>5, <1>6, <1>7 DEF Front
<1>9. ASSUME NEW k \in 1 .. Len(b) PROVE ImageCells[1 + Len(a) + k] = b[k]
  <2>1. Len(a) + k \in 1 .. Len(c) /\ Len(a) + k \in 1 .. Len(d) /\ 1 + Len(a) + k = 1 + (Len(a) + k)
    BY <1>7, <1>8
  <2>2. ImageCells[1 + (Len(a) + k)] = d[Len(a) + k] /\ d[Len(a) + k] = c[Len(a) + k]
    BY <1>5, <1>6, <2>1 DEF Front
  <2> QED BY <1>3, <1>7, <2>1, <2>2
<1>10. Len(ImageCells) \in Nat
  BY <1>6, <1>7
<1> QED BY <1>3, <1>7, <1>8, <1>9, <1>10 DEF a, b, c

\* The file is the image, or what is left of it.
Cut == Len(file) <= Len(ImageCells) /\ file = SubSeq(ImageCells, 1, Len(file))
ChunksRead == Len(chunks) - toGo
SparseInv ==
  /\ Typed /\ Len(chunks) <= MaxChunks /\ Len(file) \in Nat
  /\ expansion \in {"none", "opened", "chunks", "raw", "expanded", "error", "failed"}
  /\ expansion \in {"none", "opened", "raw"} => offset = 0 /\ toGo = 0
  /\ expansion \in {"error", "failed"} => offset \in 0 .. Len(file) /\ toGo \in 0 .. Len(chunks)
  /\ expansion = "opened" => Cut \/ file = <<[cell |-> "byte", value |-> Sparse!Zero]>> \/ file = <<Sparse!MagicOnly>>
  /\ expansion \in {"chunks", "expanded"} =>
       /\ Cut /\ toGo \in 0 .. Len(chunks)
       /\ offset = 1 + Len(Layout[ChunksRead]) /\ offset <= Len(file)
       /\ blockSize % 4 = 0 => image = Filling[ChunksRead]
       /\ \A i \in 1 .. ChunksRead : chunks[i].kind /= "other"
  /\ expansion = "expanded" => toGo = 0
  /\ expansion = "error" => file /= ImageCells \/ \E i \in DOMAIN chunks : chunks[i].kind = "other"

\* What is left of an image is as it was.
LEMMA CutCells ==
  ASSUME Typed, Cut, Len(file) \in Nat
  PROVE  \A k \in 1 .. Len(file) : file[k] = ImageCells[k]
<1>1. Len(ImageCells) \in Nat /\ ImageCells \in Seq(CellSet \union {[cell |-> "image", chunks |-> Len(chunks)]})
  BY ImageLayout
<1> DEFINE U == CellSet \union {[cell |-> "image", chunks |-> Len(chunks)]}
           m == Len(file)
           s == ImageCells
<1>2. m \in Nat /\ m <= Len(s) /\ file = SubSeq(s, 1, m) /\ s \in Seq(U)
  BY <1>1 DEF Cut
<1> HIDE DEF U, m, s
<1>3. \A k \in 1 .. m : s[k] \in U
  BY <1>2
<1>4. \A k \in 1 .. m - 1 + 1 : SubSeq(s, 1, m)[k] = s[1 + k - 1]
  BY <1>2, <1>3, SubSeqProperties
<1>5. \A k \in 1 .. m : k \in 1 .. m - 1 + 1 /\ 1 + k - 1 = k
  BY <1>2
<1> QED BY <1>2, <1>4, <1>5 DEF m, s

\* The cell that is read next, when chunks are left: the header of the next chunk, or the end.
LEMMA NextHeader ==
  ASSUME SparseInv, expansion = "chunks", toGo > 0
  PROVE  LET i == ChunksRead + 1 IN
         /\ i \in DOMAIN chunks /\ i - 1 = ChunksRead /\ offset \in Nat /\ Len(file) \in Nat
         /\ Sparse!At(offset + 1) = IF offset + 1 <= Len(file) THEN HeaderOf(i) ELSE [cell |-> "end"]
         /\ \A k \in 1 .. Len(Piece(i)) : offset + k <= Len(file) => file[offset + k] = Piece(i)[k]
<1> DEFINE i == ChunksRead + 1
<1>1. Typed /\ Cut /\ toGo \in 0 .. Len(chunks) /\ offset = 1 + Len(Layout[ChunksRead]) /\ Len(file) \in Nat
  BY DEF SparseInv
<1>2. i \in DOMAIN chunks /\ i - 1 = ChunksRead
  BY <1>1 DEF Typed, ChunksRead
<1>3. /\ Len(Layout[i - 1]) \in Nat /\ Len(Piece(i)) \in Nat
      /\ \A k \in 1 .. Len(Piece(i)) : ImageCells[1 + Len(Layout[i - 1]) + k] = Piece(i)[k]
  BY <1>1, <1>2, NextPiece
<1>4. Piece(i)[1] = HeaderOf(i) /\ Len(Piece(i)) >= 1
  <2>1. Len(Sparse!Body(chunks[i], i, blockSize)) \in Nat
    BY <1>1, <1>2, Bodies
  <2> QED BY <1>1, <1>2, <2>1, PieceCells
<1> HIDE DEF i
<1>5. offset \in Nat /\ offset = 1 + Len(Layout[i - 1])
  BY <1>1, <1>2, <1>3
<1>6. ASSUME NEW k \in 1 .. Len(Piece(i)), offset + k <= Len(file) PROVE file[offset + k] = Piece(i)[k]
  <2>1. offset + k \in 1 .. Len(file)
    BY <1>1, <1>3, <1>5, <1>6
  <2> QED BY <1>1, <1>3, <1>5, <2>1, CutCells
<1>7. Sparse!At(offset + 1) = IF offset + 1 <= Len(file) THEN HeaderOf(i) ELSE [cell |-> "end"]
  BY <1>3, <1>4, <1>6 DEF Sparse!At
<1> QED BY <1>1, <1>2, <1>5, <1>6, <1>7 DEF i

\* What a chunk is expanded to is its bytes.
LEMMA ChunkBytes ==
  ASSUME SparseInv, expansion = "chunks", toGo > 0, blockSize % 4 = 0, NEW i, i = ChunksRead + 1
  PROVE  /\ chunks[i].kind = "raw" /\ Sparse!Available(chunks[i].blocks * blockSize) =>
              BytesFor(i) = [k \in 1 .. chunks[i].blocks * blockSize |-> file[offset + 1 + k].value]
         /\ chunks[i].kind = "fill" /\ Sparse!Available(1) =>
              BytesFor(i) = Sparse!Repeat(Sparse!Repeat(Sparse!Pattern(file[offset + 2].value), blockSize \div 4), chunks[i].blocks)
         /\ chunks[i].kind = "dont_care" =>
              BytesFor(i) = Sparse!Repeat(<<Sparse!Zero>>, chunks[i].blocks * blockSize)
         /\ chunks[i].kind = "crc32" => BytesFor(i) = <<>>
<1> DEFINE m == chunks[i].blocks * blockSize
           s == Sparse!Body(chunks[i], i, blockSize)
<1>1. Typed /\ i \in DOMAIN chunks /\ offset \in Nat /\ Len(file) \in Nat
  BY NextHeader DEF SparseInv
<1>2. chunks[i].kind \in Sparse!Kinds /\ chunks[i].blocks \in Nat /\ m \in Nat /\ i \in Nat /\ blockSize \in Nat
  BY <1>1, Bodies DEF Typed
<1>3. BytesFor(i) = [k \in 1 .. (IF chunks[i].kind = "crc32" THEN 0 ELSE m) |-> Sparse!ByteOf(i, k)]
  BY DEF BytesFor, Sparse!Size
<1>4. /\ Len(Piece(i)) = 1 + Len(s) /\ Len(s) \in Nat
      /\ \A k \in 1 .. Len(s) : Piece(i)[1 + k] = s[k]
  BY <1>1, PieceCells, Bodies
<1>5. ASSUME NEW k \in 1 .. Len(s), offset + 1 + k <= Len(file) PROVE file[offset + 1 + k] = s[k]
  <2>1. 1 + k \in 1 .. Len(Piece(i)) /\ offset + (1 + k) = offset + 1 + k
    BY <1>1, <1>4
  <2>2. file[offset + (1 + k)] = Piece(i)[1 + k]
    BY <1>5, <2>1, NextHeader
  <2> QED BY <1>4, <2>1, <2>2
<1>6. ASSUME chunks[i].kind = "raw", Sparse!Available(m)
      PROVE  BytesFor(i) = [k \in 1 .. m |-> file[offset + 1 + k].value]
  <2>1. Len(s) = m /\ \A k \in 1 .. m : s[k].value = <<i, k>>
    BY <1>1, <1>6, Bodies
  <2> HIDE DEF m, s
  <2>2. ASSUME NEW k \in 1 .. m PROVE Sparse!ByteOf(i, k) = file[offset + 1 + k].value
    <3>1. offset + 1 + k <= Len(file)
      BY <1>1, <1>2, <1>6 DEF Sparse!Available
    <3>2. file[offset + 1 + k] = s[k]
      BY <1>5, <2>1, <3>1
    <3> QED BY <1>6, <2>1, <3>2 DEF Sparse!ByteOf
  <2> QED BY <1>3, <1>6, <2>2
<1>7. ASSUME chunks[i].kind = "fill", Sparse!Available(1)
      PROVE  BytesFor(i) = Sparse!Repeat(Sparse!Repeat(Sparse!Pattern(file[offset + 2].value), blockSize \div 4), chunks[i].blocks)
  <2>1. Len(s) = 1 /\ s[1].value = i
    BY <1>1, <1>7, Bodies
  <2>2. offset + 1 + 1 <= Len(file) /\ offset + 1 + 1 = offset + 2
    BY <1>1, <1>7 DEF Sparse!Available
  <2>3. file[offset + 2].value = i
    BY <1>5, <2>1, <2>2
  <2> DEFINE w == blockSize \div 4
  <2>4. w \in Nat /\ blockSize = 4 * w
    BY <1>2, Z3
  <2> HIDE DEF w
  <2>5. Sparse!Repeat(Sparse!Repeat(Sparse!Pattern(i), w), chunks[i].blocks) = [k \in 1 .. chunks[i].blocks * (4 * w) |-> <<i, ((k - 1) % 4) + 1>>]
    BY <1>2, <2>4, Filled
  <2>6. BytesFor(i) = [k \in 1 .. m |-> <<i, ((k - 1) % 4) + 1>>]
    BY <1>3, <1>7 DEF Sparse!ByteOf, Sparse!Word
  <2> QED BY <2>3, <2>4, <2>5, <2>6 DEF w
<1>8. ASSUME chunks[i].kind = "dont_care" PROVE BytesFor(i) = Sparse!Repeat(<<Sparse!Zero>>, m)
  <2>1. BytesFor(i) = [k \in 1 .. m |-> Sparse!Zero]
    BY <1>3, <1>8 DEF Sparse!ByteOf
  <2> QED BY <1>2, <2>1, Skipped0
<1>9. ASSUME chunks[i].kind = "crc32" PROVE BytesFor(i) = <<>>
  BY <1>3, <1>9
<1> QED BY <1>6, <1>7, <1>8, <1>9

\* The layout depends on the chunks and their size only.
LEMMA LayoutFixed ==
  ASSUME UNCHANGED <<chunks, blockSize>>
  PROVE  /\ Pieces' = Pieces /\ Contents' = Contents /\ Layout' = Layout /\ Filling' = Filling
         /\ ImageCells' = ImageCells /\ Typed' = Typed
<1>1. Pieces' = Pieces
  BY DEF Pieces, Piece, HeaderOf
<1>2. Contents' = Contents
  BY DEF Contents, BytesFor, Sparse!Size, Sparse!ByteOf
<1>3. Layout' = Layout
  BY <1>1 DEF Layout
<1>4. Filling' = Filling
  BY <1>2 DEF Filling
<1>5. ImageCells' = ImageCells /\ Typed' = Typed
  BY DEF ImageCells, Typed
<1> QED BY <1>1, <1>2, <1>3, <1>4, <1>5

\* SparseInv holds when the next chunk is read.
LEMMA ReadKeeps ==
  ASSUME SparseInv, Sparse!ReadChunk
  PROVE  SparseInv'
<1> DEFINE i == ChunksRead + 1
           c == Sparse!At(offset + 1)
           m == chunks[i].blocks * blockSize
           s == Sparse!Body(chunks[i], i, blockSize)
<1>1. /\ expansion = "chunks" /\ toGo > 0 /\ c.cell = "chunk"
      /\ \/ c.kind = "raw" /\ Sparse!Copy(c)
         \/ c.kind = "fill" /\ Sparse!Fill(c)
         \/ c.kind = "dont_care" /\ Sparse!Skip(c)
         \/ c.kind = "crc32" /\ Sparse!Checksum
      /\ toGo' = toGo - 1 /\ UNCHANGED <<chunks, blockSize, file, expansion>>
  BY DEF Sparse!ReadChunk
<1>2. Typed /\ toGo \in 0 .. Len(chunks) /\ Len(chunks) \in Nat /\ Cut
  BY <1>1 DEF SparseInv, Typed
<1>3. /\ i \in DOMAIN chunks /\ i - 1 = ChunksRead /\ offset \in Nat /\ Len(file) \in Nat
      /\ c = IF offset + 1 <= Len(file) THEN HeaderOf(i) ELSE [cell |-> "end"]
  BY <1>1, NextHeader
<1>4. offset + 1 <= Len(file) /\ c.kind = chunks[i].kind /\ c.blocks = chunks[i].blocks
  BY <1>1, <1>3 DEF HeaderOf
<1>5. m \in Nat /\ Len(s) \in Nat /\ Len(Piece(i)) = 1 + Len(s) /\ Len(Layout[i - 1]) \in Nat
      /\ Len(Layout[i]) = Len(Layout[i - 1]) + Len(Piece(i)) /\ offset = 1 + Len(Layout[i - 1])
      /\ Filling[i] = Filling[i - 1] \o BytesFor(i)
  <2>1. m \in Nat /\ s \in Seq(CellSet)
    BY <1>2, <1>3, Bodies
  <2>2. Len(Piece(i)) = 1 + Len(s)
    BY <1>2, <1>3, PieceCells
  <2>3. Len(Layout[i - 1]) \in Nat /\ Len(Layout[i]) = Len(Layout[i - 1]) + Len(Piece(i))
        /\ Filling[i] = Filling[i - 1] \o BytesFor(i)
    BY <1>2, <1>3, NextPiece
  <2>4. offset = 1 + Len(Layout[i - 1])
    BY <1>1, <1>3 DEF SparseInv
  <2> HIDE DEF m, s, i
  <2> QED BY <2>1, <2>2, <2>3, <2>4
<1>o. 1 + Len(Layout[i]) = offset + 1 + Len(s)
  <2> HIDE DEF s, i
  <2>1. \A u, v \in Nat : 1 + (u + (1 + v)) = 1 + u + 1 + v
    OBVIOUS
  <2>2. 1 + (Len(Layout[i - 1]) + (1 + Len(s))) = 1 + Len(Layout[i - 1]) + 1 + Len(s)
    BY <1>5, <2>1
  <2> QED BY <1>5, <2>2
<1>6. /\ chunks[i].kind = "raw" => Len(s) = m
      /\ chunks[i].kind \in {"fill", "crc32"} => Len(s) = 1
      /\ chunks[i].kind \in {"dont_care", "other"} => Len(s) = 0
  BY <1>2, <1>3, Bodies
<1>7. ChunksRead' = i
  BY <1>1, <1>2 DEF ChunksRead
<1>8. blockSize % 4 = 0 => image = Filling[i - 1]
  BY <1>1, <1>3 DEF SparseInv
<1>9. Filling[i - 1] \in Seq(ByteSet)
  BY <1>2, <1>3, Layouts DEF Typed
<1>d. DOMAIN chunks = 1 .. Len(chunks)
  BY <1>2 DEF Typed
<1>b. blockSize % 4 = 0 =>
         /\ chunks[i].kind = "raw" /\ Sparse!Available(m) =>
              BytesFor(i) = [k \in 1 .. m |-> file[offset + 1 + k].value]
         /\ chunks[i].kind = "fill" /\ Sparse!Available(1) =>
              BytesFor(i) = Sparse!Repeat(Sparse!Repeat(Sparse!Pattern(file[offset + 2].value), blockSize \div 4), chunks[i].blocks)
         /\ chunks[i].kind = "dont_care" => BytesFor(i) = Sparse!Repeat(<<Sparse!Zero>>, m)
         /\ chunks[i].kind = "crc32" => BytesFor(i) = <<>>
  BY <1>1, ChunkBytes
<1>10. /\ offset' = 1 + Len(Layout[i]) /\ offset' <= Len(file) /\ chunks[i].kind /= "other"
       /\ blockSize % 4 = 0 => image' = Filling[i]
  <2> HIDE DEF i, c, m, s
  <2>1. CASE c.kind = "raw" /\ Sparse!Copy(c)
    <3>1. /\ Sparse!Available(m) /\ offset' = offset + 1 + m
          /\ image' = image \o [k \in 1 .. m |-> file[offset + 1 + k].value]
      BY <1>4, <2>1 DEF Sparse!Copy, m
    <3>2. Len(s) = m /\ chunks[i].kind = "raw"
      BY <1>4, <1>6, <2>1
    <3>a. m \in Nat /\ Len(file) - offset > m
      BY <1>5, <3>1 DEF Sparse!Available
    <3>3. offset' <= Len(file)
      BY <1>3, <3>1, <3>a
    <3>b. offset' = offset + 1 + m
      BY <3>1
    <3>4. offset' = 1 + Len(Layout[i])
      BY <1>o, <3>2, <3>b
    <3> QED BY <1>5, <1>8, <1>b, <3>1, <3>2, <3>3, <3>4
  <2>2. CASE c.kind = "fill" /\ Sparse!Fill(c)
    <3>1. /\ Sparse!Available(1) /\ offset' = offset + 2
          /\ image' = image \o Sparse!Repeat(Sparse!Repeat(Sparse!Pattern(file[offset + 2].value), blockSize \div 4), chunks[i].blocks)
      BY <1>4, <2>2 DEF Sparse!Fill, Sparse!Word
    <3>2. Len(s) = 1 /\ chunks[i].kind = "fill"
      BY <1>4, <1>6, <2>2
    <3>3. offset' <= Len(file)
      BY <1>3, <3>1 DEF Sparse!Available
    <3>4. offset' = 1 + Len(Layout[i])
      BY <1>5, <3>1, <3>2
    <3> QED BY <1>5, <1>8, <1>b, <3>1, <3>2, <3>3, <3>4
  <2>3. CASE c.kind = "dont_care" /\ Sparse!Skip(c)
    <3>1. offset' = offset + 1 /\ image' = image \o Sparse!Repeat(<<Sparse!Zero>>, m)
      BY <1>4, <2>3 DEF Sparse!Skip, m
    <3>2. Len(s) = 0 /\ chunks[i].kind = "dont_care"
      BY <1>4, <1>6, <2>3
    <3>3. offset' <= Len(file)
      BY <1>4, <3>1
    <3>4. offset' = 1 + Len(Layout[i])
      BY <1>5, <3>1, <3>2
    <3> QED BY <1>5, <1>8, <1>b, <3>1, <3>2, <3>3, <3>4
  <2>4. CASE c.kind = "crc32" /\ Sparse!Checksum
    <3>1. Sparse!Available(1) /\ offset' = offset + 2 /\ image' = image
      BY <2>4 DEF Sparse!Checksum
    <3>2. Len(s) = 1 /\ chunks[i].kind = "crc32"
      BY <1>4, <1>6, <2>4
    <3>3. offset' <= Len(file)
      BY <1>3, <3>1 DEF Sparse!Available
    <3>4. offset' = 1 + Len(Layout[i])
      BY <1>5, <3>1, <3>2
    <3>5. Filling[i - 1] \o <<>> = Filling[i - 1]
      BY <1>9
    <3> QED BY <1>5, <1>8, <1>b, <3>1, <3>2, <3>3, <3>4, <3>5
  <2> QED BY <1>1, <2>1, <2>2, <2>3, <2>4
<1>11. \A j \in 1 .. i : chunks[j].kind /= "other"
  <2>1. \A j \in 1 .. ChunksRead : chunks[j].kind /= "other"
    BY <1>1 DEF SparseInv
  <2>2. ChunksRead \in Nat
    BY <1>2 DEF ChunksRead
  <2> QED BY <1>10, <2>1, <2>2
<1>12. toGo' \in 0 .. Len(chunks)
  BY <1>1, <1>2
<1> HIDE DEF i, c, m, s
<1>13. Cut' = Cut /\ Typed' = Typed /\ Layout' = Layout /\ Filling' = Filling
  BY <1>1, LayoutFixed DEF Cut
<1> QED BY <1>1, <1>2, <1>3, <1>7, <1>10, <1>11, <1>12, <1>13 DEF SparseInv

\* SparseInv holds when the image is found to be bad.
LEMMA BadKeeps ==
  ASSUME SparseInv, Sparse!BadChunk
  PROVE  SparseInv'
<1> DEFINE i == ChunksRead + 1
           c == Sparse!At(offset + 1)
           m == chunks[i].blocks * blockSize
           s == Sparse!Body(chunks[i], i, blockSize)
<1>1. /\ expansion = "chunks" /\ toGo > 0
      /\ c.cell /= "chunk" \/ (c.cell = "chunk" /\ (c.kind = "other" \/ Sparse!Short(c)))
      /\ expansion' = "error" /\ UNCHANGED <<chunks, blockSize, file, offset, toGo, image>>
  BY DEF Sparse!BadChunk
<1>2. Typed /\ Cut /\ Len(file) \in Nat
  BY <1>1 DEF SparseInv
<1>3. /\ i \in DOMAIN chunks /\ i - 1 = ChunksRead /\ offset \in Nat
      /\ c = IF offset + 1 <= Len(file) THEN HeaderOf(i) ELSE [cell |-> "end"]
  BY <1>1, NextHeader
<1>4. /\ m \in Nat /\ Len(s) \in Nat /\ Len(Layout[i - 1]) \in Nat
      /\ Len(Layout[i]) = Len(Layout[i - 1]) + (1 + Len(s)) /\ offset = 1 + Len(Layout[i - 1])
      /\ 1 + Len(Layout[i]) <= Len(ImageCells) /\ Len(ImageCells) \in Nat
  <2>1. m \in Nat /\ s \in Seq(CellSet)
    BY <1>2, <1>3, Bodies
  <2>2. Len(Piece(i)) = 1 + Len(s)
    BY <1>2, <1>3, PieceCells
  <2>3. Len(Layout[i - 1]) \in Nat /\ Len(Layout[i]) = Len(Layout[i - 1]) + Len(Piece(i))
        /\ 1 + Len(Layout[i]) <= Len(ImageCells) /\ Len(ImageCells) \in Nat
    BY <1>2, <1>3, NextPiece
  <2>4. offset = 1 + Len(Layout[i - 1])
    BY <1>1, <1>3 DEF SparseInv
  <2>5. Len(s) \in Nat
    BY <2>1
  <2>6. Len(Layout[i]) = Len(Layout[i - 1]) + (1 + Len(s))
    BY <2>2, <2>3
  <2>7. m \in Nat
    BY <2>1
  <2> HIDE DEF m, s, i
  <2> QED BY <2>3, <2>4, <2>5, <2>6, <2>7
<1>5. /\ chunks[i].kind = "raw" => Len(s) = m
      /\ chunks[i].kind \in {"fill", "crc32"} => Len(s) = 1
  BY <1>2, <1>3, Bodies
<1> HIDE DEF i, m, s
<1>6. ASSUME file = ImageCells PROVE chunks[i].kind = "other"
  <2> DEFINE l == Len(Layout[i - 1])
             n == Len(s)
             t == Len(file)
  <2>0. l \in Nat /\ n \in Nat /\ t \in Nat
    BY <1>2, <1>4
  <2>a. 1 + (l + (1 + n)) <= t /\ offset = 1 + l
    <3>1. 1 + Len(Layout[i]) <= t
      BY <1>4, <1>6
    <3>2. Len(Layout[i]) = l + (1 + n) /\ offset = 1 + l
      BY <1>4
    <3> HIDE DEF l, n, t
    <3> QED BY <3>1, <3>2
  <2> HIDE DEF l, n, t
  <2>b. offset + 1 + n <= t /\ t - offset > n /\ offset + 1 <= t
    BY <2>0, <2>a
  <2>1. offset + 1 + Len(s) <= Len(file)
    BY <2>b DEF n, t
  <2>m. m \in Nat /\ Len(s) \in Nat /\ Len(file) - offset > Len(s) /\ offset + 1 <= Len(file)
    BY <1>4, <2>b DEF n, t
  <2>2. c = HeaderOf(i)
    BY <1>3, <2>m
  <2>3. c.cell = "chunk" /\ c.kind = chunks[i].kind /\ c.blocks = chunks[i].blocks
    BY <2>2 DEF HeaderOf
  <2> HIDE DEF c
  <2>4. ~(c.kind = "raw" /\ ~Sparse!Available(c.blocks * blockSize))
    BY <1>5, <2>m, <2>3 DEF Sparse!Available, m
  <2>5. ~(c.kind \in {"fill", "crc32"} /\ ~Sparse!Available(1))
    BY <1>5, <2>m, <2>3 DEF Sparse!Available
  <2> QED BY <1>1, <2>3, <2>4, <2>5 DEF Sparse!Short, c
<1>7. Cut' = Cut /\ Typed' = Typed /\ Layout' = Layout /\ Filling' = Filling /\ ImageCells' = ImageCells
  BY <1>1, LayoutFixed DEF Cut
<1>8. ChunksRead' = ChunksRead
  BY <1>1 DEF ChunksRead
<1> QED BY <1>1, <1>3, <1>6, <1>7, <1>8 DEF SparseInv

\* SparseInv is inductive.
LEMMA SparseInvariance == Spec => []SparseInv
<1>1. Init => SparseInv
  <2> SUFFICES ASSUME Init PROVE SparseInv
    OBVIOUS
  <2>1. Sparse!Init
    BY DEF Init
  <2>2. /\ chunks = <<>> /\ blockSize = 0 /\ file = <<>> /\ offset = 0 /\ toGo = 0 /\ expansion = "none"
    BY <2>1 DEF Sparse!Init
  <2>3. Typed /\ Len(file) = 0 /\ Len(chunks) = 0
    BY <2>2 DEF Typed
  <2>4. Len(chunks) <= MaxChunks /\ Len(file) \in Nat
    BY <2>3, SparseConstants DEF Sparse!SparseAssumption
  <2> QED BY <2>2, <2>3, <2>4 DEF SparseInv
<1>2. SparseInv /\ [Next]_operationVars => SparseInv'
  <2> SUFFICES ASSUME SparseInv, [Next]_operationVars PROVE SparseInv'
    OBVIOUS
  <2>s. Sparse!Next \/ UNCHANGED sparseVars
    BY SparseSteps
  <2>1. CASE Sparse!Open
    <3>1. /\ expansion' = "opened" /\ UNCHANGED <<offset, toGo, image>> /\ expansion = "none"
          /\ \E cs \in Sparse!SeqOf([kind : Sparse!Kinds, blocks : Blocks], MaxChunks), bs \in BlockSizes :
               /\ chunks' = cs /\ blockSize' = bs
               /\ \/ \E n \in 0 .. Len(Sparse!Cells(cs, bs)) : file' = SubSeq(Sparse!Cells(cs, bs), 1, n)
                  \/ file' = <<[cell |-> "byte", value |-> Sparse!Zero]>>
                  \/ file' = <<Sparse!MagicOnly>>
      BY <2>1 DEF Sparse!Open
    <3>2. /\ chunks' \in Sparse!SeqOf(ChunkRecords, MaxChunks) /\ blockSize' \in Nat
          /\ \/ \E n \in 0 .. Len(ImageCells') : file' = SubSeq(ImageCells', 1, n)
             \/ file' = <<[cell |-> "byte", value |-> Sparse!Zero]>>
             \/ file' = <<Sparse!MagicOnly>>
      BY <3>1, SparseConstants DEF ChunkRecords, ImageCells, Sparse!SparseAssumption
    <3>3. PICK m \in 0 .. MaxChunks : chunks' \in [1 .. m -> ChunkRecords]
      BY <3>2 DEF Sparse!SeqOf
    <3>4. MaxChunks \in Nat
      BY SparseConstants DEF Sparse!SparseAssumption
    <3>5. Typed' /\ Len(chunks') <= MaxChunks
      BY <3>2, <3>3, <3>4 DEF Typed
    <3>6. Len(file') \in Nat
          /\ (Cut' \/ file' = <<[cell |-> "byte", value |-> Sparse!Zero]>> \/ file' = <<Sparse!MagicOnly>>)
      <4>1. CASE file' = <<[cell |-> "byte", value |-> Sparse!Zero]>>
        BY <4>1
      <4>3. CASE file' = <<Sparse!MagicOnly>>
        BY <4>3
      <4>2. ASSUME NEW n \in 0 .. Len(ImageCells'), file' = SubSeq(ImageCells', 1, n)
            PROVE  Len(file') \in Nat /\ Cut'
        <5> DEFINE U == CellSet \union {[cell |-> "image", chunks |-> Len(chunks)]}
                   W == U'
                   s == ImageCells'
        <5>1. (Typed => Len(ImageCells) \in Nat /\ ImageCells \in Seq(U))'
          BY ImageIsSequence, PTL
        <5>2. Len(s) \in Nat /\ s \in Seq(W) /\ n \in 0 .. Len(s) /\ file' = SubSeq(s, 1, n)
          BY <3>5, <4>2, <5>1
        <5>3. Cut' <=> Len(file') <= Len(s) /\ file' = SubSeq(s, 1, Len(file'))
          BY DEF Cut
        <5> HIDE DEF U, W, s
        <5>4. Len(SubSeq(s, 1, n)) = n /\ n \in Nat /\ n <= Len(s)
          <6>1. n \in Nat /\ n <= Len(s) /\ \A k \in 1 .. n : s[k] \in W
            BY <5>2
          <6>2. Len(SubSeq(s, 1, n)) = IF 1 <= n THEN n - 1 + 1 ELSE 0
            BY <5>2, <6>1, SubSeqProperties
          <6> QED BY <6>1, <6>2
        <5> QED BY <5>2, <5>3, <5>4
      <4> QED BY <3>2, <4>1, <4>2, <4>3
    <3>7. offset' = 0 /\ toGo' = 0
      BY <3>1 DEF SparseInv
    <3> QED BY <3>1, <3>5, <3>6, <3>7 DEF SparseInv
  <2>2. CASE Sparse!Plain
    <3>1. expansion = "opened" /\ expansion' = "raw" /\ UNCHANGED <<chunks, blockSize, file, offset, toGo, image>>
      BY <2>2 DEF Sparse!Plain
    <3>2. Typed' = Typed
      BY <3>1, LayoutFixed
    <3> QED BY <3>1, <3>2 DEF SparseInv
  <2>3. CASE Sparse!Header
    <3>1. /\ expansion = "opened" /\ Sparse!At(1).cell = "image" /\ expansion' = "chunks"
          /\ toGo' = Sparse!At(1).chunks /\ offset' = 1 /\ image' = <<>> /\ UNCHANGED <<chunks, blockSize, file>>
      BY <2>3 DEF Sparse!Header
    <3>2. Len(file) >= 1 /\ file[1].cell = "image" /\ toGo' = file[1].chunks
      BY <3>1 DEF Sparse!At, SparseInv
    <3>m. file /= <<Sparse!MagicOnly>>
      BY <3>2 DEF Sparse!MagicOnly
    <3>3. Typed /\ Cut /\ Len(file) \in Nat
      BY <3>1, <3>2, <3>m DEF SparseInv
    <3>4. file[1] = [cell |-> "image", chunks |-> Len(chunks)]
      BY <3>2, <3>3, CutCells, ImageLayout
    <3>5. toGo' = Len(chunks) /\ Len(chunks) \in Nat
      BY <3>2, <3>3, <3>4 DEF Typed
    <3>6. ChunksRead' = 0
      BY <3>1, <3>5 DEF ChunksRead
    <3>7. Layout[0] = <<>> /\ Filling[0] = <<>>
      BY <3>3, Layouts
    <3>8. Cut' = Cut /\ Typed' = Typed /\ Layout' = Layout /\ Filling' = Filling
      BY <3>1, LayoutFixed DEF Cut
    <3> QED BY <3>1, <3>2, <3>3, <3>5, <3>6, <3>7, <3>8 DEF SparseInv
  <2>4. CASE Sparse!Expanded
    <3>1. /\ expansion = "chunks" /\ toGo = 0 /\ expansion' = "expanded"
          /\ UNCHANGED <<chunks, blockSize, file, offset, toGo, image>>
      BY <2>4 DEF Sparse!Expanded
    <3>2. Cut' = Cut /\ Typed' = Typed /\ Layout' = Layout /\ Filling' = Filling /\ ChunksRead' = ChunksRead
      BY <3>1, LayoutFixed DEF Cut, ChunksRead
    <3> QED BY <3>1, <3>2 DEF SparseInv
  <2>6. CASE Sparse!BadHeader
    <3>1. /\ expansion = "opened" /\ Sparse!At(1) = Sparse!MagicOnly /\ expansion' = "error"
          /\ UNCHANGED <<chunks, blockSize, file, offset, toGo>>
      BY <2>6 DEF Sparse!BadHeader
    <3>2. Len(file) >= 1 /\ file[1] = Sparse!MagicOnly
      BY <3>1 DEF Sparse!At, Sparse!MagicOnly, SparseInv
    <3>3. Typed /\ Len(file) \in Nat /\ offset = 0 /\ toGo = 0 /\ Len(chunks) \in Nat
      BY <3>1 DEF SparseInv, Typed
    <3>4. file /= ImageCells
      <4>1. ImageCells[1] = [cell |-> "image", chunks |-> Len(chunks)]
        BY <3>3, ImageLayout
      <4> QED BY <3>2, <4>1 DEF Sparse!MagicOnly
    <3>5. Typed' = Typed /\ ImageCells' = ImageCells
      BY <3>1, LayoutFixed
    <3> QED BY <3>1, <3>3, <3>4, <3>5 DEF SparseInv
  <2>7. CASE Sparse!FileFails
    <3>1. /\ expansion \in {"opened", "chunks"} /\ expansion' = "failed"
          /\ UNCHANGED <<chunks, blockSize, file, offset, toGo>>
      BY <2>7 DEF Sparse!FileFails
    <3>2. Typed' = Typed
      BY <3>1, LayoutFixed
    <3>3. offset \in 0 .. Len(file) /\ toGo \in 0 .. Len(chunks)
      <4>1. CASE expansion = "opened"
        BY <4>1 DEF SparseInv, Typed
      <4>2. CASE expansion = "chunks"
        <5>1. /\ Typed /\ toGo \in 0 .. Len(chunks) /\ offset = 1 + Len(Layout[ChunksRead]) /\ offset <= Len(file)
              /\ ChunksRead \in 0 .. Len(chunks)
          BY <4>2 DEF SparseInv, Typed, ChunksRead
        <5>2. Len(Layout[ChunksRead]) \in Nat
          BY <5>1, Layouts DEF Grows
        <5> QED BY <5>1, <5>2 DEF SparseInv
      <4> QED BY <3>1, <4>1, <4>2
    <3> QED BY <3>1, <3>2, <3>3 DEF SparseInv
  <2>5. CASE UNCHANGED sparseVars
    <3>1. UNCHANGED <<chunks, blockSize, file, offset, toGo, image, expansion>>
      BY <2>5 DEF sparseVars
    <3>2. Cut' = Cut /\ Typed' = Typed /\ Layout' = Layout /\ Filling' = Filling /\ ChunksRead' = ChunksRead
          /\ ImageCells' = ImageCells
      BY <3>1, LayoutFixed DEF Cut, ChunksRead
    <3> QED BY <3>1, <3>2 DEF SparseInv
  <2> QED BY <2>s, <2>1, <2>2, <2>3, <2>4, <2>5, <2>6, <2>7, ReadKeeps, BadKeeps DEF Sparse!Next
<1> QED BY <1>1, <1>2, PTL DEF Spec

\* decompress_sparse succeeds only on a whole image of known chunks and refuses one only when an operation on a
\* file fails, and what it wrote is then what the
\* format says, byte for byte, when blocks are whole words: for images of any length.
THEOREM SparseIsExact == Spec => []SparseExact
<1>1. SparseInv => SparseExact
  <2> SUFFICES ASSUME SparseInv PROVE SparseExact
    OBVIOUS
  <2>1. ASSUME expansion = "expanded"
        PROVE  /\ Sparse!Whole /\ \A n \in DOMAIN chunks : chunks[n].kind /= "other"
               /\ blockSize % Sparse!Word = 0 => image = Sparse!Reference
    <3>1. Typed /\ Cut /\ toGo = 0 /\ Len(file) \in Nat
      BY <2>1 DEF SparseInv
    <3>2. Len(chunks) \in Nat /\ DOMAIN chunks = 1 .. Len(chunks) /\ ChunksRead = Len(chunks)
      BY <3>1 DEF Typed, ChunksRead
    <3>3. offset = 1 + Len(Layout[Len(chunks)]) /\ offset <= Len(file)
      BY <2>1, <3>2 DEF SparseInv
    <3>4. Len(file) = Len(ImageCells)
      <4>1. Len(ImageCells) = offset /\ Len(file) <= Len(ImageCells)
        BY <3>1, <3>3, ImageLayout DEF Cut
      <4>2. Len(ImageCells) \in Nat
        BY <3>1, ImageLayout
      <4> QED BY <3>1, <3>3, <4>1, <4>2
    <3>5. file = ImageCells
      <4> DEFINE U == CellSet \union {[cell |-> "image", chunks |-> Len(chunks)]}
                 s == ImageCells
      <4>1. s \in Seq(U)
        BY <3>1, ImageLayout
      <4>2. file = SubSeq(s, 1, Len(s))
        BY <3>1, <3>4 DEF Cut
      <4> HIDE DEF U, s
      <4>3. SubSeq(s, 1, Len(s)) = s
        BY <4>1
      <4> QED BY <4>2, <4>3 DEF s
    <3>6. Sparse!Reference = Filling[Len(chunks)]
      <4>1. Contents = [n \in DOMAIN chunks |-> [k \in 1 .. Sparse!Size(chunks[n]) |-> Sparse!ByteOf(n, k)]]
        BY DEF Contents, BytesFor
      <4> QED BY <3>1, <4>1, Layouts DEF Sparse!Reference
    <3>7. blockSize % 4 = 0 => image = Filling[Len(chunks)]
      BY <2>1, <3>2 DEF SparseInv
    <3>8. \A n \in DOMAIN chunks : chunks[n].kind /= "other"
      BY <2>1, <3>2 DEF SparseInv
    <3> QED BY <3>5, <3>6, <3>7, <3>8 DEF Sparse!Whole, ImageCells, Sparse!Word
  <2>2. ASSUME expansion = "error"
        PROVE  ~Sparse!Whole \/ \E n \in DOMAIN chunks : chunks[n].kind = "other"
    BY <2>2 DEF SparseInv, Sparse!Whole, ImageCells
  <2> QED BY <2>1, <2>2 DEF SparseExact, Sparse!SparseExact
<1> QED BY <1>1, SparseInvariance, PTL

------------------------------------------------------------------------------
(* What a programmer file tells of itself.                                  *)

\* The walk over the certificates of a segment of L cells: W are the places where a whole certificate starts,
\* and the next one to look at starts at to.
Walks(W, to, L) == W \in SUBSET (0 .. L - 1) /\ \A i \in W : to[i] \in i + 1 .. L
Follows(f, W, to, L) == f = [i \in 0 .. L |-> IF i \in W THEN {i} \union f[to[i]] ELSE {}]

\* The recursion of StartsFrom has a solution.
LEMMA WalkExists ==
  ASSUME NEW L \in Nat, NEW W, NEW to, Walks(W, to, L)
  PROVE  \E f : Follows(f, W, to, L)
<1> DEFINE Solved(m) ==
             \E g : /\ DOMAIN g = L - m .. L
                    /\ \A i \in L - m .. L : g[i] = IF i \in W THEN {i} \union g[to[i]] ELSE {}
           Bad == {m \in 0 .. L : ~Solved(m)}
<1>1. \A i \in W : i \in 0 .. L - 1 /\ to[i] \in i + 1 .. L
  BY DEF Walks
<1>2. Solved(0)
  <2> DEFINE g == [i \in L .. L |-> {}]
  <2>1. \A i \in L .. L : i \notin W
    BY <1>1
  <2>2. DOMAIN g = L - 0 .. L /\ \A i \in L - 0 .. L : g[i] = IF i \in W THEN {i} \union g[to[i]] ELSE {}
    <3>1. L - 0 .. L = L .. L
      OBVIOUS
    <3> QED BY <2>1, <3>1
  <2> QED BY <2>2
<1>3. ASSUME NEW m \in 1 .. L, Solved(m - 1) PROVE Solved(m)
  <2> DEFINE b == L - m
  <2>1. L - (m - 1) = b + 1 /\ b \in Nat /\ b + 1 \in Nat /\ b < L
    OBVIOUS
  <2>2. PICK g : DOMAIN g = b + 1 .. L /\ \A i \in b + 1 .. L : g[i] = IF i \in W THEN {i} \union g[to[i]] ELSE {}
    BY <1>3, <2>1
  <2> DEFINE h == [i \in b .. L |-> IF i = b THEN (IF b \in W THEN {b} \union g[to[b]] ELSE {}) ELSE g[i]]
  <2> HIDE DEF b
  <2>3. \A i \in b .. L : i = b \/ (i \in b + 1 .. L /\ i /= b)
    BY <2>1
  <2>4. \A i \in b + 1 .. L : i \in b .. L /\ i /= b
    BY <2>1
  <2>5. \A i \in W : i \in b .. L => to[i] \in b + 1 .. L
    BY <1>1, <2>1
  <2>6. \A i \in b + 1 .. L : h[i] = g[i]
    BY <2>4
  <2>7. DOMAIN h = b .. L /\ b \in b .. L /\ h[b] = IF b \in W THEN {b} \union g[to[b]] ELSE {}
    BY <2>1
  <2> HIDE DEF h
  <2>8. \A i \in b .. L : h[i] = IF i \in W THEN {i} \union h[to[i]] ELSE {}
    BY <2>2, <2>3, <2>5, <2>6, <2>7
  <2> QED BY <2>7, <2>8 DEF b
<1> HIDE DEF Solved
<1>4. Bad = {}
  <2> SUFFICES ASSUME Bad /= {} PROVE FALSE
    OBVIOUS
  <2>1. Bad \in SUBSET Nat
    OBVIOUS
  <2>2. PICK x \in Bad : \A y \in Bad : x <= y
    BY <2>1, Least
  <2>3. x \in 0 .. L /\ ~Solved(x)
    BY <2>2
  <2>4. x /= 0 /\ x \in 1 .. L /\ x - 1 \in 0 .. L /\ ~(x <= x - 1)
    BY <1>2, <2>3
  <2>5. Solved(x - 1)
    BY <2>2, <2>4
  <2> QED BY <1>3, <2>3, <2>4, <2>5
<1>5. PICK g : DOMAIN g = 0 .. L /\ \A i \in 0 .. L : g[i] = IF i \in W THEN {i} \union g[to[i]] ELSE {}
  <2>1. Solved(L) /\ L - L = 0
    BY <1>4
  <2> QED BY <2>1 DEF Solved
<1> DEFINE f == [i \in 0 .. L |-> g[i]]
<1>6. \A i \in 0 .. L : f[i] = IF i \in W THEN {i} \union f[to[i]] ELSE {}
  <2>1. \A i \in W : to[i] \in 0 .. L
    BY <1>1
  <2> QED BY <1>5, <2>1
<1>7. f = [i \in 0 .. L |-> IF i \in W THEN {i} \union f[to[i]] ELSE {}]
  BY <1>6
<1> HIDE DEF f
<1> QED BY <1>7 DEF Follows

\* Whatever is walked over, from anywhere, is a whole certificate; and of those that are closed under the walk,
\* when it begins there.
LEMMA WalkWithin ==
  ASSUME NEW L \in Nat, NEW W, NEW to, Walks(W, to, L), NEW f, Follows(f, W, to, L),
         NEW C, \A i \in C : to[i] \in C \/ to[i] \notin W, NEW i0 \in 0 .. L, i0 \in C \/ i0 \notin W
  PROVE  f[i0] \subseteq C /\ f[i0] \subseteq W
<1> DEFINE Bad == {m \in 0 .. L : (L - m \in C \/ L - m \notin W) /\ ~(f[L - m] \subseteq C /\ f[L - m] \subseteq W)}
<1> SUFFICES ASSUME ~(f[i0] \subseteq C /\ f[i0] \subseteq W) PROVE FALSE
  OBVIOUS
<1>1. \A i \in W : i \in 0 .. L /\ to[i] \in 0 .. L /\ to[i] > i
  BY DEF Walks
<1>2. \A i \in 0 .. L : f[i] = IF i \in W THEN {i} \union f[to[i]] ELSE {}
  BY DEF Follows
<1>3. Bad \in SUBSET Nat /\ L - i0 \in 0 .. L /\ L - (L - i0) = i0
  OBVIOUS
<1>4. L - i0 \in Bad
  BY <1>3
<1>5. PICK x \in Bad : \A y \in Bad : x <= y
  BY <1>3, <1>4, Least
<1>6. /\ x \in 0 .. L /\ L - x \in 0 .. L /\ (L - x \in C \/ L - x \notin W)
      /\ ~(f[L - x] \subseteq C /\ f[L - x] \subseteq W)
  BY <1>5
<1>7. L - x \in W /\ L - x \in C /\ f[L - x] = {L - x} \union f[to[L - x]]
  BY <1>2, <1>6
<1> DEFINE z == L - to[L - x]
<1>8. z \in 0 .. L /\ L - z = to[L - x] /\ ~(x <= z)
  BY <1>1, <1>6, <1>7
<1>9. L - z \in C \/ L - z \notin W
  BY <1>7, <1>8
<1>10. f[L - z] \subseteq C /\ f[L - z] \subseteq W
  BY <1>5, <1>8, <1>9
<1> QED BY <1>6, <1>7, <1>8, <1>10

\* A whole certificate right after one that is walked over is walked over too.
LEMMA WalkCloses ==
  ASSUME NEW L \in Nat, NEW W, NEW to, Walks(W, to, L), NEW f, Follows(f, W, to, L), NEW i0 \in 0 .. L,
         NEW j \in f[i0], to[j] \in W
  PROVE  to[j] \in f[i0]
<1> DEFINE Bad == {m \in 0 .. L : j \in f[L - m] /\ to[j] \notin f[L - m]}
<1> SUFFICES ASSUME to[j] \notin f[i0] PROVE FALSE
  OBVIOUS
<1>1. \A i \in W : i \in 0 .. L /\ to[i] \in 0 .. L /\ to[i] > i
  BY DEF Walks
<1>2. \A i \in 0 .. L : f[i] = IF i \in W THEN {i} \union f[to[i]] ELSE {}
  BY DEF Follows
<1>3. Bad \in SUBSET Nat /\ L - i0 \in 0 .. L /\ L - (L - i0) = i0
  OBVIOUS
<1>4. L - i0 \in Bad
  BY <1>3
<1>5. PICK x \in Bad : \A y \in Bad : x <= y
  BY <1>3, <1>4, Least
<1>6. x \in 0 .. L /\ L - x \in 0 .. L /\ j \in f[L - x] /\ to[j] \notin f[L - x]
  BY <1>5
<1>7. L - x \in W /\ f[L - x] = {L - x} \union f[to[L - x]]
  BY <1>2, <1>6
<1> DEFINE z == L - to[L - x]
<1>8. z \in 0 .. L /\ L - z = to[L - x] /\ ~(x <= z)
  BY <1>1, <1>6, <1>7
<1>9. ~(j \in f[L - z] /\ to[j] \notin f[L - z])
  BY <1>5, <1>8
<1>10. j \notin f[L - z]
  BY <1>6, <1>7, <1>8, <1>9
<1>11. j = L - x
  BY <1>6, <1>7, <1>8, <1>10
<1>12. f[to[j]] = {to[j]} \union f[to[to[j]]]
  BY <1>1, <1>2
<1> QED BY <1>6, <1>7, <1>11, <1>12

\* From the first certificate of a chain, and from every other, the walk comes to the last.
LEMMA WalkReaches ==
  ASSUME NEW L \in Nat, NEW W, NEW to, Walks(W, to, L), NEW f, Follows(f, W, to, L),
         NEW n \in Nat, NEW q \in [1 .. n -> W], \A k \in 1 .. n - 1 : to[q[k]] = q[k + 1], NEW k0 \in 1 .. n
  PROVE  q[n] \in f[q[k0]]
<1> DEFINE Bad == {m \in 0 .. n - 1 : q[n] \notin f[q[n - m]]}
<1> SUFFICES ASSUME q[n] \notin f[q[k0]] PROVE FALSE
  OBVIOUS
<1>1. \A i \in W : f[i] = {i} \union f[to[i]]
  BY DEF Walks, Follows
<1>2. Bad \in SUBSET Nat /\ n - k0 \in 0 .. n - 1 /\ n - (n - k0) = k0
  OBVIOUS
<1>3. n - k0 \in Bad
  BY <1>2
<1>4. PICK x \in Bad : \A y \in Bad : x <= y
  BY <1>2, <1>3, Least
<1>5. x \in 0 .. n - 1 /\ q[n] \notin f[q[n - x]] /\ n - x \in 1 .. n
  BY <1>4
<1>6. q[n - x] \in W /\ f[q[n - x]] = {q[n - x]} \union f[to[q[n - x]]]
  BY <1>1, <1>5
<1>7. x /= 0 /\ n - x \in 1 .. n - 1 /\ x - 1 \in 0 .. n - 1 /\ n - (x - 1) = (n - x) + 1 /\ ~(x <= x - 1)
  <2>1. x /= 0
    BY <1>5, <1>6
  <2> QED BY <1>5, <2>1
<1>8. q[n] \in f[q[(n - x) + 1]]
  BY <1>4, <1>7
<1>9. to[q[n - x]] = q[(n - x) + 1]
  BY <1>7
<1> QED BY <1>5, <1>6, <1>8, <1>9

\* The operations' constants are what EdlMbn assumes of its own.
LEMMA MbnConstants == Mbn!MbnAssumption
  BY OperationsAssumption DEF OperationsAssumption

IsSegment(s) == s \in Mbn!Segment /\ Len(s.meta) <= 1

\* n cells that say nothing.
LEMMA FillCells ==
  ASSUME NEW n \in Nat
  PROVE  Mbn!Fill(n) \in Seq(Mbn!Cell) /\ Len(Mbn!Fill(n)) = n
<1> DEFINE c == [claims |-> -1, version |-> FALSE, hw |-> 0]
<1>1. c \in Mbn!Cell
  BY DEF Mbn!Cell
<1> HIDE DEF c
<1>2. Mbn!Fill(n) = [i \in 1 .. n |-> c]
  BY DEF Mbn!Fill, c
<1> QED BY <1>1, <1>2

\* Two sequences in one.
LEMMA Joined ==
  ASSUME NEW T, NEW a \in Seq(T), NEW b \in Seq(T)
  PROVE  /\ a \o b \in Seq(T) /\ Len(a \o b) = Len(a) + Len(b) /\ Len(a) \in Nat /\ Len(b) \in Nat
         /\ \A k \in 1 .. Len(a) : (a \o b)[k] = a[k]
         /\ \A k \in 1 .. Len(b) : (a \o b)[Len(a) + k] = b[k]
  OBVIOUS

\* What comes before the certificates.
Prologue(s) == (Mbn!Fill(1 + s.code) \o s.meta) \o s.signature

\* Metadata have one place in it.
LEMMA PrologueCells ==
  ASSUME NEW s, IsSegment(s)
  PROVE  /\ Prologue(s) \in Seq(Mbn!Cell)
         /\ s.code \in Nat /\ s.cert \in Nat /\ s.pad \in Seq(Mbn!Cell) /\ s.chain \in Seq(Seq(Mbn!Cell) \ {<<>>})
         /\ Len(s.meta) \in 0 .. 1 /\ s.meta \in Seq(Mbn!Cell) /\ Len(s.signature) \in Nat
         /\ Len(Prologue(s)) = 1 + s.code + Len(s.meta) + Len(s.signature)
         /\ Len(s.meta) = 1 => Prologue(s)[2 + s.code] = s.meta[1] /\ 2 + s.code <= Len(Prologue(s))
<1> DEFINE a == Mbn!Fill(1 + s.code)
           b == s.meta
           c == s.signature
           x == 1 + s.code
<1>1. /\ s.code \in Nat /\ s.cert \in Nat /\ s.pad \in Seq(Mbn!Cell) /\ s.chain \in Seq(Seq(Mbn!Cell) \ {<<>>})
      /\ b \in Seq(Mbn!Cell) /\ c \in Seq(Mbn!Cell) /\ x \in Nat /\ Len(b) <= 1
  BY DEF IsSegment, Mbn!Segment
<1>2. a \in Seq(Mbn!Cell) /\ Len(a) = x
  BY <1>1, FillCells
<1>3. Prologue(s) = (a \o b) \o c
  BY DEF Prologue
<1> HIDE DEF a, b, c, x
<1>4. Len(b) \in 0 .. 1 /\ Len(c) \in Nat
  <2>0. b \in Seq(Mbn!Cell) /\ c \in Seq(Mbn!Cell) /\ Len(b) <= 1
    BY <1>1
  <2>1. Len(b) \in Nat
    BY <2>0
  <2>2. Len(c) \in Nat
    BY <2>0
  <2> DEFINE n == Len(b)
  <2>3. n \in Nat /\ n <= 1
    BY <2>0, <2>1
  <2> HIDE DEF n
  <2>4. n \in 0 .. 1
    BY <2>3
  <2> QED BY <2>2, <2>4 DEF n
<1>5. /\ a \o b \in Seq(Mbn!Cell) /\ Len(a \o b) = x + Len(b)
      /\ \A k \in 1 .. Len(b) : (a \o b)[x + k] = b[k]
  <2>1. b \in Seq(Mbn!Cell)
    BY <1>1
  <2>2. a \in Seq(Mbn!Cell)
    BY <1>2
  <2>3. /\ a \o b \in Seq(Mbn!Cell) /\ Len(a \o b) = Len(a) + Len(b)
        /\ \A k \in 1 .. Len(b) : (a \o b)[Len(a) + k] = b[k]
    BY <2>1, <2>2, Joined
  <2> QED BY <1>2, <2>3
<1> DEFINE d == a \o b
<1>6. d \in Seq(Mbn!Cell) /\ Len(d) = x + Len(b)
  BY <1>5
<1>7. d \o c \in Seq(Mbn!Cell) /\ Len(d \o c) = Len(d) + Len(c) /\ \A k \in 1 .. Len(d) : (d \o c)[k] = d[k]
  <2>1. c \in Seq(Mbn!Cell)
    BY <1>1
  <2>2. d \in Seq(Mbn!Cell)
    BY <1>6
  <2> HIDE DEF d
  <2> QED BY <2>1, <2>2, Joined
<1>8. ASSUME Len(b) = 1 PROVE (d \o c)[x + 1] = b[1] /\ x + 1 <= Len(d \o c)
  <2>0. 1 \in 1 .. Len(b)
    BY <1>8
  <2>1. d[x + 1] = b[1]
    BY <1>5, <2>0
  <2>2. x + 1 \in 1 .. Len(d) /\ Len(d) = x + 1
    BY <1>1, <1>6, <1>8
  <2> HIDE DEF d
  <2> QED BY <1>1, <1>4, <1>7, <2>1, <2>2
<1>9. x + 1 = 2 + s.code /\ Len(d \o c) = 1 + s.code + Len(b) + Len(c)
  <2>1. Len(d \o c) = x + Len(b) + Len(c)
    BY <1>6, <1>7
  <2> HIDE DEF d
  <2> QED BY <1>1, <1>4, <2>1 DEF x
<1> QED BY <1>1, <1>3, <1>4, <1>7, <1>8, <1>9 DEF b, c, d

\* The certificates of a segment, one after the other: where each starts, and the cells up to each.
ChainUpTo(s) ==
  CHOOSE g \in [0 .. Len(s.chain) -> Seq(Mbn!Cell)] :
    g[0] = <<>> /\ Grows(g, s.chain) /\ Mbn!FlattenSeq(s.chain) = g[Len(s.chain)]
StartOf(s, k) == Len(Prologue(s)) + Len(ChainUpTo(s)[k - 1])

\* They are there.
LEMMA ChainLayout ==
  ASSUME NEW s, IsSegment(s)
  PROVE  /\ Len(s.chain) \in Nat /\ DOMAIN s.chain = 1 .. Len(s.chain)
         /\ \A k \in 1 .. Len(s.chain) : s.chain[k] \in Seq(Mbn!Cell) /\ Len(s.chain[k]) \in Nat \ {0}
         /\ s.chain \in Seq(Seq(Mbn!Cell))
         /\ ChainUpTo(s) \in [0 .. Len(s.chain) -> Seq(Mbn!Cell)]
         /\ ChainUpTo(s)[0] = <<>> /\ Grows(ChainUpTo(s), s.chain)
         /\ Mbn!Chain(s) = ChainUpTo(s)[Len(s.chain)]
<1> DEFINE n == Len(s.chain)
           ss == s.chain
<1>1. ss \in Seq(Seq(Mbn!Cell) \ {<<>>})
  BY PrologueCells
<1>2. n \in Nat /\ DOMAIN ss = 1 .. n /\ \A k \in 1 .. n : ss[k] \in Seq(Mbn!Cell) /\ ss[k] /= <<>>
  BY <1>1
<1>3. \A t \in Seq(Mbn!Cell) : t /= <<>> => Len(t) \in Nat \ {0}
  OBVIOUS
<1>4. ss \in Seq(Seq(Mbn!Cell)) /\ \A k \in 1 .. n : Len(ss[k]) \in Nat \ {0}
  BY <1>1, <1>2, <1>3
<1>5. Mbn!FlattenSeq(ss) = Sparse!FlattenSeq(ss)
  BY DEF Mbn!FlattenSeq, Sparse!FlattenSeq
<1>6. \E g \in [0 .. n -> Seq(Mbn!Cell)] : g[0] = <<>> /\ Grows(g, ss) /\ Mbn!FlattenSeq(ss) = g[n]
  <2> HIDE DEF ss
  <2>1. \E g \in [0 .. Len(ss) -> Seq(Mbn!Cell)] : g[0] = <<>> /\ Grows(g, ss) /\ Sparse!FlattenSeq(ss) = g[Len(ss)]
    BY <1>4, Flattens
  <2> QED BY <1>5, <2>1 DEF ss
<1>7. /\ ChainUpTo(s) \in [0 .. n -> Seq(Mbn!Cell)]
      /\ ChainUpTo(s)[0] = <<>> /\ Grows(ChainUpTo(s), ss) /\ Mbn!FlattenSeq(ss) = ChainUpTo(s)[n]
  BY <1>6 DEF ChainUpTo
<1>8. Mbn!Chain(s) = Mbn!FlattenSeq(ss)
  BY DEF Mbn!Chain
<1> QED BY <1>2, <1>4, <1>7, <1>8

\* The chain grows by a certificate, which stays where it was put.
LEMMA NextCertificate ==
  ASSUME NEW s, IsSegment(s), NEW k \in 1 .. Len(s.chain)
  PROVE  LET g == ChainUpTo(s) IN
         /\ Len(g[k - 1]) \in Nat /\ Len(g[k]) \in Nat /\ Len(g[k]) = Len(g[k - 1]) + Len(s.chain[k])
         /\ Len(g[k]) <= Len(Mbn!Chain(s)) /\ Len(Mbn!Chain(s)) \in Nat
         /\ Mbn!Chain(s)[Len(g[k - 1]) + 1] = s.chain[k][1]
<1> DEFINE g == ChainUpTo(s)
           n == Len(s.chain)
           c == s.chain[k]
           a == g[k - 1]
           b == g[k]
           d == g[n]
<1>1. n \in Nat /\ k \in 1 .. n /\ k \in 0 .. n /\ k - 1 \in 0 .. n /\ n \in k .. n /\ n \in 0 .. n
  BY ChainLayout
<1>3. c \in Seq(Mbn!Cell) /\ Len(c) \in Nat \ {0}
  BY ChainLayout
<1>4. b = a \o c
  BY <1>1, ChainLayout DEF Grows
<1>5. a \in Seq(Mbn!Cell) /\ b \in Seq(Mbn!Cell) /\ d \in Seq(Mbn!Cell) /\ Mbn!Chain(s) = d
  BY <1>1, ChainLayout
<1>6. Front(b, d)
  BY <1>1, ChainLayout, StaysInFront
<1> HIDE DEF a, b, c, d, g, n
<1>7. Len(a) \in Nat /\ Len(b) = Len(a) + Len(c) /\ b[Len(a) + 1] = c[1]
  <2>1. a \in Seq(Mbn!Cell)
    BY <1>5
  <2>2. c \in Seq(Mbn!Cell)
    BY <1>3
  <2>3. /\ Len(a \o c) = Len(a) + Len(c) /\ Len(a) \in Nat
        /\ \A i \in 1 .. Len(c) : (a \o c)[Len(a) + i] = c[i]
    BY <2>1, <2>2, Joined
  <2>4. 1 \in 1 .. Len(c)
    BY <1>3
  <2> QED BY <1>4, <2>3, <2>4
<1>8. Len(b) \in Nat /\ Len(d) \in Nat /\ Len(b) <= Len(d)
  BY <1>5, <1>6 DEF Front
<1>9. d[Len(a) + 1] = c[1]
  <2>1. Len(a) + 1 \in 1 .. Len(b)
    BY <1>3, <1>7
  <2> QED BY <1>6, <1>7, <2>1 DEF Front
<1> QED BY <1>3, <1>5, <1>7, <1>8, <1>9 DEF a, b, c, d, g, n

\* The cells of a segment.
LEMMA SegmentCells ==
  ASSUME NEW s, IsSegment(s)
  PROVE  /\ Mbn!Cells(s) \in Seq(Mbn!Cell)
         /\ Len(Mbn!Chain(s)) \in Nat /\ Len(Prologue(s)) \in Nat /\ Len(s.pad) \in Nat
         /\ Len(Mbn!Cells(s)) = Len(Prologue(s)) + Len(Mbn!Chain(s)) + Len(s.pad)
         /\ \A i \in 1 .. Len(Prologue(s)) : Mbn!Cells(s)[i] = Prologue(s)[i]
         /\ \A i \in 1 .. Len(Mbn!Chain(s)) : Mbn!Cells(s)[Len(Prologue(s)) + i] = Mbn!Chain(s)[i]
<1> DEFINE a == Prologue(s)
           b == Mbn!Chain(s)
           c == s.pad
           x == Len(a)
           y == Len(b)
           z == Len(c)
<1>1. c \in Seq(Mbn!Cell) /\ a \in Seq(Mbn!Cell)
  BY PrologueCells
<1>2. b \in Seq(Mbn!Cell)
  <2>1. Len(s.chain) \in 0 .. Len(s.chain)
    BY ChainLayout
  <2> QED BY <2>1, ChainLayout
<1>4. Mbn!Cells(s) = (a \o b) \o c
  <2>1. Mbn!Cells(s) = Mbn!Fill(1 + s.code) \o s.meta \o s.signature \o b \o c
    BY DEF Mbn!Cells
  <2> QED BY <2>1 DEF Prologue
<1> HIDE DEF a, b, c, x, y, z
<1>a. a \in Seq(Mbn!Cell)
  BY <1>1
<1>5. /\ a \o b \in Seq(Mbn!Cell) /\ Len(a \o b) = x + y /\ x \in Nat /\ y \in Nat
      /\ \A k \in 1 .. x : (a \o b)[k] = a[k]
      /\ \A k \in 1 .. y : (a \o b)[x + k] = b[k]
  BY <1>a, <1>2, Joined DEF x, y
<1> DEFINE d == a \o b
<1>6. d \in Seq(Mbn!Cell)
  BY <1>5
<1>c. c \in Seq(Mbn!Cell)
  BY <1>1
<1> HIDE DEF d
<1>7. /\ d \o c \in Seq(Mbn!Cell) /\ Len(d \o c) = Len(d) + Len(c)
      /\ \A k \in 1 .. Len(d) : (d \o c)[k] = d[k]
  BY <1>6, <1>c, Joined
<1>8. Len(d) = x + y /\ Len(c) = z /\ z \in Nat
  BY <1>c, <1>5 DEF d, z
<1>9. \A k \in 1 .. x : (d \o c)[k] = a[k]
  <2>1. \A k \in 1 .. x : k \in 1 .. x + y
    BY <1>5
  <2> QED BY <1>5, <1>7, <1>8, <2>1 DEF d
<1>10. \A k \in 1 .. y : (d \o c)[x + k] = b[k]
  <2>1. \A k \in 1 .. y : x + k \in 1 .. x + y
    BY <1>5
  <2> QED BY <1>5, <1>7, <1>8, <2>1 DEF d
<1>12. Len(d \o c) = x + y + z
  BY <1>7, <1>8
<1>13. Mbn!Cells(s) = d \o c
  BY <1>4 DEF d
<1> QED BY <1>5, <1>7, <1>8, <1>9, <1>10, <1>12, <1>13 DEF a, b, c, x, y, z

\* Where the certificates of a chain start, and what is there.
LEMMA CertificateStarts ==
  ASSUME NEW s, IsSegment(s), NEW k \in 1 .. Len(s.chain)
  PROVE  /\ StartOf(s, k) \in Nat /\ StartOf(s, k) + Len(s.chain[k]) <= Len(Mbn!Cells(s))
         /\ Mbn!Cells(s)[StartOf(s, k) + 1] = s.chain[k][1]
         /\ StartOf(s, k) + Len(s.chain[k]) = Len(Prologue(s)) + Len(ChainUpTo(s)[k])
         /\ k + 1 \in 1 .. Len(s.chain) => StartOf(s, k + 1) = StartOf(s, k) + Len(s.chain[k])
<1> DEFINE x == Len(Prologue(s))
           y == Len(Mbn!Chain(s))
           u == Len(ChainUpTo(s)[k - 1])
           v == Len(ChainUpTo(s)[k])
           w == Len(s.chain[k])
           z == Len(s.pad)
<1>1. /\ x \in Nat /\ y \in Nat /\ z \in Nat /\ Len(Mbn!Cells(s)) = x + y + z
      /\ \A i \in 1 .. y : Mbn!Cells(s)[x + i] = Mbn!Chain(s)[i]
  BY SegmentCells
<1>2. u \in Nat /\ v \in Nat /\ v = u + w /\ v <= y /\ Mbn!Chain(s)[u + 1] = s.chain[k][1]
  BY NextCertificate
<1>3. w \in Nat \ {0}
  BY ChainLayout
<1>4. StartOf(s, k) = x + u
  BY DEF StartOf
<1>5. k + 1 \in 1 .. Len(s.chain) => StartOf(s, k + 1) = x + v
  <2>1. (k + 1) - 1 = k
    OBVIOUS
  <2> QED BY <2>1 DEF StartOf
<1> HIDE DEF x, y, u, v, w, z
<1>6. u + 1 \in 1 .. y /\ x + (u + 1) = (x + u) + 1
  BY <1>1, <1>2, <1>3
<1>7. Mbn!Cells(s)[(x + u) + 1] = s.chain[k][1]
  BY <1>1, <1>2, <1>6
<1>8. x + u \in Nat /\ (x + u) + w <= x + y + z /\ (x + u) + w = x + v
  BY <1>1, <1>2, <1>3
<1> QED BY <1>1, <1>4, <1>5, <1>7, <1>8 DEF x, v, w

\* What is parsed, whatever the program header that led to it.
Parsed == IsSegment(segment) /\ programmer.format \in {"elf", "mbn"} /\ cells = Mbn!Cells(segment)

\* A certificate claims a length, another cell none or none that can be read.
LEMMA ParsedCells ==
  ASSUME Parsed
  PROVE  /\ cells \in Seq(Mbn!Cell) /\ Len(cells) \in Nat
         /\ \A i \in 0 .. Len(cells) - 1 : Mbn!ClaimsAt(i) = cells[i + 1].claims /\ cells[i + 1].claims \in Nat \union {-1}
         /\ \A i \in Nat : ~(i < Len(cells)) => Mbn!ClaimsAt(i) = -1
<1>1. cells \in Seq(Mbn!Cell)
  BY SegmentCells DEF Parsed
<1>2. Len(cells) \in Nat
  BY <1>1
<1>3. ASSUME NEW i \in 0 .. Len(cells) - 1
      PROVE  Mbn!ClaimsAt(i) = cells[i + 1].claims /\ cells[i + 1].claims \in Nat \union {-1}
  <2>1. i < Len(cells) /\ i + 1 \in 1 .. Len(cells)
    BY <1>2
  <2>2. cells[i + 1] \in Mbn!Cell
    BY <1>1, <2>1
  <2> QED BY <2>1, <2>2 DEF Mbn!ClaimsAt, Mbn!Cell
<1>4. \A i \in Nat : ~(i < Len(cells)) => Mbn!ClaimsAt(i) = -1
  BY DEF Mbn!ClaimsAt
<1> QED BY <1>1, <1>2, <1>3, <1>4

\* The places where a whole certificate starts, and where it ends.
WholeAt == {i \in 0 .. Len(cells) - 1 : Mbn!IsWhole(i)}
EndOf == [i \in WholeAt |-> i + Mbn!ClaimsAt(i)]

\* StartsFrom is such a walk.
LEMMA StartsAreWalked ==
  ASSUME Parsed
  PROVE  /\ Walks(WholeAt, EndOf, Len(cells))
         /\ \A i \in Nat : Mbn!IsWhole(i) <=> i \in WholeAt
         /\ \E f : Follows(f, WholeAt, EndOf, Len(cells)) /\ \A i \in 0 .. Len(cells) : Mbn!StartsFrom(i) = f[i]
<1> DEFINE L == Len(cells)
           Solves(e) == e = [i \in 0 .. L |-> IF Mbn!IsWhole(i) THEN {i} \union e[i + Mbn!ClaimsAt(i)] ELSE {}]
           E == CHOOSE e : Solves(e)
<1>1. L \in Nat
  BY ParsedCells
<1>2. ASSUME NEW i \in WholeAt PROVE i \in 0 .. L - 1 /\ EndOf[i] = i + Mbn!ClaimsAt(i) /\ EndOf[i] \in i + 1 .. L
  <2>1. i \in 0 .. L - 1 /\ Mbn!ClaimsAt(i) > 0 /\ i + Mbn!ClaimsAt(i) <= L
    BY DEF WholeAt, Mbn!IsWhole
  <2>2. Mbn!ClaimsAt(i) \in Nat \union {-1}
    BY <2>1, ParsedCells
  <2>3. EndOf[i] = i + Mbn!ClaimsAt(i)
    BY DEF EndOf
  <2> DEFINE w == Mbn!ClaimsAt(i)
  <2>4. i \in 0 .. L - 1 /\ w > 0 /\ i + w <= L /\ w \in Nat \union {-1}
    BY <2>1, <2>2
  <2> HIDE DEF w, L
  <2>5. i + w \in i + 1 .. L
    BY <1>1, <2>4
  <2> QED BY <2>3, <2>4, <2>5 DEF w
<1>3. Walks(WholeAt, EndOf, L)
  <2>1. WholeAt \subseteq 0 .. L - 1
    BY DEF WholeAt
  <2> QED BY <1>2, <2>1 DEF Walks
<1>4. \A i \in Nat : Mbn!IsWhole(i) <=> i \in WholeAt
  <2> TAKE i \in Nat
  <2>1. CASE i \in 0 .. L - 1
    BY <2>1 DEF WholeAt
  <2>2. CASE i \notin 0 .. L - 1
    <3>1. ~(i < L)
      BY <1>1, <2>2
    <3>2. Mbn!ClaimsAt(i) = -1
      BY <3>1, ParsedCells
    <3> QED BY <2>2, <3>2 DEF Mbn!IsWhole, WholeAt
  <2> QED BY <2>1, <2>2
<1>5. \A e : Solves(e) <=> Follows(e, WholeAt, EndOf, L)
  <2> TAKE e
  <2>1. ASSUME NEW i \in 0 .. L
        PROVE  (IF Mbn!IsWhole(i) THEN {i} \union e[i + Mbn!ClaimsAt(i)] ELSE {})
               = (IF i \in WholeAt THEN {i} \union e[EndOf[i]] ELSE {})
    <3>1. Mbn!IsWhole(i) <=> i \in WholeAt
      BY <1>4
    <3>2. i \in WholeAt => EndOf[i] = i + Mbn!ClaimsAt(i)
      BY <1>2
    <3> QED BY <3>1, <3>2
  <2>2. [i \in 0 .. L |-> IF Mbn!IsWhole(i) THEN {i} \union e[i + Mbn!ClaimsAt(i)] ELSE {}]
        = [i \in 0 .. L |-> IF i \in WholeAt THEN {i} \union e[EndOf[i]] ELSE {}]
    BY <2>1
  <2> QED BY <2>2 DEF Follows
<1>6. \E e : Solves(e)
  BY <1>1, <1>3, <1>5, WalkExists
<1>7. Solves(E)
  BY <1>6
<1>8. \A i \in 0 .. L : Mbn!StartsFrom(i) = E[i]
  BY DEF Mbn!StartsFrom
<1> HIDE DEF E
<1>9. Follows(E, WholeAt, EndOf, L)
  BY <1>5, <1>7
<1> QED BY <1>3, <1>4, <1>8, <1>9

\* A set of numbers up to L that is not empty has a greatest element.
LEMMA Greatest ==
  ASSUME NEW L \in Nat, NEW T \in SUBSET (0 .. L), T /= {}
  PROVE  \E x \in T : \A y \in T : x >= y
<1> DEFINE U == {n \in 0 .. L : L - n \in T}
<1>1. \A y \in T : y \in 0 .. L /\ L - y \in 0 .. L /\ L - (L - y) = y
  OBVIOUS
<1>2. U \in SUBSET Nat /\ U /= {}
  <2>1. PICK y : y \in T
    OBVIOUS
  <2>2. L - y \in 0 .. L /\ L - (L - y) = y
    BY <1>1, <2>1
  <2>3. L - y \in U
    BY <2>1, <2>2
  <2>4. U \in SUBSET Nat
    OBVIOUS
  <2> QED BY <2>3, <2>4
<1>3. PICK n \in U : \A u \in U : n <= u
  BY <1>2, Least
<1>4. n \in 0 .. L /\ L - n \in T
  BY <1>3
<1>5. ASSUME NEW y \in T PROVE L - n >= y
  <2>1. n <= L - y
    BY <1>1, <1>3
  <2> QED BY <1>1, <1>4, <2>1
<1> QED BY <1>4, <1>5

\* The root that is found is a whole certificate of a root's size that no whole one follows.
IsRoot(k) ==
  /\ k \in Nat \X Nat /\ Mbn!IsWhole(k[1]) /\ k[2] = Mbn!ClaimsAt(k[1]) /\ k[2] \in RootMin .. RootMax
  /\ ~Mbn!IsWhole(k[1] + k[2]) /\ Mbn!ClaimsAt(k[1] + k[2]) /= 0
LEMMA RootIsThere ==
  ASSUME Parsed, NEW i \in 0 .. Len(cells), Mbn!RootAt(i) /= Mbn!NoKey
  PROVE  IsRoot(Mbn!RootAt(i))
<1> DEFINE T == Mbn!StartsFrom(i)
           z == Mbn!Max(T)
           w == Mbn!ClaimsAt(z)
<1>1. Len(cells) \in Nat
  BY ParsedCells
<1>2. PICK f : Follows(f, WholeAt, EndOf, Len(cells)) /\ \A j \in 0 .. Len(cells) : Mbn!StartsFrom(j) = f[j]
  BY StartsAreWalked
<1>w. Walks(WholeAt, EndOf, Len(cells))
  BY StartsAreWalked
<1>3. T = f[i]
  BY <1>2
<1>4. T \subseteq WholeAt
  <2>1. \A j \in WholeAt : EndOf[j] \in WholeAt \/ EndOf[j] \notin WholeAt
    OBVIOUS
  <2>2. i \in WholeAt \/ i \notin WholeAt
    OBVIOUS
  <2>3. f[i] \subseteq WholeAt
    BY <1>1, <1>2, <1>w, <2>1, <2>2, WalkWithin
  <2> QED BY <1>3, <2>3
<1>5. ASSUME NEW j \in T, EndOf[j] \in WholeAt PROVE EndOf[j] \in T
  <2>1. j \in f[i]
    BY <1>3
  <2>2. EndOf[j] \in f[i]
    BY <1>1, <1>2, <1>w, <1>5, <2>1, WalkCloses
  <2> QED BY <1>3, <2>2
<1>6. T /= {} /\ ~Mbn!Unreadable(T) /\ w \in RootMin .. RootMax /\ Mbn!RootAt(i) = <<z, w>>
  BY DEF Mbn!RootAt
<1> HIDE DEF T
<1>7. z \in T /\ \A y \in T : z >= y
  <2>1. T \in SUBSET (0 .. Len(cells))
    BY <1>1, <1>4 DEF WholeAt
  <2>2. \E x \in T : \A y \in T : x >= y
    BY <1>1, <1>6, <2>1, Greatest
  <2> QED BY <2>2 DEF Mbn!Max
<1>8. Mbn!ClaimsAt(z + w) /= 0
  BY <1>6 DEF Mbn!Unreadable
<1> HIDE DEF z
<1>9. z \in WholeAt /\ z \in 0 .. Len(cells) - 1 /\ Mbn!IsWhole(z)
  BY <1>4, <1>7 DEF WholeAt
<1>10. w \in Nat \ {0} /\ EndOf[z] = z + w /\ z + w \in Nat
  <2>1. w > 0 /\ w \in Nat \union {-1}
    BY <1>9, ParsedCells DEF Mbn!IsWhole
  <2>2. EndOf[z] = z + w
    BY <1>9 DEF EndOf
  <2> HIDE DEF w
  <2> QED BY <1>1, <1>9, <2>1, <2>2
<1>11. ~Mbn!IsWhole(z + w)
  <2> SUFFICES ASSUME Mbn!IsWhole(z + w) PROVE FALSE
    OBVIOUS
  <2>1. z + w \in WholeAt
    BY <1>10, StartsAreWalked
  <2>2. EndOf[z] \in T
    BY <1>5, <1>7, <1>10, <2>1
  <2>3. z + w <= z
    BY <1>7, <1>10, <2>2
  <2> HIDE DEF w
  <2> QED BY <1>9, <1>10, <2>3
<1>12. z \in Nat /\ w \in Nat
  BY <1>1, <1>9, <1>10
<1> HIDE DEF w
<1> DEFINE k == Mbn!RootAt(i)
<1>13. k = <<z, w>>
  BY <1>6
<1> HIDE DEF k
<1>14. k \in Nat \X Nat /\ k[1] = z /\ k[2] = w
  BY <1>12, <1>13
<1>15. w = Mbn!ClaimsAt(z)
  BY DEF w
<1> QED BY <1>6, <1>8, <1>9, <1>11, <1>14, <1>15 DEF IsRoot, k

\* So is the key.
LEMMA KeyIsThere ==
  ASSUME Parsed, Mbn!Key /= Mbn!NoKey
  PROVE  IsRoot(Mbn!Key)
<1> DEFINE L == Len(cells)
           c == segment
<1>1. L \in Nat /\ c.cert \in Nat /\ c.code \in Nat
  BY ParsedCells, PrologueCells DEF Parsed
<1>2. CASE c.cert > 0 /\ Mbn!CertsFit
  <2>1. c.cert <= L
    <3>1. c.cert < L \/ c.cert <= L
      BY <1>2 DEF Mbn!CertsFit
    <3> HIDE DEF c, L
    <3> QED BY <1>1, <3>1
  <2>2. L - c.cert \in 0 .. L
    BY <1>1, <2>1
  <2>3. Mbn!Key = Mbn!RootAt(L - c.cert)
    BY <1>2 DEF Mbn!Key
  <2> QED BY <2>2, <2>3, RootIsThere
<1>3. CASE ~(c.cert > 0 /\ Mbn!CertsFit)
  <2> DEFINE from == Mbn!AtMost(1 + c.code, L)
             good == {i \in from .. L - 1 : Mbn!RootAt(i) /= Mbn!NoKey}
             x == Mbn!Min(good)
  <2>1. Mbn!Key = Mbn!Scan(from)
    BY <1>3 DEF Mbn!Key
  <2>2. from \in 0 .. L
    <3> HIDE DEF c, L
    <3> QED BY <1>1 DEF Mbn!AtMost
  <2> HIDE DEF from
  <2>3. good /= {} /\ Mbn!Key = Mbn!RootAt(x)
    BY <2>1 DEF Mbn!Scan
  <2>4. good \in SUBSET Nat
    BY <1>1, <2>2
  <2> HIDE DEF good
  <2>5. \E i \in good : \A j \in good : i =< j
    BY <2>3, <2>4, Least
  <2>6. x \in good
    BY <2>5 DEF Mbn!Min
  <2> HIDE DEF x
  <2>7. x \in 0 .. L
    <3>1. x \in from .. L - 1
      BY <2>6 DEF good
    <3> HIDE DEF L
    <3> QED BY <1>1, <2>2, <3>1
  <2> QED BY <2>3, <2>7, RootIsThere
<1> QED BY <1>2, <1>3

\* Of a file in order the key is the last certificate of the chain.
LEMMA OrderlyKey ==
  ASSUME Parsed, Mbn!Orderly, Mbn!Key /= Mbn!NoKey
  PROVE  Mbn!Key = <<Len(cells) - Mbn!RootSize, Mbn!RootSize>>
<1> DEFINE s == segment
           L == Len(cells)
           n == Len(s.chain)
           x == Len(Prologue(s))
           y == Len(Mbn!Chain(s))
<1>0. IsSegment(s) /\ cells = Mbn!Cells(s)
  BY DEF Parsed
<1>1. n \in Nat /\ n >= 1 /\ DOMAIN s.chain = 1 .. n
  <2>1. n \in Nat /\ DOMAIN s.chain = 1 .. n /\ s.chain \in Seq(Seq(Mbn!Cell)) /\ s.chain /= <<>>
    BY <1>0, ChainLayout DEF Mbn!Orderly
  <2>2. n /= 0
    BY <2>1
  <2> HIDE DEF n
  <2> QED BY <2>1, <2>2
<1>2. s.pad = <<>> /\ s.cert = y /\ \A k \in 1 .. n : s.chain[k][1].claims = Len(s.chain[k])
  BY <1>1 DEF Mbn!Orderly
<1>3. x \in Nat /\ y \in Nat /\ L = x + y
  <2>1. x \in Nat /\ y \in Nat /\ L = x + y + 0
    BY <1>0, <1>2, SegmentCells
  <2> HIDE DEF x, y, L
  <2> QED BY <2>1
<1>4. x >= 1
  <2> DEFINE w == Len(s.meta)
             v == Len(s.signature)
  <2>1. x = 1 + s.code + w + v /\ s.code \in Nat /\ v \in Nat /\ w \in 0 .. 1
    BY <1>0, PrologueCells
  <2> HIDE DEF w, v, x
  <2> QED BY <2>1
<1>5. StartOf(s, 1) = x
  <2>1. ChainUpTo(s)[1 - 1] = <<>>
    BY <1>0, ChainLayout
  <2>2. StartOf(s, 1) = x + 0
    BY <2>1 DEF StartOf
  <2> HIDE DEF x
  <2> QED BY <1>3, <2>2
<1>6. \A k \in 1 .. n : /\ StartOf(s, k) \in Nat /\ Len(s.chain[k]) \in Nat \ {0} /\ StartOf(s, k) + Len(s.chain[k]) <= L
                        /\ cells[StartOf(s, k) + 1] = s.chain[k][1]
  BY <1>0, ChainLayout, CertificateStarts
<1>7. \A k \in 1 .. n - 1 : k \in 1 .. n /\ StartOf(s, k + 1) = StartOf(s, k) + Len(s.chain[k])
  <2> TAKE k \in 1 .. n - 1
  <2>1. k \in 1 .. n /\ k + 1 \in 1 .. n
    BY <1>1
  <2> QED BY <1>0, <2>1, CertificateStarts
<1>e. StartOf(s, n) + Len(s.chain[n]) = L
  <2>1. n \in 1 .. n
    BY <1>1
  <2>2. StartOf(s, n) + Len(s.chain[n]) = x + Len(ChainUpTo(s)[n])
    BY <1>0, <2>1, CertificateStarts
  <2>3. Len(ChainUpTo(s)[n]) = y
    BY <1>0, ChainLayout
  <2> QED BY <1>3, <2>2, <2>3
<1>8. y >= 1
  <2>1. 1 \in 1 .. n
    BY <1>1
  <2> DEFINE w == Len(s.chain[1])
  <2>2. x + w <= L /\ w \in Nat \ {0}
    BY <1>5, <1>6, <2>1
  <2> HIDE DEF w, x, y, L
  <2> QED BY <1>3, <2>2
<1>9. Mbn!Key = Mbn!RootAt(x)
  <2>2. s.cert > 0 /\ s.cert < L /\ s.cert <= L /\ L - s.cert = x
    <3> HIDE DEF x, y, L
    <3> QED BY <1>2, <1>3, <1>4, <1>8
  <2>3. Mbn!CertsFit
    BY <2>2 DEF Mbn!CertsFit
  <2>4. Mbn!Key = Mbn!RootAt(L - s.cert)
    BY <2>2, <2>3 DEF Mbn!Key
  <2> QED BY <2>2, <2>4
<1> DEFINE q == [k \in 1 .. n |-> StartOf(s, k)]
           Q == {q[k] : k \in 1 .. n}
           T == Mbn!StartsFrom(x)
<1> HIDE DEF L, n, x, y
<1>10. ASSUME NEW k \in 1 .. n
       PROVE  /\ StartOf(s, k) \in WholeAt /\ EndOf[StartOf(s, k)] = StartOf(s, k) + Len(s.chain[k])
              /\ Mbn!ClaimsAt(StartOf(s, k)) = Len(s.chain[k])
  <2> DEFINE u == StartOf(s, k)
             w == Len(s.chain[k])
  <2>1. u \in Nat /\ w \in Nat \ {0} /\ u + w <= L /\ cells[u + 1].claims = w
    BY <1>2, <1>6
  <2>2. u \in 0 .. L - 1
    <3> HIDE DEF u, w
    <3> QED BY <1>3, <2>1
  <2>3. Mbn!ClaimsAt(u) = w
    BY <2>1, <2>2, ParsedCells DEF L
  <2> HIDE DEF u, w
  <2>4. Mbn!IsWhole(u)
    <3>1. w > 0
      BY <2>1
    <3> QED BY <2>1, <2>3, <3>1 DEF Mbn!IsWhole, L
  <2>5. u \in WholeAt
    BY <2>2, <2>4 DEF WholeAt, L
  <2>6. EndOf[u] = u + w
    BY <2>3, <2>5 DEF EndOf
  <2> QED BY <2>3, <2>5, <2>6 DEF u, w
<1>11. StartOf(s, n) \in T /\ T \subseteq Q
  <2>1. PICK f : Follows(f, WholeAt, EndOf, L) /\ \A j \in 0 .. L : Mbn!StartsFrom(j) = f[j]
    BY StartsAreWalked DEF L
  <2>2. Walks(WholeAt, EndOf, L)
    BY StartsAreWalked DEF L
  <2>3. L \in Nat /\ x \in 0 .. L
    BY <1>3
  <2>4. q \in [1 .. n -> WholeAt]
    BY <1>10
  <2>5. \A k \in 1 .. n - 1 : EndOf[q[k]] = q[k + 1]
    <3> TAKE k \in 1 .. n - 1
    <3>1. k \in 1 .. n /\ k + 1 \in 1 .. n
      BY <1>1
    <3>2. q[k] = StartOf(s, k) /\ q[k + 1] = StartOf(s, k + 1)
      BY <3>1
    <3> QED BY <1>7, <1>10, <3>1, <3>2
  <2>6. 1 \in 1 .. n /\ n \in 1 .. n
    BY <1>1
  <2>7. q[1] = x /\ q[n] = StartOf(s, n)
    BY <1>5, <2>6
  <2>8. EndOf[q[n]] \notin WholeAt
    <3>1. EndOf[q[n]] = L
      BY <1>10, <1>e, <2>6, <2>7
    <3>2. L \notin 0 .. L - 1
      BY <1>3
    <3> QED BY <3>1, <3>2 DEF WholeAt, L
  <2>9. \A j \in Q : EndOf[j] \in Q \/ EndOf[j] \notin WholeAt
    <3> TAKE j \in Q
    <3>1. PICK k \in 1 .. n : j = q[k]
      OBVIOUS
    <3> HIDE DEF q
    <3>2. CASE k = n
      BY <2>8, <3>1, <3>2
    <3>3. CASE k /= n
      <4>1. k \in 1 .. n - 1 /\ k + 1 \in 1 .. n
        BY <1>1, <3>3
      <4>2. EndOf[j] = q[k + 1]
        BY <2>5, <3>1, <4>1
      <4> QED BY <4>1, <4>2
    <3> QED BY <3>2, <3>3
  <2>10. x \in Q
    <3> HIDE DEF q
    <3> QED BY <2>6, <2>7
  <2> HIDE DEF q, Q
  <2>11. \A k \in 1 .. n : q[n] \in f[q[k]]
    <3>1. Follows(f, WholeAt, EndOf, L) /\ L \in Nat /\ n \in Nat
      BY <1>1, <2>1, <2>3
    <3> QED BY <2>2, <2>4, <2>5, <3>1, WalkReaches
  <2>12. f[x] \subseteq Q
    <3>1. x \in Q \/ x \notin WholeAt
      BY <2>10
    <3> QED BY <2>1, <2>2, <2>3, <2>9, <3>1, WalkWithin
  <2>13. T = f[x]
    BY <2>1, <2>3
  <2> QED BY <2>6, <2>7, <2>11, <2>12, <2>13
<1>12. \A k \in 1 .. n : StartOf(s, k) <= StartOf(s, n)
  <2> TAKE k \in 1 .. n
  <2> DEFINE u == Len(ChainUpTo(s)[k - 1])
             v == Len(ChainUpTo(s)[n - 1])
  <2>1. k - 1 \in 0 .. n /\ n - 1 \in k - 1 .. n /\ n \in 1 .. n
    BY <1>1
  <2>2. Front(ChainUpTo(s)[k - 1], ChainUpTo(s)[n - 1])
    <3>1. s.chain \in Seq(Seq(Mbn!Cell)) /\ Grows(ChainUpTo(s), s.chain) /\ ChainUpTo(s) \in [0 .. Len(s.chain) -> Seq(Mbn!Cell)]
      BY <1>0, ChainLayout
    <3>2. k - 1 \in 0 .. Len(s.chain) /\ n - 1 \in k - 1 .. Len(s.chain)
      BY <2>1 DEF n
    <3> QED BY <3>1, <3>2, StaysInFront
  <2>3. u <= v /\ u \in Nat /\ v \in Nat
    <3>1. u <= v
      BY <2>2 DEF Front
    <3>2. u \in Nat /\ v \in Nat
      BY <1>0, <2>1, NextCertificate DEF n
    <3> QED BY <3>1, <3>2
  <2>4. StartOf(s, k) = x + u /\ StartOf(s, n) = x + v
    BY DEF StartOf, x
  <2> HIDE DEF u, v
  <2> QED BY <1>3, <2>3, <2>4
<1>13. \A j \in T : j \in Nat /\ j <= StartOf(s, n)
  <2> TAKE j \in T
  <2> HIDE DEF T
  <2>1. PICK k \in 1 .. n : j = q[k]
    BY <1>11
  <2>2. j = StartOf(s, k)
    BY <2>1
  <2> QED BY <1>6, <1>12, <2>2 DEF n
<1>14. Mbn!Max(T) = StartOf(s, n)
  <2> DEFINE z == Mbn!Max(T)
             u == StartOf(s, n)
  <2>1. u \in T /\ \A j \in T : j \in Nat /\ j <= u
    BY <1>11, <1>13
  <2> HIDE DEF u, T
  <2>2. z \in T /\ \A j \in T : j <= z
    <3>1. \E m \in T : \A j \in T : j <= m
      BY <2>1
    <3> QED BY <3>1 DEF Mbn!Max
  <2> HIDE DEF z
  <2>3. z <= u /\ u <= z /\ z \in Nat /\ u \in Nat
    BY <2>1, <2>2
  <2>4. z = u
    BY <2>3
  <2> QED BY <2>4 DEF z, u
<1>15. Mbn!RootAt(x) \in {Mbn!NoKey, <<Mbn!Max(T), Mbn!ClaimsAt(Mbn!Max(T))>>}
  BY DEF Mbn!RootAt, T
<1> HIDE DEF T, q, Q
<1>16. Mbn!RootAt(x) = <<StartOf(s, n), Len(s.chain[n])>>
  <2>1. n \in 1 .. n
    BY <1>1
  <2>2. Mbn!ClaimsAt(StartOf(s, n)) = Len(s.chain[n])
    BY <1>10, <2>1
  <2> QED BY <1>9, <1>14, <1>15, <2>2
<1>17. StartOf(s, n) = L - Len(s.chain[n])
  <2>1. n \in 1 .. n
    BY <1>1
  <2> DEFINE u == StartOf(s, n)
             w == Len(s.chain[n])
  <2>2. u \in Nat /\ w \in Nat /\ u + w = L
    BY <1>6, <1>e, <2>1 DEF n
  <2> HIDE DEF u, w
  <2>3. u = L - w
    BY <1>3, <2>2
  <2> QED BY <2>3 DEF u, w
<1> QED BY <1>9, <1>16, <1>17 DEF L, n, Mbn!RootSize

\* Of a file in order, good metadata are found where they belong.
LEMMA MetadataOf ==
  ASSUME Parsed, Mbn!Orderly, Len(segment.meta) = 1, Mbn!Good(segment.meta[1])
  PROVE  Mbn!MetadataFits /\ Mbn!MetadataAt(2 + segment.code) = {segment.meta[1]}
<1> DEFINE s == segment
           i == 2 + s.code
           x == Len(Prologue(s))
           y == Len(Mbn!Chain(s))
           v == Len(s.signature)
           L == Len(cells)
<1>1. IsSegment(s) /\ cells = Mbn!Cells(s) /\ s.pad = <<>> /\ s.cert = y
  BY DEF Parsed, Mbn!Orderly
<1>2. /\ s.code \in Nat /\ v \in Nat /\ x = 1 + s.code + 1 + v /\ i <= x /\ Prologue(s)[i] = s.meta[1]
  BY <1>1, PrologueCells
<1>3. y \in Nat /\ x \in Nat /\ L = x + y + 0 /\ \A k \in 1 .. x : cells[k] = Prologue(s)[k]
  BY <1>1, SegmentCells
<1> HIDE DEF x, y, v, L
<1>4. i \in 1 .. x /\ i \in 1 .. L /\ L - (1 + s.code + v + s.cert) >= 1
  BY <1>1, <1>2, <1>3
<1>5. Mbn!MetadataFits
  BY <1>4 DEF Mbn!MetadataFits, v, L
<1>6. i \in DOMAIN cells /\ cells[i] = s.meta[1]
  <2>1. cells \in Seq(Mbn!Cell)
    BY ParsedCells
  <2>2. i \in DOMAIN cells
    BY <1>4, <2>1 DEF L
  <2>3. cells[i] = Prologue(s)[i]
    BY <1>3, <1>4
  <2> QED BY <1>2, <2>2, <2>3
<1>7. Mbn!MetadataAt(i) = {s.meta[1]}
  BY <1>6 DEF Mbn!MetadataAt, Mbn!Good
<1> QED BY <1>5, <1>7

\* Of an ELF file in order, what is found is in its metadata.
LEMMA MetadataAreThere ==
  ASSUME Parsed, Mbn!Orderly, programmer.format = "elf", Mbn!MetadataFits, NEW c \in Mbn!MetadataAt(2 + segment.code)
  PROVE  Len(segment.meta) = 1 /\ segment.meta[1] = c /\ Mbn!Good(c)
<1> DEFINE s == segment
           i == 2 + s.code
           x == Len(Prologue(s))
           y == Len(Mbn!Chain(s))
           v == Len(s.signature)
           w == Len(s.meta)
           L == Len(cells)
<1>1. IsSegment(s) /\ cells = Mbn!Cells(s) /\ s.pad = <<>> /\ s.cert = y
  BY DEF Parsed, Mbn!Orderly
<1>2. /\ s.code \in Nat /\ v \in Nat /\ w \in 0 .. 1 /\ x = 1 + s.code + w + v
      /\ w = 1 => i <= x /\ Prologue(s)[i] = s.meta[1]
  BY <1>1, PrologueCells
<1>3. y \in Nat /\ x \in Nat /\ L = x + y + 0 /\ \A k \in 1 .. x : cells[k] = Prologue(s)[k]
  BY <1>1, SegmentCells
<1>4. L - (1 + s.code + v + s.cert) >= 1
  BY DEF Mbn!MetadataFits
<1>5. c = cells[i] /\ Mbn!Good(c)
  BY DEF Mbn!MetadataAt, Mbn!Good
<1> HIDE DEF x, y, v, w, L
<1>6. w = 1
  BY <1>1, <1>2, <1>3, <1>4
<1>7. i \in 1 .. x
  BY <1>2, <1>6
<1> QED BY <1>2, <1>3, <1>5, <1>6, <1>7 DEF w

\* A step of the operations is a step of the parser or leaves it alone.
LEMMA MbnSteps == [Next]_operationVars => Mbn!Next \/ UNCHANGED mbnVars
  BY DEF Next, Only, operationVars

\* The HWID that a file tells itself: of its metadata, if they are where they should be and good.
OwnHws ==
  IF Mbn!MetadataFits /\ Mbn!MetadataAt(2 + segment.code) /= {}
    THEN {c.hw : c \in Mbn!MetadataAt(2 + segment.code)} ELSE {Mbn!NoHw}
Chips == SUBSET ({"msm", "soc"} \X Nat)
IdentityFields == [pk : Nat \X Nat, hw : Nat, chip : Chips, fromName : BOOLEAN]
MbnInv ==
  /\ parsing \in {"none", "opened", "segment", "key", "meta", "known", "unknown"}
  /\ programmer.format \in {"elf", "mbn", "other"} /\ identity \in IdentityFields
  /\ name \in SUBSET Nat
  /\ parsing \in {"none", "opened", "segment"} => identity = Mbn!Unparsed
  /\ parsing = "opened" => IsSegment(segment) /\ programmer.format \in {"elf", "mbn"}
  /\ parsing \in {"segment", "key", "meta", "known"} => Parsed
  /\ parsing \in {"key", "meta", "known"} => Mbn!Key /= Mbn!NoKey /\ identity.pk = Mbn!Key
  /\ parsing = "key" => identity.hw = Mbn!NoHw /\ ~identity.fromName /\ identity.chip = {}
  /\ parsing \in {"meta", "known"} =>
       /\ identity.chip = Mbn!ResolveChipset(identity.hw)
       /\ ~identity.fromName => identity.hw \in OwnHws
       /\ identity.fromName => Mbn!NoHw \in OwnHws /\ \E n \in name : identity.hw = Mbn!NameId(n)
  /\ parsing = "meta" => ~identity.fromName

\* What is found depends on the file and its cells only.
LEMMA MbnFixed ==
  ASSUME UNCHANGED <<programmer, segment, cells>>
  PROVE  Parsed' = Parsed /\ Mbn!Key' = Mbn!Key /\ OwnHws' = OwnHws
<1>3. Parsed' = Parsed
  BY DEF Parsed
<1>c. \A i : Mbn!ClaimsAt(i)' = Mbn!ClaimsAt(i)
  BY DEF Mbn!ClaimsAt
<1>5. \A i : Mbn!RootAt(i)' = Mbn!RootAt(i)
  BY DEF Mbn!RootAt, Mbn!StartsFrom, Mbn!Unreadable, Mbn!IsWhole, Mbn!ClaimsAt
<1>6. \A i : Mbn!Scan(i)' = Mbn!Scan(i)
  <2> TAKE i
  <2>1. {k \in i .. Len(cells) - 1 : Mbn!RootAt(k)' /= Mbn!NoKey} = {k \in i .. Len(cells) - 1 : Mbn!RootAt(k) /= Mbn!NoKey}
    BY <1>5
  <2> QED BY <1>5, <2>1 DEF Mbn!Scan
<1>7. Mbn!CertsFit' = Mbn!CertsFit
  BY DEF Mbn!CertsFit
<1>8. Mbn!Key' = Mbn!Key
  BY <1>5, <1>6, <1>7 DEF Mbn!Key
<1>9. Mbn!MetadataFits' = Mbn!MetadataFits
  BY DEF Mbn!MetadataFits
<1>10. Mbn!MetadataAt(2 + segment.code)' = Mbn!MetadataAt(2 + segment.code)
  BY DEF Mbn!MetadataAt
<1>11. OwnHws' = OwnHws
  BY <1>9, <1>10 DEF OwnHws
<1> QED BY <1>3, <1>8, <1>11

\* A chipset is of one of the tables, and the first table is looked at first.
LEMMA Chipsets ==
  ASSUME NEW h
  PROVE  /\ Mbn!ResolveChipset(h) \in Chips
         /\ h \in Msm => Mbn!ResolveChipset(h) = {<<"msm", h>>}
         /\ h = Mbn!NoHw => Mbn!ResolveChipset(h) = {}
<1>1. Msm \subseteq Nat \ {0} /\ Soc \subseteq Nat
  BY MbnConstants DEF Mbn!MbnAssumption
<1>t. \A x \in Nat : {<<"msm", x>>} \in SUBSET ({"msm", "soc"} \X Nat) /\ {<<"soc", x>>} \in SUBSET ({"msm", "soc"} \X Nat)
  OBVIOUS
<1>2. \A x : Mbn!Known(x) \in SUBSET ({"msm", "soc"} \X Nat)
  <2> TAKE x
  <2>1. CASE x \in Msm
    BY <1>1, <1>t, <2>1 DEF Mbn!Known
  <2>2. CASE x \notin Msm
    BY <2>2 DEF Mbn!Known
  <2> QED BY <2>1, <2>2
<1>3. Mbn!Upper(h) \in SUBSET ({"msm", "soc"} \X Nat)
  <2> DEFINE x == h \div 65536
  <2>1. Mbn!Upper(h) = {} \/ (x \in Soc /\ Mbn!Upper(h) = {<<"soc", x>>})
    BY DEF Mbn!Upper
  <2> HIDE DEF x
  <2> QED BY <1>1, <1>t, <2>1
<1>4. Mbn!Shifted(h) \in SUBSET ({"msm", "soc"} \X Nat)
  BY <1>2 DEF Mbn!Shifted
<1>5. Mbn!ResolveChipset(h) \in SUBSET ({"msm", "soc"} \X Nat)
  BY <1>2, <1>3, <1>4 DEF Mbn!ResolveChipset, Mbn!FirstOf
<1>6. h \in Msm => Mbn!ResolveChipset(h) = {<<"msm", h>>}
  BY <1>1 DEF Mbn!ResolveChipset, Mbn!FirstOf, Mbn!Known
<1>7. h = Mbn!NoHw => Mbn!ResolveChipset(h) = {}
  BY DEF Mbn!ResolveChipset, Mbn!NoHw
<1> QED BY <1>5, <1>6, <1>7 DEF Chips

\* The id in a name is a number, all of it or without its first byte.
LEMMA NameIds0 ==
  ASSUME NEW n \in Nat
  PROVE  Mbn!NameId(n) \in Nat /\ Mbn!NameId(n) \in {n, Mbn!Inner(n)}
<1>1. Mbn!Inner(n) \in Nat
  BY DEF Mbn!Inner, Mbn!Top
<1> QED BY <1>1 DEF Mbn!NameId

\* An identity with its key found.
LEMMA KeyUpdates ==
  ASSUME NEW r \in IdentityFields, NEW k \in Nat \X Nat, NEW e, e = [r EXCEPT !.pk = k]
  PROVE  e \in IdentityFields /\ e.pk = k /\ e.hw = r.hw /\ e.chip = r.chip /\ e.fromName = r.fromName
  BY DEF IdentityFields

\* MbnInv is inductive.
THEOREM MbnInvariance == Spec => []MbnInv
<1>1. Init => MbnInv
  <2> SUFFICES ASSUME Init PROVE MbnInv
    OBVIOUS
  <2>1. /\ programmer = [format |-> "other", headers |-> <<>>] /\ name = {} /\ identity = Mbn!Unparsed
        /\ parsing = "none"
    BY DEF Init, Mbn!Init
  <2>2. Mbn!Unparsed \in IdentityFields
    BY DEF Mbn!Unparsed, Mbn!NoKey, Mbn!NoHw, IdentityFields, Chips
  <2> QED BY <2>1, <2>2 DEF MbnInv
<1>2. MbnInv /\ [Next]_operationVars => MbnInv'
  <2> SUFFICES ASSUME MbnInv, [Next]_operationVars PROVE MbnInv'
    OBVIOUS
  <2>s. Mbn!Next \/ UNCHANGED mbnVars
    BY MbnSteps
  <2>0. /\ parsing \in {"none", "opened", "segment", "key", "meta", "known", "unknown"}
        /\ programmer.format \in {"elf", "mbn", "other"} /\ identity \in IdentityFields
        /\ name \in SUBSET Nat
    BY DEF MbnInv
  <2>1. CASE Mbn!Open
    <3>1. /\ parsing = "none" /\ programmer' \in FileKinds /\ segment' \in Segments
          /\ name' \in {{}} \union {{n} : n \in NameIds}
          /\ parsing' \in {"unknown", IF programmer'.format = "other" THEN "unknown" ELSE "opened"}
          /\ UNCHANGED <<cells, identity>>
      BY <2>1 DEF Mbn!Open
    <3>2. programmer'.format \in {"elf", "mbn", "other"} /\ name' \in SUBSET Nat /\ IsSegment(segment')
      BY <3>1, MbnConstants DEF Mbn!MbnAssumption, IsSegment
    <3>3. identity' = Mbn!Unparsed
      BY <3>1 DEF MbnInv
    <3>4. parsing' \in {"unknown", "opened"} /\ (parsing' = "opened" => programmer'.format \in {"elf", "mbn"})
      BY <3>1, <3>2
    <3> QED BY <2>0, <3>1, <3>2, <3>3, <3>4 DEF MbnInv
  <2>2. CASE Mbn!FindSegment
    <3>1. /\ parsing = "opened" /\ parsing' \in {"segment", "unknown"} /\ UNCHANGED <<programmer, segment, name, identity>>
          /\ parsing' = "segment" => cells' = Mbn!Cells(segment)
      BY <2>2 DEF Mbn!FindSegment
    <3>2. IsSegment(segment) /\ programmer.format \in {"elf", "mbn"} /\ identity = Mbn!Unparsed
      BY <3>1 DEF MbnInv
    <3>6. parsing' = "segment" => Parsed'
      BY <3>1, <3>2 DEF Parsed
    <3> QED BY <2>0, <3>1, <3>2, <3>6 DEF MbnInv
  <2>3. CASE Mbn!FindKey
    <3>1. /\ parsing = "segment" /\ identity' = [identity EXCEPT !.pk = Mbn!Key]
          /\ parsing' = (IF Mbn!Key = Mbn!NoKey THEN "unknown" ELSE "key") /\ UNCHANGED <<programmer, segment, cells, name>>
      BY <2>3 DEF Mbn!FindKey
    <3>2. Parsed /\ identity = Mbn!Unparsed
      BY <3>1 DEF MbnInv
    <3>3. Mbn!Key \in Nat \X Nat
      <4>1. CASE Mbn!Key = Mbn!NoKey
        BY <4>1 DEF Mbn!NoKey
      <4>2. CASE Mbn!Key /= Mbn!NoKey
        BY <3>2, <4>2, KeyIsThere DEF IsRoot
      <4> QED BY <4>1, <4>2
    <3>4. /\ identity' \in IdentityFields /\ identity'.pk = Mbn!Key /\ identity'.hw = identity.hw
          /\ identity'.chip = identity.chip /\ identity'.fromName = identity.fromName
      BY <2>0, <3>1, <3>3, KeyUpdates
    <3>5. identity.hw = Mbn!NoHw /\ ~identity.fromName /\ identity.chip = {}
      BY <3>2 DEF Mbn!Unparsed
    <3>6. Parsed' = Parsed /\ Mbn!Key' = Mbn!Key
      BY <3>1, MbnFixed
    <3> QED BY <2>0, <3>1, <3>2, <3>4, <3>5, <3>6 DEF MbnInv
  <2>4. CASE Mbn!FindMetadata
    <3>1. /\ parsing = "key" /\ parsing' = "meta" /\ UNCHANGED <<programmer, segment, cells, name>>
          /\ \/ \E m \in Mbn!MetadataAt(2 + segment.code) :
                  Mbn!MetadataFits /\ identity' = [identity EXCEPT !.hw = m.hw, !.chip = Mbn!ResolveChipset(m.hw)]
             \/ /\ ~Mbn!MetadataFits \/ Mbn!MetadataAt(2 + segment.code) = {}
                /\ UNCHANGED identity
      BY <2>4 DEF Mbn!FindMetadata
    <3>2. /\ Parsed /\ Mbn!Key /= Mbn!NoKey /\ identity.pk = Mbn!Key
          /\ identity.hw = Mbn!NoHw /\ ~identity.fromName /\ identity.chip = {}
      BY <3>1 DEF MbnInv
    <3>3. /\ identity' \in IdentityFields /\ identity'.pk = identity.pk /\ ~identity'.fromName
          /\ identity'.chip = Mbn!ResolveChipset(identity'.hw) /\ identity'.hw \in OwnHws
      <4>1. ASSUME NEW m \in Mbn!MetadataAt(2 + segment.code), Mbn!MetadataFits,
                   identity' = [identity EXCEPT !.hw = m.hw, !.chip = Mbn!ResolveChipset(m.hw)]
            PROVE  /\ identity' \in IdentityFields /\ identity'.pk = identity.pk /\ ~identity'.fromName
                   /\ identity'.chip = Mbn!ResolveChipset(identity'.hw) /\ identity'.hw \in OwnHws
        <5>3. m.hw \in Nat
          <6>1. cells \in Seq(Mbn!Cell)
            BY <3>2, ParsedCells
          <6>2. \A k \in DOMAIN cells : cells[k] \in Mbn!Cell
            BY <6>1
          <6>3. m \in Mbn!Cell
            BY <6>2 DEF Mbn!MetadataAt
          <6> QED BY <6>3 DEF Mbn!Cell
        <5>4. Mbn!ResolveChipset(m.hw) \in Chips
          BY Chipsets
        <5>5. /\ identity' \in IdentityFields /\ identity'.pk = identity.pk /\ identity'.hw = m.hw
              /\ identity'.chip = Mbn!ResolveChipset(m.hw) /\ identity'.fromName = identity.fromName
          <6> DEFINE b == Mbn!ResolveChipset(m.hw)
          <6>1. identity' = [identity EXCEPT !.hw = m.hw, !.chip = b] /\ b \in Chips
            BY <4>1, <5>4
          <6> HIDE DEF b
          <6>2. identity' \in IdentityFields /\ identity'.pk = identity.pk /\ identity'.hw = m.hw
                /\ identity'.chip = b /\ identity'.fromName = identity.fromName
            BY <2>0, <5>3, <6>1 DEF IdentityFields
          <6> QED BY <6>2 DEF b
        <5>6. m.hw \in OwnHws
          BY <4>1 DEF OwnHws
        <5> QED BY <3>2, <5>5, <5>6
      <4>2. ASSUME ~Mbn!MetadataFits \/ Mbn!MetadataAt(2 + segment.code) = {}, UNCHANGED identity
            PROVE  /\ identity' \in IdentityFields /\ identity'.pk = identity.pk /\ ~identity'.fromName
                   /\ identity'.chip = Mbn!ResolveChipset(identity'.hw) /\ identity'.hw \in OwnHws
        <5>1. Mbn!ResolveChipset(identity.hw) = {}
          BY <3>2, Chipsets
        <5>2. identity.hw \in OwnHws
          BY <3>2, <4>2 DEF OwnHws
        <5> QED BY <2>0, <3>2, <4>2, <5>1, <5>2
      <4> QED BY <3>1, <4>1, <4>2
    <3>4. Parsed' = Parsed /\ Mbn!Key' = Mbn!Key /\ OwnHws' = OwnHws
      BY <3>1, MbnFixed
    <3> QED BY <2>0, <3>1, <3>2, <3>3, <3>4 DEF MbnInv
  <2>5. CASE Mbn!Enrich
    <3>1. /\ parsing = "meta" /\ parsing' = "known" /\ UNCHANGED <<programmer, segment, cells, name>>
          /\ \/ identity' = identity
             \/ identity.hw = Mbn!NoHw /\ \E n \in name : identity' = Mbn!Named(n)
      BY <2>5 DEF Mbn!Enrich
    <3>2. /\ Parsed /\ Mbn!Key /= Mbn!NoKey /\ identity.pk = Mbn!Key /\ ~identity.fromName
          /\ identity.chip = Mbn!ResolveChipset(identity.hw) /\ identity.hw \in OwnHws
      BY <3>1 DEF MbnInv
    <3>3. Parsed' = Parsed /\ Mbn!Key' = Mbn!Key /\ OwnHws' = OwnHws
      BY <3>1, MbnFixed
    <3>4. CASE identity' = identity
      BY <2>0, <3>1, <3>2, <3>3, <3>4 DEF MbnInv
    <3>5. ASSUME NEW n \in name, identity' = Mbn!Named(n), identity.hw = Mbn!NoHw PROVE MbnInv'
      <4>1. Mbn!NameId(n) \in Nat /\ n \in Nat
        BY <2>0, <3>5, NameIds0
      <4>2. Mbn!ResolveChipset(Mbn!NameId(n)) \in Chips
        BY Chipsets
      <4>3. /\ identity' \in IdentityFields /\ identity'.pk = identity.pk /\ identity'.hw = Mbn!NameId(n)
            /\ identity'.chip = Mbn!ResolveChipset(Mbn!NameId(n)) /\ identity'.fromName
        <5>1. identity' = [identity EXCEPT !.hw = Mbn!NameId(n), !.chip = Mbn!ResolveChipset(Mbn!NameId(n)), !.fromName = TRUE]
          BY <3>5 DEF Mbn!Named
        <5>2. /\ identity' \in IdentityFields /\ identity'.pk = identity.pk /\ identity'.hw = Mbn!NameId(n)
              /\ identity'.chip = Mbn!ResolveChipset(Mbn!NameId(n)) /\ identity'.fromName
          <6> DEFINE h == Mbn!NameId(n)
                     b == Mbn!ResolveChipset(h)
          <6>1. identity' = [identity EXCEPT !.hw = h, !.chip = b, !.fromName = TRUE] /\ h \in Nat /\ b \in Chips
            BY <4>1, <4>2, <5>1
          <6> HIDE DEF h, b
          <6>2. identity' \in IdentityFields /\ identity'.pk = identity.pk /\ identity'.hw = h
                /\ identity'.chip = b /\ identity'.fromName
            BY <2>0, <6>1 DEF IdentityFields
          <6> QED BY <6>2 DEF h, b
        <5> QED BY <5>2
      <4>4. Mbn!NoHw \in OwnHws
        BY <3>2, <3>5
      <4> QED BY <2>0, <3>1, <3>2, <3>3, <4>3, <4>4 DEF MbnInv
    <3> QED BY <3>1, <3>4, <3>5
  <2>6. CASE UNCHANGED mbnVars
    <3>1. UNCHANGED <<programmer, segment, cells, name, identity, parsing>>
      BY <2>6 DEF mbnVars
    <3>2. /\ Parsed' = Parsed /\ Mbn!Key' = Mbn!Key /\ OwnHws' = OwnHws
      BY <3>1, MbnFixed
    <3> QED BY <3>1, <3>2 DEF MbnInv
  <2> QED BY <2>s, <2>1, <2>2, <2>3, <2>4, <2>5, <2>6 DEF Mbn!Next
<1> QED BY <1>1, <1>2, PTL DEF Spec

\* A programmer file in order is known by the last certificate of its chain and by its own HWID, for chains of any
\* length; any other by something of a root's size that starts and ends as a certificate would; and the name's
\* HWID is taken only when the file has none.
THEOREM IdentityIsExact == Spec => []IdentityExact
<1>1. MbnInv => IdentityExact
  <2> SUFFICES ASSUME MbnInv, parsing = "known" PROVE IdentityExact
    BY DEF IdentityExact, Mbn!IdentityExact
  <2>1. /\ Parsed /\ Mbn!Key /= Mbn!NoKey /\ identity.pk = Mbn!Key /\ name \in SUBSET Nat
        /\ identity \in IdentityFields /\ identity.chip = Mbn!ResolveChipset(identity.hw)
        /\ ~identity.fromName => identity.hw \in OwnHws
        /\ identity.fromName => Mbn!NoHw \in OwnHws /\ \E n \in name : identity.hw = Mbn!NameId(n)
    BY DEF MbnInv
  <2>2. IsRoot(identity.pk)
    BY <2>1, KeyIsThere
  <2>3. Mbn!Orderly => identity.pk = <<Len(cells) - Mbn!RootSize, Mbn!RootSize>>
    BY <2>1, OrderlyKey
  <2>m. \A k \in DOMAIN segment.meta : k = 1 /\ Len(segment.meta) = 1
    <3>1. segment.meta \in Seq(Mbn!Cell) /\ Len(segment.meta) \in 0 .. 1
      BY <2>1, PrologueCells DEF Parsed
    <3> QED BY <3>1
  <2>4. ASSUME NEW k \in DOMAIN segment.meta, Mbn!Orderly, Mbn!Good(segment.meta[k])
        PROVE  identity.hw = segment.meta[k].hw /\ ~identity.fromName
    <3>1. k = 1 /\ Len(segment.meta) = 1
      BY <2>m
    <3>2. Mbn!MetadataFits /\ Mbn!MetadataAt(2 + segment.code) = {segment.meta[1]}
      BY <2>1, <2>4, <3>1, MetadataOf
    <3>3. OwnHws = {segment.meta[1].hw}
      BY <3>2 DEF OwnHws
    <3>4. Mbn!NoHw \notin OwnHws
      BY <2>4, <3>1, <3>3 DEF Mbn!Good, Mbn!NoHw
    <3>5. ~identity.fromName
      BY <2>1, <3>4, Zenon
    <3> QED BY <2>1, <3>1, <3>3, <3>5
  <2>5. identity.fromName => \E n \in name : identity.hw \in {n, Mbn!Inner(n)}
    <3>1. \A n \in name : Mbn!NameId(n) \in {n, Mbn!Inner(n)}
      BY <2>1, NameIds0
    <3> QED BY <2>1, <3>1
  <2>6. /\ identity.hw \in Msm => identity.chip = {<<"msm", identity.hw>>}
        /\ identity.hw = Mbn!NoHw => identity.chip = {}
    BY <2>1, Chipsets
  <2>7. ASSUME Mbn!Orderly, programmer.format = "elf", ~identity.fromName, identity.hw /= Mbn!NoHw
        PROVE  \E k \in DOMAIN segment.meta : Mbn!Good(segment.meta[k]) /\ segment.meta[k].hw = identity.hw
    <3>1. identity.hw \in OwnHws
      BY <2>1, <2>7, Zenon
    <3>2. Mbn!MetadataFits /\ \E c \in Mbn!MetadataAt(2 + segment.code) : identity.hw = c.hw
      BY <2>7, <3>1 DEF OwnHws
    <3>3. PICK c \in Mbn!MetadataAt(2 + segment.code) : identity.hw = c.hw
      BY <3>2
    <3>4. Len(segment.meta) = 1 /\ segment.meta[1] = c /\ Mbn!Good(c)
      BY <2>1, <2>7, <3>2, <3>3, MetadataAreThere
    <3>5. 1 \in DOMAIN segment.meta
      <4>1. segment.meta \in Seq(Mbn!Cell)
        BY <2>1, PrologueCells DEF Parsed
      <4> QED BY <3>4, <4>1
    <3> QED BY <3>3, <3>4, <3>5
  <2>8. LET next == identity.pk[1] + identity.pk[2] IN
        /\ Mbn!IsWhole(identity.pk[1]) /\ identity.pk[2] = Mbn!ClaimsAt(identity.pk[1])
        /\ identity.pk[2] \in RootMin .. RootMax /\ ~Mbn!IsWhole(next) /\ Mbn!ClaimsAt(next) /= 0
    BY <2>2 DEF IsRoot
  <2> QED BY <2>3, <2>4, <2>5, <2>6, <2>7, <2>8, Zenon DEF IdentityExact, Mbn!IdentityExact
<1> QED BY <1>1, MbnInvariance, PTL

------------------------------------------------------------------------------
(* Types.                                                                   *)

\* The database maps devices to paths, in memory and in its file.
Mapping(es) == DOMAIN es \subseteq Devices /\ \A d \in DOMAIN es : es[d] \in Paths
DatabaseTypes ==
  /\ Mapping(entries) /\ Mapping(dbFile.entries)
  /\ loaded \in BOOLEAN /\ missed \in BOOLEAN /\ dbFile.ok \in BOOLEAN /\ wanted \subseteq Devices
  /\ scanning \in {"idle", "scanning", "parsing", "scanned", "ranked"}

\* An empty database is one.
LEMMA EmptyTypes == Mapping(Programmer!NoEntries)
  BY DEF Mapping, Programmer!NoEntries

\* What a command loads maps devices to paths.
LEMMA LoadedTypes ==
  ASSUME DatabaseTypes, NEW l \in Programmer!Loads
  PROVE  Mapping(l.entries) /\ l.missed \in BOOLEAN
<1>1. \/ loaded /\ l = [entries |-> entries, missed |-> missed]
      \/ l = [entries |-> Programmer!OnDisk, missed |-> FALSE]
      \/ l = [entries |-> Programmer!NoEntries, missed |-> TRUE]
  BY Zenon DEF Programmer!Loads
<1>2. CASE l = [entries |-> entries, missed |-> missed]
  <2>1. l.entries = entries
    BY <1>2, Zenon
  <2>2. l.missed = missed
    BY <1>2, Zenon
  <2> QED BY <2>1, <2>2, Zenon DEF DatabaseTypes
<1>3. CASE l = [entries |-> Programmer!OnDisk, missed |-> FALSE]
  <2>1. l.entries = Programmer!OnDisk
    BY <1>3, Zenon
  <2>2. l.missed = FALSE
    BY <1>3, Zenon
  <2>3. Programmer!OnDisk = dbFile.entries \/ Programmer!OnDisk = Programmer!NoEntries
    BY Zenon DEF Programmer!OnDisk
  <2>4. Mapping(Programmer!OnDisk)
    BY <2>3, EmptyTypes, Zenon DEF DatabaseTypes
  <2> QED BY <2>1, <2>2, <2>4, Zenon
<1>4. CASE l = [entries |-> Programmer!NoEntries, missed |-> TRUE]
  <2>1. l.entries = Programmer!NoEntries
    BY <1>4, Zenon
  <2>2. l.missed = TRUE
    BY <1>4, Zenon
  <2> QED BY <2>1, <2>2, EmptyTypes, Zenon
<1> QED BY <1>1, <1>2, <1>3, <1>4

\* A save leaves the file as it was, with the entries in memory, or without any.
LEMMA SaveTypes ==
  ASSUME DatabaseTypes, NEW d, NEW m \in BOOLEAN, Programmer!Save(entries', d, m), Mapping(entries')
  PROVE  Mapping(dbFile'.entries) /\ dbFile'.ok \in BOOLEAN /\ missed' \in BOOLEAN
<1>1. CASE dbFile' = [ok |-> TRUE, entries |-> entries'] /\ missed' = FALSE
  <2>1. dbFile'.ok = TRUE
    BY <1>1, Zenon
  <2>2. dbFile'.entries = entries'
    BY <1>1, Zenon
  <2> QED BY <1>1, <2>1, <2>2, Zenon
<1>2. CASE dbFile' = dbFile /\ missed' = m
  <2>1. dbFile.ok \in BOOLEAN /\ Mapping(dbFile.entries)
    BY Zenon DEF DatabaseTypes
  <2> QED BY <1>2, <2>1, Zenon
<1>3. CASE dbFile' = [ok |-> FALSE, entries |-> Programmer!NoEntries] /\ missed' = FALSE
  <2>1. dbFile'.ok = FALSE
    BY <1>3, Zenon
  <2>2. dbFile'.entries = Programmer!NoEntries
    BY <1>3, Zenon
  <2> QED BY <1>3, <2>1, <2>2, EmptyTypes, Zenon
<1> QED BY <1>1, <1>2, <1>3, Zenon DEF Programmer!Save

\* DatabaseTypes holds through saves, scans and restarts.
LEMMA DatabaseTypesKept == Spec => []DatabaseTypes
<1>1. Init => DatabaseTypes
  <2> SUFFICES ASSUME Programmer!Init PROVE DatabaseTypes
    BY DEF Init
  <2>1. /\ entries = Programmer!NoEntries /\ loaded = FALSE /\ missed = FALSE /\ wanted = {} /\ scanning = "idle"
        /\ dbFile = [ok |-> TRUE, entries |-> Programmer!NoEntries]
    BY DEF Programmer!Init
  <2>2. dbFile.entries = Programmer!NoEntries
    BY <2>1
  <2>3. dbFile.ok = TRUE
    BY <2>1, Zenon
  <2>4. loaded \in BOOLEAN /\ missed \in BOOLEAN /\ dbFile.ok \in BOOLEAN
    BY <2>1, <2>3, Zenon
  <2> QED BY <2>1, <2>2, <2>4, EmptyTypes DEF DatabaseTypes
<1>2. DatabaseTypes /\ [Next]_operationVars => DatabaseTypes'
  <2> SUFFICES ASSUME DatabaseTypes, [Next]_operationVars PROVE DatabaseTypes'
    OBVIOUS
  <2>s. Programmer!Next \/ UNCHANGED programmerVars
    BY ProgrammerSteps
  <2>t. loaded \in BOOLEAN /\ missed \in BOOLEAN /\ dbFile.ok \in BOOLEAN
    BY Zenon DEF DatabaseTypes
  <2>1. CASE Programmer!Connected
    <3>1. PICK u \in Uses, l \in Programmer!Loads :
            /\ loaded' = TRUE /\ entries' = Programmer!Added(l.entries, u[1], u[2])
            /\ Programmer!Save(entries', u[1], l.missed) /\ UNCHANGED Programmer!scanVars
      BY <2>1, Zenon DEF Programmer!Connected
    <3>2. u[1] \in Devices /\ u[2] \in Paths
      BY ProgrammerConstants DEF Programmer!ProgrammersAssumption
    <3>3. Mapping(l.entries) /\ l.missed \in BOOLEAN
      BY LoadedTypes, Zenon
    <3>4. Mapping(entries')
      BY <3>1, <3>2, <3>3 DEF Programmer!Added, Mapping
    <3>5. Mapping(dbFile'.entries) /\ dbFile'.ok \in BOOLEAN /\ missed' \in BOOLEAN
      BY <3>1, <3>3, <3>4, SaveTypes, Zenon
    <3>6. loaded' \in BOOLEAN
      BY <3>1, Zenon
    <3> QED BY <3>1, <3>4, <3>5, <3>6 DEF DatabaseTypes, Programmer!scanVars
  <2>2. CASE Programmer!Forget
    <3>1. PICK d \in Devices, l \in Programmer!Loads :
            /\ loaded' = TRUE /\ entries' = Programmer!Without(l.entries, d)
            /\ Programmer!Save(entries', d, l.missed) /\ UNCHANGED Programmer!scanVars
      BY <2>2, Zenon DEF Programmer!Forget
    <3>3. Mapping(l.entries) /\ l.missed \in BOOLEAN
      BY LoadedTypes, Zenon
    <3>4. Mapping(entries')
      BY <3>1, <3>3 DEF Programmer!Without, Mapping
    <3>5. Mapping(dbFile'.entries) /\ dbFile'.ok \in BOOLEAN /\ missed' \in BOOLEAN
      BY <3>1, <3>3, <3>4, SaveTypes, Zenon
    <3>6. loaded' \in BOOLEAN
      BY <3>1, Zenon
    <3> QED BY <3>1, <3>4, <3>5, <3>6 DEF DatabaseTypes, Programmer!scanVars
  <2>3. ASSUME NEW l \in Programmer!Loads, loaded' = TRUE, entries' = l.entries, missed' = l.missed, UNCHANGED dbFile,
               wanted' \subseteq Devices, scanning' \in {scanning, "ranked"}
        PROVE  DatabaseTypes'
    <3>1. Mapping(entries') /\ missed' \in BOOLEAN
      BY <2>3, LoadedTypes, Zenon
    <3>2. loaded' \in BOOLEAN /\ dbFile'.ok \in BOOLEAN /\ Mapping(dbFile'.entries)
      BY <2>3, Zenon DEF DatabaseTypes
    <3> QED BY <2>3, <3>1, <3>2 DEF DatabaseTypes
  <2>4. CASE Programmer!Look
    <3>1. PICK l \in Programmer!Loads : loaded' = TRUE /\ entries' = l.entries /\ missed' = l.missed
      BY <2>4, Zenon DEF Programmer!Look
    <3>2. UNCHANGED <<dbFile, wanted, scanning>>
      BY <2>4 DEF Programmer!Look, Programmer!scanVars
    <3>3. wanted' \subseteq Devices /\ scanning' \in {scanning, "ranked"}
      BY <3>2 DEF DatabaseTypes
    <3> QED BY <2>3, <3>1, <3>2, <3>3
  <2>5. CASE Programmer!Restart
    <3>1. /\ loaded' = FALSE /\ missed' = FALSE /\ entries' = Programmer!NoEntries /\ scanning' = "idle" /\ wanted' = {}
          /\ dbFile' = dbFile \/ dbFile' = [ok |-> FALSE, entries |-> Programmer!NoEntries]
      BY <2>5 DEF Programmer!Restart
    <3>2. Mapping(dbFile'.entries)
      BY <3>1, EmptyTypes DEF DatabaseTypes
    <3>3. dbFile'.ok \in BOOLEAN
      <4>1. CASE dbFile' = dbFile
        BY <2>t, <4>1, Zenon
      <4>2. CASE dbFile' = [ok |-> FALSE, entries |-> Programmer!NoEntries]
        <5>1. dbFile'.ok = FALSE
          BY <4>2, Zenon
        <5> QED BY <5>1, Zenon
      <4> QED BY <3>1, <4>1, <4>2
    <3>4. loaded' \in BOOLEAN /\ missed' \in BOOLEAN
      BY <3>1, Zenon
    <3> QED BY <3>1, <3>2, <3>3, <3>4, EmptyTypes DEF DatabaseTypes
  <2>6. ASSUME UNCHANGED <<entries, loaded, missed, dbFile>>, wanted' \in {wanted, {}},
               scanning' \in {"idle", "scanning", "parsing", "scanned", "ranked"}
        PROVE  DatabaseTypes'
    <3>1. loaded' \in BOOLEAN /\ missed' \in BOOLEAN /\ dbFile'.ok \in BOOLEAN
      BY <2>6, <2>t, Zenon
    <3> QED BY <2>6, <3>1 DEF DatabaseTypes
  <2>7. CASE Programmer!Replace \/ Programmer!Scan \/ Programmer!ScanFails \/ Programmer!Collect
    BY <2>6, <2>7 DEF DatabaseTypes, Programmer!Replace, Programmer!Scan, Programmer!ScanFails, Programmer!Collect,
       Programmer!dbVars, Programmer!scanVars
  <2>8. CASE Programmer!Collected \/ Programmer!Parse \/ Programmer!Scanned
    BY <2>6, <2>8 DEF DatabaseTypes, Programmer!Collected, Programmer!Parse, Programmer!Scanned, Programmer!dbVars
  <2>9. CASE Programmer!Rank
    <3>1. \/ \E d \in Devices, l \in Programmer!Loads :
               loaded' = TRUE /\ entries' = l.entries /\ missed' = l.missed /\ wanted' = {d}
          \/ UNCHANGED <<loaded, entries, missed, wanted>>
      BY <2>9, Zenon DEF Programmer!Rank
    <3>2. scanning' = "ranked" /\ UNCHANGED dbFile
      BY <2>9 DEF Programmer!Rank
    <3>3. CASE UNCHANGED <<loaded, entries, missed, wanted>>
      BY <2>6, <3>2, <3>3
    <3>4. CASE \E d \in Devices, l \in Programmer!Loads :
                 loaded' = TRUE /\ entries' = l.entries /\ missed' = l.missed /\ wanted' = {d}
      <4>1. PICK d \in Devices, l \in Programmer!Loads :
              loaded' = TRUE /\ entries' = l.entries /\ missed' = l.missed /\ wanted' = {d}
        BY <3>4, Zenon
      <4>2. wanted' \subseteq Devices
        BY <4>1
      <4> QED BY <2>3, <3>2, <4>1, <4>2
    <3> QED BY <3>1, <3>3, <3>4
  <2>10. CASE UNCHANGED programmerVars
    BY <2>6, <2>10 DEF programmerVars, DatabaseTypes
  <2> QED BY <2>s, <2>1, <2>2, <2>4, <2>5, <2>7, <2>8, <2>9, <2>10 DEF Programmer!Next
<1> QED BY <1>1, <1>2, PTL DEF Spec

\* Every variable of the discovery of manifests, of the database, of an expansion and of the parser keeps its type.
THEOREM FilesTypesKept ==
  Spec => [](Manifest!ManifestTypeOK /\ Programmer!ProgrammersTypeOK /\ Sparse!SparseTypeOK /\ Mbn!MbnTypeOK)
<1>1. ManifestInv => Manifest!ManifestTypeOK
  <2> SUFFICES ASSUME ManifestInv PROVE Manifest!ManifestTypeOK
    OBVIOUS
  <2>1. dir \in Seq(FileNames) /\ looked \in 0 .. Len(dir) /\ Len(sets) <= looked /\ sets \in Seq(SetRecords)
    BY DEF ManifestInv
  <2>2. Manifest!ToSet(dir) \subseteq FileNames
    BY <2>1 DEF Manifest!ToSet
  <2>3. Len(sets) <= Len(dir)
    BY <2>1
  <2> QED BY <2>1, <2>2, <2>3 DEF ManifestInv, Manifest!ManifestTypeOK
<1>2. CandidatesInv /\ DatabaseTypes => Programmer!ProgrammersTypeOK
  <2> SUFFICES ASSUME CandidatesInv, DatabaseTypes PROVE Programmer!ProgrammersTypeOK
    OBVIOUS
  <2>1. ASSUME NEW c \in idCache \union scanCache
        PROVE  c[1] \in Paths /\ \E b, x \in Binaries : c[2] = b.size /\ c[3] = x.identity
    <3>1. c[1] \in Paths /\ c[2] \in Sizes /\ c[3] \in Identities
      BY DEF CandidatesInv, CacheInv, Sightings
    <3> QED BY <3>1 DEF Sizes, Identities
  <2>2. crossed \subseteq Paths /\ parsed \in 0 .. Len(ranking)
    BY DEF CandidatesInv, CacheInv, ScanInv
  <2>3. loaded \in BOOLEAN /\ missed \in BOOLEAN /\ dbFile.ok \in BOOLEAN
    BY Zenon DEF DatabaseTypes
  <2>4. /\ DOMAIN entries \subseteq Devices /\ \A d \in DOMAIN entries : entries[d] \in Paths
        /\ wanted \subseteq Devices /\ scanning \in {"idle", "scanning", "parsing", "scanned", "ranked"}
    BY DEF DatabaseTypes, Mapping
  <2> QED BY <2>1, <2>2, <2>3, <2>4, Zenon DEF Programmer!ProgrammersTypeOK
<1>3. SparseInv => Sparse!SparseTypeOK
  <2> SUFFICES ASSUME SparseInv PROVE Sparse!SparseTypeOK
    OBVIOUS
  <2>0. MaxChunks \in Nat /\ Len(chunks) \in Nat /\ Len(chunks) <= MaxChunks /\ Len(file) \in Nat /\ blockSize \in Nat
    BY SparseConstants DEF SparseInv, Typed, Sparse!SparseAssumption
  <2>1. CASE expansion \in {"none", "opened", "raw"}
    <3>1. offset = 0 /\ toGo = 0
      BY <2>1 DEF SparseInv
    <3>2. 0 \in 0 .. Len(file) /\ 0 \in 0 .. MaxChunks
      BY <2>0
    <3> QED BY <2>0, <2>1, <3>1, <3>2 DEF Sparse!SparseTypeOK
  <2>2. CASE expansion \in {"chunks", "expanded"}
    <3>1. toGo \in 0 .. Len(chunks) /\ offset = 1 + Len(Layout[ChunksRead]) /\ offset <= Len(file)
      BY <2>2 DEF SparseInv
    <3>2. toGo \in 0 .. MaxChunks
      BY <2>0, <3>1
    <3>3. ChunksRead \in 0 .. Len(chunks)
      BY <2>0, <3>1 DEF ChunksRead
    <3>4. Len(Layout[ChunksRead]) \in Nat
      <4>1. Layout \in [0 .. Len(chunks) -> Seq(CellSet)]
        BY <2>2, Layouts DEF SparseInv
      <4> QED BY <3>3, <4>1
    <3>5. offset \in 0 .. Len(file)
      BY <2>0, <3>1, <3>4
    <3> QED BY <2>0, <2>2, <3>2, <3>5 DEF Sparse!SparseTypeOK
  <2>3. CASE expansion \in {"error", "failed"}
    <3>1. offset \in 0 .. Len(file) /\ toGo \in 0 .. Len(chunks)
      BY <2>3 DEF SparseInv
    <3>2. toGo \in 0 .. MaxChunks
      BY <2>0, <3>1
    <3> QED BY <2>0, <2>3, <3>1, <3>2 DEF Sparse!SparseTypeOK
  <2> QED BY <2>1, <2>2, <2>3 DEF SparseInv
<1>4. MbnInv => Mbn!MbnTypeOK
  BY DEF MbnInv, IdentityFields, Mbn!MbnTypeOK
<1> QED BY <1>1, <1>2, <1>3, <1>4, ManifestInvariance, CandidatesInvariance, DatabaseTypesKept, SparseInvariance,
       MbnInvariance, PTL

=============================================================================
