----------------------------- MODULE EdlManifest ------------------------------
(***************************************************************************)
(* discover_rawprograms of edl_xml.rs: which manifests of a directory are   *)
(* flashed, and with which patch file.  A file name is what the code looks  *)
(* at in it: what it begins with, whether it speaks of wipe or blank, and   *)
(* the digits right after "rawprogram" and right before ".xml".             *)
(***************************************************************************)
EXTENDS Integers, Sequences, SequencesExt

CONSTANTS
  FileNames,  \* names that may be in a directory
  MaxFiles    \* bound: files of a directory

None == -1
\* A "patch" is patch.xml or patch<digit>.xml and nothing else.
Name ==
  {n \in [kind : {"rawprogram", "patch", "other"}, avoid : BOOLEAN, first : None .. 9, last : None .. 9] :
     n.kind = "patch" => ~n.avoid /\ n.last = n.first}

\* What the constants are.
ManifestAssumption == FileNames \subseteq Name /\ MaxFiles \in Nat

VARIABLES
  dir,       \* the files, in the order read_dir gives them
  looked,    \* files looked at
  sets,      \* [file, lun, patch]
  discovery  \* "none", "looking", "sorted", "found"

manifestVars == <<dir, looked, sets, discovery>>

Init == dir = <<>> /\ looked = 0 /\ sets = <<>> /\ discovery = "none"

\* Files in any order; some may look alike.
Discover ==
  /\ discovery = "none" /\ discovery' = "looking"
  /\ dir' \in BoundedSeq(FileNames, MaxFiles)
  /\ UNCHANGED <<looked, sets>>

\* Mutant: the last digit goes first.
HintByLast(name) == IF name.last /= None THEN name.last ELSE IF name.first /= None THEN name.first ELSE 0

\* extract_lun_hint
LunHint(name) == IF name.first /= None THEN name.first ELSE IF name.last /= None THEN name.last ELSE 0

Patches(lun, digit) ==
  {n \in ToSet(dir) : n.kind = "patch" /\ n.first = digit /\ (digit = None => lun = 0)}
\* find_matching_patch: patch<lun>.xml, or else, for LUN 0, patch.xml.
MatchingPatch(lun) == IF Patches(lun, lun) /= {} THEN Patches(lun, lun) ELSE Patches(lun, None)

Allowed(name) == name.kind = "rawprogram" /\ ~name.avoid

Look ==
  /\ discovery = "looking" /\ looked < Len(dir)
  /\ LET name == dir[looked + 1] IN
     sets' = IF Allowed(name)
               THEN Append(sets, [file |-> name, lun |-> LunHint(name), patch |-> MatchingPatch(LunHint(name))])
               ELSE sets
  /\ looked' = looked + 1 /\ UNCHANGED <<dir, discovery>>

\* sort_by_key is stable: p are the places the sets come from.
ByLun(p) ==
  \A i, j \in DOMAIN sets : i < j =>
    \/ sets[p[i]].lun < sets[p[j]].lun
    \/ sets[p[i]].lun = sets[p[j]].lun /\ p[i] < p[j]
Sort ==
  /\ discovery = "looking" /\ looked = Len(dir) /\ discovery' = "sorted"
  /\ \E p \in Surjection(DOMAIN sets, DOMAIN sets) : ByLun(p) /\ sets' = [i \in DOMAIN sets |-> sets[p[i]]]
  /\ UNCHANGED <<dir, looked>>

\* dedup_by_key keeps the first of neighbours with the same LUN.
Firsts(s) == {i \in DOMAIN s : i = 1 \/ s[i - 1].lun /= s[i].lun}

Dedup ==
  /\ discovery = "sorted" /\ discovery' = "found"
  /\ \E n \in 0 .. Len(sets) : \E keep \in Surjection(1 .. n, Firsts(sets)) :
       /\ \A i, j \in 1 .. n : i < j => keep[i] < keep[j]
       /\ sets' = [i \in 1 .. n |-> sets[keep[i]]]
  /\ UNCHANGED <<dir, looked>>

Next == Discover \/ Look \/ Sort \/ Dedup

Spec == Init /\ [][Next]_manifestVars

------------------------------------------------------------------------------

ManifestTypeOK ==
  /\ ToSet(dir) \subseteq FileNames /\ looked \in 0 .. Len(dir) /\ Len(sets) <= Len(dir)
  /\ discovery \in {"none", "looking", "sorted", "found"}

\* What a directory is flashed with: one set for every LUN that has a manifest, in the
\* order of the LUNs, none that wipes or blanks, the number after "rawprogram" deciding
\* the LUN, and never without a patch file or with another LUN's when the directory has one.
OneSetPerLun ==
  discovery = "found" =>
    /\ \A i, j \in DOMAIN sets : i < j => sets[i].lun < sets[j].lun
    /\ \A i \in DOMAIN sets :
         /\ sets[i].file \in ToSet(dir) /\ Allowed(sets[i].file)
         /\ sets[i].file.first \in {None, sets[i].lun}
         /\ \A p \in sets[i].patch : p.first = sets[i].lun \/ (p.first = None /\ sets[i].lun = 0)
         /\ sets[i].patch = {} => \A n \in ToSet(dir) : n.kind = "patch" => n.first /= sets[i].lun
    /\ \A name \in ToSet(dir) : Allowed(name) => \E i \in DOMAIN sets : sets[i].lun = LunHint(name)

==============================================================================
