---------------------------- MODULE EdlProgrammers ----------------------------
(***************************************************************************)
(* The programmer files of edl_db.rs and the commands that use them: the    *)
(* database that remembers which programmer was used with which device, the *)
(* scan of a directory, with its cache of identities, and the ranking of    *)
(* what it finds for a device.                                              *)
(*                                                                          *)
(* A path is a number: files are listed in this order.  An HWID has two     *)
(* forms, the bytes Sahara gives ("raw") and the number that tools print    *)
(* ("number"); a PK hash stands for its device.                             *)
(***************************************************************************)
EXTENDS Integers, Sequences, SequencesExt, FiniteSets

CONSTANTS
  Devices,
  Paths,
  Normal,     \* normalize_path: paths that differ in case are one
  InName,     \* InName[p]: what the file name contains
  Uses,       \* <<device, path>>: what users connect a device with
  Binaries,   \* files that may be put somewhere: [size, identity]
  MaxSeen     \* bound: files put somewhere

Hwid == Devices \X {"raw", "number"}
\* hw is empty when the binary has no metadata, an identity when it cannot be parsed.
Identity == [hw : {{}} \union {{h} : h \in Hwid}, pk : Devices]

\* What the constants are.
ProgrammersAssumption ==
  /\ Paths \subseteq Nat /\ Normal \in [Paths -> Paths]
  /\ InName \in [Paths -> [hws : SUBSET Hwid, pks : SUBSET Devices]]
  /\ Uses \subseteq Devices \X Paths
  /\ \A b \in Binaries : b.size \in Nat \ {0} /\ (b.identity = {} \/ \E x \in Identity : b.identity = {x})
  /\ MaxSeen \in Nat

VARIABLES
  entries, loaded,     \* the database in memory: device -> path
  missed,              \* it is empty because the file could not be read
  dbFile,              \* programmer_database.json: [ok, entries]
  kept,                \* history: device -> path that was saved, and neither removed, torn nor saved over
  programmers,         \* the files: [size, identity]
  seen,                \* history: what was at a path: <<path, size, identity>>
  idCache,             \* programmer_identity_cache: <<path, size, identity>>
  scanCache,           \* the cache moved into the scan
  scanning,            \* "idle", "scanning", "parsing", "scanned", "ranked"
  ranking,             \* the candidates: [path, size, identity, level]
  parsed,              \* how many of them have their identity
  crossed,             \* history: paths whose file was replaced between its size and its identity
  wanted               \* the device they were ranked for

dbVars == <<entries, loaded, missed, dbFile, kept>>
scanVars == <<idCache, scanCache, scanning, ranking, parsed, wanted>>
programmerVars ==
  <<entries, loaded, missed, dbFile, kept, programmers, seen,
    idCache, scanCache, scanning, ranking, parsed, crossed, wanted>>

NoEntries == [d \in {} |-> 0]
NoIdentity == {}

Init ==
  /\ entries = NoEntries /\ loaded = FALSE /\ missed = FALSE /\ dbFile = [ok |-> TRUE, entries |-> NoEntries] /\ kept = NoEntries
  /\ programmers = [p \in Paths |-> [size |-> 0, identity |-> NoIdentity]] /\ seen = {}
  /\ idCache = {} /\ scanCache = {} /\ scanning = "idle" /\ ranking = <<>> /\ parsed = 0 /\ crossed = {} /\ wanted = {}

------------------------------------------------------------------------------
(* The database.                                                               *)

OnDisk == IF dbFile.ok THEN dbFile.entries ELSE NoEntries

\* ensure_db_loaded: a file that is not there, does not parse or cannot be read now is an empty
\* database.
Loads ==
  IF loaded THEN {[entries |-> entries, missed |-> missed]}
  ELSE {[entries |-> OnDisk, missed |-> FALSE], [entries |-> NoEntries, missed |-> TRUE]}
Loaded == IF loaded THEN entries ELSE OnDisk

Without(f, d) == [x \in DOMAIN f \ {d} |-> f[x]]

\* save writes the file in place: an error may leave it as it was, or cut.
Save(es, d, m) ==
  \/ dbFile' = [ok |-> TRUE, entries |-> es] /\ kept' = es /\ missed' = FALSE
  \/ UNCHANGED dbFile /\ kept' = Without(kept, d) /\ missed' = m
  \/ dbFile' = [ok |-> FALSE, entries |-> NoEntries] /\ kept' = NoEntries /\ missed' = FALSE

\* add, from edl_connect: a failed save is only logged.
Added(es, d, p) == [x \in DOMAIN es \union {d} |-> IF x = d THEN p ELSE es[x]]
Connected ==
  \E u \in Uses, l \in Loads :
    /\ loaded' = TRUE /\ entries' = Added(l.entries, u[1], u[2]) /\ Save(entries', u[1], l.missed)
    /\ UNCHANGED <<programmers, seen, crossed, scanVars>>

\* edl_db_remove: the entry is gone from memory also when the file cannot be written.
Forget ==
  \E d \in Devices, l \in Loads :
    /\ loaded' = TRUE /\ entries' = Without(l.entries, d) /\ Save(entries', d, l.missed)
    /\ UNCHANGED <<programmers, seen, crossed, scanVars>>

\* edl_db_lookup and edl_db_list.
Look ==
  \E l \in Loads :
    /\ loaded' = TRUE /\ entries' = l.entries /\ missed' = l.missed
    /\ UNCHANGED <<dbFile, kept, programmers, seen, crossed, scanVars>>

\* The application ends, or dies while it writes the database, and starts again.
Restart ==
  /\ loaded' = FALSE /\ missed' = FALSE /\ entries' = NoEntries
  /\ idCache' = {} /\ scanCache' = {} /\ scanning' = "idle" /\ ranking' = <<>> /\ parsed' = 0 /\ crossed' = {}
  /\ wanted' = {}
  /\ \/ UNCHANGED <<dbFile, kept>>
     \/ dbFile' = [ok |-> FALSE, entries |-> NoEntries] /\ kept' = NoEntries
  /\ UNCHANGED <<programmers, seen>>

------------------------------------------------------------------------------
(* The scan.                                                                   *)

\* The user puts a file at a path, also while a scan has its size and not yet its identity.
Unparsed == {ranking[k].path : k \in parsed + 1 .. Len(ranking)}
Replace ==
  \E p \in Paths, b \in Binaries :
    /\ <<p, b.size, b.identity>> \notin seen /\ Cardinality(seen) < MaxSeen
    /\ programmers' = [programmers EXCEPT ![p] = [size |-> b.size, identity |-> b.identity]]
    /\ seen' = seen \union {<<p, b.size, b.identity>>} /\ crossed' = crossed \union ({p} \intersect Unparsed)
    /\ UNCHANGED <<dbVars, scanVars>>

\* edl_scan_programmers moves the cache into its task.
Scan ==
  /\ scanning \in {"idle", "ranked"} /\ scanning' = "scanning"
  /\ scanCache' = idCache /\ idCache' = {} /\ ranking' = <<>> /\ parsed' = 0 /\ wanted' = {}
  /\ UNCHANGED <<dbVars, programmers, seen, crossed>>

\* One directory that cannot be read fails the scan, and the cache is lost with it.
ScanFails ==
  /\ scanning = "scanning" /\ scanning' = "idle" /\ scanCache' = {} /\ ranking' = <<>>
  /\ UNCHANGED <<dbVars, programmers, seen, crossed, idCache, parsed, wanted>>

\* collect_programmer_files: the size of the next file.  One that is not there, or cannot be
\* opened, has size 0 and is skipped.
Present == {p \in Paths : programmers[p].size > 0}
Ahead == {p \in Present : \A k \in DOMAIN ranking : ranking[k].path < p}
Collect ==
  /\ scanning = "scanning"
  /\ \E p \in Ahead :
       /\ \A q \in Ahead : p <= q
       /\ ranking' = Append(ranking, [path |-> p, size |-> programmers[p].size, identity |-> NoIdentity, level |-> "Unknown"])
  /\ UNCHANGED <<dbVars, programmers, seen, crossed, idCache, scanCache, scanning, parsed, wanted>>
Collected ==
  /\ scanning = "scanning" /\ Ahead = {} /\ scanning' = "parsing"
  /\ UNCHANGED <<dbVars, programmers, seen, crossed, idCache, scanCache, ranking, parsed, wanted>>

\* Mutant: an identity is looked up by its path.
CachedAtPath(c) == {x \in scanCache : x[1] = c.path}
Cached(c) == {x \in scanCache : x[1] = c.path /\ x[2] = c.size}

\* The identity of the next one: from the cache, or from the file that is there now, which may not
\* be readable.
Parse ==
  /\ scanning = "parsing" /\ parsed < Len(ranking) /\ parsed' = parsed + 1
  /\ LET c == ranking[parsed + 1] IN
     IF Cached(c) /= {}
       THEN /\ \E x \in Cached(c) : ranking' = [ranking EXCEPT ![parsed + 1].identity = x[3]]
            /\ UNCHANGED scanCache
       ELSE \E i \in {programmers[c.path].identity, NoIdentity} :
              /\ ranking' = [ranking EXCEPT ![parsed + 1].identity = i]
              /\ scanCache' = scanCache \union (IF i = NoIdentity THEN {} ELSE {<<c.path, c.size, i>>})
  /\ UNCHANGED <<dbVars, programmers, seen, crossed, idCache, scanning, wanted>>

\* The cache is put back.
Scanned ==
  /\ scanning = "parsing" /\ parsed = Len(ranking) /\ scanning' = "scanned"
  /\ idCache' = idCache \union scanCache /\ scanCache' = {}
  /\ UNCHANGED <<dbVars, programmers, seen, crossed, ranking, parsed, wanted>>

------------------------------------------------------------------------------
(* score_candidates                                                            *)

\* The order of MatchLevel.
Order == [DbExact |-> 1, BinaryVerified |-> 2, FilenameMatch |-> 3, Unknown |-> 4, DbOtherDevice |-> 5]

UsedWith(es, ds) == {Normal[es[d]] : d \in DOMAIN es \intersect ds}
HwOk(hw, d) == hw = {} \/ hw \subseteq {<<d, "raw">>, <<d, "number">>}
Verified(c, d) == \E i \in c.identity : i.pk = d /\ HwOk(i.hw, d)
\* Only the raw form of the HWID is looked for in a name.
Named(p, d) == <<d, "raw">> \in InName[p].hws \/ d \in InName[p].pks

Level(c, es, d) ==
  CASE Normal[c.path] \in UsedWith(es, {d}) -> "DbExact"
    [] Normal[c.path] \notin UsedWith(es, {d}) /\ Verified(c, d) -> "BinaryVerified"
    [] Normal[c.path] \notin UsedWith(es, {d}) /\ ~Verified(c, d) /\ Named(c.path, d) -> "FilenameMatch"
    [] OTHER -> IF Normal[c.path] \in UsedWith(es, Devices \ {d}) THEN "DbOtherDevice" ELSE "Unknown"

\* By level, then by name: p are the places the candidates come from.
ByLevel(p, levels) ==
  \A j, k \in DOMAIN ranking : j < k =>
    \/ Order[levels[p[j]]] < Order[levels[p[k]]]
    \/ levels[p[j]] = levels[p[k]] /\ ranking[p[j]].path < ranking[p[k]].path

Rank ==
  /\ scanning = "scanned" /\ scanning' = "ranked"
  /\ \/ \E d \in Devices, l \in Loads :
          /\ loaded' = TRUE /\ entries' = l.entries /\ missed' = l.missed /\ wanted' = {d}
          /\ LET levels == [k \in DOMAIN ranking |-> Level(ranking[k], l.entries, d)] IN
             \E p \in Surjection(DOMAIN ranking, DOMAIN ranking) :
               /\ ByLevel(p, levels)
               /\ ranking' = [k \in DOMAIN ranking |-> [ranking[p[k]] EXCEPT !.level = levels[p[k]]]]
     \/ UNCHANGED <<loaded, entries, missed, wanted, ranking>>
  /\ UNCHANGED <<dbFile, kept, programmers, seen, crossed, idCache, scanCache, parsed>>

Next ==
  \/ Connected \/ Forget \/ Look \/ Restart
  \/ Replace \/ Scan \/ ScanFails \/ Collect \/ Collected \/ Parse \/ Scanned \/ Rank

Spec == Init /\ [][Next]_programmerVars

------------------------------------------------------------------------------

ProgrammersTypeOK ==
  /\ DOMAIN entries \subseteq Devices /\ \A d \in DOMAIN entries : entries[d] \in Paths
  /\ loaded \in BOOLEAN /\ missed \in BOOLEAN /\ dbFile.ok \in BOOLEAN /\ wanted \subseteq Devices
  /\ \A c \in idCache \union scanCache : c[1] \in Paths /\ \E b, x \in Binaries : c[2] = b.size /\ c[3] = x.identity
  /\ scanning \in {"idle", "scanning", "parsing", "scanned", "ranked"} /\ parsed \in 0 .. Len(ranking)
  /\ crossed \subseteq Paths

\* A programmer that was saved for a device stays in the file until it is removed, the file is
\* damaged, or a session that could not read the file saves over it; and every other session knows
\* it, whatever command loads the database first.
MappingsKept ==
  \A d \in DOMAIN kept :
    /\ dbFile.ok /\ d \in DOMAIN dbFile.entries /\ dbFile.entries[d] = kept[d]
    /\ ~missed => d \in DOMAIN Loaded /\ Loaded[d] = kept[d]

\* What is remembered of a file, and what a scan tells of it if it tells anything, is what a file of
\* that path and size was; unless a file there was replaced while a scan was between the two.
IdentityFresh ==
  /\ \A c \in idCache \union scanCache : c[1] \notin crossed => c \in seen
  /\ \A k \in DOMAIN ranking :
       LET c == ranking[k] IN
       c.identity /= NoIdentity /\ c.path \notin crossed => <<c.path, c.size, c.identity>> \in seen

\* The best evidence comes first, a candidate is called
\* verified only when nothing in it speaks of another device, and what was used with
\* another device, and has nothing for this one, comes last.
RankedByEvidence ==
  scanning = "ranked" /\ wanted /= {} => \A d \in wanted : \A k \in DOMAIN ranking :
    LET c == ranking[k] IN
    /\ c.level = "BinaryVerified" => \E i \in c.identity : i.pk = d /\ \A h \in i.hw : h[1] = d
    /\ \A j \in 1 .. k - 1 :
         /\ c.level = "DbExact" => ranking[j].level = "DbExact"
         /\ ranking[j].level = "DbOtherDevice" => c.level = "DbOtherDevice"
         /\ ranking[j].level = c.level => ranking[j].path < c.path

ProgrammersRight == MappingsKept /\ IdentityFresh /\ RankedByEvidence

==============================================================================
