----------------------------- MODULE MCInstances ------------------------------
(* The values that MCOperations gives to the constants of the modules it checks. *)
EXTENDS Integers, Sequences

CONSTANTS boot_img, gpt_img, d1, d2, Paths

\* EdlIdentify.  An eMMC programmer may answer for its boot partitions as well.
MCProgrammers == [storage : {"ufs", "emmc"}, strict : BOOLEAN, auth : BOOLEAN, luns : {1, 2}]

\* EdlFlash.
P(i, a, x) == [img |-> i, at |-> a, expr |-> x, placeholder |-> FALSE]
Skipped(i, a) == [img |-> i, at |-> a, expr |-> FALSE, placeholder |-> TRUE]
S(r, p, e, t) == [readable |-> r, programs |-> p, erases |-> e, patch |-> t]
\* The second set of a directory.
Second == S(TRUE, <<P(gpt_img, "gpt", FALSE), P(gpt_img, "end", TRUE)>>, <<>>, "none")
FirstSets ==
  {S(TRUE, <<P(boot_img, "data", FALSE)>>, <<"data">>, "bad"),
   S(TRUE, <<P(gpt_img, "gpt", FALSE), Skipped(gpt_img, "end"), P(boot_img, "data", FALSE)>>, <<"data">>, "good"),
   S(FALSE, <<>>, <<>>, "none")}
MCPlans ==
  {[kind |-> "batch", sets |-> <<s>>] : s \in FirstSets}
    \union {[kind |-> "dir", sets |-> <<s, Second>>] : s \in FirstSets}
    \union {[kind |-> "program", sets |-> <<S(TRUE, <<P(boot_img, "data", FALSE)>>, <<>>, "none")>>],
            [kind |-> "erase", sets |-> <<S(TRUE, <<>>, <<"data">>, "none")>>]}
MCDisks ==
  {[i \in {boot_img, gpt_img} |-> IF i = boot_img THEN b ELSE "raw"] : b \in {"raw", "broken", "absent"}}
    \union {[i \in {boot_img, gpt_img} |-> IF i = boot_img THEN "sparse" ELSE "empty"]}

\* EdlManifest.
N(k, a, f, l) == [kind |-> k, avoid |-> a, first |-> f, last |-> l]
MCFileNames ==
  {N("rawprogram", FALSE, 0, 0), N("rawprogram", FALSE, 1, 1), N("rawprogram", FALSE, -1, -1),
   N("rawprogram", FALSE, -1, 1), N("rawprogram", FALSE, 1, 0), N("rawprogram", TRUE, 0, -1),
   N("patch", FALSE, 0, 0), N("patch", FALSE, 1, 1), N("patch", FALSE, -1, -1), N("other", FALSE, -1, -1)}

\* EdlGpt.
MCEntries == [used : BOOLEAN, first : {0, 2}, last : {1, 15}]
\* From sector 8 on a table lies beyond the last address; from 7 on, entries of two bytes do.
MCTables == [signature : BOOLEAN, size : 0 .. 2, lba : {1, 2, 7, 9}, entries : UNION {[1 .. n -> MCEntries] : n \in 0 .. 2}]

\* EdlProgrammers.
MCNormal == [p \in Paths |-> p]
MCInName == [p \in Paths |-> [hws |-> IF p = 1 THEN {<<d1, "number">>} ELSE {}, pks |-> IF p = 1 THEN {d1} ELSE {}]]
MCUses == {<<d1, 1>>, <<d2, 2>>}
\* Of two sizes, one that speaks of both devices and one of d2 alone.
MCBinaries ==
  {[size |-> 1, identity |-> {[hw |-> {<<d2, "number">>}, pk |-> d1]}],
   [size |-> 2, identity |-> {[hw |-> {}, pk |-> d2]}]}

\* EdlMbn.  SM8150: 0x0A50E1, and 0x60030100 as a SOC_HW_VERSION; SDM845: 0x08B0E1.
Sm8150 == 676065
Sm8150Soc == 1610809600
Sdm845 == 569569
MCMsm == {Sm8150, Sdm845}
MCSoc == {24579}
MCNameIds == {Sdm845, Sm8150 - 225, Sm8150Soc}
\* Cells: Tag(0) has no length that can be read.  MetaLike stands where the metadata of another file are.
Plain == [claims |-> -1, version |-> FALSE, hw |-> 0]
Tag(n) == [Plain EXCEPT !.claims = n]
MetaLike == [Plain EXCEPT !.version = TRUE, !.hw = Sm8150]
Cert(n) == <<Tag(n)>> \o [i \in 1 .. n - 1 |-> Plain]
MCSegments ==
  [code : {1}, cert : {0, 2, 3, 4, 5, 9}, signature : {<<>>, <<Tag(2)>>, <<MetaLike>>}, pad : {<<>>, <<Tag(1)>>},
   meta : {<<>>, <<MetaLike>>, <<[MetaLike EXCEPT !.version = FALSE]>>},
   chain : {<<>>, <<Cert(2)>>, <<Cert(2), Cert(3)>>, <<Cert(3), Cert(1)>>, <<<<Tag(3), Tag(2), Plain>>>>,
            <<Cert(2), <<Tag(0), Plain>>>>, <<Cert(2), <<Tag(5), Plain>>>>}]
Hdr(k, p, s) == [kind |-> k, placed |-> p, segment |-> s]
MCFileKinds ==
  {[format |-> "mbn", headers |-> <<>>], [format |-> "other", headers |-> <<>>],
   [format |-> "elf", headers |-> <<>>],
   [format |-> "elf", headers |-> <<Hdr("null", FALSE, FALSE), Hdr("hash", TRUE, TRUE), Hdr("load", TRUE, FALSE)>>],
   [format |-> "elf", headers |-> <<Hdr("null", TRUE, FALSE), Hdr("hash", TRUE, TRUE)>>]}

\* AdbDump: on and off the boundaries of dd's blocks.
MCRequests == [offset : {0, 4}, size : {0, 2, 3}] \union {[offset |-> 3, size |-> 2]}

==============================================================================
