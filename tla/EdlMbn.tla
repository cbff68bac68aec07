-------------------------------- MODULE EdlMbn --------------------------------
(***************************************************************************)
(* edl_mbn.rs: what a programmer file tells of itself.  An ELF file has a   *)
(* hash segment, an MBN file is one; the segment holds a header, a hash     *)
(* table, metadata, a signature and a chain of certificates, each as long   *)
(* as the header says, or not.                                              *)
(*                                                                          *)
(* A segment is a sequence of cells.  Lengths count cells: the header has   *)
(* one, the metadata too, and a root certificate RootMin at least.  Any     *)
(* cell may begin with the byte 0x30 and read as the start of a certificate *)
(* of some length, or of none, and any may read as metadata.                *)
(***************************************************************************)
EXTENDS Integers, Sequences, SequencesExt

CONSTANTS
  RootMin, RootMax,  \* the sizes a root certificate may have
  Segments,          \* what may be parsed: [code, cert, meta, signature, chain, pad]
  FileKinds,         \* the files: [format, headers]
  NameIds,           \* the MSM ids that file names begin with
  Msm, Soc           \* the keys of the two tables of chipsets

\* claims: -1 without the byte 0x30, 0 with it and no length that can be read, else the length;
\* version: the version of metadata is in range.
Cell == [claims : Nat \union {-1}, version : BOOLEAN, hw : Nat]
\* The sizes in the header of the hash table and of the chain (that of the signature is right), the
\* metadata, if any, the signature, the certificates and what follows them.
Segment ==
  [code : Nat, cert : Nat, meta : Seq(Cell), signature : Seq(Cell), chain : Seq(Seq(Cell) \ {<<>>}), pad : Seq(Cell)]
\* A program header: its kind, and whether its segment lies in the file, at an offset.
Header == [kind : {"null", "hash", "load"}, placed : BOOLEAN, segment : BOOLEAN]

\* What the constants are.
MbnAssumption ==
  /\ RootMin \in Nat /\ RootMax \in Nat /\ NameIds \subseteq Nat
  /\ Msm \subseteq Nat \ {0} /\ Soc \subseteq Nat \ {0}
  /\ \A s \in Segments : s \in Segment /\ Len(s.meta) <= 1
  /\ \A f \in FileKinds : f.format \in {"elf", "mbn", "other"} /\ f.headers \in Seq(Header)

VARIABLES
  programmer, \* the file: [format, headers]
  segment,    \* the segment that is parsed
  cells,      \* what is being parsed
  name,       \* the MSM id in its name, none or one
  identity,   \* [pk, hw, chip, fromName]
  parsing     \* "none", "opened", "segment", "key", "meta", "known", "unknown"

mbnVars == <<programmer, segment, cells, name, identity, parsing>>

NoKey == <<0, 0>>
NoHw == 0
Unparsed == [pk |-> NoKey, hw |-> NoHw, chip |-> {}, fromName |-> FALSE]
NoSegment == [code |-> 0, cert |-> 0, meta |-> <<>>, signature |-> <<>>, chain |-> <<>>, pad |-> <<>>]

Init ==
  /\ programmer = [format |-> "other", headers |-> <<>>] /\ segment = NoSegment /\ cells = <<>>
  /\ name = {} /\ identity = Unparsed /\ parsing = "none"

Fill(n) == [i \in 1 .. n |-> [claims |-> -1, version |-> FALSE, hw |-> 0]]
Chain(s) == FlattenSeq(s.chain)
Cells(s) == Fill(1 + s.code) \o s.meta \o s.signature \o Chain(s) \o s.pad

\* The file is read, if it is not too large; its magic says what it is.
Open ==
  /\ parsing = "none"
  /\ programmer' \in FileKinds /\ segment' \in Segments /\ name' \in {{}} \union {{n} : n \in NameIds}
  /\ parsing' \in {"unknown", IF programmer'.format = "other" THEN "unknown" ELSE "opened"}
  /\ UNCHANGED <<cells, identity>>

IsHash(h) == h.placed /\ h.kind \in {"null", "hash"}
HashHeader == SelectInSeq(programmer.headers, IsHash)

\* parse_elf_identity takes the first header of a hash segment, also of one that only looks like
\* it; parse_mbn_identity the file.
FindSegment ==
  /\ parsing = "opened"
  /\ \/ /\ programmer.format = "mbn" \/ HashHeader /= 0
        /\ cells' = Cells(segment) /\ parsing' = "segment"
     \/ programmer.format = "elf" /\ HashHeader = 0 /\ parsing' = "unknown" /\ UNCHANGED cells
  /\ UNCHANGED <<programmer, segment, name, identity>>

------------------------------------------------------------------------------
(* The key: the last certificate of the chain.  A key is the cells it is the  *)
(* hash of: where they begin, and how many they are.                          *)

ClaimsAt(i) == IF i < Len(cells) THEN cells[i + 1].claims ELSE -1
IsWhole(i) == ClaimsAt(i) > 0 /\ i + ClaimsAt(i) <= Len(cells)

\* Where the certificates walked from a cell start: each one whole, and right after the
\* one before.
StartsFrom(start) ==
  LET starts[i \in 0 .. Len(cells)] == IF IsWhole(i) THEN {i} \union starts[i + ClaimsAt(i)] ELSE {}
  IN starts[start]
\* The walk ends at a byte that is not 0x30 and at a certificate that is cut; but a length that
\* cannot be read is an error.
Unreadable(starts) == LET x == Max(starts) IN ClaimsAt(x + ClaimsAt(x)) = 0
\* Mutant: the first certificate is taken for the root.
FirstRoot(start) ==
  IF StartsFrom(start) = {} \/ Unreadable(StartsFrom(start)) \/ ClaimsAt(start) \notin RootMin .. RootMax THEN NoKey
  ELSE <<start, ClaimsAt(start)>>
RootAt(start) ==
  LET starts == StartsFrom(start)
      x == Max(starts)
  IN IF starts = {} \/ Unreadable(starts) \/ ClaimsAt(x) \notin RootMin .. RootMax THEN NoKey
     ELSE <<x, ClaimsAt(x)>>

AtMost(n, bound) == IF n < bound THEN n ELSE bound
\* Without a size, a certificate is looked for after the hash table.
Scan(from) ==
  LET good == {i \in from .. Len(cells) - 1 : RootAt(i) /= NoKey}
  IN IF good = {} THEN NoKey ELSE RootAt(Min(good))
CertsFit == IF programmer.format = "mbn" THEN segment.cert < Len(cells) ELSE segment.cert <= Len(cells)
Key ==
  IF segment.cert > 0 /\ CertsFit THEN RootAt(Len(cells) - segment.cert)
  ELSE Scan(AtMost(1 + segment.code, Len(cells)))

FindKey ==
  /\ parsing = "segment"
  /\ identity' = [identity EXCEPT !.pk = Key]
  /\ parsing' = IF Key = NoKey THEN "unknown" ELSE "key"
  /\ UNCHANGED <<programmer, segment, cells, name>>

------------------------------------------------------------------------------
(* The chipset.  A name stands for its key in the table.                       *)

LowByte == 225   \* 0xE1
Top == 16777216  \* one of the first byte: 0x01000000
\* id | 0xE1: the bits of LowByte are set, bits 1 to 4 and those above the byte stay.
OrLowByte(id) == (id - (id % 256)) + LowByte + ((id % 32) - (id % 2))
Known(id) == IF id \in Msm THEN {<<"msm", id>>} ELSE {}
\* The upper half of a SOC_HW_VERSION.
Upper(id) == IF id % 256 /= LowByte /\ id \div 65536 \in Soc THEN {<<"soc", id \div 65536>>} ELSE {}
\* An id that ends in a zero byte, shifted.
Shifted(id) == IF id % 256 = 0 /\ id < Top THEN Known(OrLowByte(id \div 256)) ELSE {}

FirstOf(a, b) == IF a /= {} THEN a ELSE b
ResolveChipset(id) == IF id = 0 THEN {} ELSE FirstOf(Known(id), FirstOf(Upper(id), Shifted(id)))

\* The id in a name is read without its first byte, unless only all of it is known.
Inner(id) == id % Top
NameId(id) ==
  IF ResolveChipset(Inner(id)) /= {} THEN Inner(id)
  ELSE IF ResolveChipset(id) /= {} \/ Inner(id) = 0 THEN id ELSE Inner(id)

------------------------------------------------------------------------------
(* The HWID: from the metadata, or from the name of the file.                  *)

\* extract_metadata: a version in range and an id that is not 0.
MetadataAt(i) == {c \in {cells[k] : k \in {i} \intersect DOMAIN cells} : c.version /\ c.hw /= 0}
MetadataFits ==
  programmer.format = "mbn" \/ Len(cells) - (1 + segment.code + Len(segment.signature) + segment.cert) >= 1

FindMetadata ==
  /\ parsing = "key"
  /\ \/ \E m \in MetadataAt(2 + segment.code) : MetadataFits /\ identity' = [identity EXCEPT !.hw = m.hw, !.chip = ResolveChipset(m.hw)]
     \/ (~MetadataFits \/ MetadataAt(2 + segment.code) = {}) /\ UNCHANGED identity
  /\ parsing' = "meta" /\ UNCHANGED <<programmer, segment, cells, name>>

Named(n) == [identity EXCEPT !.hw = NameId(n), !.chip = ResolveChipset(NameId(n)), !.fromName = TRUE]

\* enrich_from_filename
Enrich ==
  /\ parsing = "meta" /\ parsing' = "known"
  /\ identity' \in IF identity.hw /= NoHw \/ name = {} THEN {identity} ELSE {Named(n) : n \in name}
  /\ UNCHANGED <<programmer, segment, cells, name>>

Next == Open \/ FindSegment \/ FindKey \/ FindMetadata \/ Enrich

Spec == Init /\ [][Next]_mbnVars

------------------------------------------------------------------------------

MbnTypeOK ==
  /\ programmer.format \in {"elf", "mbn", "other"} /\ identity.pk \in Nat \X Nat /\ identity.hw \in Nat
  /\ identity.fromName \in BOOLEAN
  /\ parsing \in {"none", "opened", "segment", "key", "meta", "known", "unknown"}

\* The file is in order: what is parsed is its hash segment, which ends with the chain; the header
\* gives the size of the chain, and every certificate its own.
Orderly ==
  /\ programmer.format = "mbn" \/ programmer.headers[HashHeader].segment
  /\ segment.pad = <<>> /\ segment.chain /= <<>> /\ segment.cert = Len(Chain(segment))
  /\ \A k \in DOMAIN segment.chain : segment.chain[k][1].claims = Len(segment.chain[k])
RootSize == Len(segment.chain[Len(segment.chain)])
Good(m) == m.version /\ m.hw /= 0

\* A file in order is known by the last certificate of its chain; and any other by something of the
\* size of a root that a whole certificate does not follow: so that bytes that look like one, or
\* the certificate before one that is cut, are taken for the root.  The HWID of a file in order is
\* that of its metadata when they are good, and the name's only when there are none; a chipset is
\* that of the HWID.
IdentityExact ==
  parsing = "known" =>
    /\ Orderly => identity.pk = <<Len(cells) - RootSize, RootSize>>
    /\ LET next == identity.pk[1] + identity.pk[2] IN
       /\ IsWhole(identity.pk[1]) /\ identity.pk[2] = ClaimsAt(identity.pk[1])
       /\ identity.pk[2] \in RootMin .. RootMax /\ ~IsWhole(next) /\ ClaimsAt(next) /= 0
    /\ \A k \in DOMAIN segment.meta :
         Orderly /\ Good(segment.meta[k]) => identity.hw = segment.meta[k].hw /\ ~identity.fromName
    /\ Orderly /\ programmer.format = "elf" /\ ~identity.fromName /\ identity.hw /= NoHw =>
         \E k \in DOMAIN segment.meta : Good(segment.meta[k]) /\ segment.meta[k].hw = identity.hw
    /\ identity.fromName => \E n \in name : identity.hw \in {n, Inner(n)}
    /\ identity.hw \in Msm => identity.chip = {<<"msm", identity.hw>>}
    /\ identity.hw = NoHw => identity.chip = {}

==============================================================================
