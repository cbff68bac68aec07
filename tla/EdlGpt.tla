-------------------------------- MODULE EdlGpt --------------------------------
(***************************************************************************)
(* list_partitions of edl.rs and edl_gpt.rs: a fixed number of sectors is   *)
(* read from the start of a LUN, and the partition table in them is walked  *)
(* entry by entry.  A byte of the model stands for 128, the least size of   *)
(* an entry.  Addresses, in bytes and in sectors, are below AddressSpace;   *)
(* beyond it a release build goes on with the remainder and a debug build   *)
(* panics, and list_partitions does not catch a panic of its own: the       *)
(* command fails and loses the connection, a release build aborts.          *)
(***************************************************************************)
EXTENDS Integers, Sequences

CONSTANTS
  SectorSize,   \* bytes of a sector
  ReadSectors,  \* num_sectors of list_partitions
  AddressSpace, \* addresses that fit: 2^64
  Entries,      \* what the bytes of an entry may say
  Tables        \* what the LUN may hold: [signature, size, lba, entries]

Address == 0 .. AddressSpace - 1
\* An entry in use has a type, and may be corrupt.
Entry == [used : BOOLEAN, first : Address, last : Address]

\* What the constants are.
GptAssumption ==
  /\ SectorSize \in Nat \ {0} /\ ReadSectors \in Nat /\ AddressSpace \in Nat /\ Entries \subseteq Entry
  /\ ReadSectors * SectorSize < AddressSpace
  /\ \A t \in Tables : /\ t.signature \in BOOLEAN /\ t.size \in Address /\ t.lba \in Address
                       /\ t.entries \in Seq(Entries)

VARIABLES
  table,   \* the LUN's table
  row,     \* entries walked
  parts,   \* the partitions found: [entry, start, sectors]
  listing  \* "none", "read", "walking", "listed", "error", "panic"

gptVars == <<table, row, parts, listing>>

NoTable == [signature |-> FALSE, size |-> 0, lba |-> 0, entries |-> <<>>]
Init == table = NoTable /\ row = 0 /\ parts = <<>> /\ listing = "none"

\* The read may fail, or panic inside qdlrs, which qdl_safe turns into an error.
ReadTable ==
  /\ listing = "none" /\ table' \in Tables /\ listing' \in {"read", "error"}
  /\ UNCHANGED <<row, parts>>

\* parse_gpt_header: the checksums are not looked at.
ParseHeader ==
  /\ listing = "read"
  /\ listing' = IF table.signature /\ table.size >= 1 THEN "walking" ELSE "error"
  /\ UNCHANGED <<table, row, parts>>

\* Where the table is, and where entry i ends, in numbers without width.
Start == table.lba * SectorSize
End(i) == Start + i * table.size

\* The same in 64 bits.
Offset(i) == (Start + (i - 1) * table.size) % AddressSpace
After(i) == (Offset(i) + table.size) % AddressSpace
\* Mutant: the last entry that fits is taken for one that does not.
FitsTightly(i) == After(i) < ReadSectors * SectorSize
Fits(i) == After(i) <= ReadSectors * SectorSize

\* The table's address does not fit: what is walked are other bytes.
Astray == Start >= AddressSpace

Valid(e) == e.used /\ e.first <= e.last
\* num_sectors, in the width of an address.
Sectors(e) == (e.last - e.first + 1) % AddressSpace

ParseEntry ==
  /\ listing = "walking" /\ row < Len(table.entries) /\ Fits(row + 1) /\ Offset(row + 1) <= After(row + 1)
  /\ \E e \in IF Astray THEN Entries ELSE {table.entries[row + 1]} :
       parts' = IF Valid(e) THEN Append(parts, [entry |-> row + 1, start |-> e.first, sectors |-> Sectors(e)]) ELSE parts
  /\ row' = row + 1 /\ UNCHANGED <<table, listing>>

\* An address or a size that does not fit, in a debug build; in both builds an entry that fits
\* only because its end was wrapped, at the slice.
Panic ==
  /\ listing = "walking" /\ listing' = "panic"
  /\ \/ Astray
     \/ row < Len(table.entries) /\ End(row + 1) >= AddressSpace
     \/ /\ row < Len(table.entries) /\ Fits(row + 1)
        /\ LET e == table.entries[row + 1] IN Valid(e) /\ (e.last - e.first + 1) * SectorSize >= AddressSpace
  /\ UNCHANGED <<table, row, parts>>

Listed ==
  /\ listing = "walking" /\ (row = Len(table.entries) \/ ~Fits(row + 1))
  /\ listing' = "listed" /\ UNCHANGED <<table, row, parts>>

Next == ReadTable \/ ParseHeader \/ ParseEntry \/ Panic \/ Listed

Spec == Init /\ [][Next]_gptVars

------------------------------------------------------------------------------

GptTypeOK ==
  /\ table \in Tables \union {NoTable} /\ row \in 0 .. Len(table.entries) /\ Len(parts) <= row
  /\ listing \in {"none", "read", "walking", "listed", "error", "panic"}

InRead(i) == End(i) <= ReadSectors * SectorSize
\* The partitions listed are the valid entries of the table, each once and in order, as far
\* as the sectors read hold them, and each with its own extent: only one that covers every
\* address has no size.  (A header whose table lies beyond the last address gets other bytes
\* listed as partitions, or a panic.)
GptExact ==
  /\ \A j, k \in DOMAIN parts : j < k => parts[j].entry < parts[k].entry
  /\ listing = "listed" /\ ~Astray =>
       {parts[k].entry : k \in DOMAIN parts} =
         {i \in DOMAIN table.entries : Valid(table.entries[i]) /\ InRead(i)}
  /\ ~Astray => \A k \in DOMAIN parts :
       LET e == table.entries[parts[k].entry] IN
       /\ parts[k].start = e.first
       /\ parts[k].start + parts[k].sectors - 1 = e.last
            \/ (parts[k].sectors = 0 /\ e.first = 0 /\ e.last = AddressSpace - 1)

==============================================================================
