------------------------------ MODULE EdlSparse -------------------------------
(***************************************************************************)
(* sparse.rs: an Android sparse image is expanded, chunk by chunk, to a     *)
(* temporary file next to it.  A file is a sequence of cells: a header, a   *)
(* chunk header, a byte of raw data, a fill pattern or a checksum; it may   *)
(* end anywhere.  A byte written is a pair: the chunk it came from and its  *)
(* place in the chunk's data or pattern; <<0, 0>> is a zero.  Any operation *)
(* on either file may fail.                                                 *)
(***************************************************************************)
EXTENDS Integers, Sequences, SequencesExt

CONSTANTS
  BlockSizes,  \* block sizes, in bytes
  Blocks,      \* bound: blocks of a chunk
  MaxChunks    \* bound: chunks of an image

\* What the constants are.
SparseAssumption ==
  /\ BlockSizes \subseteq Nat /\ Blocks \subseteq Nat
  /\ MaxChunks \in Nat

VARIABLES
  chunks,    \* what the image was made from
  blockSize,
  file,      \* its cells
  offset,    \* cells read so far
  toGo,      \* chunks still to read
  image,     \* the temporary file, NoFile before it is created
  expansion  \* "none", "opened", "chunks", "raw", "expanded", "error" (the image is bad), "failed" (a file is)

sparseVars == <<chunks, blockSize, file, offset, toGo, image, expansion>>

Kinds == {"raw", "fill", "dont_care", "crc32", "other"}
NoFile == <<"no file">>
MagicOnly == [cell |-> "magic"]   \* a file that is cut in its header
Word == 4
Zero == <<0, 0>>

\* Cells of a chunk's body, and its bytes once expanded, by the format's definition.
Body(c, n, bs) ==
  CASE c.kind = "raw" -> [k \in 1 .. c.blocks * bs |-> [cell |-> "byte", value |-> <<n, k>>]]
    [] c.kind \in {"fill", "crc32"} -> <<[cell |-> "word", value |-> n]>>
    [] OTHER -> <<>>
Cells(cs, bs) ==
  <<[cell |-> "image", chunks |-> Len(cs)]>> \o
  FlattenSeq([n \in DOMAIN cs |-> <<[cell |-> "chunk", kind |-> cs[n].kind, blocks |-> cs[n].blocks]>>
                                   \o Body(cs[n], n, bs)])

Init ==
  /\ chunks = <<>> /\ blockSize = 0 /\ file = <<>> /\ offset = 0 /\ toGo = 0
  /\ image = NoFile /\ expansion = "none"

\* The file given: a sparse image, whole or cut short, or anything else.
Open ==
  /\ expansion = "none"
  /\ \E cs \in SeqOf([kind : Kinds, blocks : Blocks], MaxChunks), bs \in BlockSizes :
       /\ chunks' = cs /\ blockSize' = bs
       /\ \/ \E n \in 0 .. Len(Cells(cs, bs)) : file' = SubSeq(Cells(cs, bs), 1, n)
          \/ file' = <<[cell |-> "byte", value |-> Zero]>>
          \/ file' = <<MagicOnly>>
  /\ expansion' = "opened" /\ UNCHANGED <<offset, toGo, image>>

At(n) == IF n <= Len(file) THEN file[n] ELSE [cell |-> "end"]

\* is_sparse reads the magic and seeks back: a file without it is used as it is.
Plain ==
  /\ expansion = "opened" /\ At(1).cell \notin {"image", "magic"}
  /\ expansion' = "raw" /\ UNCHANGED <<chunks, blockSize, file, offset, toGo, image>>

\* The temporary file is created, and the header read: total_blks is not looked at.
Header ==
  /\ expansion = "opened" /\ At(1).cell = "image"
  /\ toGo' = At(1).chunks /\ offset' = 1 /\ image' = <<>> /\ expansion' = "chunks"
  /\ UNCHANGED <<chunks, blockSize, file>>

\* The header is cut short: the temporary file is there already.
BadHeader ==
  /\ expansion = "opened" /\ At(1) = MagicOnly /\ image' = <<>> /\ expansion' = "error"
  /\ UNCHANGED <<chunks, blockSize, file, offset, toGo>>

Repeat(s, n) == FlattenSeq([i \in 1 .. n |-> s])
Pattern(n) == [k \in 1 .. Word |-> <<n, k>>]
Available(n) == Len(file) - offset > n

Copy(c) ==
  /\ Available(c.blocks * blockSize)
  /\ image' = image \o [k \in 1 .. c.blocks * blockSize |-> file[offset + 1 + k].value]
  /\ offset' = offset + 1 + c.blocks * blockSize
\* A block of a fill is whole patterns: shorter than the block when its size is no multiple.
Fill(c) ==
  /\ Available(1)
  /\ image' = image \o Repeat(Repeat(Pattern(file[offset + 2].value), blockSize \div Word), c.blocks)
  /\ offset' = offset + 2
Skip(c) ==
  /\ image' = image \o Repeat(<<Zero>>, c.blocks * blockSize)
  /\ offset' = offset + 1
\* Mutant: the checksum is not read, so that it is taken for the next chunk.
ChecksumLeft ==
  /\ Available(1) /\ offset' = offset + 1 /\ UNCHANGED image
Checksum ==
  /\ Available(1) /\ offset' = offset + 2 /\ UNCHANGED image

ReadChunk ==
  LET c == At(offset + 1) IN
  /\ expansion = "chunks" /\ toGo > 0 /\ c.cell = "chunk"
  /\ \/ c.kind = "raw" /\ Copy(c)
     \/ c.kind = "fill" /\ Fill(c)
     \/ c.kind = "dont_care" /\ Skip(c)
     \/ c.kind = "crc32" /\ Checksum
  /\ toGo' = toGo - 1 /\ UNCHANGED <<chunks, blockSize, file, expansion>>

Short(c) ==
  \/ c.kind = "raw" /\ ~Available(c.blocks * blockSize)
  \/ c.kind \in {"fill", "crc32"} /\ ~Available(1)

\* The end of the file, what is not a chunk, or a chunk of no known type: the temporary
\* file stays where it is, with what could be copied of the last chunk, which is not shown here.
BadChunk ==
  LET c == At(offset + 1) IN
  /\ expansion = "chunks" /\ toGo > 0
  /\ \/ c.cell /= "chunk"
     \/ c.cell = "chunk" /\ (c.kind = "other" \/ Short(c))
  /\ expansion' = "error" /\ UNCHANGED <<chunks, blockSize, file, offset, toGo, image>>

Expanded ==
  /\ expansion = "chunks" /\ toGo = 0 /\ expansion' = "expanded"
  /\ UNCHANGED <<chunks, blockSize, file, offset, toGo, image>>

\* Opening or reading the image fails, or its seek; creating the temporary file or writing to it
\* (the disk is full).  What is there of the temporary file stays.
FileFails ==
  /\ expansion \in {"opened", "chunks"} /\ expansion' = "failed"
  /\ image' = image \/ (expansion = "opened" /\ At(1).cell \in {"image", "magic"} /\ image' = <<>>)
  /\ UNCHANGED <<chunks, blockSize, file, offset, toGo>>

Next == Open \/ Plain \/ Header \/ BadHeader \/ ReadChunk \/ BadChunk \/ FileFails \/ Expanded

Spec == Init /\ [][Next]_sparseVars

------------------------------------------------------------------------------

SparseTypeOK ==
  /\ blockSize \in Nat /\ offset \in 0 .. Len(file) /\ toGo \in 0 .. MaxChunks
  /\ expansion \in {"none", "opened", "chunks", "raw", "expanded", "error", "failed"}

Size(c) == IF c.kind = "crc32" THEN 0 ELSE c.blocks * blockSize
ByteOf(n, k) ==
  CASE chunks[n].kind = "raw" -> <<n, k>>
    [] chunks[n].kind = "fill" -> <<n, ((k - 1) % Word) + 1>>
    [] OTHER -> Zero
Reference == FlattenSeq([n \in DOMAIN chunks |-> [k \in 1 .. Size(chunks[n]) |-> ByteOf(n, k)]])

Whole == file = Cells(chunks, blockSize)

\* decompress_sparse succeeds only on a whole image of known chunks, and refuses no such image
\* unless an operation on a file fails; what it wrote when it succeeds is what the format says,
\* byte for byte, when blocks are whole words.
SparseExact ==
  /\ expansion = "expanded" =>
       /\ Whole /\ \A n \in DOMAIN chunks : chunks[n].kind /= "other"
       /\ blockSize % Word = 0 => image = Reference
  /\ expansion = "error" => ~Whole \/ \E n \in DOMAIN chunks : chunks[n].kind = "other"

==============================================================================
