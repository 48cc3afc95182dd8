----------------------------- MODULE ChunkCodec -----------------------------
(* The Morton order of src/voxel/morton.hpp and the palette-compressed     *)
(* chunk blob of src/world/voxel_blob.hpp.  A blob is its header fields,   *)
(* its palette and its index stream, in words of WordBits bits.            *)
EXTENDS Integers, SequencesExt, FiniteSetsExt

CONSTANTS
  WordBits,      \* 64 in the format; every index width divides it
  Log2Edge       \* kVoxelBlobChunkLog2ExtentV1

MaxLog2Extent == 5     \* kMortonBitsPerAxis
LegalIndexBits == {0, 1, 2, 4, 8, 16}

(* Bit i of a coordinate goes to bit 3i, 3i + 1 or 3i + 2 of the code.     *)
Bit(n, i) == (n \div 2 ^ i) % 2
SumOfBits(F(_)) == F(0) + F(1) + F(2) + F(3) + F(4)
Spread3 == [n \in 0 .. (2 ^ MaxLog2Extent - 1) |-> SumOfBits(LAMBDA i : Bit(n, i) * 8 ^ i)]
Gather3(m) == SumOfBits(LAMBDA i : Bit(m, 3 * i) * 2 ^ i)
MortonEncode(p) == Spread3[p[1]] + 2 * Spread3[p[2]] + 4 * Spread3[p[3]]
MortonDecode(m) == <<Gather3(m), Gather3(m \div 2), Gather3(m \div 4)>>

CellCount(log2) == 8 ^ log2

MinimalIndexBits(count) ==
  CHOOSE b \in LegalIndexBits :
    /\ count <= 2 ^ b
    /\ \A c \in LegalIndexBits : c < b => count > 2 ^ c

IndexWords(log2, bits) == (CellCount(log2) * bits + WordBits - 1) \div WordBits

(* packVoxelBlob: cells in Morton order, from 0.  The palette lists the    *)
(* values in the order they first appear.                                  *)
Palette(cells, log2) ==
  LET order  == [i \in 1 .. CellCount(log2) |-> i - 1]
      firsts == SelectSeq(order, LAMBDA i : \A j \in 0 .. (i - 1) : cells[j] # cells[i])
  IN  [k \in DOMAIN firsts |-> cells[firsts[k]]]

SlotOf(palette, v) == (CHOOSE s \in DOMAIN palette : palette[s] = v) - 1

Pack(cells, log2) ==
  LET palette == Palette(cells, log2)
      bits    == MinimalIndexBits(Len(palette))
      perWord == WordBits \div bits
      Word(w) == MapThenSumSet(LAMBDA k : SlotOf(palette, cells[w * perWord + k]) * 2 ^ (k * bits),
                               {k \in 0 .. (perWord - 1) : w * perWord + k < CellCount(log2)})
  IN  [log2Extent |-> log2, indexBits |-> bits, palette |-> palette,
       words |-> IF bits = 0 THEN <<>> ELSE [w \in 1 .. IndexWords(log2, bits) |-> Word(w - 1)]]

(* readHeader, the size of the blob included.                              *)
HeaderOk(blob) ==
  /\ blob.log2Extent \in 1 .. MaxLog2Extent
  /\ blob.indexBits \in LegalIndexBits
  /\ Len(blob.palette) \in 1 .. CellCount(blob.log2Extent)
  /\ Len(blob.palette) <= 2 ^ blob.indexBits
  /\ Len(blob.words) = IndexWords(blob.log2Extent, blob.indexBits)

ReadIndex(blob, cell) ==
  LET at == cell * blob.indexBits
  IN  (blob.words[at \div WordBits + 1] \div 2 ^ (at % WordBits)) % 2 ^ blob.indexBits

Slot(blob, cell) == IF blob.indexBits = 0 THEN 0 ELSE ReadIndex(blob, cell)

NoChunk == [log2Extent |-> 0]

(* unpackVoxelBlob: every index is checked against the palette.            *)
Unpack(blob) ==
  LET cells == 0 .. (CellCount(blob.log2Extent) - 1)
  IN  IF HeaderOk(blob) /\ \A i \in cells : Slot(blob, i) < Len(blob.palette)
      THEN [log2Extent |-> blob.log2Extent, palette |-> blob.palette,
            cells |-> [i \in cells |-> blob.palette[Slot(blob, i) + 1]]]
      ELSE NoChunk
=============================================================================
