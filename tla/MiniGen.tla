------------------------------- MODULE MiniGen ------------------------------
(* The chunk generator of src/gen/minigen.cpp.  Its coordinate hash is     *)
(* arbitrary here: the constants below are what the generator derives from *)
(* it.  A chunk is a function from its world cells to contents.            *)
EXTENDS Integers, SequencesExt

CONSTANTS
  Edge,                  \* kGenChunk
  ReachXZ,               \* kReachXZ, also the radius of a canopy
  SurfaceHeight(_, _, _),     \* seed, column
  IsAnchor(_, _, _),          \* seed, column
  TrunkHeight(_, _, _),       \* seed, column
  Decorated(_, _),            \* seed, cell: the DECO hash is 0 modulo 7
  CoordBits              \* width of a coordinate in anchorOrderKey

ASSUME GatherWindowSuffices == ReachXZ < Edge

kAir    == 0
kStone  == 1
kDirt   == 2
kGrass  == 3
kWood   == 4
kLeaves == 5
kFlower == 6

Along(i) == (Edge * i) .. (Edge * i + Edge - 1)     \* a chunk's share of an axis
CellsOf(cp) == Along(cp[1]) \X Along(cp[2]) \X Along(cp[3])

Terrain(seed, c) ==
  LET h == SurfaceHeight(seed, c[1], c[3])
  IN  CASE c[2] < h - 3 -> kStone
        [] c[2] >= h - 3 /\ c[2] < h -> kDirt
        [] c[2] = h -> kGrass
        [] OTHER -> kAir

Magnitude(n) == IF n < 0 THEN -n ELSE n

(* What the tree of a column leaves in a cell: the canopy is emitted       *)
(* first, so that the trunk wins its own cells.  kAir: nothing.            *)
TreeCell(seed, a, c) ==
  LET h   == SurfaceHeight(seed, a[1], a[2])
      top == h + TrunkHeight(seed, a[1], a[2])
      off == Magnitude(c[1] - a[1]) + Magnitude(c[3] - a[2])
  IN  IF off = 0 /\ c[2] \in (h + 1) .. top THEN kWood
      ELSE IF off + Magnitude(c[2] - top) <= ReachXZ THEN kLeaves
      ELSE kAir

(* A cell after the trees are stamped over it, in turn: each writes only   *)
(* what lies in the chunk.                                                 *)
Stamp(seed, trees, c) ==
  FoldLeft(LAMBDA v, a : LET t == TreeCell(seed, a, c) IN IF t = kAir THEN v ELSE t,
           Terrain(seed, c), trees)

Decorate(seed, c, v) == IF v = kGrass /\ Decorated(seed, c) THEN kFlower ELSE v

(* Columns in the order of the two loops, z outside, from a corner.        *)
LoopColumns(x, z, width) ==
  [i \in 1 .. (width * width) |-> <<x + ((i - 1) % width), z + ((i - 1) \div width)>>]

(* Mutant: a chunk gathers from its own columns only. *)
OwnColumns(cp) == LoopColumns(Edge * cp[1], Edge * cp[3], Edge)

(* The columns a chunk gathers from: its own, widened by the reach.        *)
GatherColumns(cp) ==
  LoopColumns(Edge * cp[1] - ReachXZ, Edge * cp[3] - ReachXZ, Edge + 2 * ReachXZ)

GenerateChunk(seed, cp) ==
  LET trees == SelectSeq(GatherColumns(cp), LAMBDA a : IsAnchor(seed, a[1], a[2]))
  IN  [c \in CellsOf(cp) |-> Decorate(seed, c, Stamp(seed, trees, c))]

-----------------------------------------------------------------------------
(* The canonical order of anchors: unsigned keys with the sign bits        *)
(* flipped, z above x.                                                     *)
Flipped(n) == (n + 2 ^ (CoordBits - 1)) % 2 ^ CoordBits
AnchorOrderKey(a) == Flipped(a[2]) * 2 ^ CoordBits + Flipped(a[1])

(* A cell of the world in one piece: of the trees that reach it, wherever  *)
(* they stand, the one with the greatest key has the last word.            *)
WholeCell(seed, columns, c) ==
  LET reaching == {a \in columns : IsAnchor(seed, a[1], a[2]) /\ TreeCell(seed, a, c) # kAir}
      content  == IF reaching = {} THEN Terrain(seed, c)
                  ELSE TreeCell(seed, CHOOSE a \in reaching :
                         \A b \in reaching : AnchorOrderKey(b) <= AnchorOrderKey(a), c)
  IN  IF content = kGrass /\ Decorated(seed, c) THEN kFlower ELSE content
=============================================================================
