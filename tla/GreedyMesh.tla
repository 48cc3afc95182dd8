----------------------------- MODULE GreedyMesh -----------------------------
(* The mesher of src/mesh/greedy.cpp, on unpacked chunks (ChunkCodec).     *)
(* Axes are 0, 1, 2 as in the code; local coordinates start at 0.          *)
EXTENDS ChunkCodec

CONSTANTS
  Extent,          \* kChunkEdge
  IsOpaque(_)      \* the injected predicate

NoFace == -1
Local == 0 .. (Extent - 1)

Face == [d : 0 .. 2, positive : BOOLEAN]
U(d) == (d + 1) % 3
V(d) == (d + 2) % 3

(* The point with the given coordinates on the axes d, u and v. *)
Point(d, along, u, v) ==
  [i \in 1 .. 3 |-> IF i - 1 = d THEN along ELSE IF i - 1 = U(d) THEN u ELSE v]

(* buildGrid: the palette slot of every cell, indexed by position.         *)
Grid(chunk) ==
  [p \in Local \X Local \X Local |-> SlotOf(chunk.palette, chunk.cells[MortonEncode(p)])]

OpaqueSlot(chunk, slot) == IsOpaque(chunk.palette[slot + 1])

(* Is the face of a cell hidden by the cell it looks at, which may lie in  *)
(* the neighbour's view, at the wrapped layer?  No view, nothing there.    *)
Covered(chunk, grid, views, f, c) ==
  LET step == IF f.positive THEN 1 ELSE -1
      n    == [c EXCEPT ![f.d + 1] = @ + step]
  IN  IF n[f.d + 1] \in Local
      THEN OpaqueSlot(chunk, grid[<<n[1], n[2], n[3]>>])
      ELSE /\ f \in DOMAIN views
           /\ IsOpaque(views[f].cells[MortonEncode([n EXCEPT ![f.d + 1] = @ % Extent])])

(* buildMask: the visible faces of one slice, by their slots.              *)
Mask(chunk, grid, views, f, slice) ==
  [uv \in Local \X Local |->
     LET c    == Point(f.d, slice, uv[1], uv[2])
         slot == grid[<<c[1], c[2], c[3]>>]
     IN  IF OpaqueSlot(chunk, slot) /\ ~Covered(chunk, grid, views, f, c) THEN slot ELSE NoFace]

(* Mutant: the rectangle grows down over rows that another one has taken.  *)
Row(u, v, dv) == {<<u, k>> : k \in v .. (v + dv - 1)}
RowOkIgnoringClaims(mask, claimed, slot, row) == \A r \in row : mask[r] = slot
RowOk(mask, claimed, slot, row) == \A r \in row : mask[r] = slot /\ r \notin claimed

(* How far a run grows: to the first extension that is blocked, or to the  *)
(* limit.                                                                  *)
Extend(limit, blocked) == Min(blocked \cup {limit})

(* The greedy step at one cell: width along v, then height along u. *)
Claim(mask, acc, uv) ==
  IF mask[uv] = NoFace \/ uv \in acc.claimed THEN acc
  ELSE LET slot == mask[uv]
           u  == uv[1]
           v  == uv[2]
           Blocked(row) == ~RowOk(mask, acc.claimed, slot, row)
           dv == Extend(Extent - v, {k \in 1 .. (Extent - v - 1) : Blocked({<<u, v + k>>})})
           du == Extend(Extent - u, {k \in 1 .. (Extent - u - 1) : Blocked(Row(u + k, v, dv))})
       IN  [claimed |-> acc.claimed \cup UNION {Row(u + k, v, dv) : k \in 0 .. (du - 1)},
            rects |-> acc.rects \cup {[u |-> u, v |-> v, du |-> du, dv |-> dv, slot |-> slot]}]

ScanOrder ==
  [i \in 1 .. (Extent * Extent) |-> <<(i - 1) \div Extent, (i - 1) % Extent>>]

Rects(mask) ==
  FoldLeft(LAMBDA acc, uv : Claim(mask, acc, uv), [claimed |-> {}, rects |-> {}], ScanOrder).rects

(* Emitter::quad: the corners in emission order, wound counter-clockwise   *)
(* seen from the side the face looks to.                                   *)
Quad(f, slice, r) ==
  LET p == IF f.positive THEN slice + 1 ELSE slice
      At(au, av) == Point(f.d, p, r.u + au, r.v + av)
  IN  [face |-> f, slot |-> r.slot,
       corners |-> IF f.positive
                   THEN <<At(0, 0), At(r.du, 0), At(r.du, r.dv), At(0, r.dv)>>
                   ELSE <<At(0, 0), At(0, r.dv), At(r.du, r.dv), At(r.du, 0)>>]

(* meshImpl with merging; a chunk of another extent gives an empty mesh.   *)
Mesh(chunk, views) ==
  IF chunk.log2Extent = 0 \/ 2 ^ chunk.log2Extent # Extent THEN {}
  ELSE LET grid == Grid(chunk)
       IN  UNION {{Quad(f, slice, r) : r \in Rects(Mask(chunk, grid, views, f, slice))} :
                    f \in Face, slice \in Local}

-----------------------------------------------------------------------------
(* What a quad covers, from its corners alone: the unit faces, as the cell *)
(* behind each; and the direction its winding makes it face.               *)
Lo(q, i) == Min({q.corners[k][i] : k \in 1 .. 4})
Hi(q, i) == Max({q.corners[k][i] : k \in 1 .. 4})

Behind(q) ==
  LET Range3(i) == IF i - 1 = q.face.d
                   THEN {Lo(q, i) - (IF q.face.positive THEN 1 ELSE 0)}
                   ELSE Lo(q, i) .. (Hi(q, i) - 1)
  IN  Range3(1) \X Range3(2) \X Range3(3)

Edge3(q, k, i) == q.corners[k][i] - q.corners[1][i]
Outward(q) ==
  LET u == U(q.face.d) + 1
      v == V(q.face.d) + 1
      cross == Edge3(q, 2, u) * Edge3(q, 3, v) - Edge3(q, 2, v) * Edge3(q, 3, u)
  IN  IF q.face.positive THEN cross > 0 ELSE cross < 0
=============================================================================
