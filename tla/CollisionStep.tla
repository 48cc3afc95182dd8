---------------------------- MODULE CollisionStep ---------------------------
(* The collision step of src/sim/collision_step.cpp and the rebase of      *)
(* src/sim/rebase.cpp.  Lengths are integers in quanta of 1/Cell of a      *)
(* voxel.  Arithmetic is that of binary32: every sum is rounded to         *)
(* nearest, ties to even, so what is exact near the origin is not far from *)
(* it.                                                                     *)
EXTENDS ChunkCodec

CONSTANTS
  Cell,            \* quanta in a voxel, a power of two
  Exact,           \* up to here integers are floats: 2^24 in binary32
  KMaxSubstep,     \* the longest substep, 1/16 of a voxel in the code
  KWorldBound      \* the position guard

ASSUME FloatAssumption ==
  /\ Exact \in Nat /\ Exact > 0 /\ Exact % 2 = 0
  /\ Cell \in Nat /\ Cell > 0
  /\ KMaxSubstep \in Nat /\ KMaxSubstep > 0 /\ 4 * KMaxSubstep <= Cell
  /\ KWorldBound \in Nat

Abs(n) == IF n < 0 THEN -n ELSE n

(* The spacing of floats at n, which doubles at Exact and at every power   *)
(* of two times it (so far out as a walk goes), and the float nearest n.   *)
Doublings == {1, 2, 4, 8, 16, 32, 64}
Ulp(n) == Max({1} \cup {2 * d : d \in {e \in Doublings : e * Exact <= Abs(n)}})
Fl(n) ==
  LET u == Ulp(n)
      q == n \div u
      r == n % u
  IN  IF 2 * r < u \/ (2 * r = u /\ q % 2 = 0) THEN q * u ELSE (q + 1) * u

DetClamp(n, lo, hi) == IF n < lo THEN lo ELSE IF n > hi THEN hi ELSE n
DetFloorToInt(n) == n \div Cell

(* The voxels overlapped by [lo, hi).                                      *)
OverlapRange(lo, hi) ==
  LET h == DetFloorToInt(hi)
  IN  DetFloorToInt(lo) .. (IF h * Cell = hi THEN h - 1 ELSE h)

(* SolidityWorld::solidAt, the injected SolidFn: floor division and its    *)
(* remainder; a chunk that is not there is air, as is content 0.           *)
SolidAt(chunks, x, y, z) ==
  LET e  == 2 ^ Log2Edge
      cp == <<x \div e, y \div e, z \div e>>
  IN  /\ cp \in DOMAIN chunks
      /\ chunks[cp].cells[MortonEncode(<<x % e, y % e, z % e>>)] # 0

(* boxOverlapsSolid, with the world asked at cell plus origin.             *)
BoxOverlapsSolid(pos, he, origin, chunks) ==
  LET R(i) == OverlapRange(Fl(pos[i] - he), Fl(pos[i] + he))
  IN  \E x \in R(1), y \in R(2), z \in R(3) :
        SolidAt(chunks, x + origin[1], y + origin[2], z + origin[3])

(* Where a blocked substep ends: flush with the voxel the leading face     *)
(* entered.                                                                *)
Flush(p, he, positive) ==
  IF positive THEN Fl(DetFloorToInt(Fl(p + he)) * Cell - he)
              ELSE Fl((DetFloorToInt(Fl(p - he)) + 1) * Cell + he)

(* Mutant: the flush position is taken without looking again. *)
SettledUnchecked(flush, prev, inside) == flush
(* Mutant: a blocked substep is undone instead of clamped. *)
SettledBefore(flush, prev, inside) == prev
(* The flush position, unless the box is still inside: then the one before *)
(* the substep.                                                            *)
Settled(flush, prev, inside) == IF inside THEN prev ELSE flush

(* The substeps of a displacement, and the coordinates they lead through.  *)
Count(delta) == Abs(delta) \div KMaxSubstep + 1
Path(p, delta) ==
  LET sub == Fl(delta \div Count(delta))
      path[i \in 0 .. Count(delta)] == IF i = 0 THEN p ELSE Fl(path[i - 1] + sub)
  IN  path

(* sweepAxis: the position, and whether the axis was blocked.              *)
SweepAxis(pos, axis, delta, he, origin, chunks) ==
  LET path  == Path(pos[axis], delta)
      At(p) == [pos EXCEPT ![axis] = p]
      Inside(p) == BoxOverlapsSolid(At(p), he, origin, chunks)
      hits  == {i \in 1 .. Count(delta) : Inside(path[i])}
  IN  IF delta = 0 THEN [pos |-> pos, blocked |-> FALSE]
      ELSE IF hits = {} THEN [pos |-> At(path[Count(delta)]), blocked |-> FALSE]
      ELSE LET i == Min(hits)
               flush == Flush(path[i], he, delta > 0)
           IN  [pos |-> At(Settled(flush, path[i - 1], Inside(flush))), blocked |-> TRUE]

Clamped(pos) == [i \in 1 .. 3 |-> DetClamp(pos[i], -KWorldBound, KWorldBound)]

(* collisionStep, for the displacements the integrated velocity asks for:  *)
(* Y first, then X, then Z.                                                *)
Swept(pos, v, he, origin, chunks) ==
  LET y == SweepAxis(Clamped(pos), 2, v[2], he, origin, chunks)
      x == SweepAxis(y.pos, 1, v[1], he, origin, chunks)
      z == SweepAxis(x.pos, 3, v[3], he, origin, chunks)
  IN  [pos |-> Clamped(z.pos), blockedY |-> y.blocked,
       onGround |-> y.blocked /\ v[2] < 0]

(* rebaseFrame on one axis: the new local coordinate, and whether adding   *)
(* the shift back gives the old one.                                       *)
Rebased(p, d) == Fl(p - d * Cell)
(* Mutant: the report compares the result with the rounded difference. *)
AddsBackToItself(p, d) == d = 0 \/ Fl(p - d * Cell) = Rebased(p, d)
AddsBack(p, d) == d = 0 \/ Fl(Rebased(p, d) + d * Cell) = p
=============================================================================
