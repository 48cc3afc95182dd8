---------------------------- MODULE ChunkPipeline ---------------------------
(* A chunk's way from the generator to the screen and under the player's   *)
(* feet: generateChunk, the packing and unpacking of loadOrGenerateRegion, *)
(* greedyMesh over the resident neighbours, SolidityWorld, and a player    *)
(* who walks in the result, in a frame that may be rebased.                *)
EXTENDS MiniGen, GreedyMesh, CollisionStep

CONSTANTS
  Seeds, Region,     \* the worlds, and the chunks that are made of each
  Bodies,            \* half extents
  Spawns,            \* where a player may be dropped: world positions
  Area,              \* the columns the walk is bounded to
  Moves,             \* displacements per tick a player may ask for: <<x, z>>
  JumpSpeed,         \* a speed is a displacement per tick
  Gravity,           \* what one tick takes off the vertical speed
  MaxSpeed,
  Shifts,            \* rebases, in voxels
  Reach              \* the walk stays this close to the frame's origin

(* No quotient delta / count needs rounding. *)
ASSUME SubstepsAreExact ==
  /\ JumpSpeed % Gravity = 0 /\ MaxSpeed % Gravity = 0 /\ JumpSpeed <= MaxSpeed
  /\ \A v \in {g \in -MaxSpeed .. MaxSpeed : g % Gravity = 0}
             \cup UNION {{m[1], m[2]} : m \in Moves} :
       v % (Abs(v) \div KMaxSubstep + 1) = 0

(* The coarsest spacing of floats the walk, or the box around it, meets.   *)
Coarse == Ulp(Reach + 2 * Cell)

(* Half extents are less than half a voxel (player.hpp:42-44), players are *)
(* dropped at floats inside the position guard, whole voxels are floats as *)
(* far as the walk goes ("2^23 < 2^24", collision_step.cpp:15-19), and a   *)
(* rebase shifts (by zero it is the identity).                             *)
ASSUME WalkAssumption ==
  /\ \A he \in Bodies : he \in Nat /\ he > 0 /\ 2 * he < Cell
  /\ Spawns \subseteq [1 .. 3 -> Int] /\ Shifts \subseteq [1 .. 3 -> Int]
  /\ Moves \subseteq [1 .. 2 -> Int]
  /\ JumpSpeed \in Nat /\ Gravity \in Nat /\ Gravity > 0
  /\ MaxSpeed \in Nat /\ Gravity <= MaxSpeed
  /\ Reach \in Nat /\ Reach > 0 /\ Reach <= KWorldBound + 1
  /\ Fl(KWorldBound) = KWorldBound /\ Cell % Coarse = 0
  /\ \A at \in Spawns, i \in 1 .. 3 : Fl(at[i]) = at[i] /\ Abs(at[i]) < Reach
  /\ \A d \in Shifts : \E i \in 1 .. 3 : d[i] # 0

VARIABLES
  seed,
  resident,    \* the unpacked chunks, by position
  meshes,      \* their meshes, by position, once all are resident
  body,        \* the player, or NoBody
  frame,       \* the origin of the local frame, in voxels
  rebased      \* since the player last moved: "never", or were all rebases
               \* "exact", or some "lossy"

vars == <<seed, resident, meshes, body, frame, rebased>>

NoBody == [he |-> 0]

Init ==
  /\ seed \in Seeds
  /\ resident = <<>>
  /\ meshes = <<>>
  /\ body = NoBody
  /\ frame = <<0, 0, 0>>
  /\ rebased = "never"

-----------------------------------------------------------------------------
(* The miss path of loadOrGenerateRegion: generate, reorder, pack, unpack. *)
LocalOf(c, cp) == [i \in 1 .. 3 |-> c[i] - Edge * cp[i]]

MortonCells(chunk, cp) ==
  [m \in 0 .. (CellCount(Log2Edge) - 1) |->
     LET p == MortonDecode(m)
     IN  chunk[<<p[1] + Edge * cp[1], p[2] + Edge * cp[2], p[3] + Edge * cp[3]>>]]

LoadChunk(cp) ==
  /\ cp \notin DOMAIN resident
  /\ LET blob == Pack(MortonCells(GenerateChunk(seed, cp), cp), Log2Edge)
     IN  resident' = [k \in DOMAIN resident \cup {cp} |->
                        IF k = cp THEN Unpack(blob) ELSE resident[k]]
  /\ UNCHANGED <<seed, meshes, body, frame, rebased>>

(* neighborViews: the resident chunks beside one.                          *)
Beside(cp, f) == [cp EXCEPT ![f.d + 1] = @ + (IF f.positive THEN 1 ELSE -1)]
Views(cp) ==
  [f \in {g \in Face : Beside(cp, g) \in DOMAIN resident} |-> resident[Beside(cp, f)]]

(* Once all are resident, every chunk is meshed, and its slots become      *)
(* contents (remapSlotsToContent).                                         *)
Remapped(mesh, chunk) == {[q EXCEPT !.slot = chunk.palette[@ + 1]] : q \in mesh}

MeshAll ==
  /\ DOMAIN resident = Region /\ meshes = <<>>
  /\ meshes' = [cp \in Region |-> Remapped(Mesh(resident[cp], Views(cp)), resident[cp])]
  /\ UNCHANGED <<seed, resident, body, frame, rebased>>

-----------------------------------------------------------------------------
Inside(b, origin) == BoxOverlapsSolid(b.pos, b.he, origin, resident)

(* Walk mode begins with the player somewhere in the open. *)
Spawn(he, at) ==
  /\ meshes # <<>> /\ body = NoBody
  /\ body' = [he |-> he, pos |-> at, vy |-> 0, onGround |-> FALSE]
  /\ ~BoxOverlapsSolid(at, he, frame, resident)
  /\ UNCHANGED <<seed, resident, meshes, frame, rebased>>

(* Gravity and the speed limit; damping takes less than a quantum.         *)
Integrated(v) == DetClamp(v - Gravity, -MaxSpeed, MaxSpeed)

InArea == <<DetFloorToInt(body.pos[1]) + frame[1], DetFloorToInt(body.pos[3]) + frame[3]>> \in Area

(* playerStep: a jump takes last tick's ground contact; asked for in the   *)
(* air it changes nothing, so that case is the one without.                *)
PlayerStep(move, jump) ==
  /\ body # NoBody /\ InArea
  /\ jump => body.onGround
  /\ LET vy == Integrated(IF jump THEN JumpSpeed ELSE body.vy)
         s  == Swept(body.pos, <<move[1], vy, move[2]>>, body.he, frame, resident)
     IN  body' = [body EXCEPT !.pos = s.pos, !.onGround = s.onGround,
                              !.vy = IF s.blockedY THEN 0 ELSE vy]
  /\ \A i \in 1 .. 3 : Abs(body'.pos[i]) < Reach
  /\ rebased' = IF body'.pos = body.pos THEN rebased ELSE "never"
  /\ UNCHANGED <<seed, resident, meshes, frame>>

(* rebaseFrame. *)
Rebase(d) ==
  /\ body # NoBody
  /\ frame' = [i \in 1 .. 3 |-> frame[i] + d[i]]
  /\ body' = [body EXCEPT !.pos = [i \in 1 .. 3 |-> Rebased(body.pos[i], d[i])]]
  /\ \A i \in 1 .. 3 : Abs(body'.pos[i]) < Reach
  /\ LET exact == \A i \in 1 .. 3 : AddsBack(body.pos[i], d[i])
     IN  rebased' = IF exact /\ rebased # "lossy" THEN "exact" ELSE "lossy"
  /\ UNCHANGED <<seed, resident, meshes>>

Next ==
  \/ \E cp \in Region : LoadChunk(cp)
  \/ MeshAll
  \/ \E he \in Bodies, at \in Spawns : Spawn(he, at)
  \/ \E move \in Moves, jump \in BOOLEAN : PlayerStep(move, jump)
  \/ \E d \in Shifts : Rebase(d)

Spec == Init /\ [][Next]_vars

-----------------------------------------------------------------------------
World == UNION {CellsOf(cp) : cp \in Region}
Columns ==
  UNION {Along(cp[1] + i) \X Along(cp[3] + j) : cp \in Region, i \in -1 .. 1, j \in -1 .. 1}
Content(c) ==
  resident[[i \in 1 .. 3 |-> c[i] \div Edge]].cells[MortonEncode([i \in 1 .. 3 |-> c[i] % Edge])]

(* "Chunk content is a pure function of (seed, chunk position)"            *)
(* (minigen.hpp:4-6), and chunks fit together: whatever the order they are *)
(* made in, each, through packing and unpacking, is its part of the world  *)
(* generated in one piece, trees across chunk borders included.            *)
ChunksAreOneWorld ==
  DOMAIN resident = Region /\ meshes = <<>> =>
    \A c \in World : Content(c) = WholeCell(seed, Columns, c)

(* The meshes of the region are the surface of the world: each face        *)
(* between an opaque cell and a cell that is not is covered once, by a     *)
(* quad of its content wound outwards, and nothing else is, neither inside *)
(* a chunk nor where two chunks meet.                                      *)
Covers(f, c) ==
  LET cp == [i \in 1 .. 3 |-> c[i] \div Edge]
      p  == LocalOf(c, cp)
  IN  {q \in meshes[cp] : q.face = f /\ <<p[1], p[2], p[3]>> \in Behind(q)}

Visible(f, c) ==
  LET n == Beside(c, f)
  IN  IsOpaque(Content(c)) /\ (n \in World => ~IsOpaque(Content(n)))

MeshesAreTheSurface ==
  meshes # <<>> /\ body = NoBody =>
    \A f \in Face, c \in World :
      /\ Cardinality(Covers(f, c)) = (IF Visible(f, c) THEN 1 ELSE 0)
      /\ \A q \in Covers(f, c) : q.slot = Content(c) /\ Outward(q)

(* A body dropped in the open is never inside a solid voxel, by steps and  *)
(* jumps of any kind, also far out where sums are rounded: after a move it *)
(* is in the open of the frame it moved in, whatever rebases came before.  *)
(* (A rebase alone may show an overlap that the rounding of a box corner   *)
(* hid in the old frame; the next move leads out of it.)  Only the clamp   *)
(* at the position guard is not looked at again.                           *)
InGuard(b) == \A i \in 1 .. 3 : Abs(b.pos[i]) < KWorldBound
NeverInsideSolid ==
  body # NoBody /\ rebased = "never" /\ InGuard(body) => ~Inside(body, frame)

(* Positions flush with a voxel face are floats all over the walk; and a   *)
(* tick of gravity is not lost in the spacing of floats, as it is far out  *)
(* (rebase.hpp:22-23).                                                     *)
FlushExact(he) == he % Coarse = 0
GravityCounts == Coarse * Count(Gravity) <= Gravity
OnFace(b) == (b.pos[2] - b.he) % Cell = 0

(* "A landed player rests bit-exactly flush on the voxel face, with        *)
(* onGround stable every step" (player.hpp:53-55): a tick that starts in   *)
(* the open and ends on the ground ends with the lower face on a voxel     *)
(* boundary, rebases keep it there, and left alone the player, as long as  *)
(* there is ground below, stays where it is, landed.                       *)
Below(b) == [b EXCEPT !.pos[2] = @ - Cell]
LandedRests ==
  [][body # NoBody /\ FlushExact(body.he) /\ ~Inside(body, frame) =>
       /\ frame' = frame /\ body'.onGround /\ InGuard(body') => OnFace(body')
       /\ body.onGround /\ OnFace(body) =>
            /\ frame' # frame => OnFace(body') /\ body'.onGround
            /\ GravityCounts /\ Inside(Below(body), frame) /\ PlayerStep(<<0, 0>>, FALSE)
                 => body' = body]_vars

(* What rebaseFrame reports and promises (rebase.hpp:17-21, rebase.cpp:    *)
(* 106-112): a rebase reported exact moved nothing in world coordinates;   *)
(* it is exact in the window d/2 <= local <= 2d; and otherwise it is off   *)
(* by no more than the spacing of floats at the result.                    *)
Moved(i) == (body'.pos[i] + frame'[i] * Cell) - (body.pos[i] + frame[i] * Cell)
Shift(i) == (frame'[i] - frame[i]) * Cell
RebaseIsHonest ==
  [][frame' # frame =>
       /\ rebased' = "exact" => \A i \in 1 .. 3 : Moved(i) = 0
       /\ \A i \in 1 .. 3 :
            /\ Abs(Moved(i)) <= Ulp(body'.pos[i])
            /\ Shift(i) * body.pos[i] > 0 /\ Abs(Shift(i)) <= 2 * Abs(body.pos[i])
                 /\ Abs(body.pos[i]) <= 2 * Abs(Shift(i)) => Moved(i) = 0]_vars
=============================================================================
