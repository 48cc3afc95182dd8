--------------------------- MODULE MCChunkPipeline --------------------------
(* A small instance of ChunkPipeline: chunks of 4 cells an edge, voxels of *)
(* 64 quanta, floats that hold every quantum to 4 voxels from the origin. *)
EXTENDS ChunkPipeline

MCHeight(s, x, z) == (3 * x * x + 5 * z + s * x * z + s) % 4
MCAnchor(s, x, z) == (7 * x + 3 * z + 5 * s) % 6 = 0
MCTrunk(s, x, z) == 1 + ((x + z + s) % 3)
MCDecorated(s, c) == (c[1] + c[2] + c[3] + s) % 3 = 0
MCOpaque(v) == v # kAir

MCRegion == {-1, 0} \X {0, 1} \X {0}
MCSpawns == {<<97, 400, 96>>}
MCArea == {1, 2} \X {1}
MCMoves == {<<0, 0>>, <<24, 0>>, <<-24, -24>>}
MCShifts == {<<4, 0, 0>>, <<-4, 0, 0>>}
=============================================================================
