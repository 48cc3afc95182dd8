# voxel2026: TLA+ models and proofs

A verification development kept beside the C++ of `voxel2026`. It models the parts of
the engine skeleton that keep state across calls, across threads, across the CPU/GPU
boundary or across process lifetimes, the chunk algorithms those parts feed, and the
one-shot GPU programs call by call; checks them with TLC on small instances, and
proves most of the safety properties for every value of the parameters with TLAPS.

File names below are relative to the repository root (`src/...`, `tools/...`).

## 1. The system

voxel2026 streams a voxel world around a camera. `tools/world_view.cpp` is the only
long-running program: each frame it moves the camera, tells the *streamer* which chunk
column it is in, pumps the streamer once, rebuilds the scene if the pump changed
anything, and renders. Everything else is a library below it, or a one-shot tool.

| Component | State it keeps | Operations | Talks to | What makes it hard | What makes it correct |
|---|---|---|---|---|---|
| Streamer, `src/world/stream.hpp` | window centre, map of resident chunks with cells, mesh, mesh mask | `setCenter`, `pump`, `quiescent` | belt, mesher, job system | budgeted pumps interleaved with window moves; meshes that depend on neighbours that come and go | residents and meshes are functions of the store and the window, never of the path |
| Belt, `src/world/belt.hpp` | none | `loadOrGenerateRegion` | key-value store, generator, blob codec | failed or corrupt reads, failed writes | load-or-generate never changes what a chunk is |
| Key-value store, `src/store/store.hpp`, `memory_store.hpp` | one ordered map per space | `put`, `get`, `erase`, `applyBatch`, `scanPrefix` | everything persistent | (reference implementation) | it *is* the conformance oracle |
| SQLite backend, `src/store/sqlite_store.cpp` | database file, open transaction, sticky error | the same five, open, close | SQLite | any call can fail; the process can die between statements | implements the store: atomic batches, durable acknowledgements, exact scans |
| Job system, `src/jobs/jobs.cpp` | per call: a completion counter | `parallelFor` | enkiTS | worker threads; memory visibility of their writes | each index once, everything visible at return, always returns |
| Parallel meshing, `src/mesh/parallel.cpp` | none | `meshChunksParallel` | job system, mesher | disjointness of outputs | same result as serial |
| Content registry, `src/world/registry.hpp` | entries, name map | `registerContent`, `tombstone`, `serialize`, `deserialize` | manifest in the store | restarts between registration and save; damaged manifests | id/name bindings agree, and are permanent once saved |
| Entity slots and UUID index, `src/world/registry.hpp` | generations, live flags, free list, two maps | `allocate`, `release`, `isLive`, `bind`, `unbind`, `resolve`, `uuidOf` | each other | stale handles, missed unbinds, generation wrap, index exhaustion | no slot shared, no stale answer |
| World renderer, `src/vk/worldrenderer.cpp` | command slots with fences, draw list, buffers, offscreen target, framebuffer cache, last GPU time | constructor, `uploadScene`, `renderFrameAsync`, `renderOffscreen`, `lastGpuMillis`, destructor | Vulkan queue | the GPU runs asynchronously to all of it; partial failures between fence reset and submit | nothing in flight is touched; every wait ends |
| `world_view` loop, `tools/world_view.cpp` | camera, scene, solidity, swapchain semaphores | the frame loop | all of the above | semaphores reused per slot; physics on last frame's solidity; waits for images | what is drawn and collided with is what is resident; semaphores and images are free when used |
| Mini generator, `src/gen/minigen.cpp` | none | `generateChunk` | belt | structures that reach across chunk borders | a chunk is its part of one world, whatever the order of generation |
| Voxel blob codec, `src/world/voxel_blob.hpp` | none | `packVoxelBlob`, `unpackVoxelBlob` | belt | index widths, header fields, Morton order | unpacking returns what was packed |
| Greedy mesher, `src/mesh/greedy.cpp` | none | `greedyMesh` | streamer | merge rules, six directions, neighbours that are there or not | every visible face once, with the right content and winding |
| Collision, player, rebase, `src/sim/`, `src/world/solidity.hpp` | position, vertical speed, ground contact, frame origin | `collisionStep`, `playerStep`, `rebaseFrame` | solidity | binary32 rounding, clamping flush to a face, frames that move | never inside solid, rests where it lands, rebases are honest |
| Device bring-up, `src/vk/device.cpp` | instance, device, queues, report | constructor, destructor | Vulkan driver | drivers that lack any part; the retry without the tiers | a report that is true, and compute wherever there is any |
| Compute, mesh execution, one-shot view, benches, `src/vk/compute.cpp`, `meshexec.cpp`, `worldview.cpp`, `bench.cpp` | none between calls | `runParityDispatch`, `runMeshExec`, `renderWorldView(Into)`, `runVctBench`, `runRcBench` | device | each of about a hundred calls may fail; hand-written barriers; shared staging memory; query indices | valid handles, no leak, no memory hazard, results that are of the pass they name |
| LOD keys, capability grants, tools | none | pure functions, argument handling | tests only, or a user | – | not modelled, section 6 |

The hazards this code is exposed to, each at its line and with the properties that
would catch it, are listed in `PROJECT.json` under `hazards`; the properties were
chosen from that list.

## 2. Modules

| Module | Models | Role |
|---|---|---|
| `Streamer` | `stream.hpp`, `belt.hpp` | the core: the pump as one atomic step |
| `StreamerParallel` | `stream.hpp` with a job system | the pump's meshing phase thread by thread; refines `Streamer` |
| `KvStore` | `store.hpp`, `memory_store.hpp` | abstract specification of a store |
| `SqliteStore` | `sqlite_store.cpp` | statement by statement; refines `KvStore` |
| `JobSystem` | `jobs.cpp` | `parallelFor` with release/acquire visibility |
| `ContentRegistry`, `EntityIndex` | `registry.hpp`, `identity.hpp` | the two independent halves of identity |
| `WorldRenderer` | `worldrenderer.cpp` | host thread against GPU queue |
| `WorldView` | `tools/world_view.cpp` | composes `Streamer` and `WorldRenderer` with swapchain and walk physics |
| `MiniGen`, `ChunkCodec`, `GreedyMesh`, `CollisionStep` | `minigen.cpp`; `morton.hpp`, `voxel_blob.hpp`; `greedy.cpp`; `collision_step.cpp`, `rebase.cpp`, `solidity.hpp` | the chunk algorithms, as operators |
| `ChunkPipeline` | `belt.hpp`, `stream.hpp` (neighbour views), `player.cpp` | composes the four: a chunk from generator to mesh and underfoot |
| `Device` | `device.cpp` | bring-up and destruction |
| `GpuSync` | the Vulkan memory model (external) | what recorded commands promise about memory |
| `GpuPrograms`, `GpuBenches` | `compute.cpp`, `meshexec.cpp`, `worldview.cpp`; `bench.cpp` | each program as the sequence of its calls |
| `OneShot` | the same, with their `Resources` destructors | runs the programs on a `Device`, any call failing |
| `StreamerProofs`, `SqliteStoreProofs`, `JobSystemProofs`, `IdentityProofs`, `WorldRendererProofs`, `WorldViewProofs`, `ChunkPipelineProofs`, `OneShotProofs` | – | theorems about the module of the name (`StreamerProofs`: `StreamerParallel` too; `IdentityProofs`: `ContentRegistry` and `EntityIndex`; `OneShotProofs`: `Device` too), section 5 |
| `MCStreamer`, `MCStreamerParallel`, `MCSqliteStore`, `MCIdentity`, `MCWorldView`, `MCChunkPipeline`, `MCOneShot` | – | values of the constants for TLC |

Operators named `...Swapped`, `...ButOne`, `...Unchecked` and the like, each announced
by a comment that begins with `Mutant`, are wrong versions of the definition that follows them. They
are not part of any specification; `PROJECT.json` pairs each with the property that
rejects it.

### Streamer

State: `center` (`m_centerX/Z`), `resident` (`m_resident`), `store` (the chunk space of
the backend), `broken` (the backend's sticky error). `SetCenter` is `setCenter`. `Pump`
is the whole of `pump`: `Kept` is the eviction loop, `Missing`/`FirstMissing` the sorted
admission list cut at the budget, `Loaded` the belt calls, `Persist` the belt's puts,
`Remesh` the mesh phase. `Restart(n)` is process death after the first `n` admissions of
a pump, followed by the constructor: only the store survives. `Quiescent` is
`quiescent()`, including its comparison of sizes.

Data abstraction: a chunk's cells are one value (`Content`); a blob is cells plus whether
it unpacks. A mesh is represented by the *inputs* `greedyMesh` was given, the chunk's own
cells and the neighbour cells per masked side, so two meshes are equal exactly if they were built
from the same data, and a mesh built from wrong or stale data is visible. Inside a pump a
failing `get` (`unread`) and the first failing `put` (`fail`) are chosen per admission; a
failing `put` closes the backend for the rest of the pump and until restart, as
`SqliteStore` does.

`StreamerParallel` splits the pump: `StartPump` is everything up to the work list,
`ReadCells`/`WriteMesh` are the two halves of `buildOne` on a thread (reading cells out of
the shared map, writing the own record), `FinishPump` is the return of `parallelFor`. The
refinement mapping lets the pump take effect at `StartPump`: while builds run, the
abstract residents are `Remesh(resident, center)`.

### KvStore and SqliteStore

`KvStore` is a map plus the reply to the last call. With `mayFail` false it is
`MemoryStore`, the oracle of the conformance tests. With `mayFail` true a call may
instead report failure without effect; since the interface has no error channel for
reads, a failed `get` looks like absence and a failed scan like an early stop.
`SqliteStore` keeps the file (`durable`), the open transaction's view (`txn`), the rest
of a running batch and the sticky error. `applyBatch` is `BatchBegin`, one `BatchStep` per
operation and `BatchCommit`; `AbortBatch` models the error path whose `ROLLBACK` may fail
unnoticed. Whether SQLite may fail at all is chosen once in `Init` (`faulty`), which the
refinement maps to `mayFail`: without failures the backend must equal the oracle.

### JobSystem

enkiTS is external. It cuts `0..count-1` into ranges of at least `grain` and runs each once, on a
worker or on the waiting caller; its wait is trusted with nothing, as the comment in
`jobs.cpp` demands: `WaitReturns` may happen at any time the caller is not itself inside
a range. Visibility is explicit: an index's effects become visible to the caller when it
ran it itself or when an acquire load follows the release increment of its range.

### ContentRegistry and EntityIndex

A manifest is its parsed layout (header validity, count field, entries), so every check
of `deserialize` is a condition on it. `promised` is history: the bindings some saved
manifest has carried. In `EntityIndex` a handle is `<<index, generation>>`; `InvalidIndex`
stands for `0xFFFFFFFF` and `GenMod` for 2^32, so exhaustion and wrap-around happen in
small instances. `epoch`, `issued` and `meant` are history for stating staleness.

### WorldRenderer

A host call that blocks on a fence is split there (`host.at` names the wait). The GPU
finishes submissions in queue order and signals the slot's fence. `geometry` and
`offscreen` record how far their creation got. Faults: `"alloc"` (creation, submission of
the upload), `"record"` (anything between fence reset and submission of a frame), `"wait"`
(a fence wait whose result is checked). Every caller in the repository stops using the
renderer after a failed call and destroys it, and so does the model (`Failed`).
The host is taken to see what the copy to staging memory wrote once the fence has signalled, which section 3 (*Readbacks*) qualifies.
`frameIndex` appears as `turn`, its value modulo `kFramesInFlight`; the number of submitted
frames is capped by `MaxFrames`.

### WorldView

The frame loop, one step per phase: camera and mode (`Step`), `Pump`, `Rebuild` of scene and
solidity when `PumpStats::changed()` (`Changed`), `Acquire`, `Render`, `Present`, and the
teardown. `Streamer` and `WorldRenderer` are instantiated whole; the renderer's calls
unfold into their own steps while the loop waits for them (`RendererStep`). The loop
drops what `vkQueuePresentKHR` returns; `PresentFails` (the fault `"present"`) is a presentation that
fails for want of memory: its image stays acquired and its semaphore signalled, and the loop goes on. GPU and
presentation engine (`GpuStep`, `Show`, external) run beside it. A scene is the function from meshed
residents to their meshes, so the composition can say that a frame draws exactly what the
streamer holds. A flight moves the camera to any column, since its speed is multiplied by
an unclamped frame time; the walk ticks, clamped to a quarter of a second at six cells per
second, cross at most one column border (`WalkRange`), or fall into the void and respawn at `SpawnColumn`.

### MiniGen, ChunkCodec, GreedyMesh, CollisionStep, ChunkPipeline

`ChunkPipeline` follows the chunks of a small region: `LoadChunk` is the miss path of
`loadOrGenerateRegion` (generate, reorder to Morton, pack, unpack) in any order of chunks,
`MeshAll` meshes each with views of its resident neighbours and remaps palette slots to
content, and `Spawn`, `PlayerStep` and `Rebase` put a player into the result.

`MiniGen` keeps the structure of `generateChunk`: the base fill by height, then the gather
of anchors within reach of the chunk, each writing only inside it, with the rule for who
wins a cell. Heights, anchors, trunk heights and decoration come from 64-bit hashes in the
code and are constant operators here. Its reference, `WholeCell`, defines a cell of the
world without chunks.

`ChunkCodec` computes palette, index width, index words and header, and the checks with
which unpacking rejects a blob; the byte order inside a field is left out. `GreedyMesh`
is the slice sweep with its mask, the growth in width and then height, and the neighbour
lookup at the border; the reference is the definition of a visible face.

`CollisionStep` does arithmetic in integer quanta (`Cell` of them in a voxel) with the
rounding of a binary float whose integers are exact up to `Exact` (2^24 in binary32) and whose
spacing doubles at every power of two from there, so sums are exact near the origin and
rounded further out, as in the code. `SweepAxis` is the substepped sweep with its flush
clamp and the second look that undoes it, `Rebased`/`AddsBack` are `rebaseFrame` and its
report. Displacements are chosen so that the code's division by the number of substeps
is exact (`SubstepsAreExact`); damping is 1.

### Device

One action per section of the constructor: `LoadRuntime`, `CreateInstance` (the retry at
1.0 included), `PickPhysical`, `PickFamilies`, `GateTiers`, `CreateLogical` (the retry
without the tiers included), and `DestroyDevice`. What the driver can do is a record chosen
in `Init`, forgotten when bring-up is over. `report` is the `DeviceReport` as far as
anything reads it; the reason a tier is blocked is kept, in the code's order of gates.

### GpuSync, GpuPrograms, GpuBenches, OneShot

A one-shot program is straight-line code: hundreds of calls, nearly all followed by "if it
failed, return", with a `Resources` object whose destructor frees what exists. So a program is
modelled as a *script*, the sequence of its calls: what a call needs, what it makes, what
memory its command touches at which stage, and the barriers recorded with it. `OneShot`
runs scripts: `Succeed` or `CallFails` at every fallible call, `TakeGate` at every early
return, `Submit`, `Wait` or `WaitFails`, `ReadResult`, `Call` (for `renderWorldView`, which calls
`renderWorldViewInto`) and `Return` through the destructor. Beside it the GPU retires or
loses submissions. Any request may be made of any device, also of one that failed to come up, and
any number one after the other.

`GpuSync` decides whether commands are ordered: an access is remembered with the stages
ordered after it and, for a write, to whom it is visible; barriers and fences extend that. For
the host a signalled fence means that an access is over and its writes available; visible to
the host they are only by a barrier to it.
It covers what these programs use (execution and memory scopes by stage, layout
transitions out of `UNDEFINED`, render-pass dependencies) and marks memory by the pass that
wrote it, carried along by copies. `Racing` is the hazard rule.

## 3. Runs

| Run | Question | Result |
|---|---|---|
| `stream_edited` | Radius 1, one layer, budget 4, three centres including a jump that leaves no overlap; a store in which two border chunks are each absent, edited or corrupt; restarts anywhere in a pump. Are residents, meshes and the world what the store says, and is admission nearest-first? | holds |
| `stream_live` | Two layers, budget 2. Is the camera's column resident after a pump, does a pump do all ready work, is a quiescent pump a no-op, does a resting window become quiescent? | holds |
| `stream_parallel` | Two threads mesh; window moves, failing puts, process death. Is the parallel pump the serial pump? | holds |
| `sqlite` | Four keys around the `0xFF` carry, all batches of up to two operations, every call may fail, death anywhere. Does SQLite implement the store? | holds |
| `jobs_parallel_for` | Two workers and the caller; counts 0..6 and grains 0..6 with the 32-bit limit at 5. Each index once, visible at return, and a return? | holds |
| `identity` | Registry with four names and three entries; entity index with three slots, generations modulo 2, up to three releases per slot. Do bindings agree and last, are manifests faithful, are stale handles answered only after a wrap? | holds |
| `render_frames` | Two slots, two scenes, seven frames, failures of allocation, recording and checked waits. Is nothing in flight touched, is a readback of its own frame, does every call return? | holds |
| `render_stuck_slot` | Does destroying the renderer return after a frame failed? | **violated**: finding 1 |
| `world_view` | The whole loop: radius 1, budget 4, three images, two slots, four frames, failures of upload, recording, acquisition and presentation. Is what is drawn and walked on what is resident, are presentation semaphores free, does an acquisition return while two images are left? | holds |
| `view_acquire_semaphore` | Is a slot's acquire semaphore free when it is handed to the swapchain? | **violated**: finding 2 |
| `vulkan_programs` | Bring-up over 84 drivers, then parity, mesh execution, world view and both benches in any order, each call failing or not. Are handles valid, is everything freed, is there no memory hazard, has what the host touches retired (and, for the parity dispatch, become visible to it), does the host read and report the pass it names, and does a device that can compute come up? | holds |
| `chunk_pipeline` | Two worlds through generation, codec, mesher, solidity and a walk with jumps and rebases under rounding. One world, one surface, nobody inside solid, landings that rest, honest rebases? | holds |

### Why the bounds are enough

*Streaming.* With radius 1 there are centre, edge and corner chunks, the window's rim is
distinct from its interior, and the centres `<<0,0>>`, `<<1,0>>`, `<<3,1>>` give overlapping,
diagonal and disjoint moves. A budget of 4 or 2 needs several pumps per window, so
windows change while half full and meshes of several masks coexist. `EdgeKeys` has one chunk
that is interior to one window and rim of the other, and one only in the second. The proofs of
section 5 lift the safety part to every bound.
`stream_parallel` uses a budget that fills the window at once: what matters there are the
interleavings of builds, and the admissions are already `Streamer`'s.

*SQLite.* The keys are the empty (invalid) one, `<<1>>` (a prefix ending in `0xFF` with
`MaxByte = 1`), `<<1,1>>` (all `0xFF`) and `<<0,1>>` (carry into the first byte). Batches of two
have a middle to fail in.

*Jobs, identity.* Both limits (`MaxRange`, `MaxEntries`, `InvalidIndex`, `GenMod`) are
reached and passed. *Renderer.* Seven frames turn both slots over three times, with
uploads and offscreen frames in between. *Frame loop.* Four frames after a primed window are
enough for a flight, a partly filled window, a walk in it, and both slots and one image to be
used again, and for every image but one, or all of them, to be lost to failed presentations; a budget of 4 leaves the window of 9 incomplete for two pumps after a jump.

*GPU programs.* The drivers are: 7 kinds of fault (none, the tiered device, the
tiered and the plain device, no surface extension with and without the tiered device,
no features2, a 1.0 loader) over 11 lists of GPUs (none, an old one before a good one, and one
GPU good or worse in one respect or with its families laid out differently), and 7 hosts
where bring-up ends early. The requests cover every program, both ends of each parameter
check, zero and one repetitions with and without readback, and the three cascades of
`tests/test_rc.cpp`. Two repetitions of a bench pass already conflict with each other if
a barrier is missing, so more add nothing. 74,294 states. `ExtentBits` counts the halvings of an extent below
2^31: a scene of extent^3 cells, which both benches demand, does not fit in memory beyond that.

*Chunks.* Chunks of 4 cells an edge, four of them in a slab two wide and two high, so each
has resident and absent neighbours; trees of trunk height 1..3 anchored anywhere reach
across borders; palettes give index widths 1, 2 and 4. A voxel has 64 quanta and integers are floats up to `Exact` = 256: positions beyond four
voxels from the frame's origin are rounded, and `Reach` allows eight. The half extents 28 and
25 are one that flush positions keep exactly everywhere (the property
`player.hpp` chose its numbers for) and one they do not. A fall from three voxels up, at a limit of 24
quanta a tick and a longest substep of 8, takes several substeps a tick, lands, walks off
edges and against walls. 62,640 states.

Deadlock checking is on except for the renderer and the frame loop, which end: the
renderer has been destroyed.

### Findings

1. **`render_stuck_slot`.** `submitFrame` resets the fence before recording. If anything
   fails before the submission, `slotUsed` of a slot used before stays true with a fence
   nobody will signal, and the destructor waits on it without a timeout. `world_view` ends
   its loop on exactly that failure.
2. **`view_acquire_semaphore`.** The loop acquires with `imageAvailable[slot]` first and
   only then calls the renderer, which waits for the slot's fence. The frame that used the
   slot before may not have started, its wait on the same semaphore still pending;
   `vkAcquireNextImageKHR` requires a semaphore without pending operations. Frames after an
   upload are not affected (the upload waits for everything), so it takes a few unchanged
   pumps in a row.

### Observed while modelling, without a run of their own

* *Streaming after a failed write.* `SqliteStore` remembers its first failed write, and from
  then on `get` misses (`sqlite_store.cpp:52-57`, `:157`). The belt takes a miss for an absent
  chunk and regenerates it, so chunks edited earlier show generated terrain while those
  already resident show the edit, although `stream.hpp:8-11` calls meshes a pure function of
  store content and window. The assumption `Reproducible` of the proofs is exactly what
  excludes this; `stream_edited` with `StoreFaults = {"write"}` shows it. Nothing edits chunks at this commit.
* *Missed unbind.* `registry.hpp:254` says a missed unbind "degrades to memory growth"; `bind`
  (`:260`) refuses a uuid still bound to a dead handle, so an entity respawned under its uuid
  stays unresolvable.
* *Renderer.* `renderOffscreen` remembers only that the image exists, so after a failure later
  in creating the target a second call would record a copy into a null buffer
  (`worldrenderer.cpp:894`); `uploadScene` ignores the result of its fence waits (`:752`), modelled
  by the fault `"blind"`, with which `FramesDrawLiveScene` fails; it puts the draw list in place before the
  buffers exist (`:770`). All three need a caller that goes on after a failed call, or a lost
  device. `renderOffscreen` collects its frame's time at once, an earlier asynchronous
  frame's only when its slot comes round, so `lastGpuMillis` can go back to an older frame
  (`:591`).
* *Frame loop.* The columns beside the camera may still be missing after a flight; walk ticks
  that cross into one see air (`world_view.cpp:458`; `UnderfootKnown` holds for the column they
  start in). The result of `vkQueuePresentKHR` is dropped (`:550`). A presentation that fails for want
  of memory keeps its image acquired, and the loop does not stop: each one takes an image out of
  circulation, and when only the one on the screen is left the next acquisition, which has no timeout (`:530`),
  never returns. `AcquireReturns` is therefore stated for as long as two images are left; with one instead of two
  TLC shows the hang. The frame's semaphore stays signalled, but as its image is never acquired again
  no frame signals it a second time (`RenderFinishedIdle`).
* *Bring-up.* After a failed tiered device, `presentBlocked` is overwritten even where
  another gate had failed and said why (`device.cpp:377`).
* *Benches.* A wait that fails for want of memory leaves a submission running while its
  resources are destroyed (`compute.cpp:388` and its siblings; `NothingLeaked` excepts it). The
  readback windows have fixed sizes, which parameters smaller than those of the tools and
  tests do not fill (`bench.cpp:1568`); the code does not reject such parameters.
* *Readbacks.* `compute.cpp:214-217` says what makes results readable: "the COMPUTE->HOST barrier +
  fence wait makes the GPU writes host-visible for the readback", and the parity dispatch has both (`:365-370`).
  `runMeshExec` (`meshexec.cpp:440-461`), `renderWorldView` (`worldview.cpp:732-751`), `runVctBench`
  (`bench.cpp:748-766`), `runRcBench` (`bench.cpp:1570-1612`) and `renderOffscreen` (`worldrenderer.cpp:667`, `:913-934`) copy to
  staging memory and read it after the fence wait alone. The memory model does not promise that
  they see the copy, host-coherent memory or not. `NoHazard` asks of all programs that what the host touches has retired,
  and of those in `BarriersToHost`, which is the parity dispatch, that it is visible; with
  any other program in that set TLC shows the read without the barrier.
* *Player.* Where the spacing of floats at a corner of the box is coarser than at its centre, the
  corner may be rounded onto the face of a wall it reaches into; the box then counts as outside
  (`collision_step.cpp:70`). A later rebase towards the origin, even one reported exact, computes the
  corner more finely and finds the overlap, of less than a spacing. The next tick's fall is blocked by it
  and sets `onGround` in the air, which allows a jump (`:194`). The small instance does not go far enough to
  show it; it came up in the proofs, and TLC finds it in a wider one (positions 229 and -229 with half
  extent 28, rebased to 165 and 27). `NeverInsideSolid` is therefore about the frame the body last moved in, and
  `LandedRests` about ticks that start in the open. The clamp to the world's bound at the end of a step does
  not look for solid cells (the bound is far outside any walk).

## 4. Fairness

* `Streamer`: `WF(PumpStep)`. `world_view` pumps once in every iteration of its loop.
  `EventuallyQuiescent` asks in addition that the window rests from some point on; nothing
  forces the camera to stop.
* `JobSystem`: weak fairness of each thread's steps, of the return of the scheduler's wait
  and of the caller's spin loop. Operating system and enkiTS run every thread that has
  work; the caller yields in its loop.
* `WorldView`: weak fairness of an acquisition for which there is an image, of the GPU and of
  the presentation engine, which is what the specification of the call promises; none of the rest of the loop, of the user
  quitting or moving, or of failures.
* `WorldRenderer`: weak fairness of the host inside a call and of the GPU finishing its
  oldest submission (no device loss). No fairness is assumed of the application calling
  anything, and none of failures.

The other specifications, `OneShot` and `ChunkPipeline` among them, claim safety only.

## 5. Proofs

Every theorem holds for all values of the constants that satisfy the named `ASSUME`s of
the modules, which say no more than that radii, budgets and counts are numbers of the
right sign, that stores, batches, keys, drivers and requests are of their types, that placeholders
(`NoBuild`, `NoBatch`, `Absent`, `BadName`) are not values, and, for the walk, what the code says of
its numbers (below). TLC evaluates all of them in
the runs. Further hypotheses are in the last column. Each inductive invariant was checked
by TLC on the instance of the component's run before it was proved; of `RunInv`, which speaks of a
trace that is only known to exist, the part about objects, frames and the fence was.

| Module | Theorem | States | Assuming further |
|---|---|---|---|
| `StreamerProofs` | `TypeCorrect` | `TypeOK` | – |
| | `ResidentsAreTruth`, `MeshesArePure`, `QuiescentStateIsOracle` | `ResidentTruth`, `MeshPure`, `QuiescentIsOracle` | `Reproducible` |
| | `WorldIsStable` | `TruthStable` | `Reproducible` |
| | `AdmissionIsNearestFirst`, `PumpDoesAllItCan`, `ColumnIsResident`, `QuiescentPumpChangesNothing` | `NearestFirst`, `PumpLeavesNothingReady`, `CenterColumnResident`, `QuiescentPumpIsNoOp` | – |
| | `BuildsNeverMeet`, `ParallelPumpIsSerial` | `ParallelInv`; the refinement `RefinesSerialPump` | – |
| `SqliteStoreProofs` | `StoreInvHolds`, `StoreTypeCorrect`, `SqliteImplementsKvStore` | `StoreInv`, `TypeOK`; the refinement `ImplementsKvStore` | – |
| `JobSystemProofs` | `OwnershipHolds`, `TypeCorrect`, `CallerSeesAll`, `IndexRunsOnce` | `Ownership`, `TypeOK`, `ReturnMeansDone`, `NeverTwice` | – |
| `IdentityProofs` | `RegistryInvHolds`, `RegistryTypeCorrect`, `BindingsAlwaysAgree`, `BindingsArePermanent`, `ManifestIsFaithful` | `RegistryInv`, `TypeOK`, `BindingsAgree`, `SavedBindingsPermanent`, `ManifestFaithful` | – |
| | `EntityInvHolds`, `NoSlotSharedOrLost`, `StaleHandlesDie`, `AnswersAreFresh` | `EntityInv`, `EntityTypeOK` and `FreeListExact`, `StaleOnlyAfterWrap`, `NeverStaleAnswer` | – |
| `WorldRendererProofs` | `RendererInvHolds`, `SlotsAreNotReused`, `FramesFindTheirScene`, `ReadbackIsOwnFrame` | `RendererInv`, `SlotsNotReusedInFlight`, `FramesDrawLiveScene`, `ReadbackIsThisFrame` | `"blind" \notin Faults` |
| `WorldViewProofs` | `LoopInvHolds`, `SolidityStaysResident`, `UnderfootIsKnown`, `SemaphoresAreIdle` | `LoopInv`, `SolidityIsResident`, `UnderfootKnown`, `RenderFinishedIdle` | – |
| | `FramesShowResidents` | `FrameShowsResidents` | `"blind" \notin Faults` |
| `ChunkPipelineProofs` | `OpenStaysOpen`, `LandedStaysLanded`, `RebaseReportsHonestly` | `NeverInsideSolid`, `LandedRests`, `RebaseIsHonest` | – |
| `OneShotProofs` | `ComputeIsKept`, `NothingIsLeaked`, `EveryCallIsValid` | `ComputeNeverRegresses`, `NothingLeaked`, `CallsAreValid` | – |

`Reproducible` says that the backend never fails, *or* every valid stored blob equals what
the generator yields. Without it the first observation of section 3 applies, so it
cannot be dropped; the second disjunct covers worlds without edits, where failures of
the store are harmless. `"blind" \notin Faults` says that a wait whose result the code does
not look at (`uploadScene`) does not fail; if one does, the code destroys what the GPU
still uses, which is a listed hazard. Failing allocations, recordings and checked waits
are inside the theorems.

**Streamer.** Purity of meshes is not inductive: a mesh is built from the *residents*
around a chunk, so its purity needs their truth; their truth needs that a read which
misses did not lose anything, and that writing back generated content does not change
what a chunk is. The inductive invariant is therefore

    PureInv == Faithful /\ Coherent(resident, store)

where `Coherent` joins resident truth and mesh purity relative to an arbitrary store, and
`Faithful` is the state form of `Reproducible` (no failures ever, and not broken; or the
store is canonical). The lemmas it rests on: `RemeshCoherent` (remeshing a coherent map
keeps it coherent), `PersistTruth` (persisting generated content changes no chunk's
content), `CoherentTransfer` (coherence only depends on contents), and one lemma per
action. `QuiescentStateIsOracle` adds `WindowAgrees`, that eviction's predicate
`InWindow` and the enumeration `Desired` describe the same set, and a cardinality
argument: `quiescent()` compares sizes, not sets. The same two facts make a quiescent pump
a no-op. The admission theorems count: the chunks before an admitted one in the order are
fewer than the budget, so each of them is admitted too, and the centre's column is first.

**Parallel pump.** `ParallelInv` says that each running build holds the record its chunk
must get, that no other thread and no entry of the work list has the same chunk, and that
nothing that needs a mesh has been forgotten. A finished build then changes only the mesh of its
chunk while the others read cells, so `Remesh` of the residents, the mapped value, is the
same before and after: the step stutters.

**SQLite.** `StoreInv` says that during a batch the transaction's view is the file with the
first `n` operations applied (`Executing`), and that a transaction left open by a failed
`ROLLBACK` goes with the sticky error, which refuses every call (`LeftOpen`); so no later
write can land in it unnoticed. The effect of a batch is a recursive function; that it is
defined at every step (`RunExists`) is proved by the least-number principle on sets
(`LeastElement`). `RangeIsPrefix`, the heart of the scan, says of `prefixUpperBound` that
the half-open range `[p, upper)` in byte order is exactly the keys with prefix `p`, for any
alphabet and any length, runs of 0xFF bytes included.

**Job system.** `Ownership`: each index of a call is in one pending range, in the rest of one thread's
range, run by a thread but not yet released, or released; the counter equals the number of
released indices. The counter can then reach the count only when all are released, and the acquire load that
sees it makes all of them visible.

**Identity.** `RegistryInv` relates entries, `byName`, the last manifest and what earlier
manifests promised. `EntityInv` says that the free list is the dead slots, each once, that a
handle's generation is its slot's epoch modulo the counter's width, and that the two maps
of the UUID index are inverse to each other; equal remainders are equal or a whole modulus apart.

**Renderer and frame loop.** `RendererInv`: a fence is unsignalled while work of its slot
is unfinished, one submission per slot; an upload is in the queue only while `uploadScene`
waits for it; the buffers hold the draw list or the upload that will fill them is ahead. In
`WorldView`, `LoopInv` ties the window to the camera, the collision world and the draw list to the
residents, the host's place in the renderer to the loop's, and keeps an image whose presentation failed among the acquired ones, so that it is not drawn into again; `GpuInv` restates the
part of `RendererInv` that a frame's contents need, over the instance of the renderer
(theorems about an instantiated module cannot be cited through the instance).

**Walk.** `FloatAssumption` and `WalkAssumption` say of the numbers what the code says: a substep is at
most a quarter of a voxel (1/16 in the code), half extents are less than half a voxel
(`player.hpp:42-44`), players are dropped at positions that are floats, whole voxels are floats as far as
a walk goes (`collision_step.cpp:15-19`); and that a rebase shifts. `Coarse` is the coarsest spacing that
the walk or the box around it meets. The invariant `WalkInv` says that a position is always a float within
`Reach`, and that a body on the ground does not move vertically.

`NeverInsideSolid` rests on what a sweep does: it ends where it began, or at a place whose box was looked
at and found open. This needs no arithmetic but that each axis of the next sweep starts from exactly the place the last one
ended; it holds for every world and every rounding. `RebaseIsHonest` needs the rounding itself: a rounded sum is off by
at most half a spacing, is a float, and keeps order (`Fl` is monotone); a sum of floats that is small
enough is exact, which is the window of Sterbenz; and if adding the shift back gives the old float,
spacings on the way are fine enough that nothing was lost. `LandedRests` needs both: with a half extent
that `Coarse` divides the corners of the box are exact, so the flush position is the boundary of the
voxel that the leading face entered; that voxel is the solid one, since the box before the
substep was in the open and spans at most two voxels an axis; so the second look finds the box
open, and the body ends on the boundary. Left alone there, the first substep of gravity enters the solid voxel
below (`GravityCounts`: it is not lost in the spacing), and the clamp leads back.

**Device.** `DeviceInv` says that each section of the constructor has established what the compute
path needs so far, and that the report claims no queue that was not fetched. So wherever bring-up gives
up, some conjunct of `ComputeCapable` fails.

**GPU programs.** What a script may do at a step depends on what the steps before it made. A *place*
is what a program surely has when it gets to a step (`has`), what is left in the descriptor pool,
and whether a submission is due to be waited for; `Legal(x, g, h, O)` says that step `x` may be taken at place `g` and
leads to `h`: its handles are in `g`, its draw leaves no count negative, what it makes is among the
objects `O` that the destructor frees, and nothing but the wait follows a submission. The lemmas
`ParityCompletes`, `MeshCompletes`, `IntoCompletes`, `ViewCompletes`, `VctCompletes` and `RcCompletes`
show, piece by piece along the way a script is put together, that each program has a trace of legal steps from nothing to
its end, whatever the extent, the number of repetitions, mip levels and cascades; a piece that only uses
what is there (`Still`) may be repeated any number of times. `RunInv` then ties the state to the trace: the
program on top of the stack has at least what its trace says, the pool and the fence are as it says, one
that failed is at its end with no fence to wait for, and everything alive belongs to the programs on the stack. A call of
`renderWorldViewInto` is legal only with the caller's target; what it destroys is its own
(`KeptByInto`), so its caller has again what it had; and when it came to its end it has passed the gate
of the graphics tiers, which is how `renderWorldView` may use the graphics queue that it never asked for itself.
`CallsAreValid` and `NothingLeaked` can be read off. `RequestsAssumption` says that a request names a program and
that extents and repetitions are numbers; `DriversAssumption` that a driver is a record of what its calls answer.

**Model-checked only**, and why:

* liveness, which the prover does not reach: `EventuallyQuiescent`, both `EveryCallReturns`,
  `AcquireReturns`;
* of the GPU programs, `NoHazard`, `HostReadsItsPasses` and `MediansAreOfTheirPass`: they are about what all
  commands before a step have left in memory and in the query pool, computed by folds over sets and sequences whose value for every
  input is an induction over data; following the scripts step by step is what TLC does;
* of the chunk algorithms, `ChunksAreOneWorld` and `MeshesAreTheSurface`, which compare
  greedy and order-dependent enumerations with a reference, over recursive functions and sums that the
  provers do not compute.

## 6. Not modelled, and why

* Contents of pictures: pixels, camera matrices, shader code, packed vertices. The GPU models say which
  pass wrote what memory holds, not what it computed.
* The hashes behind heights, anchors and decoration, and `generateRegionScatter`, which
  exists to be compared with the gather in a test; `WholeCell` takes its place as the reference.
* `blobCellAt`, the LOD pyramid's keys and the capability grants: at this commit only tests call
  them, so there is no client whose state could go wrong.
* The replay harnesses: fixed scripts whose result is hashed to 64 bits and compared between
  builds; what differs between compilers is not in the source.
* `PumpStats` and other counters that nothing reads back; flags of the device report that are
  only printed.
* int32 overflow of chunk coordinates at the edge of the world (`stream.hpp:222`) and shifts beyond
  2^24 voxels; coordinates are integers.
* Device loss in `WorldRenderer` (in `OneShot` it is modelled); a driver whose second
  `vkEnumeratePhysicalDevices` returns fewer devices than its first; a process death inside one SQLite
  statement (SQLite's own atomicity is taken as given).
* `Restart` in the middle of a pump's admissions does not combine with a failed read in the
  same pump. Failing reads are part of `Pump` and of the proofs, whose assumption
  `Reproducible` admits them over a store that holds only what was generated; no run has them,
  since any subset of a pump's admissions may miss and the runs grow beyond their time.
* The command-line tools other than `world_view`: argument handling and printing.

## 7. Running the models

In this directory, with the TLA+ tools:

    tlc -workers 2 -config stream_edited.cfg MCStreamer
    tlapm StreamerProofs.tla          # and the other *Proofs modules

Each run's module and configuration are listed in `PROJECT.json`; most take
a few seconds, the three streaming runs, `sqlite` and `chunk_pipeline` one to three minutes.

## 8. Plan

Done, in this order: streaming core and its proofs, parallel pump, stores, job system,
identity, renderer, frame loop, device and GPU programs, chunk algorithms; then the proofs of
the parallel pump, the SQLite backend, the job system, identity, the renderer, the frame
loop, the walk, bring-up and the lifetimes of the GPU programs. What would come next:

1. `OneShot`: `MediansAreOfTheirPass`, by giving places the number of stamps written so far; the names
   come from the same loops as the stamps.
2. `GreedyMesh`: that claimed rectangles are disjoint and inside the mask, which is half of
   `MeshesAreTheSurface`.
3. `MiniGen`: that an anchor outside the gather window writes nothing inside the chunk, from which
   `ChunksAreOneWorld` follows for generation; the codec's round trip is the other half.
