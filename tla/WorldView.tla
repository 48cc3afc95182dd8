------------------------------ MODULE WorldView -----------------------------
(***************************************************************************)
(* The frame loop of tools/world_view.cpp: the streamer, the renderer, the *)
(* swapchain and the walk physics together.  One host thread runs the      *)
(* loop; the GPU and the presentation engine (external) run beside it.     *)
(*                                                                         *)
(* The camera is known by its chunk column.  The scene is the set of       *)
(* meshes handed to uploadScene; meshes without quads, which the loop      *)
(* leaves out, are not told apart.  `solidity' is the set of chunks the    *)
(* collision callback can see; it points into the streamer's residents.    *)
(***************************************************************************)
EXTENDS Integers, Sequences, FiniteSets

CONSTANTS
  Radius, CyMin, CyMax, Budget, Centers, Content, Generate(_), InitStores,
  StoreFaults, NoView, NoMesh,                    \* see Streamer
  kFramesInFlight, Images, OffView, Timestamps, Faults, MaxFrames, NoScene,
                  \* see WorldRenderer; Faults may hold "acquire", "present" too
  EyeColumn,      \* the column of the first camera position
  SpawnColumn,    \* the column of kSpawn
  WalkRange,      \* columns the clamped walk ticks of one frame can cross
  NoImage

ASSUME WorldViewAssumption ==
  /\ Radius \in Nat /\ CyMin \in Int /\ CyMax \in Int /\ Budget \in Nat \ {0}
  /\ Centers \subseteq Int \X Int
  /\ kFramesInFlight \in Nat \ {0}
  /\ EyeColumn \in Centers /\ SpawnColumn \in Centers
  /\ WalkRange \in Nat /\ NoImage \notin Images

VARIABLES
  center, resident, store, broken,                              \* Streamer
  valid, turn, slotUsed, signaled, queue, host, ranges, geometry, offscreen,
  framebuffers, staging, frames, query, lastGpu,                \* WorldRenderer
  loop,       \* where the host thread is
  cam,        \* the camera's column
  walkMode,
  solidity,   \* the keys in the SolidityWorld
  shown,      \* the loop's own frame counter
  image,      \* the acquired swapchain image
  owned,      \* images acquired and not presented
  presents,   \* presentations the engine has not carried out
  display,    \* the image on the screen
  refused     \* history: images whose presentation failed

S == INSTANCE Streamer
R == INSTANCE WorldRenderer WITH Views <- Images, Scenes <- {}

rendererVars == <<valid, turn, slotUsed, signaled, queue, host, ranges, geometry,
                  offscreen, framebuffers, staging, frames, query, lastGpu>>
streamVars   == <<center, resident, store, broken>>
playerVars   == <<cam, walkMode>>
swapVars     == <<image, owned, presents, display, refused>>

vars == <<streamVars, rendererVars, loop, playerVars, solidity, shown, swapVars>>

At(place) == loop = place
Goto(place) == loop' = place

-----------------------------------------------------------------------------
(* What rebuildScene draws: every resident that has a mesh. *)
SceneOf(res) ==
  LET meshed == {k \in DOMAIN res : res[k].meshed}
  IN  IF meshed = {} THEN NoScene ELSE [k \in meshed |-> res[k].mesh]

(* Mutant of RebuildScene: the old solidity world is not thrown away. *)
RebuildSceneAccumulates ==
  /\ solidity' = solidity \cup DOMAIN resident
  /\ R!UploadScene(SceneOf(resident))

(* rebuildScene: a new solidity world, then uploadScene. *)
RebuildScene ==
  /\ solidity' = DOMAIN resident
  /\ R!UploadScene(SceneOf(resident))

Init ==
  /\ S!Init /\ R!Init
  /\ loop = "start"
  /\ cam = EyeColumn /\ walkMode = FALSE
  /\ solidity = {} /\ shown = 0
  /\ image = NoImage /\ owned = {} /\ presents = <<>> /\ display = NoImage
  /\ refused = {}

(* The renderer could not be constructed, or the window is centred for     *)
(* priming.                                                                *)
Start ==
  /\ At("start")
  /\ \/ ~valid /\ Goto("exited") /\ UNCHANGED streamVars
     \/ valid /\ Goto("prime") /\ S!SetCenter(cam)
  /\ UNCHANGED <<rendererVars, playerVars, solidity, shown, swapVars>>

Prime ==
  /\ At("prime")
  /\ \/ /\ ~S!Quiescent
        /\ S!PumpStep
        /\ UNCHANGED <<rendererVars, loop, solidity>>
     \/ /\ S!Quiescent
        /\ RebuildScene
        /\ Goto("primed")
        /\ UNCHANGED streamVars
  /\ UNCHANGED <<playerVars, shown, swapVars>>

(* A failed first upload returns from main past the teardown. *)
Primed ==
  /\ At("primed") /\ host.at \in R!Resting
  /\ Goto(IF R!At("idle") THEN "step" ELSE "exited")
  /\ UNCHANGED <<streamVars, rendererVars, playerVars, solidity, shown, swapVars>>

-----------------------------------------------------------------------------
(* The loop ends: escape, the window closed, or --frames reached. *)
Quit ==
  /\ At("step")
  /\ Goto("ending")
  /\ UNCHANGED <<streamVars, rendererVars, playerVars, solidity, shown, swapVars>>

Reach(c) == {d \in Centers : S!Dist(c[1], d[1]) <= WalkRange
                             /\ S!Dist(c[2], d[2]) <= WalkRange}

(* Mutant of Step: the window follows the camera a frame late. *)
StepCentersLate(walk, c) ==
  /\ At("step") /\ shown < MaxFrames
  /\ walk => c \in Reach(cam) \cup {SpawnColumn}
  /\ walkMode' = walk
  /\ cam' = c
  /\ S!SetCenter(cam)
  /\ Goto("pump")
  /\ UNCHANGED <<rendererVars, solidity, shown, swapVars>>

(* Mode keys, then the walk ticks against `solidity' (or the fall into the *)
(* void and back to kSpawn), or flying, at a speed that grows with the     *)
(* time the last frame took; then setCenter.                               *)
Step(walk, c) ==
  /\ At("step") /\ shown < MaxFrames
  /\ walk => c \in Reach(cam) \cup {SpawnColumn}
  /\ walkMode' = walk
  /\ cam' = c
  /\ S!SetCenter(c)
  /\ Goto("pump")
  /\ UNCHANGED <<rendererVars, solidity, shown, swapVars>>

(* Mutant of Changed: only evictions count. *)
ChangedByEvictions == S!Kept # DOMAIN resident

(* PumpStats::changed(). *)
Changed ==
  \/ S!Kept # DOMAIN resident
  \/ S!Admitted # {}
  \/ resident # S!Remesh(resident, center)

Pump ==
  /\ At("pump")
  /\ S!PumpStep
  /\ Goto(IF Changed THEN "rebuild" ELSE "acquire")
  /\ UNCHANGED <<rendererVars, playerVars, solidity, shown, swapVars>>

Rebuild ==
  /\ At("rebuild")
  /\ RebuildScene
  /\ Goto("upload")
  /\ UNCHANGED <<streamVars, playerVars, shown, swapVars>>

Rebuilt ==
  /\ At("upload") /\ host.at \in R!Resting
  /\ Goto(IF R!At("idle") THEN "acquire" ELSE "ending")
  /\ UNCHANGED <<streamVars, rendererVars, playerVars, solidity, shown, swapVars>>

-----------------------------------------------------------------------------
(* Images that are with the engine and not in use by it. *)
FreeImages ==
  Images \ (owned \cup {display} \cup {presents[i].image : i \in DOMAIN presents})

(* The loop's own idea of the renderer's slot. *)
AcquireSlot == shown % kFramesInFlight

(* vkAcquireNextImageKHR waits until there is one, or fails. *)
Acquire ==
  /\ At("acquire")
  /\ image' \in FreeImages /\ owned' = owned \cup {image'}
  /\ Goto("render")
  /\ UNCHANGED <<streamVars, rendererVars, playerVars, solidity, shown,
                 presents, display, refused>>

AcquireFails ==
  /\ At("acquire") /\ "acquire" \in Faults
  /\ Goto("ending")
  /\ UNCHANGED <<streamVars, rendererVars, playerVars, solidity, shown, swapVars>>

Render ==
  /\ At("render")
  /\ R!RenderFrameAsync(image)
  /\ Goto("submit")
  /\ UNCHANGED <<streamVars, playerVars, solidity, shown, swapVars>>

(* Mutant of RenderFinished: one semaphore per slot. *)
RenderFinishedPerSlot == AcquireSlot

(* The semaphore the frame signals and its presentation waits for. *)
RenderFinished == image

(* Mutant of Present: the present call is left out. *)
PresentForgotten ==
  /\ At("submit") /\ R!At("idle")
  /\ image' = NoImage
  /\ shown' = shown + 1
  /\ Goto("step")
  /\ UNCHANGED <<streamVars, rendererVars, playerVars, solidity,
                 owned, presents, display, refused>>

Present ==
  /\ At("submit") /\ R!At("idle")
  /\ presents' = Append(presents, [image |-> image, frame |-> frames,
                                   semaphore |-> RenderFinished])
  /\ owned' = owned \ {image} /\ image' = NoImage
  /\ shown' = shown + 1
  /\ Goto("step")
  /\ UNCHANGED <<streamVars, rendererVars, playerVars, solidity, display, refused>>

(* Nobody looks at what vkQueuePresentKHR returns: when it fails, for want *)
(* of memory, the image stays acquired and its semaphore signalled, and    *)
(* the loop goes on as if the frame had been shown.                        *)
PresentFails ==
  /\ At("submit") /\ R!At("idle") /\ "present" \in Faults
  /\ refused' = refused \cup {image} /\ image' = NoImage
  /\ shown' = shown + 1
  /\ Goto("step")
  /\ UNCHANGED <<streamVars, rendererVars, playerVars, solidity, owned, presents, display>>

RenderFailed ==
  /\ At("submit") /\ R!At("stopped")
  /\ Goto("ending")
  /\ UNCHANGED <<streamVars, rendererVars, playerVars, solidity, shown, swapVars>>

(* The engine (external) shows the oldest presentation once its frame has  *)
(* been rendered; the image that was on the screen is free again.          *)
Show ==
  /\ presents # <<>>
  /\ \A i \in DOMAIN queue : queue[i].kind = "frame" => queue[i].frame # Head(presents).frame
  /\ display' = Head(presents).image
  /\ presents' = Tail(presents)
  /\ UNCHANGED <<streamVars, rendererVars, loop, playerVars, solidity, shown,
                 image, owned, refused>>

(* vkQueueWaitIdle; semaphores, views, swapchain and surface go, and then  *)
(* the renderer's destructor runs.                                         *)
Teardown ==
  /\ At("ending") /\ queue = <<>>
  /\ Goto("exited")
  /\ UNCHANGED <<streamVars, rendererVars, playerVars, solidity, shown, swapVars>>

LeaveScope ==
  /\ At("exited")
  /\ R!Destroy
  /\ UNCHANGED <<streamVars, loop, playerVars, solidity, shown, swapVars>>

(* The steps the renderer takes inside a call, and those of the GPU. *)
RendererStep ==
  R!Progress /\ UNCHANGED <<streamVars, loop, playerVars, solidity, shown, swapVars>>

RendererFails ==
  R!Failure /\ UNCHANGED <<streamVars, loop, playerVars, solidity, shown, swapVars>>

GpuStep ==
  R!GpuFinish /\ UNCHANGED <<streamVars, loop, playerVars, solidity, shown, swapVars>>

LoopStep ==
  \/ Start \/ Prime \/ Primed
  \/ Pump \/ Rebuild \/ Rebuilt
  \/ Acquire \/ Render \/ Present \/ RenderFailed
  \/ Teardown \/ LeaveScope

Next ==
  \/ LoopStep
  \/ Quit
  \/ \E walk \in BOOLEAN, c \in Centers : Step(walk, c)
  \/ RendererStep
  \/ RendererFails \/ AcquireFails \/ PresentFails
  \/ GpuStep
  \/ Show

Spec == Init /\ [][Next]_vars

(* An acquisition returns once there is an image, the GPU finishes what it *)
(* has and the engine shows what is ready.  The rest of the loop need not  *)
(* go on, and nothing need fail.                                           *)
FairSpec == Spec /\ WF_vars(Acquire) /\ WF_vars(GpuStep) /\ WF_vars(Show)

-----------------------------------------------------------------------------
(* The collision callback never follows a pointer to an evicted chunk and  *)
(* misses no resident one: when the walk ticks run, the solidity world     *)
(* built in some earlier frame still is the set of residents.              *)
SolidityIsResident == At("step") => solidity = DOMAIN resident

Column(c) == {k \in S!Desired(c) : k[1] = c[1] /\ k[3] = c[2]}

(* "The walk step above used last frame's solidity - safe, because the     *)
(* window is centered on the camera": the column the player stands in is   *)
(* always there, after flights, respawns and mode changes, too, provided   *)
(* the budget covers the vertical band.                                    *)
UnderfootKnown ==
  At("step") /\ CyMax - CyMin < Budget => Column(cam) \subseteq solidity

(* What a frame draws is what the streamer holds when it is submitted:     *)
(* the draw list is that of the current residents and the buffers carry    *)
(* it.                                                                     *)
FrameShowsResidents ==
  R!At("slot") => ranges = SceneOf(resident) /\ (ranges # NoScene => geometry = R!Holding(ranges))

(* "Per-image render-finished semaphores": a frame never signals one that  *)
(* an earlier presentation still has to wait for, or that one which failed *)
(* has left signalled.                                                     *)
RenderFinishedIdle ==
  R!At("slot") =>
    /\ \A i \in DOMAIN presents : presents[i].semaphore # RenderFinished
    /\ RenderFinished \notin refused

(* The wait for a swapchain image ends: images keep coming back.  Each     *)
(* presentation that failed takes its image away for good, so this is for  *)
(* as long as two are left, one on the screen and one to draw into; with   *)
(* fewer the wait, which has no timeout, may last for ever.                *)
AcquireReturns ==
  At("acquire") /\ Cardinality(Images \ refused) >= 2 ~> ~At("acquire")

(* "Per-slot acquire semaphores (lockstep with the renderer's internal     *)
(* command slots) ... the renderer's slot fences cap frames in flight":    *)
(* the semaphore handed to vkAcquireNextImageKHR is not one an unfinished  *)
(* frame of the same slot has still to wait for.                           *)
AcquireSemaphoreIdle ==
  At("acquire") =>
    \A i \in DOMAIN queue : queue[i].kind = "frame" => queue[i].slot # AcquireSlot
=============================================================================
