-------------------------- MODULE WorldViewProofs ---------------------------
(***************************************************************************)
(* Proofs about WorldView: the frame loop keeps the streamer, the          *)
(* collision world, the renderer and the swapchain in step, for any        *)
(* window, budget, set of columns, number of images and command slots,     *)
(* with or without failures.                                               *)
(*                                                                         *)
(* Scenes are functions over whatever chunks are meshed, so nothing here   *)
(* depends on a set of scenes.                                             *)
(***************************************************************************)
EXTENDS WorldView, FiniteSetTheorems, TLAPS

HostRecord(h) == h \in [at : {h.at}, slot : {h.slot}, view : {h.view}, scene : {h.scene}]

(* The renderer's host state is a record and the residents are a map. *)
WellFormed ==
  /\ HostRecord(host)
  /\ resident = [k \in DOMAIN resident |-> resident[k]]
  /\ cam \in Centers

(* Which call of the renderer each place of the loop can be in. *)
HostFollowsLoop ==
  /\ loop \in {"start", "prime", "primed", "step", "pump", "rebuild", "upload",
               "acquire", "render", "submit", "ending", "exited"}
  /\ loop \in {"start", "prime", "step", "pump", "rebuild", "acquire", "render"}
       => host.at = "idle"
  /\ loop \in {"primed", "upload"} => host.at \in {"quiesce", "transfer", "idle", "stopped"}
  /\ loop = "submit" => host.at \in {"slot", "readback", "idle", "stopped"}
  /\ loop = "ending" => host.at \in {"idle", "stopped"}
  /\ loop = "exited" => host.at \in {"idle", "stopped", "drain", "gone"}

(* The window is centred on the camera. *)
WindowFollowsCamera == loop \notin {"start", "exited"} => center = cam

(* Between a rebuild and the next pump that changes something, the         *)
(* collision world and the draw list, or the upload under way, are those   *)
(* of the residents.                                                       *)
SceneFollowsResidents ==
  loop \in {"primed", "step", "pump", "upload", "acquire", "render", "submit"} =>
    /\ solidity = DOMAIN resident
    /\ host.at = "quiesce" => host.scene = SceneOf(resident)
    /\ host.at \notin {"quiesce", "stopped"} => ranges = SceneOf(resident)

(* From one pump to the next move, the camera's column is resident. *)
ColumnHeld ==
  CyMax - CyMin < Budget
    /\ loop \in {"primed", "step", "rebuild", "upload", "acquire", "render", "submit"}
    => Column(cam) \subseteq DOMAIN resident

Presentation == [image : Images, frame : Nat, semaphore : Images]

(* An acquired image has no presentation waiting and none that failed, and *)
(* a presentation waits for its image's semaphore.                         *)
ImageNotQueued ==
  /\ presents \in Seq(Presentation) /\ frames \in Nat
  /\ \A i \in DOMAIN presents : presents[i].semaphore = presents[i].image
  /\ refused \subseteq owned
  /\ loop \in {"render", "submit"} =>
       image \in (Images \cap owned) \ refused /\ \A i \in DOMAIN presents : presents[i].image # image

(* The inductive invariant of the loop. *)
LoopInv ==
  WellFormed /\ HostFollowsLoop /\ WindowFollowsCamera /\ SceneFollowsResidents
  /\ ColumnHeld /\ ImageNotQueued

-----------------------------------------------------------------------------
Jobs == {queue[i] : i \in DOMAIN queue}

(* The renderer's submissions and slots are well formed. *)
SlotsWellFormed ==
  /\ slotUsed \in [R!Slot -> BOOLEAN] /\ signaled \in [R!Slot -> BOOLEAN]
  /\ turn \in R!Slot /\ host.slot \in R!Slot
  /\ queue \in Seq(Jobs)
  /\ \A i \in DOMAIN queue : queue[i].slot \in R!Slot /\ queue[i].kind \in {"frame", "upload"}

(* Unfinished work, one submission per slot, keeps its fence unsignalled   *)
(* and its slot used; an upload is only under way while the host waits.    *)
FencesGuardWork ==
  /\ \A i, j \in DOMAIN queue : queue[i].slot = queue[j].slot => i = j
  /\ \A i \in DOMAIN queue :
       /\ ~signaled[queue[i].slot]
       /\ queue[i].kind = "frame" => slotUsed[queue[i].slot] /\ ~R!At("transfer")
       /\ queue[i].kind = "upload" => /\ R!At("transfer")
                                      /\ queue[i].slot = 0 /\ queue[i].scene = ranges

(* The buffers hold the draw list whenever the host may submit a frame. *)
BuffersHoldDrawList ==
  /\ R!At("transfer") /\ queue = <<>> => geometry = R!Holding(ranges)
  /\ host.at \in {"idle", "slot", "readback", "quiesce"} /\ ranges # NoScene
       => geometry = R!Holding(ranges)

(* The part of the renderer's invariant that what a frame shows rests on. *)
GpuInv == SlotsWellFormed /\ FencesGuardWork /\ BuffersHoldDrawList

-----------------------------------------------------------------------------
(* The fields of the host record after a step sets some of them. *)
LEMMA HostFields ==
  ASSUME NEW h, HostRecord(h), NEW a, NEW s, NEW v, NEW c
  PROVE  /\ [h EXCEPT !.at = a]
              \in [at : {a}, slot : {h.slot}, view : {h.view}, scene : {h.scene}]
         /\ [h EXCEPT !.at = a, !.slot = s]
              \in [at : {a}, slot : {s}, view : {h.view}, scene : {h.scene}]
         /\ [h EXCEPT !.at = a, !.slot = s, !.view = v]
              \in [at : {a}, slot : {s}, view : {v}, scene : {h.scene}]
         /\ [h EXCEPT !.at = a, !.scene = c]
              \in [at : {a}, slot : {h.slot}, view : {h.view}, scene : {c}]
  BY DEF HostRecord

(* The renderer's steps as the loop sees them: where the host was, where   *)
(* it goes, and which draw list is in force then.                          *)
HostStep ==
  \/ /\ host.at = "slot" /\ host'.at \in {"readback", "idle", "stopped"}
     /\ ranges' = ranges /\ frames' \in {frames, frames + 1}
  \/ /\ host.at = "readback" /\ host'.at \in {"idle", "stopped"}
     /\ ranges' = ranges /\ frames' = frames
  \/ /\ host.at = "quiesce" /\ host'.at \in {"transfer", "idle", "stopped"}
     /\ ranges' = host.scene /\ frames' = frames
  \/ /\ host.at = "transfer" /\ host'.at = "idle"
     /\ ranges' = ranges /\ frames' = frames
  \/ /\ host.at \in {"idle", "stopped"} /\ host'.at = "drain"
     /\ ranges' = ranges /\ frames' = frames
  \/ /\ host.at = "drain" /\ host'.at = "gone"
     /\ ranges' = ranges /\ frames' = frames
  \/ /\ host' = host /\ ranges' = ranges /\ frames' = frames

LEMMA RendererMoves ==
  ASSUME WellFormed, R!Progress \/ R!Failure \/ R!GpuFinish
  PROVE  HostStep /\ HostRecord(host') /\ (host'.at = "drain" => host.at = "drain")
<1>. USE DEF HostStep, HostRecord, WellFormed
<1>1. CASE R!SubmitFrame
  BY <1>1, HostFields DEF R!SubmitFrame, R!SlotReady, R!At, R!Idle
<1>2. CASE R!SubmitFrameFails
  BY <1>2, HostFields DEF R!SubmitFrameFails, R!SlotReady, R!At, R!Failed
<1>3. CASE R!SlotWaitFails
  BY <1>3, HostFields DEF R!SlotWaitFails, R!At, R!Failed
<1>4. CASE R!ReadBack
  BY <1>4, HostFields DEF R!ReadBack, R!At, R!Idle
<1>5. CASE R!ReadBackWaitFails
  BY <1>5, HostFields DEF R!ReadBackWaitFails, R!At, R!Failed
<1>6. CASE R!UploadEmpty
  BY <1>6, HostFields DEF R!UploadEmpty, R!Quiesce, R!At, R!Idle
<1>7. CASE R!UploadTransfer
  BY <1>7, HostFields DEF R!UploadTransfer, R!Quiesce, R!At
<1>8. CASE R!UploadFails
  BY <1>8, HostFields DEF R!UploadFails, R!Quiesce, R!At, R!Failed
<1>9. CASE R!UploadDone
  BY <1>9, HostFields DEF R!UploadDone, R!At, R!Idle
<1>10. CASE R!TearDown
  BY <1>10, HostFields DEF R!TearDown, R!At
<1>11. CASE R!GpuFinish
  BY <1>11 DEF R!GpuFinish
<1>. QED BY <1>1, <1>2, <1>3, <1>4, <1>5, <1>6, <1>7, <1>8, <1>9, <1>10, <1>11
         DEF R!Progress, R!Failure

(* The renderer's own steps leave the loop's invariant alone. *)
LEMMA RendererStepsInv ==
  ASSUME LoopInv, R!Progress \/ R!Failure \/ R!GpuFinish \/ (R!Destroy /\ loop = "exited"),
         UNCHANGED <<streamVars, loop, playerVars, solidity, shown, swapVars>>
  PROVE  LoopInv'
<1>. USE DEF LoopInv, streamVars, playerVars, swapVars
<1>1. /\ HostStep /\ HostRecord(host')
      /\ host'.at = "drain" => host.at = "drain" \/ loop = "exited"
  <2>1. CASE R!Progress \/ R!Failure \/ R!GpuFinish
    BY <2>1, RendererMoves
  <2>2. CASE R!Destroy /\ loop = "exited"
    BY <2>2, HostFields DEF R!Destroy, HostStep, HostRecord, WellFormed
  <2>. QED BY <2>1, <2>2
<1>2. WellFormed'
  BY <1>1 DEF WellFormed
<1>3. HostFollowsLoop'
  BY <1>1 DEF HostFollowsLoop, HostStep
<1>4. WindowFollowsCamera' /\ ColumnHeld'
  BY DEF WindowFollowsCamera, ColumnHeld
<1>5. SceneFollowsResidents'
  BY <1>1 DEF SceneFollowsResidents, HostFollowsLoop, HostStep
<1>6. ImageNotQueued'
  BY <1>1 DEF ImageNotQueued, HostStep
<1>. QED BY <1>2, <1>3, <1>4, <1>5, <1>6

-----------------------------------------------------------------------------
(* A pump leaves the kept and the admitted chunks resident. *)
LEMMA PumpResidents ==
  ASSUME S!PumpStep
  PROVE  /\ DOMAIN resident' = S!Kept \cup S!Admitted
         /\ resident' = [k \in DOMAIN resident' |-> resident'[k]]
         /\ center' = center
<1>1. PICK unread, fail : S!Pump(unread, fail)
  BY DEF S!PumpStep
<1>. QED BY <1>1 DEF S!Pump, S!Remesh, S!Loaded

(* A pump whose statistics report no change changed nothing. *)
LEMMA UnchangedPump ==
  ASSUME WellFormed, S!PumpStep, ~Changed
  PROVE  resident' = resident
<1>1. PICK unread, fail : S!Pump(unread, fail)
  BY DEF S!PumpStep
<1>2. S!Kept = DOMAIN resident /\ S!Admitted = {} /\ S!Remesh(resident, center) = resident
  BY DEF Changed
<1>3. S!Loaded({}, unread, fail) = [k \in DOMAIN resident |-> resident[k]]
  BY <1>2 DEF S!Loaded
<1>4. S!Loaded({}, unread, fail) = resident
  BY <1>3 DEF WellFormed
<1>. QED BY <1>1, <1>2, <1>4 DEF S!Pump

(* In any set of missing chunks, fewer than the budget come before one of  *)
(* the camera's column: they are in the column, too, and below it.         *)
LEMMA ColumnFirst ==
  ASSUME NEW c \in Int \X Int, NEW M, M \subseteq S!Desired(c),
         NEW k \in M, k[1] = c[1], k[3] = c[2], CyMax - CyMin < Budget
  PROVE  Cardinality({j \in M : S!Before(j, k, c)}) < Budget
<1>. DEFINE A == {j \in M : S!Before(j, k, c)}
            low == CyMin..(k[2] - 1)
            f == [j \in A |-> j[2]]
<1>1. \A j \in M : j \in Int \X Int \X Int /\ j[2] \in CyMin..CyMax
  BY WorldViewAssumption DEF S!Desired
<1>2. ASSUME NEW j \in A
      PROVE  j \in Int \X Int \X Int /\ j[1] = c[1] /\ j[3] = c[2] /\ j[2] \in low
  <2>1. j \in Int \X Int \X Int /\ j[2] \in CyMin..CyMax /\ k \in Int \X Int \X Int
    BY <1>1
  <2>2. S!Chebyshev(k, c) = 0
    BY <2>1 DEF S!Chebyshev, S!Dist
  <2>3. S!Chebyshev(j, c) \in Nat
    BY <2>1 DEF S!Chebyshev, S!Dist
  <2>4. S!Chebyshev(j, c) = 0 /\ S!KeyLess(j, k)
    BY <2>2, <2>3 DEF S!Before
  <2>5. j[1] = c[1] /\ j[3] = c[2]
    BY <2>1, <2>4 DEF S!Chebyshev, S!Dist
  <2>. QED BY <2>1, <2>4, <2>5, WorldViewAssumption DEF S!KeyLess
<1>3. f \in Injection(A, low)
  <2>1. \A a, b \in A : a[2] = b[2] => a = b
    BY <1>2
  <2>2. \A a \in A : a[2] \in low
    BY <1>2
  <2>. HIDE DEF A, low
  <2>. QED BY <2>1, <2>2 DEF Injection, IsInjective
<1>4. IsFiniteSet(low) /\ Cardinality(low) <= CyMax - CyMin
  <2>1. /\ CyMin \in Int /\ k[2] \in Int /\ k[2] - 1 \in Int /\ CyMax \in Int
        /\ CyMin <= k[2] /\ k[2] <= CyMax
    BY <1>1, WorldViewAssumption
  <2>2. /\ IsFiniteSet(low)
        /\ Cardinality(low) = IF CyMin > k[2] - 1 THEN 0 ELSE (k[2] - 1) - CyMin + 1
    BY <2>1, FS_Interval
  <2>. HIDE DEF low
  <2>. QED BY <2>1, <2>2
<1>5. IsFiniteSet(A) /\ Cardinality(A) <= Cardinality(low)
  <2>. HIDE DEF f, A, low
  <2>. QED BY <1>3, <1>4, FS_Injection
<1>6. Cardinality(A) \in Nat /\ Cardinality(low) \in Nat
  BY <1>4, <1>5, FS_CardinalityType
<1>7. Cardinality(A) < Budget
  <2>. HIDE DEF A, low
  <2>. QED BY <1>4, <1>5, <1>6, WorldViewAssumption
<1>. QED BY <1>7

(* After a pump the column at the window's centre is resident. *)
LEMMA PumpHoldsColumn ==
  ASSUME S!PumpStep, center \in Centers, CyMax - CyMin < Budget
  PROVE  Column(center) \subseteq DOMAIN resident'
<1>. SUFFICES ASSUME NEW k \in Column(center), k \notin S!Kept PROVE k \in S!Admitted
  BY PumpResidents
<1>1. /\ k \in S!Missing /\ S!Missing \subseteq S!Desired(center)
      /\ k[1] = center[1] /\ k[3] = center[2] /\ center \in Int \X Int
  BY WorldViewAssumption DEF Column, S!Missing
<1>2. Cardinality({j \in S!Missing : S!Before(j, k, center)}) < Budget
  BY <1>1, ColumnFirst
<1>. QED BY <1>1, <1>2 DEF S!Admitted, S!FirstMissing, Cardinality, S!Cardinality

-----------------------------------------------------------------------------
LEMMA InitLoop == Init => LoopInv
<1>. SUFFICES ASSUME Init PROVE LoopInv
  OBVIOUS
<1>1. /\ host \in [at : {"idle"}, slot : {0}, view : {OffView}, scene : {NoScene}]
      /\ frames = 0 /\ ranges = NoScene
  BY DEF Init, R!Init
<1>2. WellFormed
  BY <1>1, WorldViewAssumption DEF Init, S!Init, WellFormed, HostRecord
<1>3. HostFollowsLoop
  BY <1>1 DEF Init, HostFollowsLoop
<1>4. WindowFollowsCamera /\ SceneFollowsResidents /\ ColumnHeld
  BY DEF Init, WindowFollowsCamera, SceneFollowsResidents, ColumnHeld
<1>5. ImageNotQueued
  BY <1>1 DEF Init, ImageNotQueued
<1>. QED BY <1>2, <1>3, <1>4, <1>5 DEF LoopInv

(* The steps that only move the loop to another place. *)
LEMMA LoopMovesInv ==
  ASSUME LoopInv, Primed \/ Quit \/ Rebuilt \/ AcquireFails \/ RenderFailed \/ Teardown
  PROVE  LoopInv'
<1>. USE DEF LoopInv, Primed, Quit, Rebuilt, AcquireFails, RenderFailed, Teardown,
             At, Goto, streamVars, rendererVars, playerVars, swapVars
<1>1. WellFormed'
  BY DEF WellFormed
<1>2. HostFollowsLoop'
  BY DEF HostFollowsLoop, R!At, R!Resting
<1>3. WindowFollowsCamera' /\ ColumnHeld'
  BY DEF WindowFollowsCamera, ColumnHeld
<1>4. SceneFollowsResidents'
  BY DEF SceneFollowsResidents, R!At
<1>5. ImageNotQueued'
  BY DEF ImageNotQueued
<1>. QED BY <1>1, <1>2, <1>3, <1>4, <1>5

(* The renderer could not be built, or the window is centred. *)
LEMMA StartInv ==
  ASSUME LoopInv, Start
  PROVE  LoopInv'
<1>. USE DEF LoopInv, Start, At, Goto, streamVars, rendererVars, playerVars, swapVars
<1>1. UNCHANGED <<resident, rendererVars, playerVars, solidity, swapVars>>
  BY DEF S!SetCenter
<1>2. WellFormed'
  BY <1>1 DEF WellFormed
<1>3. HostFollowsLoop'
  BY <1>1 DEF HostFollowsLoop
<1>4. WindowFollowsCamera' /\ ColumnHeld' /\ SceneFollowsResidents'
  BY DEF WindowFollowsCamera, ColumnHeld, SceneFollowsResidents, S!SetCenter
<1>5. ImageNotQueued'
  BY <1>1 DEF ImageNotQueued
<1>. QED BY <1>2, <1>3, <1>4, <1>5

(* rebuildScene, from a quiescent priming pump or a pump that changed      *)
(* something: the collision world is replaced and the upload begins.       *)
LEMMA RebuildSceneInv ==
  ASSUME LoopInv, RebuildScene, loop' \in {"primed", "upload"},
         loop \in {"prime", "rebuild"},
         CyMax - CyMin < Budget => Column(cam) \subseteq DOMAIN resident,
         UNCHANGED <<streamVars, playerVars, shown, swapVars>>
  PROVE  LoopInv'
<1>. USE DEF LoopInv, RebuildScene, streamVars, playerVars, swapVars
<1>1. /\ HostRecord(host') /\ host'.at = "quiesce" /\ host'.scene = SceneOf(resident)
      /\ UNCHANGED <<ranges, frames>>
  BY HostFields DEF R!UploadScene, WellFormed, HostRecord
<1>2. WellFormed'
  BY <1>1 DEF WellFormed
<1>3. HostFollowsLoop'
  BY <1>1 DEF HostFollowsLoop
<1>4. WindowFollowsCamera' /\ ColumnHeld'
  BY DEF WindowFollowsCamera, ColumnHeld
<1>5. SceneFollowsResidents'
  BY <1>1 DEF SceneFollowsResidents
<1>6. ImageNotQueued'
  BY <1>1 DEF ImageNotQueued
<1>. QED BY <1>2, <1>3, <1>4, <1>5, <1>6

LEMMA PrimeInv ==
  ASSUME LoopInv, Prime
  PROVE  LoopInv'
<1>. USE DEF LoopInv
<1>1. loop = "prime" /\ UNCHANGED <<playerVars, shown, swapVars>>
  BY DEF Prime, At
<1>2. CASE S!PumpStep /\ UNCHANGED <<rendererVars, loop, solidity>>
  <2>. USE DEF rendererVars, playerVars, swapVars
  <2>1. WellFormed' /\ WindowFollowsCamera'
    BY <1>1, <1>2, PumpResidents DEF WellFormed, WindowFollowsCamera
  <2>2. HostFollowsLoop'
    BY <1>2 DEF HostFollowsLoop
  <2>3. SceneFollowsResidents' /\ ColumnHeld'
    BY <1>1, <1>2 DEF SceneFollowsResidents, ColumnHeld
  <2>4. ImageNotQueued'
    BY <1>1, <1>2 DEF ImageNotQueued
  <2>. QED BY <2>1, <2>2, <2>3, <2>4
<1>3. CASE S!Quiescent /\ RebuildScene /\ Goto("primed") /\ UNCHANGED streamVars
  <2>1. Column(cam) \subseteq DOMAIN resident
    BY <1>1, <1>3 DEF S!Quiescent, Column, WindowFollowsCamera
  <2>. QED BY <1>1, <1>3, <2>1, RebuildSceneInv DEF Goto
<1>. QED BY <1>2, <1>3 DEF Prime

LEMMA RebuildInv ==
  ASSUME LoopInv, Rebuild
  PROVE  LoopInv'
<1>1. CyMax - CyMin < Budget => Column(cam) \subseteq DOMAIN resident
  BY DEF Rebuild, At, LoopInv, ColumnHeld
<1>. QED BY <1>1, RebuildSceneInv DEF Rebuild, At, Goto

(* The camera moves and the window with it. *)
LEMMA StepInv ==
  ASSUME LoopInv, NEW walk \in BOOLEAN, NEW c \in Centers, Step(walk, c)
  PROVE  LoopInv'
<1>. USE DEF LoopInv, Step, At, Goto, rendererVars, swapVars, S!SetCenter
<1>1. WellFormed' /\ WindowFollowsCamera' /\ ColumnHeld'
  BY DEF WellFormed, WindowFollowsCamera, ColumnHeld
<1>2. HostFollowsLoop'
  BY DEF HostFollowsLoop
<1>3. SceneFollowsResidents'
  BY DEF SceneFollowsResidents
<1>4. ImageNotQueued'
  BY DEF ImageNotQueued
<1>. QED BY <1>1, <1>2, <1>3, <1>4

(* A pump that changed nothing keeps the scene; any other is followed by a *)
(* rebuild.                                                                *)
LEMMA PumpInv ==
  ASSUME LoopInv, Pump
  PROVE  LoopInv'
<1>. USE DEF LoopInv
<1>1. /\ loop = "pump" /\ S!PumpStep /\ loop' \in {"rebuild", "acquire"}
      /\ loop' = "acquire" => ~Changed
      /\ UNCHANGED <<rendererVars, playerVars, solidity, shown, swapVars>>
  BY DEF Pump, At, Goto
<1>2. center = cam /\ cam \in Centers
  BY <1>1 DEF WindowFollowsCamera, WellFormed
<1>. USE DEF rendererVars, playerVars, swapVars
<1>3. WellFormed' /\ WindowFollowsCamera'
  BY <1>1, <1>2, PumpResidents DEF WellFormed, WindowFollowsCamera
<1>4. HostFollowsLoop'
  BY <1>1 DEF HostFollowsLoop
<1>5. SceneFollowsResidents'
  <2>1. loop' = "acquire" => resident' = resident
    BY <1>1, UnchangedPump
  <2>. QED BY <1>1, <2>1 DEF SceneFollowsResidents
<1>6. ColumnHeld'
  <2>1. CyMax - CyMin < Budget => Column(center) \subseteq DOMAIN resident'
    BY <1>1, <1>2, PumpHoldsColumn
  <2>. QED BY <1>1, <1>2, <2>1 DEF ColumnHeld
<1>7. ImageNotQueued'
  BY <1>1 DEF ImageNotQueued
<1>. QED BY <1>3, <1>4, <1>5, <1>6, <1>7

-----------------------------------------------------------------------------
(* The acquired image is one no presentation is waiting with. *)
LEMMA AcquireInv ==
  ASSUME LoopInv, Acquire
  PROVE  LoopInv'
<1>. USE DEF LoopInv, Acquire, At, Goto, streamVars, rendererVars, playerVars
<1>1. WellFormed' /\ WindowFollowsCamera' /\ ColumnHeld'
  BY DEF WellFormed, WindowFollowsCamera, ColumnHeld
<1>2. HostFollowsLoop'
  BY DEF HostFollowsLoop
<1>3. SceneFollowsResidents'
  BY DEF SceneFollowsResidents
<1>4. ImageNotQueued'
  <2>1. image' \in Images \ owned /\ \A i \in DOMAIN presents : presents[i].image # image'
    BY DEF FreeImages
  <2>. QED BY <2>1 DEF ImageNotQueued
<1>. QED BY <1>1, <1>2, <1>3, <1>4

LEMMA RenderInv ==
  ASSUME LoopInv, Render
  PROVE  LoopInv'
<1>. USE DEF LoopInv, Render, At, Goto, streamVars, playerVars, swapVars
<1>1. HostRecord(host') /\ host'.at = "slot" /\ UNCHANGED <<ranges, frames>>
  BY HostFields DEF R!RenderFrameAsync, R!TakeSlot, WellFormed, HostRecord
<1>2. WellFormed' /\ WindowFollowsCamera' /\ ColumnHeld'
  BY <1>1 DEF WellFormed, WindowFollowsCamera, ColumnHeld
<1>3. HostFollowsLoop'
  BY <1>1 DEF HostFollowsLoop
<1>4. SceneFollowsResidents'
  BY <1>1 DEF SceneFollowsResidents, HostFollowsLoop
<1>5. ImageNotQueued'
  BY <1>1 DEF ImageNotQueued
<1>. QED BY <1>2, <1>3, <1>4, <1>5

(* The presentation waits for its image's semaphore. *)
LEMMA PresentInv ==
  ASSUME LoopInv, Present
  PROVE  LoopInv'
<1>. USE DEF LoopInv, Present, At, Goto, streamVars, rendererVars, playerVars
<1>. DEFINE p == [image |-> image, frame |-> frames, semaphore |-> RenderFinished]
<1>1. WellFormed' /\ WindowFollowsCamera' /\ ColumnHeld'
  BY DEF WellFormed, WindowFollowsCamera, ColumnHeld
<1>2. HostFollowsLoop'
  BY DEF HostFollowsLoop, R!At
<1>3. SceneFollowsResidents'
  BY DEF SceneFollowsResidents, R!At
<1>4. presents' = Append(presents, p) /\ p \in Presentation /\ p.semaphore = p.image
  BY DEF ImageNotQueued, Presentation, RenderFinished
<1>5. ImageNotQueued'
  <2>. HIDE DEF p
  <2>1. presents \in Seq(Presentation)
    BY DEF ImageNotQueued
  <2>2. presents' \in Seq(Presentation)
    BY <1>4, <2>1
  <2>3. \A i \in DOMAIN presents' : \/ i \in DOMAIN presents /\ presents'[i] = presents[i]
                                    \/ presents'[i] = p
    BY <1>4, <2>1
  <2>4. \A i \in DOMAIN presents' : presents'[i].semaphore = presents'[i].image
    BY <1>4, <2>3 DEF ImageNotQueued
  <2>. QED BY <2>2, <2>4 DEF ImageNotQueued
<1>. QED BY <1>1, <1>2, <1>3, <1>5

(* A presentation that fails leaves the image with the loop. *)
LEMMA PresentFailsInv ==
  ASSUME LoopInv, PresentFails
  PROVE  LoopInv'
<1>. USE DEF LoopInv, PresentFails, At, Goto, streamVars, rendererVars, playerVars
<1>1. WellFormed' /\ WindowFollowsCamera' /\ ColumnHeld'
  BY DEF WellFormed, WindowFollowsCamera, ColumnHeld
<1>2. HostFollowsLoop'
  BY DEF HostFollowsLoop, R!At
<1>3. SceneFollowsResidents'
  BY DEF SceneFollowsResidents, R!At
<1>4. ImageNotQueued'
  BY DEF ImageNotQueued
<1>. QED BY <1>1, <1>2, <1>3, <1>4

(* The engine takes the oldest presentation off its queue. *)
LEMMA ShowInv ==
  ASSUME LoopInv, Show
  PROVE  LoopInv'
<1>. USE DEF LoopInv, Show, streamVars, rendererVars, playerVars
<1>1. WellFormed' /\ WindowFollowsCamera' /\ ColumnHeld'
  BY DEF WellFormed, WindowFollowsCamera, ColumnHeld
<1>2. HostFollowsLoop'
  BY DEF HostFollowsLoop
<1>3. SceneFollowsResidents'
  BY DEF SceneFollowsResidents
<1>4. ImageNotQueued'
  <2>1. presents \in Seq(Presentation) /\ presents # <<>> /\ presents' = Tail(presents)
    BY DEF ImageNotQueued
  <2>2. presents' \in Seq(Presentation)
    BY <2>1
  <2>3. \A i \in DOMAIN presents' : i + 1 \in DOMAIN presents /\ presents'[i] = presents[i + 1]
    BY <2>1
  <2>. QED BY <2>2, <2>3 DEF ImageNotQueued
<1>. QED BY <1>1, <1>2, <1>3, <1>4

LEMMA NextLoop == LoopInv /\ [Next]_vars => LoopInv'
<1>. SUFFICES ASSUME LoopInv, [Next]_vars PROVE LoopInv'
  OBVIOUS
<1>1. CASE LoopStep
  <2>1. CASE LeaveScope
    BY <2>1, RendererStepsInv DEF LeaveScope, At
  <2>. QED BY <1>1, <2>1, StartInv, PrimeInv, PumpInv, RebuildInv, AcquireInv, RenderInv,
              PresentInv, LoopMovesInv DEF LoopStep
<1>2. CASE \E walk \in BOOLEAN, c \in Centers : Step(walk, c)
  BY <1>2, StepInv
<1>3. CASE RendererStep \/ RendererFails \/ GpuStep
  BY <1>3, RendererStepsInv DEF RendererStep, RendererFails, GpuStep
<1>4. CASE Quit \/ AcquireFails
  BY <1>4, LoopMovesInv
<1>5. CASE Show
  BY <1>5, ShowInv
<1>6. CASE UNCHANGED vars
  <2>. USE <1>6 DEF vars, streamVars, rendererVars, playerVars, swapVars, LoopInv
  <2>1. WellFormed' /\ WindowFollowsCamera' /\ ColumnHeld'
    BY DEF WellFormed, WindowFollowsCamera, ColumnHeld
  <2>2. HostFollowsLoop' /\ SceneFollowsResidents'
    BY DEF HostFollowsLoop, SceneFollowsResidents
  <2>3. ImageNotQueued'
    BY DEF ImageNotQueued
  <2>. QED BY <2>1, <2>2, <2>3
<1>7. CASE PresentFails
  BY <1>7, PresentFailsInv
<1>. QED BY <1>1, <1>2, <1>3, <1>4, <1>5, <1>6, <1>7 DEF Next

(* The loop, the renderer's calls, the window, the collision world and the *)
(* swapchain stay in step.                                                 *)
THEOREM LoopInvHolds == Spec => []LoopInv
BY InitLoop, NextLoop, PTL DEF Spec

(* The collision callback sees exactly the residents whenever the walk     *)
(* ticks run.                                                              *)
THEOREM SolidityStaysResident == Spec => []SolidityIsResident
<1>1. LoopInv => SolidityIsResident
  BY DEF LoopInv, SceneFollowsResidents, SolidityIsResident, At
<1>. QED BY <1>1, LoopInvHolds, PTL

(* The column the player stands in is always known to the collision world  *)
(* when the budget covers the vertical band.                               *)
THEOREM UnderfootIsKnown == Spec => []UnderfootKnown
<1>1. LoopInv => UnderfootKnown
  BY DEF LoopInv, SceneFollowsResidents, ColumnHeld, UnderfootKnown, At
<1>. QED BY <1>1, LoopInvHolds, PTL

(* A frame never signals a semaphore a presentation still waits for, or    *)
(* one that a failed presentation has left signalled.                      *)
THEOREM SemaphoresAreIdle == Spec => []RenderFinishedIdle
<1>1. LoopInv => RenderFinishedIdle
  BY DEF LoopInv, HostFollowsLoop, ImageNotQueued, RenderFinishedIdle, RenderFinished, R!At
<1>. QED BY <1>1, LoopInvHolds, PTL

-----------------------------------------------------------------------------
(* A sequence is a sequence of what it holds. *)
LEMMA SeqOfRange ==
  ASSUME NEW T, NEW q \in Seq(T)
  PROVE  q \in Seq({q[i] : i \in DOMAIN q})
<1>. DEFINE U == {q[i] : i \in DOMAIN q}
<1>1. q \in [1..Len(q) -> T] /\ Len(q) \in Nat /\ DOMAIN q = 1..Len(q)
  OBVIOUS
<1>2. \A i \in 1..Len(q) : q[i] \in U
  BY <1>1
<1>. HIDE DEF U
<1>3. q \in [1..Len(q) -> U]
  BY <1>1, <1>2
<1>4. q \in Seq(U)
  BY <1>1, <1>3
<1>. QED BY <1>4 DEF U

(* What a submission does to the queue. *)
LEMMA Submitted ==
  ASSUME queue \in Seq(Jobs), NEW w, queue' = Append(queue, w)
  PROVE  /\ queue' \in Seq(Jobs') /\ queue' # <<>>
         /\ \A i \in DOMAIN queue' :
              (i \in DOMAIN queue /\ queue'[i] = queue[i])
                 \/ (i = Len(queue) + 1 /\ queue'[i] = w)
<1>. DEFINE T == Jobs \cup {w}
<1>1. queue \in Seq(T) /\ w \in T
  OBVIOUS
<1>. HIDE DEF T
<1>2. queue' \in Seq(T) /\ queue' # <<>>
  BY <1>1
<1>3. queue' \in Seq({queue'[i] : i \in DOMAIN queue'})
  BY <1>2, SeqOfRange
<1>4. \A i \in DOMAIN queue' : (i \in DOMAIN queue /\ queue'[i] = queue[i])
                                \/ (i = Len(queue) + 1 /\ queue'[i] = w)
  BY <1>1
<1>. QED BY <1>2, <1>3, <1>4 DEF Jobs

(* What finishing the oldest submission does to the queue. *)
LEMMA Finished ==
  ASSUME queue \in Seq(Jobs), queue # <<>>, queue' = Tail(queue)
  PROVE  /\ queue' \in Seq(Jobs') /\ 1 \in DOMAIN queue /\ Head(queue) = queue[1]
         /\ \A i \in DOMAIN queue' : /\ i \in Int /\ i + 1 # 1
                                     /\ i + 1 \in DOMAIN queue /\ queue'[i] = queue[i + 1]
<1>. HIDE DEF Jobs
<1>1. queue' \in Seq(Jobs) /\ 1 \in DOMAIN queue /\ Head(queue) = queue[1]
  OBVIOUS
<1>2. queue' \in Seq({queue'[i] : i \in DOMAIN queue'})
  <2>1. \A q \in Seq(Jobs) : q \in Seq({q[i] : i \in DOMAIN q})
    BY SeqOfRange
  <2>. QED BY <1>1, <2>1, Zenon
<1>3. ASSUME NEW i \in DOMAIN queue'
      PROVE  i \in Int /\ i + 1 # 1 /\ i + 1 \in DOMAIN queue /\ queue'[i] = queue[i + 1]
  OBVIOUS
<1>. QED BY <1>1, <1>2, <1>3 DEF Jobs

-----------------------------------------------------------------------------
LEMMA InitGpu == Init => GpuInv
<1>. SUFFICES ASSUME R!Init PROVE GpuInv
  BY DEF Init
<1>1. 0 \in R!Slot
  BY WorldViewAssumption DEF R!Slot
<1>2. queue = <<>> /\ DOMAIN queue = {} /\ queue \in Seq(Jobs) /\ host.at = "idle" /\ host.slot = 0
      /\ ranges = NoScene
  BY DEF R!Init
<1>3. SlotsWellFormed
  BY <1>1, <1>2 DEF R!Init, SlotsWellFormed
<1>. QED BY <1>2, <1>3 DEF GpuInv, FencesGuardWork, BuffersHoldDrawList, R!At

(* Once the fences of the used slots have fired outside a transfer, the    *)
(* queue is empty.                                                         *)
LEMMA DrainedQueue ==
  ASSUME GpuInv, ~R!At("transfer"), \A s \in R!InFlight : signaled[s]
  PROVE  queue = <<>>
<1>. SUFFICES ASSUME queue # <<>> PROVE FALSE
  OBVIOUS
<1>1. 1 \in DOMAIN queue
  BY DEF GpuInv, SlotsWellFormed
<1>. QED BY <1>1 DEF GpuInv, SlotsWellFormed, FencesGuardWork, R!InFlight

(* With an empty queue, what remains is the host and the buffers. *)
LEMMA EmptyQueueGpu ==
  ASSUME SlotsWellFormed', queue' = <<>>,
         host'.at \in {"idle", "slot", "readback", "quiesce"} /\ ranges' # NoScene
           => geometry' = R!Holding(ranges'),
         host'.at # "transfer"
  PROVE  GpuInv'
<1>1. DOMAIN queue' = {}
  OBVIOUS
<1>2. FencesGuardWork'
  BY <1>1 DEF FencesGuardWork
<1>3. BuffersHoldDrawList'
  BY DEF BuffersHoldDrawList, R!At, R!Holding
<1>. QED BY <1>2, <1>3 DEF GpuInv

(* Steps of the host that leave the GPU's work, the slots and the scene    *)
(* alone.                                                                  *)
LEMMA HostMovesGpu ==
  ASSUME GpuInv, ~R!At("transfer"), host'.at # "transfer",
         host'.at \in {"idle", "slot", "readback", "quiesce"}
           => host.at \in {"idle", "slot", "readback", "quiesce"},
         host'.slot \in R!Slot, turn' \in R!Slot,
         UNCHANGED <<slotUsed, signaled, queue, ranges, geometry>>
  PROVE  GpuInv'
<1>. USE DEF GpuInv
<1>1. SlotsWellFormed'
  BY DEF SlotsWellFormed, Jobs
<1>2. FencesGuardWork'
  BY DEF FencesGuardWork, R!At
<1>3. BuffersHoldDrawList'
  BY DEF BuffersHoldDrawList, R!At, R!Holding
<1>. QED BY <1>1, <1>2, <1>3

LEMMA RenderFrameAsyncGpu ==
  ASSUME WellFormed, GpuInv, NEW v, R!RenderFrameAsync(v)
  PROVE  GpuInv'
<1>1. host'.at = "slot" /\ host'.slot = turn /\ host.at = "idle"
  BY HostFields DEF R!RenderFrameAsync, R!TakeSlot, R!At, WellFormed
<1>2. turn \in R!Slot
  BY DEF GpuInv, SlotsWellFormed
<1>3. turn' \in R!Slot
  <2>1. turn \in Int /\ kFramesInFlight \in Nat \ {0}
    BY <1>2, WorldViewAssumption DEF R!Slot
  <2>2. (turn + 1) % kFramesInFlight \in 0..(kFramesInFlight - 1)
    BY <2>1
  <2>. QED BY <2>2 DEF R!RenderFrameAsync, R!TakeSlot, R!NextTurn, R!Slot
<1>. QED BY <1>1, <1>2, <1>3, HostMovesGpu DEF R!RenderFrameAsync, R!gpuState, R!At

LEMMA UploadSceneGpu ==
  ASSUME WellFormed, GpuInv, NEW c, R!UploadScene(c)
  PROVE  GpuInv'
<1>1. host'.at = "quiesce" /\ host'.slot = host.slot /\ host.at = "idle"
  BY HostFields DEF R!UploadScene, R!At, WellFormed
<1>2. host'.slot \in R!Slot /\ turn' \in R!Slot
  BY <1>1 DEF R!UploadScene, GpuInv, SlotsWellFormed
<1>. QED BY <1>1, <1>2, HostMovesGpu DEF R!UploadScene, R!gpuState, R!At

LEMMA HostStopsGpu ==
  ASSUME WellFormed, GpuInv,
         R!SlotWaitFails \/ R!ReadBackWaitFails \/ R!Destroy
  PROVE  GpuInv'
<1>1. host'.at \in {"stopped", "drain"} /\ host'.slot = host.slot
  BY HostFields DEF R!SlotWaitFails, R!ReadBackWaitFails, R!Destroy, R!Failed, WellFormed
<1>2. host'.slot \in R!Slot /\ turn' \in R!Slot /\ ~R!At("transfer")
      /\ UNCHANGED <<slotUsed, signaled, queue, ranges, geometry>>
  BY <1>1 DEF R!SlotWaitFails, R!ReadBackWaitFails, R!Destroy, R!gpuState, R!At,
              GpuInv, SlotsWellFormed
<1>. QED BY <1>1, <1>2, HostMovesGpu

(* submitFrame's slot has no unfinished work, and the buffers it draws     *)
(* from hold the draw list.                                                *)
LEMMA SubmitFrameGpu ==
  ASSUME WellFormed, GpuInv, R!SubmitFrame
  PROVE  GpuInv'
<1>. USE DEF GpuInv
<1>. DEFINE w == [kind |-> "frame", slot |-> host.slot, frame |-> frames + 1,
                  scene |-> ranges, copy |-> host.view = OffView]
<1>1. /\ host.at = "slot" /\ host.slot \in R!Slot
      /\ slotUsed[host.slot] => signaled[host.slot]
  BY DEF R!SubmitFrame, R!SlotReady, R!Waited, R!At, SlotsWellFormed
<1>2. \A i \in DOMAIN queue : queue[i].slot # host.slot /\ queue[i].kind = "frame"
  BY <1>1 DEF FencesGuardWork, SlotsWellFormed, R!At
<1>3. host'.at \in {"readback", "idle"} /\ host'.slot \in R!Slot
  <2>1. R!LastSubmittedSlot \in R!Slot
    <3>1. turn \in Int /\ kFramesInFlight \in Nat \ {0}
      BY WorldViewAssumption DEF R!Slot, SlotsWellFormed
    <3>2. (turn + kFramesInFlight - 1) % kFramesInFlight \in 0..(kFramesInFlight - 1)
      BY <3>1
    <3>. QED BY <3>2 DEF R!LastSubmittedSlot, R!Slot
  <2>. QED BY <1>1, <2>1, HostFields DEF R!SubmitFrame, R!Idle, WellFormed
<1>4. queue' = Append(queue, w) /\ w.kind = "frame" /\ w.slot = host.slot
  BY DEF R!SubmitFrame
<1>. HIDE DEF w
<1>5. /\ queue' \in Seq(Jobs') /\ queue' # <<>>
      /\ \A i \in DOMAIN queue' : (i \in DOMAIN queue /\ queue'[i] = queue[i])
                                   \/ (i = Len(queue) + 1 /\ queue'[i] = w)
  BY <1>4, Submitted DEF SlotsWellFormed
<1>6. /\ slotUsed' \in [R!Slot -> BOOLEAN] /\ signaled' \in [R!Slot -> BOOLEAN]
      /\ ~signaled'[host.slot] /\ slotUsed'[host.slot]
      /\ \A s \in R!Slot : s # host.slot =>
            signaled'[s] = signaled[s] /\ slotUsed'[s] = slotUsed[s]
  BY <1>1 DEF R!SubmitFrame, SlotsWellFormed
<1>7. UNCHANGED <<turn, ranges, geometry>>
  BY DEF R!SubmitFrame
<1>8. SlotsWellFormed'
  BY <1>1, <1>3, <1>4, <1>5, <1>6, <1>7 DEF SlotsWellFormed
<1>9. FencesGuardWork'
  <2>1. \A i, j \in DOMAIN queue' : queue'[i].slot = queue'[j].slot => i = j
    BY <1>2, <1>4, <1>5 DEF FencesGuardWork
  <2>2. ASSUME NEW i \in DOMAIN queue'
        PROVE  /\ ~signaled'[queue'[i].slot] /\ queue'[i].kind = "frame"
               /\ slotUsed'[queue'[i].slot]
    BY <1>2, <1>4, <1>5, <1>6 DEF FencesGuardWork, SlotsWellFormed
  <2>3. ~R!At("transfer")'
    BY <1>3 DEF R!At
  <2>. QED BY <2>1, <2>2, <2>3 DEF FencesGuardWork
<1>10. BuffersHoldDrawList'
  BY <1>1, <1>3, <1>7 DEF BuffersHoldDrawList, R!At, R!Holding
<1>. QED BY <1>8, <1>9, <1>10

(* A frame that fails once its fence is reset, or is read back: fences     *)
(* only fall on slots without work, slots are only released without work.  *)
LEMMA SlotReleasedGpu ==
  ASSUME WellFormed, GpuInv, R!SubmitFrameFails \/ R!ReadBack
  PROVE  GpuInv'
<1>. USE DEF GpuInv
<1>1. /\ host.at \in {"slot", "readback"} /\ host.slot \in R!Slot
      /\ slotUsed[host.slot] => signaled[host.slot]
      /\ UNCHANGED <<turn, queue, ranges, geometry>>
  BY DEF R!SubmitFrameFails, R!ReadBack, R!SlotReady, R!Waited, R!At, R!gpuState,
         SlotsWellFormed
<1>2. host'.at \in {"stopped", "idle"} /\ host'.slot = host.slot
  BY HostFields DEF R!SubmitFrameFails, R!ReadBack, R!Failed, R!Idle, WellFormed
<1>3. \A i \in DOMAIN queue : queue[i].slot # host.slot /\ queue[i].kind = "frame"
  BY <1>1 DEF FencesGuardWork, SlotsWellFormed, R!At
<1>4. /\ slotUsed' \in [R!Slot -> BOOLEAN] /\ signaled' \in [R!Slot -> BOOLEAN]
      /\ \A s \in R!Slot : s # host.slot =>
            signaled'[s] = signaled[s] /\ slotUsed'[s] = slotUsed[s]
  BY DEF R!SubmitFrameFails, R!ReadBack, R!gpuState, SlotsWellFormed
<1>5. SlotsWellFormed'
  BY <1>1, <1>2, <1>4 DEF SlotsWellFormed, Jobs
<1>6. FencesGuardWork'
  BY <1>1, <1>2, <1>3, <1>4 DEF FencesGuardWork, SlotsWellFormed, R!At
<1>7. BuffersHoldDrawList'
  BY <1>1, <1>2 DEF BuffersHoldDrawList, R!At, R!Holding
<1>. QED BY <1>5, <1>6, <1>7

(* uploadScene replaces the scene when the GPU is idle. *)
LEMMA QuiesceGpu ==
  ASSUME GpuInv, R!Quiesce, "blind" \notin Faults
  PROVE  /\ queue = <<>> /\ host.at = "quiesce" /\ slotUsed' \in [R!Slot -> BOOLEAN]
         /\ host.slot \in R!Slot /\ turn \in R!Slot /\ signaled \in [R!Slot -> BOOLEAN]
<1>1. queue = <<>>
  BY DrainedQueue DEF R!Quiesce, R!Unchecked, R!At
<1>. QED BY <1>1 DEF R!Quiesce, R!At, GpuInv, SlotsWellFormed

LEMMA UploadEndsGpu ==
  ASSUME WellFormed, GpuInv, R!UploadEmpty \/ R!UploadFails, "blind" \notin Faults
  PROVE  GpuInv'
<1>1. /\ queue = <<>> /\ slotUsed' \in [R!Slot -> BOOLEAN]
      /\ host.slot \in R!Slot /\ turn \in R!Slot /\ signaled \in [R!Slot -> BOOLEAN]
  BY QuiesceGpu DEF R!UploadEmpty, R!UploadFails
<1>2. /\ host'.slot = host.slot /\ host'.at \in {"idle", "stopped"}
      /\ host'.at = "idle" => ranges' = NoScene
  BY HostFields DEF R!UploadEmpty, R!UploadFails, R!Quiesce, R!Idle, R!Failed, WellFormed
<1>3. queue' = <<>> /\ turn' = turn /\ signaled' \in [R!Slot -> BOOLEAN]
  BY <1>1 DEF R!UploadEmpty, R!UploadFails, R!gpuState
<1>4. DOMAIN queue' = {} /\ queue' \in Seq(Jobs')
  BY <1>3
<1>5. SlotsWellFormed'
  BY <1>1, <1>2, <1>3, <1>4 DEF SlotsWellFormed
<1>. QED BY <1>2, <1>3, <1>5, EmptyQueueGpu

LEMMA UploadTransferGpu ==
  ASSUME WellFormed, GpuInv, R!UploadTransfer, "blind" \notin Faults
  PROVE  GpuInv'
<1>. DEFINE w == [kind |-> "upload", slot |-> 0, frame |-> 0,
                  scene |-> host.scene, copy |-> FALSE]
<1>1. /\ queue = <<>> /\ slotUsed' \in [R!Slot -> BOOLEAN]
      /\ host.slot \in R!Slot /\ turn \in R!Slot /\ signaled \in [R!Slot -> BOOLEAN]
  BY QuiesceGpu DEF R!UploadTransfer
<1>2. 0 \in R!Slot
  BY WorldViewAssumption DEF R!Slot
<1>3. host'.slot = host.slot /\ host'.at = "transfer" /\ turn' = turn /\ ranges' = host.scene
  BY HostFields DEF R!UploadTransfer, R!Quiesce, WellFormed
<1>4. signaled' \in [R!Slot -> BOOLEAN] /\ ~signaled'[0]
  BY <1>1, <1>2 DEF R!UploadTransfer
<1>5. w.kind = "upload" /\ w.slot = 0 /\ w.scene = host.scene /\ queue' = Append(queue, w)
  BY DEF R!UploadTransfer
<1>. HIDE DEF w
<1>6. queue' = <<w>>
  BY <1>1, <1>5
<1>7. queue' # <<>> /\ DOMAIN queue' = {1} /\ queue'[1] = w
  BY <1>6
<1>8. queue' \in Seq(Jobs')
  <2>1. Jobs' = {w}
    BY <1>7 DEF Jobs
  <2>. QED BY <1>6, <2>1
<1>9. SlotsWellFormed'
  BY <1>1, <1>2, <1>3, <1>4, <1>5, <1>7, <1>8 DEF SlotsWellFormed
<1>10. FencesGuardWork' /\ BuffersHoldDrawList'
  BY <1>3, <1>4, <1>5, <1>7 DEF FencesGuardWork, BuffersHoldDrawList, R!At
<1>. QED BY <1>9, <1>10 DEF GpuInv

LEMMA UploadDoneGpu ==
  ASSUME WellFormed, GpuInv, R!UploadDone, "blind" \notin Faults
  PROVE  GpuInv'
<1>. USE DEF GpuInv
<1>1. /\ host.at = "transfer" /\ signaled[0]
      /\ UNCHANGED <<turn, signaled, queue, ranges, geometry>>
  BY DEF R!UploadDone, R!Unchecked, R!At, R!gpuState
<1>2. host'.at = "idle" /\ host'.slot = host.slot
  BY HostFields DEF R!UploadDone, R!Idle, WellFormed
<1>3. queue = <<>>
  <2>1. queue # <<>> => 1 \in DOMAIN queue
    BY DEF SlotsWellFormed
  <2>. QED BY <1>1, <2>1 DEF FencesGuardWork, SlotsWellFormed, R!At
<1>4. geometry' = R!Holding(ranges')
  BY <1>1, <1>3 DEF BuffersHoldDrawList, R!At, R!Holding
<1>5. SlotsWellFormed'
  BY <1>1, <1>2 DEF SlotsWellFormed, Jobs, R!UploadDone
<1>. QED BY <1>1, <1>2, <1>3, <1>4, <1>5, EmptyQueueGpu

LEMMA TearDownGpu ==
  ASSUME WellFormed, GpuInv, R!TearDown, "blind" \notin Faults
  PROVE  GpuInv'
<1>1. host'.at = "gone" /\ host'.slot = host.slot
  BY HostFields DEF R!TearDown, WellFormed
<1>2. queue = <<>> /\ UNCHANGED <<slotUsed, turn, signaled, queue>>
  BY DrainedQueue DEF R!TearDown, R!Unchecked, R!At, R!gpuState
<1>3. SlotsWellFormed'
  BY <1>1, <1>2 DEF GpuInv, SlotsWellFormed, Jobs
<1>. QED BY <1>1, <1>2, <1>3, EmptyQueueGpu

LEMMA GpuFinishGpu ==
  ASSUME GpuInv, R!GpuFinish
  PROVE  GpuInv'
<1>. USE DEF GpuInv
<1>. DEFINE w == Head(queue)
<1>1. /\ queue' \in Seq(Jobs') /\ 1 \in DOMAIN queue /\ w = queue[1]
      /\ \A i \in DOMAIN queue' : /\ i \in Int /\ i + 1 # 1
                                  /\ i + 1 \in DOMAIN queue /\ queue'[i] = queue[i + 1]
  BY Finished DEF R!GpuFinish, SlotsWellFormed
<1>2. /\ signaled' = [signaled EXCEPT ![w.slot] = TRUE]
      /\ geometry' = IF w.kind = "upload" THEN R!Holding(w.scene) ELSE geometry
      /\ UNCHANGED <<turn, slotUsed, host, ranges>>
  BY DEF R!GpuFinish
<1>. HIDE DEF w
<1>3. /\ w.slot \in R!Slot /\ signaled' \in [R!Slot -> BOOLEAN]
      /\ \A s \in R!Slot : s # w.slot => signaled'[s] = signaled[s]
  BY <1>1, <1>2 DEF SlotsWellFormed
<1>4. SlotsWellFormed'
  BY <1>1, <1>2, <1>3 DEF SlotsWellFormed
<1>5. FencesGuardWork'
  <2>1. \A i, j \in DOMAIN queue' : queue'[i].slot = queue'[j].slot => i = j
    <3>. SUFFICES ASSUME NEW i \in DOMAIN queue', NEW j \in DOMAIN queue',
                         queue'[i].slot = queue'[j].slot
                  PROVE  i = j
      OBVIOUS
    <3>1. i + 1 = j + 1 /\ i \in Int /\ j \in Int
      BY <1>1 DEF FencesGuardWork
    <3>. QED BY <3>1
  <2>2. \A i \in DOMAIN queue' : queue'[i].slot \in R!Slot /\ queue'[i].slot # w.slot
    BY <1>1 DEF FencesGuardWork, SlotsWellFormed
  <2>3. ASSUME NEW i \in DOMAIN queue'
        PROVE  /\ ~signaled'[queue'[i].slot]
               /\ queue'[i].kind = "frame" => slotUsed[queue'[i].slot] /\ ~R!At("transfer")
               /\ queue'[i].kind = "upload" => /\ R!At("transfer")
                                               /\ queue'[i].slot = 0 /\ queue'[i].scene = ranges
    BY <1>1, <1>3, <2>2 DEF FencesGuardWork
  <2>. QED BY <1>2, <2>1, <2>3 DEF FencesGuardWork, R!At
<1>6. BuffersHoldDrawList'
  <2>1. w.kind \in {"frame", "upload"}
    BY <1>1 DEF SlotsWellFormed
  <2>2. R!At("transfer") <=> w.kind = "upload"
    BY <1>1, <2>1 DEF FencesGuardWork
  <2>3. w.kind = "upload" => w.scene = ranges
    BY <1>1 DEF FencesGuardWork
  <2>. QED BY <1>2, <2>2, <2>3 DEF BuffersHoldDrawList, R!At, R!Holding
<1>. QED BY <1>4, <1>5, <1>6

LEMMA NextGpu ==
  ASSUME LoopInv, GpuInv, [Next]_vars, "blind" \notin Faults
  PROVE  GpuInv'
<1>. USE DEF LoopInv
<1>1. CASE UNCHANGED rendererVars
  <2>. USE <1>1 DEF rendererVars, GpuInv
  <2>1. SlotsWellFormed'
    BY DEF SlotsWellFormed, Jobs
  <2>2. FencesGuardWork' /\ BuffersHoldDrawList'
    BY DEF FencesGuardWork, BuffersHoldDrawList, R!At, R!Holding
  <2>. QED BY <2>1, <2>2
<1>2. CASE R!Progress \/ R!Failure
  BY <1>2, SubmitFrameGpu, SlotReleasedGpu, HostStopsGpu, UploadEndsGpu, UploadTransferGpu,
     UploadDoneGpu, TearDownGpu DEF R!Progress, R!Failure
<1>3. CASE R!GpuFinish
  BY <1>3, GpuFinishGpu
<1>4. CASE R!Destroy
  BY <1>4, HostStopsGpu
<1>5. CASE RebuildScene
  BY <1>5, UploadSceneGpu DEF RebuildScene
<1>6. CASE R!RenderFrameAsync(image)
  BY <1>6, RenderFrameAsyncGpu
<1>7. \/ UNCHANGED rendererVars
      \/ R!Progress \/ R!Failure \/ R!GpuFinish \/ R!Destroy
      \/ RebuildScene \/ R!RenderFrameAsync(image)
  <2>1. CASE LoopStep
    BY <2>1 DEF LoopStep, Start, Prime, Primed, Pump, Rebuild, Rebuilt, Acquire, Render,
       Present, RenderFailed, Teardown, LeaveScope
  <2>2. CASE Quit \/ AcquireFails \/ PresentFails \/ Show \/ \E walk \in BOOLEAN, c \in Centers : Step(walk, c)
    BY <2>2 DEF Quit, AcquireFails, PresentFails, Show, Step
  <2>3. CASE RendererStep \/ RendererFails \/ GpuStep
    BY <2>3 DEF RendererStep, RendererFails, GpuStep
  <2>4. CASE UNCHANGED vars
    BY <2>4 DEF vars
  <2>. QED BY <2>1, <2>2, <2>3, <2>4 DEF Next
<1>. QED BY <1>1, <1>2, <1>3, <1>4, <1>5, <1>6, <1>7

(* A frame draws the meshes of the current residents, from buffers that    *)
(* hold them: the loop's invariant gives the draw list, the renderer's     *)
(* the buffers.                                                            *)
THEOREM FramesShowResidents ==
  ASSUME "blind" \notin Faults
  PROVE  Spec => []FrameShowsResidents
<1>1. LoopInv /\ GpuInv /\ [Next]_vars => (LoopInv /\ GpuInv)'
  BY NextLoop, NextGpu
<1>2. LoopInv /\ GpuInv => FrameShowsResidents
  BY DEF LoopInv, GpuInv, HostFollowsLoop, SceneFollowsResidents, BuffersHoldDrawList,
         FrameShowsResidents, R!At
<1>3. Init => LoopInv /\ GpuInv
  BY InitLoop, InitGpu
<1>. QED BY <1>1, <1>2, <1>3, PTL DEF Spec
=============================================================================
