--------------------------- MODULE WorldRenderer ----------------------------
(***************************************************************************)
(* vk::WorldRenderer of src/vk/worldrenderer.cpp: one host thread, a GPU   *)
(* queue, and the command slots (a command buffer, a fence, a timestamp    *)
(* pair) that rotate between them.                                         *)
(*                                                                         *)
(* A call of the host that blocks on a fence is split there: the first     *)
(* step enters the wait, the next one runs once the fence is signalled.    *)
(* The GPU (external) finishes submissions in queue order, which is what   *)
(* a fence signal operation on one queue guarantees.  A scene is a model   *)
(* value; NoScene is the empty scene, which is legal and draws nothing.    *)
(***************************************************************************)
EXTENDS Integers, Sequences

CONSTANTS
  kFramesInFlight,  \* command slots
  Views,            \* swapchain image views the caller renders into
  Scenes, NoScene,  \* non-empty draw lists; the empty one
  OffView,          \* the view of the internally owned offscreen image
  Timestamps,       \* whether the queue family has timestamps
  Faults,           \* calls that may fail: {"alloc", "record", "wait", "blind"},
                    \* "blind" being a fence wait whose result is not looked at
  MaxFrames         \* bound on the frames submitted

Slot == 0..(kFramesInFlight - 1)

ASSUME RendererAssumption ==
  /\ kFramesInFlight \in Nat \ {0}
  /\ NoScene \notin Scenes /\ OffView \notin Views
  /\ Timestamps \in BOOLEAN
  /\ Faults \subseteq {"alloc", "record", "wait", "blind"}
  /\ MaxFrames \in Nat

VARIABLES
  valid,         \* init succeeded
  turn,          \* frameIndex % kFramesInFlight
  slotUsed,      \* as in the code
  signaled,      \* the slots' fences
  queue,         \* submissions the GPU has not finished
  host,          \* what the host thread is doing
  ranges,        \* the draw list: a scene
  geometry,      \* the vertex and index buffers, see Geometry
  offscreen,     \* how much of the offscreen target exists, see Target
  framebuffers,  \* views with a cached framebuffer
  staging,       \* what the offscreen readback memory holds
  frames,        \* frames submitted so far
  query,         \* query[s]: the frame whose span slot s's timestamps hold
  lastGpu        \* the frame lastGpuMillis() reports, 0 before the first

vars == <<valid, turn, slotUsed, signaled, queue, host, ranges, geometry,
          offscreen, framebuffers, staging, frames, query, lastGpu>>

gpuState == <<signaled, queue, staging, query>>

Scene == Scenes \cup {NoScene}

(* No buffers; some of the handles but not both bound buffers; both        *)
(* buffers, nothing transferred yet; both holding a scene.                 *)
Geometry == [stage : {"null", "partial", "blank", "full"}, scene : Scene]

Buffers(stage) == [stage |-> stage, scene |-> NoScene]
Holding(scene) == [stage |-> "full", scene |-> scene]

(* Nothing; an image without all of memory and view; image and view but no *)
(* mapped staging buffer; everything.                                      *)
Target == {"none", "image", "view", "mapped"}

Work == [kind : {"frame", "upload"}, slot : Slot, frame : 0..MaxFrames,
         scene : Scene, copy : BOOLEAN]

Resting == {"idle", "stopped", "gone"}
Host    == [at : Resting \cup {"slot", "readback", "quiesce", "transfer", "drain"},
            slot : Slot, view : Views \cup {OffView}, scene : Scene]

At(place) == host.at = place
Idle      == [host EXCEPT !.at = "idle"]

(* A failed call: every caller in the repository then only destroys the    *)
(* renderer.                                                               *)
Failed == [host EXCEPT !.at = "stopped"]

(* vkWaitForFences on a slot: it returns when the fence is signalled.  An  *)
(* unchecked wait also goes on when the call itself fails.                 *)
Waited(s)    == signaled[s]
Unchecked(s) == signaled[s] \/ "blind" \in Faults

InFlight == {s \in Slot : slotUsed[s]}

(* Mutant of LastSubmittedSlot: the slot the next frame will take. *)
LastSubmittedSlotIsNext == turn

(* lastSubmittedSlot(), from the frame index after its increment. *)
LastSubmittedSlot == (turn + kFramesInFlight - 1) % kFramesInFlight

-----------------------------------------------------------------------------
(* The constructor: everything was created, or init failed somewhere and   *)
(* the renderer is invalid.                                                *)
Init ==
  /\ valid \in {TRUE} \cup {v \in {FALSE} : "alloc" \in Faults}
  /\ turn = 0
  /\ slotUsed = [s \in Slot |-> FALSE]
  /\ signaled = [s \in Slot |-> FALSE]
  /\ queue = <<>>
  /\ host \in [at : {"idle"}, slot : {0}, view : {OffView}, scene : {NoScene}]
  /\ ranges = NoScene /\ geometry = Buffers("null")
  /\ offscreen = "none" /\ framebuffers = {}
  /\ staging = NoScene
  /\ frames = 0
  /\ query = [s \in Slot |-> 0]
  /\ lastGpu = 0

(* collectGpuTime(slot), after the slot's fence was waited for. *)
CollectGpuTime(s) == lastGpu' = IF Timestamps THEN query[s] ELSE lastGpu

NextTurn == (turn + 1) % kFramesInFlight

(* submitFrame up to its wait: the slot is taken and the index advances    *)
(* whatever happens next.                                                  *)
TakeSlot(view) ==
  /\ host' = [host EXCEPT !.at = "slot", !.slot = turn, !.view = view]
  /\ turn' = NextTurn

RenderFrameAsync(view) ==
  /\ At("idle") /\ valid /\ frames < MaxFrames
  /\ TakeSlot(view)
  /\ UNCHANGED <<valid, slotUsed, ranges, geometry, offscreen, framebuffers,
                 frames, lastGpu, gpuState>>

(* renderOffscreen: the target is created when there is no image yet, and  *)
(* creation may stop at any of its stages.                                 *)
RenderOffscreen ==
  /\ At("idle") /\ valid /\ frames < MaxFrames
  /\ \/ /\ offscreen # "none"
        /\ TakeSlot(OffView)
        /\ UNCHANGED offscreen
     \/ /\ offscreen = "none"
        /\ offscreen' = "mapped"
        /\ TakeSlot(OffView)
     \/ /\ offscreen = "none" /\ "alloc" \in Faults
        /\ offscreen' \in Target \ {"mapped"}
        /\ host' = Failed
        /\ UNCHANGED turn
  /\ UNCHANGED <<valid, slotUsed, ranges, geometry, framebuffers, frames,
                 lastGpu, gpuState>>

(* Any call on an invalid renderer returns its init error. *)
RefuseInvalid ==
  /\ At("idle") /\ ~valid
  /\ host' = Failed
  /\ UNCHANGED <<valid, turn, slotUsed, ranges, geometry, offscreen,
                 framebuffers, frames, lastGpu, gpuState>>

(* submitFrame's wait fails: the slot is left as it was. *)
SlotWaitFails ==
  /\ At("slot") /\ "wait" \in Faults /\ slotUsed[host.slot]
  /\ host' = Failed
  /\ UNCHANGED <<valid, turn, slotUsed, ranges, geometry, offscreen,
                 framebuffers, frames, lastGpu, gpuState>>

(* Mutant of SlotReady: the fence is reset without being waited for. *)
SlotReadyUnwaited == At("slot") /\ UNCHANGED lastGpu

SlotReady ==
  /\ At("slot")
  /\ slotUsed[host.slot] => Waited(host.slot)
  /\ IF slotUsed[host.slot] THEN CollectGpuTime(host.slot) ELSE UNCHANGED lastGpu

(* The rest of submitFrame: reset the fence, record, submit. *)
SubmitFrame ==
  /\ SlotReady
  /\ frames' = frames + 1
  /\ signaled' = [signaled EXCEPT ![host.slot] = FALSE]
  /\ framebuffers' = framebuffers \cup {host.view}
  /\ queue' = Append(queue, [kind |-> "frame", slot |-> host.slot, frame |-> frames + 1,
                             scene |-> ranges, copy |-> host.view = OffView])
  /\ slotUsed' = [slotUsed EXCEPT ![host.slot] = TRUE]
  /\ host' = IF host.view = OffView
             THEN [host EXCEPT !.at = "readback", !.slot = LastSubmittedSlot]
             ELSE Idle
  /\ UNCHANGED <<valid, turn, ranges, geometry, offscreen, staging, query>>

(* Recording or submitting fails after the fence was reset: before the     *)
(* framebuffer lookup, in it, or after it.                                 *)
SubmitFrameFails ==
  /\ "record" \in Faults
  /\ SlotReady
  /\ signaled' = [signaled EXCEPT ![host.slot] = FALSE]
  /\ framebuffers' \in {framebuffers, framebuffers \cup {host.view}}
  /\ host' = Failed
  /\ UNCHANGED <<valid, turn, slotUsed, queue, ranges, geometry, offscreen,
                 staging, frames, query>>

(* renderOffscreen's own wait, then the time and the pixels are read. *)
ReadBack ==
  /\ At("readback") /\ Waited(host.slot)
  /\ CollectGpuTime(host.slot)
  /\ slotUsed' = [slotUsed EXCEPT ![host.slot] = FALSE]
  /\ host' = Idle
  /\ UNCHANGED <<valid, turn, ranges, geometry, offscreen, framebuffers,
                 frames, gpuState>>

ReadBackWaitFails ==
  /\ At("readback") /\ "wait" \in Faults
  /\ host' = Failed
  /\ UNCHANGED <<valid, turn, slotUsed, ranges, geometry, offscreen,
                 framebuffers, frames, lastGpu, gpuState>>

-----------------------------------------------------------------------------
(* uploadScene waits for every used slot without looking at the result. *)
UploadScene(scene) ==
  /\ At("idle") /\ valid
  /\ host' = [host EXCEPT !.at = "quiesce", !.scene = scene]
  /\ UNCHANGED <<valid, turn, slotUsed, ranges, geometry, offscreen,
                 framebuffers, frames, lastGpu, gpuState>>

(* Mutant of Quiesce: only slot 0, which the transfer borrows, is waited   *)
(* for.                                                                    *)
QuiesceSlotZero ==
  /\ At("quiesce")
  /\ slotUsed[0] => Unchecked(0)
  /\ slotUsed' = [s \in Slot |-> FALSE]
  /\ ranges' = host.scene

(* All slots become idle, the old buffers are destroyed, the new draw list *)
(* is in place before the new buffers are.                                 *)
Quiesce ==
  /\ At("quiesce")
  /\ \A s \in InFlight : Unchecked(s)
  /\ slotUsed' = [s \in Slot |-> FALSE]
  /\ ranges' = host.scene

UploadEmpty ==
  /\ Quiesce /\ host.scene = NoScene
  /\ geometry' = Buffers("null")
  /\ host' = Idle
  /\ UNCHANGED <<valid, turn, offscreen, framebuffers, frames, lastGpu, gpuState>>

(* The transfer goes through slot 0's command buffer and fence. *)
UploadTransfer ==
  /\ Quiesce /\ host.scene # NoScene
  /\ geometry' = Buffers("blank")
  /\ signaled' = [signaled EXCEPT ![0] = FALSE]
  /\ queue' = Append(queue, [kind |-> "upload", slot |-> 0, frame |-> 0,
                             scene |-> host.scene, copy |-> FALSE])
  /\ host' = [host EXCEPT !.at = "transfer"]
  /\ UNCHANGED <<valid, turn, offscreen, framebuffers, frames, staging, query, lastGpu>>

(* Too many vertices, or an allocation or the submission failed: the draw  *)
(* list stays, whatever exists of the buffers.                             *)
UploadFails ==
  /\ "alloc" \in Faults
  /\ Quiesce /\ host.scene # NoScene
  /\ \/ geometry' \in {Buffers("null"), Buffers("partial")} /\ UNCHANGED signaled
     \/ geometry' = Buffers("blank") /\ signaled' = [signaled EXCEPT ![0] = FALSE]
  /\ host' = Failed
  /\ UNCHANGED <<valid, turn, queue, offscreen, framebuffers, frames, staging, query, lastGpu>>

(* Mutant of UploadDone: every slot's fence is waited for, used or not. *)
UploadDoneWaitsAll ==
  /\ At("transfer") /\ \A s \in Slot : Unchecked(s)
  /\ slotUsed' = [slotUsed EXCEPT ![0] = FALSE]
  /\ host' = Idle
  /\ UNCHANGED <<valid, turn, ranges, geometry, offscreen, framebuffers, frames,
                 lastGpu, gpuState>>

UploadDone ==
  /\ At("transfer") /\ Unchecked(0)
  /\ slotUsed' = [slotUsed EXCEPT ![0] = FALSE]
  /\ host' = Idle
  /\ UNCHANGED <<valid, turn, ranges, geometry, offscreen, framebuffers, frames,
                 lastGpu, gpuState>>

(* ~Impl: wait for the used slots, then destroy everything. *)
Destroy ==
  /\ host.at \in {"idle", "stopped"}
  /\ host' = [host EXCEPT !.at = "drain"]
  /\ UNCHANGED <<valid, turn, slotUsed, ranges, geometry, offscreen,
                 framebuffers, frames, lastGpu, gpuState>>

TearDown ==
  /\ At("drain")
  /\ \A s \in InFlight : Unchecked(s)
  /\ host' = [host EXCEPT !.at = "gone"]
  /\ geometry' = Buffers("null") /\ offscreen' = "none" /\ framebuffers' = {}
  /\ UNCHANGED <<valid, turn, slotUsed, ranges, frames, lastGpu, gpuState>>

-----------------------------------------------------------------------------
(* The GPU finishes the oldest submission and signals its fence. *)
GpuFinish ==
  /\ queue # <<>>
  /\ LET w == Head(queue)
     IN  /\ signaled' = [signaled EXCEPT ![w.slot] = TRUE]
         /\ geometry' = IF w.kind = "upload" THEN Holding(w.scene) ELSE geometry
         /\ query' = IF w.kind = "frame" THEN [query EXCEPT ![w.slot] = w.frame] ELSE query
         /\ staging' = IF w.copy THEN w.scene ELSE staging
  /\ queue' = Tail(queue)
  /\ UNCHANGED <<valid, turn, slotUsed, host, ranges, offscreen, framebuffers,
                 frames, lastGpu>>

(* The steps that carry on the call the host is in, and those that end it  *)
(* with a failure.                                                         *)
Progress ==
  \/ SubmitFrame \/ ReadBack
  \/ UploadEmpty \/ UploadTransfer \/ UploadDone
  \/ TearDown

Failure == SlotWaitFails \/ SubmitFrameFails \/ ReadBackWaitFails \/ UploadFails

Next ==
  \/ \E v \in Views : RenderFrameAsync(v)
  \/ RenderOffscreen
  \/ RefuseInvalid
  \/ \E s \in Scene : UploadScene(s)
  \/ Destroy
  \/ Progress
  \/ Failure
  \/ GpuFinish

Spec == Init /\ [][Next]_vars

(* The host thread runs on inside a call; the GPU finishes what it has.    *)
(* Nothing need fail.                                                      *)
FairSpec == Spec /\ WF_vars(Progress) /\ WF_vars(GpuFinish)

-----------------------------------------------------------------------------
(* Type invariant. *)
TypeOK ==
  /\ valid \in BOOLEAN
  /\ turn \in Slot
  /\ slotUsed \in [Slot -> BOOLEAN] /\ signaled \in [Slot -> BOOLEAN]
  /\ queue \in Seq(Work)
  /\ host \in Host
  /\ ranges \in Scene /\ geometry \in Geometry
  /\ offscreen \in Target
  /\ framebuffers \subseteq Views \cup {OffView}
  /\ staging \in Scene
  /\ frames \in 0..MaxFrames
  /\ query \in [Slot -> 0..MaxFrames]
  /\ lastGpu \in 0..MaxFrames

Unfinished(s) == {i \in DOMAIN queue : queue[i].slot = s}

(* "At most kFramesInFlight frames are unfinished at once": a slot has at  *)
(* most one unfinished submission, and none when the host is about to      *)
(* reset and re-record its command buffer, be it for a frame or for the    *)
(* transfer that borrows slot 0.                                           *)
SlotsNotReusedInFlight ==
  /\ \A s \in Slot : \A i, j \in Unfinished(s) : i = j
  /\ At("slot") /\ (slotUsed[host.slot] => signaled[host.slot]) => Unfinished(host.slot) = {}
  /\ At("quiesce") /\ (\A s \in InFlight : signaled[s]) => queue = <<>>

(* Every frame the GPU has still to draw finds the scene it was recorded   *)
(* with: complete, transferred, and not destroyed under it by a later      *)
(* uploadScene or by the destructor.                                       *)
FramesDrawLiveScene ==
  \A i \in DOMAIN queue :
     queue[i].kind = "frame" /\ queue[i].scene # NoScene =>
        \/ geometry = Holding(queue[i].scene)
        \/ \E j \in 1..(i - 1) : queue[j].kind = "upload" /\ queue[j].scene = queue[i].scene

(* The pixels renderOffscreen copies out are those of its own frame, drawn *)
(* from the scene of the latest upload.                                    *)
ReadbackIsThisFrame ==
  At("readback") /\ signaled[host.slot] => staging = ranges /\ query[host.slot] = frames

(* Every rendering or upload call returns: no wait in them is for a fence  *)
(* that never fires.                                                       *)
EveryCallReturns ==
  host.at \in {"slot", "readback", "quiesce", "transfer"} ~> host.at \in Resting

(* "Wait every in-flight slot before tearing anything down": the wait is   *)
(* for slots in flight, so it ends and destroying the renderer returns.    *)
DestructorReturns == At("drain") ~> At("gone")
=============================================================================
