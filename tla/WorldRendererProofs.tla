------------------------ MODULE WorldRendererProofs -------------------------
(***************************************************************************)
(* Proofs about WorldRenderer, for any number of command slots, views,     *)
(* scenes and frames, with allocation, recording and checked waits failing *)
(* or not.  The theorems assume that a wait whose result the code ignores  *)
(* does not itself fail ("blind" is not among the Faults): if it may, the  *)
(* code does destroy what the GPU still uses.                              *)
(***************************************************************************)
EXTENDS WorldRenderer, TLAPS

(* A fence is unsignalled while work on its slot is unfinished, one        *)
(* submission per slot; a slot with an unfinished frame is marked used,    *)
(* and an upload is only in the queue while uploadScene waits for it.      *)
FencesGuardSlots ==
  /\ \A i, j \in DOMAIN queue : queue[i].slot = queue[j].slot => i = j
  /\ \A i \in DOMAIN queue : ~signaled[queue[i].slot]
  /\ \A i \in DOMAIN queue : queue[i].kind = "frame" => slotUsed[queue[i].slot]
  /\ \A i \in DOMAIN queue : queue[i].kind = "upload" => At("transfer")

(* While uploadScene waits, the queue holds its transfer and nothing else, *)
(* or the transfer is done.                                                *)
TransferAlone ==
  At("transfer") =>
    /\ \A i \in DOMAIN queue : /\ queue[i].kind = "upload"
                               /\ queue[i].slot = 0
                               /\ queue[i].scene = ranges
    /\ queue = <<>> => geometry = Holding(ranges)

(* Unfinished frames were recorded with the draw list in force, and its    *)
(* buffers are complete as long as one of them has still to be drawn or    *)
(* the host may submit another.                                            *)
BuffersMatchDrawList ==
  /\ \A i \in DOMAIN queue : queue[i].kind = "frame" =>
        /\ queue[i].scene = ranges
        /\ ranges # NoScene => geometry = Holding(ranges)
  /\ host.at \in {"idle", "slot", "readback", "quiesce"} /\ ranges # NoScene
       => geometry = Holding(ranges)

(* submitFrame holds the slot before the next turn, and may count one more *)
(* frame.                                                                  *)
SlotBeforeTurn ==
  At("slot") => turn = (host.slot + 1) % kFramesInFlight /\ frames < MaxFrames

IsReadback(w) ==
  /\ w.kind = "frame" /\ w.slot = host.slot /\ w.scene = ranges
  /\ w.copy /\ w.frame = frames

(* renderOffscreen's frame is the last of the queue, or it is done and the *)
(* GPU has nothing left that could overwrite what it wrote.                *)
ReadbackIsLast ==
  At("readback") =>
    \/ queue # <<>> /\ IsReadback(queue[Len(queue)])
    \/ queue = <<>> /\ staging = ranges /\ query[host.slot] = frames

(* The inductive invariant of the renderer. *)
RendererInv ==
  TypeOK /\ FencesGuardSlots /\ TransferAlone /\ BuffersMatchDrawList
  /\ SlotBeforeTurn /\ ReadbackIsLast

-----------------------------------------------------------------------------
(* What Append does to the elements of a queue. *)
LEMMA Appended ==
  ASSUME NEW S, NEW q \in Seq(S), NEW w \in S
  PROVE  /\ Append(q, w) \in Seq(S) /\ Append(q, w) # <<>>
         /\ Len(Append(q, w)) = Len(q) + 1
         /\ DOMAIN q = 1..Len(q) /\ DOMAIN Append(q, w) = 1..(Len(q) + 1)
         /\ \A i \in DOMAIN q : Append(q, w)[i] = q[i]
         /\ Append(q, w)[Len(q) + 1] = w
  OBVIOUS

(* What taking the head off a queue does to its elements. *)
LEMMA Tailed ==
  ASSUME NEW S, NEW q \in Seq(S), q # <<>>
  PROVE  /\ Head(q) \in S /\ Head(q) = q[1] /\ 1 \in DOMAIN q
         /\ Tail(q) \in Seq(S)
         /\ Len(q) \in Nat \ {0} /\ Len(Tail(q)) = Len(q) - 1
         /\ DOMAIN q = 1..Len(q) /\ DOMAIN Tail(q) = 1..(Len(q) - 1)
         /\ \A i \in DOMAIN Tail(q) : i + 1 \in DOMAIN q /\ Tail(q)[i] = q[i + 1]
         /\ Tail(q) = <<>> <=> Len(q) = 1
<1>1. Len(q) \in Nat \ {0}
  OBVIOUS
<1>2. DOMAIN q = 1..Len(q) /\ 1 \in DOMAIN q /\ Head(q) = q[1] /\ Head(q) \in S
  BY <1>1
<1>3. Tail(q) \in Seq(S) /\ Len(Tail(q)) = Len(q) - 1
  OBVIOUS
<1>4. DOMAIN Tail(q) = 1..(Len(q) - 1)
  BY <1>3
<1>5. ASSUME NEW i \in DOMAIN Tail(q)
      PROVE  i + 1 \in DOMAIN q /\ Tail(q)[i] = q[i + 1]
  BY <1>1, <1>2, <1>4, <1>5
<1>6. Tail(q) = <<>> <=> Len(q) = 1
  <2>1. \A t \in Seq(S) : t = <<>> <=> Len(t) = 0
    OBVIOUS
  <2>2. Tail(q) = <<>> <=> Len(Tail(q)) = 0
    BY <1>3, <2>1
  <2>. QED BY <1>1, <1>3, <2>2
<1>. QED BY <1>1, <1>2, <1>3, <1>4, <1>5, <1>6

(* lastSubmittedSlot() undoes one advance of the frame index. *)
LEMMA SlotArithmetic ==
  ASSUME NEW k \in Nat \ {0}, NEW s \in 0..(k - 1)
  PROVE  /\ (s + 1) % k \in 0..(k - 1)
         /\ (((s + 1) % k) + k - 1) % k = s
<1>1. CASE s + 1 < k
  <2>1. (s + 1) % k = s + 1
    BY <1>1
  <2>2. (s + k) % k = s
    OBVIOUS
  <2>. QED BY <1>1, <2>1, <2>2
<1>2. CASE s + 1 = k
  <2>1. (s + 1) % k = 0
    BY <1>2
  <2>2. (k - 1) % k = k - 1
    OBVIOUS
  <2>. QED BY <1>2, <2>1, <2>2
<1>. QED BY <1>1, <1>2

(* Every submission is for a slot of the renderer. *)
LEMMA WorkFields ==
  ASSUME TypeOK, NEW i \in DOMAIN queue
  PROVE  /\ queue[i] \in Work
         /\ queue[i].slot \in Slot
         /\ queue[i].kind \in {"frame", "upload"}
<1>1. queue[i] \in Work
  BY DEF TypeOK
<1>. QED BY <1>1 DEF Work

-----------------------------------------------------------------------------
(* A slot whose fence submitFrame has waited for, or that was never used,  *)
(* has nothing unfinished.                                                 *)
LEMMA ReadySlotIsFree ==
  ASSUME RendererInv, At("slot"), slotUsed[host.slot] => signaled[host.slot]
  PROVE  \A i \in DOMAIN queue : queue[i].slot # host.slot
<1>. SUFFICES ASSUME NEW i \in DOMAIN queue, queue[i].slot = host.slot
              PROVE  FALSE
  OBVIOUS
<1>1. queue[i].kind \in {"frame", "upload"}
  BY WorkFields DEF RendererInv
<1>. QED BY <1>1 DEF RendererInv, FencesGuardSlots, At

(* Once the fences of all used slots have fired outside a transfer, the    *)
(* GPU has nothing left to do.                                             *)
LEMMA WaitedQueueIsEmpty ==
  ASSUME RendererInv, ~At("transfer"), \A s \in InFlight : signaled[s]
  PROVE  queue = <<>>
<1>. SUFFICES ASSUME queue # <<>> PROVE FALSE
  OBVIOUS
<1>1. 1 \in DOMAIN queue
  BY DEF RendererInv, TypeOK
<1>2. queue[1].slot \in Slot /\ queue[1].kind = "frame"
  BY <1>1, WorkFields DEF RendererInv, FencesGuardSlots
<1>. QED BY <1>1, <1>2 DEF RendererInv, FencesGuardSlots, InFlight

-----------------------------------------------------------------------------
LEMMA InitInv == Init => RendererInv
<1>. SUFFICES ASSUME Init PROVE RendererInv
  OBVIOUS
<1>. USE RendererAssumption
<1>1. 0 \in Slot
  BY DEF Slot
<1>2. TypeOK
  <2>1. host \in Host
    BY <1>1 DEF Init, Host, Resting, Scene
  <2>2. geometry \in Geometry
    BY DEF Init, Geometry, Buffers, Scene
  <2>3. valid \in BOOLEAN
    BY DEF Init
  <2>4. queue \in Seq(Work)
    BY DEF Init
  <2>5. slotUsed \in [Slot -> BOOLEAN] /\ signaled \in [Slot -> BOOLEAN]
    BY DEF Init
  <2>. QED BY <1>1, <2>1, <2>2, <2>3, <2>4, <2>5 DEF TypeOK, Init, Scene, Target
<1>3. DOMAIN queue = {}
  BY DEF Init
<1>4. host.at = "idle" /\ ranges = NoScene
  BY DEF Init
<1>. QED BY <1>2, <1>3, <1>4 DEF RendererInv, FencesGuardSlots, TransferAlone,
       BuffersMatchDrawList, SlotBeforeTurn, ReadbackIsLast, At

(* What the steps of the host that leave the slots, the queue and the      *)
(* scene alone have in common.                                             *)
HostMoves ==
  /\ ~At("transfer")
  /\ host'.at \in {"slot", "stopped", "quiesce", "drain"}
  /\ host'.at \in {"slot", "quiesce"} => At("idle")
  /\ UNCHANGED <<slotUsed, ranges, geometry, frames, gpuState>>

LEMMA HostMovesInv ==
  ASSUME RendererInv, HostMoves, TypeOK', SlotBeforeTurn'
  PROVE  RendererInv'
<1>. USE DEF HostMoves, gpuState, RendererInv, At
<1>1. FencesGuardSlots'
  BY DEF FencesGuardSlots
<1>2. TransferAlone' /\ ReadbackIsLast'
  BY DEF TransferAlone, ReadbackIsLast
<1>3. BuffersMatchDrawList'
  BY DEF BuffersMatchDrawList, Holding
<1>. QED BY <1>1, <1>2, <1>3

LEMMA TakeSlotInv ==
  ASSUME RendererInv, NEW v \in Views \cup {OffView}, At("idle"), frames < MaxFrames,
         TakeSlot(v), offscreen' \in Target,
         UNCHANGED <<valid, slotUsed, ranges, geometry, framebuffers, frames,
                     lastGpu, gpuState>>
  PROVE  RendererInv'
<1>. USE DEF RendererInv
<1>1. turn \in 0..(kFramesInFlight - 1) /\ kFramesInFlight \in Nat \ {0}
  BY RendererAssumption DEF TypeOK, Slot
<1>2. turn' \in Slot
  BY <1>1, SlotArithmetic DEF TakeSlot, NextTurn, Slot
<1>3. host' \in Host /\ host'.at = "slot" /\ host'.slot = turn
  BY DEF TakeSlot, TypeOK, Host
<1>4. TypeOK'
  BY <1>2, <1>3 DEF TypeOK, gpuState
<1>5. HostMoves
  BY <1>3 DEF HostMoves, At
<1>6. SlotBeforeTurn'
  BY <1>3 DEF SlotBeforeTurn, At, TakeSlot, NextTurn
<1>. QED BY <1>4, <1>5, <1>6, HostMovesInv

LEMMA RenderFrameAsyncInv ==
  ASSUME RendererInv, NEW v \in Views, RenderFrameAsync(v)
  PROVE  RendererInv'
<1>1. offscreen' \in Target
  BY DEF RenderFrameAsync, RendererInv, TypeOK
<1>. QED BY <1>1, TakeSlotInv DEF RenderFrameAsync

(* A step that only moves the host on, to a wait or to a failed call. *)
LEMMA StopInv ==
  ASSUME RendererInv, ~At("transfer"),
         NEW a \in {"stopped", "drain"}, host' = [host EXCEPT !.at = a],
         offscreen' \in Target,
         UNCHANGED <<valid, turn, slotUsed, ranges, geometry, framebuffers,
                     frames, lastGpu, gpuState>>
  PROVE  RendererInv'
<1>. USE DEF RendererInv
<1>1. host' \in Host /\ host'.at = a
  BY DEF TypeOK, Host, Resting
<1>2. TypeOK'
  BY <1>1 DEF TypeOK, gpuState
<1>3. HostMoves /\ SlotBeforeTurn'
  BY <1>1 DEF HostMoves, SlotBeforeTurn, At
<1>. QED BY <1>2, <1>3, HostMovesInv

LEMMA RenderOffscreenInv ==
  ASSUME RendererInv, RenderOffscreen
  PROVE  RendererInv'
<1>. USE DEF RenderOffscreen
<1>1. offscreen' \in Target
  BY DEF RendererInv, TypeOK, Target
<1>2. CASE TakeSlot(OffView)
  BY <1>1, <1>2, TakeSlotInv
<1>3. CASE host' = Failed /\ UNCHANGED turn
  BY <1>1, <1>3, StopInv DEF Failed, At
<1>. QED BY <1>2, <1>3

(* The other steps that leave the GPU's work alone. *)
LEMMA HostOnlyInv ==
  ASSUME RendererInv,
         RefuseInvalid \/ SlotWaitFails \/ ReadBackWaitFails \/ Destroy
  PROVE  RendererInv'
<1>1. offscreen' \in Target
  BY DEF RefuseInvalid, SlotWaitFails, ReadBackWaitFails, Destroy, RendererInv, TypeOK
<1>2. CASE RefuseInvalid \/ SlotWaitFails \/ ReadBackWaitFails
  BY <1>1, <1>2, StopInv DEF RefuseInvalid, SlotWaitFails, ReadBackWaitFails, Failed, At
<1>3. CASE Destroy
  BY <1>1, <1>3, StopInv DEF Destroy, At
<1>. QED BY <1>2, <1>3

LEMMA UploadSceneInv ==
  ASSUME RendererInv, NEW s \in Scene, UploadScene(s)
  PROVE  RendererInv'
<1>. USE DEF RendererInv, UploadScene
<1>1. host' \in Host /\ host'.at = "quiesce"
  BY DEF TypeOK, Host
<1>2. TypeOK'
  BY <1>1 DEF TypeOK, gpuState
<1>3. HostMoves /\ SlotBeforeTurn'
  BY <1>1 DEF HostMoves, SlotBeforeTurn, At
<1>. QED BY <1>2, <1>3, HostMovesInv

(* submitFrame submits on a slot without unfinished work, and the slot it  *)
(* reports as last submitted is the one it used.                           *)
LEMMA SubmitFrameInv ==
  ASSUME RendererInv, SubmitFrame
  PROVE  RendererInv'
<1>. USE DEF RendererInv
<1>. DEFINE w == [kind |-> "frame", slot |-> host.slot, frame |-> frames + 1,
                  scene |-> ranges, copy |-> host.view = OffView]
<1>1. /\ host.at = "slot" /\ host \in Host /\ host.slot \in Slot
      /\ host.view \in Views \cup {OffView}
  BY DEF SubmitFrame, SlotReady, At, TypeOK, Host
<1>2. \A i \in DOMAIN queue : queue[i].slot # host.slot
  BY ReadySlotIsFree DEF SubmitFrame, SlotReady, Waited
<1>3. LastSubmittedSlot = host.slot
  <2>1. kFramesInFlight \in Nat \ {0} /\ host.slot \in 0..(kFramesInFlight - 1)
    BY <1>1, RendererAssumption DEF Slot
  <2>2. turn = (host.slot + 1) % kFramesInFlight
    BY <1>1 DEF SlotBeforeTurn, At
  <2>. QED BY <2>1, <2>2, SlotArithmetic DEF LastSubmittedSlot
<1>4. frames \in 0..MaxFrames /\ frames < MaxFrames /\ MaxFrames \in Nat
  BY <1>1, RendererAssumption DEF SlotBeforeTurn, At, TypeOK
<1>5. w \in Work
  <2>1. (host.view = OffView) \in BOOLEAN
    OBVIOUS
  <2>2. frames + 1 \in 0..MaxFrames
    BY <1>4
  <2>3. ranges \in Scene
    BY DEF TypeOK
  <2>. QED BY <1>1, <2>1, <2>2, <2>3, Zenon DEF Work
<1>6. /\ w.kind = "frame" /\ w.slot = host.slot /\ w.scene = ranges
      /\ w.frame = frames + 1 /\ (w.copy <=> host.view = OffView)
  OBVIOUS
<1>7. queue' = Append(queue, w)
  BY DEF SubmitFrame
<1>. HIDE DEF w
<1>8. /\ queue' \in Seq(Work) /\ queue' # <<>>
      /\ DOMAIN queue = 1..Len(queue) /\ DOMAIN queue' = 1..(Len(queue) + 1)
      /\ Len(queue') = Len(queue) + 1 /\ Len(queue) \in Nat
      /\ \A i \in DOMAIN queue : queue'[i] = queue[i]
      /\ queue'[Len(queue) + 1] = w
  <2>1. queue \in Seq(Work)
    BY DEF TypeOK
  <2>. QED BY <1>5, <1>7, <2>1, Appended
<1>9. \A i \in DOMAIN queue' : i \in DOMAIN queue \/ (i = Len(queue) + 1 /\ queue'[i] = w)
  BY <1>8
<1>10. host' \in Host /\ host'.slot = host.slot
       /\ host'.at = IF host.view = OffView THEN "readback" ELSE "idle"
  BY <1>1, <1>3 DEF SubmitFrame, Idle, Host, Resting
<1>11. TypeOK'
  <2>1. lastGpu' \in 0..MaxFrames
    BY <1>1 DEF SubmitFrame, SlotReady, CollectGpuTime, TypeOK
  <2>2. slotUsed' \in [Slot -> BOOLEAN] /\ signaled' \in [Slot -> BOOLEAN]
    BY DEF SubmitFrame, TypeOK
  <2>3. framebuffers' \subseteq Views \cup {OffView} /\ frames' \in 0..MaxFrames
    BY <1>1, <1>4 DEF SubmitFrame, TypeOK
  <2>. QED BY <1>8, <1>10, <2>1, <2>2, <2>3 DEF SubmitFrame, TypeOK
<1>12. /\ \A s \in Slot : s # host.slot =>
             signaled'[s] = signaled[s] /\ slotUsed'[s] = slotUsed[s]
       /\ ~signaled'[host.slot] /\ slotUsed'[host.slot]
  BY <1>1 DEF SubmitFrame, TypeOK
<1>13. \A i \in DOMAIN queue : queue[i].slot \in Slot /\ queue[i].kind = "frame"
  BY <1>1, WorkFields DEF FencesGuardSlots, At
<1>14. FencesGuardSlots'
  BY <1>2, <1>6, <1>8, <1>9, <1>12, <1>13 DEF FencesGuardSlots
<1>15. TransferAlone' /\ SlotBeforeTurn'
  BY <1>10 DEF TransferAlone, SlotBeforeTurn, At
<1>16. ranges' = ranges /\ geometry' = geometry
  BY DEF SubmitFrame
<1>17. BuffersMatchDrawList'
  <2>1. ranges # NoScene => geometry = Holding(ranges)
    BY <1>1 DEF BuffersMatchDrawList
  <2>. QED BY <1>6, <1>8, <1>9, <1>16, <2>1 DEF BuffersMatchDrawList, Holding
<1>18. ReadbackIsLast'
  <2>1. frames' = frames + 1
    BY DEF SubmitFrame
  <2>2. At("readback")' => w.copy
    BY <1>6, <1>10 DEF At
  <2>3. queue'[Len(queue')] = w
    BY <1>8
  <2>. QED BY <1>6, <1>8, <1>10, <1>16, <2>1, <2>2, <2>3 DEF ReadbackIsLast, IsReadback
<1>. QED BY <1>11, <1>14, <1>15, <1>17, <1>18

(* A frame that fails after its fence was reset leaves the slot as it was: *)
(* free of work, its fence unsignalled.                                    *)
LEMMA SubmitFrameFailsInv ==
  ASSUME RendererInv, SubmitFrameFails
  PROVE  RendererInv'
<1>. USE DEF RendererInv
<1>1. /\ host.at = "slot" /\ host \in Host /\ host.slot \in Slot
      /\ host.view \in Views \cup {OffView}
  BY DEF SubmitFrameFails, SlotReady, At, TypeOK, Host
<1>2. host' \in Host /\ host'.at = "stopped"
  BY <1>1 DEF SubmitFrameFails, Failed, Host, Resting
<1>3. TypeOK'
  <2>1. lastGpu' \in 0..MaxFrames
    BY <1>1 DEF SubmitFrameFails, SlotReady, CollectGpuTime, TypeOK
  <2>2. signaled' \in [Slot -> BOOLEAN]
    BY DEF SubmitFrameFails, TypeOK
  <2>3. framebuffers' \subseteq Views \cup {OffView}
    BY <1>1 DEF SubmitFrameFails, TypeOK
  <2>. QED BY <1>2, <2>1, <2>2, <2>3 DEF SubmitFrameFails, TypeOK
<1>4. \A s \in Slot : signaled'[s] => signaled[s]
  BY DEF SubmitFrameFails, TypeOK
<1>5. \A i \in DOMAIN queue : queue[i].slot \in Slot /\ queue[i].kind = "frame"
  BY <1>1, WorkFields DEF FencesGuardSlots, At
<1>6. UNCHANGED <<queue, slotUsed, ranges, geometry>>
  BY DEF SubmitFrameFails
<1>7. FencesGuardSlots'
  BY <1>4, <1>5, <1>6 DEF FencesGuardSlots
<1>8. TransferAlone' /\ SlotBeforeTurn' /\ ReadbackIsLast'
  BY <1>2 DEF TransferAlone, SlotBeforeTurn, ReadbackIsLast, At
<1>9. BuffersMatchDrawList'
  BY <1>2, <1>6 DEF BuffersMatchDrawList, Holding
<1>. QED BY <1>3, <1>7, <1>8, <1>9

LEMMA ReadBackInv ==
  ASSUME RendererInv, ReadBack
  PROVE  RendererInv'
<1>. USE DEF RendererInv
<1>1. host.at = "readback" /\ host \in Host /\ host.slot \in Slot /\ signaled[host.slot]
  BY DEF ReadBack, Waited, At, TypeOK, Host
<1>2. host' \in Host /\ host'.at = "idle"
  BY <1>1 DEF ReadBack, Idle, Host, Resting
<1>3. TypeOK'
  <2>1. lastGpu' \in 0..MaxFrames
    BY <1>1 DEF ReadBack, CollectGpuTime, TypeOK
  <2>2. slotUsed' \in [Slot -> BOOLEAN]
    BY DEF ReadBack, TypeOK
  <2>. QED BY <1>2, <2>1, <2>2 DEF ReadBack, gpuState, TypeOK
<1>4. UNCHANGED <<queue, signaled, ranges, geometry>>
  BY DEF ReadBack, gpuState
<1>5. FencesGuardSlots'
  <2>1. \A i \in DOMAIN queue : queue[i].slot \in Slot /\ queue[i].kind = "frame"
                                /\ queue[i].slot # host.slot
    BY <1>1, WorkFields DEF FencesGuardSlots, At
  <2>2. \A s \in Slot : s # host.slot => slotUsed'[s] = slotUsed[s]
    BY DEF ReadBack, TypeOK
  <2>. QED BY <1>4, <2>1, <2>2 DEF FencesGuardSlots
<1>6. TransferAlone' /\ SlotBeforeTurn' /\ ReadbackIsLast'
  BY <1>2 DEF TransferAlone, SlotBeforeTurn, ReadbackIsLast, At
<1>7. BuffersMatchDrawList'
  BY <1>1, <1>2, <1>4 DEF BuffersMatchDrawList, Holding
<1>. QED BY <1>3, <1>5, <1>6, <1>7

-----------------------------------------------------------------------------
(* With no unfinished work, the invariant is what the host and the scene   *)
(* say.                                                                    *)
LEMMA EmptyQueueInv ==
  ASSUME TypeOK', queue' = <<>>,
         host'.at \notin {"slot", "readback", "transfer"},
         host'.at \in {"idle", "quiesce"} /\ ranges' # NoScene => geometry' = Holding(ranges')
  PROVE  RendererInv'
<1>1. DOMAIN queue' = {}
  OBVIOUS
<1>2. FencesGuardSlots'
  BY <1>1 DEF FencesGuardSlots
<1>3. TransferAlone' /\ SlotBeforeTurn' /\ ReadbackIsLast'
  BY DEF TransferAlone, SlotBeforeTurn, ReadbackIsLast, At
<1>4. BuffersMatchDrawList'
  BY <1>1 DEF BuffersMatchDrawList, Holding
<1>. QED BY <1>2, <1>3, <1>4 DEF RendererInv

(* uploadScene replaces the scene when the GPU is idle. *)
LEMMA QuiesceIsIdle ==
  ASSUME RendererInv, Quiesce, "blind" \notin Faults
  PROVE  /\ queue = <<>> /\ host \in Host /\ host.at = "quiesce"
         /\ slotUsed' \in [Slot -> BOOLEAN] /\ ranges' = host.scene /\ ranges' \in Scene
<1>1. host \in Host /\ host.at = "quiesce"
  BY DEF Quiesce, At, RendererInv, TypeOK
<1>2. queue = <<>>
  BY <1>1, WaitedQueueIsEmpty DEF Quiesce, Unchecked, At
<1>3. ranges' = host.scene /\ host.scene \in Scene
  BY <1>1 DEF Quiesce, Host
<1>4. slotUsed' \in [Slot -> BOOLEAN]
  BY DEF Quiesce
<1>. QED BY <1>1, <1>2, <1>3, <1>4

LEMMA UploadEmptyInv ==
  ASSUME RendererInv, UploadEmpty, "blind" \notin Faults
  PROVE  RendererInv'
<1>1. /\ queue = <<>> /\ host \in Host /\ ranges' = NoScene
      /\ slotUsed' \in [Slot -> BOOLEAN] /\ ranges' \in Scene
  BY QuiesceIsIdle DEF UploadEmpty
<1>2. host' \in Host /\ host'.at = "idle"
  BY <1>1 DEF UploadEmpty, Idle, Host, Resting
<1>3. geometry' \in Geometry
  BY DEF UploadEmpty, Geometry, Buffers, Scene
<1>4. TypeOK'
  BY <1>1, <1>2, <1>3 DEF UploadEmpty, gpuState, RendererInv, TypeOK
<1>5. queue' = <<>>
  BY <1>1 DEF UploadEmpty, gpuState
<1>. QED BY <1>1, <1>2, <1>4, <1>5, EmptyQueueInv

LEMMA UploadFailsInv ==
  ASSUME RendererInv, UploadFails, "blind" \notin Faults
  PROVE  RendererInv'
<1>1. /\ queue = <<>> /\ host \in Host
      /\ slotUsed' \in [Slot -> BOOLEAN] /\ ranges' \in Scene
  BY QuiesceIsIdle DEF UploadFails
<1>2. host' \in Host /\ host'.at = "stopped"
  BY <1>1 DEF UploadFails, Failed, Host, Resting
<1>3. geometry' \in Geometry
  BY DEF UploadFails, Geometry, Buffers, Scene
<1>4. signaled' \in [Slot -> BOOLEAN]
  BY DEF UploadFails, RendererInv, TypeOK
<1>5. TypeOK'
  BY <1>1, <1>2, <1>3, <1>4 DEF UploadFails, RendererInv, TypeOK
<1>6. queue' = <<>>
  BY <1>1 DEF UploadFails
<1>. QED BY <1>2, <1>5, <1>6, EmptyQueueInv

LEMMA UploadTransferInv ==
  ASSUME RendererInv, UploadTransfer, "blind" \notin Faults
  PROVE  RendererInv'
<1>. DEFINE w == [kind |-> "upload", slot |-> 0, frame |-> 0,
                  scene |-> host.scene, copy |-> FALSE]
<1>1. /\ queue = <<>> /\ host \in Host /\ ranges' = host.scene
      /\ slotUsed' \in [Slot -> BOOLEAN] /\ ranges' \in Scene
  BY QuiesceIsIdle DEF UploadTransfer
<1>2. host' \in Host /\ host'.at = "transfer"
  BY <1>1 DEF UploadTransfer, Host, Resting
<1>3. 0 \in Slot /\ 0 \in 0..MaxFrames
  BY RendererAssumption DEF Slot
<1>4. w \in Work
  BY <1>1, <1>3 DEF Work
<1>5. w.kind = "upload" /\ w.slot = 0 /\ w.scene = ranges'
  BY <1>1
<1>6. queue' = Append(queue, w)
  BY DEF UploadTransfer
<1>. HIDE DEF w
<1>7. queue' \in Seq(Work) /\ queue' # <<>> /\ DOMAIN queue' = {1} /\ queue'[1] = w
  BY <1>1, <1>4, <1>6
<1>8. signaled' \in [Slot -> BOOLEAN] /\ ~signaled'[0]
  BY <1>3 DEF UploadTransfer, RendererInv, TypeOK
<1>9. TypeOK'
  <2>1. geometry' \in Geometry
    BY DEF UploadTransfer, Geometry, Buffers, Scene
  <2>. QED BY <1>1, <1>2, <1>7, <1>8, <2>1 DEF UploadTransfer, RendererInv, TypeOK
<1>10. FencesGuardSlots'
  BY <1>2, <1>5, <1>7, <1>8 DEF FencesGuardSlots, At
<1>11. TransferAlone'
  BY <1>5, <1>7 DEF TransferAlone
<1>12. SlotBeforeTurn' /\ ReadbackIsLast'
  BY <1>2 DEF SlotBeforeTurn, ReadbackIsLast, At
<1>13. BuffersMatchDrawList'
  BY <1>2, <1>5, <1>7 DEF BuffersMatchDrawList
<1>. QED BY <1>9, <1>10, <1>11, <1>12, <1>13 DEF RendererInv

LEMMA UploadDoneInv ==
  ASSUME RendererInv, UploadDone, "blind" \notin Faults
  PROVE  RendererInv'
<1>. USE DEF RendererInv
<1>1. host.at = "transfer" /\ host \in Host /\ signaled[0]
  BY DEF UploadDone, Unchecked, At, TypeOK
<1>2. host' \in Host /\ host'.at = "idle"
  BY <1>1 DEF UploadDone, Idle, Host, Resting
<1>3. queue = <<>>
  <2>1. \A i \in DOMAIN queue : FALSE
    BY <1>1 DEF TransferAlone, FencesGuardSlots, At
  <2>2. queue # <<>> => 1 \in DOMAIN queue
    BY DEF TypeOK
  <2>. QED BY <2>1, <2>2
<1>4. geometry = Holding(ranges)
  BY <1>1, <1>3 DEF TransferAlone, At
<1>5. TypeOK'
  <2>1. slotUsed' \in [Slot -> BOOLEAN]
    BY DEF UploadDone, TypeOK
  <2>. QED BY <1>2, <2>1 DEF UploadDone, gpuState, TypeOK
<1>6. queue' = <<>> /\ geometry' = geometry /\ ranges' = ranges
  BY <1>3 DEF UploadDone, gpuState
<1>7. geometry' = Holding(ranges')
  BY <1>4, <1>6 DEF Holding
<1>. QED BY <1>2, <1>5, <1>6, <1>7, EmptyQueueInv

LEMMA TearDownInv ==
  ASSUME RendererInv, TearDown, "blind" \notin Faults
  PROVE  RendererInv'
<1>. USE DEF RendererInv
<1>1. host.at = "drain" /\ host \in Host
  BY DEF TearDown, At, TypeOK
<1>2. host' \in Host /\ host'.at = "gone"
  BY <1>1 DEF TearDown, Host, Resting
<1>3. queue = <<>>
  BY <1>1, WaitedQueueIsEmpty DEF TearDown, Unchecked, At
<1>4. TypeOK'
  <2>1. geometry' \in Geometry /\ offscreen' \in Target
    BY DEF TearDown, Geometry, Buffers, Scene, Target
  <2>. QED BY <1>2, <2>1 DEF TearDown, gpuState, TypeOK
<1>5. queue' = <<>>
  BY <1>3 DEF TearDown, gpuState
<1>. QED BY <1>2, <1>4, <1>5, EmptyQueueInv

-----------------------------------------------------------------------------
LEMMA GpuFinishInv ==
  ASSUME RendererInv, GpuFinish
  PROVE  RendererInv'
<1>. USE DEF RendererInv
<1>. DEFINE w == Head(queue)
<1>1. /\ w \in Work /\ w = queue[1] /\ 1 \in DOMAIN queue
      /\ queue' = Tail(queue) /\ queue' \in Seq(Work)
      /\ Len(queue) \in Nat \ {0} /\ Len(queue') = Len(queue) - 1
      /\ DOMAIN queue = 1..Len(queue) /\ DOMAIN queue' = 1..(Len(queue) - 1)
      /\ \A i \in DOMAIN queue' : i + 1 \in DOMAIN queue /\ queue'[i] = queue[i + 1]
      /\ queue' = <<>> <=> Len(queue) = 1
  <2>1. queue \in Seq(Work) /\ queue # <<>> /\ queue' = Tail(queue)
    BY DEF GpuFinish, TypeOK
  <2>. QED BY <2>1, Tailed
<1>2. w.slot \in Slot /\ w.frame \in 0..MaxFrames /\ w.scene \in Scene
  BY <1>1 DEF Work
<1>3. /\ signaled' = [signaled EXCEPT ![w.slot] = TRUE]
      /\ geometry' = IF w.kind = "upload" THEN Holding(w.scene) ELSE geometry
      /\ query' = IF w.kind = "frame" THEN [query EXCEPT ![w.slot] = w.frame] ELSE query
      /\ staging' = IF w.copy THEN w.scene ELSE staging
      /\ UNCHANGED <<valid, turn, slotUsed, host, ranges, offscreen, framebuffers,
                     frames, lastGpu>>
  BY DEF GpuFinish
<1>. HIDE DEF w
<1>4. TypeOK'
  <2>1. signaled' \in [Slot -> BOOLEAN] /\ query' \in [Slot -> 0..MaxFrames]
    BY <1>2, <1>3 DEF TypeOK
  <2>2. geometry' \in Geometry
    BY <1>2, <1>3 DEF TypeOK, Geometry, Holding
  <2>3. staging' \in Scene
    BY <1>2, <1>3 DEF TypeOK
  <2>. QED BY <1>1, <1>3, <2>1, <2>2, <2>3 DEF TypeOK
<1>5. \A i \in DOMAIN queue' : /\ i + 1 \in DOMAIN queue /\ i + 1 # 1
                               /\ queue'[i] = queue[i + 1]
                               /\ queue[i + 1].slot \in Slot
                               /\ queue[i + 1].slot # w.slot
  <2>. SUFFICES ASSUME NEW i \in DOMAIN queue'
                PROVE  /\ i + 1 \in DOMAIN queue /\ i + 1 # 1
                       /\ queue'[i] = queue[i + 1]
                       /\ queue[i + 1].slot \in Slot
                       /\ queue[i + 1].slot # w.slot
    OBVIOUS
  <2>1. i + 1 \in DOMAIN queue /\ i + 1 # 1 /\ queue'[i] = queue[i + 1]
    BY <1>1
  <2>2. queue[i + 1].slot \in Slot
    BY <2>1, WorkFields
  <2>. QED BY <1>1, <2>1, <2>2 DEF FencesGuardSlots
<1>6. FencesGuardSlots'
  <2>1. \A s \in Slot : s # w.slot => signaled'[s] = signaled[s]
    BY <1>2, <1>3 DEF TypeOK
  <2>2. \A i, j \in DOMAIN queue' : queue'[i].slot = queue'[j].slot => i = j
    <3>. SUFFICES ASSUME NEW i \in DOMAIN queue', NEW j \in DOMAIN queue',
                         queue'[i].slot = queue'[j].slot
                  PROVE  i = j
      OBVIOUS
    <3>1. i + 1 = j + 1
      BY <1>5 DEF FencesGuardSlots
    <3>. QED BY <1>1, <3>1
  <2>3. \A i \in DOMAIN queue' : ~signaled'[queue'[i].slot]
    BY <1>5, <2>1 DEF FencesGuardSlots
  <2>4. \A i \in DOMAIN queue' : queue'[i].kind = "frame" => slotUsed'[queue'[i].slot]
    BY <1>3, <1>5 DEF FencesGuardSlots
  <2>5. \A i \in DOMAIN queue' : queue'[i].kind = "upload" => At("transfer")'
    BY <1>3, <1>5 DEF FencesGuardSlots, At
  <2>. QED BY <2>2, <2>3, <2>4, <2>5 DEF FencesGuardSlots
<1>7. TransferAlone'
  <2>1. At("transfer") => w.kind = "upload" /\ w.scene = ranges
    BY <1>1 DEF TransferAlone
  <2>2. At("transfer") => geometry' = Holding(ranges)
    BY <1>3, <2>1
  <2>. QED BY <1>3, <1>5, <2>2 DEF TransferAlone, At, Holding
<1>8. BuffersMatchDrawList'
  <2>1. w.kind = "upload" => At("transfer")
    BY <1>1 DEF FencesGuardSlots
  <2>2. ~At("transfer") => geometry' = geometry
    BY <1>3, <2>1
  <2>3. \A i \in DOMAIN queue' : queue'[i].kind = "frame" =>
          queue'[i].scene = ranges /\ ~At("transfer")
    BY <1>5 DEF BuffersMatchDrawList, TransferAlone
  <2>4. \A i \in DOMAIN queue' : queue'[i].kind = "frame" /\ ranges # NoScene =>
          geometry = Holding(ranges)
    BY <1>5 DEF BuffersMatchDrawList
  <2>. QED BY <1>3, <2>2, <2>3, <2>4 DEF BuffersMatchDrawList, At, Holding
<1>9. SlotBeforeTurn'
  BY <1>3 DEF SlotBeforeTurn, At
<1>10. ReadbackIsLast'
  <2>. SUFFICES ASSUME At("readback")
                PROVE  \/ queue' # <<>> /\ IsReadback(queue[Len(queue)])'
                       \/ queue' = <<>> /\ staging' = ranges /\ query'[host.slot] = frames
    BY <1>3 DEF ReadbackIsLast, At
  <2>1. IsReadback(queue[Len(queue)])
    <3>1. queue # <<>>
      BY DEF GpuFinish
    <3>. QED BY <3>1 DEF ReadbackIsLast
  <2>2. CASE Len(queue) = 1
    <3>1. w.kind = "frame" /\ w.slot = host.slot /\ w.scene = ranges
          /\ w.copy /\ w.frame = frames
      BY <1>1, <2>1, <2>2 DEF IsReadback
    <3>2. staging' = ranges
      BY <1>3, <3>1
    <3>3. query'[host.slot] = frames
      BY <1>2, <1>3, <3>1 DEF TypeOK
    <3>. QED BY <1>1, <2>2, <3>2, <3>3
  <2>3. CASE Len(queue) # 1
    <3>1. Len(queue') \in DOMAIN queue' /\ Len(queue') + 1 = Len(queue) /\ queue' # <<>>
      BY <1>1, <2>3
    <3>2. queue'[Len(queue')] = queue[Len(queue)]
      BY <1>1, <3>1
    <3>. QED BY <1>3, <2>1, <3>1, <3>2 DEF IsReadback
  <2>. QED BY <2>2, <2>3
<1>. QED BY <1>4, <1>6, <1>7, <1>8, <1>9, <1>10

(* The invariant is inductive. *)
LEMMA StepInv ==
  ASSUME RendererInv, [Next]_vars, "blind" \notin Faults
  PROVE  RendererInv'
<1>1. CASE Next
  BY <1>1, RenderFrameAsyncInv, RenderOffscreenInv, HostOnlyInv, UploadSceneInv,
     SubmitFrameInv, SubmitFrameFailsInv, ReadBackInv, UploadEmptyInv, UploadFailsInv,
     UploadTransferInv, UploadDoneInv, TearDownInv, GpuFinishInv
     DEF Next, Progress, Failure
<1>2. CASE UNCHANGED vars
  BY <1>2 DEF vars, RendererInv, TypeOK, FencesGuardSlots, TransferAlone,
     BuffersMatchDrawList, SlotBeforeTurn, ReadbackIsLast, IsReadback, At, Holding
<1>. QED BY <1>1, <1>2

(* Whatever fails, every state of the renderer satisfies the inductive     *)
(* invariant, the type invariant among its parts.                          *)
THEOREM RendererInvHolds ==
  ASSUME "blind" \notin Faults
  PROVE  Spec => []RendererInv
<1>1. RendererInv /\ [Next]_vars => RendererInv'
  BY StepInv
<1>. QED BY <1>1, InitInv, PTL DEF Spec

(* At most one unfinished submission per command slot, and none when       *)
(* submitFrame or the upload's transfer is about to re-record the slot.    *)
THEOREM SlotsAreNotReused ==
  ASSUME "blind" \notin Faults
  PROVE  Spec => []SlotsNotReusedInFlight
<1>1. RendererInv => SlotsNotReusedInFlight
  <2>. SUFFICES ASSUME RendererInv PROVE SlotsNotReusedInFlight
    OBVIOUS
  <2>1. \A s \in Slot : \A i, j \in Unfinished(s) : i = j
    BY DEF RendererInv, FencesGuardSlots, Unfinished
  <2>2. At("slot") /\ (slotUsed[host.slot] => signaled[host.slot])
          => Unfinished(host.slot) = {}
    BY ReadySlotIsFree DEF Unfinished
  <2>3. At("quiesce") /\ (\A s \in InFlight : signaled[s]) => queue = <<>>
    BY WaitedQueueIsEmpty DEF At
  <2>. QED BY <2>1, <2>2, <2>3 DEF SlotsNotReusedInFlight
<1>. QED BY <1>1, RendererInvHolds, PTL

(* Every unfinished frame finds the scene it was recorded with, whatever   *)
(* uploads, failures and teardown come between.                            *)
THEOREM FramesFindTheirScene ==
  ASSUME "blind" \notin Faults
  PROVE  Spec => []FramesDrawLiveScene
<1>1. RendererInv => FramesDrawLiveScene
  BY DEF RendererInv, BuffersMatchDrawList, FramesDrawLiveScene
<1>. QED BY <1>1, RendererInvHolds, PTL

(* renderOffscreen reads the pixels and the timestamps of its own frame.   *)
THEOREM ReadbackIsOwnFrame ==
  ASSUME "blind" \notin Faults
  PROVE  Spec => []ReadbackIsThisFrame
<1>1. RendererInv => ReadbackIsThisFrame
  <2>. SUFFICES ASSUME RendererInv, At("readback"), signaled[host.slot]
                PROVE  staging = ranges /\ query[host.slot] = frames
    BY DEF ReadbackIsThisFrame
  <2>1. queue # <<>> => Len(queue) \in DOMAIN queue
    BY DEF RendererInv, TypeOK
  <2>. QED BY <2>1 DEF RendererInv, ReadbackIsLast, IsReadback, FencesGuardSlots
<1>. QED BY <1>1, RendererInvHolds, PTL
=============================================================================
