------------------------------ MODULE GpuSync -------------------------------
(* What a recorded command stream promises about memory (external: the     *)
(* Vulkan memory model, as far as the programs of src/vk use it).  A       *)
(* command's accesses are remembered until a barrier orders them; a later  *)
(* conflicting access must find itself ordered: a write must have been     *)
(* made available and visible to it, a read must come before it.           *)
EXTENDS Integers, Sequences, SequencesExt

Stages == {"TRANSFER", "COMPUTE", "COLOR", "DEPTH", "VERTEX", "HOST"}

(* An access to the units lo .. hi-1 of the resource h: bytes of a buffer, *)
(* entries of a table, mip levels of an image.                             *)
Access(h, lo, hi, st, w) == [h |-> h, lo |-> lo, hi |-> hi, stage |-> st, w |-> w]
Rd(h, lo, hi, st) == Access(h, lo, hi, st, FALSE)
Wr(h, lo, hi, st) == Access(h, lo, hi, st, TRUE)

(* vkCmdPipelineBarrier, or the external dependency of a render pass: from *)
(* the stages src to the stages dst; flush when srcAccessMask names the    *)
(* writes, see what dstAccessMask lets the later access do.                *)
Barrier(src, flush, dst, see) == [src |-> src, flush |-> flush, dst |-> dst, see |-> see]

(* A remembered access: the stages ordered after it; for a write, whether  *)
(* it is available and to whom it is visible; whether it has retired.      *)
Remember(a) == [a |-> a, after |-> {}, avail |-> FALSE, vis |-> {}, done |-> FALSE]

(* A layout transition out of UNDEFINED writes the image and is itself     *)
(* ordered before, and visible to, the barrier's second scope.             *)
Transition(h, n, b) ==
  [Remember(Wr(h, 0, n, "TRANSFER")) EXCEPT
     !.after = b.dst, !.avail = TRUE, !.vis = b.dst \X b.see]

Overlap(a, b) == a.h = b.h /\ a.lo < b.hi /\ b.lo < a.hi

(* p, remembered, happens before a and a sees it.  The host learns from a  *)
(* fence that p is over; that makes a write available, but only a barrier  *)
(* to the host makes it visible there.                                     *)
Ordered(p, a) ==
  /\ a.stage = "HOST" => p.done
  /\ IF p.a.w THEN <<a.stage, IF a.w THEN "W" ELSE "R">> \in p.vis
     ELSE a.stage \in p.after

(* The remembered accesses that a conflicts with and is not ordered after. *)
Racing(sync, a) ==
  {p \in sync : Overlap(p.a, a) /\ (p.a.w \/ a.w) /\ ~Ordered(p, a)}

(* What the host touches is no longer in use by the device. *)
Retired(sync, a) == \A p \in sync : Overlap(p.a, a) => p.done

(* A write replaces what it covers; a repeated read the earlier one.       *)
Superseded(p, a) ==
  /\ p.a.h = a.h /\ a.lo <= p.a.lo /\ p.a.hi <= a.hi
  /\ a.w \/ p.a = a

(* The host's own accesses are ordered by the submission and the fence.    *)
OnDevice(accs) == {a \in accs : a.stage # "HOST"}

AfterAccesses(sync, accs) ==
  {p \in sync : \A a \in accs : ~Superseded(p, a)} \cup {Remember(a) : a \in accs}

AfterBarrier(sync, b) ==
  {IF p.a.stage \notin b.src /\ b.src \cap p.after = {} THEN p
   ELSE LET av == p.avail \/ (b.flush /\ p.a.stage \in b.src)
        IN  [p EXCEPT !.after = @ \cup b.dst,
                      !.avail = av,
                      !.vis = IF av THEN @ \cup (b.dst \X b.see) ELSE @]
     : p \in sync}

(* A fence has signalled: everything before it has happened and its writes *)
(* are available; they become visible to nobody by it.                     *)
AfterFence(sync) ==
  {[p EXCEPT !.after = Stages, !.avail = TRUE, !.done = TRUE] : p \in sync}

AfterCommand(sync, pre, accs, bars) ==
  FoldLeft(AfterBarrier,
           AfterAccesses(FoldLeft(AfterBarrier, sync, pre), OnDevice(accs)), bars)

-----------------------------------------------------------------------------
(* What memory holds: disjoint ranges, each with the pass that wrote it.   *)
Held(a, by) == [h |-> a.h, lo |-> a.lo, hi |-> a.hi, by |-> by]

(* The range d without the part that a overwrites. *)
Outside(d, a) ==
  IF ~Overlap(d, a) THEN {d}
  ELSE {r \in {[d EXCEPT !.hi = a.lo], [d EXCEPT !.lo = a.hi]} : r.lo < r.hi}

AfterWrite(data, a, by) == UNION {Outside(d, a) : d \in data} \cup {Held(a, by)}

(* A copy carries each range of the source to its place in the target,     *)
(* whose units may be smaller.                                             *)
Carried(d, from, to) ==
  LET k == (to.hi - to.lo) \div (from.hi - from.lo)
  IN  [d EXCEPT !.h = to.h,
                !.lo = to.lo + k * (Max({d.lo, from.lo}) - from.lo),
                !.hi = to.lo + k * (Min({d.hi, from.hi}) - from.lo)]

AfterCopy(data, from, to) ==
  UNION {Outside(d, to) : d \in data}
  \cup {Carried(d, from, to) : d \in {r \in data : Overlap(r, from)}}

(* The range a holds what the pass wrote, all of it and nothing else. *)
HoldsOnly(data, a, pass) ==
  LET there == {d \in data : Overlap(d, a)}
  IN  /\ \A d \in there : d.by = pass
      /\ MapThenSumSet(LAMBDA d : Min({d.hi, a.hi}) - Max({d.lo, a.lo}), there) = a.hi - a.lo
=============================================================================
