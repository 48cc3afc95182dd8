------------------------------- MODULE OneShot ------------------------------
(* The one-shot GPU programs on a device: bring-up (Device), then any      *)
(* number of calls of the programs, each run step by step from its script  *)
(* while the GPU retires or loses what was submitted.  Every call that can *)
(* fail may fail; a failure leaves through the destructor of the program's *)
(* Resources, as every return does.                                        *)
EXTENDS Device, GpuBenches

CONSTANT
  Requests     \* the calls made: records with prog and the parameters

ASSUME RequestsAssumption ==
  \A q \in Requests :
    /\ "prog" \in DOMAIN q /\ q.prog \in {"parity", "mesh", "view", "vct", "rc"}
    /\ q.prog \in {"vct", "rc"} => q.extent \in Nat /\ q.iterations \in Nat

VARIABLES
  frames,      \* the programs running, innermost last: request, step, ok
  live,        \* the objects that exist, the device's own left out
  sync,        \* device accesses not yet forgotten (GpuSync)
  data,        \* which pass wrote what memory holds
  queries,     \* the timestamps recorded, by the pass they bracket
  pool,        \* what is left in the descriptor pool
  gpu,         \* the fence's state; is an abandoned submission running;
               \* is the device lost
  ret          \* what the last call returned

programVars == <<frames, live, sync, data, queries, pool, gpu, ret>>
vars == <<deviceVars, programVars>>

Idle == [fence |-> "none", orphan |-> FALSE, lost |-> FALSE]

Init ==
  /\ DeviceInit
  /\ frames = <<>> /\ live = {} /\ sync = {} /\ data = {} /\ queries = <<>>
  /\ pool = NoPool /\ gpu = Idle /\ ret = "none"

-----------------------------------------------------------------------------
Nested == {[q EXCEPT !.prog = "into"] : q \in {r \in Requests : r.prog = "view"}}

(* The scripts, for a device with and without timestamps; Scripts holds    *)
(* them all, and Script(q) is the one this device runs for q.              *)
ScriptOf(q, stamps) ==
  CASE q.prog = "parity" -> ParityScript(stamps)
    [] q.prog = "mesh"   -> MeshExecScript(q)
    [] q.prog = "view"   -> WorldViewScript(q)
    [] q.prog = "into"   -> WorldIntoScript(q)
    [] q.prog = "vct"    -> VctScript(q, stamps)
    [] q.prog = "rc"     -> RcScript(q, stamps)

Scripts == {<<q, stamps, ScriptOf(q, stamps)>> : q \in Requests \cup Nested, stamps \in BOOLEAN}

Script(q) == (CHOOSE s \in Scripts : s[1] = q /\ s[2] = report.timestamps)[3]

(* The handles each Resources destroys. *)
OwnedBy(q) ==
  CASE q.prog = "parity" -> ParityOwned
    [] q.prog = "mesh"   -> MeshExecOwned
    [] q.prog = "view"   -> WorldViewOwned
    [] q.prog = "into"   -> WorldIntoOwned
    [] q.prog = "vct"    -> VctOwned(q)
    [] q.prog = "rc"     -> RcOwned(q)

(* The passes a bench reports medians of, in the order of result.passes.   *)
PassesOf(q) == IF q.prog = "vct" THEN VctPasses(q) ELSE RcPasses(q)

Running == frames # <<>>
Top == frames[Len(frames)]
Code == Script(Top.req)
Finished == Running /\ Top.at > Len(Code)       \* about to return
AtStep == Running /\ ~Finished
Now == Code[Top.at]

Enter(q) == [req |-> q, at |-> 1, ok |-> TRUE]
GoOn == frames' = [frames EXCEPT ![Len(frames)].at = @ + 1]
Fail == frames' = [frames EXCEPT ![Len(frames)] = [@ EXCEPT !.at = Len(Code) + 1, !.ok = FALSE]]

(* A caller calls one of the programs, whatever bring-up came to. *)
Begin(q) ==
  /\ stage \in {"up", "down"} /\ ~Running
  /\ frames' = <<Enter(q)>>
  /\ ret' = "none"
  /\ UNCHANGED <<deviceVars, live, sync, data, queries, pool, gpu>>

(* An early return on the device report or the parameters. *)
Passable(s) ==
  CASE s.need = "available" -> report.available
    [] s.need = "mesh"      -> report.meshPipelineReady
    [] s.need = "graphics"  -> report.meshPipelineReady \/ report.presentReady
    [] OTHER                -> s.ok

TakeGate ==
  /\ AtStep /\ Now.op = "gate"
  /\ IF Passable(Now) THEN GoOn ELSE Fail
  /\ UNCHANGED <<deviceVars, live, sync, data, queries, pool, gpu, ret>>

(* A step that succeeds makes its objects and records its command. *)
Written(d, s) ==
  LET ws == {a \in s.accs : a.w}
  IN  IF s.pass = Copied
      THEN AfterCopy(d, CHOOSE a \in s.accs : ~a.w, CHOOSE a \in ws : TRUE)
      ELSE FoldSet(LAMBDA a, e : AfterWrite(e, a, s.pass), d, ws)

Drawn(p, s) == [k \in DOMAIN p |-> p[k] + s.pool[k]]

Succeed ==
  /\ AtStep /\ Now.op \in {"try", "do"}
  /\ GoOn
  /\ live' = (live \ Now.gone) \cup Now.made
  /\ sync' = AfterCommand(sync, Now.pre, Now.accs, Now.bars) \cup Now.fresh
  /\ data' = Written(data, Now)
  /\ queries' = queries \o Now.stamps
  /\ pool' = Drawn(pool, Now)
  /\ UNCHANGED <<deviceVars, gpu, ret>>

(* A call that fails makes nothing; the program unwinds. *)
CallFails ==
  /\ AtStep /\ Now.op \in {"try", "submit"}
  /\ Fail
  /\ UNCHANGED <<deviceVars, live, sync, data, queries, pool, gpu, ret>>

Submit ==
  /\ AtStep /\ Now.op = "submit" /\ ~gpu.lost
  /\ gpu' = [gpu EXCEPT !.fence = "pending"]
  /\ GoOn
  /\ UNCHANGED <<deviceVars, live, sync, data, queries, pool, ret>>

(* The GPU finishes the submission, or an abandoned one; or is lost. *)
Retire ==
  /\ gpu.fence = "pending" /\ ~gpu.lost
  /\ gpu' = [gpu EXCEPT !.fence = "signalled"]
  /\ sync' = AfterFence(sync)
  /\ UNCHANGED <<deviceVars, frames, live, data, queries, pool, ret>>

RetireOrphan ==
  /\ gpu.orphan /\ ~gpu.lost
  /\ gpu' = [gpu EXCEPT !.orphan = FALSE]
  /\ UNCHANGED <<deviceVars, frames, live, sync, data, queries, pool, ret>>

Lose ==
  /\ gpu.fence = "pending" /\ ~gpu.lost
  /\ gpu' = [gpu EXCEPT !.lost = TRUE, !.orphan = FALSE]
  /\ UNCHANGED <<deviceVars, frames, live, sync, data, queries, pool, ret>>

(* vkWaitForFences without a timeout. *)
Wait ==
  /\ AtStep /\ Now.op = "wait" /\ gpu.fence = "signalled"
  /\ gpu' = [gpu EXCEPT !.fence = "none"]
  /\ GoOn
  /\ UNCHANGED <<deviceVars, live, sync, data, queries, pool, ret>>

(* It fails when the device is lost, or for want of memory: then what was  *)
(* submitted goes on, and nobody waits for it any more.                    *)
WaitFails ==
  /\ AtStep /\ Now.op = "wait"
  /\ gpu' = [gpu EXCEPT !.fence = "none", !.orphan = @ \/ (gpu.fence = "pending" /\ ~gpu.lost)]
  /\ Fail
  /\ UNCHANGED <<deviceVars, live, sync, data, queries, pool, ret>>

(* The mapped memory is read and `ran` is set. *)
ReadResult ==
  /\ AtStep /\ Now.op = "read"
  /\ GoOn
  /\ UNCHANGED <<deviceVars, live, sync, data, queries, pool, gpu, ret>>

Call ==
  /\ AtStep /\ Now.op = "call"
  /\ frames' = Append(frames, Enter([Top.req EXCEPT !.prog = Now.callee]))
  /\ UNCHANGED <<deviceVars, live, sync, data, queries, pool, gpu, ret>>

(* Return through the destructor.  Freed memory is no longer mapped; the   *)
(* caller goes on, or fails as its callee did.                             *)
FreedBy(q) ==
  LET owned == OwnedBy(q)
  IN  owned \cup {Mapped(h[2]) : h \in {m \in owned : m[1] = "memory"}}

Resume(f, ok) ==
  IF ok THEN [f EXCEPT !.at = @ + 1]
  ELSE [f EXCEPT !.at = Len(Script(f.req)) + 1, !.ok = FALSE]

Return ==
  /\ Finished
  /\ LET rest == Front(frames) IN
       \/ /\ rest = <<>>
          /\ frames' = <<>>
          /\ ret' = IF Top.ok THEN "ran" ELSE "failed"
       \/ /\ rest # <<>>
          /\ frames' = [rest EXCEPT ![Len(rest)] = Resume(@, Top.ok)]
          /\ UNCHANGED ret
  /\ LET freed == FreedBy(Top.req) IN
       /\ live' = live \ freed
       /\ sync' = {p \in sync : p.a.h \notin freed}
       /\ data' = {d \in data : d.h \notin freed}
  /\ queries' = <<>>
  /\ pool' = NoPool
  /\ UNCHANGED <<deviceVars, gpu>>

BringUpStep == BringUp /\ UNCHANGED programVars

Shutdown ==
  /\ ~Running
  /\ DestroyDevice
  /\ gpu' = Idle /\ ret' = "none"
  /\ UNCHANGED <<frames, live, sync, data, queries, pool>>

Gone == stage = "gone" /\ UNCHANGED vars

Next ==
  \/ BringUpStep \/ Shutdown \/ Gone
  \/ \E q \in Requests : Begin(q)
  \/ TakeGate \/ Succeed \/ CallFails \/ Submit \/ Retire \/ RetireOrphan \/ Lose
  \/ Wait \/ WaitFails \/ ReadResult \/ Call \/ Return

Spec == Init /\ [][Next]_vars

-----------------------------------------------------------------------------
DeviceHandles == {<<"device", o>> : o \in objects}

(* No call is given a null or a destroyed handle, on any path, and the     *)
(* descriptor pool has room for every set: "several creates were unchecked *)
(* and could feed VK_NULL_HANDLE into later calls" (compute.cpp:122-124).  *)
(* In particular no program reaches the graphics queue on a device whose   *)
(* graphics tiers did not come up.                                         *)
CallsAreValid ==
  AtStep /\ Now.op # "gate" =>
    /\ Now.uses \subseteq live \cup DeviceHandles
    /\ \A k \in DOMAIN pool : Drawn(pool, Now)[k] >= 0

(* "EVERY failure path exits through the same clean ladder"                *)
(* (compute.cpp:122-125): between calls nothing the programs made is left, *)
(* wherever a call failed, nested or not; and a program that returns has   *)
(* waited for what it submitted, or its wait has failed.  What it destroys *)
(* is then out of use, but for one case: a wait that fails while the       *)
(* device goes on leaves a submission running on what is destroyed.        *)
NothingLeaked ==
  /\ ~Running => live = {}
  /\ Finished => gpu.fence # "pending"

(* The programs that make what they read back visible to the host.  The   *)
(* others have copied it to staging memory, and only wait for the fence.   *)
BarriersToHost == {"parity"}

(* The recorded commands are free of hazards: each access finds the        *)
(* conflicting ones before it ordered and its writes visible, across       *)
(* repetitions, passes, copies and submissions.  The host touches only     *)
(* what has retired; and what it reads of the parity dispatch is visible   *)
(* to it: "the COMPUTE->HOST barrier + fence wait makes the GPU writes     *)
(* host-visible for the readback" (compute.cpp:216-217).                   *)
NoHazard ==
  AtStep =>
    \A a \in Now.accs :
      IF a.stage = "HOST"
      THEN Retired(sync, a) /\ (Top.req.prog \in BarriersToHost => Racing(sync, a) = {})
      ELSE Racing(FoldLeft(AfterBarrier, sync, Now.pre), a) = {}

(* The windows the host reads hold what the result says of them: pixels of *)
(* the draw, the counters of the instrumented pass, the top mip, cascade 0 *)
(* before and after the merges (bench.cpp:1102-1106), and no remains of    *)
(* the upload that shares the staging buffer.                              *)
HostReadsItsPasses ==
  AtStep /\ Now.op = "read" =>
    \A w \in Now.wins : HoldsOnly(data, w.acc, w.pass)

(* Each median is of the pass it is reported for: the stamps the readback  *)
(* pairs up for a pass and a repetition are the two around that dispatch,  *)
(* and the query pool has exactly as many as are written.                  *)
MediansAreOfTheirPass ==
  AtStep /\ Now.op = "read" /\ report.timestamps /\ Top.req.prog \in {"vct", "rc"} =>
    LET names == PassesOf(Top.req)
        count == Len(names)
        reps  == Top.req.iterations + 1
    IN  /\ Len(queries) = 2 * count * reps
        /\ \A rep \in 0 .. (reps - 1), i \in 1 .. count :
             LET base == 2 * (rep * count + (i - 1))
             IN  queries[base + 1] = names[i] /\ queries[base + 2] = names[i]
=============================================================================
