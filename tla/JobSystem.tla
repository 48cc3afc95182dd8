----------------------------- MODULE JobSystem ------------------------------
(***************************************************************************)
(* JobSystem::parallelFor of src/jobs/jobs.cpp.  The caller hands a task   *)
(* set over 0..count-1 to the scheduler (enkiTS, external), which cuts it  *)
(* into ranges that worker threads and the waiting caller execute.  Each   *)
(* range ends with a release increment of `completed'; the caller leaves   *)
(* only after an acquire load has returned `count'.                        *)
(*                                                                         *)
(* The scheduler's wait is trusted with nothing, as the code's comment     *)
(* asks: it may return while ranges are still running, and it makes no     *)
(* worker's writes visible.  An effect is visible to the caller once an    *)
(* acquire load read a value that its range's increment contributed to, or *)
(* if the caller ran it itself.                                            *)
(***************************************************************************)
EXTENDS Integers, FiniteSets

CONSTANTS
  Workers, Caller,    \* threads
  MaxCount, MaxGrain, \* bounds on the arguments of a call
  MaxRange            \* 0xFFFFFFFF: the scheduler's 32-bit limit

Threads == Workers \cup {Caller}
Idle    == [from |-> 0, next |-> 0, to |-> 0]

ASSUME JobsAssumption ==
  /\ Caller \notin Workers /\ Workers # {}
  /\ MaxCount \in Nat /\ MaxGrain \in Nat /\ MaxRange \in Nat \ {0}

VARIABLES
  pc,         \* the caller: "out", "wait" (WaitforTask), "spin"
  count, grain,
  pending,    \* ranges <<from, to>> not yet taken by a thread
  running,    \* running[t]: the range t executes and its next index
  completed,  \* the atomic counter
  calls,      \* calls[i]: how often fn(i) has been called
  by,         \* by[t]: the indices t executed since its last increment
  released,   \* indices whose range has been added to `completed'
  visible     \* indices whose effects the caller is guaranteed to see

vars == <<pc, count, grain, pending, running, completed, calls, by, released, visible>>

Indices(n) == 0..(n - 1)
Busy(t)    == running[t] # Idle

Grain(g) == IF g = 0 THEN 1 ELSE g

(* Mutant of MoreToRun: the range's end is taken as inclusive. *)
MoreToRunInclusive(t) == Busy(t) /\ running[t].next <= running[t].to

MoreToRun(t) == Busy(t) /\ running[t].next < running[t].to

(* Mutant of RangeSize: the last index is lost. *)
RangeSizeButLast(t) == running[t].to - running[t].from - 1

RangeSize(t) == running[t].to - running[t].from

(* Mutant of AllCompleted: the scheduler's wait is trusted. *)
AllCompletedByWait == TRUE

AllCompleted == completed = count

Init ==
  /\ pc = "out" /\ count = 0 /\ grain = 1
  /\ pending = {}
  /\ running = [t \in Threads |-> Idle]
  /\ completed = 0
  /\ calls = [i \in {} |-> 0]
  /\ by = [t \in Threads |-> {}]
  /\ released = {} /\ visible = {}

(* Entry: an empty loop returns at once, one beyond the scheduler's range  *)
(* runs serially on the caller, any other becomes a task set.              *)
Call(n, g) ==
  /\ pc = "out"
  /\ count' = n
  /\ grain' = Grain(g)
  /\ completed' = 0
  /\ by' = [t \in Threads |-> {}]
  /\ released' = {}
  /\ \/ /\ n = 0 \/ n > MaxRange \/ g > MaxRange
        /\ calls' = [i \in Indices(n) |-> 1]
        /\ visible' = Indices(n)
        /\ UNCHANGED <<pc, pending>>
     \/ /\ n > 0 /\ n <= MaxRange /\ g <= MaxRange
        /\ calls' = [i \in Indices(n) |-> 0]
        /\ visible' = {}
        /\ pc' = "wait"
        /\ pending' = {<<0, n>>}
  /\ UNCHANGED running

(* The scheduler cuts a range of at least `grain' indices (or what is      *)
(* left) off the front of a pending one and gives it to a thread; the      *)
(* caller takes part while it waits.                                       *)
Take(t, r, m) ==
  /\ ~Busy(t) /\ by[t] = {} /\ (t = Caller => pc = "wait")
  /\ r \in pending
  /\ m \in (r[1] + 1)..r[2] /\ (m - r[1] >= grain \/ m = r[2])
  /\ running' = [running EXCEPT ![t] = [from |-> r[1], next |-> r[1], to |-> m]]
  /\ pending' = (pending \ {r}) \cup (IF m < r[2] THEN {<<m, r[2]>>} ELSE {})
  /\ UNCHANGED <<pc, count, grain, completed, calls, by, released, visible>>

(* fn(i) for the next index of the range. *)
Invoke(t) ==
  LET i == running[t].next
  IN  /\ MoreToRun(t)
      /\ calls' = [calls EXCEPT ![i] = @ + 1]
      /\ by' = [by EXCEPT ![t] = @ \cup {i}]
      /\ visible' = IF t = Caller THEN visible \cup {i} ELSE visible
      /\ running' = [running EXCEPT ![t].next = i + 1]
      /\ UNCHANGED <<pc, count, grain, pending, completed, released>>

(* completed.fetch_add(range.end - range.start, release). *)
Complete(t) ==
  /\ Busy(t) /\ running[t].next = running[t].to
  /\ completed' = completed + RangeSize(t)
  /\ released' = released \cup by[t]
  /\ by' = [by EXCEPT ![t] = {}]
  /\ running' = [running EXCEPT ![t] = Idle]
  /\ UNCHANGED <<pc, count, grain, pending, calls, visible>>

(* WaitforTask returns, at the earliest when the caller is not inside a    *)
(* range itself.                                                           *)
WaitReturns ==
  /\ pc = "wait" /\ ~Busy(Caller)
  /\ pc' = "spin"
  /\ UNCHANGED <<count, grain, pending, running, completed, calls, by, released, visible>>

(* One acquire load of the counter; the loop ends when it reads `count'.   *)
Spin ==
  /\ pc = "spin"
  /\ visible' = visible \cup released
  /\ pc' = IF AllCompleted THEN "out" ELSE "spin"
  /\ UNCHANGED <<count, grain, pending, running, completed, calls, by, released>>

ThreadStep(t) ==
  \/ \E r \in pending : \E m \in (r[1] + 1)..r[2] : Take(t, r, m)
  \/ Invoke(t)
  \/ Complete(t)

Next ==
  \/ \E n \in 0..MaxCount, g \in 0..MaxGrain : Call(n, g)
  \/ \E t \in Threads : ThreadStep(t)
  \/ WaitReturns
  \/ Spin

Spec == Init /\ [][Next]_vars

(* The scheduler runs its threads, and the caller keeps executing. *)
Fairness ==
  /\ \A t \in Threads : WF_vars(ThreadStep(t))
  /\ WF_vars(WaitReturns) /\ WF_vars(Spin)

FairSpec == Spec /\ Fairness

-----------------------------------------------------------------------------
(* Type invariant. *)
TypeOK ==
  /\ pc \in {"out", "wait", "spin"}
  /\ count \in 0..MaxCount /\ grain \in 1..(MaxGrain + 1)
  /\ \A r \in pending : r[1] \in 0..count /\ r[2] \in 0..count
  /\ completed \in 0..MaxCount
  /\ DOMAIN calls = Indices(count) /\ \A i \in DOMAIN calls : calls[i] \in Nat
  /\ released \subseteq Indices(count) /\ visible \subseteq Indices(count)

(* "fn(i) is called exactly once per index ... returns when every index    *)
(* completed", and what every call wrote is visible to the caller when     *)
(* parallelFor returns, whichever thread ran it.                           *)
ReturnMeansDone ==
  pc = "out" => /\ \A i \in Indices(count) : calls[i] = 1
                /\ visible = Indices(count)

(* At no time is an index run twice, or run while still in a pending range *)
(* or a range another thread holds.                                        *)
NeverTwice ==
  /\ \A i \in Indices(count) : calls[i] <= 1
  /\ \A i \in Indices(count) :
       Cardinality({r \in pending : r[1] <= i /\ i < r[2]})
       + Cardinality({t \in Threads : running[t].next <= i /\ i < running[t].to})
       + calls[i] = 1

(* Every parallelFor returns: no order of thread steps leaves the caller   *)
(* spinning.                                                               *)
EveryCallReturns == pc # "out" ~> pc = "out"
=============================================================================
