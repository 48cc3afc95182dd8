-------------------------- MODULE JobSystemProofs ---------------------------
(***************************************************************************)
(* Proofs about JobSystem, for every set of workers, every count and grain *)
(* and every way the scheduler cuts and hands out the ranges.              *)
(*                                                                         *)
(* The idea is ownership: while a call runs, every index is in exactly one *)
(* pending range, in the range of exactly one thread, or released, and the *)
(* counter is the number of released indices.                              *)
(***************************************************************************)
EXTENDS JobSystem, FiniteSetTheorems, TLAPS

IndexRange == [from : Nat, next : Nat, to : Nat]

Waits(r, i) == r[1] <= i /\ i < r[2]                            \* in a pending range
Holds(t, i) == running[t].from <= i /\ i < running[t].to        \* in t's range

(* The variables have their shape; ranges lie in the loop and a thread's   *)
(* own log is the part of its range that it has run.                       *)
Shape ==
  /\ pc \in {"out", "wait", "spin"}
  /\ count \in 0..MaxCount /\ grain \in 1..(MaxGrain + 1)
  /\ pending \in SUBSET (Nat \X Nat)
  /\ running \in [Threads -> IndexRange]
  /\ calls \in [Indices(count) -> Nat]
  /\ by \in [Threads -> SUBSET Nat]
  /\ released \in SUBSET Indices(count)
  /\ visible \in SUBSET Indices(count)

Spans ==
  /\ \A r \in pending : r[1] < r[2] /\ r[2] <= count
  /\ \A t \in Threads :
       /\ running[t].from <= running[t].next /\ running[t].next <= running[t].to
       /\ running[t].to <= count
       /\ running[t] = Idle \/ running[t].from < running[t].to
       /\ by[t] = running[t].from .. (running[t].next - 1)

(* No index has two owners. *)
Disjoint ==
  /\ \A r, s \in pending, i \in Indices(count) : Waits(r, i) /\ Waits(s, i) => r = s
  /\ \A r \in pending, t \in Threads, i \in Indices(count) : ~(Waits(r, i) /\ Holds(t, i))
  /\ \A t, u \in Threads, i \in Indices(count) : Holds(t, i) /\ Holds(u, i) => t = u
  /\ \A r \in pending, i \in released : ~Waits(r, i)
  /\ \A t \in Threads, i \in released : ~Holds(t, i)

(* While a call runs, none has lost its owner. *)
Owned ==
  pc # "out" =>
    \A i \in Indices(count) :
      \/ i \in released
      \/ \E r \in pending : Waits(r, i)
      \/ \E t \in Threads : Holds(t, i)

(* An index has been called when it is released or in some thread's log.   *)
Called ==
  pc # "out" =>
    \A i \in Indices(count) :
      calls[i] = IF i \in released \/ \E t \in Threads : i \in by[t] THEN 1 ELSE 0

Counted == completed = Cardinality(released)

(* Between calls no thread has anything to do. *)
Settled ==
  pc = "out" =>
    /\ pending = {} /\ \A t \in Threads : running[t] = Idle
    /\ \A i \in Indices(count) : calls[i] = 1
    /\ visible = Indices(count)

Ownership == Shape /\ Spans /\ Disjoint /\ Owned /\ Called /\ Counted /\ Settled

-----------------------------------------------------------------------------
LEMMA EmptyInterval == \A n \in Nat : n .. (n - 1) = {}
  OBVIOUS

(* The counter reaches `count' only when every index is released. *)
LEMMA ReleasedCount ==
  ASSUME Shape, Counted
  PROVE  /\ IsFiniteSet(released) /\ completed \in 0..count
         /\ completed = count => released = Indices(count)
<1>1. count \in Nat /\ released \in SUBSET (0..(count - 1))
  BY JobsAssumption DEF Shape, Indices
<1>2. IsFiniteSet(0..(count - 1)) /\ Cardinality(0..(count - 1)) = count
  BY <1>1, FS_Interval
<1>3. /\ IsFiniteSet(released) /\ Cardinality(released) <= count
      /\ count = Cardinality(released) => released = 0..(count - 1)
  BY <1>1, <1>2, FS_Subset
<1>4. Cardinality(released) \in Nat
  BY <1>3, FS_CardinalityType
<1>. QED  BY <1>1, <1>3, <1>4 DEF Counted, Indices

LEMMA InitOwnership == Init => Ownership
<1>. SUFFICES ASSUME Init PROVE Ownership
  OBVIOUS
<1>. USE DEF Init, Indices, Idle
<1>1. Shape
  BY JobsAssumption DEF Shape, IndexRange
<1>2. Spans
  BY DEF Spans
<1>3. Disjoint /\ Owned /\ Called /\ Settled
  BY DEF Disjoint, Owned, Called, Settled
<1>4. Counted
  BY FS_EmptySet DEF Counted
<1>. QED  BY <1>1, <1>2, <1>3, <1>4 DEF Ownership

LEMMA CallOwnership ==
  ASSUME Ownership, NEW n \in 0..MaxCount, NEW g \in 0..MaxGrain, Call(n, g)
  PROVE  Ownership'
<1>. USE DEF Indices
<1>1. n \in Nat /\ g \in Nat /\ pc = "out" /\ count' = n /\ released' = {} /\ completed' = 0
  BY JobsAssumption DEF Call
<1>2. /\ \A t \in Threads : running'[t] = Idle /\ by'[t] = {}
      /\ running' \in [Threads -> IndexRange] /\ by' \in [Threads -> SUBSET Nat]
  BY DEF Call, Ownership, Settled, Shape
<1>3. Shape'
  <2>1. grain' \in 1..(MaxGrain + 1)
    BY JobsAssumption DEF Call, Grain
  <2>2. /\ pc' \in {"out", "wait", "spin"}
        /\ pending' \in SUBSET (Nat \X Nat)
        /\ calls' \in [0..(n - 1) -> Nat]
        /\ visible' \in SUBSET (0..(n - 1))
    BY <1>1 DEF Call, Ownership, Settled
  <2>. QED  BY <1>1, <1>2, <2>1, <2>2 DEF Shape
<1>4. Spans'
  <2>1. \A r \in pending' : r[1] < r[2] /\ r[2] <= n
    BY <1>1 DEF Call, Ownership, Settled
  <2>2. \A t \in Threads : running'[t].from = 0 /\ running'[t].next = 0 /\ running'[t].to = 0
    BY <1>2 DEF Idle
  <2>3. \A t \in Threads : by'[t] = running'[t].from .. (running'[t].next - 1)
    <3>1. 0 .. (0 - 1) = {}
      BY EmptyInterval
    <3>. QED  BY <1>2, <2>2, <3>1
  <2>4. \A t \in Threads : /\ running'[t].from <= running'[t].next
                          /\ running'[t].next <= running'[t].to /\ running'[t].to <= n
    BY <1>1, <2>2
  <2>. QED  BY <1>1, <1>2, <2>1, <2>3, <2>4, Zenon DEF Spans
<1>5. Disjoint'
  <2>1. \A r, s \in pending' : r = s
    BY <1>1 DEF Call, Ownership, Settled
  <2>. QED  BY <1>1, <1>2, <2>1 DEF Disjoint, Holds, Idle
<1>6. Owned' /\ Called'
  <2>1. CASE pc' = "out"
    BY <2>1 DEF Owned, Called
  <2>2. CASE pc' # "out"
    <3>1. pending' = {<<0, n>>} /\ calls' = [i \in 0..(n - 1) |-> 0]
      BY <1>1, <2>2 DEF Call
    <3>2. Owned'
      BY <1>1, <3>1 DEF Owned, Waits
    <3>3. Called'
      BY <1>1, <1>2, <3>1 DEF Called
    <3>. QED  BY <3>2, <3>3
  <2>. QED  BY <2>1, <2>2
<1>7. Counted'
  BY <1>1, FS_EmptySet DEF Counted
<1>8. Settled'
  BY <1>1, <1>2 DEF Call, Settled, Ownership
<1>. QED  BY <1>3, <1>4, <1>5, <1>6, <1>7, <1>8 DEF Ownership

LEMMA TakeOwnership ==
  ASSUME Ownership, NEW t \in Threads, NEW r \in pending, NEW m \in (r[1] + 1)..r[2],
         Take(t, r, m)
  PROVE  Ownership'
<1>. USE DEF Indices
<1>1. /\ r \in Nat \X Nat /\ r[1] < r[2] /\ r[2] <= count /\ count \in Nat
      /\ m \in Nat /\ r[1] < m /\ m <= r[2]
  BY JobsAssumption DEF Ownership, Shape, Spans
<1>2. /\ running' = [running EXCEPT ![t] = [from |-> r[1], next |-> r[1], to |-> m]]
      /\ running[t] = Idle /\ by[t] = {}
      /\ pc' = pc /\ count' = count /\ completed' = completed /\ calls' = calls
      /\ grain' = grain /\ by' = by /\ released' = released /\ visible' = visible
  BY DEF Take, Busy
<1>3. \A s \in pending' : (s \in pending /\ s # r) \/ (s = <<m, r[2]>> /\ m < r[2])
  BY DEF Take
<1>3a. \A s \in pending : s = r \/ s \in pending'
  BY DEF Take
<1>3b. m < r[2] => <<m, r[2]>> \in pending'
  BY DEF Take
<1>4. pc # "out"
  BY <1>1 DEF Ownership, Settled
<1>5. /\ \A u \in Threads : u # t => running'[u] = running[u]
      /\ running'[t].from = r[1] /\ running'[t].next = r[1] /\ running'[t].to = m
      /\ running[t].from = 0 /\ running[t].to = 0
      /\ running' \in [Threads -> IndexRange]
  BY <1>1, <1>2 DEF Ownership, Shape, IndexRange, Idle
<1>6. Shape'
  <2>1. <<m, r[2]>> \in Nat \X Nat
    BY <1>1
  <2>2. pending' \in SUBSET (Nat \X Nat)
    BY <1>3, <2>1 DEF Shape, Ownership
  <2>. QED  BY <1>2, <1>5, <2>2 DEF Shape, Ownership
<1>7. Spans'
  <2>1. \A s \in pending' : s[1] < s[2] /\ s[2] <= count
    BY <1>1, <1>3 DEF Ownership, Spans
  <2>2. by'[t] = r[1] .. (r[1] - 1)
    <3>1. r[1] \in Nat
      BY <1>1
    <3>. QED  BY <1>2, <3>1, EmptyInterval
  <2>. QED  BY <1>1, <1>2, <1>5, <2>1, <2>2 DEF Ownership, Spans
<1>8. Disjoint'
  <2>1. \A s \in pending', i \in 0..(count - 1) :
          Waits(s, i) => (Waits(r, i) /\ m <= i) \/ (s \in pending /\ s # r)
    BY <1>1, <1>3 DEF Waits
  <2>2. \A i \in 0..(count - 1) : Holds(t, i)' => Waits(r, i) /\ i < m
    BY <1>1, <1>5 DEF Holds, Waits
  <2>3. \A u \in Threads, i \in 0..(count - 1) : u # t => (Holds(u, i)' <=> Holds(u, i))
    BY <1>5 DEF Holds
  <2>4. \A s, q \in pending', i \in 0..(count - 1) : Waits(s, i) /\ Waits(q, i) => s = q
    BY <1>1, <1>3, <2>1 DEF Ownership, Disjoint
  <2>5. \A s \in pending', u \in Threads, i \in 0..(count - 1) : ~(Waits(s, i) /\ Holds(u, i)')
    BY <1>1, <2>1, <2>2, <2>3 DEF Ownership, Disjoint
  <2>6. \A v, u \in Threads, i \in 0..(count - 1) : Holds(v, i)' /\ Holds(u, i)' => v = u
    BY <2>2, <2>3 DEF Ownership, Disjoint
  <2>7. \A i \in released : /\ \A s \in pending' : ~Waits(s, i)
                            /\ \A u \in Threads : ~Holds(u, i)'
    BY <2>1, <2>2, <2>3 DEF Ownership, Disjoint, Shape
  <2>. QED  BY <1>2, <2>4, <2>5, <2>6, <2>7 DEF Disjoint, Waits
<1>9. Owned'
  <2>1. ASSUME NEW i \in 0..(count - 1)
        PROVE  \/ i \in released
               \/ \E s \in pending' : Waits(s, i)
               \/ \E u \in Threads : Holds(u, i)'
    <3>1. CASE i \in released
      BY <3>1
    <3>2. CASE Waits(r, i)
      <4>1. CASE i < m
        BY <1>1, <1>5, <3>2, <4>1 DEF Holds, Waits
      <4>2. CASE m <= i
        BY <1>1, <1>3b, <3>2, <4>2 DEF Waits
      <4>. QED  BY <1>1, <4>1, <4>2
    <3>3. ASSUME NEW s \in pending, s # r, Waits(s, i)
          PROVE  \E q \in pending' : Waits(q, i)
      BY <1>3a, <3>3
    <3>4. ASSUME NEW u \in Threads, Holds(u, i)
          PROVE  \E v \in Threads : Holds(v, i)'
      <4>1. u # t
        BY <1>5, <3>4 DEF Holds
      <4>. QED  BY <1>5, <3>4, <4>1 DEF Holds
    <3>. QED  BY <1>4, <3>1, <3>2, <3>3, <3>4 DEF Ownership, Owned
  <2>. QED  BY <1>2, <2>1 DEF Owned, Waits
<1>10. Called' /\ Counted' /\ Settled'
  BY <1>2, <1>4 DEF Called, Counted, Settled, Ownership
<1>. QED  BY <1>6, <1>7, <1>8, <1>9, <1>10 DEF Ownership

LEMMA InvokeOwnership ==
  ASSUME Ownership, NEW t \in Threads, Invoke(t)
  PROVE  Ownership'
<1>. DEFINE k == running[t].next
<1>. USE DEF Indices
<1>1. /\ running[t] \in IndexRange /\ running[t].from <= k /\ k < running[t].to
      /\ running[t].to <= count /\ count \in Nat /\ k \in 0..(count - 1)
      /\ Holds(t, k) /\ by[t] = running[t].from .. (k - 1)
  BY JobsAssumption DEF Invoke, MoreToRun, Ownership, Shape, Spans, IndexRange, Holds
<1>2. /\ calls' = [calls EXCEPT ![k] = calls[k] + 1]
      /\ by' = [by EXCEPT ![t] = by[t] \cup {k}]
      /\ running' = [running EXCEPT ![t].next = k + 1]
      /\ pc' = pc /\ count' = count /\ grain' = grain /\ pending' = pending
      /\ completed' = completed /\ released' = released
      /\ visible' \in {visible, visible \cup {k}}
  BY DEF Invoke
<1>3. /\ running' \in [Threads -> IndexRange]
      /\ \A u \in Threads : /\ running'[u].from = running[u].from
                            /\ running'[u].to = running[u].to
                            /\ u # t => running'[u] = running[u] /\ by'[u] = by[u]
      /\ running'[t].next = k + 1 /\ by'[t] = by[t] \cup {k}
      /\ \A u \in Threads : \A i \in 0..(count - 1) : Holds(u, i)' <=> Holds(u, i)
  <2>1. k + 1 \in Nat
    BY <1>1 DEF IndexRange
  <2>2. running' \in [Threads -> IndexRange]
    BY <1>2, <2>1 DEF Ownership, Shape, IndexRange
  <2>3. \A u \in Threads : /\ running'[u].from = running[u].from
                           /\ running'[u].to = running[u].to
                           /\ u # t => running'[u] = running[u] /\ by'[u] = by[u]
    BY <1>2 DEF Ownership, Shape, IndexRange
  <2>4. running'[t].next = k + 1 /\ by'[t] = by[t] \cup {k}
    BY <1>2 DEF Ownership, Shape, IndexRange
  <2>5. ASSUME NEW u \in Threads, NEW i \in 0..(count - 1)
        PROVE  Holds(u, i)' <=> Holds(u, i)
    BY <2>3 DEF Holds
  <2>. QED  BY <2>2, <2>3, <2>4, <2>5
<1>4. pc # "out"
  <2>1. running[t] # Idle
    BY DEF Invoke, MoreToRun, Busy
  <2>. QED  BY <2>1 DEF Ownership, Settled
<1>5. Shape'
  <2>1. calls' \in [0..(count - 1) -> Nat]
    BY <1>1, <1>2 DEF Shape, Ownership
  <2>2. by' \in [Threads -> SUBSET Nat]
    BY <1>1, <1>2 DEF Shape, Ownership, IndexRange
  <2>3. visible' \in SUBSET (0..(count - 1))
    BY <1>1, <1>2 DEF Shape, Ownership
  <2>. QED  BY <1>2, <1>3, <2>1, <2>2, <2>3 DEF Shape, Ownership
<1>6. Spans'
  <2>1. by'[t] = running'[t].from .. (running'[t].next - 1)
    <3>1. running[t].from \in Nat /\ k \in Nat
      BY <1>1 DEF IndexRange
    <3>. HIDE DEF k
    <3>2. (running[t].from .. (k - 1)) \cup {k} = running[t].from .. ((k + 1) - 1)
      BY <1>1, <3>1
    <3>. QED  BY <1>1, <1>3, <3>2
  <2>2. running'[t].next <= running'[t].to /\ running'[t].from <= running'[t].next
        /\ running'[t].from < running'[t].to
    BY <1>1, <1>3 DEF IndexRange
  <2>. QED  BY <1>1, <1>2, <1>3, <2>1, <2>2 DEF Ownership, Spans
<1>7. Disjoint' /\ Owned'
  BY <1>2, <1>3 DEF Ownership, Disjoint, Owned, Shape, Waits
<1>8. Called'
  <2>1. k \notin released /\ \A u \in Threads : k \notin by[u]
    <3>1. k \notin released /\ k \notin by[t]
      BY <1>1 DEF Ownership, Disjoint, IndexRange
    <3>2. ASSUME NEW u \in Threads, k \in by[u] PROVE Holds(u, k)
      BY <1>1, <3>2 DEF Ownership, Spans, Shape, IndexRange, Holds
    <3>. QED  BY <1>1, <3>1, <3>2 DEF Ownership, Disjoint
  <2>2. calls[k] = 0 /\ calls'[k] = 1
    BY <1>1, <1>2, <1>4, <2>1 DEF Ownership, Called, Shape
  <2>3. \A i \in 0..(count - 1) :
          i # k => /\ calls'[i] = calls[i]
                   /\ \A u \in Threads : i \in by'[u] <=> i \in by[u]
    BY <1>1, <1>2, <1>3 DEF Ownership, Shape
  <2>4. k \in by'[t]
    BY <1>3
  <2>5. ASSUME NEW i \in 0..(count - 1)
        PROVE  calls'[i] = IF i \in released \/ \E u \in Threads : i \in by'[u] THEN 1 ELSE 0
    <3>1. CASE i = k
      BY <2>2, <2>4, <3>1
    <3>2. CASE i # k
      BY <1>4, <2>3, <3>2 DEF Ownership, Called
    <3>. QED  BY <3>1, <3>2
  <2>. QED  BY <1>2, <2>5 DEF Called
<1>9. Counted' /\ Settled'
  BY <1>2, <1>4 DEF Ownership, Counted, Settled
<1>. QED  BY <1>5, <1>6, <1>7, <1>8, <1>9 DEF Ownership

LEMMA CompleteOwnership ==
  ASSUME Ownership, NEW t \in Threads, Complete(t)
  PROVE  Ownership'
<1>. USE DEF Indices
<1>1. /\ running[t] \in IndexRange /\ running[t] # Idle /\ running[t].from < running[t].to
      /\ running[t].to <= count /\ count \in Nat
      /\ by[t] = running[t].from .. (running[t].to - 1)
  BY JobsAssumption DEF Complete, Busy, Ownership, Shape, Spans
<1>2. /\ completed' = completed + RangeSize(t)
      /\ released' = released \cup by[t]
      /\ by' = [by EXCEPT ![t] = {}] /\ running' = [running EXCEPT ![t] = Idle]
      /\ pc' = pc /\ count' = count /\ grain' = grain /\ pending' = pending
      /\ calls' = calls /\ visible' = visible
  BY DEF Complete
<1>3. /\ running' \in [Threads -> IndexRange]
      /\ \A u \in Threads : u # t => running'[u] = running[u] /\ by'[u] = by[u]
      /\ running'[t] = Idle /\ by'[t] = {}
      /\ running'[t].from = 0 /\ running'[t].next = 0 /\ running'[t].to = 0
  BY <1>1, <1>2 DEF Ownership, Shape, IndexRange, Idle
<1>4. pc # "out"
  BY <1>1 DEF Ownership, Settled
<1>5. \A i \in 0..(count - 1) : i \in by[t] <=> Holds(t, i)
  BY <1>1 DEF Holds, IndexRange
<1>6. by[t] \in SUBSET (0..(count - 1))
  BY <1>1 DEF IndexRange
<1>7. Shape'
  BY <1>2, <1>3, <1>6 DEF Ownership, Shape
<1>8. Spans'
  <2>1. by'[t] = 0 .. (0 - 1)
    BY <1>3, EmptyInterval
  <2>2. \A u \in Threads : by'[u] = running'[u].from .. (running'[u].next - 1)
    BY <1>3, <2>1 DEF Ownership, Spans
  <2>. QED  BY <1>1, <1>2, <1>3, <2>2 DEF Ownership, Spans
<1>9. \A u \in Threads, i \in 0..(count - 1) : Holds(u, i)' <=> u # t /\ Holds(u, i)
  BY <1>3 DEF Holds
<1>10. Disjoint'
  <2>1. \A i \in released' : i \in 0..(count - 1) /\ (i \in released \/ Holds(t, i))
    BY <1>2, <1>5, <1>6 DEF Ownership, Shape
  <2>2. \A i \in released' : /\ \A r \in pending : ~Waits(r, i)
                             /\ \A u \in Threads : ~Holds(u, i)'
    BY <1>9, <2>1 DEF Ownership, Disjoint
  <2>. QED  BY <1>2, <1>9, <2>2 DEF Ownership, Disjoint, Waits
<1>11. Owned'
  BY <1>2, <1>5, <1>9 DEF Ownership, Owned, Waits
<1>12. Called'
  <2>1. \A i \in 0..(count - 1) :
          (i \in released \/ \E u \in Threads : i \in by[u])
            <=> (i \in released' \/ \E u \in Threads : i \in by'[u])
    BY <1>2, <1>3
  <2>. QED  BY <1>2, <2>1 DEF Ownership, Called
<1>13. Counted'
  <2>1. IsFiniteSet(released) /\ completed \in Nat
    BY ReleasedCount, <1>1 DEF Ownership
  <2>2. IsFiniteSet(by[t]) /\ Cardinality(by[t]) = running[t].to - running[t].from
    <3>1. running[t].from \in Int /\ running[t].to - 1 \in Int
      BY <1>1 DEF IndexRange
    <3>2. /\ IsFiniteSet(running[t].from .. (running[t].to - 1))
          /\ Cardinality(running[t].from .. (running[t].to - 1)) =
               IF running[t].from > running[t].to - 1 THEN 0
               ELSE (running[t].to - 1) - running[t].from + 1
      BY <3>1, FS_Interval
    <3>. QED  BY <1>1, <3>1, <3>2 DEF IndexRange
  <2>3. released \cap by[t] = {}
    BY <1>5, <1>6 DEF Ownership, Disjoint
  <2>4. Cardinality(released \cup by[t]) = Cardinality(released) + Cardinality(by[t])
    <3>1. Cardinality(released \cup by[t])
            = Cardinality(released) + Cardinality(by[t]) - Cardinality(released \cap by[t])
      BY <2>1, <2>2, FS_Union
    <3>2. Cardinality(released \cap by[t]) = 0
      BY <2>3, FS_EmptySet
    <3>3. Cardinality(released) \in Nat /\ Cardinality(by[t]) \in Nat
      BY <2>1, <2>2, FS_CardinalityType
    <3>. QED  BY <3>1, <3>2, <3>3
  <2>. QED  BY <1>2, <2>2, <2>4 DEF Ownership, Counted, RangeSize
<1>14. Settled'
  BY <1>2, <1>4 DEF Settled
<1>. QED  BY <1>7, <1>8, <1>10, <1>11, <1>12, <1>13, <1>14 DEF Ownership

LEMMA WaitOwnership == Ownership /\ WaitReturns => Ownership'
<1>. SUFFICES ASSUME Ownership, WaitReturns PROVE Ownership'
  OBVIOUS
<1>1. /\ pc = "wait" /\ pc' = "spin"
      /\ UNCHANGED <<count, grain, pending, running, completed, calls, by, released, visible>>
  BY DEF WaitReturns
<1>. QED  BY <1>1 DEF Ownership, Shape, Spans, Disjoint, Owned, Called, Counted, Settled,
             Indices, Holds, Waits, IndexRange, Idle

(* The load that reads `count': then every index is released, so nobody    *)
(* holds one any more, and all of them become visible.                     *)
LEMMA SpinOwnership == Ownership /\ Spin => Ownership'
<1>. SUFFICES ASSUME Ownership, Spin PROVE Ownership'
  OBVIOUS
<1>. USE DEF Indices
<1>1. /\ pc = "spin" /\ pc' = (IF completed = count THEN "out" ELSE "spin")
      /\ visible' = visible \cup released
      /\ UNCHANGED <<count, grain, pending, running, completed, calls, by, released>>
  BY DEF Spin, AllCompleted
<1>2. Shape' /\ Spans' /\ Disjoint' /\ Owned' /\ Called' /\ Counted'
  BY <1>1 DEF Ownership, Shape, Spans, Disjoint, Owned, Called, Counted, Holds, Waits
<1>3. Settled'
  <2>. SUFFICES ASSUME completed = count PROVE Settled'
    BY <1>1 DEF Settled
  <2>1. released = 0..(count - 1) /\ count \in Nat
    BY ReleasedCount, JobsAssumption DEF Ownership, Shape
  <2>2. pending = {}
    <3>. SUFFICES ASSUME NEW r \in pending PROVE FALSE
      OBVIOUS
    <3>1. r \in Nat \X Nat /\ r[1] < r[2] /\ r[2] <= count
      BY DEF Ownership, Shape, Spans
    <3>2. r[1] \in released /\ Waits(r, r[1])
      BY <2>1, <3>1 DEF Waits
    <3>. QED  BY <3>2 DEF Ownership, Disjoint
  <2>3. ASSUME NEW t \in Threads PROVE running[t] = Idle
    <3>. SUFFICES ASSUME running[t] # Idle PROVE FALSE
      OBVIOUS
    <3>1. running[t] \in IndexRange /\ running[t].from < running[t].to /\ running[t].to <= count
      BY DEF Ownership, Shape, Spans
    <3>2. running[t].from \in released /\ Holds(t, running[t].from)
      BY <2>1, <3>1 DEF Holds, IndexRange
    <3>. QED  BY <3>2 DEF Ownership, Disjoint
  <2>4. \A i \in 0..(count - 1) : calls[i] = 1
    BY <1>1, <2>1 DEF Ownership, Called
  <2>5. visible' = 0..(count - 1)
    BY <1>1, <2>1 DEF Ownership, Shape
  <2>. QED  BY <1>1, <2>2, <2>3, <2>4, <2>5 DEF Settled
<1>. QED  BY <1>2, <1>3 DEF Ownership

LEMMA StutterOwnership == Ownership /\ UNCHANGED vars => Ownership'
  BY DEF vars, Ownership, Shape, Spans, Disjoint, Owned, Called, Counted, Settled, Indices,
     Holds, Waits

(* Ownership is inductive, so it holds in every state. *)
THEOREM OwnershipHolds == Spec => []Ownership
<1>1. Ownership /\ [Next]_vars => Ownership'
  <2>. SUFFICES ASSUME Ownership, [Next]_vars PROVE Ownership'
    OBVIOUS
  <2>1. ASSUME NEW n \in 0..MaxCount, NEW g \in 0..MaxGrain, Call(n, g) PROVE Ownership'
    BY <2>1, CallOwnership
  <2>2. ASSUME NEW t \in Threads, ThreadStep(t) PROVE Ownership'
    <3>1. ASSUME NEW r \in pending, NEW m \in (r[1] + 1)..r[2], Take(t, r, m)
          PROVE  Ownership'
      BY <3>1, TakeOwnership
    <3>2. CASE Invoke(t)
      BY <3>2, InvokeOwnership
    <3>3. CASE Complete(t)
      BY <3>3, CompleteOwnership
    <3>. QED  BY <2>2, <3>1, <3>2, <3>3 DEF ThreadStep
  <2>3. CASE WaitReturns
    BY <2>3, WaitOwnership
  <2>4. CASE Spin
    BY <2>4, SpinOwnership
  <2>5. CASE UNCHANGED vars
    BY <2>5, StutterOwnership
  <2>. QED  BY <2>1, <2>2, <2>3, <2>4, <2>5 DEF Next
<1>. QED  BY InitOwnership, <1>1, PTL DEF Spec

(* The variables of parallelFor keep their types: in particular the atomic *)
(* counter never exceeds the loop's count.                                 *)
THEOREM TypeCorrect == Spec => []TypeOK
<1>1. Ownership => TypeOK
  <2>. SUFFICES ASSUME Ownership PROVE TypeOK
    OBVIOUS
  <2>1. completed \in 0..MaxCount
    BY ReleasedCount, JobsAssumption DEF Ownership, Shape
  <2>2. \A r \in pending : r[1] \in 0..count /\ r[2] \in 0..count
    BY JobsAssumption DEF Ownership, Shape, Spans
  <2>. QED  BY <2>1, <2>2 DEF TypeOK, Ownership, Shape
<1>. QED  BY OwnershipHolds, <1>1, PTL

(* When parallelFor returns, every index has been called exactly once and  *)
(* the caller sees what every call wrote, although the scheduler's wait is *)
(* trusted with nothing.                                                   *)
THEOREM CallerSeesAll == Spec => []ReturnMeansDone
<1>1. Ownership => ReturnMeansDone
  BY DEF Ownership, Settled, ReturnMeansDone
<1>. QED  BY OwnershipHolds, <1>1, PTL

(* No index is run twice, or lies in two ranges, or in none: at every      *)
(* moment each waits, is about to run in one thread, or has run once.      *)
THEOREM IndexRunsOnce == Spec => []NeverTwice
<1>1. Ownership => NeverTwice
  <2>. USE DEF Indices
  <2>. SUFFICES ASSUME Ownership, NEW i \in 0..(count - 1)
                PROVE  /\ calls[i] <= 1
                       /\ Cardinality({r \in pending : r[1] <= i /\ i < r[2]})
                          + Cardinality({t \in Threads : running[t].next <= i /\ i < running[t].to})
                          + calls[i] = 1
    BY DEF NeverTwice
  <2>. DEFINE W == {r \in pending : r[1] <= i /\ i < r[2]}
              H == {t \in Threads : running[t].next <= i /\ i < running[t].to}
              OnceOwned == calls[i] <= 1 /\ Cardinality(W) + Cardinality(H) + calls[i] = 1
  <2>. SUFFICES OnceOwned
    OBVIOUS
  <2>1. \A t \in Threads : /\ t \in H => Holds(t, i)
                           /\ Holds(t, i) => t \in H \/ i \in by[t]
                           /\ i \in by[t] => Holds(t, i) /\ t \notin H
    BY DEF Ownership, Spans, Shape, IndexRange, Holds
  <2>2. \A r : r \in W <=> r \in pending /\ Waits(r, i)
    BY DEF Waits
  <2>. HIDE DEF W, H
  <2>3. H \subseteq Threads
    BY DEF H
  <2>4. CASE pc = "out"
    <3>1. W = {} /\ H = {} /\ calls[i] = 1
      BY <2>2, <2>4 DEF Ownership, Settled, H, Idle
    <3>. QED  BY <3>1, FS_EmptySet
  <2>5. CASE pc # "out"
    <3>1. CASE \E r \in pending : Waits(r, i)
      <4>1. PICK r \in pending : Waits(r, i)
        BY <3>1
      <4>2. W = {r}
        BY <2>2, <4>1 DEF Ownership, Disjoint
      <4>3. H = {} /\ calls[i] = 0
        BY <2>1, <2>3, <2>5, <4>1 DEF Ownership, Disjoint, Called
      <4>4. Cardinality(W) = 1 /\ Cardinality(H) = 0
        BY <4>2, <4>3, FS_EmptySet, FS_Singleton, Zenon
      <4>. QED  BY <4>3, <4>4
    <3>2. CASE \E t \in Threads : Holds(t, i)
      <4>1. PICK t \in Threads : Holds(t, i)
        BY <3>2
      <4>2. W = {} /\ i \notin released
        BY <2>2, <4>1 DEF Ownership, Disjoint
      <4>3. \A u \in Threads : Holds(u, i) => u = t
        BY <4>1 DEF Ownership, Disjoint
      <4>4. CASE i \in by[t]
        <5>1. H = {} /\ calls[i] = 1
          BY <2>1, <2>3, <2>5, <4>3, <4>4 DEF Ownership, Called
        <5>. QED  BY <4>2, <5>1, FS_EmptySet
      <4>5. CASE i \notin by[t]
        <5>1. H = {t} /\ calls[i] = 0
          BY <2>1, <2>3, <2>5, <4>1, <4>2, <4>3, <4>5 DEF Ownership, Called
        <5>2. Cardinality(H) = 1 /\ Cardinality(W) = 0
          BY <4>2, <5>1, FS_EmptySet, FS_Singleton, Zenon
        <5>. QED  BY <5>1, <5>2
      <4>. QED  BY <4>4, <4>5
    <3>3. CASE i \in released
      <4>1. W = {} /\ H = {} /\ calls[i] = 1
        BY <2>1, <2>2, <2>3, <2>5, <3>3 DEF Ownership, Disjoint, Called
      <4>. QED  BY <4>1, FS_EmptySet
    <3>. QED  BY <2>5, <3>1, <3>2, <3>3 DEF Ownership, Owned
  <2>. QED  BY <2>4, <2>5
<1>. QED  BY OwnershipHolds, <1>1, PTL
=============================================================================
