------------------------------ MODULE KvStore -------------------------------
(***************************************************************************)
(* What src/store/store.hpp promises of a backend, for one space: a map    *)
(* from non-empty byte strings to values, and the reply to the last call.  *)
(*                                                                         *)
(* Where mayFail is FALSE this is MemoryStore, the conformance oracle.     *)
(* Where it is TRUE a call may instead report failure, changing nothing; a *)
(* failed read is reported as absence and a failed scan stops early, which *)
(* is all the interface lets a caller see.                                 *)
(***************************************************************************)
EXTENDS Integers, Sequences

CONSTANTS
  Keys,        \* byte strings callers use; the empty one is invalid
  Values,
  Batches,     \* sequences of [key, value]; value Absent means erase
  Absent

VARIABLES
  map, reply,
  mayFail      \* whether this backend can fail; it does not change

vars == <<map, reply, mayFail>>

Empty == <<>>
Lookup(m, k) == IF k \in DOMAIN m THEN m[k] ELSE Absent

With(m, k, v)  == [j \in DOMAIN m \cup {k} |-> IF j = k THEN v ELSE m[j]]
Without(m, k)  == [j \in DOMAIN m \ {k} |-> m[j]]
Apply(m, op)   == IF op.value = Absent THEN Without(m, op.key)
                                       ELSE With(m, op.key, op.value)

(* The effect of a batch: its operations in order. *)
ApplyAll(m, ops) ==
  LET after[i \in 0..Len(ops)] == IF i = 0 THEN m ELSE Apply(after[i - 1], ops[i])
  IN  after[Len(ops)]

IsPrefixOf(p, k) == Len(p) <= Len(k) /\ SubSeq(k, 1, Len(p)) = p

(* Lexicographic byte order. *)
LexLess(a, b) ==
  \/ Len(a) < Len(b) /\ IsPrefixOf(a, b)
  \/ \E i \in 1..Len(a) :
       i <= Len(b) /\ a[i] < b[i] /\ SubSeq(a, 1, i - 1) = SubSeq(b, 1, i - 1)

(* The sets of keys an ordered visit of `hits' may have covered when the   *)
(* visitor stops it: those closed downwards.                               *)
Visits(hits) ==
  {seen \in SUBSET hits : \A k \in seen, j \in hits : LexLess(j, k) => j \in seen}

-----------------------------------------------------------------------------
Put(k, v) ==
  \/ /\ k # Empty
     /\ map' = With(map, k, v)
     /\ reply' = [op |-> "put", ok |-> TRUE]
  \/ /\ k = Empty \/ mayFail
     /\ reply' = [op |-> "put", ok |-> FALSE]
     /\ UNCHANGED map

Get(k) ==
  /\ \E v \in {Lookup(map, k)} \cup (IF mayFail THEN {Absent} ELSE {}) :
       reply' = [op |-> "get", value |-> v]
  /\ UNCHANGED map

Erase(k) ==
  \/ /\ k \in DOMAIN map
     /\ map' = Without(map, k)
     /\ reply' = [op |-> "erase", ok |-> TRUE]
  \/ /\ k \notin DOMAIN map \/ mayFail
     /\ reply' = [op |-> "erase", ok |-> FALSE]
     /\ UNCHANGED map

ApplyBatch(ops) ==
  \/ /\ \A i \in DOMAIN ops : ops[i].key # Empty
     /\ map' = ApplyAll(map, ops)
     /\ reply' = [op |-> "batch", ok |-> TRUE]
  \/ /\ mayFail \/ \E i \in DOMAIN ops : ops[i].key = Empty
     /\ reply' = [op |-> "batch", ok |-> FALSE]
     /\ UNCHANGED map

(* `stop' says whether the visitor ended the scan. *)
ScanPrefix(p, stop) ==
  /\ LET hits == {k \in DOMAIN map : IsPrefixOf(p, k)}
     IN  \E seen \in Visits(hits) :
           /\ seen = hits \/ stop \/ mayFail
           /\ reply' = [op |-> "scan", prefix |-> p, stop |-> stop, seen |-> seen]
  /\ UNCHANGED map

(* The process goes away and comes back: the contents survive. *)
Reopen == reply' = [op |-> "none"] /\ UNCHANGED map

Init == mayFail \in BOOLEAN /\ map = [k \in {} |-> Absent] /\ reply = [op |-> "none"]

Call ==
  \/ \E k \in Keys, v \in Values : Put(k, v)
  \/ \E k \in Keys : Get(k) \/ Erase(k)
  \/ \E p \in Keys, stop \in BOOLEAN : ScanPrefix(p, stop)
  \/ \E ops \in Batches : ApplyBatch(ops)
  \/ Reopen

Next == Call /\ UNCHANGED mayFail

Spec == Init /\ [][Next]_vars

=============================================================================
