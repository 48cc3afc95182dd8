---------------------------- MODULE EntityIndex -----------------------------
(***************************************************************************)
(* EntitySlotAllocator and UuidIndex of src/world/registry.hpp, with the   *)
(* handle fields of src/world/identity.hpp.  A handle is <<index,          *)
(* generation>>; the index InvalidIndex (0xFFFFFFFF) is outside the domain *)
(* and generations count modulo GenMod (2^32).                             *)
(*                                                                         *)
(* `epoch', `issued' and `meant' are history: how often a slot has been    *)
(* released, which handle was issued for which of its lives, and which     *)
(* life the caller of bind meant.                                          *)
(***************************************************************************)
EXTENDS Integers, Sequences, FiniteSets

CONSTANTS InvalidIndex, GenMod, Uuids,
          MaxEpoch        \* bound on the releases of one slot

ASSUME EntityAssumption ==
  InvalidIndex \in Nat \ {0} /\ GenMod \in Nat \ {0} /\ MaxEpoch \in Nat

VARIABLES
  nextIndex, generation, live, free,   \* EntitySlotAllocator
  byUuid, byHandle,                    \* UuidIndex
  epoch, issued, meant                 \* history

alloc == <<nextIndex, generation, live, free>>
index == <<byUuid, byHandle>>
entityVars  == <<nextIndex, generation, live, free, byUuid, byHandle, epoch, issued, meant>>

kInvalidHandle == <<InvalidIndex, GenMod - 1>>      \* all ones
HandleValid(h) == h[1] # InvalidIndex

(* Mutant of IsLive: the generation is not compared. *)
IsLiveAnyGeneration(h) == HandleValid(h) /\ h[1] \in DOMAIN generation /\ live[h[1]]

IsLive(h) ==
  /\ HandleValid(h)
  /\ h[1] \in DOMAIN generation
  /\ live[h[1]]
  /\ generation[h[1]] = h[2]

(* Mutant of NextGeneration: no change. *)
NextGenerationSame(g) == g

NextGeneration(g) == (g + 1) % GenMod

Extend(f, x, v) == [y \in DOMAIN f \cup {x} |-> IF y = x THEN v ELSE f[y]]
Drop(f, x)      == [y \in DOMAIN f \ {x} |-> f[y]]

Resolve(u) ==
  IF u \in DOMAIN byUuid /\ IsLive(byUuid[u]) THEN byUuid[u] ELSE kInvalidHandle

(* The uuids uuidOf can answer for h: at most one. *)
UuidOf(h) == IF IsLive(h) /\ h \in DOMAIN byHandle THEN {byHandle[h]} ELSE {}

(* What callers can hold: handles they were given, and the invalid one. *)
Held == {r.handle : r \in issued} \cup {kInvalidHandle}

-----------------------------------------------------------------------------
Issue(i, g, e) == issued' = issued \cup {[handle |-> <<i, g>>, epoch |-> e]}

(* The most recently freed slot is reused first. *)
AllocateReused ==
  /\ free # <<>>
  /\ LET i == free[Len(free)]
     IN  /\ live' = [live EXCEPT ![i] = TRUE]
         /\ Issue(i, generation[i], epoch[i])
  /\ free' = SubSeq(free, 1, Len(free) - 1)
  /\ UNCHANGED <<nextIndex, generation, index, epoch, meant>>

AllocateFresh ==
  /\ free = <<>> /\ nextIndex # InvalidIndex
  /\ nextIndex' = nextIndex + 1
  /\ generation' = Extend(generation, nextIndex, 0)
  /\ live' = Extend(live, nextIndex, TRUE)
  /\ epoch' = Extend(epoch, nextIndex, 0)
  /\ Issue(nextIndex, 0, 0)
  /\ UNCHANGED <<free, index, meant>>

(* A handle that is not live is refused and nothing changes. *)
Release(h) ==
  /\ IsLive(h) /\ epoch[h[1]] < MaxEpoch
  /\ live' = [live EXCEPT ![h[1]] = FALSE]
  /\ generation' = [generation EXCEPT ![h[1]] = NextGeneration(@)]
  /\ free' = Append(free, h[1])
  /\ epoch' = [epoch EXCEPT ![h[1]] = @ + 1]
  /\ UNCHANGED <<nextIndex, index, issued, meant>>

Bindable(u, h) == HandleValid(h) /\ u \notin DOMAIN byUuid /\ h \notin DOMAIN byHandle

(* bind does not ask the allocator; the caller means a life of the slot.   *)
Bind(u, r) ==
  /\ Bindable(u, r.handle)
  /\ byUuid' = Extend(byUuid, u, r.handle)
  /\ byHandle' = Extend(byHandle, r.handle, u)
  /\ meant' = Extend(meant, u, r)
  /\ UNCHANGED <<alloc, epoch, issued>>

Unbind(h) ==
  /\ h \in DOMAIN byHandle
  /\ byUuid' = Drop(byUuid, byHandle[h])
  /\ meant' = Drop(meant, byHandle[h])
  /\ byHandle' = Drop(byHandle, h)
  /\ UNCHANGED <<alloc, epoch, issued>>

EntityInit ==
  /\ nextIndex = 0 /\ free = <<>>
  /\ generation = [i \in {} |-> 0] /\ live = [i \in {} |-> FALSE]
  /\ byUuid = [u \in {} |-> kInvalidHandle] /\ byHandle = [h \in {} |-> kInvalidHandle]
  /\ epoch = [i \in {} |-> 0] /\ issued = {} /\ meant = [u \in {} |-> kInvalidHandle]

EntityNext ==
  \/ AllocateReused
  \/ AllocateFresh
  \/ \E h \in Held : Release(h) \/ Unbind(h)
  \/ \E u \in Uuids, r \in issued : Bind(u, r)

EntitySpec == EntityInit /\ [][EntityNext]_entityVars

-----------------------------------------------------------------------------
(* Type invariant. *)
EntityTypeOK ==
  /\ nextIndex \in 0..InvalidIndex
  /\ DOMAIN generation = 0..(nextIndex - 1) /\ DOMAIN live = DOMAIN generation
  /\ \A i \in DOMAIN generation : generation[i] \in 0..(GenMod - 1)
  /\ DOMAIN byUuid \subseteq Uuids

(* "Stale handles die immediately; ABA needs 2^32 reuse cycles of one      *)
(* slot": a handle is live only for the life it was issued for, or after   *)
(* a whole number of wraps of the slot's generation.                       *)
StaleOnlyAfterWrap ==
  \A r \in issued :
     IsLive(r.handle) =>
       \/ epoch[r.handle[1]] = r.epoch
       \/ epoch[r.handle[1]] - r.epoch >= GenMod

(* "Never a stale answer": until a slot's generation has wrapped, a uuid   *)
(* resolves to the very life of the slot it was bound for or to nothing,   *)
(* even if the entity died without being unbound and the slot lives on;    *)
(* and uuidOf says the same the other way round.                           *)
NeverStaleAnswer ==
  /\ \A u \in Uuids :
       Resolve(u) # kInvalidHandle /\ epoch[Resolve(u)[1]] < GenMod =>
          meant[u] = [handle |-> Resolve(u), epoch |-> epoch[Resolve(u)[1]]]
  /\ \A u \in Uuids, h \in Held :
       HandleValid(h) => (Resolve(u) = h <=> u \in UuidOf(h))
=============================================================================
