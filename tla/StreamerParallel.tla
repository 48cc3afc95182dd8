-------------------------- MODULE StreamerParallel --------------------------
(***************************************************************************)
(* pump with a job system: the third phase runs buildOne for every chunk   *)
(* of the work list on several threads.  A build first reads its own and   *)
(* its neighbours' cells out of the shared map, then writes its own        *)
(* record; the pump ends when parallelFor has returned.                    *)
(*                                                                         *)
(* Seen from outside, the pump takes effect as a whole: while the builds   *)
(* run, the abstract residents are the ones the remaining builds will      *)
(* produce, Remesh(resident, center).                                      *)
(***************************************************************************)
EXTENDS Streamer

CONSTANTS Threads, NoBuild

ASSUME NoBuildAssumption == NoBuild \notin [key : Key, record : ResidentChunk]

VARIABLES
  meshing,   \* inside the third phase of a pump
  work,      \* the part of the work list no thread has taken yet
  building   \* building[t]: the finished record t is about to write

pvars == <<center, resident, store, broken, meshing, work, building>>

Serial == INSTANCE Streamer WITH
            resident <- IF meshing THEN Remesh(resident, center) ELSE resident

(* Mutant of Needed: the work list leaves out meshes of another window. *)
NeededUnmeshed(res) ==
  {k \in DOMAIN res : ~res[k].meshed
                      /\ NeighborsResident(res, k, WindowMask(k, center))}

Needed(res) ==
  {k \in DOMAIN res : ~Current(res[k], k, center)
                      /\ NeighborsResident(res, k, WindowMask(k, center))}

(* Phases one and two, and the collection of the work list. *)
StartPump(unread, fail) ==
  LET admitted  == Admitted
      generated == Generated(admitted, unread, fail)
      loaded    == Loaded(admitted, unread, fail)
  IN  /\ ~meshing
      /\ fail \subseteq generated
      /\ resident' = loaded
      /\ store' = Persist(store, {k \in generated : Answering(k, fail)} \ fail)
      /\ broken' = (broken \/ fail # {})
      /\ meshing' = TRUE
      /\ work' = Needed(loaded)
      /\ UNCHANGED <<center, building>>

(* buildOne: greedyMesh reads res.chunk and the views of the neighbours... *)
ReadCells(t, k) ==
  /\ meshing /\ building[t] = NoBuild /\ k \in work
  /\ building' = [building EXCEPT ![t] = [key |-> k, record |-> Build(resident, k, center)]]
  /\ work' = work \ {k}
  /\ UNCHANGED <<center, resident, store, broken, meshing>>

(* ... and then the mesh is moved into the chunk's own record. *)
WriteMesh(t) ==
  /\ building[t] # NoBuild
  /\ resident' = [resident EXCEPT ![building[t].key] = building[t].record]
  /\ building' = [building EXCEPT ![t] = NoBuild]
  /\ UNCHANGED <<center, store, broken, meshing, work>>

(* parallelFor returns: every index has been executed. *)
FinishPump ==
  /\ meshing /\ work = {} /\ \A t \in Threads : building[t] = NoBuild
  /\ meshing' = FALSE
  /\ UNCHANGED <<center, resident, store, broken, work, building>>

Move(c) == ~meshing /\ SetCenter(c) /\ UNCHANGED <<meshing, work, building>>

(* The process can die during the meshing, too.  (Dying in the middle of   *)
(* the admissions does not involve the threads; Streamer has it.)          *)
Die ==
  /\ Restart(0)
  /\ meshing' = FALSE /\ work' = {} /\ building' = [t \in Threads |-> NoBuild]

ParallelInit ==
  /\ Init
  /\ meshing = FALSE /\ work = {} /\ building = [t \in Threads |-> NoBuild]

ParallelNext ==
  \/ \E c \in Centers : Move(c)
  \/ \E unread \in SUBSET Exposed("read"),
        fail \in {{}} \cup {{k} : k \in Exposed("write")} : StartPump(unread, fail)
  \/ \E t \in Threads : (\E k \in work : ReadCells(t, k)) \/ WriteMesh(t)
  \/ FinishPump
  \/ Die

ParallelSpec == ParallelInit /\ [][ParallelNext]_pvars

(* Meshing in parallel is indistinguishable from the serial pump: whatever *)
(* the schedule, the residents go from one serial state to the next        *)
(* (parallel builds write disjoint records and read only what none writes).*)
RefinesSerialPump == Serial!Spec
=============================================================================
