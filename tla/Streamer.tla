------------------------------ MODULE Streamer ------------------------------
(***************************************************************************)
(* The camera-centred chunk window of src/world/stream.hpp together with   *)
(* the belt of src/world/belt.hpp that feeds it.                           *)
(*                                                                         *)
(* The window is a horizontal Chebyshev square of radius Radius around     *)
(* `center', times the vertical band CyMin..CyMax.  setCenter moves it;    *)
(* pump evicts, admits at most Budget missing chunks nearest-first through *)
(* load-or-generate, and meshes every resident whose in-window             *)
(* neighbourhood is resident.                                              *)
(*                                                                         *)
(* A mesh is represented by what greedyMesh is given: the chunk's own      *)
(* cells and the cells of the neighbour on each masked side.  Two meshes   *)
(* with the same inputs are the same mesh, so equality of these records is *)
(* equality of meshes, and a mesh built against the wrong data is visible. *)
(***************************************************************************)
EXTENDS Integers, FiniteSets

CONSTANTS
  Radius, CyMin, CyMax, Budget,   \* StreamConfig
  Centers,         \* the <<cx, cz>> the consumer may move the window to
  Content,         \* what the cells of a chunk may hold
  Generate(_),     \* gen::generateChunk for the world's seed
  InitStores,      \* the chunk stores a run may be started on
  StoreFaults,     \* which backend failures may happen: {"read", "write"}
  NoView, NoMesh   \* an absent neighbour view; the empty ChunkMesh

Key  == Int \X Int \X Int                                  \* (cx, cy, cz)
Face == {"posX", "negX", "posY", "negY", "posZ", "negZ"}
Blob == [sealed : BOOLEAN, cells : Content]

ASSUME ConfigAssumption ==
  /\ Radius \in Nat
  /\ CyMin \in Int /\ CyMax \in Int /\ CyMin <= CyMax
  /\ Budget \in Nat \ {0}
ASSUME CentersAssumption == <<0, 0>> \in Centers /\ Centers \subseteq Int \X Int
ASSUME ContentAssumption == NoView \notin Content
ASSUME FaultsAssumption  == StoreFaults \subseteq {"read", "write"}

ASSUME StoresAssumption ==
  \A s \in InitStores : DOMAIN s \subseteq Key /\ s \in [DOMAIN s -> Blob]

VARIABLES
  center,     \* m_centerX, m_centerZ
  resident,   \* m_resident: a map from some keys to ResidentChunk
  store,      \* the chunk space of the backend: a map from some keys to blobs
  broken      \* the backend's sticky error: every later get misses, put fails

vars == <<center, resident, store, broken>>

-----------------------------------------------------------------------------
(* The window.                                                             *)

Dist(a, b) == IF a >= b THEN a - b ELSE b - a

Chebyshev(k, c) ==
  LET dx == Dist(k[1], c[1])
      dz == Dist(k[3], c[2])
  IN  IF dx > dz THEN dx ELSE dz

InWindow(k, c) == k[2] \in CyMin..CyMax /\ Chebyshev(k, c) <= Radius

Desired(c) ==
  ((c[1] - Radius)..(c[1] + Radius)) \X (CyMin..CyMax)
     \X ((c[2] - Radius)..(c[2] + Radius))

Neighbor(k, f) ==
  CASE f = "posX" -> <<k[1] + 1, k[2], k[3]>>
    [] f = "negX" -> <<k[1] - 1, k[2], k[3]>>
    [] f = "posY" -> <<k[1], k[2] + 1, k[3]>>
    [] f = "negY" -> <<k[1], k[2] - 1, k[3]>>
    [] f = "posZ" -> <<k[1], k[2], k[3] + 1>>
    [] f = "negZ" -> <<k[1], k[2], k[3] - 1>>

(* gen::generateChunk yields a chunk for every key that can be desired. *)
ASSUME GenerateAssumption ==
  \A c \in Centers : \A k \in Desired(c) : Generate(k) \in Content

WindowMask(k, c) == {f \in Face : InWindow(Neighbor(k, f), c)}

KeyLess(a, b) ==
  \/ a[1] < b[1]
  \/ a[1] = b[1] /\ a[2] < b[2]
  \/ a[1] = b[1] /\ a[2] = b[2] /\ a[3] < b[3]

(* Mutant of Before: the sort forgets the distance. *)
BeforeByKey(a, b, c) == KeyLess(a, b)

(* The admission order: nearest first, ties by key. *)
Before(a, b, c) ==
  \/ Chebyshev(a, c) < Chebyshev(b, c)
  \/ Chebyshev(a, c) = Chebyshev(b, c) /\ KeyLess(a, b)

-----------------------------------------------------------------------------
(* The belt: one chunk loaded or generated.  `readable' says whether       *)
(* store.get reached the stored blob.                                      *)

Valid(s, k) == k \in DOMAIN s /\ s[k].sealed          \* unpackVoxelBlob succeeds

Pack(content) == [sealed |-> TRUE, cells |-> content]

(* What a chunk's cells are as far as the world is concerned: the stored   *)
(* content where a valid blob exists, the generated content elsewhere.     *)
Truth(s, k) == IF Valid(s, k) THEN s[k].cells ELSE Generate(k)

(* Mutant of Hit: a blob is used without validation. *)
HitUnchecked(s, k, readable) == readable /\ k \in DOMAIN s

Hit(s, k, readable) == readable /\ Valid(s, k)

LoadOrGenerate(s, k, readable) ==
  [chunk      |-> IF Hit(s, k, readable) THEN s[k].cells ELSE Generate(k),
   fromStore  |-> Hit(s, k, readable),
   mesh       |-> NoMesh,
   meshed     |-> FALSE,
   meshedMask |-> {}]

Persist(s, puts) ==
  [k \in DOMAIN s \cup puts |-> IF k \in puts THEN Pack(Generate(k)) ELSE s[k]]

-----------------------------------------------------------------------------
(* Mutant of NeighborsResident: chunks of the window's rim wait for        *)
(* neighbours that will never come.                                        *)
NeighborsResidentAllSides(res, k, mask) ==
  \A f \in Face : Neighbor(k, f) \in DOMAIN res

NeighborsResident(res, k, mask) ==
  \A f \in mask : Neighbor(k, f) \in DOMAIN res

(* Mutant of Current: the window mask a mesh was built for is forgotten.   *)
CurrentIgnoringMask(r, k, c) == r.meshed

Current(r, k, c) == r.meshed /\ r.meshedMask = WindowMask(k, c)

(* Mutant of NeighborViews: the two x sides are mixed up.                  *)
NeighborViewsSwapped(res, k, mask) ==
  [f \in Face |->
     LET g == CASE f = "posX" -> "negX" [] f = "negX" -> "posX" [] OTHER -> f
     IN  IF g \in mask THEN res[Neighbor(k, g)].chunk ELSE NoView]

(* The views handed to greedyMesh: exactly the in-window neighbours.       *)
NeighborViews(res, k, mask) ==
  [f \in Face |-> IF f \in mask THEN res[Neighbor(k, f)].chunk ELSE NoView]

Build(res, k, c) ==
  LET mask == WindowMask(k, c)
  IN  [res[k] EXCEPT
         !.mesh = [own |-> res[k].chunk, views |-> NeighborViews(res, k, mask)],
         !.meshed = TRUE,
         !.meshedMask = mask]

(* Pump's third phase: build every resident that needs it and is ready.    *)
Remesh(res, c) ==
  [k \in DOMAIN res |->
     IF ~Current(res[k], k, c) /\ NeighborsResident(res, k, WindowMask(k, c))
     THEN Build(res, k, c) ELSE res[k]]

-----------------------------------------------------------------------------
(* Mutant of Kept: nothing is evicted.                                     *)
KeptAll == DOMAIN resident

Kept    == {k \in DOMAIN resident : InWindow(k, center)}
Missing == Desired(center) \ Kept

(* Mutant of FirstMissing: the admission loop stops one short. *)
FirstMissingButOne(n) ==
  LET missing == Missing
  IN  {k \in missing : Cardinality({j \in missing : Before(j, k, center)}) < n - 1}

(* The first n missing chunks in admission order. *)
FirstMissing(n) ==
  LET missing == Missing
  IN  {k \in missing : Cardinality({j \in missing : Before(j, k, center)}) < n}

Admitted == FirstMissing(Budget)

(* Mutant of SetCenter: x and z exchanged. *)
SetCenterSwapped(c) ==
  /\ center' = <<c[2], c[1]>>
  /\ UNCHANGED <<resident, store, broken>>

SetCenter(c) ==
  /\ center' = c
  /\ UNCHANGED <<resident, store, broken>>

(* During a pump, `unread' are the admissions whose get fails without an   *)
(* error being recorded; `fail', a set of at most one admission, is the    *)
(* first put that fails: the backend refuses everything after it.          *)
Answering(k, fail) == ~broken /\ \A j \in fail : ~Before(j, k, center)

Readable(k, unread, fail) == Answering(k, fail) /\ k \notin unread

(* Mutant of Generated: a chunk that was loaded is written back, too. *)
GeneratedAlways(admitted, unread, fail) == admitted

Generated(admitted, unread, fail) ==
  {k \in admitted : ~Hit(store, k, Readable(k, unread, fail))}

(* The residents after eviction and admission. *)
Loaded(admitted, unread, fail) ==
  LET kept == Kept
  IN  [k \in kept \cup admitted |->
         IF k \in kept THEN resident[k]
         ELSE LoadOrGenerate(store, k, Readable(k, unread, fail))]

(* One whole pump: evict, admit, persist what was generated, remesh. *)
Pump(unread, fail) ==
  LET admitted  == Admitted
      generated == Generated(admitted, unread, fail)
  IN  /\ fail \subseteq generated
      /\ resident' = Remesh(Loaded(admitted, unread, fail), center)
      /\ store' = Persist(store, {k \in generated : Answering(k, fail)} \ fail)
      /\ broken' = (broken \/ fail # {})
      /\ UNCHANGED center

(* The process stops, possibly in the middle of a pump's admissions after  *)
(* its first n, and a new Streamer is constructed over the reopened store: *)
(* nothing but the store survives.                                         *)
Restart(n) ==
  /\ store' = IF broken THEN store
              ELSE Persist(store, {k \in FirstMissing(n) : ~Valid(store, k)})
  /\ center' = <<0, 0>>
  /\ resident' = [k \in {} |-> NoMesh]
  /\ broken' = FALSE

Init ==
  /\ center = <<0, 0>>
  /\ resident = [k \in {} |-> NoMesh]
  /\ store \in InitStores
  /\ broken = FALSE

(* The admissions a failure of the given kind may hit. *)
Exposed(kind) == IF kind \in StoreFaults /\ ~broken THEN Admitted ELSE {}

PumpStep ==
  \E unread \in SUBSET Exposed("read"),
     fail \in {{}} \cup {{k} : k \in Exposed("write")} : Pump(unread, fail)

Next ==
  \/ \E c \in Centers : SetCenter(c)
  \/ PumpStep
  \/ \E n \in 0..Budget : Restart(n)

Spec == Init /\ [][Next]_vars

(* The consumer calls pump every frame. *)
FairSpec == Spec /\ WF_vars(PumpStep)

-----------------------------------------------------------------------------
(* Mutant of Quiescent: only what is resident is looked at.                *)
QuiescentResidentsOnly ==
  \A k \in DOMAIN resident : Current(resident[k], k, center)

(* Streamer::quiescent().                                                  *)
Quiescent ==
  /\ \A k \in Desired(center) :
        k \in DOMAIN resident /\ Current(resident[k], k, center)
  /\ Cardinality(DOMAIN resident) = Cardinality(Desired(center))

(* The reference the code is held to: the mesh re-derived from the store's *)
(* content alone, for a given set of sides.                                *)
PureMesh(s, k, mask) ==
  [own   |-> Truth(s, k),
   views |-> [f \in Face |->
                IF f \in mask THEN Truth(s, Neighbor(k, f)) ELSE NoView]]

(* Either the backend never fails, or every world it may hold agrees with  *)
(* the generator.  Without this the claims below are not true of the code. *)
Reproducible ==
  \/ StoreFaults = {}
  \/ \A s \in InitStores : \A k \in DOMAIN s :
        s[k].sealed => s[k].cells = Generate(k)

(* Type invariant: residents and blobs are well formed, the window centre  *)
(* is one the consumer asked for.                                          *)
MeshRecord == [own : Content, views : [Face -> Content \cup {NoView}]]

ResidentChunk ==
  [chunk : Content, fromStore : BOOLEAN, mesh : MeshRecord \cup {NoMesh},
   meshed : BOOLEAN, meshedMask : SUBSET Face]

TypeOK ==
  /\ center \in Centers
  /\ DOMAIN resident \subseteq Key
  /\ \A k \in DOMAIN resident : resident[k] \in ResidentChunk
  /\ DOMAIN store \subseteq Key
  /\ \A k \in DOMAIN store : store[k] \in Blob
  /\ broken \in BOOLEAN

(* A resident chunk holds what the store holds for it now, or what the     *)
(* generator yields if the store has no valid blob: the residents are a    *)
(* coherent cache of the store however often a key was evicted, reloaded,  *)
(* regenerated over a corrupt blob, or left unpersisted by a failed put.   *)
ResidentTruth ==
  \A k \in DOMAIN resident : resident[k].chunk = Truth(store, k)

(* "A resident chunk's mesh is a PURE FUNCTION of (store content,          *)
(* window)": every mesh, current or left over from an earlier window, is   *)
(* the reference mesh for the mask it is labelled with, although the       *)
(* neighbours it was built from may have been evicted and reloaded since.  *)
MeshPure ==
  \A k \in DOMAIN resident :
     resident[k].meshed => resident[k].mesh = PureMesh(store, k, resident[k].meshedMask)

(* "Arrival order can never leak into quiescent state": whatever path,     *)
(* budget, restarts and evictions led here, a quiescent streamer holds     *)
(* exactly the window, and every mesh is the one the oracle re-derives     *)
(* from the window definition.                                             *)
QuiescentIsOracle ==
  Quiescent =>
    /\ DOMAIN resident = {k \in Desired(center) : InWindow(k, center)}
    /\ \A k \in DOMAIN resident :
          resident[k].mesh = PureMesh(store, k, WindowMask(k, center))

(* The world does not change under the streamer: no pump or restart alters *)
(* what any key's content is, although pumps write to the store.           *)
TruthStable ==
  [][\A k \in DOMAIN resident \cup DOMAIN store \cup Desired(center) :
        Truth(store, k)' = Truth(store, k)]_vars

(* A step of this module is a pump iff it keeps the centre and leaves      *)
(* residents behind: a pump always admits or keeps one, a restart never.   *)
Pumped == center' = center /\ DOMAIN resident' # {}

(* A pump admits nearest-first and never more than its budget: no chunk is *)
(* admitted past a nearer (or equally near, smaller-keyed) one that stays  *)
(* missing.                                                                *)
NearestFirst ==
  [][Pumped =>
       LET new == DOMAIN resident' \ Kept
       IN  /\ Cardinality(new) <= Budget
           /\ \A k \in new, j \in Desired(center) :
                 \/ Chebyshev(j, center) < Chebyshev(k, center)
                 \/ Chebyshev(j, center) = Chebyshev(k, center) /\ KeyLess(j, k)
                 => j \in DOMAIN resident']_vars

(* A pump leaves no work it could have done: afterwards every resident is  *)
(* in the window, and one whose mesh is not current lacks an in-window     *)
(* neighbour.  With NearestFirst this bounds the number of pumps to        *)
(* quiescence by the window size over the budget.                          *)
PumpLeavesNothingReady ==
  [][Pumped =>
       \A k \in DOMAIN resident' :
         /\ InWindow(k, center)
         /\ \/ Current(resident'[k], k, center)
            \/ \E f \in WindowMask(k, center) :
                  Neighbor(k, f) \notin DOMAIN resident']_vars

(* "pump() would be a no-op" when quiescent() answers true.                *)
QuiescentPumpIsNoOp == [][Quiescent /\ Pumped => UNCHANGED vars]_vars

(* When the budget covers the vertical band, the column of chunks the      *)
(* camera is in is resident after every pump, wherever the window jumped.  *)
CenterColumn == {k \in Desired(center) : k[1] = center[1] /\ k[3] = center[2]}

CenterColumnResident ==
  [][Pumped /\ CyMax - CyMin < Budget => CenterColumn \subseteq DOMAIN resident']_vars

(* Once the window rests and the process keeps running, pumping reaches    *)
(* quiescence and stays there.                                             *)
EventuallyQuiescent == <>[][Pumped]_vars => <>[]Quiescent
=============================================================================
