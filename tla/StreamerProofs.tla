--------------------------- MODULE StreamerProofs ---------------------------
(***************************************************************************)
(* Proofs about Streamer and StreamerParallel, for every radius, band,     *)
(* budget, set of centres and threads, generator and initial store: the    *)
(* serial pump first, then that meshing with a job system implements it.   *)
(***************************************************************************)
EXTENDS StreamerParallel, FiniteSetTheorems, TLAPS

(* The window predicate and the enumeration of the desired set agree, as   *)
(* pump (evicting by inWindow, admitting by forEachDesired) relies on.     *)
LEMMA WindowAgrees ==
  ASSUME NEW c \in Int \X Int
  PROVE  Desired(c) = {k \in Key : InWindow(k, c)}
<1>1. ASSUME NEW k \in Key
      PROVE  k \in Desired(c) <=> InWindow(k, c)
  BY <1>1, ConfigAssumption DEF Desired, InWindow, Chebyshev, Dist, Key
<1>2. Desired(c) \subseteq Key
  BY ConfigAssumption DEF Desired, Key
<1>. QED  BY <1>1, <1>2

LEMMA DesiredIsKey ==
  ASSUME NEW c \in Centers
  PROVE  Desired(c) \subseteq Key /\ \A k \in Desired(c) : Generate(k) \in Content
BY CentersAssumption, GenerateAssumption, ConfigAssumption DEF Desired, Key

-----------------------------------------------------------------------------
(* Remeshing keeps every resident well formed.                             *)
ResidentsOK(res) ==
  DOMAIN res \subseteq Key /\ \A k \in DOMAIN res : res[k] \in ResidentChunk

LEMMA BuildType ==
  ASSUME NEW res, NEW c, ResidentsOK(res), NEW k \in DOMAIN res,
         NeighborsResident(res, k, WindowMask(k, c))
  PROVE  Build(res, k, c) \in ResidentChunk
<1>1. WindowMask(k, c) \in SUBSET Face
  BY DEF WindowMask
<1>2. NeighborViews(res, k, WindowMask(k, c)) \in [Face -> Content \cup {NoView}]
  BY DEF NeighborViews, NeighborsResident, ResidentsOK, ResidentChunk
<1>3. res[k] \in ResidentChunk
  BY DEF ResidentsOK
<1>. QED  BY <1>1, <1>2, <1>3 DEF Build, ResidentChunk, MeshRecord

LEMMA RemeshType ==
  ASSUME NEW res, NEW c, ResidentsOK(res)
  PROVE  DOMAIN Remesh(res, c) = DOMAIN res /\ ResidentsOK(Remesh(res, c))
<1>1. DOMAIN Remesh(res, c) = DOMAIN res
  BY DEF Remesh
<1>2. ASSUME NEW k \in DOMAIN res,
             NeighborsResident(res, k, WindowMask(k, c))
      PROVE  Build(res, k, c) \in ResidentChunk
  BY <1>2, BuildType
<1>. QED  BY <1>1, <1>2 DEF Remesh, ResidentsOK

-----------------------------------------------------------------------------
(* What the belt yields and stores, when failures cannot be told from the  *)
(* generator's own answer.                                                 *)
Canonical(s) == \A k \in DOMAIN s : s[k].sealed => s[k].cells = Generate(k)

Faithful == (StoreFaults = {} /\ broken = FALSE) \/ Canonical(store)

(* The residents in res are a coherent cache of s, meshes included. *)
Coherent(res, s) ==
  \A k \in DOMAIN res :
     /\ res[k].chunk = Truth(s, k)
     /\ res[k].meshed => res[k].mesh = PureMesh(s, k, res[k].meshedMask)

LEMMA RemeshCoherent ==
  ASSUME NEW res, NEW c, NEW s, ResidentsOK(res), Coherent(res, s)
  PROVE  Coherent(Remesh(res, c), s)
<1>1. ASSUME NEW k \in DOMAIN res,
             NeighborsResident(res, k, WindowMask(k, c))
      PROVE  /\ Build(res, k, c).chunk = Truth(s, k)
             /\ Build(res, k, c).meshedMask = WindowMask(k, c)
             /\ Build(res, k, c).mesh = PureMesh(s, k, WindowMask(k, c))
  <2>1. NeighborViews(res, k, WindowMask(k, c)) =
          [f \in Face |-> IF f \in WindowMask(k, c)
                          THEN Truth(s, Neighbor(k, f)) ELSE NoView]
    BY <1>1 DEF NeighborViews, NeighborsResident, Coherent
  <2>2. res[k] \in ResidentChunk /\ res[k].chunk = Truth(s, k)
    BY DEF ResidentsOK, Coherent
  <2>. QED  BY <2>1, <2>2 DEF Build, PureMesh, ResidentChunk
<1>. QED  BY <1>1 DEF Remesh, Coherent

(* Persisting generated content where nothing valid was stored, or where   *)
(* the store agrees with the generator, changes nobody's content.          *)
LEMMA PersistTruth ==
  ASSUME NEW s, NEW puts, NEW k,
         (\A j \in puts : ~Valid(s, j)) \/ Canonical(s)
  PROVE  Truth(Persist(s, puts), k) = Truth(s, k)
BY DEF Truth, Valid, Persist, Pack, Canonical

-----------------------------------------------------------------------------
LEMMA MissingDesired ==
  ASSUME NEW n
  PROVE  FirstMissing(n) \subseteq Desired(center)
BY DEF FirstMissing, Missing

LEMMA PersistType ==
  ASSUME NEW s, NEW puts, DOMAIN s \subseteq Key, \A k \in DOMAIN s : s[k] \in Blob,
         puts \subseteq Key, \A k \in puts : Generate(k) \in Content
  PROVE  /\ DOMAIN Persist(s, puts) \subseteq Key
         /\ \A k \in DOMAIN Persist(s, puts) : Persist(s, puts)[k] \in Blob
BY DEF Persist, Pack, Blob

LEMMA LoadType ==
  ASSUME NEW s, NEW k, NEW readable \in BOOLEAN,
         \A j \in DOMAIN s : s[j] \in Blob, Generate(k) \in Content
  PROVE  LoadOrGenerate(s, k, readable) \in ResidentChunk
<1>1. Hit(s, k, readable) \in BOOLEAN
  BY DEF Hit, Valid, Blob
<1>2. Hit(s, k, readable) => s[k].cells \in Content
  BY DEF Hit, Valid, Blob
<1>. QED  BY <1>1, <1>2 DEF LoadOrGenerate, ResidentChunk

(* The residents between a pump's admissions and its meshing. *)
LEMMA LoadedOK ==
  ASSUME TypeOK, NEW unread, NEW fail
  PROVE  ResidentsOK(Loaded(Admitted, unread, fail))
<1>1. Admitted \subseteq Key /\ \A k \in Admitted : Generate(k) \in Content
  BY MissingDesired, DesiredIsKey DEF TypeOK, Admitted
<1>2. \A k \in Admitted : Readable(k, unread, fail) \in BOOLEAN
  BY DEF Readable, Answering
<1>3. \A k \in Admitted :
        LoadOrGenerate(store, k, Readable(k, unread, fail)) \in ResidentChunk
  BY <1>1, <1>2, LoadType DEF TypeOK
<1>. QED  BY <1>1, <1>3 DEF TypeOK, ResidentsOK, Loaded, Kept

-----------------------------------------------------------------------------
(* TypeOK is inductive.                                                    *)
LEMMA PumpType ==
  ASSUME TypeOK, NEW unread, NEW fail, Pump(unread, fail)
  PROVE  TypeOK'
<1> DEFINE generated == Generated(Admitted, unread, fail)
           loaded == Loaded(Admitted, unread, fail)
           puts == {k \in generated : Answering(k, fail)} \ fail
<1>1. Admitted \subseteq Key /\ \A k \in Admitted : Generate(k) \in Content
  BY MissingDesired, DesiredIsKey DEF TypeOK, Admitted
<1>3. ResidentsOK(loaded)
  BY LoadedOK
<1>4. ResidentsOK(resident')
  BY <1>3, RemeshType DEF Pump
<1>5. puts \subseteq Key /\ \A k \in puts : Generate(k) \in Content
  BY <1>1 DEF Generated
<1>6. DOMAIN store' \subseteq Key /\ \A k \in DOMAIN store' : store'[k] \in Blob
  <2>1. store' = Persist(store, puts)
    BY DEF Pump
  <2>. HIDE DEF puts
  <2>. QED  BY <1>5, <2>1, PersistType DEF TypeOK
<1>7. center' \in Centers /\ broken' \in BOOLEAN
  BY DEF Pump, TypeOK
<1>. QED  BY <1>4, <1>6, <1>7 DEF TypeOK, ResidentsOK

LEMMA RestartType ==
  ASSUME TypeOK, NEW n \in 0..Budget, Restart(n)
  PROVE  TypeOK'
<1> DEFINE puts == {k \in FirstMissing(n) : ~Valid(store, k)}
<1>1. puts \subseteq Key /\ \A k \in puts : Generate(k) \in Content
  BY MissingDesired, DesiredIsKey DEF TypeOK
<1>2. store' = store \/ store' = Persist(store, puts)
  BY DEF Restart
<1>3. DOMAIN store' \subseteq Key /\ \A k \in DOMAIN store' : store'[k] \in Blob
  <2>. HIDE DEF puts
  <2>. QED  BY <1>1, <1>2, PersistType DEF TypeOK
<1>4. center' \in Centers /\ broken' \in BOOLEAN /\ DOMAIN resident' = {}
  BY CentersAssumption DEF Restart
<1>. QED  BY <1>3, <1>4 DEF TypeOK

LEMMA NextType == TypeOK /\ [Next]_vars => TypeOK'
<1> SUFFICES ASSUME TypeOK, [Next]_vars  PROVE TypeOK'
  OBVIOUS
<1>1. ASSUME NEW c \in Centers, SetCenter(c)  PROVE TypeOK'
  BY <1>1 DEF SetCenter, TypeOK
<1>2. CASE PumpStep
  BY <1>2, PumpType DEF PumpStep
<1>3. ASSUME NEW n \in 0..Budget, Restart(n)  PROVE TypeOK'
  BY <1>3, RestartType
<1>4. CASE UNCHANGED vars
  BY <1>4 DEF vars, TypeOK
<1>. QED  BY <1>1, <1>2, <1>3, <1>4 DEF Next

(* The streamer's state is well formed in every reachable state. *)
THEOREM TypeCorrect == Spec => []TypeOK
<1>1. Init => TypeOK
  BY CentersAssumption, StoresAssumption DEF Init, TypeOK
<1>. QED  BY <1>1, NextType, PTL DEF Spec

-----------------------------------------------------------------------------
(* The inductive invariant behind purity.  Neither ResidentTruth nor       *)
(* MeshPure is inductive alone: a mesh is built from resident neighbours,  *)
(* so its purity needs their truth, and their truth needs Faithful, which  *)
(* says that a load cannot have been answered wrongly.                     *)
PureInv == Faithful /\ Coherent(resident, store)

LEMMA CoherentTransfer ==
  ASSUME NEW res, NEW s, NEW t, \A k : Truth(t, k) = Truth(s, k), Coherent(res, s)
  PROVE  Coherent(res, t)
BY DEF Coherent, PureMesh

LEMMA CanonicalPersist ==
  ASSUME NEW s, NEW puts, Canonical(s)
  PROVE  Canonical(Persist(s, puts))
BY DEF Canonical, Persist, Pack

LEMMA NoFaultPump ==
  ASSUME StoreFaults = {}, NEW unread \in SUBSET Exposed("read"),
         NEW fail \in {{}} \cup {{k} : k \in Exposed("write")}
  PROVE  unread = {} /\ fail = {}
BY DEF Exposed

LEMMA PumpPure ==
  ASSUME TypeOK, PureInv, PumpStep
  PROVE  PureInv' /\ \A k : Truth(store', k) = Truth(store, k)
<1>1. PICK unread \in SUBSET Exposed("read"),
           fail \in {{}} \cup {{k} : k \in Exposed("write")} : Pump(unread, fail)
  BY DEF PumpStep
<1> DEFINE generated == Generated(Admitted, unread, fail)
           loaded == Loaded(Admitted, unread, fail)
           puts == {k \in generated : Answering(k, fail)} \ fail
<1>2. /\ store' = Persist(store, puts)
      /\ resident' = Remesh(loaded, center)
      /\ broken' = (broken \/ fail # {})
  BY <1>1 DEF Pump
<1>3. \/ StoreFaults = {} /\ broken = FALSE
             /\ \A k \in Admitted : Readable(k, unread, fail)
      \/ Canonical(store)
  BY NoFaultPump DEF PureInv, Faithful, Readable, Answering
<1>4. (\A k \in puts : ~Valid(store, k)) \/ Canonical(store)
  BY <1>3 DEF Generated, Hit
<1>5. \A k : Truth(store', k) = Truth(store, k)
  <2>. HIDE DEF puts
  <2>. QED  BY <1>2, <1>4, PersistTruth
<1>6. ResidentsOK(loaded)
  BY LoadedOK
<1>7. Coherent(loaded, store)
  <2>1. ASSUME NEW k \in Admitted
        PROVE  /\ LoadOrGenerate(store, k, Readable(k, unread, fail)).chunk = Truth(store, k)
               /\ LoadOrGenerate(store, k, Readable(k, unread, fail)).meshed = FALSE
    BY <1>3 DEF LoadOrGenerate, Hit, Truth, Canonical, Valid
  <2>. QED  BY <2>1 DEF Coherent, Loaded, Kept, PureInv
<1>8. Coherent(resident', store')
  <2>. HIDE DEF loaded, puts
  <2>1. Coherent(resident', store)
    BY <1>2, <1>6, <1>7, RemeshCoherent
  <2>. QED  BY <2>1, <1>5, CoherentTransfer
<1>9. Faithful'
  <2>1. CASE StoreFaults = {} /\ broken = FALSE
    BY <2>1, <1>2, NoFaultPump DEF Faithful
  <2>2. CASE Canonical(store)
    <3>. HIDE DEF puts
    <3>. QED  BY <2>2, <1>2, CanonicalPersist DEF Faithful
  <2>. QED  BY <2>1, <2>2 DEF PureInv, Faithful
<1>. QED  BY <1>5, <1>8, <1>9 DEF PureInv

LEMMA RestartPure ==
  ASSUME TypeOK, PureInv, NEW n \in 0..Budget, Restart(n)
  PROVE  PureInv' /\ \A k : Truth(store', k) = Truth(store, k)
<1> DEFINE puts == {k \in FirstMissing(n) : ~Valid(store, k)}
<1>1. store' = store \/ store' = Persist(store, puts)
  BY DEF Restart
<1>2. \A k \in puts : ~Valid(store, k)
  OBVIOUS
<1>. HIDE DEF puts
<1>3. \A k : Truth(store', k) = Truth(store, k)
  BY <1>1, <1>2, PersistTruth
<1>4. Faithful'
  BY <1>1, CanonicalPersist DEF PureInv, Faithful, Restart
<1>5. Coherent(resident', store')
  BY DEF Restart, Coherent
<1>. QED  BY <1>3, <1>4, <1>5 DEF PureInv

LEMMA NextPure ==
  ASSUME TypeOK, PureInv, [Next]_vars
  PROVE  PureInv' /\ \A k : Truth(store', k) = Truth(store, k)
<1>1. ASSUME NEW c \in Centers, SetCenter(c)
      PROVE  PureInv' /\ \A k : Truth(store', k) = Truth(store, k)
  BY <1>1 DEF SetCenter, PureInv, Faithful
<1>2. ASSUME UNCHANGED vars
      PROVE  PureInv' /\ \A k : Truth(store', k) = Truth(store, k)
  BY <1>2 DEF vars, PureInv, Faithful
<1>. QED  BY <1>1, <1>2, PumpPure, RestartPure DEF Next

LEMMA InitPure == Reproducible /\ Init => PureInv
BY DEF Init, PureInv, Faithful, Canonical, Coherent, Reproducible

LEMMA PureInvariant ==
  ASSUME Reproducible
  PROVE  Spec => [](TypeOK /\ PureInv)
<1>1. Init => TypeOK /\ PureInv
  BY InitPure, CentersAssumption, StoresAssumption DEF Init, TypeOK
<1>2. TypeOK /\ PureInv /\ [Next]_vars => (TypeOK /\ PureInv)'
  BY NextType, NextPure
<1>. QED  BY <1>1, <1>2, PTL DEF Spec

(* The residents are a coherent cache of the store: what a resident chunk  *)
(* holds is what a fresh load would yield.                                 *)
THEOREM ResidentsAreTruth ==
  ASSUME Reproducible
  PROVE  Spec => []ResidentTruth
<1>1. TypeOK /\ PureInv => ResidentTruth
  BY DEF PureInv, Coherent, ResidentTruth
<1>. QED  BY <1>1, PureInvariant, PTL

(* The determinism rule of stream.hpp: every mesh is a pure function of    *)
(* the store's content and the window mask it was built for.               *)
THEOREM MeshesArePure ==
  ASSUME Reproducible
  PROVE  Spec => []MeshPure
<1>1. TypeOK /\ PureInv => MeshPure
  BY DEF PureInv, Coherent, MeshPure
<1>. QED  BY <1>1, PureInvariant, PTL

(* No pump, move or restart changes what the content of any chunk is. *)
THEOREM WorldIsStable ==
  ASSUME Reproducible
  PROVE  Spec => TruthStable
<1>1. TypeOK /\ PureInv /\ [Next]_vars =>
        [\A k \in DOMAIN resident \cup DOMAIN store \cup Desired(center) :
            Truth(store, k)' = Truth(store, k)]_vars
  BY NextPure DEF Truth, Valid
<1>. QED  BY <1>1, PureInvariant, PTL DEF Spec, TruthStable

-----------------------------------------------------------------------------
(* The resident map is finite, which makes the size comparison at the end  *)
(* of quiescent() mean what it is meant to: nothing but the window.        *)
LEMMA DesiredFinite ==
  ASSUME NEW c \in Int \X Int
  PROVE  IsFiniteSet(Desired(c))
<1> DEFINE X == (c[1] - Radius)..(c[1] + Radius)
           Y == CyMin..CyMax
           Z == (c[2] - Radius)..(c[2] + Radius)
           f == [p \in (X \X Y) \X Z |-> <<p[1][1], p[1][2], p[2]>>]
<1>1. IsFiniteSet(X) /\ IsFiniteSet(Y) /\ IsFiniteSet(Z)
  <2>1. c[1] - Radius \in Int /\ c[1] + Radius \in Int /\ CyMin \in Int /\ CyMax \in Int
        /\ c[2] - Radius \in Int /\ c[2] + Radius \in Int
    BY ConfigAssumption
  <2>. QED  BY <2>1, FS_Interval
<1>2. Desired(c) = X \X Y \X Z
  BY DEF Desired
<1>. HIDE DEF X, Y, Z
<1>3. IsFiniteSet((X \X Y) \X Z)
  BY <1>1, FS_Product
<1>4. f \in Surjection((X \X Y) \X Z, X \X Y \X Z)
  <2>1. f \in [(X \X Y) \X Z -> X \X Y \X Z]
    OBVIOUS
  <2>2. ASSUME NEW t \in X \X Y \X Z
        PROVE  \E p \in (X \X Y) \X Z : f[p] = t
    <3>1. <<<<t[1], t[2]>>, t[3]>> \in (X \X Y) \X Z
      OBVIOUS
    <3>2. f[<<<<t[1], t[2]>>, t[3]>>] = t
      BY <3>1
    <3>. QED  BY <3>1, <3>2
  <2>. QED  BY <2>1, <2>2 DEF Surjection
<1>. QED
  <2>. HIDE DEF f
  <2>. QED  BY <1>2, <1>3, <1>4, FS_Surjection

FiniteResident == IsFiniteSet(DOMAIN resident)

LEMMA PumpDomain ==
  ASSUME TypeOK, PumpStep
  PROVE  DOMAIN resident' \subseteq Desired(center)
<1>1. PICK unread, fail : Pump(unread, fail)
  BY DEF PumpStep
<1>2. DOMAIN resident' = Kept \cup Admitted
  BY <1>1 DEF Pump, Remesh, Loaded
<1>3. Kept \subseteq Desired(center)
  BY WindowAgrees, CentersAssumption DEF Kept, TypeOK
<1>. QED  BY <1>2, <1>3, MissingDesired DEF Admitted

LEMMA FiniteResidentInvariant == Spec => []FiniteResident
<1>1. Init => FiniteResident
  BY FS_EmptySet DEF Init, FiniteResident
<1>2. TypeOK /\ FiniteResident /\ [Next]_vars => FiniteResident'
  <2> SUFFICES ASSUME TypeOK, FiniteResident, [Next]_vars  PROVE FiniteResident'
    OBVIOUS
  <2>1. CASE PumpStep
    BY <2>1, PumpDomain, DesiredFinite, FS_Subset, CentersAssumption
       DEF TypeOK, FiniteResident
  <2>2. ASSUME NEW n \in 0..Budget, Restart(n)  PROVE FiniteResident'
    BY <2>2, FS_EmptySet DEF Restart, FiniteResident
  <2>. QED  BY <2>1, <2>2 DEF Next, SetCenter, vars, FiniteResident
<1>. QED  BY <1>1, <1>2, TypeCorrect, PTL DEF Spec

(* Path independence: however the streamer came to rest, it holds exactly  *)
(* the window and the meshes the oracle derives from the window alone.     *)
THEOREM QuiescentStateIsOracle ==
  ASSUME Reproducible
  PROVE  Spec => []QuiescentIsOracle
<1>1. TypeOK /\ PureInv /\ FiniteResident => QuiescentIsOracle
  <2> SUFFICES ASSUME TypeOK, PureInv, FiniteResident, Quiescent
               PROVE  /\ DOMAIN resident = {k \in Desired(center) : InWindow(k, center)}
                      /\ \A k \in DOMAIN resident :
                           resident[k].mesh = PureMesh(store, k, WindowMask(k, center))
    BY DEF QuiescentIsOracle
  <2>1. DOMAIN resident = Desired(center)
    BY FS_Subset DEF Quiescent, FiniteResident
  <2>2. Desired(center) = {k \in Desired(center) : InWindow(k, center)}
    BY WindowAgrees, CentersAssumption DEF TypeOK
  <2>3. \A k \in DOMAIN resident :
          resident[k].mesh = PureMesh(store, k, WindowMask(k, center))
    BY <2>1 DEF Quiescent, Current, PureInv, Coherent
  <2>. QED  BY <2>1, <2>2, <2>3
<1>. QED  BY <1>1, PureInvariant, FiniteResidentInvariant, PTL

-----------------------------------------------------------------------------
(* The admission order is a strict total order on keys.                    *)
LEMMA ChebyshevType ==
  ASSUME NEW k \in Key, NEW c \in Int \X Int
  PROVE  Chebyshev(k, c) \in Nat
BY DEF Chebyshev, Dist, Key

LEMMA KeyOrder ==
  /\ \A a \in Key : ~KeyLess(a, a)
  /\ \A a, b \in Key : a # b => KeyLess(a, b) \/ KeyLess(b, a)
  /\ \A a, b, d \in Key : KeyLess(a, b) /\ KeyLess(b, d) => KeyLess(a, d)
BY DEF KeyLess, Key

LEMMA BeforeOrder ==
  ASSUME NEW c \in Int \X Int
  PROVE  /\ \A a \in Key : ~Before(a, a, c)
         /\ \A a, b \in Key : a # b => Before(a, b, c) \/ Before(b, a, c)
         /\ \A a, b, d \in Key : Before(a, b, c) /\ Before(b, d, c) => Before(a, d, c)
<1>1. \A a \in Key : Chebyshev(a, c) \in Nat
  BY ChebyshevType
<1>2. \A a \in Key : ~Before(a, a, c)
  BY <1>1, KeyOrder DEF Before
<1>3. \A a, b \in Key : a # b => Before(a, b, c) \/ Before(b, a, c)
  BY <1>1, KeyOrder DEF Before
<1>4. \A a, b, d \in Key : Before(a, b, c) /\ Before(b, d, c) => Before(a, d, c)
  BY <1>1, KeyOrder DEF Before
<1>. QED  BY <1>2, <1>3, <1>4

(* The rank of a missing chunk in admission order. *)
Ahead(k) == {j \in Missing : Before(j, k, center)}
Rank(k)  == Cardinality(Ahead(k))

LEMMA MissingFinite ==
  ASSUME TypeOK
  PROVE  /\ Missing \subseteq Key /\ IsFiniteSet(Missing) /\ center \in Int \X Int
         /\ \A k : IsFiniteSet(Ahead(k)) /\ Rank(k) \in Nat
<1>1. center \in Centers /\ center \in Int \X Int
  BY CentersAssumption DEF TypeOK
<1>2. Missing \subseteq Key
  BY <1>1, DesiredIsKey DEF Missing
<1>3. IsFiniteSet(Missing)
  BY <1>1, DesiredFinite, FS_Subset DEF Missing
<1>4. \A k : IsFiniteSet(Ahead(k)) /\ Rank(k) \in Nat
  BY <1>3, FS_Subset, FS_CardinalityType DEF Ahead, Rank
<1>. QED  BY <1>1, <1>2, <1>3, <1>4

LEMMA RankMonotone ==
  ASSUME TypeOK, NEW a \in Missing, NEW b \in Missing, Before(a, b, center)
  PROVE  Rank(a) < Rank(b)
<1>1. a \in Key /\ b \in Key /\ center \in Int \X Int
  BY MissingFinite
<1>2. Ahead(a) \subseteq Ahead(b)
  BY <1>1, MissingFinite, BeforeOrder DEF Ahead
<1>3. a \in Ahead(b) /\ a \notin Ahead(a)
  BY <1>1, BeforeOrder DEF Ahead
<1>4. IsFiniteSet(Ahead(b)) /\ Rank(a) \in Nat /\ Rank(b) \in Nat
  BY MissingFinite
<1>5. Rank(a) <= Rank(b) /\ Rank(a) # Rank(b)
  BY <1>2, <1>3, <1>4, FS_Subset DEF Rank
<1>. QED  BY <1>4, <1>5

(* The budget: at most n chunks have a rank below n. *)
LEMMA FirstMissingBound ==
  ASSUME TypeOK, NEW n \in Nat
  PROVE  IsFiniteSet(FirstMissing(n)) /\ Cardinality(FirstMissing(n)) <= n
<1>. DEFINE F == FirstMissing(n)
            f == [k \in F |-> Rank(k)]
<1>1. \A k \in F : k \in Missing /\ Rank(k) \in 0..(n - 1)
  BY MissingFinite DEF FirstMissing, Rank, Ahead
<1>2. ASSUME NEW a \in F, NEW b \in F, a # b PROVE Rank(a) # Rank(b)
  <2>1. a \in Missing /\ b \in Missing /\ a \in Key /\ b \in Key /\ center \in Int \X Int
    BY <1>1, MissingFinite
  <2>2. Before(a, b, center) \/ Before(b, a, center)
    BY <1>2, <2>1, BeforeOrder
  <2>3. Rank(a) \in Nat /\ Rank(b) \in Nat
    BY MissingFinite
  <2>4. Rank(a) < Rank(b) \/ Rank(b) < Rank(a)
    BY <2>1, <2>2, RankMonotone
  <2>. QED  BY <2>3, <2>4
<1>. HIDE DEF F
<1>3. f \in Injection(F, 0..(n - 1))
  BY <1>1, <1>2 DEF Injection, IsInjective
<1>4. IsFiniteSet(0..(n - 1)) /\ Cardinality(0..(n - 1)) = n
  BY FS_Interval
<1>5. IsFiniteSet(F) /\ Cardinality(F) <= Cardinality(0..(n - 1))
  <2>. HIDE DEF f
  <2>. QED  BY <1>3, <1>4, FS_Injection
<1>. QED  BY <1>4, <1>5 DEF F

(* A step that leaves the centre and some resident is a pump or a stutter. *)
LEMMA PumpedIsPump ==
  ASSUME [Next]_vars, Pumped, ~UNCHANGED vars
  PROVE  PumpStep
<1>1. ASSUME NEW c \in Centers, SetCenter(c) PROVE FALSE
  BY <1>1 DEF SetCenter, Pumped, vars
<1>2. ASSUME NEW n \in 0..Budget, Restart(n) PROVE FALSE
  BY <1>2 DEF Restart, Pumped
<1>. QED  BY <1>1, <1>2 DEF Next

LEMMA PumpResidents ==
  ASSUME PumpStep
  PROVE  DOMAIN resident' = Kept \cup Admitted
<1>1. PICK unread, fail : Pump(unread, fail)
  BY DEF PumpStep
<1>. QED  BY <1>1 DEF Pump, Remesh, Loaded

(* pump admits at most its budget, and nothing past a nearer chunk that    *)
(* stays missing.                                                          *)
THEOREM AdmissionIsNearestFirst == Spec => NearestFirst
<1>. DEFINE new == DOMAIN resident' \ Kept
            Ordered == \A k \in new, j \in Desired(center) :
                         \/ Chebyshev(j, center) < Chebyshev(k, center)
                         \/ Chebyshev(j, center) = Chebyshev(k, center) /\ KeyLess(j, k)
                         => j \in DOMAIN resident'
<1>1. ASSUME TypeOK, PumpStep PROVE Cardinality(new) <= Budget /\ Ordered
  <2>1. DOMAIN resident' = Kept \cup Admitted
    BY <1>1, PumpResidents
  <2>2. new = Admitted
    BY <2>1 DEF Admitted, FirstMissing, Missing
  <2>3. Cardinality(new) <= Budget
    BY <1>1, <2>2, FirstMissingBound, ConfigAssumption DEF Admitted
  <2>4. ASSUME NEW k \in Admitted, NEW j \in Desired(center), Before(j, k, center)
        PROVE  j \in DOMAIN resident'
    <3>. SUFFICES ASSUME j \in Missing PROVE j \in Admitted
      BY <2>1 DEF Missing
    <3>1. k \in Missing /\ Rank(k) < Budget
      BY DEF Admitted, FirstMissing, Rank, Ahead
    <3>2. Rank(j) < Rank(k) /\ Rank(j) \in Nat /\ Rank(k) \in Nat
      BY <1>1, <2>4, <3>1, RankMonotone, MissingFinite
    <3>3. Rank(j) < Budget
      BY <3>1, <3>2, ConfigAssumption
    <3>. QED  BY <3>3 DEF Admitted, FirstMissing, Rank, Ahead
  <2>. QED  BY <2>2, <2>3, <2>4 DEF Before
<1>2. TypeOK /\ [Next]_vars => [Pumped => Cardinality(new) <= Budget /\ Ordered]_vars
  BY <1>1, PumpedIsPump
<1>. QED  BY <1>2, TypeCorrect, PTL DEF Spec, NearestFirst

(* pump leaves no chunk that it could have meshed, and none outside the    *)
(* window.                                                                 *)
THEOREM PumpDoesAllItCan == Spec => PumpLeavesNothingReady
<1>. DEFINE Done == \A k \in DOMAIN resident' :
                      /\ InWindow(k, center)
                      /\ \/ Current(resident'[k], k, center)
                         \/ \E f \in WindowMask(k, center) : Neighbor(k, f) \notin DOMAIN resident'
<1>1. ASSUME TypeOK, PumpStep, NEW k \in DOMAIN resident'
      PROVE  /\ InWindow(k, center)
             /\ \/ Current(resident'[k], k, center)
                \/ \E f \in WindowMask(k, center) : Neighbor(k, f) \notin DOMAIN resident'
  <2>1. PICK unread, fail : Pump(unread, fail)
    BY <1>1 DEF PumpStep
  <2>. DEFINE loaded == Loaded(Admitted, unread, fail)
  <2>2. resident' = Remesh(loaded, center) /\ ResidentsOK(loaded)
    BY <1>1, <2>1, LoadedOK DEF Pump
  <2>. HIDE DEF loaded
  <2>3. DOMAIN resident' = DOMAIN loaded
    BY <2>2 DEF Remesh
  <2>4. InWindow(k, center)
    <3>1. k \in Desired(center) /\ center \in Int \X Int
      BY <1>1, PumpDomain, CentersAssumption DEF TypeOK
    <3>. QED  BY <3>1, WindowAgrees
  <2>5. CASE Current(loaded[k], k, center)
    <3>1. resident'[k] = loaded[k]
      BY <2>2, <2>3, <2>5 DEF Remesh
    <3>. QED  BY <2>4, <2>5, <3>1
  <2>6. CASE ~NeighborsResident(loaded, k, WindowMask(k, center))
    BY <2>3, <2>4, <2>6 DEF NeighborsResident
  <2>7. CASE ~Current(loaded[k], k, center) /\ NeighborsResident(loaded, k, WindowMask(k, center))
    <3>1. resident'[k] = Build(loaded, k, center)
      BY <2>2, <2>3, <2>7 DEF Remesh
    <3>2. loaded[k] \in ResidentChunk
      BY <2>2, <2>3 DEF ResidentsOK
    <3>. QED  BY <2>4, <3>1, <3>2 DEF Build, Current, ResidentChunk
  <2>. QED  BY <2>4, <2>5, <2>6, <2>7
<1>2. TypeOK /\ [Next]_vars => [Pumped => Done]_vars
  BY <1>1, PumpedIsPump
<1>. QED  BY <1>2, TypeCorrect, PTL DEF Spec, PumpLeavesNothingReady

(* When the budget covers the vertical band, the camera's own column is    *)
(* resident after every pump.                                              *)
THEOREM ColumnIsResident == Spec => CenterColumnResident
<1>1. ASSUME TypeOK, PumpStep, CyMax - CyMin < Budget, NEW k \in CenterColumn
      PROVE  k \in DOMAIN resident'
  <2>. SUFFICES ASSUME k \in Missing PROVE Rank(k) < Budget
    BY <1>1, PumpResidents DEF Admitted, FirstMissing, Rank, Ahead, Missing, CenterColumn
  <2>. DEFINE A == Ahead(k)
              low == CyMin..(k[2] - 1)
              f == [j \in A |-> j[2]]
  <2>1. /\ k \in Key /\ center \in Int \X Int /\ k[1] = center[1] /\ k[3] = center[2]
        /\ k[2] \in CyMin..CyMax
    BY <1>1, MissingFinite DEF CenterColumn, Desired
  <2>2. Chebyshev(k, center) = 0
    BY <2>1 DEF Chebyshev, Dist, Key
  <2>3. ASSUME NEW j \in A
        PROVE  j \in Key /\ j[1] = center[1] /\ j[3] = center[2] /\ j[2] \in low
    <3>1. j \in Key /\ j[2] \in CyMin..CyMax
      BY <1>1, MissingFinite DEF Ahead, Missing, Desired
    <3>2. Chebyshev(j, center) \in Nat
      BY <2>1, <3>1, ChebyshevType
    <3>3. Chebyshev(j, center) = 0 /\ KeyLess(j, k)
      BY <2>2, <3>2 DEF Ahead, Before
    <3>4. j[1] = center[1] /\ j[3] = center[2]
      BY <2>1, <3>1, <3>3 DEF Chebyshev, Dist, Key
    <3>. QED  BY <2>1, <3>1, <3>3, <3>4, ConfigAssumption DEF KeyLess, Key
  <2>4. f \in Injection(A, low)
    <3>1. \A a, b \in A : a[2] = b[2] => a = b
      BY <2>3 DEF Key
    <3>2. \A a \in A : a[2] \in low
      BY <2>3
    <3>. HIDE DEF A, low
    <3>. QED  BY <3>1, <3>2 DEF Injection, IsInjective
  <2>5. IsFiniteSet(low) /\ Cardinality(low) <= CyMax - CyMin
    <3>1. CyMin \in Int /\ k[2] \in Int /\ k[2] - 1 \in Int /\ CyMin <= k[2] /\ k[2] <= CyMax /\ CyMax \in Int
      BY <2>1, ConfigAssumption
    <3>2. IsFiniteSet(low) /\ Cardinality(low) = IF CyMin > k[2] - 1 THEN 0 ELSE (k[2] - 1) - CyMin + 1
      BY <3>1, FS_Interval
    <3>. HIDE DEF low
    <3>. QED  BY <3>1, <3>2
  <2>6. Cardinality(A) <= Cardinality(low)
    <3>. HIDE DEF f, A, low
    <3>. QED  BY <2>4, <2>5, FS_Injection
  <2>7. Cardinality(A) \in Nat /\ Cardinality(low) \in Nat
    BY <1>1, <2>5, MissingFinite, FS_CardinalityType DEF Rank
  <2>. QED  BY <1>1, <2>5, <2>6, <2>7, ConfigAssumption DEF Rank
<1>2. TypeOK /\ [Next]_vars =>
        [Pumped /\ CyMax - CyMin < Budget => CenterColumn \subseteq DOMAIN resident']_vars
  BY <1>1, PumpedIsPump
<1>. QED  BY <1>2, TypeCorrect, PTL DEF Spec, CenterColumnResident

-----------------------------------------------------------------------------
(* The resident and the store maps are functions on their domains, so that *)
(* rewriting one entry by entry with what it holds gives the same map.     *)
IsMap(f) == f = [k \in DOMAIN f |-> f[k]]

Maps == IsMap(resident) /\ IsMap(store)

LEMMA MapsInvariant == Spec => []Maps
<1>1. Init => Maps
  BY StoresAssumption DEF Init, Maps, IsMap
<1>2. Maps /\ [Next]_vars => Maps'
  <2>. SUFFICES ASSUME Maps, [Next]_vars PROVE Maps'
    OBVIOUS
  <2>1. ASSUME NEW c \in Centers, SetCenter(c) PROVE Maps'
    BY <2>1 DEF SetCenter, Maps, IsMap
  <2>2. CASE PumpStep
    <3>1. PICK unread, fail : Pump(unread, fail)
      BY <2>2 DEF PumpStep
    <3>2. IsMap(resident')
      BY <3>1 DEF Pump, Remesh, IsMap
    <3>3. IsMap(store')
      BY <3>1 DEF Pump, Persist, IsMap
    <3>. QED  BY <3>2, <3>3 DEF Maps, IsMap
  <2>3. ASSUME NEW n \in 0..Budget, Restart(n) PROVE Maps'
    BY <2>3 DEF Restart, Persist, Maps, IsMap
  <2>4. CASE UNCHANGED vars
    BY <2>4 DEF vars, Maps, IsMap
  <2>. QED  BY <2>1, <2>2, <2>3, <2>4 DEF Next
<1>. QED  BY <1>1, <1>2, PTL DEF Spec

(* quiescent() may be trusted: a pump of a quiescent streamer changes      *)
(* neither the residents nor the store.                                    *)
THEOREM QuiescentPumpChangesNothing == Spec => QuiescentPumpIsNoOp
<1>1. ASSUME TypeOK, FiniteResident, Maps, Quiescent, PumpStep
      PROVE  UNCHANGED vars
  <2>1. PICK unread, fail : Pump(unread, fail)
    BY <1>1 DEF PumpStep
  <2>2. DOMAIN resident = Desired(center)
    BY <1>1, FS_Subset DEF Quiescent, FiniteResident
  <2>3. Kept = DOMAIN resident
    <3>1. center \in Int \X Int
      BY <1>1, CentersAssumption DEF TypeOK
    <3>. QED  BY <2>2, <3>1, WindowAgrees DEF Kept
  <2>4. Admitted = {}
    BY <2>2, <2>3 DEF Admitted, FirstMissing, Missing
  <2>5. Generated(Admitted, unread, fail) = {} /\ fail = {}
    BY <2>1, <2>4 DEF Pump, Generated
  <2>6. Loaded(Admitted, unread, fail) = resident
    BY <1>1, <2>3, <2>4 DEF Loaded, Maps, IsMap
  <2>7. Remesh(resident, center) = resident
    BY <1>1, <2>2 DEF Remesh, Quiescent, Maps, IsMap
  <2>8. store' = store
    BY <1>1, <2>1, <2>5 DEF Pump, Persist, Maps, IsMap
  <2>9. broken' = broken
    BY <1>1, <2>1, <2>5 DEF Pump, TypeOK
  <2>. QED  BY <2>1, <2>6, <2>7, <2>8, <2>9 DEF Pump, vars
<1>2. TypeOK /\ FiniteResident /\ Maps /\ [Next]_vars =>
        [Quiescent /\ Pumped => UNCHANGED vars]_vars
  BY <1>1, PumpedIsPump
<1>. QED  BY <1>2, TypeCorrect, FiniteResidentInvariant, MapsInvariant, PTL
          DEF Spec, QuiescentPumpIsNoOp

-----------------------------------------------------------------------------
(***************************************************************************)
(* Meshing with a job system implements the serial pump: for every set of  *)
(* threads, every window, store and failure, each step of StreamerParallel *)
(* is a step of Streamer or changes nothing Streamer can see.              *)
(***************************************************************************)

(* What Streamer sees as the residents. *)
Seen == IF meshing THEN Remesh(resident, center) ELSE resident

(* A thread holds the record its chunk must get, and no other thread or    *)
(* the work list has the same chunk.                                       *)
BuildsApart ==
  /\ building \in [Threads -> [key : Key, record : ResidentChunk] \cup {NoBuild}]
  /\ work \subseteq Needed(resident)
  /\ \A t \in Threads : building[t] # NoBuild =>
       /\ building[t].key \in Needed(resident) \ work
       /\ building[t].record = Build(resident, building[t].key, center)
  /\ \A t, u \in Threads :
       /\ building[t] # NoBuild /\ building[u] # NoBuild
       /\ building[t].key = building[u].key
       => t = u

(* During the third phase every chunk that needs a mesh is still on the    *)
(* work list or in some thread's hands; outside it nothing is.             *)
NothingForgotten ==
  /\ meshing \in BOOLEAN
  /\ meshing => \A k \in Needed(resident) :
       k \in work \/ \E t \in Threads : building[t] # NoBuild /\ building[t].key = k
  /\ ~meshing => work = {} /\ \A t \in Threads : building[t] = NoBuild

ParallelInv == TypeOK /\ IsMap(resident) /\ BuildsApart /\ NothingForgotten

-----------------------------------------------------------------------------
(* A finished build changes only the mesh of its own chunk, so what the    *)
(* remaining builds will produce stays the same.                           *)
LEMMA WriteKeepsRemesh ==
  ASSUME NEW res, NEW c, NEW k \in DOMAIN res, ResidentsOK(res),
         ~Current(res[k], k, c), NeighborsResident(res, k, WindowMask(k, c)),
         NEW new, new = [res EXCEPT ![k] = Build(res, k, c)]
  PROVE  /\ Remesh(new, c) = Remesh(res, c)
         /\ DOMAIN new = DOMAIN res /\ ResidentsOK(new) /\ IsMap(new)
         /\ Current(new[k], k, c)
         /\ \A j \in DOMAIN res : j # k /\ NeighborsResident(res, j, WindowMask(j, c)) =>
              new[j] = res[j] /\ Build(new, j, c) = Build(res, j, c)
         /\ \A j \in DOMAIN res : NeighborsResident(new, j, WindowMask(j, c)) <=>
                                    NeighborsResident(res, j, WindowMask(j, c))
<1>. DEFINE b == Build(res, k, c)
<1>1. b \in ResidentChunk
  BY BuildType
<1>2. res[k] \in ResidentChunk
  BY DEF ResidentsOK
<1>3. b.chunk = res[k].chunk /\ b.meshed = TRUE /\ b.meshedMask = WindowMask(k, c)
  BY <1>2 DEF Build, ResidentChunk
<1>. HIDE DEF b
<1>4. /\ DOMAIN new = DOMAIN res /\ new[k] = b
      /\ \A j \in DOMAIN res : j # k => new[j] = res[j]
      /\ \A j \in DOMAIN res : new[j].chunk = res[j].chunk
      /\ new = [j \in DOMAIN res |-> IF j = k THEN b ELSE res[j]]
  BY <1>3 DEF b
<1>5. ResidentsOK(new) /\ IsMap(new) /\ Current(new[k], k, c)
  BY <1>1, <1>3, <1>4 DEF ResidentsOK, IsMap, Current
<1>6. \A j \in DOMAIN res : NeighborsResident(new, j, WindowMask(j, c)) <=>
                              NeighborsResident(res, j, WindowMask(j, c))
  BY <1>4 DEF NeighborsResident
<1>7. ASSUME NEW j \in DOMAIN res, NeighborsResident(res, j, WindowMask(j, c)), j # k
      PROVE  Build(new, j, c) = Build(res, j, c)
  <2>1. NeighborViews(new, j, WindowMask(j, c)) = NeighborViews(res, j, WindowMask(j, c))
    BY <1>4, <1>7 DEF NeighborViews, NeighborsResident
  <2>. QED  BY <1>4, <1>7, <2>1 DEF Build
<1>8. Remesh(new, c) = Remesh(res, c)
  <2>1. ASSUME NEW j \in DOMAIN res PROVE Remesh(new, c)[j] = Remesh(res, c)[j]
    <3>1. CASE j = k
      BY <1>4, <1>5, <3>1 DEF Remesh, b
    <3>2. CASE j # k
      BY <1>4, <1>6, <1>7, <3>2 DEF Remesh
    <3>. QED  BY <3>1, <3>2
  <2>2. /\ Remesh(new, c) = [j \in DOMAIN res |-> Remesh(new, c)[j]]
        /\ Remesh(res, c) = [j \in DOMAIN res |-> Remesh(res, c)[j]]
    BY <1>4 DEF Remesh
  <2>. QED  BY <2>1, <2>2
<1>. QED  BY <1>4, <1>5, <1>6, <1>7, <1>8

LEMMA InitParallel == ParallelInit => ParallelInv
<1>. SUFFICES ASSUME ParallelInit PROVE ParallelInv
  OBVIOUS
<1>1. TypeOK
  BY CentersAssumption, StoresAssumption DEF ParallelInit, Init, TypeOK
<1>2. IsMap(resident)
  BY DEF ParallelInit, Init, IsMap
<1>3. BuildsApart
  BY DEF ParallelInit, BuildsApart
<1>4. NothingForgotten
  BY DEF ParallelInit, NothingForgotten
<1>. QED  BY <1>1, <1>2, <1>3, <1>4 DEF ParallelInv

LEMMA MoveParallel ==
  ASSUME ParallelInv, NEW c \in Centers, Move(c)
  PROVE  ParallelInv'
<1>1. /\ meshing = FALSE /\ center' = c
      /\ UNCHANGED <<resident, store, broken, meshing, work, building>>
  BY DEF Move, SetCenter, ParallelInv, NothingForgotten
<1>2. work = {} /\ \A t \in Threads : building[t] = NoBuild
  BY <1>1 DEF ParallelInv, NothingForgotten
<1>3. TypeOK' /\ IsMap(resident)'
  BY <1>1 DEF ParallelInv, TypeOK, IsMap
<1>4. BuildsApart'
  BY <1>1, <1>2 DEF ParallelInv, BuildsApart
<1>5. NothingForgotten'
  BY <1>1, <1>2 DEF NothingForgotten
<1>. QED  BY <1>3, <1>4, <1>5 DEF ParallelInv

LEMMA StartParallel ==
  ASSUME ParallelInv, NEW unread, NEW fail, StartPump(unread, fail)
  PROVE  ParallelInv'
<1>. DEFINE generated == Generated(Admitted, unread, fail)
            loaded == Loaded(Admitted, unread, fail)
            puts == {k \in generated : Answering(k, fail)} \ fail
<1>1. /\ meshing = FALSE /\ resident' = loaded /\ store' = Persist(store, puts)
      /\ broken' = (broken \/ fail # {}) /\ meshing' = TRUE /\ work' = Needed(loaded)
      /\ center' = center /\ building' = building
  BY DEF StartPump, ParallelInv, NothingForgotten
<1>2. \A t \in Threads : building[t] = NoBuild
  BY <1>1 DEF ParallelInv, NothingForgotten
<1>3. ResidentsOK(loaded) /\ IsMap(loaded)
  BY LoadedOK DEF ParallelInv, Loaded, IsMap
<1>4. puts \subseteq Key /\ \A k \in puts : Generate(k) \in Content
  BY MissingDesired, DesiredIsKey DEF ParallelInv, TypeOK, Admitted, Generated
<1>. HIDE DEF loaded, puts
<1>5. DOMAIN store' \subseteq Key /\ \A k \in DOMAIN store' : store'[k] \in Blob
  BY <1>1, <1>4, PersistType DEF ParallelInv, TypeOK
<1>6. TypeOK'
  BY <1>1, <1>3, <1>5 DEF ParallelInv, TypeOK, ResidentsOK
<1>7. IsMap(resident)'
  BY <1>1, <1>3 DEF IsMap
<1>8. Needed(resident)' = Needed(loaded)
  BY <1>1 DEF Needed
<1>9. BuildsApart'
  BY <1>1, <1>2, <1>8 DEF ParallelInv, BuildsApart
<1>10. NothingForgotten'
  BY <1>1, <1>8 DEF NothingForgotten
<1>. QED  BY <1>6, <1>7, <1>9, <1>10 DEF ParallelInv

LEMMA ReadParallel ==
  ASSUME ParallelInv, NEW t \in Threads, NEW k \in work, ReadCells(t, k)
  PROVE  ParallelInv'
<1>. DEFINE b == [key |-> k, record |-> Build(resident, k, center)]
<1>1. /\ meshing /\ building[t] = NoBuild
      /\ building' = [building EXCEPT ![t] = b] /\ work' = work \ {k}
      /\ UNCHANGED <<center, resident, store, broken, meshing>>
  BY DEF ReadCells
<1>2. /\ k \in Needed(resident) /\ k \in DOMAIN resident /\ k \in Key
      /\ NeighborsResident(resident, k, WindowMask(k, center))
  BY DEF ParallelInv, BuildsApart, Needed, TypeOK
<1>3. Build(resident, k, center) \in ResidentChunk
  BY <1>2, BuildType DEF ParallelInv, TypeOK, ResidentsOK
<1>4. /\ b \in [key : Key, record : ResidentChunk] /\ b # NoBuild
      /\ b.key = k /\ b.record = Build(resident, k, center)
  BY <1>2, <1>3, NoBuildAssumption
<1>. HIDE DEF b
<1>5. building'[t] = b /\ \A u \in Threads : u # t => building'[u] = building[u]
  BY <1>1 DEF ParallelInv, BuildsApart
<1>6. TypeOK' /\ IsMap(resident)'
  BY <1>1 DEF ParallelInv, TypeOK, IsMap
<1>7. Needed(resident)' = Needed(resident)
  BY <1>1 DEF Needed
<1>8. BuildsApart'
  <2>1. building' \in [Threads -> [key : Key, record : ResidentChunk] \cup {NoBuild}]
    BY <1>1, <1>4 DEF ParallelInv, BuildsApart
  <2>2. work' \subseteq Needed(resident)'
    BY <1>1, <1>7 DEF ParallelInv, BuildsApart
  <2>3. ASSUME NEW u \in Threads, building'[u] # NoBuild
        PROVE  /\ building'[u].key \in Needed(resident) \ work'
               /\ building'[u].record = Build(resident, building'[u].key, center)
    BY <1>1, <1>2, <1>4, <1>5, <2>3 DEF ParallelInv, BuildsApart
  <2>4. ASSUME NEW u \in Threads, NEW v \in Threads, building'[u] # NoBuild,
               building'[v] # NoBuild, building'[u].key = building'[v].key
        PROVE  u = v
    <3>1. \A w \in Threads : w # t /\ building'[w] # NoBuild => building'[w].key # k
      BY <1>5 DEF ParallelInv, BuildsApart
    <3>. QED  BY <1>4, <1>5, <2>4, <3>1 DEF ParallelInv, BuildsApart
  <2>. QED  BY <1>1, <1>7, <2>1, <2>2, <2>3, <2>4 DEF BuildsApart
<1>9. NothingForgotten'
  <2>1. ASSUME NEW j \in Needed(resident)
        PROVE  j \in work' \/ \E u \in Threads : building'[u] # NoBuild /\ building'[u].key = j
    BY <1>1, <1>4, <1>5 DEF ParallelInv, NothingForgotten
  <2>. QED  BY <1>1, <1>7, <2>1 DEF ParallelInv, NothingForgotten
<1>. QED  BY <1>6, <1>8, <1>9 DEF ParallelInv

LEMMA WriteParallel ==
  ASSUME ParallelInv, NEW t \in Threads, WriteMesh(t)
  PROVE  ParallelInv' /\ meshing /\ Remesh(resident', center) = Remesh(resident, center)
<1>. DEFINE k == building[t].key
<1>1. /\ building[t] # NoBuild
      /\ resident' = [resident EXCEPT ![k] = building[t].record]
      /\ building' = [building EXCEPT ![t] = NoBuild]
      /\ UNCHANGED <<center, store, broken, meshing, work>>
  BY DEF WriteMesh
<1>2. meshing
  BY <1>1 DEF ParallelInv, NothingForgotten
<1>3. k \in Needed(resident) \ work /\ building[t].record = Build(resident, k, center)
  BY <1>1 DEF ParallelInv, BuildsApart
<1>. HIDE DEF k
<1>4. /\ k \in DOMAIN resident /\ ~Current(resident[k], k, center)
      /\ NeighborsResident(resident, k, WindowMask(k, center)) /\ ResidentsOK(resident)
  BY <1>3 DEF Needed, ParallelInv, TypeOK, ResidentsOK
<1>5. resident' = [resident EXCEPT ![k] = Build(resident, k, center)]
  BY <1>1, <1>3
<1>6. /\ Remesh(resident', center) = Remesh(resident, center)
      /\ DOMAIN resident' = DOMAIN resident /\ ResidentsOK(resident') /\ IsMap(resident')
      /\ Current(resident'[k], k, center)
      /\ \A j \in DOMAIN resident :
           j # k /\ NeighborsResident(resident, j, WindowMask(j, center)) =>
             /\ resident'[j] = resident[j]
             /\ Build(resident', j, center) = Build(resident, j, center)
      /\ \A j \in DOMAIN resident :
           NeighborsResident(resident', j, WindowMask(j, center)) <=>
             NeighborsResident(resident, j, WindowMask(j, center))
  <2>. SUFFICES ASSUME NEW new, new = resident'
       PROVE  /\ Remesh(new, center) = Remesh(resident, center)
              /\ DOMAIN new = DOMAIN resident /\ ResidentsOK(new) /\ IsMap(new)
              /\ Current(new[k], k, center)
              /\ \A j \in DOMAIN resident :
                   j # k /\ NeighborsResident(resident, j, WindowMask(j, center)) =>
                     /\ new[j] = resident[j]
                     /\ Build(new, j, center) = Build(resident, j, center)
              /\ \A j \in DOMAIN resident :
                   NeighborsResident(new, j, WindowMask(j, center)) <=>
                     NeighborsResident(resident, j, WindowMask(j, center))
    OBVIOUS
  <2>1. new = [resident EXCEPT ![k] = Build(resident, k, center)]
    BY <1>5
  <2>. QED  BY <1>4, <2>1, WriteKeepsRemesh, Zenon
<1>7. \A j : j \in Needed(resident)' <=> j \in Needed(resident) /\ j # k
  <2>1. Needed(resident)' = Needed(resident')
    BY <1>1 DEF Needed
  <2>. QED  BY <1>6, <2>1 DEF Needed
<1>8. /\ building'[t] = NoBuild
      /\ \A u \in Threads : u # t => building'[u] = building[u] 
      /\ building' \in [Threads -> [key : Key, record : ResidentChunk] \cup {NoBuild}]
  BY <1>1 DEF ParallelInv, BuildsApart
<1>9. \A u \in Threads : u # t /\ building[u] # NoBuild => building[u].key # k
  BY <1>1 DEF ParallelInv, BuildsApart, k
<1>10. BuildsApart'
  <2>1. work' \subseteq Needed(resident)'
    BY <1>1, <1>3, <1>7 DEF ParallelInv, BuildsApart
  <2>2. ASSUME NEW u \in Threads, building'[u] # NoBuild
        PROVE  /\ building'[u].key \in Needed(resident)' \ work'
               /\ building'[u].record = Build(resident', building'[u].key, center')
    <3>1. u # t /\ building'[u] = building[u] /\ building[u].key # k
      BY <1>8, <1>9, <2>2
    <3>2. /\ building[u].key \in Needed(resident) \ work
          /\ building[u].record = Build(resident, building[u].key, center)
      BY <2>2, <3>1 DEF ParallelInv, BuildsApart
    <3>3. Build(resident', building[u].key, center) = Build(resident, building[u].key, center)
      BY <1>6, <3>1, <3>2 DEF Needed
    <3>4. building[u].key \in Needed(resident)' \ work'
      BY <1>1, <1>7, <3>1, <3>2
    <3>5. center' = center
      BY <1>1
    <3>. QED  BY <3>1, <3>2, <3>3, <3>4, <3>5, Zenon
  <2>3. \A u, v \in Threads :
          /\ building'[u] # NoBuild /\ building'[v] # NoBuild
          /\ building'[u].key = building'[v].key
          => u = v
    BY <1>8 DEF ParallelInv, BuildsApart
  <2>. QED  BY <1>8, <2>1, <2>2, <2>3 DEF BuildsApart
<1>11. NothingForgotten'
  BY <1>1, <1>2, <1>7, <1>8 DEF ParallelInv, NothingForgotten, k
<1>12. TypeOK' /\ IsMap(resident)'
  BY <1>1, <1>6 DEF ParallelInv, TypeOK, ResidentsOK, IsMap
<1>. QED  BY <1>2, <1>6, <1>10, <1>11, <1>12 DEF ParallelInv

LEMMA FinishParallel ==
  ASSUME ParallelInv, FinishPump
  PROVE  ParallelInv' /\ meshing /\ Remesh(resident, center) = resident
<1>1. /\ meshing /\ work = {} /\ \A t \in Threads : building[t] = NoBuild
      /\ meshing' = FALSE /\ UNCHANGED <<center, resident, store, broken, work, building>>
  BY DEF FinishPump
<1>2. Needed(resident) = {}
  BY <1>1 DEF ParallelInv, NothingForgotten
<1>3. Remesh(resident, center) = resident
  BY <1>2 DEF Needed, Remesh, ParallelInv, IsMap
<1>4. TypeOK' /\ IsMap(resident)' /\ NothingForgotten'
  BY <1>1 DEF ParallelInv, TypeOK, IsMap, NothingForgotten
<1>5. BuildsApart'
  BY <1>1 DEF ParallelInv, BuildsApart
<1>. QED  BY <1>1, <1>3, <1>4, <1>5 DEF ParallelInv

LEMMA DieParallel ==
  ASSUME ParallelInv, Die
  PROVE  ParallelInv'
<1>1. /\ Restart(0) /\ meshing' = FALSE /\ work' = {}
      /\ building' = [t \in Threads |-> NoBuild]
  BY DEF Die
<1>2. TypeOK'
  BY <1>1, RestartType, ConfigAssumption DEF ParallelInv
<1>3. IsMap(resident)'
  BY <1>1 DEF Restart, IsMap
<1>4. BuildsApart' /\ NothingForgotten'
  BY <1>1 DEF BuildsApart, NothingForgotten
<1>. QED  BY <1>2, <1>3, <1>4 DEF ParallelInv

(* Parallel builds never meet: the threads of the third phase work on      *)
(* different chunks, from cells nobody writes, and drop none.              *)
THEOREM BuildsNeverMeet == ParallelSpec => []ParallelInv
<1>1. ParallelInv /\ [ParallelNext]_pvars => ParallelInv'
  <2>. SUFFICES ASSUME ParallelInv, [ParallelNext]_pvars PROVE ParallelInv'
    OBVIOUS
  <2>1. ASSUME NEW c \in Centers, Move(c) PROVE ParallelInv'
    BY <2>1, MoveParallel
  <2>2. ASSUME NEW unread, NEW fail, StartPump(unread, fail) PROVE ParallelInv'
    BY <2>2, StartParallel
  <2>3. ASSUME NEW t \in Threads, NEW k \in work, ReadCells(t, k) PROVE ParallelInv'
    BY <2>3, ReadParallel
  <2>4. ASSUME NEW t \in Threads, WriteMesh(t) PROVE ParallelInv'
    BY <2>4, WriteParallel
  <2>5. CASE FinishPump
    BY <2>5, FinishParallel
  <2>6. CASE Die
    BY <2>6, DieParallel
  <2>7. CASE UNCHANGED pvars
    BY <2>7 DEF pvars, ParallelInv, TypeOK, IsMap, BuildsApart, NothingForgotten, Needed
  <2>. QED  BY <2>1, <2>2, <2>3, <2>4, <2>5, <2>6, <2>7 DEF ParallelNext
<1>. QED  BY InitParallel, <1>1, PTL DEF ParallelSpec

-----------------------------------------------------------------------------
(* The operators of the instance that do not mention the residents are     *)
(* Streamer's own.                                                         *)
LEMMA SameWindow ==
  ASSUME NEW k, NEW c
  PROVE  /\ Serial!InWindow(k, c) = InWindow(k, c)
         /\ Serial!Desired(c) = Desired(c)
         /\ Serial!WindowMask(k, c) = WindowMask(k, c)
<1>1. \A j : Serial!InWindow(j, c) = InWindow(j, c)
  BY DEF Serial!InWindow, InWindow, Serial!Chebyshev, Chebyshev, Serial!Dist, Dist
<1>2. \A f : Serial!Neighbor(k, f) = Neighbor(k, f)
  BY DEF Serial!Neighbor, Neighbor
<1>3. Serial!WindowMask(k, c) = WindowMask(k, c)
  BY <1>1, <1>2 DEF Serial!WindowMask, WindowMask, Serial!Face, Face
<1>4. Serial!Desired(c) = Desired(c)
  BY DEF Serial!Desired, Desired
<1>. QED  BY <1>1, <1>3, <1>4

LEMMA SameRemesh ==
  ASSUME NEW res, NEW c
  PROVE  Serial!Remesh(res, c) = Remesh(res, c)
<1>1. \A k : Serial!WindowMask(k, c) = WindowMask(k, c)
  BY SameWindow
<1>2. \A k, f : Serial!Neighbor(k, f) = Neighbor(k, f)
  BY DEF Serial!Neighbor, Neighbor
<1>3. \A k, mask : Serial!NeighborsResident(res, k, mask) <=> NeighborsResident(res, k, mask)
  BY <1>2 DEF Serial!NeighborsResident, NeighborsResident
<1>4. \A k, mask : Serial!NeighborViews(res, k, mask) = NeighborViews(res, k, mask)
  BY <1>2 DEF Serial!NeighborViews, NeighborViews, Serial!Face, Face
<1>5. \A k : Serial!Build(res, k, c) = Build(res, k, c)
  BY <1>1, <1>4 DEF Serial!Build, Build
<1>6. \A r, k : Serial!Current(r, k, c) <=> Current(r, k, c)
  BY <1>1 DEF Serial!Current, Current
<1>. QED  BY <1>1, <1>3, <1>5, <1>6 DEF Serial!Remesh, Remesh

LEMMA SamePersist ==
  ASSUME NEW s, NEW puts
  PROVE  Serial!Persist(s, puts) = Persist(s, puts)
BY DEF Serial!Persist, Persist, Serial!Pack, Pack

LEMMA SameBelt ==
  ASSUME NEW s, NEW k, NEW readable
  PROVE  /\ Serial!LoadOrGenerate(s, k, readable) = LoadOrGenerate(s, k, readable)
         /\ Serial!Hit(s, k, readable) <=> Hit(s, k, readable)
         /\ Serial!Valid(s, k) <=> Valid(s, k)
BY DEF Serial!LoadOrGenerate, LoadOrGenerate, Serial!Hit, Hit, Serial!Valid, Valid

LEMMA SameOrder ==
  ASSUME NEW a, NEW b, NEW c
  PROVE  Serial!Before(a, b, c) <=> Before(a, b, c)
BY DEF Serial!Before, Before, Serial!Chebyshev, Chebyshev, Serial!Dist, Dist,
       Serial!KeyLess, KeyLess

(* The instance sees the same keys resident, so it admits the same chunks. *)
LEMMA SameMissing ==
  /\ Serial!Kept = Kept /\ \A n : Serial!FirstMissing(n) = FirstMissing(n)
  /\ Serial!Admitted = Admitted
<1>1. DOMAIN Seen = DOMAIN resident
  BY DEF Seen, Remesh
<1>2. Serial!Kept = {k \in DOMAIN Seen : Serial!InWindow(k, center)}
  BY DEF Serial!Kept, Seen
<1>3. Serial!Kept = Kept
  BY <1>1, <1>2, SameWindow DEF Kept
<1>4. Serial!Missing = Missing
  BY <1>3, SameWindow DEF Serial!Missing, Missing
<1>5. \A n : Serial!FirstMissing(n) = FirstMissing(n)
  <2>. DEFINE theirs(k) == {j \in Serial!Missing : Serial!Before(j, k, center)}
              ours(k) == {j \in Missing : Before(j, k, center)}
  <2>1. \A k : theirs(k) = ours(k)
    BY <1>4, SameOrder
  <2>2. \A n, k : k \in Serial!FirstMissing(n) <=>
                   k \in Serial!Missing /\ Cardinality(theirs(k)) < n
    <3>1. \A S : Serial!Cardinality(S) = Cardinality(S)
      BY DEF Serial!Cardinality, Cardinality
    <3>2. \A n, k : k \in Serial!FirstMissing(n) <=>
                     k \in Serial!Missing /\ Serial!Cardinality(theirs(k)) < n
      BY Zenon DEF Serial!FirstMissing
    <3>. QED  BY <3>1, <3>2, Zenon
  <2>3. \A n, k : k \in FirstMissing(n) <=> k \in Missing /\ Cardinality(ours(k)) < n
    BY Zenon DEF FirstMissing
  <2>. HIDE DEF theirs, ours
  <2>4. \A n, k : k \in Serial!FirstMissing(n) <=> k \in FirstMissing(n)
    BY <1>4, <2>1, <2>2, <2>3
  <2>. QED  BY <2>4
<1>. QED  BY <1>3, <1>5 DEF Serial!Admitted, Admitted

(* The first two phases and the collection of the work list are the whole  *)
(* serial pump: what the builds will produce is already determined.        *)
LEMMA StartIsPump ==
  ASSUME ParallelInv,
         NEW unread \in SUBSET Exposed("read"),
         NEW fail \in {{}} \cup {{k} : k \in Exposed("write")}, StartPump(unread, fail)
  PROVE  Serial!PumpStep
<1>. DEFINE generated == Generated(Admitted, unread, fail)
            loaded == Loaded(Admitted, unread, fail)
            puts == {k \in generated : Answering(k, fail)} \ fail
<1>1. /\ meshing = FALSE /\ fail \subseteq generated
      /\ resident' = loaded /\ store' = Persist(store, puts)
      /\ broken' = (broken \/ fail # {}) /\ meshing' = TRUE /\ center' = center
  BY DEF StartPump, ParallelInv, NothingForgotten
<1>2. Seen = resident /\ Seen' = Remesh(loaded, center)
  <2>1. Seen' = Remesh(resident', center')
    BY <1>1 DEF Seen, Remesh
  <2>. QED  BY <1>1, <2>1 DEF Seen
<1>3. \A k : /\ Serial!Answering(k, fail) <=> Answering(k, fail)
             /\ Serial!Readable(k, unread, fail) <=> Readable(k, unread, fail)
  BY SameOrder DEF Serial!Answering, Answering, Serial!Readable, Readable
<1>4. Serial!Generated(Admitted, unread, fail) = generated
  <2>1. \A k : Serial!Hit(store, k, Serial!Readable(k, unread, fail)) <=>
                Hit(store, k, Readable(k, unread, fail))
    BY <1>3 DEF Serial!Hit, Hit, Serial!Valid, Valid
  <2>. QED  BY <2>1 DEF Serial!Generated, Generated
<1>5. Serial!Loaded(Admitted, unread, fail) = loaded
  <2>1. \A k : LoadOrGenerate(store, k, Serial!Readable(k, unread, fail))
                 = LoadOrGenerate(store, k, Readable(k, unread, fail))
    BY <1>3 DEF LoadOrGenerate, Hit
  <2>2. Serial!Loaded(Admitted, unread, fail) =
          [k \in Kept \cup Admitted |->
             IF k \in Kept THEN Seen[k]
             ELSE LoadOrGenerate(store, k, Serial!Readable(k, unread, fail))]
    BY SameMissing, SameBelt DEF Serial!Loaded, Seen
  <2>. QED  BY <1>2, <2>1, <2>2 DEF Loaded
<1>6. {k \in generated : Serial!Answering(k, fail)} \ fail = puts
  BY <1>3
<1>. HIDE DEF loaded, generated, puts
<1>7. Serial!Pump(unread, fail)
  <2>1. Seen' = Serial!Remesh(loaded, center)
    BY <1>2, SameRemesh
  <2>2. store' = Serial!Persist(store, puts)
    BY <1>1, SamePersist
  <2>. QED  BY <1>1, <1>4, <1>5, <1>6, <2>1, <2>2, SameMissing DEF Serial!Pump, Seen
<1>8. Serial!Exposed("read") = Exposed("read") /\ Serial!Exposed("write") = Exposed("write")
  BY SameMissing DEF Serial!Exposed, Exposed
<1>. QED  BY <1>7, <1>8 DEF Serial!PumpStep

(* A crash during the meshing is the serial streamer's restart between two *)
(* pumps: the meshes are lost either way.                                  *)
LEMMA DieIsRestart ==
  ASSUME ParallelInv, Die
  PROVE  Serial!Restart(0)
<1>1. Restart(0) /\ meshing' = FALSE
  BY DEF Die
<1>2. Seen' = resident'
  BY <1>1 DEF Seen
<1>3. store' = IF broken THEN store
               ELSE Serial!Persist(store, {k \in Serial!FirstMissing(0) : ~Serial!Valid(store, k)})
  <2>1. {k \in Serial!FirstMissing(0) : ~Serial!Valid(store, k)}
          = {k \in FirstMissing(0) : ~Valid(store, k)}
    BY SameMissing, SameBelt
  <2>. QED  BY <1>1, <2>1, SamePersist DEF Restart
<1>. QED  BY <1>1, <1>2, <1>3 DEF Restart, Serial!Restart, Seen

(* pump with a job system is indistinguishable from pump without one: each *)
(* step of the parallel streamer is a step of the serial one or invisible. *)
THEOREM ParallelPumpIsSerial == ParallelSpec => RefinesSerialPump
<1>1. ParallelInit => Serial!Init
  BY DEF ParallelInit, Init, Serial!Init
<1>2. ParallelInv /\ [ParallelNext]_pvars => [Serial!Next]_(Serial!vars)
  <2>. SUFFICES ASSUME ParallelInv, [ParallelNext]_pvars
                PROVE  Serial!Next \/ UNCHANGED Serial!vars
    OBVIOUS
  <2>1. ASSUME NEW c \in Centers, Move(c) PROVE Serial!Next
    <3>1. /\ meshing = FALSE /\ meshing' = FALSE /\ center' = c
          /\ resident' = resident /\ store' = store /\ broken' = broken
      BY <2>1 DEF Move, SetCenter, ParallelInv, NothingForgotten
    <3>2. Serial!SetCenter(c)
      BY <3>1 DEF Serial!SetCenter
    <3>. QED  BY <3>2 DEF Serial!Next
  <2>2. ASSUME NEW unread \in SUBSET Exposed("read"),
               NEW fail \in {{}} \cup {{k} : k \in Exposed("write")}, StartPump(unread, fail)
        PROVE  Serial!Next
    BY <2>2, StartIsPump DEF Serial!Next
  <2>3. ASSUME NEW t \in Threads, NEW k \in work, ReadCells(t, k) PROVE UNCHANGED Serial!vars
    <3>1. UNCHANGED <<center, resident, store, broken, meshing>>
      BY <2>3 DEF ReadCells
    <3>2. UNCHANGED Seen
      BY <3>1 DEF Seen, Remesh
    <3>. QED  BY <3>1, <3>2 DEF Serial!vars, Seen
  <2>4. ASSUME NEW t \in Threads, WriteMesh(t) PROVE UNCHANGED Serial!vars
    <3>1. UNCHANGED <<center, store, broken, meshing>>
      BY <2>4 DEF WriteMesh
    <3>2. meshing /\ Remesh(resident', center) = Remesh(resident, center)
      BY <2>4, WriteParallel
    <3>3. Seen' = Seen
      BY <3>1, <3>2 DEF Seen, Remesh
    <3>. QED  BY <3>1, <3>3 DEF Serial!vars, Seen
  <2>5. CASE FinishPump
    <3>1. meshing /\ Remesh(resident, center) = resident
      BY <2>5, FinishParallel
    <3>2. meshing' = FALSE /\ UNCHANGED <<center, resident, store, broken>>
      BY <2>5 DEF FinishPump
    <3>3. Seen' = Seen
      BY <3>1, <3>2 DEF Seen
    <3>. QED  BY <3>2, <3>3 DEF Serial!vars, Seen
  <2>6. CASE Die
    <3>1. 0 \in 0..Budget
      BY ConfigAssumption
    <3>. QED  BY <2>6, <3>1, DieIsRestart DEF Serial!Next
  <2>7. CASE UNCHANGED pvars
    BY <2>7 DEF pvars, Serial!vars
  <2>. QED  BY <2>1, <2>2, <2>3, <2>4, <2>5, <2>6, <2>7 DEF ParallelNext
<1>. QED  BY <1>1, <1>2, BuildsNeverMeet, PTL DEF ParallelSpec, RefinesSerialPump, Serial!Spec
=============================================================================
