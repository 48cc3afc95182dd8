--------------------------- MODULE IdentityProofs ---------------------------
(***************************************************************************)
(* Proofs about ContentRegistry and EntityIndex, for every set of names,   *)
(* every capacity, every width of the generation counter and every number  *)
(* of slots.                                                               *)
(***************************************************************************)
EXTENDS ContentRegistry, EntityIndex, TLAPS

-----------------------------------------------------------------------------
(* The content registry.                                                   *)

SavedEntry == [name : Names, flag : {0, 1}]

(* No name is entered twice, and byName is the inverse of the entries.     *)
Bindings ==
  /\ entries \in Seq(Entry) /\ Len(entries) <= MaxEntries
  /\ DOMAIN byName = {entries[i].name : i \in 1..Len(entries)}
  /\ \A i \in 1..Len(entries) : byName[entries[i].name] = i

(* What is in the store is a manifest that deserializes, and the registry  *)
(* has only grown since: the manifest's names are a prefix of its names.   *)
Manifest ==
  /\ saved = [header |-> TRUE, count |-> saved.count, entries |-> saved.entries]
  /\ saved.entries \in Seq(SavedEntry)
  /\ saved.count \in 0..MaxEntries /\ Len(saved.entries) = saved.count
  /\ \A i, j \in 1..saved.count : saved.entries[i].name = saved.entries[j].name => i = j
  /\ saved.count <= Len(entries)
  /\ \A i \in 1..saved.count : entries[i].name = saved.entries[i].name

(* Every binding ever saved is still in the latest manifest.               *)
Promises ==
  /\ DOMAIN promised = 1..saved.count
  /\ \A i \in 1..saved.count : promised[i] = saved.entries[i].name

Answer ==
  /\ returned \in [name : Names \cup {BadName}, id : 0..MaxEntries]
  /\ IF returned.id # Unknown
     THEN returned.id <= Len(entries) /\ entries[returned.id].name = returned.name
     ELSE returned.name \in Names => Len(entries) = MaxEntries

RegistryInv == Bindings /\ Manifest /\ Promises /\ Answer

(* Members of the two kinds of sequences, and what changing the flag of    *)
(* one entry does.                                                         *)
LEMMA EntryAt ==
  ASSUME NEW E \in Seq(Entry), NEW i \in 1..Len(E)
  PROVE  /\ E[i].active \in BOOLEAN /\ E[i].name \in Names
         /\ E[i] = [name |-> E[i].name, active |-> E[i].active]
<1>1. E[i] \in Entry
  OBVIOUS
<1>. QED  BY <1>1 DEF Entry

LEMMA SavedEntryAt ==
  ASSUME NEW E \in Seq(SavedEntry), NEW i \in 1..Len(E)
  PROVE  /\ E[i].flag \in {0, 1} /\ E[i].name \in Names
         /\ E[i] = [name |-> E[i].name, flag |-> E[i].flag]
<1>1. E[i] \in SavedEntry
  OBVIOUS
<1>. QED  BY <1>1 DEF SavedEntry

LEMMA MadeEntry == \A n \in Names, b \in BOOLEAN : [name |-> n, active |-> b] \in Entry
  BY DEF Entry

LEMMA MadeSavedEntry == \A n \in Names, f \in {0, 1} : [name |-> n, flag |-> f] \in SavedEntry
  BY DEF SavedEntry

LEMMA SetEntry ==
  ASSUME NEW E \in Seq(Entry), NEW k \in 1..Len(E), NEW e \in Entry, e.name = E[k].name
  PROVE  /\ [E EXCEPT ![k] = e] \in Seq(Entry)
         /\ Len([E EXCEPT ![k] = e]) = Len(E)
         /\ \A i \in 1..Len(E) : [E EXCEPT ![k] = e][i].name = E[i].name
OBVIOUS

(* A manifest whose fields are right is rebuilt in full.                   *)
LEMMA Rebuilt ==
  ASSUME Manifest
  PROVE  Deserialize(saved) =
           [i \in 1..saved.count |->
              [name |-> saved.entries[i].name, active |-> saved.entries[i].flag = 1]]
<1>1. \A i \in 1..saved.count : EntryOk(saved, i)
  <2>. SUFFICES ASSUME NEW i \in 1..saved.count PROVE EntryOk(saved, i)
    OBVIOUS
  <2>1. saved.entries[i].flag \in {0, 1} /\ saved.entries[i].name \in Names
    BY SavedEntryAt DEF Manifest
  <2>2. \A j \in 1..(i - 1) : j \in 1..saved.count /\ j # i
    BY NamesAssumption DEF Manifest
  <2>. QED  BY <2>1, <2>2, Zenon DEF EntryOk, Manifest
<1>2. saved.header = TRUE /\ saved.count <= MaxEntries /\ Len(saved.entries) = saved.count
  BY NamesAssumption DEF Manifest
<1>. QED  BY <1>1, <1>2, Zenon DEF Deserialize

(* What serialize writes. *)
LEMMA SerializedEntries ==
  ASSUME Bindings
  PROVE  LET m == Serialize(entries)
         IN  /\ m.header = TRUE /\ m.count = Len(entries)
             /\ m.entries \in Seq(SavedEntry) /\ Len(m.entries) = Len(entries)
             /\ \A i \in 1..Len(entries) :
                  m.entries[i] = [name |-> entries[i].name,
                                  flag |-> IF entries[i].active THEN 1 ELSE 0]
<1>. DEFINE m == Serialize(entries)
<1>1. Len(entries) \in Nat /\ DOMAIN entries = 1..Len(entries)
  BY DEF Bindings
<1>2. /\ m.header = TRUE /\ m.count = Len(entries)
      /\ m.entries = [i \in 1..Len(entries) |->
           [name |-> entries[i].name, flag |-> IF entries[i].active THEN 1 ELSE 0]]
  BY <1>1 DEF Serialize
<1>3. ASSUME NEW i \in 1..Len(entries) PROVE m.entries[i] \in SavedEntry
  <2>1. entries[i].name \in Names
    BY EntryAt DEF Bindings
  <2>2. (IF entries[i].active THEN 1 ELSE 0) \in {0, 1}
    OBVIOUS
  <2>3. m.entries[i] = [name |-> entries[i].name, flag |-> IF entries[i].active THEN 1 ELSE 0]
    BY <1>2
  <2>. HIDE DEF m
  <2>. QED  BY <2>1, <2>2, <2>3, MadeSavedEntry, Zenon
<1>. HIDE DEF m
<1>4. m.entries \in [1..Len(entries) -> SavedEntry]
  BY <1>2, <1>3
<1>5. m.entries \in Seq(SavedEntry) /\ Len(m.entries) = Len(entries)
  BY <1>1, <1>4
<1>. QED  BY <1>2, <1>5 DEF m

(* serialize followed by deserialize is the identity on a registry without *)
(* duplicate names.                                                        *)
LEMMA RoundTrip ==
  ASSUME Bindings
  PROVE  Deserialize(Serialize(entries)) = entries
<1>. DEFINE m == Serialize(entries)
<1>1. /\ m.header = TRUE /\ m.count = Len(entries)
      /\ m.entries \in Seq(SavedEntry) /\ Len(m.entries) = Len(entries)
      /\ \A i \in 1..Len(entries) :
           m.entries[i] = [name |-> entries[i].name, flag |-> IF entries[i].active THEN 1 ELSE 0]
  BY SerializedEntries, Zenon
<1>2. \A i \in 1..Len(entries) : EntryOk(m, i)
  <2>. HIDE DEF m
  <2>. SUFFICES ASSUME NEW i \in 1..Len(entries) PROVE EntryOk(m, i)
    OBVIOUS
  <2>1. m.entries[i].flag \in {0, 1} /\ m.entries[i].name \in Names
    BY <1>1, SavedEntryAt
  <2>2. \A j \in 1..(i - 1) : j \in 1..Len(entries) /\ j # i
    BY DEF Bindings
  <2>3. \A j \in 1..Len(entries) : m.entries[j].name = entries[j].name
    <3>. SUFFICES ASSUME NEW j \in 1..Len(entries) PROVE m.entries[j].name = entries[j].name
      OBVIOUS
    <3>1. m.entries[j] = [name |-> entries[j].name, flag |-> IF entries[j].active THEN 1 ELSE 0]
      BY <1>1
    <3>. QED  BY <3>1
  <2>4. \A j \in 1..Len(entries) : j # i => entries[j].name # entries[i].name
    BY DEF Bindings
  <2>. QED  BY <2>1, <2>2, <2>3, <2>4, Zenon DEF EntryOk
<1>3. m.count <= MaxEntries
  BY <1>1 DEF Bindings
<1>. HIDE DEF m
<1>4. Deserialize(m) = [i \in 1..Len(entries) |->
                          [name |-> m.entries[i].name, active |-> m.entries[i].flag = 1]]
  BY <1>1, <1>2, <1>3, Zenon DEF Deserialize
<1>5. \A i \in 1..Len(entries) :
        entries[i] = [name |-> m.entries[i].name, active |-> m.entries[i].flag = 1]
  <2>1. ASSUME NEW i \in 1..Len(entries)
        PROVE  m.entries[i].name = entries[i].name /\ (m.entries[i].flag = 1) = entries[i].active
    <3>1. m.entries[i] = [name |-> entries[i].name, flag |-> IF entries[i].active THEN 1 ELSE 0]
      BY <1>1
    <3>2. entries[i].active \in BOOLEAN
      BY EntryAt DEF Bindings
    <3>3. CASE entries[i].active = TRUE
      <4>1. m.entries[i].flag = 1 /\ m.entries[i].name = entries[i].name
        BY <3>1, <3>3
      <4>. QED  BY <3>3, <4>1, Zenon
    <3>4. CASE entries[i].active = FALSE
      <4>1. m.entries[i].flag = 0 /\ m.entries[i].name = entries[i].name /\ 0 # 1
        BY <3>1, <3>4
      <4>. QED  BY <3>4, <4>1, Zenon
    <3>. QED  BY <3>2, <3>3, <3>4, Zenon
  <2>2. entries \in Seq(Entry)
    BY DEF Bindings
  <2>3. \A i \in 1..Len(entries) : entries[i] = [name |-> entries[i].name, active |-> entries[i].active]
    BY <2>2, EntryAt
  <2>. QED  BY <2>1, <2>3, Zenon
<1>6. entries = [i \in 1..Len(entries) |-> entries[i]]
  BY DEF Bindings
<1>. QED  BY <1>4, <1>5, <1>6 DEF m

LEMMA InitRegistry == Init => RegistryInv
<1>. SUFFICES ASSUME Init PROVE RegistryInv
  OBVIOUS
<1>1. Bindings
  BY NamesAssumption DEF Init, Bindings
<1>2. /\ saved.header = TRUE /\ saved.count = 0 /\ saved.entries = <<>>
      /\ saved = [header |-> TRUE, count |-> 0, entries |-> <<>>]
  BY DEF Init, Serialize
<1>3. Manifest
  BY <1>1, <1>2, NamesAssumption DEF Manifest, Bindings
<1>4. Promises
  BY <1>2 DEF Promises, Init
<1>5. Answer
  BY NamesAssumption DEF Answer, Init, Unknown
<1>. QED  BY <1>1, <1>3, <1>4, <1>5 DEF RegistryInv

LEMMA RegisterRegistry ==
  ASSUME RegistryInv, NEW name \in Names \cup {BadName}, RegisterContent(name)
  PROVE  RegistryInv'
<1>. USE DEF RegistryInv
<1>1. saved' = saved /\ promised' = promised
  BY DEF RegisterContent
<1>2. CASE name \notin Names
  <2>1. entries' = entries /\ byName' = byName /\ returned' = [name |-> name, id |-> Unknown]
    BY <1>2 DEF RegisterContent
  <2>. QED  BY <1>1, <1>2, <2>1, NamesAssumption
            DEF Bindings, Manifest, Promises, Answer, Unknown
<1>3. CASE name \in Names /\ name \in DOMAIN byName
  <2>. DEFINE k == byName[name]
  <2>1. /\ entries' = [entries EXCEPT ![k].active = TRUE]
        /\ byName' = byName /\ returned' = [name |-> name, id |-> k]
    BY <1>3 DEF RegisterContent
  <2>2. k \in 1..Len(entries) /\ entries[k].name = name
    BY <1>3 DEF Bindings
  <2>3. /\ entries' \in Seq(Entry) /\ Len(entries') = Len(entries)
        /\ \A i \in 1..Len(entries) : entries'[i].name = entries[i].name
    <3>1. entries \in Seq(Entry)
      BY DEF Bindings
    <3>. DEFINE e == [entries[k] EXCEPT !.active = TRUE]
    <3>2. entries[k] \in Entry
      BY <2>2, <3>1
    <3>3. e \in Entry /\ e.name = entries[k].name
      BY <3>2 DEF Entry
    <3>4. entries' = [entries EXCEPT ![k] = e]
      BY <2>1
    <3>. HIDE DEF e, k
    <3>. QED  BY <2>2, <3>1, <3>3, <3>4, SetEntry
  <2>4. Bindings'
    BY <2>1, <2>3 DEF Bindings
  <2>5. Manifest' /\ Promises'
    BY <1>1, <2>3 DEF Bindings, Manifest, Promises
  <2>6. Answer'
    BY <2>1, <2>2, <2>3, NamesAssumption DEF Answer, Bindings, Unknown
  <2>. QED  BY <2>4, <2>5, <2>6
<1>4. CASE name \in Names \ DOMAIN byName /\ Full
  <2>1. entries' = entries /\ byName' = byName /\ returned' = [name |-> name, id |-> Unknown]
    BY <1>4 DEF RegisterContent
  <2>2. Len(entries) = MaxEntries
    BY <1>4, NamesAssumption DEF Full, Bindings
  <2>. QED  BY <1>1, <2>1, <2>2, NamesAssumption
            DEF Bindings, Manifest, Promises, Answer, Unknown
<1>5. CASE name \in Names \ DOMAIN byName /\ ~Full
  <2>1. /\ entries' = Append(entries, [name |-> name, active |-> TRUE])
        /\ byName' = [n \in DOMAIN byName \cup {name} |->
                        IF n = name THEN Len(entries) + 1 ELSE byName[n]]
        /\ returned' = [name |-> name, id |-> Len(entries) + 1]
    BY <1>5 DEF RegisterContent
  <2>2. Len(entries) \in Nat /\ Len(entries) < MaxEntries
    BY <1>5, NamesAssumption DEF Full, Bindings
  <2>3. /\ entries' \in Seq(Entry) /\ Len(entries') = Len(entries) + 1
        /\ \A i \in 1..Len(entries) : entries'[i] = entries[i]
        /\ entries'[Len(entries) + 1].name = name
    BY <1>5, <2>1 DEF Bindings, Entry
  <2>4. Bindings'
    <3>1. Len(entries') <= MaxEntries
      BY <2>2, <2>3, NamesAssumption
    <3>2. \A i \in 1..Len(entries') : i \in 1..Len(entries) \/ i = Len(entries) + 1
      BY <2>2, <2>3
    <3>3. \A i \in 1..Len(entries) : i \in 1..Len(entries')
      BY <2>2, <2>3
    <3>4. \A i \in 1..Len(entries) : entries[i].name \in DOMAIN byName
      BY DEF Bindings
    <3>5. DOMAIN byName' = {entries'[i].name : i \in 1..Len(entries')}
      <4>1. DOMAIN byName' = DOMAIN byName \cup {name}
        BY <2>1
      <4>2. Len(entries) + 1 \in 1..Len(entries')
        BY <2>2, <2>3
      <4>. QED  BY <2>3, <3>2, <3>3, <4>1, <4>2 DEF Bindings
    <3>6. ASSUME NEW i \in 1..Len(entries') PROVE byName'[entries'[i].name] = i
      <4>1. CASE i \in 1..Len(entries)
        <5>1. entries'[i].name = entries[i].name /\ entries[i].name # name
          BY <1>5, <2>3, <3>4, <4>1
        <5>. QED  BY <2>1, <3>4, <4>1, <5>1 DEF Bindings
      <4>2. CASE i = Len(entries) + 1
        BY <2>1, <2>3, <4>2
      <4>. QED  BY <3>2, <4>1, <4>2
    <3>. QED  BY <2>3, <3>1, <3>5, <3>6 DEF Bindings
  <2>5. Manifest' /\ Promises'
    BY <1>1, <2>2, <2>3, NamesAssumption DEF Manifest, Promises
  <2>6. Answer'
    BY <1>5, <2>1, <2>2, <2>3, NamesAssumption DEF Answer, Unknown
  <2>. QED  BY <2>4, <2>5, <2>6
<1>. QED  BY <1>2, <1>3, <1>4, <1>5

LEMMA TombstoneRegistry ==
  ASSUME RegistryInv, NEW id \in 0..(MaxEntries + 1), Tombstone(id)
  PROVE  RegistryInv'
<1>. USE DEF RegistryInv
<1>1. /\ id \in 1..Len(entries)
      /\ entries' = [entries EXCEPT ![id].active = FALSE]
      /\ byName' = byName /\ saved' = saved /\ returned' = returned /\ promised' = promised
  BY NamesAssumption DEF Tombstone, ValidId, Unknown, Bindings
<1>2. /\ entries' \in Seq(Entry) /\ Len(entries') = Len(entries)
      /\ \A i \in 1..Len(entries) : entries'[i].name = entries[i].name
  <2>1. entries \in Seq(Entry)
    BY DEF Bindings
  <2>. DEFINE e == [entries[id] EXCEPT !.active = FALSE]
  <2>2. entries[id] \in Entry
    BY <1>1, <2>1
  <2>3. e \in Entry /\ e.name = entries[id].name
    BY <2>2 DEF Entry
  <2>4. entries' = [entries EXCEPT ![id] = e]
    BY <1>1
  <2>5. id \in 1..Len(entries)
    BY <1>1
  <2>. HIDE DEF e
  <2>. QED  BY <2>1, <2>3, <2>4, <2>5, SetEntry
<1>3. Bindings'
  BY <1>1, <1>2 DEF Bindings
<1>4. Manifest' /\ Promises'
  BY <1>1, <1>2 DEF Bindings, Manifest, Promises
<1>5. Answer'
  BY <1>1, <1>2, NamesAssumption DEF Answer, Unknown, Bindings
<1>. QED  BY <1>3, <1>4, <1>5

LEMMA SaveRegistry == RegistryInv /\ Save => RegistryInv'
<1>. SUFFICES ASSUME RegistryInv, Save PROVE RegistryInv'
  OBVIOUS
<1>. USE DEF RegistryInv
<1>1. /\ entries' = entries /\ byName' = byName /\ returned' = returned
      /\ saved' = Serialize(entries)
      /\ promised' = [i \in DOMAIN promised \cup DOMAIN entries |->
                        IF i \in DOMAIN entries THEN entries[i].name ELSE promised[i]]
  BY DEF Save
<1>2. /\ saved'.header = TRUE /\ saved'.count = Len(entries)
      /\ saved'.entries = [i \in 1..Len(entries) |->
                             [name |-> entries[i].name, flag |-> IF entries[i].active THEN 1 ELSE 0]]
      /\ saved' = [header |-> TRUE, count |-> saved'.count, entries |-> saved'.entries]
      /\ DOMAIN entries = 1..Len(entries) /\ Len(entries) \in 0..MaxEntries
  BY <1>1, NamesAssumption DEF Serialize, Bindings
<1>3. /\ saved'.entries \in Seq(SavedEntry) /\ Len(saved'.entries) = Len(entries)
      /\ \A i \in 1..Len(entries) : saved'.entries[i].name = entries[i].name
  <2>1. Serialize(entries).entries \in Seq(SavedEntry)
    BY SerializedEntries
  <2>. QED  BY <1>1, <1>2, <2>1, SerializedEntries
<1>4. Manifest'
  <2>1. \A i, j \in 1..Len(entries) : entries[i].name = entries[j].name => i = j
    BY DEF Bindings
  <2>2. saved' \in [header : {TRUE}, count : 0..MaxEntries, entries : Seq(SavedEntry)]
    BY <1>2, <1>3
  <2>. QED  BY <1>1, <1>2, <1>3, <2>1, <2>2 DEF Manifest
<1>5. Promises'
  <2>1. DOMAIN promised \subseteq 1..Len(entries)
    BY NamesAssumption DEF Promises, Manifest, Bindings
  <2>2. DOMAIN promised' = 1..Len(entries)
    BY <1>1, <1>2, <2>1
  <2>3. \A i \in 1..Len(entries) : promised'[i] = entries[i].name
    BY <1>1, <1>2
  <2>. QED  BY <1>2, <1>3, <2>2, <2>3 DEF Promises
<1>6. Bindings' /\ Answer'
  BY <1>1 DEF Bindings, Answer
<1>. QED  BY <1>4, <1>5, <1>6

LEMMA ReloadRegistry == RegistryInv /\ Reload => RegistryInv'
<1>. SUFFICES ASSUME RegistryInv, Reload PROVE RegistryInv'
  OBVIOUS
<1>. USE DEF RegistryInv
<1>1. /\ saved' = saved /\ promised' = promised
      /\ entries' = [i \in 1..saved.count |->
           [name |-> saved.entries[i].name, active |-> saved.entries[i].flag = 1]]
      /\ byName' = NameMap(entries')
      /\ returned' = [name |-> BadName, id |-> Unknown]
  BY Rebuilt DEF Reload
<1>2. saved.count \in 0..MaxEntries /\ saved.entries \in Seq(SavedEntry)
      /\ Len(saved.entries) = saved.count
  BY DEF Manifest
<1>3. /\ entries' \in Seq(Entry) /\ Len(entries') = saved.count
      /\ DOMAIN entries' = 1..saved.count
      /\ \A i \in 1..saved.count : entries'[i].name = saved.entries[i].name
  <2>1. \A i \in 1..saved.count : entries'[i] \in Entry
    <3>. SUFFICES ASSUME NEW i \in 1..saved.count PROVE entries'[i] \in Entry
      OBVIOUS
    <3>1. entries'[i] = [name |-> saved.entries[i].name, active |-> saved.entries[i].flag = 1]
      BY <1>1
    <3>2. saved.entries[i].name \in Names /\ (saved.entries[i].flag = 1) \in BOOLEAN
      BY <1>2, SavedEntryAt
    <3>. QED  BY <3>1, <3>2, MadeEntry, Zenon
  <2>2. entries' \in [1..saved.count -> Entry] /\ saved.count \in Nat
    <3>1. entries' = [i \in 1..saved.count |-> entries'[i]]
      BY <1>1, Zenon
    <3>. QED  BY <1>2, <2>1, <3>1, NamesAssumption
  <2>3. entries' \in Seq(Entry) /\ Len(entries') = saved.count
    BY <2>2
  <2>. QED  BY <1>1, <2>2, <2>3
<1>4. \A i, j \in 1..saved.count : entries'[i].name = entries'[j].name => i = j
  BY <1>3 DEF Manifest
<1>5. Bindings'
  <2>1. DOMAIN byName' = {entries'[i].name : i \in 1..Len(entries')}
    BY <1>1, <1>3 DEF NameMap
  <2>2. ASSUME NEW i \in 1..saved.count PROVE byName'[entries'[i].name] = i
    <3>1. byName'[entries'[i].name]
            = CHOOSE j \in 1..saved.count : entries'[j].name = entries'[i].name
      BY <1>1, <1>3 DEF NameMap
    <3>. QED  BY <1>4, <3>1
  <2>. QED  BY <1>2, <1>3, <2>1, <2>2, NamesAssumption DEF Bindings
<1>6. Manifest' /\ Promises'
  BY <1>1, <1>2, <1>3, NamesAssumption DEF Manifest, Promises
<1>7. Answer'
  BY <1>1, NamesAssumption DEF Answer, Unknown
<1>. QED  BY <1>5, <1>6, <1>7

(* registerContent, tombstone, serialize and deserialize preserve the      *)
(* registry's invariant.                                                   *)
THEOREM RegistryInvHolds == Spec => []RegistryInv
<1>1. RegistryInv /\ [Next]_vars => RegistryInv'
  <2>. SUFFICES ASSUME RegistryInv, [Next]_vars PROVE RegistryInv'
    OBVIOUS
  <2>1. ASSUME NEW name \in Names \cup {BadName}, RegisterContent(name) PROVE RegistryInv'
    BY <2>1, RegisterRegistry
  <2>2. ASSUME NEW id \in 0..(MaxEntries + 1), Tombstone(id) PROVE RegistryInv'
    BY <2>2, TombstoneRegistry
  <2>3. CASE Save
    BY <2>3, SaveRegistry
  <2>4. CASE Reload
    BY <2>4, ReloadRegistry
  <2>5. CASE UNCHANGED vars
    BY <2>5 DEF vars, RegistryInv, Bindings, Manifest, Promises, Answer
  <2>. QED  BY <2>1, <2>2, <2>3, <2>4, <2>5 DEF Next
<1>. QED  BY InitRegistry, <1>1, PTL DEF Spec

(* The registry stays within its capacity and byName names only its ids.   *)
THEOREM RegistryTypeCorrect == Spec => []TypeOK
<1>1. RegistryInv => TypeOK
  <2>. SUFFICES ASSUME Bindings PROVE TypeOK
    BY DEF RegistryInv
  <2>1. \A i \in 1..Len(entries) : entries[i].name \in Names
    BY EntryAt DEF Bindings
  <2>. QED  BY <2>1 DEF Bindings, TypeOK
<1>. QED  BY RegistryInvHolds, <1>1, PTL

(* registerContent and deserialize keep ids and names in one-to-one        *)
(* correspondence, and registerContent answers for the name it was given.  *)
THEOREM BindingsAlwaysAgree == Spec => []BindingsAgree
<1>1. RegistryInv => BindingsAgree
  BY NamesAssumption DEF RegistryInv, Bindings, Answer, BindingsAgree, IdOf, ValidId, Unknown
<1>. QED  BY RegistryInvHolds, <1>1, PTL

(* An id that some saved manifest has bound keeps its name for ever,       *)
(* through tombstones, revivals, further saves and restarts.               *)
THEOREM BindingsArePermanent == Spec => []SavedBindingsPermanent
<1>1. RegistryInv => SavedBindingsPermanent
  BY NamesAssumption DEF RegistryInv, Bindings, Manifest, Promises, SavedBindingsPermanent
<1>. QED  BY RegistryInvHolds, <1>1, PTL

(* deserialize rebuilds what serialize wrote, and refuses every manifest   *)
(* with one damaged field.                                                 *)
THEOREM ManifestIsFaithful == Spec => []ManifestFaithful
<1>1. ASSUME RegistryInv, NEW d \in Damaged(saved) PROVE Deserialize(d) = NoRegistry
  <2>. DEFINE n == saved.count
              E == saved.entries
  <2>1. /\ n \in Nat /\ E \in Seq(SavedEntry) /\ Len(E) = n /\ DOMAIN E = 1..n
        /\ saved = [header |-> TRUE, count |-> n, entries |-> E]
    BY <1>1, NamesAssumption DEF RegistryInv, Manifest
  <2>. SUFFICES \/ d.header = FALSE \/ Len(d.entries) # d.count
                \/ \E i \in 1..d.count : ~EntryOk(d, i)
    BY DEF Deserialize
  <2>2. CASE d = [saved EXCEPT !.header = FALSE]
    BY <2>1, <2>2
  <2>3. CASE d = [saved EXCEPT !.count = @ + 1] \/ d = [saved EXCEPT !.count = @ - 1]
    BY <2>1, <2>3
  <2>4. CASE d = [saved EXCEPT !.entries = Append(@, [name |-> BadName, flag |-> 0])]
    <3>1. d.count = n /\ Len(d.entries) = n + 1
      BY <2>1, <2>4
    <3>. QED  BY <2>1, <3>1
  <2>5. ASSUME NEW i \in DOMAIN E,
               \/ d = [saved EXCEPT !.entries[i].flag = 2]
               \/ d = [saved EXCEPT !.entries[i].name = BadName]
        PROVE  d.count = n /\ i \in 1..n /\ ~EntryOk(d, i)
    <3>1. d.count = n /\ i \in 1..n
      BY <2>1, <2>5
    <3>2. d.entries[i].flag = 2 \/ d.entries[i].name = BadName
      <4>1. E[i] = [name |-> E[i].name, flag |-> E[i].flag]
        BY <2>1, SavedEntryAt
      <4>. QED  BY <2>1, <2>5, <4>1
    <3>. QED  BY <3>1, <3>2, NamesAssumption DEF EntryOk
  <2>6. ASSUME NEW i \in DOMAIN E, NEW j \in DOMAIN E, i # j,
               d = [saved EXCEPT !.entries[i].name = E[j].name]
        PROVE  d.count = n /\ \E k \in 1..n : ~EntryOk(d, k)
    <3>1. d.count = n /\ i \in 1..n /\ j \in 1..n
      BY <2>1, <2>6
    <3>2. d.entries[i].name = E[j].name /\ d.entries[j].name = E[j].name
      <4>1. E[i] = [name |-> E[i].name, flag |-> E[i].flag]
        BY <2>1, SavedEntryAt
      <4>. QED  BY <2>1, <2>6, <4>1
    <3>3. CASE i < j
      <4>1. i \in 1..(j - 1)
        BY <3>1, <3>3, <2>1
      <4>. QED  BY <3>1, <3>2, <4>1 DEF EntryOk
    <3>4. CASE j < i
      <4>1. j \in 1..(i - 1)
        BY <3>1, <3>4, <2>1
      <4>. QED  BY <3>1, <3>2, <4>1 DEF EntryOk
    <3>5. i < j \/ j < i
      BY <2>1, <2>6, <3>1
    <3>. QED  BY <3>1, <3>3, <3>4, <3>5
  <2>. QED  BY <2>2, <2>3, <2>4, <2>5, <2>6 DEF Damaged
<1>2. RegistryInv => ManifestFaithful
  BY <1>1, RoundTrip DEF RegistryInv, ManifestFaithful
<1>. QED  BY RegistryInvHolds, <1>2, PTL

-----------------------------------------------------------------------------
(* The entity slots and the UUID index.                                    *)

(* A slot's generation is the number of its releases, modulo the width of  *)
(* the counter.                                                            *)
Slots ==
  /\ nextIndex \in 0..InvalidIndex
  /\ DOMAIN generation = 0..(nextIndex - 1)
  /\ live \in [0..(nextIndex - 1) -> BOOLEAN]
  /\ epoch \in [0..(nextIndex - 1) -> Nat]
  /\ \A i \in 0..(nextIndex - 1) : generation[i] = epoch[i] % GenMod

(* The free list holds exactly the dead slots, each once: no slot can be   *)
(* given out to two owners, and none is lost.                              *)
FreeListExact ==
  /\ free \in Seq(0..(nextIndex - 1))
  /\ \A m \in 1..Len(free) : live[free[m]] = FALSE
  /\ \A m, n \in 1..Len(free) : free[m] = free[n] => m = n
  /\ \A i \in 0..(nextIndex - 1) : live[i] = FALSE => \E m \in 1..Len(free) : free[m] = i

Issued ==
  \A r \in issued :
    /\ r = [handle |-> <<r.handle[1], r.handle[2]>>, epoch |-> r.epoch]
    /\ r.handle[1] \in 0..(nextIndex - 1)
    /\ r.epoch \in 0..epoch[r.handle[1]]
    /\ r.handle[2] = r.epoch % GenMod

(* The two maps are inverse, and bind was called with an issued handle.    *)
IndexInverse ==
  /\ DOMAIN byUuid \subseteq Uuids /\ DOMAIN meant = DOMAIN byUuid
  /\ \A u \in DOMAIN byUuid :
       /\ meant[u] \in issued /\ meant[u].handle = byUuid[u]
       /\ byUuid[u] \in DOMAIN byHandle /\ byHandle[byUuid[u]] = u
  /\ \A h \in DOMAIN byHandle :
       byHandle[h] \in DOMAIN byUuid /\ byUuid[byHandle[h]] = h

EntityInv == Slots /\ FreeListExact /\ Issued /\ IndexInverse

(* A list of which the last element is taken away, or that gets another. *)
LEMMA Shortened ==
  ASSUME NEW S, NEW q \in Seq(S), q # <<>>
  PROVE  /\ Len(q) \in Nat /\ Len(q) >= 1 /\ q[Len(q)] \in S
         /\ SubSeq(q, 1, Len(q) - 1) \in Seq(S)
         /\ Len(SubSeq(q, 1, Len(q) - 1)) = Len(q) - 1
         /\ \A m \in 1..(Len(q) - 1) : SubSeq(q, 1, Len(q) - 1)[m] = q[m]
<1>1. Len(q) \in Nat /\ Len(q) >= 1
  OBVIOUS
<1>2. q[Len(q)] \in S
  BY <1>1
<1>3. Len(q) - 1 \in Nat /\ Len(q) - 1 <= Len(q)
  BY <1>1
<1>4. ASSUME NEW n \in Nat, n <= Len(q)
      PROVE  /\ SubSeq(q, 1, n) \in Seq(S) /\ Len(SubSeq(q, 1, n)) = n
             /\ \A m \in 1..n : SubSeq(q, 1, n)[m] = q[m]
  BY <1>4
<1>. QED  BY <1>1, <1>2, <1>3, <1>4

LEMMA Lengthened ==
  ASSUME NEW S, NEW q \in Seq(S), NEW x \in S
  PROVE  /\ Len(q) \in Nat /\ \A m \in 1..Len(q) : q[m] \in S
         /\ Append(q, x) \in Seq(S) /\ Len(Append(q, x)) = Len(q) + 1
         /\ \A m \in 1..Len(q) : Append(q, x)[m] = q[m]
         /\ Append(q, x)[Len(q) + 1] = x
OBVIOUS

(* The remainder operator of the generation counter.                       *)
LEMMA Division ==
  ASSUME NEW m \in Nat \ {0}, NEW a \in Nat
  PROVE  /\ a \div m \in Nat /\ a % m \in Nat /\ a % m \in 0..(m - 1)
         /\ a = m * (a \div m) + (a % m)
OBVIOUS

(* Equal remainders: the numbers are equal or a whole modulus apart.       *)
LEMMA EqualRemainders ==
  ASSUME NEW m \in Nat \ {0}, NEW a \in Nat, NEW b \in Nat, a <= b, a % m = b % m
  PROVE  a = b \/ b - a >= m
<1>. DEFINE q == a \div m
            p == b \div m
            r == a % m
<1>1. q \in Nat /\ p \in Nat /\ r \in Nat
  <2>1. q \in Nat /\ r \in Nat
    BY Division
  <2>2. p \in Nat
    BY Division
  <2>. QED  BY <2>1, <2>2
<1>2. a = m * q + r
  BY Division
<1>3. b = m * p + r
  <2>1. b = m * p + (b % m)
    BY Division
  <2>. QED  BY <2>1
<1>. HIDE DEF q, p, r
<1>. SUFFICES p = q \/ b - a >= m
  BY <1>1, <1>2, <1>3
<1>4. CASE p >= q + 1
  <2>1. m * p >= m * (q + 1) /\ m * (q + 1) = m * q + m /\ m * p \in Int /\ m * q \in Int
    BY <1>1, <1>4
  <2>. QED  BY <1>1, <1>2, <1>3, <2>1
<1>5. CASE q >= p + 1
  <2>1. m * q >= m * (p + 1) /\ m * (p + 1) = m * p + m /\ m * p \in Int /\ m * q \in Int
    BY <1>1, <1>5
  <2>. QED  BY <1>1, <1>2, <1>3, <2>1
<1>. QED  BY <1>1, <1>4, <1>5

(* Releasing a slot counts its generation on. *)
LEMMA NextRemainder ==
  ASSUME NEW m \in Nat \ {0}, NEW a \in Nat
  PROVE  ((a % m) + 1) % m = (a + 1) % m
<1>. DEFINE q == a \div m
            r == a % m
<1>1. q \in Nat /\ r \in 0..(m - 1) /\ a = m * q + r
  OBVIOUS
<1>. HIDE DEF q, r
<1>2. CASE r + 1 < m
  <2>1. (a + 1) % m = r + 1
    BY <1>1, <1>2
  <2>2. (r + 1) % m = r + 1
    BY <1>1, <1>2
  <2>. QED  BY <2>1, <2>2 DEF r
<1>3. CASE r + 1 = m
  <2>1. (a + 1) % m = 0
    BY <1>1, <1>3
  <2>2. (r + 1) % m = 0
    BY <1>1, <1>3
  <2>. QED  BY <2>1, <2>2 DEF r
<1>. QED  BY <1>1, <1>2, <1>3

LEMMA InitEntity == EntityInit => EntityInv
<1>. SUFFICES ASSUME EntityInit PROVE EntityInv
  OBVIOUS
<1>. USE EntityAssumption DEF EntityInit
<1>1. Slots
  BY DEF Slots
<1>2. FreeListExact
  BY DEF FreeListExact
<1>3. Issued
  BY DEF Issued
<1>4. IndexInverse
  BY DEF IndexInverse
<1>. QED  BY <1>1, <1>2, <1>3, <1>4 DEF EntityInv

LEMMA ReuseEntity == EntityInv /\ AllocateReused => EntityInv'
<1>. SUFFICES ASSUME EntityInv, AllocateReused PROVE EntityInv'
  OBVIOUS
<1>. DEFINE n == Len(free)
            k == free[Len(free)]
            new == [handle |-> <<k, generation[k]>>, epoch |-> epoch[k]]
<1>. USE EntityAssumption DEF EntityInv
<1>1. /\ live' = [live EXCEPT ![k] = TRUE] /\ issued' = issued \cup {new}
      /\ free' = SubSeq(free, 1, n - 1)
      /\ nextIndex' = nextIndex /\ generation' = generation /\ epoch' = epoch
      /\ byUuid' = byUuid /\ byHandle' = byHandle /\ meant' = meant
  BY DEF AllocateReused, Issue, index
<1>2. n \in Nat /\ n >= 1 /\ k \in 0..(nextIndex - 1) /\ nextIndex \in Nat
  <2>1. free \in Seq(0..(nextIndex - 1)) /\ free # <<>> /\ nextIndex \in Nat
    BY DEF AllocateReused, FreeListExact, Slots
  <2>. QED  BY <2>1, Shortened
<1>3. Slots'
  BY <1>1, <1>2 DEF Slots
<1>4. FreeListExact'
  <2>1. /\ free' \in Seq(0..(nextIndex - 1)) /\ Len(free') = n - 1
        /\ \A m \in 1..(n - 1) : free'[m] = free[m] /\ m \in 1..n
    <3>1. free \in Seq(0..(nextIndex - 1)) /\ free # <<>>
      BY DEF AllocateReused, FreeListExact
    <3>2. /\ SubSeq(free, 1, n - 1) \in Seq(0..(nextIndex - 1))
          /\ Len(SubSeq(free, 1, n - 1)) = n - 1
          /\ \A m \in 1..(n - 1) : SubSeq(free, 1, n - 1)[m] = free[m]
      BY <3>1, Shortened
    <3>. HIDE DEF n, k
    <3>3. \A m \in 1..(n - 1) : m \in 1..n
      BY <1>2
    <3>. QED  BY <1>1, <3>2, <3>3, Zenon
  <2>2. \A m \in 1..(n - 1) : free[m] # k
    BY <1>2 DEF FreeListExact
  <2>3. \A i \in 0..(nextIndex - 1) : live'[i] = IF i = k THEN TRUE ELSE live[i]
    BY <1>1, <1>2 DEF Slots
  <2>4. \A m \in 1..(n - 1) : live'[free'[m]] = FALSE
    <3>. DEFINE S == 0..(nextIndex - 1)
    <3>a. free \in Seq(S)
      BY DEF FreeListExact
    <3>. HIDE DEF S
    <3>b. \A m \in 1..n : free[m] \in S
      BY <3>a
    <3>1. \A m \in 1..n : free[m] \in 0..(nextIndex - 1)
      BY <3>b, Zenon DEF S
    <3>2. \A m \in 1..n : live[free[m]] = FALSE
      BY Zenon DEF FreeListExact
    <3>. HIDE DEF n, k
    <3>. QED  BY <2>1, <2>2, <2>3, <3>1, <3>2
  <2>5. ASSUME NEW i \in 0..(nextIndex - 1), live'[i] = FALSE
        PROVE  \E m \in 1..(n - 1) : free'[m] = i
    <3>1. i # k /\ live[i] = FALSE
      BY <2>3, <2>5
    <3>2. PICK m \in 1..n : free[m] = i
      BY <3>1 DEF FreeListExact
    <3>3. m \in 1..(n - 1)
      BY <1>2, <3>1, <3>2
    <3>. QED  BY <2>1, <3>2, <3>3
  <2>6. \A m, j \in 1..(n - 1) : free'[m] = free'[j] => m = j
    BY <2>1 DEF FreeListExact
  <2>. HIDE DEF n, k
  <2>. QED  BY <1>1, <2>1, <2>4, <2>5, <2>6 DEF FreeListExact
<1>5. Issued'
  <2>1. /\ new = [handle |-> <<new.handle[1], new.handle[2]>>, epoch |-> new.epoch]
        /\ new.handle[1] = k /\ new.handle[2] = generation[k] /\ new.epoch = epoch[k]
    OBVIOUS
  <2>2. epoch[k] \in Nat /\ generation[k] = epoch[k] % GenMod
    BY <1>2 DEF Slots
  <2>. HIDE DEF new, k
  <2>. QED  BY <1>1, <1>2, <2>1, <2>2 DEF Issued
<1>6. IndexInverse'
  BY <1>1 DEF IndexInverse
<1>. QED  BY <1>3, <1>4, <1>5, <1>6

LEMMA FreshEntity == EntityInv /\ AllocateFresh => EntityInv'
<1>. SUFFICES ASSUME EntityInv, AllocateFresh PROVE EntityInv'
  OBVIOUS
<1>. DEFINE new == [handle |-> <<nextIndex, 0>>, epoch |-> 0]
<1>. USE EntityAssumption DEF EntityInv
<1>1. /\ free = <<>> /\ nextIndex # InvalidIndex /\ nextIndex' = nextIndex + 1
      /\ generation' = Extend(generation, nextIndex, 0)
      /\ live' = Extend(live, nextIndex, TRUE) /\ epoch' = Extend(epoch, nextIndex, 0)
      /\ issued' = issued \cup {new} /\ free' = free
      /\ byUuid' = byUuid /\ byHandle' = byHandle /\ meant' = meant
  BY DEF AllocateFresh, Issue, index
<1>2. nextIndex \in Nat /\ nextIndex < InvalidIndex
  BY <1>1 DEF Slots
<1>3. /\ (0..(nextIndex - 1)) \cup {nextIndex} = 0..(nextIndex' - 1)
      /\ \A i \in 0..(nextIndex' - 1) : i # nextIndex => i \in 0..(nextIndex - 1)
  BY <1>1, <1>2
<1>4. /\ DOMAIN generation' = 0..(nextIndex' - 1)
      /\ live' \in [0..(nextIndex' - 1) -> BOOLEAN] /\ epoch' \in [0..(nextIndex' - 1) -> Nat]
      /\ \A i \in 0..(nextIndex - 1) : /\ generation'[i] = generation[i]
                                       /\ epoch'[i] = epoch[i] /\ live'[i] = live[i]
      /\ generation'[nextIndex] = 0 /\ epoch'[nextIndex] = 0 /\ live'[nextIndex] = TRUE
  <2>1. DOMAIN generation' = 0..(nextIndex' - 1)
    BY <1>1, <1>3 DEF Slots, Extend
  <2>2. epoch' \in [0..(nextIndex' - 1) -> Nat]
    BY <1>1, <1>3 DEF Slots, Extend
  <2>3. live' \in [0..(nextIndex' - 1) -> BOOLEAN]
    BY <1>1, <1>3 DEF Slots, Extend
  <2>4. \A i \in 0..(nextIndex - 1) : i # nextIndex
    BY <1>2
  <2>. QED  BY <1>1, <2>1, <2>2, <2>3, <2>4 DEF Slots, Extend
<1>5. Slots'
  <2>1. 0 % GenMod = 0
    OBVIOUS
  <2>2. \A i \in 0..(nextIndex' - 1) : generation'[i] = epoch'[i] % GenMod
    BY <1>3, <1>4, <2>1 DEF Slots
  <2>. QED  BY <1>1, <1>2, <1>4, <2>2 DEF Slots
<1>6. FreeListExact'
  <2>1. \A i \in 0..(nextIndex - 1) : live[i] = TRUE
    BY <1>1 DEF FreeListExact, Slots
  <2>2. \A i \in 0..(nextIndex' - 1) : live'[i] = TRUE
    BY <1>3, <1>4, <2>1
  <2>3. free' = <<>>
    BY <1>1
  <2>. QED  BY <2>2, <2>3 DEF FreeListExact
<1>7. Issued'
  <2>1. /\ new = [handle |-> <<new.handle[1], new.handle[2]>>, epoch |-> new.epoch]
        /\ new.handle[1] = nextIndex /\ new.handle[2] = 0 /\ new.epoch = 0 /\ 0 % GenMod = 0
    OBVIOUS
  <2>2. nextIndex \in 0..(nextIndex' - 1) /\ 0 \in 0..epoch'[nextIndex]
    BY <1>1, <1>2, <1>4
  <2>. HIDE DEF new
  <2>3. \A i \in 0..(nextIndex - 1) : i \in 0..(nextIndex' - 1)
    BY <1>1, <1>2
  <2>4. ASSUME NEW r \in issued
        PROVE  /\ r = [handle |-> <<r.handle[1], r.handle[2]>>, epoch |-> r.epoch]
               /\ r.handle[1] \in 0..(nextIndex' - 1) /\ r.epoch \in 0..epoch'[r.handle[1]]
               /\ r.handle[2] = r.epoch % GenMod
    BY <1>4, <2>3 DEF Issued
  <2>5. \A r \in issued' : r \in issued \/ r = new
    BY <1>1
  <2>. QED  BY <2>1, <2>2, <2>4, <2>5, Zenon DEF Issued
<1>8. IndexInverse'
  BY <1>1 DEF IndexInverse
<1>. QED  BY <1>5, <1>6, <1>7, <1>8

LEMMA ReleaseEntity ==
  ASSUME EntityInv, NEW h, Release(h)
  PROVE  EntityInv'
<1>. DEFINE k == h[1]
<1>. USE EntityAssumption DEF EntityInv
<1>1. /\ live' = [live EXCEPT ![k] = FALSE]
      /\ generation' = [generation EXCEPT ![k] = NextGeneration(generation[k])]
      /\ free' = Append(free, k) /\ epoch' = [epoch EXCEPT ![k] = epoch[k] + 1]
      /\ nextIndex' = nextIndex /\ issued' = issued
      /\ byUuid' = byUuid /\ byHandle' = byHandle /\ meant' = meant
      /\ k \in DOMAIN generation /\ live[k]
  BY DEF Release, IsLive, index
<1>2. /\ nextIndex \in Nat /\ k \in 0..(nextIndex - 1) /\ epoch[k] \in Nat
      /\ live[k] = TRUE
  BY <1>1 DEF Slots
<1>. HIDE DEF k
<1>3. /\ \A i \in 0..(nextIndex - 1) :
           i # k => generation'[i] = generation[i] /\ epoch'[i] = epoch[i] /\ live'[i] = live[i]
      /\ generation'[k] = NextGeneration(generation[k]) /\ epoch'[k] = epoch[k] + 1
      /\ live'[k] = FALSE /\ DOMAIN generation' = 0..(nextIndex - 1)
      /\ epoch' \in [0..(nextIndex - 1) -> Nat] /\ live' \in [0..(nextIndex - 1) -> BOOLEAN]
  BY <1>1, <1>2 DEF Slots
<1>4. Slots'
  <2>1. generation'[k] = epoch'[k] % GenMod
    <3>1. generation[k] = epoch[k] % GenMod
      BY <1>2 DEF Slots
    <3>. QED  BY <1>2, <1>3, <3>1, NextRemainder DEF NextGeneration
  <2>. QED  BY <1>1, <1>3, <2>1 DEF Slots
<1>5. FreeListExact'
  <2>. DEFINE n == Len(free)
  <2>1. /\ n \in Nat /\ free' \in Seq(0..(nextIndex - 1)) /\ Len(free') = n + 1
        /\ \A m \in 1..n : free'[m] = free[m] /\ free[m] # k /\ free[m] \in 0..(nextIndex - 1)
        /\ free'[n + 1] = k
    <3>1. free \in Seq(0..(nextIndex - 1)) /\ \A m \in 1..n : live[free[m]] = FALSE
      BY DEF FreeListExact
    <3>2. /\ n \in Nat /\ \A m \in 1..n : free[m] \in 0..(nextIndex - 1)
          /\ Append(free, k) \in Seq(0..(nextIndex - 1)) /\ Len(Append(free, k)) = n + 1
          /\ \A m \in 1..n : Append(free, k)[m] = free[m]
          /\ Append(free, k)[n + 1] = k
      BY <1>2, <3>1, Lengthened
    <3>3. \A m \in 1..n : free[m] # k
      BY <1>2, <3>1
    <3>4. free' = Append(free, k)
      BY <1>1
    <3>. HIDE DEF n
    <3>. QED  BY <3>2, <3>3, <3>4, Zenon
  <2>2. \A m \in 1..(n + 1) : m \in 1..n \/ m = n + 1
    BY <2>1
  <2>3. \A m \in 1..n : m \in 1..(n + 1)
    BY <2>1
  <2>3a. n + 1 \in 1..(n + 1)
    BY <2>1
  <2>4. \A m \in 1..(n + 1) : live'[free'[m]] = FALSE
    <3>1. \A m \in 1..n : live[free[m]] = FALSE
      BY DEF FreeListExact
    <3>. HIDE DEF n
    <3>. QED  BY <1>3, <2>1, <2>2, <3>1
  <2>5. \A m, j \in 1..(n + 1) : free'[m] = free'[j] => m = j
    BY <2>1, <2>2 DEF FreeListExact
  <2>6. \A i \in 0..(nextIndex - 1) : live'[i] = FALSE => \E m \in 1..(n + 1) : free'[m] = i
    <3>. TAKE i \in 0..(nextIndex - 1)
    <3>. HAVE live'[i] = FALSE
    <3>1. CASE i = k
      BY <2>1, <2>3a, <3>1
    <3>2. CASE i # k
      <4>1. live[i] = FALSE
        BY <1>3, <3>2
      <4>2. PICK m \in 1..n : free[m] = i
        BY <4>1 DEF FreeListExact
      <4>. HIDE DEF n
      <4>. QED  BY <2>1, <2>3, <4>2, Zenon
    <3>. QED  BY <3>1, <3>2
  <2>. HIDE DEF n
  <2>. QED  BY <1>1, <2>1, <2>4, <2>5, <2>6 DEF FreeListExact
<1>6. Issued'
  <2>1. \A i \in 0..(nextIndex - 1) : \A e \in 0..epoch[i] : e \in 0..epoch'[i]
    BY <1>2, <1>3 DEF Slots
  <2>. QED  BY <1>1, <2>1 DEF Issued
<1>7. IndexInverse'
  BY <1>1 DEF IndexInverse
<1>. QED  BY <1>4, <1>5, <1>6, <1>7

LEMMA BindEntity ==
  ASSUME EntityInv, NEW u \in Uuids, NEW r \in issued, Bind(u, r)
  PROVE  EntityInv'
<1>1. /\ u \notin DOMAIN byUuid /\ r.handle \notin DOMAIN byHandle
      /\ byUuid' = Extend(byUuid, u, r.handle) /\ byHandle' = Extend(byHandle, r.handle, u)
      /\ meant' = Extend(meant, u, r)
      /\ nextIndex' = nextIndex /\ generation' = generation /\ live' = live /\ free' = free
      /\ epoch' = epoch /\ issued' = issued
  BY DEF Bind, Bindable, alloc
<1>2. Slots' /\ FreeListExact' /\ Issued'
  BY <1>1 DEF EntityInv, Slots, FreeListExact, Issued
<1>3. IndexInverse'
  BY <1>1 DEF EntityInv, IndexInverse, Extend
<1>. QED  BY <1>2, <1>3 DEF EntityInv

LEMMA UnbindEntity ==
  ASSUME EntityInv, NEW h, Unbind(h)
  PROVE  EntityInv'
<1>1. /\ h \in DOMAIN byHandle
      /\ byUuid' = Drop(byUuid, byHandle[h]) /\ byHandle' = Drop(byHandle, h)
      /\ meant' = Drop(meant, byHandle[h])
      /\ nextIndex' = nextIndex /\ generation' = generation /\ live' = live /\ free' = free
      /\ epoch' = epoch /\ issued' = issued
  BY DEF Unbind, alloc
<1>2. Slots' /\ FreeListExact' /\ Issued'
  BY <1>1 DEF EntityInv, Slots, FreeListExact, Issued
<1>3. IndexInverse'
  BY <1>1 DEF EntityInv, IndexInverse, Drop
<1>. QED  BY <1>2, <1>3 DEF EntityInv

(* The invariant of the slot allocator and the index holds throughout.     *)
THEOREM EntityInvHolds == EntitySpec => []EntityInv
<1>1. EntityInv /\ [EntityNext]_entityVars => EntityInv'
  <2>. SUFFICES ASSUME EntityInv, [EntityNext]_entityVars PROVE EntityInv'
    OBVIOUS
  <2>1. CASE AllocateReused
    BY <2>1, ReuseEntity
  <2>2. CASE AllocateFresh
    BY <2>2, FreshEntity
  <2>3. ASSUME NEW h \in Held, Release(h) \/ Unbind(h) PROVE EntityInv'
    BY <2>3, ReleaseEntity, UnbindEntity
  <2>4. ASSUME NEW u \in Uuids, NEW r \in issued, Bind(u, r) PROVE EntityInv'
    BY <2>4, BindEntity
  <2>5. CASE UNCHANGED entityVars
    BY <2>5 DEF entityVars, EntityInv, Slots, FreeListExact, Issued, IndexInverse
  <2>. QED  BY <2>1, <2>2, <2>3, <2>4, <2>5 DEF EntityNext
<1>. QED  BY InitEntity, <1>1, PTL DEF EntitySpec

(* The allocator's free list is exact: allocate never hands a slot that is *)
(* in use to a second owner, and a released slot is never lost.            *)
THEOREM NoSlotSharedOrLost == EntitySpec => [](EntityTypeOK /\ FreeListExact)
<1>1. EntityInv => EntityTypeOK /\ FreeListExact
  <2>. SUFFICES ASSUME EntityInv PROVE EntityTypeOK
    BY DEF EntityInv
  <2>1. \A i \in DOMAIN generation : generation[i] \in 0..(GenMod - 1)
    <3>. SUFFICES ASSUME NEW i \in DOMAIN generation PROVE generation[i] \in 0..(GenMod - 1)
      OBVIOUS
    <3>1. epoch[i] \in Nat /\ generation[i] = epoch[i] % GenMod
      BY DEF EntityInv, Slots
    <3>2. epoch[i] % GenMod \in 0..(GenMod - 1)
      BY <3>1, EntityAssumption, Division
    <3>. QED  BY <3>1, <3>2
  <2>. QED  BY <2>1 DEF EntityInv, Slots, IndexInverse, EntityTypeOK
<1>. QED  BY EntityInvHolds, <1>1, PTL

(* A stale handle is refused by isLive until its slot's generation has     *)
(* gone through a whole cycle of the counter, whatever the counter's width.*)
THEOREM StaleHandlesDie == EntitySpec => []StaleOnlyAfterWrap
<1>1. ASSUME EntityInv, NEW r \in issued, IsLive(r.handle)
      PROVE  epoch[r.handle[1]] = r.epoch \/ epoch[r.handle[1]] - r.epoch >= GenMod
  <2>. DEFINE e == epoch[r.handle[1]]
  <2>1. /\ r.epoch \in Nat /\ e \in Nat /\ r.epoch <= e
        /\ r.epoch % GenMod = e % GenMod
    BY <1>1, EntityAssumption DEF EntityInv, Slots, Issued, IsLive
  <2>. HIDE DEF e
  <2>2. r.epoch = e \/ e - r.epoch >= GenMod
    BY <2>1, EntityAssumption, EqualRemainders
  <2>. QED  BY <2>2 DEF e
<1>2. EntityInv => StaleOnlyAfterWrap
  BY <1>1 DEF StaleOnlyAfterWrap
<1>. QED  BY EntityInvHolds, <1>2, PTL

(* resolve and uuidOf never answer for another life of a slot than the one *)
(* that was bound, even if the entity died without being unbound.          *)
THEOREM AnswersAreFresh == EntitySpec => []NeverStaleAnswer
<1>1. ASSUME EntityInv, NEW u \in Uuids, Resolve(u) # kInvalidHandle,
             epoch[Resolve(u)[1]] < GenMod
      PROVE  meant[u] = [handle |-> Resolve(u), epoch |-> epoch[Resolve(u)[1]]]
  <2>. DEFINE h == byUuid[u]
              r == meant[u]
  <2>1. Resolve(u) = h /\ u \in DOMAIN byUuid /\ IsLive(h)
    BY <1>1 DEF Resolve
  <2>2. r \in issued /\ r.handle = h
    BY <1>1, <2>1 DEF EntityInv, IndexInverse
  <2>3. r.epoch = epoch[h[1]]
    <3>1. /\ r.epoch \in Nat /\ epoch[h[1]] \in Nat /\ r.epoch <= epoch[h[1]]
          /\ r.epoch % GenMod = epoch[h[1]] % GenMod
      BY <1>1, <2>1, <2>2, EntityAssumption DEF EntityInv, Slots, Issued, IsLive
    <3>2. epoch[h[1]] < GenMod
      BY <1>1, <2>1
    <3>3. r.epoch = epoch[h[1]] \/ epoch[h[1]] - r.epoch >= GenMod
      BY <3>1, EntityAssumption, EqualRemainders
    <3>. QED  BY <3>1, <3>2, <3>3, EntityAssumption
  <2>4. r = [handle |-> r.handle, epoch |-> r.epoch]
    BY <1>1, <2>2 DEF EntityInv, Issued
  <2>. QED  BY <2>1, <2>2, <2>3, <2>4
<1>2. ASSUME EntityInv, NEW u \in Uuids, NEW h \in Held, HandleValid(h)
      PROVE  Resolve(u) = h <=> u \in UuidOf(h)
  <2>1. h # kInvalidHandle
    BY <1>2 DEF HandleValid, kInvalidHandle
  <2>2. Resolve(u) = h <=> u \in DOMAIN byUuid /\ IsLive(h) /\ byUuid[u] = h
    BY <2>1 DEF Resolve
  <2>3. u \in UuidOf(h) <=> IsLive(h) /\ h \in DOMAIN byHandle /\ byHandle[h] = u
    BY DEF UuidOf
  <2>. QED  BY <1>2, <2>2, <2>3 DEF EntityInv, IndexInverse
<1>3. EntityInv => NeverStaleAnswer
  BY <1>1, <1>2 DEF NeverStaleAnswer
<1>. QED  BY EntityInvHolds, <1>3, PTL
=============================================================================
