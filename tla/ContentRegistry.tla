-------------------------- MODULE ContentRegistry ---------------------------
(***************************************************************************)
(* The content registry of src/world/registry.hpp: dense ids from 1 bound  *)
(* for ever to names, with tombstones, and the manifest it is saved to and *)
(* rebuilt from.  A manifest is its parsed layout: whether the header      *)
(* (magic, version, length) is right, the count field, and the entries     *)
(* that really follow.  What the process registered after the last save is *)
(* lost when it stops.                                                     *)
(***************************************************************************)
EXTENDS Integers, Sequences

CONSTANTS
  Names,        \* names isValidContentName accepts
  BadName,      \* one that it rejects
  MaxEntries,   \* kRegistryMaxEntries
  NoRegistry    \* deserialize's nullopt

ASSUME NamesAssumption == BadName \notin Names /\ MaxEntries \in Nat \ {0}

Unknown == 0    \* kContentUnknown
Entry   == [name : Names, active : BOOLEAN]

VARIABLES
  entries,   \* m_entries
  byName,    \* m_byName: a map from names to ids
  saved,     \* the manifest in the store
  returned,  \* what the last registerContent returned, and for which name
  promised   \* history: every binding some saved manifest has carried

vars == <<entries, byName, saved, returned, promised>>

ValidId(id) == id # Unknown /\ id <= Len(entries)
IdOf(name)  == IF name \in DOMAIN byName THEN byName[name] ELSE Unknown

Full == Len(entries) >= MaxEntries

(* Mutant of Serialize: tombstones are compacted away. *)
SerializeActiveOnly(es) ==
  LET act == SelectSeq(es, LAMBDA e : e.active)
  IN  [header |-> TRUE, count |-> Len(act),
       entries |-> [i \in DOMAIN act |-> [name |-> act[i].name, flag |-> 1]]]

Serialize(es) ==
  [header  |-> TRUE,
   count   |-> Len(es),
   entries |-> [i \in DOMAIN es |->
                  [name |-> es[i].name, flag |-> IF es[i].active THEN 1 ELSE 0]]]

(* Mutant of EntryOk: duplicate names go unnoticed. *)
EntryOkAlone(m, i) == m.entries[i].flag \in {0, 1} /\ m.entries[i].name \in Names

EntryOk(m, i) ==
  /\ m.entries[i].flag \in {0, 1}
  /\ m.entries[i].name \in Names
  /\ \A j \in 1..(i - 1) : m.entries[j].name # m.entries[i].name

(* Entry by entry: it must be there, carry flag 0 or 1 and a valid name    *)
(* that no earlier entry has; nothing may follow the last one.             *)
Deserialize(m) ==
  IF /\ m.header
     /\ m.count <= MaxEntries
     /\ Len(m.entries) = m.count
     /\ \A i \in 1..m.count : EntryOk(m, i)
  THEN [i \in 1..m.count |->
          [name |-> m.entries[i].name, active |-> m.entries[i].flag = 1]]
  ELSE NoRegistry

(* Mutant of NameMap: tombstoned names are left out. *)
NameMapActive(es) ==
  [n \in {es[i].name : i \in {j \in DOMAIN es : es[j].active}} |->
     CHOOSE i \in DOMAIN es : es[i].name = n]

(* The name map deserialize builds beside the entries. *)
NameMap(es) ==
  [n \in {es[i].name : i \in DOMAIN es} |->
     CHOOSE i \in DOMAIN es : es[i].name = n]

-----------------------------------------------------------------------------
RegisterContent(name) ==
  /\ \/ /\ name \notin Names                            \* isValidContentName
        /\ returned' = [name |-> name, id |-> Unknown]
        /\ UNCHANGED <<entries, byName>>
     \/ /\ name \in Names /\ name \in DOMAIN byName     \* revival
        /\ entries' = [entries EXCEPT ![byName[name]].active = TRUE]
        /\ returned' = [name |-> name, id |-> byName[name]]
        /\ UNCHANGED byName
     \/ /\ name \in Names \ DOMAIN byName
        /\ Full
        /\ returned' = [name |-> name, id |-> Unknown]
        /\ UNCHANGED <<entries, byName>>
     \/ /\ name \in Names \ DOMAIN byName
        /\ ~Full
        /\ entries' = Append(entries, [name |-> name, active |-> TRUE])
        /\ byName' = [n \in DOMAIN byName \cup {name} |->
                        IF n = name THEN Len(entries) + 1 ELSE byName[n]]
        /\ returned' = [name |-> name, id |-> Len(entries) + 1]
  /\ UNCHANGED <<saved, promised>>

Tombstone(id) ==
  /\ ValidId(id)
  /\ entries' = [entries EXCEPT ![id].active = FALSE]
  /\ UNCHANGED <<byName, saved, returned, promised>>

(* serialize() into the store; the put is atomic. *)
Save ==
  /\ saved' = Serialize(entries)
  /\ promised' = [i \in DOMAIN promised \cup DOMAIN entries |->
                    IF i \in DOMAIN entries THEN entries[i].name ELSE promised[i]]
  /\ UNCHANGED <<entries, byName, returned>>

(* A new process deserializes the manifest it finds. *)
Reload ==
  /\ Deserialize(saved) # NoRegistry
  /\ entries' = Deserialize(saved)
  /\ byName' = NameMap(Deserialize(saved))
  /\ returned' = [name |-> BadName, id |-> Unknown]
  /\ UNCHANGED <<saved, promised>>

Init ==
  /\ entries = <<>>
  /\ byName = [n \in {} |-> Unknown]
  /\ saved = Serialize(<<>>)
  /\ returned = [name |-> BadName, id |-> Unknown]
  /\ promised = <<>>

Next ==
  \/ \E name \in Names \cup {BadName} : RegisterContent(name)
  \/ \E id \in 0..(MaxEntries + 1) : Tombstone(id)
  \/ Save
  \/ Reload

Spec == Init /\ [][Next]_vars

-----------------------------------------------------------------------------
(* Type invariant. *)
TypeOK ==
  /\ entries \in Seq(Entry) /\ Len(entries) <= MaxEntries
  /\ DOMAIN byName \subseteq Names
  /\ \A n \in DOMAIN byName : byName[n] \in 1..Len(entries)

(* The two directions of the binding agree, after any number of            *)
(* registrations, revivals and reloads: every id names one name and that   *)
(* name leads back to it.  registerContent answers with the id of what was *)
(* asked for, and refuses only an invalid name or a full registry.         *)
BindingsAgree ==
  /\ \A id \in DOMAIN entries : IdOf(entries[id].name) = id
  /\ DOMAIN byName = {entries[id].name : id \in DOMAIN entries}
  /\ IF returned.id # Unknown
     THEN ValidId(returned.id) /\ entries[returned.id].name = returned.name
     ELSE returned.name \in Names => Len(entries) = MaxEntries

(* A binding that has once been saved is permanent: no later registration, *)
(* tombstone, revival, save or restart gives the id another name.  Blobs   *)
(* on disk may therefore keep ids.                                         *)
SavedBindingsPermanent ==
  \A id \in DOMAIN promised :
     id \in DOMAIN entries /\ entries[id].name = promised[id]

(* One damaged field: a bad header, a count that does not fit, a flag or   *)
(* name that is not valid, or a name given twice.                          *)
Damaged(m) ==
  {[m EXCEPT !.header = FALSE], [m EXCEPT !.count = @ + 1],
   [m EXCEPT !.entries = Append(@, [name |-> BadName, flag |-> 0])]}
  \cup {[m EXCEPT !.count = @ - 1] : i \in DOMAIN m.entries}
  \cup {[m EXCEPT !.entries[i].flag = 2] : i \in DOMAIN m.entries}
  \cup {[m EXCEPT !.entries[i].name = BadName] : i \in DOMAIN m.entries}
  \cup {[m EXCEPT !.entries[p[1]].name = m.entries[p[2]].name] :
          p \in {q \in (DOMAIN m.entries) \X (DOMAIN m.entries) : q[1] # q[2]}}

(* The manifest carries the registry whole or not at all: deserialize      *)
(* rebuilds exactly what was serialized, tombstones included, and refuses  *)
(* a manifest with a damaged field instead of half-loading it.             *)
ManifestFaithful ==
  /\ Deserialize(Serialize(entries)) = entries
  /\ \A d \in Damaged(saved) : Deserialize(d) = NoRegistry
=============================================================================
