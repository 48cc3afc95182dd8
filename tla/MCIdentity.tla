----------------------------- MODULE MCIdentity -----------------------------
(* The two halves of src/world/registry.hpp share no state: a behaviour    *)
(* exercises the content registry or the entity index.                     *)
EXTENDS ContentRegistry, EntityIndex

VARIABLE subject

IdentityInit == subject \in {"content", "entity"} /\ Init /\ EntityInit

ContentStep == subject = "content" /\ Next /\ UNCHANGED <<entityVars, subject>>
EntityStep  == subject = "entity" /\ EntityNext /\ UNCHANGED <<vars, subject>>

IdentitySpec ==
  IdentityInit /\ [][ContentStep \/ EntityStep]_<<vars, entityVars, subject>>
=============================================================================
