-------------------------- MODULE MappingConstants --------------------------
(***************************************************************************)
(* What the specifications of a request's placeholder mapping share: who   *)
(* uses it, what it maps and the placeholders it may issue.                *)
(***************************************************************************)
EXTENDS Integers

CONSTANTS Threads,      \* goroutines that share the mapping
          Values,       \* plaintext values
          EntityTypes,  \* Presidio's entity types
          Labels,       \* placeholder labels
          LabelOf,      \* labelForEntity, as a function of the entity type
          Indices,      \* bound: the indices a placeholder may have
          None          \* no value, no placeholder, nobody

\* <Label_Index>, as the pair of the two.
Placeholders == Labels \X Indices

ASSUME MappingAssumption ==
  /\ Indices \subseteq Nat \ {0}
  /\ LabelOf \in [EntityTypes -> Labels]
  /\ None \notin Values /\ None \notin Placeholders /\ None \notin Threads
=============================================================================
