------------------------------- MODULE Rows -------------------------------
(***************************************************************************)
(* The three replicated tables of shared-memory-mcp, as the sync engine     *)
(* sees them: row identifiers, the references between rows, and the keyset  *)
(* order (updated_at, id) in which the server hands rows out.               *)
(*                                                                          *)
(* A row identifier is a positive natural number, so that identifiers are   *)
(* ordered the way uuids are.  Entity and relation identifiers are derived  *)
(* from names, hence shared by all devices; an observation identifier is    *)
(* random, hence minted by one device only.                                 *)
(***************************************************************************)
EXTENDS Integers, FiniteSets

CONSTANTS
  Entity,        \* identifiers of entities
  Observation,   \* identifiers of observations
  Relation,      \* identifiers of relations
  Owner,         \* Owner[o]: the entity observation o belongs to
  Ends,          \* Ends[l]: the entities relation l joins
  LocalObs,      \* the observations this device mints; peers mint the others
  Content,       \* entity types and observation texts, up to equality
  Generic        \* the type "entity" of an entity created for its observations

Row == Entity \cup Observation \cup Relation

NoRow == 0   \* the row of an operation that concerns none (an audit record)

ASSUME RowAssumption ==
  /\ Row \subseteq Nat \ {NoRow}
  /\ IsFiniteSet(Row)
  /\ Entity \cap Observation = {}
  /\ Entity \cap Relation = {}
  /\ Observation \cap Relation = {}

ASSUME ReferenceAssumption ==
  /\ Owner \in [Observation -> Entity]
  /\ Ends \in [Relation -> SUBSET Entity]
  /\ LocalObs \subseteq Observation

ASSUME ContentAssumption == Generic \in Content

Table == {"entities", "observations", "relations"}

TableOf(r) == CASE r \in Entity      -> "entities"
                [] r \in Observation -> "observations"
                [] OTHER             -> "relations"

\* The rows a row's foreign keys name.
Refs(r) == CASE r \in Observation -> {Owner[r]}
             [] r \in Relation    -> Ends[r]
             [] OTHER             -> {}

\* order by updated_at asc, id asc
Before(x, y) == x.ts < y.ts \/ (x.ts = y.ts /\ x.row < y.row)

\* The first n elements of a set of stamped rows in that order: limit n.
FirstRows(S, n) == {x \in S : Cardinality({y \in S : Before(y, x)}) < n}
=============================================================================
