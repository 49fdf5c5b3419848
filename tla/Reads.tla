------------------------------- MODULE Reads -------------------------------
(***************************************************************************)
(* The reading tools on a device that syncs.  read_graph and open_nodes     *)
(* list entities, then ask for the observations and the relations of each:  *)
(* statements of their own, with handlers and the engine between them.      *)
(* search_nodes is a single statement and shows what that moment has.       *)
(***************************************************************************)
EXTENDS DeviceSync

CONSTANT From   \* From[l]: the entity relation l starts at

ASSUME ReadAssumption ==
  /\ From \in [Relation -> Entity]
  /\ \A l \in Relation : From[l] \in Ends[l]

VARIABLE reader   \* the reading call under way

\* named: the entities asked for; listed: those still to be filled in; here: the
\* one at hand; shown: the rows found so far.  History: every moment since the
\* first statement would have shown the rows of steady, some moment those of ever.
Reading == [at : {"idle", "observations", "relations", "filled"},
            named : SUBSET Entity, listed : SUBSET Entity, here : Entity \cup {NoRow},
            shown : SUBSET Row, steady : SUBSET Row, ever : SUBSET Row]

NotReading == [at |-> "idle", named |-> {}, listed |-> {}, here |-> NoRow,
               shown |-> {}, steady |-> {}, ever |-> {}]

ReadsInit == Init /\ reader = NotReading

\* Wrong: rows that are marked as deleted are shown.
AllObservations(e) == {o \in Observation : Owner[o] = e /\ Live(e) /\ cache[o].sync # "none"}

LiveObservations(e) == {o \in Observation : Owner[o] = e /\ Live(e) /\ Live(o)}

LiveRelations(e) == {l \in Relation : From[l] = e /\ Live(l) /\ \A f \in Ends[l] : Live(f)}

\* What a single statement would show of these entities.
Visible(E) ==
  LET alive == {e \in E : Live(e)}
  IN  alive \cup {o \in Observation : Owner[o] \in alive /\ Live(o)}
            \cup UNION {LiveRelations(e) : e \in alive}

\* read_graph lists all entities, open_nodes those that were named.
ListEntities(E) ==
  LET alive == {e \in E : Live(e)} IN
  /\ Serving
  /\ reader.at = "idle"
  /\ reader' = [at |-> IF alive = {} THEN "filled" ELSE "observations",
                named |-> E, listed |-> alive, here |-> NoRow,
                shown |-> alive, steady |-> Visible(E), ever |-> Visible(E)]

LoadObservations(e) ==
  /\ reader.at = "observations" /\ e \in reader.listed
  /\ reader' = [reader EXCEPT !.at = "relations", !.here = e,
                              !.shown = @ \cup LiveObservations(e)]

LoadOutgoingRelations ==
  LET rest == reader.listed \ {reader.here} IN
  /\ reader.at = "relations"
  /\ reader' = [reader EXCEPT !.at = IF rest = {} THEN "filled" ELSE "observations",
                              !.listed = rest, !.here = NoRow,
                              !.shown = @ \cup LiveRelations(reader.here)]

\* The result is returned, or a statement failed.
EndRead ==
  /\ reader.at # "idle"
  /\ reader' = NotReading

ReadNext ==
  \/ \E E \in SUBSET Entity : ListEntities(E)
  \/ \E e \in Entity : LoadObservations(e)
  \/ LoadOutgoingRelations
  \/ EndRead

\* While a call reads, what is visible changes.
Watch ==
  IF reader.at \in {"idle", "filled"} THEN UNCHANGED reader
  ELSE \E E \in {reader.named} :
         reader' = [reader EXCEPT !.steady = @ \cap Visible(E)', !.ever = @ \cup Visible(E)']

SpecWithReads ==
  /\ ReadsInit
  /\ [][(Next /\ Watch) \/ (ReadNext /\ UNCHANGED vars)]_<<vars, reader>>

-----------------------------------------------------------------------------

\* A graph that is read while others write holds every row that was there all
\* the time and no row that was there at no time, although its parts are of
\* different moments (ops.go: ReadGraph, OpenNodes, hydrateGraphEntities).
ReadIsBracketed ==
  reader.at = "filled" => reader.steady \subseteq reader.shown /\ reader.shown \subseteq reader.ever

-----------------------------------------------------------------------------
(* The inductive invariant behind ReadIsBracketed                            *)

UnderWay == reader.at \in {"observations", "relations"}

\* A statement still to come will find this row, if it is there until then.
Awaited(x) ==
  \/ /\ x \in Observation /\ Owner[x] \in reader.listed
     /\ reader.at = "relations" => Owner[x] # reader.here
  \/ x \in Relation /\ From[x] \in reader.listed

\* What was there all the time is there now, and shown or still to be found.
ReaderInv ==
  /\ reader \in Reading
  /\ reader.listed \subseteq reader.named
  /\ reader.at = "relations" => reader.here \in reader.listed
  /\ reader.at = "filled" => reader.listed = {}
  /\ UnderWay => /\ reader.steady \subseteq Visible(reader.named)
                 /\ Visible(reader.named) \subseteq reader.ever
  /\ reader.shown \subseteq reader.ever
  /\ \A x \in reader.steady : x \in reader.shown \/ Awaited(x)
=============================================================================
