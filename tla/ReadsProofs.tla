---------------------------- MODULE ReadsProofs ----------------------------
(***************************************************************************)
(* A graph read in several statements, for every set of rows and whatever   *)
(* the writers do.  Of these the proof uses nothing but that the reader     *)
(* sees the rows of the moment of each statement.                           *)
(***************************************************************************)
EXTENDS Reads, TLAPS

\* What a single statement shows is rows, and only of the entities asked for.
LEMMA VisibleRows ==
  ASSUME NEW E \in SUBSET Entity
  PROVE  Visible(E) \subseteq Row
BY DEF Visible, LiveRelations, Row

\* It shows the same while the cache is the same.
LEMMA VisibleStays ==
  ASSUME NEW E \in SUBSET Entity, UNCHANGED vars
  PROVE  Visible(E)' = Visible(E)
BY DEF vars, cacheVars, Visible, LiveRelations, Live

\* The statements for one of the entities show no more than a single statement
\* would now, and all of its observations and relations that would.
LEMMA PartsOfVisible ==
  ASSUME NEW E \in SUBSET Entity, NEW e \in E
  PROVE  /\ LiveObservations(e) \subseteq Visible(E)
         /\ LiveRelations(e) \subseteq Visible(E)
         /\ \A o \in Visible(E) : o \in Observation /\ Owner[o] = e => o \in LiveObservations(e)
         /\ \A l \in Visible(E) : l \in Relation /\ From[l] = e => l \in LiveRelations(e)
<1>1. LiveObservations(e) \subseteq Visible(E)
  BY DEF LiveObservations, Visible
<1>2. LiveRelations(e) \subseteq Visible(E)
  <2> SUFFICES ASSUME NEW l \in LiveRelations(e) PROVE l \in Visible(E)
    OBVIOUS
  <2>1. l \in Relation /\ From[l] = e /\ Live(e)
    BY ReadAssumption DEF LiveRelations
  <2> QED
    BY <2>1 DEF Visible
<1>3. ASSUME NEW o \in Visible(E), o \in Observation, Owner[o] = e
      PROVE  o \in LiveObservations(e)
  BY <1>3, RowAssumption DEF LiveObservations, LiveRelations, Visible
<1>4. ASSUME NEW l \in Visible(E), l \in Relation, From[l] = e
      PROVE  l \in LiveRelations(e)
  BY <1>4, RowAssumption DEF LiveRelations, Visible
<1> QED
  BY <1>1, <1>2, <1>3, <1>4

\* Every visible row is an entity that is live, or belongs to one.
LEMMA VisibleBelongs ==
  ASSUME NEW E \in SUBSET Entity, NEW x \in Visible(E)
  PROVE  \/ x \in E /\ Live(x)
         \/ x \in Observation /\ Owner[x] \in E /\ Live(Owner[x])
         \/ x \in Relation /\ From[x] \in E /\ Live(From[x])
BY DEF Visible, LiveRelations

-----------------------------------------------------------------------------

\* While others write, what is there all the time shrinks and what was there
\* at some time grows.
LEMMA WatchKeeps ==
  ASSUME ReaderInv, Watch
  PROVE  ReaderInv'
<1> USE DEF UnderWay
<1>1. CASE reader.at \in {"idle", "filled"}
  BY <1>1 DEF Watch, ReaderInv, Awaited
<1>2. CASE UnderWay
  <2>1. PICK E \in {reader.named} :
          reader' = [reader EXCEPT !.steady = @ \cap Visible(E)', !.ever = @ \cup Visible(E)']
    BY <1>2 DEF Watch
  <2>2. E = reader.named /\ reader \in Reading /\ E \in SUBSET Entity
    BY DEF ReaderInv, Reading
  <2>3. Visible(E)' \subseteq Row
    BY <2>2 DEF Visible, LiveRelations, Row
  <2>4. /\ reader'.at = reader.at /\ reader'.named = E /\ reader'.listed = reader.listed
        /\ reader'.here = reader.here /\ reader'.shown = reader.shown
        /\ reader'.steady = reader.steady \cap Visible(E)'
        /\ reader'.ever = reader.ever \cup Visible(E)'
    BY <2>1, <2>2 DEF Reading
  <2>5. reader' \in Reading
    BY <2>1, <2>2, <2>3 DEF Reading
  <2>6. Visible(reader.named)' = Visible(E)'
    BY <2>4 DEF Visible, LiveRelations, Live
  <2>7. \A x \in reader'.steady : x \in reader'.shown \/ Awaited(x)'
    BY <2>4 DEF ReaderInv, Awaited
  <2> QED
    BY <2>4, <2>5, <2>6, <2>7 DEF ReaderInv
<1> QED
  BY <1>1, <1>2 DEF ReaderInv, Reading

\* A call begins with what its first statement shows.
LEMMA ListKeeps ==
  ASSUME NEW E \in SUBSET Entity, ListEntities(E), UNCHANGED vars
  PROVE  ReaderInv'
<1> DEFINE alive == {e \in E : Live(e)}
<1>1. /\ reader'.named = E /\ reader'.listed = alive /\ reader'.here = NoRow
      /\ reader'.shown = alive /\ reader'.steady = Visible(E) /\ reader'.ever = Visible(E)
      /\ reader'.at = IF alive = {} THEN "filled" ELSE "observations"
  BY DEF ListEntities
<1>2. reader' \in Reading
  BY VisibleRows DEF ListEntities, Reading, Row
<1>3. Visible(reader.named)' = Visible(E)
  BY <1>1 DEF vars, cacheVars, Visible, LiveRelations, Live
<1>4. ASSUME NEW x \in Visible(E) PROVE x \in alive \/ Awaited(x)'
  BY <1>1, VisibleBelongs DEF Awaited
<1>5. alive \subseteq Visible(E)
  BY DEF Visible
<1> QED
  BY <1>1, <1>2, <1>3, <1>4, <1>5 DEF ReaderInv, UnderWay

\* The observations of one entity are found.
LEMMA ObservationsKeep ==
  ASSUME ReaderInv, NEW e \in Entity, LoadObservations(e), UNCHANGED vars
  PROVE  ReaderInv'
<1> DEFINE E == reader.named
<1>1. /\ reader \in Reading /\ E \in SUBSET Entity /\ e \in E
      /\ reader.steady \subseteq Visible(E) /\ Visible(E) \subseteq reader.ever
  BY DEF ReaderInv, Reading, LoadObservations, UnderWay
<1>2. /\ reader'.named = E /\ reader'.listed = reader.listed /\ reader'.here = e
      /\ reader'.shown = reader.shown \cup LiveObservations(e)
      /\ reader'.steady = reader.steady /\ reader'.ever = reader.ever
      /\ reader'.at = "relations"
  BY <1>1 DEF LoadObservations, Reading
<1>3. reader' \in Reading
  BY <1>1 DEF LoadObservations, Reading, LiveObservations, Row
<1>4. Visible(reader.named)' = Visible(E)
  BY <1>2 DEF vars, cacheVars, Visible, LiveRelations, Live
<1>5. ASSUME NEW x \in reader.steady PROVE x \in reader'.shown \/ Awaited(x)'
  <2>1. CASE x \in Observation /\ Owner[x] = e
    BY <1>1, <1>2, <2>1, PartsOfVisible
  <2>2. CASE ~(x \in Observation /\ Owner[x] = e)
    BY <1>2, <2>2 DEF ReaderInv, Awaited
  <2> QED
    BY <2>1, <2>2
<1>6. LiveObservations(e) \subseteq reader.ever
  BY <1>1, PartsOfVisible
<1> QED
  BY <1>1, <1>2, <1>3, <1>4, <1>5, <1>6 DEF ReaderInv, UnderWay, LoadObservations

\* Its relations are found, and there is one entity less to fill in.
LEMMA RelationsKeep ==
  ASSUME ReaderInv, LoadOutgoingRelations, UNCHANGED vars
  PROVE  ReaderInv'
<1> DEFINE E == reader.named
           e == reader.here
           rest == reader.listed \ {e}
<1>1. /\ reader \in Reading /\ E \in SUBSET Entity /\ e \in E
      /\ reader.steady \subseteq Visible(E) /\ Visible(E) \subseteq reader.ever
  BY DEF ReaderInv, Reading, LoadOutgoingRelations, UnderWay
<1>2. /\ reader'.named = E /\ reader'.listed = rest /\ reader'.here = NoRow
      /\ reader'.shown = reader.shown \cup LiveRelations(e)
      /\ reader'.steady = reader.steady /\ reader'.ever = reader.ever
      /\ reader'.at = IF rest = {} THEN "filled" ELSE "observations"
  BY <1>1 DEF LoadOutgoingRelations, Reading
<1>3. reader' \in Reading
  BY <1>1 DEF LoadOutgoingRelations, Reading, LiveRelations, Row
<1>4. Visible(reader.named)' = Visible(E)
  BY <1>2 DEF vars, cacheVars, Visible, LiveRelations, Live
<1>5. ASSUME NEW x \in reader.steady PROVE x \in reader'.shown \/ Awaited(x)'
  <2>1. CASE x \in Relation /\ From[x] = e
    BY <1>1, <1>2, <2>1, PartsOfVisible
  <2>2. CASE ~(x \in Relation /\ From[x] = e)
    BY <1>2, <2>2 DEF ReaderInv, Awaited, LoadOutgoingRelations
  <2> QED
    BY <2>1, <2>2
<1>6. LiveRelations(e) \subseteq reader.ever
  BY <1>1, PartsOfVisible
<1> QED
  BY <1>1, <1>2, <1>3, <1>4, <1>5, <1>6 DEF ReaderInv, UnderWay

\* The invariant holds with every writer: whatever a step of DeviceSync does,
\* Watch records it (ops.go: ReadGraph, OpenNodes, hydrateGraphEntities).
THEOREM ReaderCorrect == SpecWithReads => []ReaderInv
<1>1. ReadsInit => ReaderInv
  BY DEF ReadsInit, NotReading, ReaderInv, Reading, UnderWay
<1>2. ReaderInv /\ [(Next /\ Watch) \/ (ReadNext /\ UNCHANGED vars)]_<<vars, reader>>
        => ReaderInv'
  <2> SUFFICES ASSUME ReaderInv,
                      [(Next /\ Watch) \/ (ReadNext /\ UNCHANGED vars)]_<<vars, reader>>
               PROVE  ReaderInv'
    OBVIOUS
  <2>1. CASE Watch
    BY <2>1, WatchKeeps
  <2>2. CASE ReadNext /\ UNCHANGED vars
    <3>1. CASE EndRead
      BY <3>1 DEF EndRead, NotReading, ReaderInv, Reading, UnderWay
    <3> QED
      BY <2>2, <3>1, ListKeeps, ObservationsKeep, RelationsKeep DEF ReadNext
  <2>3. CASE UNCHANGED <<vars, reader>>
    BY <2>3 DEF ReaderInv, UnderWay, Awaited, vars, cacheVars, Visible, LiveRelations, Live
  <2> QED
    BY <2>1, <2>2, <2>3
<1> QED
  BY <1>1, <1>2, PTL DEF SpecWithReads

\* A graph read in several statements holds all that was there all the time
\* and nothing that was there at no time (ops.go: ReadGraph, OpenNodes).
THEOREM ReadsAreBracketed == SpecWithReads => []ReadIsBracketed
<1>1. ReaderInv => ReadIsBracketed
  BY DEF ReaderInv, ReadIsBracketed, Awaited
<1> QED
  BY <1>1, ReaderCorrect, PTL
=============================================================================
