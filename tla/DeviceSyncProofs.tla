-------------------------- MODULE DeviceSyncProofs ------------------------
(***************************************************************************)
(* Theorems about DeviceSync, for every set of rows, callers and bounds.    *)
(***************************************************************************)
EXTENDS DeviceSync, FiniteSetTheorems, TLAPS

-----------------------------------------------------------------------------
(* Type correctness *)

\* An upsert on the server keeps the types of its tables.
LEMMA UpsertAtType ==
  ASSUME ServerTypeOK, NEW r \in Row, NEW v \in Content, NEW s \in Stamp, UpsertAt(r, v, s)
  PROVE  remote' \in [Row -> RemoteRow] /\ clock' \in Nat
<1>1. s \in Nat
  BY DEF ServerTypeOK, Stamp
<1> QED
  BY <1>1 DEF ServerTypeOK, UpsertAt, RemoteRow, Commit

\* So does a delete.
LEMMA DeleteAtType ==
  ASSUME ServerTypeOK, NEW r \in Row, NEW s \in Stamp, DeleteAt(r, s)
  PROVE  remote' \in [Row -> RemoteRow] /\ clock' \in Nat
<1>1. s \in Nat
  BY DEF ServerTypeOK, Stamp
<1> QED
  BY <1>1 DEF ServerTypeOK, DeleteAt, RemoteRow, Commit

\* The reply of the server to an operation is a stamp, or 0.
LEMMA ExecuteType ==
  ASSUME ServerTypeOK, NEW op \in Entry, NEW s \in Stamp, Execute(op, s)
  PROVE  /\ remote' \in [Row -> RemoteRow]
         /\ clock' \in Nat
         /\ reply' \in Nat
<1>1. s \in Nat
  BY DEF ServerTypeOK, Stamp
<1>2. /\ op.do # "audit" => op.row \in Row
      /\ op.val \in Content
  BY DEF Entry
<1>3. CASE op.do = "upsert" /\ UpsertAt(op.row, op.val, s) /\ reply' = s
  BY <1>1, <1>2, <1>3, UpsertAtType
<1>4. CASE op.do = "delete" /\ DeleteAt(op.row, s) /\ reply' = s
  BY <1>1, <1>2, <1>4, DeleteAtType
<1>5. CASE reply' = 0 /\ UNCHANGED <<remote, clock>>
  BY <1>5 DEF ServerTypeOK
<1> QED
  BY <1>3, <1>4, <1>5 DEF Execute

\* The starting points of a pull keep the types of the engine.
LEMMA PullFromType ==
  ASSUME EngineTypeOK, NEW t \in Table, NEW id \in Row \cup {NoRow},
         PullFrom(t, id), UNCHANGED <<mode, trig, drainVars>>
  PROVE  EngineTypeOK'
BY DEF EngineTypeOK, PullFrom, drainVars

\* The end of a pull keeps them too.
LEMMA EndPullType ==
  ASSUME EngineTypeOK, EndPull, UNCHANGED <<trig, drainVars>>
  PROVE  EngineTypeOK'
BY DEF EngineTypeOK, EndPull, EndCycle, drainVars, Table

\* So does the move to the next table.
LEMMA NextTableType ==
  ASSUME EngineTypeOK, NextTable, UNCHANGED <<trig, drainVars>>
  PROVE  EngineTypeOK'
<1>1. "observations" \in Table /\ "relations" \in Table
  BY DEF Table
<1>2. CASE table = "entities" /\ PullFrom("observations", NoRow) /\ UNCHANGED mode
  BY <1>1, <1>2, PullFromType
<1>3. CASE table = "observations" /\ PullFrom("relations", NoRow) /\ UNCHANGED mode
  BY <1>1, <1>3, PullFromType
<1>4. CASE table = "relations" /\ EndPull
  BY <1>4, EndPullType
<1> QED
  BY <1>2, <1>3, <1>4 DEF NextTable

\* The end of a drain, with or without a pull to follow.
LEMMA EndDrainType ==
  ASSUME EngineTypeOK, EndDrain, UNCHANGED <<trig, pushed>>
  PROVE  EngineTypeOK'
<1>1. CASE PullFrom("entities", NoRow) /\ UNCHANGED mode
  BY <1>1 DEF EngineTypeOK, EndDrain, PullFrom, Table
<1>2. CASE EndCycle /\ UNCHANGED pullVars
  BY <1>2 DEF EngineTypeOK, EndDrain, EndCycle, pullVars
<1> QED
  BY <1>1, <1>2 DEF EndDrain

\* A step of the engine keeps the types of everything it may write.
LEMMA CycleType ==
  ASSUME ServerTypeOK, CacheTypeOK, EngineTypeOK, Cycle
  PROVE  ServerTypeOK' /\ CacheTypeOK' /\ EngineTypeOK'
<1> USE DEF drainVars, pullVars
<1>1. CASE Tick \/ Triggered
  BY <1>1 DEF Tick, Triggered, serverVars, cacheVars, ServerTypeOK, CacheTypeOK, EngineTypeOK
<1>2. CASE Peek
  <2>1. ServerTypeOK' /\ CacheTypeOK'
    BY <1>2 DEF Peek, serverVars, cacheVars, ServerTypeOK, CacheTypeOK
  <2>2. CASE PeekDue # {}
    <3>1. PeekDue \subseteq Entry
      BY DEF PeekDue, CacheTypeOK
    <3> QED
      BY <1>2, <2>1, <2>2, <3>1 DEF Peek, EngineTypeOK
  <2>3. CASE PeekDue = {}
    BY <1>2, <2>1, <2>3, EndDrainType DEF Peek
  <2> QED
    BY <2>2, <2>3
<1>12. CASE PeekFails
  BY <1>12, EndDrainType DEF PeekFails, Lose, cacheVars, ServerTypeOK, CacheTypeOK
<1>3. ASSUME NEW op \in batch, Push(op) \/ PushLost(op)
      PROVE  ServerTypeOK' /\ CacheTypeOK' /\ EngineTypeOK'
  <2>1. op \in Entry
    BY DEF EngineTypeOK
  <2>2. PICK s \in Stamp : Execute(op, s)
    BY <1>3 DEF Push, PushLost
  <2>3. remote' \in [Row -> RemoteRow] /\ clock' \in Nat /\ reply' \in Nat
    BY <2>1, <2>2, ExecuteType
  <2>4. ServerTypeOK'
    BY <1>3, <2>3 DEF Push, PushLost, Lose, ServerTypeOK
  <2>5. CacheTypeOK'
    BY <1>3 DEF Push, PushLost, cacheVars, CacheTypeOK
  <2>6. op.id \in Nat
    BY <2>1 DEF Entry
  <2>7. pc' \in {"success", "mark", "failure"}
    BY <1>3 DEF Push, PushLost
  <2>8. EngineTypeOK'
    BY <1>3, <2>3, <2>6, <2>7 DEF Push, PushLost, EngineTypeOK
  <2> QED
    BY <2>4, <2>5, <2>8
<1>4. ASSUME NEW op \in batch, PushFail(op) \/ MarkFails(op)
      PROVE  ServerTypeOK' /\ CacheTypeOK' /\ EngineTypeOK'
  <2>1. ServerTypeOK' /\ CacheTypeOK'
    BY <1>4 DEF PushFail, MarkFails, Lose, serverVars, cacheVars, ServerTypeOK, CacheTypeOK
  <2>2. EngineTypeOK'
    BY <1>4 DEF PushFail, MarkFails, EngineTypeOK
  <2> QED
    BY <2>1, <2>2
<1>5. ASSUME NEW op \in batch, Mark(op)
      PROVE  ServerTypeOK' /\ CacheTypeOK' /\ EngineTypeOK'
  <2>1. cache' \in [Row -> CacheRow]
    BY <1>5 DEF Mark, MarkSynced, CacheTypeOK, CacheRow, EngineTypeOK
  <2> QED
    BY <1>5, <2>1 DEF Mark, serverVars, ServerTypeOK, CacheTypeOK, EngineTypeOK
<1>6. ASSUME NEW op \in batch, Success(op)
      PROVE  ServerTypeOK' /\ CacheTypeOK' /\ EngineTypeOK'
  <2>1. queue' \subseteq Entry
    BY <1>6 DEF Success, MarkSuccess, Others, CacheTypeOK
  <2> QED
    BY <1>6, <2>1 DEF Success, Lose, ServerTypeOK, CacheTypeOK, EngineTypeOK
<1>7. ASSUME NEW op \in batch, Failure(op)
      PROVE  ServerTypeOK' /\ CacheTypeOK' /\ EngineTypeOK'
  <2>1. queue \subseteq Entry
    BY DEF CacheTypeOK
  <2>2. \A q \in queue : [q EXCEPT !.due = FALSE, !.tried = TRUE] \in Entry
    BY <2>1 DEF Entry
  <2>3. queue' \subseteq Entry
    <3>1. CASE MarkFailure(op)
      <4>1. Others(op) \subseteq queue
        BY DEF Others
      <4> QED
        BY <2>1, <2>2, <3>1, <4>1 DEF MarkFailure
    <3> QED
      BY <1>7, <2>1, <3>1 DEF Failure
  <2>4. EngineTypeOK'
    BY <1>7, EndDrainType DEF Failure
  <2> QED
    BY <1>7, <2>3, <2>4 DEF Failure, Lose, ServerTypeOK, CacheTypeOK
<1>8. CASE Fetch
  <2> DEFINE rows == FirstRows(Newer(table, cursor[table], sinceId), PageSize)
  <2>1. rows \subseteq PulledRow
    BY DEF FirstRows, Newer, RowsOf, Snapshot, PulledRow, ServerTypeOK, RemoteRow
  <2>2. ServerTypeOK' /\ CacheTypeOK'
    BY <1>8 DEF Fetch, serverVars, cacheVars, ServerTypeOK, CacheTypeOK
  <2>3. CASE NextTable
    BY <1>8, <2>2, <2>3, NextTableType DEF Fetch
  <2>4. CASE page' = rows /\ todo' = rows /\ pc' = "apply" /\ UNCHANGED <<mode, table, sinceId>>
    <3> HIDE DEF rows
    <3> QED
      BY <1>8, <2>1, <2>2, <2>4 DEF Fetch, EngineTypeOK
  <2> QED
    BY <1>8, <2>3, <2>4 DEF Fetch
<1>9. ASSUME NEW x \in todo, ApplyRow(x)
      PROVE  ServerTypeOK' /\ CacheTypeOK' /\ EngineTypeOK'
  <2>1. x \in PulledRow
    BY DEF EngineTypeOK
  <2>2. cache' \in [Row -> CacheRow]
    BY <1>9, <2>1 DEF ApplyRow, ApplyPulled, PulledRow, CacheTypeOK, CacheRow
  <2> QED
    BY <1>9, <2>2 DEF ApplyRow, serverVars, ServerTypeOK, CacheTypeOK, EngineTypeOK
<1>10. CASE Advance
  <2>1. PICK last \in page :
          /\ cursor' = [cursor EXCEPT ![table] = last.ts]
          /\ IF Cardinality(page) < PageSize
             THEN NextTable
             ELSE PullFrom(table, last.row) /\ UNCHANGED mode
    BY <1>10 DEF Advance
  <2>2. last.ts \in Nat /\ last.row \in Row
    BY DEF EngineTypeOK, PulledRow
  <2>3. CacheTypeOK'
    BY <1>10, <2>1, <2>2 DEF Advance, CacheTypeOK
  <2>4. EngineTypeOK'
    <3>1. CASE NextTable
      BY <1>10, <3>1, NextTableType DEF Advance
    <3>2. CASE PullFrom(table, last.row) /\ UNCHANGED mode
      BY <1>10, <2>2, <3>2, PullFromType DEF Advance, EngineTypeOK
    <3> QED
      BY <2>1, <3>1, <3>2
  <2> QED
    BY <1>10, <2>3, <2>4 DEF Advance, serverVars, ServerTypeOK
<1>11. CASE PullFail
  BY <1>11, EndPullType DEF PullFail, Lose, cacheVars, ServerTypeOK, CacheTypeOK
<1> QED
  BY <1>1, <1>2, <1>3, <1>4, <1>5, <1>6, <1>7, <1>8, <1>9, <1>10, <1>11, <1>12 DEF Cycle

\* What a handler puts down for one of its workers is a call again.
LEMMA ContinueType ==
  ASSUME ToolsTypeOK, NEW w \in Worker, NEW call \in Call, Continue(w, call)
  PROVE  worker' \in [Worker -> Call]
BY DEF ToolsTypeOK, Continue

\* A call stays a call when its fields change.
LEMMA CallUpdate ==
  ASSUME NEW c \in Call, NEW at \in Place, NEW items \in Nat,
         NEW owner \in Entity \cup {NoRow}, NEW texts \in SUBSET Content,
         NEW writes \in SUBSET Write,
         at = "ensure" => owner # NoRow
  PROVE  /\ at # "ensure" => [c EXCEPT !.at = at] \in Call
         /\ at # "ensure" => [c EXCEPT !.at = at, !.writes = writes] \in Call
         /\ [c EXCEPT !.at = at, !.items = items, !.owner = owner] \in Call
         /\ [c EXCEPT !.at = at, !.owner = owner, !.texts = texts, !.writes = writes] \in Call
         /\ [c EXCEPT !.at = at, !.items = items, !.owner = owner,
                      !.texts = texts, !.writes = writes] \in Call
BY Zenon DEF Call

\* The end of an item leaves a call behind.
LEMMA ThenEnqueueType ==
  ASSUME ToolsTypeOK, NEW w \in Worker, NEW owner \in Entity \cup {NoRow},
         NEW writes \in SUBSET Write, ThenEnqueue(w, owner, writes)
  PROVE  worker' \in [Worker -> Call]
<1> DEFINE at    == IF writes = {} THEN "item" ELSE "enqueue"
           items == worker[w].items + 1
           none  == {}
           call  == [worker[w] EXCEPT !.at = at, !.items = items, !.owner = owner,
                                      !.texts = none, !.writes = writes]
<1>1. worker[w] \in Call
  BY DEF ToolsTypeOK
<1>2. call \in Call
  <2>1. /\ at \in Place /\ at # "ensure"
        /\ items \in Nat
        /\ none \in SUBSET Content
    BY <1>1 DEF Call, Place
  <2> HIDE DEF at, items, none
  <2> QED
    BY <1>1, <2>1, CallUpdate, Zenon
<1>3. Continue(w, call)
  BY DEF ThenEnqueue
<1> HIDE DEF call
<1> QED
  BY <1>2, <1>3, ContinueType

\* The operations that are queued for a row are of the queue's type.
LEMMA WriteType ==
  /\ \A r \in Row, v \in Content : Upsert(r, v) \in Write
  /\ \A r \in Row : Delete(r) \in Write
  /\ Audit \in Write
BY RowAssumption, ContentAssumption DEF Write, Upsert, Delete, Audit

\* A queue that grows by an operation keeps its type.
LEMMA EnqueueType ==
  ASSUME CacheTypeOK, NEW wr \in Write, Enqueue(wr)
  PROVE  queue' \subseteq Entry /\ nextId' \in Nat
<1>1. [id |-> nextId, do |-> wr.do, row |-> wr.row, val |-> wr.val,
       due |-> TRUE, tried |-> FALSE] \in Entry
  <2>1. /\ wr.do \in {"upsert", "delete", "audit"}
        /\ wr.row \in Row \cup {NoRow}
        /\ wr.val \in Content
        /\ wr.do = "audit" <=> wr.row = NoRow
    BY DEF Write
  <2> QED
    BY <2>1 DEF CacheTypeOK, Entry
<1>2. queue' \subseteq Entry
  BY <1>1 DEF Enqueue, CacheTypeOK
<1> QED
  BY <1>2 DEF Enqueue, CacheTypeOK

\* Writes of the local rows keep the type of the cache.
LEMMA LocalType ==
  ASSUME CacheTypeOK
  PROVE  /\ \A r \in Row, v \in Content :
              UpsertLocal(r, v) => cache' \in [Row -> CacheRow]
         /\ \A S \in SUBSET Row : DeleteLocal(S) => cache' \in [Row -> CacheRow]
<1>1. ASSUME NEW r \in Row, NEW v \in Content, UpsertLocal(r, v)
      PROVE  cache' \in [Row -> CacheRow]
  BY <1>1 DEF UpsertLocal, CacheTypeOK, CacheRow
<1>2. ASSUME NEW S \in SUBSET Row, DeleteLocal(S)
      PROVE  cache' \in [Row -> CacheRow]
  <2>1. \A r \in Row : cache'[r] \in CacheRow
    BY <1>2 DEF DeleteLocal, CacheTypeOK, CacheRow
  <2> QED
    BY <1>2, <2>1 DEF DeleteLocal
<1> QED
  BY <1>1, <1>2

\* A statement of a handler keeps the types of what it may write.
LEMMA HandleType ==
  ASSUME CacheTypeOK, ToolsTypeOK, NEW w \in Worker, Handle(w) \/ HandleFails(w)
  PROVE  CacheTypeOK' /\ ToolsTypeOK'
<1>0. /\ 0 \in Nat /\ NoRow \in Entity \cup {NoRow}
      /\ {} \in SUBSET Content /\ {} \in SUBSET Write
  OBVIOUS
<1> DEFINE Goal == CacheTypeOK' /\ ToolsTypeOK'
<1>1. worker[w] \in Call /\ worker[w].items + 1 \in Nat
  BY DEF ToolsTypeOK, Call
<1>2. ASSUME UNCHANGED cacheVars, UNCHANGED breaks \/ Break, worker' \in [Worker -> Call]
      PROVE  Goal
  BY <1>2 DEF CacheTypeOK, ToolsTypeOK, cacheVars, Break
<1>3. ASSUME NEW r \in Row, NEW v \in Content, NEW owner \in Entity \cup {NoRow},
             UpsertLocal(r, v), ThenEnqueue(w, owner, {Upsert(r, v)}),
             UNCHANGED <<breaks, queue, nextId, cursor>>
      PROVE  Goal
  <2>1. cache' \in [Row -> CacheRow]
    BY <1>3, LocalType
  <2>2. {Upsert(r, v)} \in SUBSET Write
    BY WriteType
  <2>3. worker' \in [Worker -> Call]
    BY <1>3, <2>2, ThenEnqueueType
  <2> QED
    BY <1>3, <2>1, <2>3 DEF CacheTypeOK, ToolsTypeOK
<1>4. ASSUME NEW wr \in worker[w].writes, Enqueued(w, wr)
      PROVE  worker' \in [Worker -> Call]
  <2> DEFINE rest == worker[w].writes \ {wr}
             at == IF rest = {} THEN "item" ELSE "enqueue"
             call == [worker[w] EXCEPT !.at = at, !.writes = rest]
  <2>1. rest \in SUBSET Write /\ at \in Place /\ at # "ensure"
    BY <1>1 DEF Call, Place
  <2>2. Continue(w, call)
    BY <1>4 DEF Enqueued
  <2>3. call \in Call
    <3> HIDE DEF rest, at
    <3>1. [worker[w] EXCEPT !.at = at, !.writes = rest] \in Call
      BY <1>1, <2>1, CallUpdate, <1>0, Zenon
    <3> QED
      BY <3>1
  <2> HIDE DEF call
  <2> QED
    BY <2>2, <2>3, ContinueType
<1>5. NoCall \in Call
  BY DEF NoCall, Call, Place
<1>6. [worker[w] EXCEPT !.at = "trigger"] \in Call
  <2>1. "trigger" \in Place /\ "trigger" # "ensure"
    BY DEF Place
  <2> QED
    BY <1>1, <2>1, CallUpdate, <1>0, Zenon
<1>7. ASSUME NEW e \in Entity, NEW v \in Content, CreateEntity(w, e, v)
      PROVE  Goal
  BY <1>3, <1>7 DEF CreateEntity, Row
<1>8. ASSUME NEW e \in Entity, FindEntity(w, e)
      PROVE  Goal
  <2> DEFINE at == IF Live(e) THEN "item" ELSE "ensure"
             items == IF Live(e) THEN worker[w].items + 1 ELSE worker[w].items
             call == [worker[w] EXCEPT !.at = at, !.items = items, !.owner = e]
  <2>1. at \in Place /\ items \in Nat /\ e # NoRow
    BY <1>1, RowAssumption DEF Call, Place, Row
  <2>2. Continue(w, call)
    BY <1>8 DEF FindEntity
  <2>3. call \in Call
    <3> HIDE DEF at, items
    <3> QED
      BY <1>1, <2>1, CallUpdate, Zenon
  <2>4. worker' \in [Worker -> Call]
    <3> HIDE DEF call
    <3> QED
      BY <2>2, <2>3, ContinueType
  <2> QED
    BY <1>2, <1>8, <2>4 DEF FindEntity
<1>9. CASE EnsureEntity(w)
  <2>1. worker[w].owner \in Entity
    BY <1>1, <1>9 DEF Call, EnsureEntity, At
  <2> QED
    BY <1>3, <1>9, <2>1, ContentAssumption DEF EnsureEntity, Row
<1>10. ASSUME NEW o \in Observation, NEW v \in Content, AddObservation(w, o, v)
       PROVE  Goal
  <2>1. worker[w].owner \in Entity \cup {NoRow}
    BY <1>1 DEF Call
  <2> QED
    BY <1>3, <1>10, <2>1 DEF AddObservation, Row
<1>11. ASSUME NEW l \in Relation, AddRelation(w, l)
       PROVE  Goal
  BY <1>3, <1>11, ContentAssumption DEF AddRelation, Row
<1>12. ASSUME NEW r \in Row, DeleteOne(w, r)
       PROVE  Goal
  <2>1. cache' \in [Row -> CacheRow]
    BY <1>12, LocalType DEF DeleteOne
  <2> DEFINE writes == {Delete(q) : q \in {p \in {r} : Live(p)}}
  <2>2. writes \in SUBSET Write
    BY WriteType
  <2>3. ThenEnqueue(w, NoRow, writes)
    BY <1>12 DEF DeleteOne
  <2>4. worker' \in [Worker -> Call]
    <3> HIDE DEF writes
    <3> QED
      BY <2>2, <2>3, ThenEnqueueType
  <2> QED
    BY <1>12, <2>1, <2>4 DEF DeleteOne, CacheTypeOK, ToolsTypeOK
<1>13. ASSUME NEW e \in Entity, NEW texts \in (SUBSET Content) \ {{}},
              EraseObservations(w, e, texts)
       PROVE  Goal
  <2> DEFINE erased == {o \in Observation : /\ Owner[o] = e /\ Live(e)
                                            /\ Live(o) /\ cache[o].val \in texts}
             writes == {Delete(o) : o \in erased}
             call == [worker[w] EXCEPT !.at = "lookup", !.owner = e, !.texts = texts,
                                       !.writes = writes]
  <2>1. erased \in SUBSET Row
    BY DEF Row
  <2>2. writes \in SUBSET Write
    <3> HIDE DEF erased
    <3> QED
      BY <2>1, WriteType
  <2>3. DeleteLocal(erased) /\ Continue(w, call)
    BY <1>13 DEF EraseObservations
  <2>4. call \in Call
    <3> HIDE DEF writes
    <3>1. "lookup" \in Place /\ "lookup" # "ensure"
      BY DEF Place
    <3> QED
      BY <1>1, <2>2, <3>1, CallUpdate, <1>0, Zenon
  <2> HIDE DEF erased, call
  <2>5. cache' \in [Row -> CacheRow]
    BY <2>1, <2>3, LocalType
  <2>6. worker' \in [Worker -> Call]
    BY <2>3, <2>4, ContinueType
  <2> QED
    BY <1>13, <2>5, <2>6 DEF EraseObservations, CacheTypeOK, ToolsTypeOK
<1>14. CASE LookupErased(w)
  <2> DEFINE writes == {Delete(o) : o \in Found(w)}
  <2>1. writes \in SUBSET Write
    BY WriteType DEF Found, Row
  <2>2. ThenEnqueue(w, NoRow, writes)
    BY <1>14 DEF LookupErased
  <2>3. worker' \in [Worker -> Call]
    <3> HIDE DEF writes
    <3> QED
      BY <2>1, <2>2, ThenEnqueueType
  <2> QED
    BY <1>2, <1>14, <2>3 DEF LookupErased
<1>15. ASSUME NEW wr \in worker[w].writes, EnqueueWrite(w, wr)
       PROVE  Goal
  <2>1. wr \in Write
    BY <1>1 DEF Call
  <2>2. queue' \subseteq Entry /\ nextId' \in Nat
    BY <1>15, <2>1, EnqueueType DEF EnqueueWrite
  <2>3. worker' \in [Worker -> Call]
    BY <1>4, <1>15 DEF EnqueueWrite
  <2> QED
    BY <1>15, <2>2, <2>3 DEF EnqueueWrite, CacheTypeOK, ToolsTypeOK
<1>16. CASE RecordAudit(w)
  <2>1. queue' \subseteq Entry /\ nextId' \in Nat
    BY <1>16, WriteType, EnqueueType DEF RecordAudit
  <2>2. worker' \in [Worker -> Call]
    BY <1>6, <1>16, ContinueType DEF RecordAudit
  <2> QED
    BY <1>16, <2>1, <2>2 DEF RecordAudit, CacheTypeOK, ToolsTypeOK
<1>17. CASE TriggerSync(w)
  <2>1. worker' \in [Worker -> Call]
    BY <1>5, <1>17, ContinueType DEF TriggerSync
  <2> QED
    BY <1>2, <1>17, <2>1 DEF TriggerSync
<1>18. CASE AbortCall(w)
  <2>1. worker' \in [Worker -> Call]
    BY <1>5, <1>18, ContinueType DEF AbortCall
  <2> QED
    BY <1>2, <1>18, <2>1 DEF AbortCall
<1>19. ASSUME NEW wr \in worker[w].writes, DropWrite(w, wr)
       PROVE  Goal
  <2>1. worker' \in [Worker -> Call]
    BY <1>4, <1>19 DEF DropWrite
  <2> QED
    BY <1>2, <1>19, <2>1 DEF DropWrite
<1>20. CASE DropAudit(w)
  <2>1. worker' \in [Worker -> Call]
    BY <1>6, <1>20, ContinueType DEF DropAudit
  <2> QED
    BY <1>2, <1>20, <2>1 DEF DropAudit
<1> QED
  BY <1>7, <1>8, <1>9, <1>10, <1>11, <1>12, <1>13, <1>14, <1>15, <1>16, <1>17, <1>18, <1>19, <1>20
  DEF Handle, HandleFails, DeleteEntity, DeleteRelation, Row

\* Handlers touch the engine only through its trigger channel, and the server
\* not at all.
LEMMA HandleLeaves ==
  ASSUME NEW w \in Worker, Handle(w) \/ HandleFails(w)
  PROVE  /\ UNCHANGED <<mode, pc, drainVars, pullVars, serverVars, cursor>>
         /\ trig' \in {trig, TRUE}
<1> USE DEF engineVars, engineButTrig, drainVars, pullVars, cacheVars
<1>1. CASE Handle(w)
  BY <1>1 DEF Handle, CreateEntity, FindEntity, EnsureEntity, AddObservation, AddRelation,
     DeleteEntity, DeleteRelation, DeleteOne, EraseObservations, LookupErased, EnqueueWrite, RecordAudit, TriggerSync, Trigger
<1>2. CASE HandleFails(w)
  BY <1>2 DEF HandleFails, AbortCall, DropWrite, DropAudit
<1> QED
  BY <1>1, <1>2

\* What the other actors do to the types: peers write the server, time the queue.
LEMMA PeersType ==
  ASSUME ServerTypeOK, Peers
  PROVE  ServerTypeOK'
<1>1. ASSUME NEW r \in Row, NEW v \in Content, PeerUpsert(r, v)
      PROVE  ServerTypeOK'
  BY <1>1, UpsertAtType DEF PeerUpsert, ServerTypeOK
<1>2. ASSUME NEW r \in Row, PeerDelete(r)
      PROVE  ServerTypeOK'
  BY <1>2, DeleteAtType DEF PeerDelete, ServerTypeOK
<1>3. CASE FlipNetwork
  BY <1>3 DEF FlipNetwork, ServerTypeOK
<1> QED
  BY <1>1, <1>2, <1>3 DEF Peers

\* An operation whose backoff runs out keeps its type.
LEMMA BackoffType ==
  ASSUME CacheTypeOK, Backoff
  PROVE  CacheTypeOK'
<1>1. PICK op \in queue : Elapse(op)
  BY DEF Backoff
<1>2. op \in Entry
  BY DEF CacheTypeOK
<1>3. [op EXCEPT !.due = TRUE] \in Entry
  BY <1>2 DEF Entry
<1>4. queue' \subseteq Entry
  BY <1>1, <1>3 DEF Elapse, CacheTypeOK
<1> QED
  BY <1>4 DEF Backoff, CacheTypeOK

\* Every step keeps the types.
LEMMA StepType ==
  ASSUME TypeOK, [Next]_vars
  PROVE  TypeOK'
<1> USE DEF TypeOK
<1>1. CASE Peers
  BY <1>1, PeersType
  DEF Peers, cacheVars, engineVars, drainVars, pullVars, toolVars, CacheTypeOK, EngineTypeOK, ToolsTypeOK
<1>2. CASE Backoff
  BY <1>2, BackoffType
  DEF Backoff, serverVars, engineVars, drainVars, pullVars, toolVars, ServerTypeOK, EngineTypeOK, ToolsTypeOK
<1>3. CASE Sync
  BY <1>3, CycleType DEF Sync, toolVars, ToolsTypeOK
<1>4. ASSUME NEW w \in Worker, NEW tool \in Tool, Begin(w, tool)
      PROVE  TypeOK'
  <2>1. [NoCall EXCEPT !.tool = tool, !.at = "item"] \in Call
    BY DEF NoCall, Call, Place
  <2>2. worker' \in [Worker -> Call]
    BY <1>4, <2>1, ContinueType DEF Begin
  <2>3. ToolsTypeOK'
    BY <1>4, <2>2 DEF Begin, ToolsTypeOK
  <2> QED
    BY <1>4, <2>3
    DEF Begin, engineVars, cacheVars, serverVars, drainVars, pullVars,
        ServerTypeOK, CacheTypeOK, EngineTypeOK
<1>5. ASSUME NEW w \in Worker, Handle(w) \/ HandleFails(w)
      PROVE  TypeOK'
  <2>1. CacheTypeOK' /\ ToolsTypeOK'
    BY <1>5, HandleType
  <2>2. ServerTypeOK' /\ EngineTypeOK'
    BY <1>5, HandleLeaves DEF serverVars, drainVars, pullVars, ServerTypeOK, EngineTypeOK
  <2> QED
    BY <2>1, <2>2
<1>6. CASE Restart
  <2>1. ToolsTypeOK'
    BY <1>6 DEF Restart, Break, ToolsTypeOK, NoCall, Call, Place
  <2>2. EngineTypeOK'
    BY <1>6 DEF Restart, EngineTypeOK, Table
  <2> QED
    BY <1>6, <2>1, <2>2 DEF Restart, cacheVars, serverVars, ServerTypeOK, CacheTypeOK
<1>7. CASE UNCHANGED vars
  BY <1>7 DEF vars, serverVars, cacheVars, engineVars, drainVars, pullVars, toolVars,
     ServerTypeOK, CacheTypeOK, EngineTypeOK, ToolsTypeOK
<1> QED
  BY <1>1, <1>2, <1>3, <1>4, <1>5, <1>6, <1>7 DEF Next, Serve

\* Initially everything has its type.
LEMMA InitType ==
  ASSUME Init
  PROVE  TypeOK
<1>1. ServerTypeOK
  <2>1. Absent \in RemoteRow /\ [Absent EXCEPT !.ts = 1] \in RemoteRow
    BY ContentAssumption DEF Absent, RemoteRow
  <2> QED
    BY <2>1 DEF Init, ServerInit, ServerTypeOK
<1>2. CacheTypeOK
  BY ContentAssumption DEF Init, CacheInit, CacheTypeOK, Missing, CacheRow
<1>3. EngineTypeOK
  BY DEF Init, EngineInit, EngineTypeOK, Table
<1>4. ToolsTypeOK
  BY DEF Init, ToolsInit, ToolsTypeOK, NoCall, Call, Place
<1> QED
  BY <1>1, <1>2, <1>3, <1>4 DEF TypeOK

\* Every variable keeps its type: in particular what is left of a page is part
\* of the page, only audit records have no row, and a handler that is about to
\* create an entity knows which.
THEOREM TypeCorrect == Spec => []TypeOK
<1>1. Init => TypeOK
  BY InitType
<1>2. TypeOK /\ [Next]_vars => TypeOK'
  BY StepType
<1> QED
  BY <1>1, <1>2, PTL DEF Spec
=============================================================================
