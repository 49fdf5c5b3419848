---------------------------- MODULE CallersProofs --------------------------
(***************************************************************************)
(* What callers can rely on: the operations of a row reach the server in    *)
(* the order of the calls unless one fails, queued work wakes the engine,   *)
(* and a row that waits for its push has something that will push it.       *)
(***************************************************************************)
EXTENDS OutboxProofs, WellFoundedInduction

-----------------------------------------------------------------------------
(* What the engine peeks at *)

\* A set of natural numbers has a least element.
LEMMA LeastNumber ==
  ASSUME NEW S \in SUBSET Nat, S # {}
  PROVE  \E x \in S : \A y \in S : x <= y
<1> DEFINE less == OpToRel(<, Nat)
<1>1. IsWellFoundedOn(less, Nat)
  BY NatLessThanWellFounded
<1>2. \A x, y \in Nat : y < x => <<y, x>> \in less
  BY Zenon DEF OpToRel
<1> HIDE DEF less
<1>3. PICK x \in S : \A y \in S : ~(<<y, x>> \in less)
  BY <1>1, WFMin
<1>4. \A y \in S : ~(y < x)
  BY <1>2, <1>3
<1> QED
  BY <1>3, <1>4

\* Keys are numbers.
LEMMA KeysAreNumbers ==
  ASSUME TypeOK
  PROVE  /\ \A op \in queue : op.id \in Nat /\ op.due \in BOOLEAN /\ op.tried \in BOOLEAN
         /\ \A op \in batch : op.id \in Nat
         /\ nextId \in Nat
BY DEF TypeOK, CacheTypeOK, EngineTypeOK, Entry

\* The batch is closed downwards: an older operation that is due is peeked
\* before a newer one.
LEMMA PeekedInOrder ==
  ASSUME TypeOK, IsFiniteSet(queue), NEW op \in PeekDue, NEW q \in queue, q.due, q.id < op.id
  PROVE  q \in PeekDue
<1> DEFINE due == {p \in queue : p.due}
           older(x) == {p \in due : p.id < x.id}
<1>1. op \in due /\ Cardinality(older(op)) < BatchSize
  BY DEF PeekDue
<1>2. older(q) \subseteq older(op)
  BY <1>1, KeysAreNumbers
<1>3. IsFiniteSet(older(op)) /\ IsFiniteSet(older(q))
  BY FS_Subset
<1>4. Cardinality(older(q)) <= Cardinality(older(op))
  BY <1>2, <1>3, FS_Subset
<1>5. Cardinality(older(q)) \in Nat /\ Cardinality(older(op)) \in Nat
  BY <1>3, FS_CardinalityType
<1>6. Cardinality(older(q)) < BatchSize
  BY <1>1, <1>4, <1>5, BatchAssumption
<1> QED
  BY <1>6 DEF PeekDue

\* When an operation is due, the engine finds one.
LEMMA PeekFinds ==
  ASSUME TypeOK, NEW q \in queue, q.due
  PROVE  PeekDue # {}
<1> DEFINE due == {p \in queue : p.due}
           ids == {p.id : p \in due}
<1>1. ids \in SUBSET Nat /\ ids # {}
  BY KeysAreNumbers
<1>2. PICK op \in due : \A p \in due : op.id <= p.id
  <2>1. PICK i \in ids : \A j \in ids : i <= j
    <3> HIDE DEF ids
    <3> QED
      BY <1>1, LeastNumber
  <2> QED
    BY <2>1
<1>3. {p \in due : p.id < op.id} = {}
  BY <1>2, KeysAreNumbers
<1>4. Cardinality({p \in due : p.id < op.id}) < BatchSize
  BY <1>3, FS_EmptySet, BatchAssumption
<1> QED
  BY <1>2, <1>4 DEF PeekDue

-----------------------------------------------------------------------------
(* What a step does to the queue *)

\* The new row of an operation that is enqueued.
Queued(wr) == [id |-> nextId, do |-> wr.do, row |-> wr.row, val |-> wr.val,
               due |-> TRUE, tried |-> FALSE]

\* The record that a new operation becomes.
LEMMA QueuedFields ==
  ASSUME NEW wr, Enqueue(wr)
  PROVE  /\ queue' = queue \cup {Queued(wr)}
         /\ Queued(wr).id = nextId /\ Queued(wr).do = wr.do /\ Queued(wr).row = wr.row
         /\ Queued(wr).due = TRUE /\ Queued(wr).tried = FALSE
BY DEF Enqueue, Queued

\* The record that an operation becomes when it fails.
LEMMA PutOffFields ==
  ASSUME NEW op \in Entry
  PROVE  LET off == [op EXCEPT !.due = FALSE, !.tried = TRUE]
         IN  /\ off.id = op.id /\ off.do = op.do /\ off.row = op.row
             /\ off.due = FALSE /\ off.tried = TRUE
BY DEF Entry

\* The record that it becomes when its backoff runs out.
LEMMA DueAgainFields ==
  ASSUME NEW op \in Entry
  PROVE  LET again == [op EXCEPT !.due = TRUE]
         IN  /\ again.id = op.id /\ again.do = op.do /\ again.row = op.row
             /\ again.due = TRUE /\ again.tried = op.tried
BY DEF Entry

\* The operation that is removed or put off is one of the queue.
LEMMA NextIsQueued ==
  ASSUME TypeOK, QueueInv, NEW op \in batch, IsNext(op)
  PROVE  /\ op \in queue /\ op \in Entry /\ op.due
         /\ \A p \in batch : IsNext(p) => p = op
         /\ \A p \in queue : p.id = op.id => p = op
<1>1. op \in queue /\ batch \subseteq queue /\ op.due
  BY DEF QueueInv
<1>2. \A p \in queue : p.id = op.id => p = op
  BY <1>1 DEF QueueInv
<1>3. \A p \in batch : IsNext(p) => p.id = op.id
  BY KeysAreNumbers DEF IsNext
<1> QED
  BY <1>1, <1>2, <1>3 DEF TypeOK, CacheTypeOK

-----------------------------------------------------------------------------
(* Order *)

\* A step that leaves the queue alone, and the batch or empties it.
LEMMA OrderUntouched ==
  ASSUME OrderInv, UNCHANGED queue, pushed \subseteq pushed', batch' = batch \/ batch' = {}
  PROVE  OrderInv'
BY DEF OrderInv

\* A new operation is newer than the whole batch.
LEMMA EnqueueKeepsOrder ==
  ASSUME TypeOK, QueueInv, OrderInv, NEW wr, Enqueue(wr), UNCHANGED <<batch, pushed>>
  PROVE  OrderInv'
<1>1. IsFiniteSet(queue')
  BY QueuedFields, FS_AddElement DEF OrderInv
<1>2. \A op \in queue' : op.due \/ op.tried
  BY QueuedFields DEF OrderInv
<1>3. ASSUME NEW op \in batch, NEW q \in queue', q.id < op.id
      PROVE  q \in batch \/ q.tried \/ q.id \in pushed
  <2>1. op.id < nextId /\ nextId \in Nat /\ op.id \in Nat
    BY KeysAreNumbers DEF QueueInv
  <2>2. q \in queue \/ q.id = nextId
    BY <1>3, QueuedFields
  <2>3. q \in queue
    BY <1>3, <2>1, <2>2
  <2> QED
    BY <1>3, <2>3 DEF OrderInv
<1> QED
  BY <1>1, <1>2, <1>3 DEF OrderInv

\* An operation that becomes due again was tried, and is not in the batch.
LEMMA BackoffKeepsOrder ==
  ASSUME TypeOK, QueueInv, OrderInv, Backoff
  PROVE  OrderInv'
<1>1. PICK op \in queue : Elapse(op)
  BY DEF Backoff
<1> DEFINE again == [op EXCEPT !.due = TRUE]
<1>2. ~op.due /\ queue' = (queue \ {op}) \cup {again}
  BY <1>1 DEF Elapse
<1>3. op \in Entry
  BY DEF TypeOK, CacheTypeOK
<1>4. again.id = op.id /\ again.due = TRUE /\ again.tried = op.tried
  BY <1>3, DueAgainFields
<1>5. op \notin batch /\ op.tried
  BY <1>2 DEF QueueInv, OrderInv
<1>6. UNCHANGED <<batch, pushed>>
  BY DEF Backoff, engineVars, drainVars
<1> HIDE DEF again
<1>7. IsFiniteSet(queue')
  BY <1>2, FS_AddElement, FS_RemoveElement DEF OrderInv
<1> QED
  BY <1>2, <1>4, <1>5, <1>6, <1>7 DEF OrderInv

\* The engine takes the oldest operations that are due, and puts off only what
\* it tried.
LEMMA CycleKeepsOrder ==
  ASSUME TypeOK, QueueInv, OrderInv, Cycle
  PROVE  OrderInv'
<1> USE DEF drainVars, pullVars, cacheVars
<1>1. CASE Peek
  <2>1. CASE PeekDue = {}
    BY <1>1, <2>1, EndDrainEmpties, OrderUntouched DEF Peek
  <2>2. CASE PeekDue # {}
    <3>1. batch' = PeekDue /\ UNCHANGED <<queue, pushed>>
      BY <1>1, <2>2 DEF Peek
    <3>2. ASSUME NEW op \in PeekDue, NEW q \in queue, q.id < op.id, ~q.tried
          PROVE  q \in PeekDue
      BY <3>2, PeekedInOrder DEF OrderInv
    <3> QED
      BY <3>1, <3>2 DEF OrderInv
  <2> QED
    BY <2>1, <2>2
<1>2. ASSUME NEW op \in batch, Push(op) \/ PushLost(op)
      PROVE  OrderInv'
  BY <1>2, OrderUntouched DEF Push, PushLost
<1>3. ASSUME NEW op \in batch, Success(op)
      PROVE  OrderInv'
  <2>1. IsNext(op) /\ op.id \in pushed /\ batch' = batch \ {op} /\ UNCHANGED pushed
    BY <1>3 DEF Success, QueueInv
  <2>2. queue' = queue \ {op} \/ queue' = queue
    BY <1>3, <2>1, KeyNamesOne, NextIsQueued DEF Success
  <2>3. IsFiniteSet(queue')
    BY <2>2, FS_RemoveElement DEF OrderInv
  <2> QED
    BY <2>1, <2>2, <2>3 DEF OrderInv
<1>4. ASSUME NEW op \in batch, Failure(op)
      PROVE  OrderInv'
  <2>1. op \in queue /\ op \in Entry /\ batch' = {} /\ UNCHANGED pushed
    BY <1>4, EndDrainEmpties, NextIsQueued DEF Failure
  <2>2. CASE UNCHANGED queue
    BY <2>1, <2>2, OrderUntouched
  <2>3. CASE MarkFailure(op)
    <3> DEFINE off == [op EXCEPT !.due = FALSE, !.tried = TRUE]
    <3>1. queue' = (queue \ {op}) \cup {off}
      BY <2>1, <2>3, KeyNamesOne
    <3>2. off.tried
      BY <2>1, PutOffFields
    <3> HIDE DEF off
    <3>3. IsFiniteSet(queue')
      BY <3>1, FS_AddElement, FS_RemoveElement DEF OrderInv
    <3> QED
      BY <2>1, <3>1, <3>2, <3>3 DEF OrderInv
  <2> QED
    BY <1>4, <2>2, <2>3 DEF Failure
<1>5. CASE Tick \/ Triggered \/ PeekFails \/ Fetch \/ Advance \/ PullFail
  BY <1>5, EndDrainEmpties, OrderUntouched
  DEF Tick, Triggered, PeekFails, Fetch, Advance, PullFail
<1>6. ASSUME NEW op \in batch, PushFail(op) \/ Mark(op) \/ MarkFails(op)
      PROVE  OrderInv'
  BY <1>6, OrderUntouched DEF PushFail, Mark, MarkFails
<1>7. ASSUME NEW x \in todo, ApplyRow(x)
      PROVE  OrderInv'
  BY <1>7, OrderUntouched DEF ApplyRow
<1> QED
  BY <1>1, <1>2, <1>3, <1>4, <1>5, <1>6, <1>7 DEF Cycle

\* Only what failed is put off, and the batch has all older operations but for
\* those that were tried or executed.
THEOREM OrderCorrect == Spec => []OrderInv
<1>1. Init => OrderInv
  BY FS_EmptySet DEF Init, CacheInit, EngineInit, OrderInv
<1>2. TypeOK /\ QueueInv /\ OrderInv /\ [Next]_vars => OrderInv'
  <2> SUFFICES ASSUME TypeOK, QueueInv, OrderInv, [Next]_vars PROVE OrderInv'
    OBVIOUS
  <2> USE DEF cacheVars, engineVars, drainVars, pullVars
  <2>1. CASE Peers \/ Restart \/ UNCHANGED vars
    BY <2>1, OrderUntouched DEF Peers, Restart, vars
  <2>2. CASE Backoff
    BY <2>2, BackoffKeepsOrder
  <2>3. CASE Sync
    BY <2>3, CycleKeepsOrder DEF Sync
  <2>4. ASSUME NEW w \in Worker, NEW tool \in Tool, Begin(w, tool)
        PROVE  OrderInv'
    BY <2>4, OrderUntouched DEF Begin
  <2>5. ASSUME NEW w \in Worker, Handle(w) \/ HandleFails(w)
        PROVE  OrderInv'
    BY <2>5, HandleLeaves, HandlerEnqueues, EnqueueKeepsOrder, OrderUntouched
  <2> QED
    BY <2>1, <2>2, <2>3, <2>4, <2>5 DEF Next, Serve
<1> QED
  BY <1>1, <1>2, TypeCorrect, QueueCorrect, PTL DEF Spec

\* What the server executes has no older operation of its row before it, unless
\* that one was tried already.
LEMMA ExecutedInOrder ==
  ASSUME TypeOK, OrderInv, NEW op \in batch, IsNext(op)
  PROVE  \A q \in queue : q.id < op.id => q.tried \/ q.id \in pushed
<1> SUFFICES ASSUME NEW q \in queue, q.id < op.id
             PROVE  q.tried \/ q.id \in pushed
  OBVIOUS
<1>1. q \notin batch
  BY KeysAreNumbers DEF IsNext
<1> QED
  BY <1>1 DEF OrderInv

\* The operations of a row reach the server in the order in which they were
\* queued; only one that was tried before can be overtaken (queue.go: PeekDue;
\* push.go: drainOnce).
THEOREM OrderKept == Spec => OvertakenOnlyAfterFailure
<1>1. TypeOK /\ OrderInv /\ [Next]_vars =>
        [\A op \in batch :
           Executes(op) /\ op.row # NoRow =>
             \A q \in queue : q.row = op.row /\ q.id < op.id => q.tried \/ q.id \in pushed]_vars
  BY ExecutedInOrder DEF Executes, Push, PushLost
<1> QED
  BY <1>1, OrderCorrect, TypeCorrect, PTL DEF Spec, OvertakenOnlyAfterFailure
-----------------------------------------------------------------------------
(* Wakeups *)

Drains == {"peek", "push", "mark", "success", "failure"}

\* A step after which a drain runs, a trigger waits or a handler is busy.
LEMMA WokenNow ==
  ASSUME trig' \/ pc' \in Drains \/ \E w \in Worker : worker'[w].at # "idle"
  PROVE  WakeupInv'
BY DEF WakeupInv, Drains, At

\* A step that keeps what there is to wake the engine.
LEMMA StillWoken ==
  ASSUME WakeupInv, UNCHANGED <<queue, breaks, worker, trig>>,
         losses' = 0 => losses = 0, pc \in Drains => pc' \in Drains
  PROVE  WakeupInv'
BY DEF WakeupInv, Drains, At

\* After a loss or a break nothing is promised.
LEMMA LossExcuses ==
  ASSUME TypeOK, Lose \/ Break
  PROVE  WakeupInv'
BY DEF TypeOK, ServerTypeOK, ToolsTypeOK, Lose, Break, WakeupInv

\* A handler that does not fail is busy until it has triggered.
LEMMA HandlerTriggers ==
  ASSUME TypeOK, NEW w \in Worker, Handle(w)
  PROVE  trig' \/ worker'[w].at # "idle"
<1> USE DEF Continue, ThenEnqueue, Enqueued
<1>1. worker \in [Worker -> Call] /\ worker[w] \in Call
  BY DEF TypeOK, ToolsTypeOK
<1>2. ASSUME NEW owner, NEW writes, ThenEnqueue(w, owner, writes)
      PROVE  worker'[w].at # "idle"
  BY <1>1, <1>2 DEF Call
<1>3. ASSUME NEW wr, Enqueued(w, wr)
      PROVE  worker'[w].at # "idle"
  BY <1>1, <1>3 DEF Call
<1>4. ASSUME NEW e \in Entity, FindEntity(w, e)
      PROVE  worker'[w].at # "idle"
  BY <1>1, <1>4 DEF FindEntity, Call
<1>5. ASSUME NEW e, NEW texts, EraseObservations(w, e, texts)
      PROVE  worker'[w].at # "idle"
  BY <1>1, <1>5 DEF EraseObservations, Call
<1>6. CASE RecordAudit(w)
  BY <1>1, <1>6 DEF RecordAudit, Call
<1>7. CASE TriggerSync(w)
  BY <1>7 DEF TriggerSync, Trigger
<1> HIDE DEF Continue, ThenEnqueue, Enqueued
<1> QED
  BY <1>2, <1>3, <1>4, <1>5, <1>6, <1>7
  DEF Handle, CreateEntity, EnsureEntity, AddObservation, AddRelation,
      DeleteEntity, DeleteRelation, DeleteOne, LookupErased, EnqueueWrite

\* The engine looks at the queue once more before it rests.
LEMMA CycleKeepsWakeup ==
  ASSUME TypeOK, QueueInv, OrderInv, WakeupInv, Cycle, UNCHANGED toolVars
  PROVE  WakeupInv'
<1> USE DEF drainVars, pullVars, cacheVars, serverVars, toolVars
<1>1. losses \in Nat
  BY DEF TypeOK, ServerTypeOK
<1>2. CASE Tick \/ Triggered
  BY <1>2, WokenNow DEF Tick, Triggered, Drains
<1>3. CASE Peek
  <2>1. CASE PeekDue # {}
    BY <1>3, <2>1, WokenNow DEF Peek, Drains
  <2>2. CASE PeekDue = {}
    <3>1. \A op \in queue : op.tried
      BY <2>2, PeekFinds DEF OrderInv
    <3>2. UNCHANGED queue
      BY <1>3 DEF Peek
    <3> QED
      BY <3>1, <3>2 DEF WakeupInv
  <2> QED
    BY <2>1, <2>2
<1>4. CASE PeekFails
  BY <1>4, LossExcuses DEF PeekFails
<1>5. ASSUME NEW op \in batch,
             Push(op) \/ PushLost(op) \/ PushFail(op) \/ Mark(op) \/ MarkFails(op) \/ Success(op)
      PROVE  WakeupInv'
  <2>1. pc' \in Drains
    BY <1>5 DEF Push, PushLost, PushFail, Mark, MarkFails, Success, Drains
  <2> QED
    BY <2>1, WokenNow
<1>6. ASSUME NEW op \in batch, Failure(op)
      PROVE  WakeupInv'
  <2>1. op \in queue /\ op \in Entry
    BY <1>6, NextIsQueued DEF Failure
  <2>2. CASE Lose
    BY <2>2, LossExcuses
  <2>3. CASE MarkFailure(op)
    <3> DEFINE off == [op EXCEPT !.due = FALSE, !.tried = TRUE]
    <3>1. off \in queue' /\ off.tried
      BY <2>1, <2>3, KeyNamesOne, PutOffFields
    <3> QED
      BY <3>1 DEF WakeupInv
  <2> QED
    BY <1>6, <2>2, <2>3 DEF Failure
<1>7. CASE Fetch \/ Advance \/ PullFail
  <2>1. UNCHANGED <<queue, trig>> /\ pc \notin Drains
    BY <1>7 DEF Fetch, Advance, PullFail, Drains
  <2>2. losses' = 0 => losses = 0
    BY <1>1, <1>7 DEF Fetch, Advance, PullFail, Lose
  <2> QED
    BY <2>1, <2>2, StillWoken
<1>8. ASSUME NEW x \in todo, ApplyRow(x)
      PROVE  WakeupInv'
  BY <1>8, StillWoken DEF ApplyRow
<1> QED
  BY <1>2, <1>3, <1>4, <1>5, <1>6, <1>7, <1>8 DEF Cycle

\* As long as nothing has failed, queued work has a trigger, a running drain or
\* a busy handler.
THEOREM WakeupCorrect == Spec => []WakeupInv
<1>1. Init => WakeupInv
  BY DEF Init, CacheInit, WakeupInv
<1>2. TypeOK /\ QueueInv /\ OrderInv /\ WakeupInv /\ [Next]_vars => WakeupInv'
  <2> SUFFICES ASSUME TypeOK, QueueInv, OrderInv, WakeupInv, [Next]_vars PROVE WakeupInv'
    OBVIOUS
  <2> USE DEF cacheVars, engineVars, drainVars, pullVars, serverVars, toolVars
  <2>1. CASE Peers
    <3>1. UNCHANGED <<losses, queue, breaks, worker, trig, pc>>
      BY <2>1 DEF Peers, PeerUpsert, PeerDelete, FlipNetwork
    <3> QED
      BY <3>1, StillWoken
  <2>2. CASE Backoff
    <3>1. PICK op \in queue : Elapse(op)
      BY <2>2 DEF Backoff
    <3>2. op.tried
      BY <3>1 DEF Elapse, OrderInv
    <3>3. [op EXCEPT !.due = TRUE].tried = op.tried
      BY DueAgainFields DEF TypeOK, CacheTypeOK
    <3>4. [op EXCEPT !.due = TRUE] \in queue'
      BY <3>1 DEF Elapse
    <3> QED
      BY <3>2, <3>3, <3>4 DEF WakeupInv
  <2>3. CASE Sync
    BY <2>3, CycleKeepsWakeup DEF Sync
  <2>4. ASSUME NEW w \in Worker, NEW tool \in Tool, Begin(w, tool)
        PROVE  WakeupInv'
    <3>1. worker'[w].at = "item"
      BY <2>4 DEF Begin, Continue, NoCall, TypeOK, ToolsTypeOK
    <3> QED
      BY <3>1, WokenNow
  <2>5. ASSUME NEW w \in Worker, Handle(w)
        PROVE  WakeupInv'
    BY <2>5, HandlerTriggers, WokenNow
  <2>6. ASSUME NEW w \in Worker, HandleFails(w)
        PROVE  WakeupInv'
    BY <2>6, LossExcuses DEF HandleFails, AbortCall, DropWrite, DropAudit
  <2>7. CASE Restart
    BY <2>7, LossExcuses DEF Restart
  <2>8. CASE UNCHANGED vars
    BY <2>8, StillWoken DEF vars
  <2> QED
    BY <2>1, <2>2, <2>3, <2>4, <2>5, <2>6, <2>7, <2>8 DEF Next, Serve
<1> QED
  BY <1>1, <1>2, TypeCorrect, QueueCorrect, OrderCorrect, PTL DEF Spec

\* No wakeup is lost: as long as nothing has failed, an engine that rests beside
\* queued work has a trigger waiting, although a trigger is dropped when there
\* is one already (engine.go: Trigger, Run, cycle).
THEOREM WakeupKept == Spec => []NoLostWakeup
<1>1. WakeupInv => NoLostWakeup
  BY DEF WakeupInv, NoLostWakeup
<1> QED
  BY <1>1, WakeupCorrect, PTL
-----------------------------------------------------------------------------
(* Carriers *)

\* A write leaves its row on the server, and takes none away.
LEMMA WritePersists ==
  ASSUME ServerTypeOK, NEW r \in Row, NEW v, NEW s \in Stamp, UpsertAt(r, v, s) \/ DeleteAt(r, s)
  PROVE  Present(r)' /\ \A q \in Row : Present(q) => Present(q)'
<1>1. s # 0
  BY DEF Stamp, ServerTypeOK
<1>2. remote'[r].ts = s
  BY DEF UpsertAt, DeleteAt, ServerTypeOK, RemoteRow
<1>3. \A q \in Row : q # r => remote'[q] = remote[q]
  BY DEF UpsertAt, DeleteAt, ServerTypeOK
<1> QED
  BY <1>1, <1>2, <1>3 DEF Present

\* An operation that is executed takes no row away, and leaves the one it
\* writes.
LEMMA ExecutePersists ==
  ASSUME ServerTypeOK, NEW op \in Entry, NEW s \in Stamp, Execute(op, s)
  PROVE  /\ \A q \in Row : Present(q) => Present(q)'
         /\ op.do = "upsert" => Present(op.row)'
         /\ op.do = "delete" => (reply' = 0 /\ ~Present(op.row)) \/ Present(op.row)'
<1>1. op.do # "audit" => op.row \in Row
  BY DEF Entry
<1>2. CASE op.do = "upsert" /\ UpsertAt(op.row, op.val, s)
  BY <1>1, <1>2, WritePersists
<1>3. CASE op.do = "delete" /\ DeleteAt(op.row, s)
  BY <1>1, <1>3, WritePersists
<1>4. CASE op.do = "delete" /\ ~Present(op.row) /\ reply' = 0 /\ UNCHANGED <<remote, clock>>
  BY <1>4 DEF Present
<1>5. CASE op.do = "audit" /\ UNCHANGED <<remote, clock>>
  BY <1>5 DEF Present
<1> QED
  BY <1>2, <1>3, <1>4, <1>5 DEF Execute

\* What peers do takes no row away.
LEMMA PeersPersist ==
  ASSUME ServerTypeOK, Peers
  PROVE  \A q \in Row : Present(q) => Present(q)'
<1>1. ASSUME NEW r \in Row, NEW v \in Content, PeerUpsert(r, v)
      PROVE  \A q \in Row : Present(q) => Present(q)'
  BY <1>1, WritePersists DEF PeerUpsert
<1>2. ASSUME NEW r \in Row, PeerDelete(r)
      PROVE  \A q \in Row : Present(q) => Present(q)'
  BY <1>2, WritePersists, ContentAssumption DEF PeerDelete
<1>3. CASE FlipNetwork
  BY <1>3 DEF FlipNetwork, Present
<1> QED
  BY <1>1, <1>2, <1>3 DEF Peers

\* A step that keeps the page and the batch, or is done with them.
LEMMA PresentKept ==
  ASSUME TypeOK, PresentInv, \A q \in Row : Present(q) => Present(q)',
         page' \in {page, {}},
         UNCHANGED <<pc, batch>> \/ pc' \notin {"mark", "success"}
  PROVE  PresentInv'
<1>1. page \subseteq PulledRow /\ batch \subseteq Entry
  BY DEF TypeOK, EngineTypeOK
<1>2. \A x \in page' : Present(x.row)'
  BY <1>1 DEF PresentInv, PulledRow
<1>3. ASSUME UNCHANGED <<pc, batch>>
      PROVE  /\ pc = "mark" =>
                  \A op \in batch : IsNext(op) /\ op.do # "audit" => Present(op.row)'
             /\ pc = "success" =>
                  \A op \in batch : IsNext(op) /\ op.do = "upsert" => Present(op.row)'
  <2>1. \A op \in batch : op.do # "audit" => op.row \in Row
    BY <1>1 DEF Entry
  <2>2. \A op \in batch : op.do = "upsert" => op.row \in Row
    BY <2>1
  <2> QED
    BY <2>1, <2>2 DEF PresentInv
<1> QED
  BY <1>2, <1>3 DEF PresentInv, IsNext

\* There is one next operation.
LEMMA OneIsNext ==
  ASSUME TypeOK, BatchKeys, NEW op \in batch, IsNext(op)
  PROVE  op \in Entry /\ \A p \in batch : IsNext(p) => p = op
<1>1. batch \subseteq Entry
  BY DEF TypeOK, EngineTypeOK
<1>2. \A p \in batch : p.id \in Nat
  BY <1>1 DEF Entry
<1>3. \A p \in batch : IsNext(p) => p.id = op.id
  BY <1>2 DEF IsNext
<1> QED
  BY <1>1, <1>3 DEF BatchKeys

\* A step of the engine marks what is on the server, and applies what was there.
LEMMA CycleKeepsPresent ==
  ASSUME TypeOK, BatchKeys, PresentInv, Cycle
  PROVE  /\ PresentInv'
         /\ \A q \in Row : Present(q) => Present(q)'
<1> USE DEF drainVars, pullVars, cacheVars, serverVars
<1>1. ASSUME NEW op \in batch, Push(op) \/ PushLost(op)
      PROVE  /\ PresentInv'
             /\ \A q \in Row : Present(q) => Present(q)'
  <2>1. PICK s \in Stamp : Execute(op, s)
    BY <1>1 DEF Push, PushLost
  <2>2. IsNext(op) /\ op \in Entry /\ \A p \in batch : IsNext(p) => p = op
    BY <1>1, OneIsNext DEF Push, PushLost
  <2>3. /\ \A q \in Row : Present(q) => Present(q)'
        /\ op.do = "upsert" => Present(op.row)'
        /\ op.do = "delete" => reply' = 0 \/ Present(op.row)'
    BY <2>1, <2>2, ExecutePersists DEF TypeOK
  <2>4. UNCHANGED <<page, batch>>
    BY <1>1 DEF Push, PushLost
  <2>5. \A x \in page' : Present(x.row)'
    BY <2>3, <2>4 DEF PresentInv, TypeOK, EngineTypeOK, PulledRow
  <2>6. op.do \in {"upsert", "delete", "audit"}
    BY <2>2 DEF Entry
  <2>7. /\ pc' = "mark" => ~(op.do = "delete" /\ reply' = 0)
        /\ pc' = "success" => op.do = "delete"
    BY <1>1 DEF Push, PushLost
  <2> QED
    BY <2>2, <2>3, <2>4, <2>5, <2>6, <2>7 DEF PresentInv, IsNext
<1>2. ASSUME UNCHANGED remote
      PROVE  \A q \in Row : Present(q) => Present(q)'
  BY <1>2 DEF Present
<1>3. ASSUME NEW op \in batch, Mark(op)
      PROVE  PresentInv' /\ UNCHANGED remote
  <2>1. IsNext(op) /\ \A p \in batch : IsNext(p) => p = op
    BY <1>3, OneIsNext DEF Mark
  <2>2. UNCHANGED <<remote, page, batch>> /\ pc = "mark" /\ pc' = "success"
    BY <1>3 DEF Mark
  <2>3. op.do = "upsert" => Present(op.row)
    BY <2>1, <2>2 DEF PresentInv
  <2> QED
    BY <2>1, <2>2, <2>3 DEF PresentInv, IsNext, Present
<1>4. CASE Fetch
  <2> DEFINE rows == FirstRows(Newer(table, cursor[table], sinceId), PageSize)
  <2>1. rows \subseteq RowsOf(table)
    BY DEF FirstRows, Newer
  <2>2. \A x \in rows : Present(x.row)
    BY <2>1 DEF RowsOf, Snapshot
  <2>3. page' \in {rows, {}} /\ UNCHANGED <<remote, batch>> /\ pc' \notin {"mark", "success"}
    <3>1. NextTable \/ (page' = rows /\ pc' = "apply")
      BY <1>4 DEF Fetch
    <3>2. UNCHANGED <<remote, batch>>
      BY <1>4 DEF Fetch
    <3> HIDE DEF rows
    <3> QED
      BY <3>1, <3>2 DEF NextTable, PullFrom, EndPull, EndCycle
  <2> HIDE DEF rows
  <2> QED
    BY <1>2, <2>2, <2>3 DEF PresentInv, Present
<1>5. ASSUME UNCHANGED remote, page' \in {page, {}},
             UNCHANGED <<pc, batch>> \/ pc' \notin {"mark", "success"}
      PROVE  PresentInv'
  BY <1>2, <1>5, PresentKept
<1>6. CASE Tick \/ Triggered \/ Advance \/ PullFail
  BY <1>2, <1>5, <1>6
  DEF Tick, Triggered, Advance, PullFail, NextTable, PullFrom, EndPull, EndCycle
<1>7. CASE Peek \/ PeekFails
  BY <1>2, <1>5, <1>7
  DEF Peek, PeekFails, EndDrain, PullFrom, EndCycle
<1>8. ASSUME NEW op \in batch, PushFail(op) \/ MarkFails(op) \/ Success(op) \/ Failure(op)
      PROVE  /\ PresentInv'
             /\ \A q \in Row : Present(q) => Present(q)'
  BY <1>2, <1>5, <1>8
  DEF PushFail, MarkFails, Success, Failure, EndDrain, PullFrom, EndCycle
<1>9. ASSUME NEW x \in todo, ApplyRow(x)
      PROVE  PresentInv' /\ UNCHANGED remote
  BY <1>5, <1>9 DEF ApplyRow
<1> QED
  BY <1>1, <1>2, <1>3, <1>4, <1>6, <1>7, <1>8, <1>9 DEF Cycle

\* Rows that come or change keep the lookups' join, and lookups their entity.
LEMMA LookupKept ==
  ASSUME LookupInv,
         \A r \in Row : cache'[r] = cache[r] \/ cache'[r].sync # "none",
         \A w \in Worker : worker'[w] = worker[w]
                           \/ (worker'[w].at = "lookup" => worker'[w].owner \in Entity)
  PROVE  LookupInv'
BY DEF LookupInv, At

\* What a handler is to enqueue for a row it still is after a step of others, or
\* the row is not pending any more.
LEMMA CarriesKept ==
  ASSUME LookupInv, NEW w \in Worker, UNCHANGED worker[w],
         \A q \in Row : cache'[q] = cache[q] \/ cache'[q].sync # "none",
         NEW r \in Row, cache'[r] = cache[r], Carries(w, r)
  PROVE  Carries(w, r)'
<1>1. worker'[w] = worker[w]
  OBVIOUS
<1>2. CASE At(w, "enqueue") /\ \E wr \in worker[w].writes : wr.row = r
  BY <1>1, <1>2 DEF Carries, At
<1>3. CASE At(w, "lookup") /\ r \in Found(w)
  <2>1. /\ r \in Observation /\ Owner[r] = worker[w].owner
        /\ cache[worker[w].owner] # Missing
        /\ Pending(r) /\ cache[r].dead /\ cache[r].val \in worker[w].texts
    BY <1>3 DEF Found
  <2>2. worker[w].owner \in Row /\ cache[worker[w].owner].sync # "none"
    BY <1>3, <2>1 DEF LookupInv, Row
  <2>3. cache'[worker[w].owner] # Missing
    BY <2>1, <2>2 DEF Missing
  <2>4. r \in Found(w)'
    BY <1>1, <2>1, <2>3 DEF Found, Pending
  <2> QED
    BY <1>1, <1>3, <2>4 DEF Carries, At
<1> QED
  BY <1>2, <1>3 DEF Carries

\* Every row is covered in the next state.
CoveredNext(held, owing, leaving) ==
  \A r \in Row :
    /\ cache'[r].sync # "none" =>
         Present(r)' \/ r \in owing \/ \E q \in queue' : q.row = r /\ q.do = "upsert"
    /\ Pending(r)' =>
         r \in held \/ \E q \in queue' : q.row = r /\ q.id \notin leaving

\* What covers a row goes on to cover it, or something else does: a changed row
\* is synced and on the server, or held by a handler; what handlers held they
\* still hold or have queued; the operations that go were about to; and one that
\* is about to go from now on is of a row that does not wait, or is a deletion
\* that found nothing, so that the insertion of its row is yet to come.
LEMMA StaysCovered ==
  ASSUME NEW held, NEW owing, NEW leaving, NEW heldN, NEW owingN, NEW leavingN,
         Covered(held, owing, leaving), owing \subseteq held,
         \A r \in Row : Present(r) => Present(r)',
         \A r \in Row : \/ cache'[r] = cache[r]
                        \/ cache'[r].sync = "synced" /\ Present(r)'
                        \/ r \in heldN /\ (cache[r].sync # "none" \/ r \in owingN),
         \A r \in held : cache'[r] = cache[r] =>
           r \in heldN \/ \E q \in queue' : q.row = r /\ q.id \notin leavingN,
         \A r \in owing : r \in owingN \/ \E q \in queue' : q.row = r /\ q.do = "upsert",
         \A q \in queue : q.id \in leaving /\ q.do = "upsert" => Present(q.row),
         \A q \in queue : \/ q.id \in leaving
                          \/ \E p \in queue' : p.id = q.id /\ p.row = q.row /\ p.do = q.do,
         \A q \in queue : q.id \in leavingN /\ q.row \in Row =>
           \/ q.id \in leaving
           \/ ~Pending(q.row)'
           \/ q.do = "delete" /\ ~Present(q.row)
  PROVE  CoveredNext(heldN, owingN, leavingN)
<1> SUFFICES ASSUME NEW r \in Row
             PROVE  /\ cache'[r].sync # "none" =>
                         \/ Present(r)' \/ r \in owingN
                         \/ \E q \in queue' : q.row = r /\ q.do = "upsert"
                    /\ Pending(r)' =>
                         r \in heldN \/ \E q \in queue' : q.row = r /\ q.id \notin leavingN
  BY DEF CoveredNext
<1>1. ASSUME NEW q \in queue, q.row = r, q.do = "upsert"
      PROVE  Present(r)' \/ \E p \in queue' : p.row = r /\ p.do = "upsert"
  BY <1>1
<1>2. ASSUME cache'[r].sync # "none"
      PROVE  \/ Present(r)' \/ r \in owingN
             \/ \E q \in queue' : q.row = r /\ q.do = "upsert"
  <2>1. CASE cache[r].sync # "none"
    <3>1. Present(r) \/ r \in owing \/ \E q \in queue : q.row = r /\ q.do = "upsert"
      BY <2>1 DEF Covered
    <3> QED
      BY <1>1, <3>1
  <2>2. CASE cache[r].sync = "none"
    BY <1>2, <2>2
  <2> QED
    BY <2>1, <2>2
<1>3. ASSUME cache'[r] = cache[r], Pending(r)', NEW q \in queue, q.row = r, q.id \notin leaving
      PROVE  r \in heldN \/ \E p \in queue' : p.row = r /\ p.id \notin leavingN
  <2>1. CASE q.id \notin leavingN
    BY <1>3, <2>1
  <2>2. CASE q.id \in leavingN
    <3>1. q.do = "delete" /\ ~Present(r)
      BY <1>3, <2>2
    <3>2. r \in owing \/ \E u \in queue : u.row = r /\ u.do = "upsert"
      BY <1>3, <3>1 DEF Covered, Pending
    <3>3. CASE r \in owing
      BY <1>3, <3>3
    <3>4. ASSUME NEW u \in queue, u.row = r, u.do = "upsert"
          PROVE  \E p \in queue' : p.row = r /\ p.id \notin leavingN
      <4>1. u.id \notin leaving
        BY <3>1, <3>4
      <4>2. u.id \notin leavingN
        BY <1>3, <3>4, <4>1
      <4> QED
        BY <3>4, <4>1, <4>2
    <3> QED
      BY <3>2, <3>3, <3>4
  <2> QED
    BY <2>1, <2>2
<1>4. ASSUME Pending(r)'
      PROVE  r \in heldN \/ \E q \in queue' : q.row = r /\ q.id \notin leavingN
  <2>1. CASE cache'[r] = cache[r]
    <3>1. r \in held \/ \E q \in queue : q.row = r /\ q.id \notin leaving
      BY <1>4, <2>1 DEF Covered, Pending
    <3> QED
      BY <1>3, <1>4, <2>1, <3>1
  <2>2. CASE cache'[r].sync = "synced"
    BY <1>4, <2>2 DEF Pending
  <2> QED
    BY <2>1, <2>2
<1> QED
  BY <1>2, <1>4

\* Handlers that take no step still hold the rows that do not change.
LEMMA HeldKept ==
  ASSUME LookupInv, UNCHANGED worker,
         \A q \in Row : cache'[q] = cache[q] \/ cache'[q].sync # "none"
  PROVE  /\ \A r \in Held : cache'[r] = cache[r] => r \in Held'
         /\ Owing' = Owing
         /\ LookupInv'
<1>1. ASSUME NEW r \in Row, cache'[r] = cache[r], NEW w \in Worker, Carries(w, r)
      PROVE  Carries(w, r)'
  BY <1>1, CarriesKept
<1>2. \A r \in Held : cache'[r] = cache[r] => r \in Held'
  BY <1>1 DEF Held
<1>3. Owing' = Owing
  BY DEF Owing, Owes, At
<1> QED
  BY <1>2, <1>3, LookupKept

\* Who owes an insertion holds its row.
LEMMA OwingIsHeld == Owing \subseteq Held
BY DEF Owing, Held, Owes, Carries

\* An insertion about to leave the queue has reached the server.
LEMMA LeavingIsPresent ==
  ASSUME BatchKeys, PresentInv
  PROVE  \A q \in queue : q.id \in Leaving /\ q.do = "upsert" => Present(q.row)
BY DEF BatchKeys, PresentInv, Leaving

-----------------------------------------------------------------------------
(* The engine *)

\* A step of the engine, of peers or of time takes no row from the server, makes
\* rows synced that the server has, removes an operation it was about to remove,
\* and is about to remove another only when its row was marked, or when there
\* was nothing to delete.
Drives ==
  /\ \A r \in Row : Present(r) => Present(r)'
  /\ \A r \in Row : cache'[r] = cache[r] \/ (cache'[r].sync = "synced" /\ Present(r)')
  /\ \A q \in queue : \/ q.id \in Leaving
                      \/ \E p \in queue' : p.id = q.id /\ p.row = q.row /\ p.do = q.do
  /\ \/ UNCHANGED <<pc, batch>>
     \/ pc' # "success"
     \/ \E op \in batch :
          /\ batch' = batch /\ IsNext(op)
          /\ \A p \in batch : IsNext(p) => p = op
          /\ op.row \in Row =>
               ~Pending(op.row)' \/ (op.do = "delete" /\ ~Present(op.row))

\* The operations that leave from now on.
LEMMA LeavingAfter ==
  ASSUME BatchKeys, Drives
  PROVE  \A q \in queue : q.id \in Leaving' /\ q.row \in Row =>
           \/ q.id \in Leaving
           \/ ~Pending(q.row)'
           \/ q.do = "delete" /\ ~Present(q.row)
<1>1. CASE UNCHANGED <<pc, batch>>
  BY <1>1 DEF Leaving, IsNext
<1>2. CASE pc' # "success"
  BY <1>2 DEF Leaving
<1>3. ASSUME NEW op \in batch, batch' = batch, IsNext(op),
             \A p \in batch : IsNext(p) => p = op,
             op.row \in Row => ~Pending(op.row)' \/ (op.do = "delete" /\ ~Present(op.row))
      PROVE  \A q \in queue : q.id \in Leaving' /\ q.row \in Row =>
               ~Pending(q.row)' \/ (q.do = "delete" /\ ~Present(q.row))
  <2>1. \A id \in Leaving' : id = op.id
    BY <1>3 DEF Leaving, IsNext
  <2>2. \A q \in queue : q.id = op.id => q.do = op.do /\ q.row = op.row
    BY DEF BatchKeys
  <2> QED
    BY <1>3, <2>1, <2>2
<1> QED
  BY <1>1, <1>2, <1>3 DEF Drives

\* An operation that fails, or whose backoff runs out, stays in the queue.
LEMMA RescheduleKeeps ==
  ASSUME CacheTypeOK, NEW op
  PROVE  MarkFailure(op) \/ (op \in queue /\ Elapse(op)) =>
           \A q \in queue : \E p \in queue' : p.id = q.id /\ p.row = q.row /\ p.do = q.do
<1>0. \A q \in queue : q \in Entry
  BY DEF CacheTypeOK
<1>1. ASSUME MarkFailure(op), NEW q \in queue
      PROVE  \E p \in queue' : p.id = q.id /\ p.row = q.row /\ p.do = q.do
  <2> DEFINE off(x) == [x EXCEPT !.due = FALSE, !.tried = TRUE]
  <2>1. queue' = Others(op) \cup {off(x) : x \in queue \ Others(op)}
    BY <1>1 DEF MarkFailure
  <2>2. off(q).id = q.id /\ off(q).row = q.row /\ off(q).do = q.do
    BY <1>0, PutOffFields
  <2> HIDE DEF off
  <2> QED
    BY <2>1, <2>2
<1>2. ASSUME op \in queue, Elapse(op), NEW q \in queue
      PROVE  \E p \in queue' : p.id = q.id /\ p.row = q.row /\ p.do = q.do
  <2> DEFINE again == [op EXCEPT !.due = TRUE]
  <2>1. queue' = (queue \ {op}) \cup {again}
    BY <1>2 DEF Elapse
  <2>2. again.id = op.id /\ again.row = op.row /\ again.do = op.do
    BY <1>0, <1>2, DueAgainFields
  <2> HIDE DEF again
  <2> QED
    BY <2>1, <2>2
<1> QED
  BY <1>1, <1>2

\* Every statement of the engine is such a step.
LEMMA CycleDrives ==
  ASSUME TypeOK, BatchKeys, PresentInv, Cycle
  PROVE  Drives
<1> USE DEF drainVars, pullVars, cacheVars, serverVars
<1>1. \A r \in Row : Present(r) => Present(r)'
  BY CycleKeepsPresent
<1>2. ASSUME UNCHANGED <<cache, queue>>, pc' # "success"
      PROVE  Drives
  BY <1>1, <1>2 DEF Drives
<1>3. CASE Tick \/ Triggered \/ Peek \/ PeekFails
  BY <1>2, <1>3 DEF Tick, Triggered, Peek, PeekFails, EndDrain, PullFrom, EndCycle
<1>4. ASSUME NEW op \in batch, PushLost(op) \/ PushFail(op) \/ MarkFails(op)
      PROVE  Drives
  BY <1>2, <1>4 DEF PushLost, PushFail, MarkFails
<1>5. ASSUME NEW op \in batch, Push(op)
      PROVE  Drives
  <2>1. UNCHANGED <<cache, queue, batch>> /\ IsNext(op)
    BY <1>5 DEF Push
  <2>2. CASE pc' # "success"
    BY <1>2, <2>1, <2>2
  <2>3. CASE pc' = "success"
    <3>1. op.do = "delete" /\ reply' = 0
      BY <1>5, <2>3 DEF Push
    <3>2. PICK s \in Stamp : Execute(op, s)
      BY <1>5 DEF Push
    <3>3. s # 0
      BY DEF Stamp, TypeOK, ServerTypeOK
    <3>4. ~Present(op.row)
      BY <3>1, <3>2, <3>3 DEF Execute
    <3>5. \A p \in batch : IsNext(p) => p = op
      BY <2>1, OneIsNext
    <3> QED
      BY <1>1, <2>1, <3>1, <3>4, <3>5 DEF Drives
  <2> QED
    BY <2>2, <2>3
<1>6. ASSUME NEW op \in batch, Mark(op)
      PROVE  Drives
  <2>1. UNCHANGED <<queue, batch, remote>> /\ pc = "mark" /\ IsNext(op)
    BY <1>6 DEF Mark
  <2>2. op \in Entry /\ \A p \in batch : IsNext(p) => p = op
    BY <2>1, OneIsNext
  <2>3. op.do # "audit" => op.row \in Row /\ Present(op.row)
    BY <2>1, <2>2 DEF PresentInv, Entry
  <2>4. op.do = "audit" => op.row \notin Row /\ UNCHANGED cache
    BY <1>6, <2>2, RowAssumption DEF Mark, Entry
  <2>5. op.do # "audit" => /\ cache'[op.row].sync = "synced"
                           /\ \A r \in Row : r # op.row => cache'[r] = cache[r]
    BY <1>6, <2>3 DEF Mark, MarkSynced, TypeOK, CacheTypeOK, CacheRow
  <2>6. \A r \in Row : cache'[r] = cache[r] \/ (cache'[r].sync = "synced" /\ Present(r)')
    BY <1>1, <2>3, <2>4, <2>5
  <2>7. op.row \in Row => ~Pending(op.row)'
    BY <2>4, <2>5 DEF Pending
  <2> QED
    BY <1>1, <2>1, <2>2, <2>6, <2>7 DEF Drives
<1>7. ASSUME NEW op \in batch, Success(op)
      PROVE  Drives
  <2>1. UNCHANGED cache /\ pc = "success" /\ pc' # "success" /\ IsNext(op)
    BY <1>7 DEF Success
  <2>2. op.id \in Leaving
    BY <2>1 DEF Leaving
  <2>3. queue' = Others(op) \/ queue' = queue
    BY <1>7 DEF Success, MarkSuccess
  <2>4. \A q \in queue : q.id = op.id \/ q \in queue'
    BY <2>3 DEF Others
  <2> QED
    BY <1>1, <2>1, <2>2, <2>4 DEF Drives
<1>8. ASSUME NEW op \in batch, Failure(op)
      PROVE  Drives
  <2>1. UNCHANGED cache /\ pc' # "success"
    BY <1>8 DEF Failure, EndDrain, PullFrom, EndCycle
  <2>2. \A q \in queue : \E p \in queue' : p.id = q.id /\ p.row = q.row /\ p.do = q.do
    BY <1>8, RescheduleKeeps DEF Failure, TypeOK
  <2> QED
    BY <1>1, <2>1, <2>2 DEF Drives
<1>9. CASE Fetch \/ Advance \/ PullFail
  BY <1>2, <1>9 DEF Fetch, Advance, PullFail, NextTable, PullFrom, EndPull, EndCycle
<1>10. ASSUME NEW x \in todo, ApplyRow(x)
       PROVE  Drives
  <2>1. x \in page /\ x.row \in Row
    BY DEF TypeOK, EngineTypeOK, PulledRow
  <2>2. UNCHANGED <<queue, batch, pc, remote>> /\ ApplyPulled(x)
    BY <1>10 DEF ApplyRow
  <2>3. Present(x.row)'
    BY <1>1, <2>1 DEF PresentInv
  <2>4. \A r \in Row : cache'[r] = cache[r] \/ (r = x.row /\ cache'[r].sync = "synced")
    BY <2>1, <2>2 DEF ApplyPulled, TypeOK, CacheTypeOK
  <2> QED
    BY <1>1, <2>2, <2>3, <2>4 DEF Drives
<1> QED
  BY <1>3, <1>4, <1>5, <1>6, <1>7, <1>8, <1>9, <1>10 DEF Cycle

\* Such a step leaves every row with what it needs.
LEMMA DrivesKeepsOwed ==
  ASSUME QueueInv, CarrierInv, UNCHANGED <<worker, breaks>>, Drives
  PROVE  LookupInv' /\ OwedInv'
<1>1. BatchKeys
  BY DEF QueueInv, BatchKeys
<1>2. \A q \in Row : cache'[q] = cache[q] \/ cache'[q].sync # "none"
  BY DEF Drives
<1>3. /\ \A r \in Held : cache'[r] = cache[r] => r \in Held'
      /\ Owing' = Owing
      /\ LookupInv'
  BY <1>2, HeldKept DEF CarrierInv
<1>4. \A q \in queue : q.id \in Leaving' /\ q.row \in Row =>
        \/ q.id \in Leaving
        \/ ~Pending(q.row)'
        \/ q.do = "delete" /\ ~Present(q.row)
  BY <1>1, LeavingAfter
<1>5. \A q \in queue : q.id \in Leaving /\ q.do = "upsert" => Present(q.row)
  BY <1>1, LeavingIsPresent DEF CarrierInv
<1>6. ASSUME breaks = 0
      PROVE  CoveredNext(Held', Owing', Leaving')
  <2>1. Covered(Held, Owing, Leaving)
    BY <1>6 DEF CarrierInv, OwedInv
  <2>2. /\ \A r \in Row : Present(r) => Present(r)'
        /\ \A r \in Row : cache'[r] = cache[r] \/ (cache'[r].sync = "synced" /\ Present(r)')
        /\ \A q \in queue : \/ q.id \in Leaving
                            \/ \E p \in queue' : p.id = q.id /\ p.row = q.row /\ p.do = q.do
    BY DEF Drives
  <2> QED
    BY <1>3, <1>4, <1>5, <2>1, <2>2, OwingIsHeld, StaysCovered
<1> QED
  BY <1>3, <1>6 DEF OwedInv, Covered, CoveredNext, Pending, Present

-----------------------------------------------------------------------------
(* The handlers *)

\* A step of a handler: it carries the rows it writes, and stops carrying a row
\* only when its operation is in the queue, under a new key.
Handles(w) ==
  /\ UNCHANGED <<breaks, remote, pc, batch>>
  /\ \A v \in Worker \ {w} : worker'[v] = worker[v]
  /\ queue \subseteq queue'
  /\ \A r \in Row : \/ cache'[r] = cache[r]
                    \/ /\ cache'[r].sync = "pending"
                       /\ Carries(w, r)'
                       /\ cache[r].sync # "none" \/ Owes(w, r)'
  /\ \A r \in Row : Carries(w, r) =>
       Carries(w, r)' \/ \E q \in queue' : q.row = r /\ q.id = nextId
  /\ \A r \in Row : Owes(w, r) =>
       Owes(w, r)' \/ \E q \in queue' : q.row = r /\ q.do = "upsert"

\* All handlers together hold what one of them took, and what they held.
LEMMA HeldAfter ==
  ASSUME LookupInv, NEW w \in Worker, Handles(w)
  PROVE  /\ \A r \in Row : \/ cache'[r] = cache[r]
                           \/ /\ cache'[r].sync # "none"
                              /\ r \in Held' /\ (cache[r].sync # "none" \/ r \in Owing')
         /\ \A r \in Held : cache'[r] = cache[r] =>
              r \in Held' \/ \E q \in queue' : q.row = r /\ q.id = nextId
         /\ \A r \in Owing : r \in Owing' \/ \E q \in queue' : q.row = r /\ q.do = "upsert"
         /\ Leaving' = Leaving
<1>1. \A q \in Row : cache'[q] = cache[q] \/ cache'[q].sync # "none"
  BY DEF Handles
<1>2. ASSUME NEW v \in Worker, v # w, NEW r \in Row
      PROVE  /\ cache'[r] = cache[r] /\ Carries(v, r) => Carries(v, r)'
             /\ Owes(v, r) => Owes(v, r)'
  <2>1. UNCHANGED worker[v]
    BY <1>2 DEF Handles
  <2>2. Owes(v, r) => Owes(v, r)'
    BY <2>1 DEF Owes, At
  <2> QED
    BY <1>1, <2>1, <2>2, CarriesKept
<1>3. \A r \in Row : \/ cache'[r] = cache[r]
                     \/ /\ cache'[r].sync # "none"
                        /\ r \in Held' /\ (cache[r].sync # "none" \/ r \in Owing')
  BY DEF Handles, Held, Owing
<1>4. ASSUME NEW r \in Held, cache'[r] = cache[r]
      PROVE  r \in Held' \/ \E q \in queue' : q.row = r /\ q.id = nextId
  <2>1. PICK v \in Worker : Carries(v, r)
    BY DEF Held
  <2>2. r \in Row
    BY DEF Held
  <2>3. Carries(v, r)' \/ \E q \in queue' : q.row = r /\ q.id = nextId
    BY <1>2, <1>4, <2>1, <2>2 DEF Handles
  <2> QED
    BY <2>2, <2>3 DEF Held
<1>5. ASSUME NEW r \in Owing
      PROVE  r \in Owing' \/ \E q \in queue' : q.row = r /\ q.do = "upsert"
  <2>1. PICK v \in Worker : Owes(v, r)
    BY DEF Owing
  <2>2. r \in Row
    BY DEF Owing
  <2>3. Owes(v, r)' \/ \E q \in queue' : q.row = r /\ q.do = "upsert"
    BY <1>2, <2>1, <2>2 DEF Handles
  <2> QED
    BY <2>2, <2>3 DEF Owing
<1>6. Leaving' = Leaving
  BY DEF Handles, Leaving, IsNext
<1> QED
  BY <1>3, <1>4, <1>5, <1>6

\* Such a step, too, leaves every row with what it needs.
LEMMA HandlesKeepsOwed ==
  ASSUME TypeOK, QueueInv, CarrierInv, NEW w \in Worker, Handles(w)
  PROVE  OwedInv'
<1>1. BatchKeys
  BY DEF QueueInv, BatchKeys
<1>2. /\ \A r \in Row : \/ cache'[r] = cache[r]
                        \/ /\ cache'[r].sync # "none"
                           /\ r \in Held' /\ (cache[r].sync # "none" \/ r \in Owing')
      /\ \A r \in Held : cache'[r] = cache[r] =>
           r \in Held' \/ \E q \in queue' : q.row = r /\ q.id = nextId
      /\ \A r \in Owing : r \in Owing' \/ \E q \in queue' : q.row = r /\ q.do = "upsert"
      /\ Leaving' = Leaving
  BY HeldAfter DEF CarrierInv
<1>3. nextId \notin Leaving
  <2>1. \A op \in batch : op.id < nextId /\ op.id \in Nat /\ nextId \in Nat
    BY KeysAreNumbers DEF QueueInv
  <2> QED
    BY <2>1 DEF Leaving
<1>4. \A q \in queue : q.id \in Leaving /\ q.do = "upsert" => Present(q.row)
  BY <1>1, LeavingIsPresent DEF CarrierInv
<1>5. \A r \in Row : Present(r) => Present(r)'
  BY DEF Handles, Present
<1>6. \A q \in queue : q \in queue'
  BY DEF Handles
<1>7. ASSUME breaks = 0
      PROVE  CoveredNext(Held', Owing', Leaving')
  <2>1. Covered(Held, Owing, Leaving)
    BY <1>7 DEF CarrierInv, OwedInv
  <2> QED
    BY <1>2, <1>3, <1>4, <1>5, <1>6, <2>1, OwingIsHeld, StaysCovered
<1> QED
  BY <1>7 DEF OwedInv, Covered, CoveredNext, Handles, Pending, Present

\* What a call looks like when it goes on to enqueue.
LEMMA EnqueueNext ==
  ASSUME ToolsTypeOK, NEW w \in Worker, NEW owner, NEW writes, ThenEnqueue(w, owner, writes)
  PROVE  /\ worker'[w].at = IF writes = {} THEN "item" ELSE "enqueue"
         /\ worker'[w].writes = writes
         /\ \A v \in Worker \ {w} : worker'[v] = worker[v]
         /\ \A r : (\E wr \in writes : wr.row = r) => Carries(w, r)'
         /\ \A r : (\E wr \in writes : wr.row = r /\ wr.do = "upsert") => Owes(w, r)'
<1>1. worker \in [Worker -> Call] /\ worker[w] \in Call
  BY DEF ToolsTypeOK
<1>2. /\ worker'[w].at = IF writes = {} THEN "item" ELSE "enqueue"
      /\ worker'[w].writes = writes
      /\ \A v \in Worker \ {w} : worker'[v] = worker[v]
  BY <1>1 DEF ThenEnqueue, Continue, Call
<1> QED
  BY <1>2 DEF Carries, Owes, At

\* A call that is at an argument, or about to create an entity, carries nothing.
LEMMA CarriesNothing ==
  ASSUME NEW w, worker[w].at \notin {"enqueue", "lookup"}
  PROVE  \A r : ~Carries(w, r) /\ ~Owes(w, r)
BY DEF Carries, Owes, At

\* The operations a handler enqueues are of the rows it wrote.
LEMMA WriteFields ==
  /\ \A r : Delete(r).row = r
  /\ \A r, v : Upsert(r, v).row = r /\ Upsert(r, v).do = "upsert"
BY DEF Delete, Upsert

\* The row that a soft delete leaves.
LEMMA DeletedFields ==
  ASSUME NEW c \in CacheRow
  PROVE  LET gone == [c EXCEPT !.ts = 0, !.dead = TRUE, !.sync = "pending"]
         IN  gone.dead = TRUE /\ gone.val = c.val /\ gone.sync = "pending"
BY DEF CacheRow

\* What a handler leaves alone when it treats an argument.
OnlyCallAndCache == UNCHANGED <<breaks, remote, pc, batch, queue>>

\* A handler that inserts a row is about to enqueue the insertion.
LEMMA InsertHandles ==
  ASSUME TypeOK, LookupInv, OnlyCallAndCache,
         NEW w \in Worker, worker[w].at \in {"item", "ensure"},
         NEW r \in Row, NEW v, NEW owner, UpsertLocal(r, v), ThenEnqueue(w, owner, {Upsert(r, v)})
  PROVE  LookupInv' /\ Handles(w)
<1>1. /\ worker'[w].at = "enqueue"
      /\ \A u \in Worker \ {w} : worker'[u] = worker[u]
      /\ Carries(w, r)' /\ Owes(w, r)'
  <2> DEFINE writes == {Upsert(r, v)}
  <2>1. writes # {} /\ \E wr \in writes : wr.row = r /\ wr.do = "upsert"
    BY WriteFields
  <2>2. ThenEnqueue(w, owner, writes)
    OBVIOUS
  <2> HIDE DEF writes
  <2> QED
    BY <2>1, <2>2, EnqueueNext DEF TypeOK
<1>2. \A q \in Row : \/ cache'[q] = cache[q]
                     \/ q = r /\ cache'[q].sync = "pending"
  BY DEF UpsertLocal, TypeOK, CacheTypeOK
<1>3. LookupInv'
  BY <1>1, <1>2, LookupKept
<1>4. \A q \in Row : ~Carries(w, q) /\ ~Owes(w, q)
  BY CarriesNothing
<1>5. UNCHANGED <<breaks, remote, pc, batch>> /\ queue \subseteq queue'
  BY DEF OnlyCallAndCache
<1>6. \A q \in Row : \/ cache'[q] = cache[q]
                     \/ /\ cache'[q].sync = "pending"
                        /\ Carries(w, q)'
                        /\ cache[q].sync # "none" \/ Owes(w, q)'
  BY <1>1, <1>2
<1> QED
  BY <1>1, <1>3, <1>4, <1>5, <1>6 DEF Handles

\* A handler that deletes a row it found live is about to enqueue the deletion.
LEMMA DeleteHandles ==
  ASSUME TypeOK, LookupInv, OnlyCallAndCache,
         NEW w \in Worker, NEW r \in Row, DeleteOne(w, r)
  PROVE  LookupInv' /\ Handles(w)
<1> DEFINE gone == {q \in {r} : Live(q)}
           writes == {Delete(q) : q \in gone}
<1>1. At(w, "item") /\ DeleteLocal(gone) /\ ThenEnqueue(w, NoRow, writes)
  BY DEF DeleteOne, TakesItem
<1>2. \A q \in gone : q \in Row /\ Live(q)
  OBVIOUS
<1>3. \A q \in gone : \E wr \in writes : wr.row = q
  BY WriteFields
<1> HIDE DEF gone, writes
<1>4. /\ worker'[w].at # "lookup"
      /\ \A u \in Worker \ {w} : worker'[u] = worker[u]
      /\ \A q \in gone : Carries(w, q)'
  BY <1>1, <1>3, EnqueueNext DEF TypeOK
<1>5. \A q \in Row : \/ cache'[q] = cache[q]
                     \/ q \in gone /\ cache'[q].sync = "pending"
  BY <1>1 DEF DeleteLocal, TypeOK, CacheTypeOK, CacheRow
<1>6. LookupInv'
  BY <1>4, <1>5, LookupKept
<1>7. \A q \in Row : ~Carries(w, q) /\ ~Owes(w, q)
  BY <1>1, CarriesNothing DEF At
<1>8. UNCHANGED <<breaks, remote, pc, batch>> /\ queue \subseteq queue'
  BY DEF OnlyCallAndCache
<1>9. \A q \in Row : \/ cache'[q] = cache[q]
                     \/ /\ cache'[q].sync = "pending"
                        /\ Carries(w, q)'
                        /\ cache[q].sync # "none" \/ Owes(w, q)'
  BY <1>2, <1>4, <1>5 DEF Live
<1> QED
  BY <1>4, <1>6, <1>7, <1>8, <1>9 DEF Handles

\* The rows that delete_observations soft-deletes will be found by its lookup.
LEMMA EraseHandles ==
  ASSUME TypeOK, LookupInv, OnlyCallAndCache,
         NEW w \in Worker, NEW e \in Entity, NEW texts, EraseObservations(w, e, texts)
  PROVE  LookupInv' /\ Handles(w)
<1> DEFINE erased == {o \in Observation : /\ Owner[o] = e /\ Live(e)
                                          /\ Live(o) /\ cache[o].val \in texts}
           writes == {Delete(o) : o \in erased}
           call == [worker[w] EXCEPT !.at = "lookup", !.owner = e, !.texts = texts,
                                     !.writes = writes]
<1>1. At(w, "item") /\ DeleteLocal(erased) /\ Continue(w, call)
  BY DEF EraseObservations, TakesItem
<1>2. worker \in [Worker -> Call] /\ worker[w] \in Call
  BY DEF TypeOK, ToolsTypeOK
<1>3. call.at = "lookup" /\ call.owner = e /\ call.texts = texts
  <2> HIDE DEF writes
  <2> QED
    BY <1>2 DEF Call
<1>4. \A o \in erased : /\ o \in Observation /\ o \in Row /\ Owner[o] = e
                        /\ Live(e) /\ Live(o) /\ cache[o].val \in texts
  BY DEF Row
<1>5. e \in Row /\ e \notin erased
  BY RowAssumption DEF Row
<1> HIDE DEF erased, call
<1>6. /\ worker'[w] = call
      /\ \A u \in Worker \ {w} : worker'[u] = worker[u]
  BY <1>1, <1>2 DEF Continue
<1>7. /\ \A q \in Row : \/ cache'[q] = cache[q]
                        \/ q \in erased /\ cache'[q].sync = "pending"
      /\ \A o \in erased : cache'[o].dead /\ cache'[o].val = cache[o].val
                           /\ cache'[o].sync = "pending"
      /\ cache'[e] = cache[e]
  <2>1. \A q \in Row : cache'[q] = IF q \in erased
                                   THEN [cache[q] EXCEPT !.ts = 0, !.dead = TRUE, !.sync = "pending"]
                                   ELSE cache[q]
    BY <1>1 DEF DeleteLocal
  <2>2. \A q \in Row : cache[q] \in CacheRow
    BY DEF TypeOK, CacheTypeOK
  <2>3. \A o \in erased : /\ cache'[o].dead = TRUE /\ cache'[o].val = cache[o].val
                           /\ cache'[o].sync = "pending"
    <3> SUFFICES ASSUME NEW o \in erased
                 PROVE  /\ cache'[o].dead = TRUE /\ cache'[o].val = cache[o].val
                        /\ cache'[o].sync = "pending"
      OBVIOUS
    <3>1. cache[o] \in CacheRow /\ o \in Row
      BY <1>4, <2>2
    <3>2. cache'[o] = [cache[o] EXCEPT !.ts = 0, !.dead = TRUE, !.sync = "pending"]
      BY <2>1, <3>1
    <3> QED
      BY <3>1, <3>2, DeletedFields
  <2>4. \A q \in Row : q \notin erased => cache'[q] = cache[q]
    BY <2>1
  <2> QED
    BY <1>5, <2>3, <2>4
<1>8. LookupInv'
  BY <1>3, <1>6, <1>7, LookupKept
<1>9. ASSUME NEW o \in erased
      PROVE  Carries(w, o)'
  <2>1. cache'[e] # Missing
    BY <1>4, <1>7 DEF Live, Missing
  <2>2. /\ o \in Observation /\ Owner[o] = e
        /\ cache'[o].dead /\ cache'[o].val \in texts /\ cache'[o].sync = "pending"
    BY <1>4, <1>7
  <2>3. o \in Found(w)'
    BY <1>3, <1>6, <2>1, <2>2 DEF Found, Pending
  <2> QED
    BY <1>3, <1>6, <2>3 DEF Carries, At
<1>10. \A q \in Row : ~Carries(w, q) /\ ~Owes(w, q)
  BY <1>1, CarriesNothing DEF At
<1>11. UNCHANGED <<breaks, remote, pc, batch>> /\ queue \subseteq queue'
  BY DEF OnlyCallAndCache
<1>12. \A q \in Row : \/ cache'[q] = cache[q]
                      \/ /\ cache'[q].sync = "pending"
                         /\ Carries(w, q)'
                         /\ cache[q].sync # "none" \/ Owes(w, q)'
  BY <1>4, <1>7, <1>9 DEF Live
<1> QED
  BY <1>6, <1>8, <1>10, <1>11, <1>12 DEF Handles

\* What the lookup found is what the handler enqueues.
LEMMA LookupHandles ==
  ASSUME TypeOK, LookupInv, NEW w \in Worker, LookupErased(w)
  PROVE  LookupInv' /\ Handles(w)
<1> DEFINE writes == {Delete(o) : o \in Found(w)}
<1>1. At(w, "lookup") /\ ThenEnqueue(w, NoRow, writes)
      /\ UNCHANGED <<breaks, remote, pc, batch, queue, cache>>
  BY DEF LookupErased, engineVars, drainVars, cacheVars, serverVars
<1>2. \A q \in Found(w) : \E wr \in writes : wr.row = q
  BY WriteFields
<1> HIDE DEF writes
<1>3. /\ worker'[w].at # "lookup"
      /\ \A u \in Worker \ {w} : worker'[u] = worker[u]
      /\ \A q \in Found(w) : Carries(w, q)'
  BY <1>1, <1>2, EnqueueNext DEF TypeOK
<1>4. LookupInv'
  BY <1>1, <1>3, LookupKept
<1>5. \A q \in Row : ~Owes(w, q) /\ (Carries(w, q) => q \in Found(w))
  BY <1>1 DEF Carries, Owes, At
<1>6. \A q \in Row : cache'[q] = cache[q]
  BY <1>1
<1> QED
  BY <1>1, <1>3, <1>4, <1>5, <1>6 DEF Handles

\* A write moves from the handler to the queue.
LEMMA EnqueueHandles ==
  ASSUME TypeOK, LookupInv,
         NEW w \in Worker, NEW wr \in worker[w].writes, EnqueueWrite(w, wr)
  PROVE  LookupInv' /\ Handles(w)
<1> DEFINE rest == worker[w].writes \ {wr}
<1>1. /\ At(w, "enqueue") /\ Enqueue(wr) /\ Enqueued(w, wr)
      /\ UNCHANGED <<breaks, remote, pc, batch, cache>>
  BY DEF EnqueueWrite, engineVars, drainVars, serverVars
<1>2. /\ worker'[w].at = IF rest = {} THEN "item" ELSE "enqueue"
      /\ worker'[w].writes = rest
      /\ \A u \in Worker \ {w} : worker'[u] = worker[u]
  <2>1. worker \in [Worker -> Call] /\ worker[w] \in Call
    BY DEF TypeOK, ToolsTypeOK
  <2>2. worker' = [worker EXCEPT ![w] = [worker[w] EXCEPT
                     !.at = IF rest = {} THEN "item" ELSE "enqueue", !.writes = rest]]
    BY <1>1 DEF Enqueued, Continue
  <2> HIDE DEF rest
  <2> QED
    BY <2>1, <2>2 DEF Call
<1>3. /\ queue' = queue \cup {Queued(wr)}
      /\ Queued(wr).id = nextId /\ Queued(wr).do = wr.do /\ Queued(wr).row = wr.row
  BY <1>1, QueuedFields
<1>4. Queued(wr) \in queue'
  BY <1>3
<1>6. \A q \in Row : Carries(w, q) => Carries(w, q)' \/ \E p \in queue' : p.row = q /\ p.id = nextId
  <2> SUFFICES ASSUME NEW q \in Row, Carries(w, q)
               PROVE  Carries(w, q)' \/ \E p \in queue' : p.row = q /\ p.id = nextId
    OBVIOUS
  <2>1. PICK x \in worker[w].writes : x.row = q
    BY <1>1 DEF Carries, At
  <2>2. CASE x = wr
    BY <1>3, <1>4, <2>1, <2>2
  <2>3. CASE x # wr
    BY <1>2, <2>1, <2>3 DEF Carries, At
  <2> QED
    BY <2>2, <2>3
<1>7. \A q \in Row : Owes(w, q) =>
        Owes(w, q)' \/ \E p \in queue' : p.row = q /\ p.do = "upsert"
  <2> SUFFICES ASSUME NEW q \in Row, Owes(w, q)
               PROVE  Owes(w, q)' \/ \E p \in queue' : p.row = q /\ p.do = "upsert"
    OBVIOUS
  <2>1. PICK x \in worker[w].writes : x.row = q /\ x.do = "upsert"
    BY DEF Owes
  <2>2. CASE x = wr
    BY <1>3, <2>1, <2>2
  <2>3. CASE x # wr
    BY <1>2, <2>1, <2>3 DEF Owes, At
  <2> QED
    BY <2>2, <2>3
<1>8. LookupInv'
  BY <1>1, <1>2, LookupKept
<1>9. queue \subseteq queue' /\ \A q \in Row : cache'[q] = cache[q]
  BY <1>1, <1>3
<1> QED
  BY <1>1, <1>2, <1>6, <1>7, <1>8, <1>9 DEF Handles

\* A step of a call that carries nothing, and does not start a lookup.
LEMMA IdleHandles ==
  ASSUME TypeOK, LookupInv, UNCHANGED <<breaks, remote, pc, batch, cache>>,
         queue \subseteq queue',
         NEW w \in Worker, worker[w].at \notin {"enqueue", "lookup"},
         NEW call, Continue(w, call), call.at # "lookup"
  PROVE  LookupInv' /\ Handles(w)
<1>1. worker'[w] = call /\ \A u \in Worker \ {w} : worker'[u] = worker[u]
  BY DEF Continue, TypeOK, ToolsTypeOK
<1>2. \A q \in Row : ~Carries(w, q) /\ ~Owes(w, q)
  BY CarriesNothing
<1>3. LookupInv'
  BY <1>1, LookupKept
<1>4. \A q \in Row : cache'[q] = cache[q]
  OBVIOUS
<1> QED
  BY <1>1, <1>2, <1>3, <1>4 DEF Handles

\* Whatever statement a handler executes, no row is left without a carrier.
LEMMA HandleHandles ==
  ASSUME TypeOK, LookupInv, NEW w \in Worker, Handle(w)
  PROVE  LookupInv' /\ Handles(w)
<1> DEFINE Goal == LookupInv' /\ Handles(w)
<1> USE DEF engineVars, engineButTrig, drainVars, cacheVars, serverVars
<1>1. worker[w] \in Call /\ worker \in [Worker -> Call]
  BY DEF TypeOK, ToolsTypeOK
<1>2. ASSUME NEW e \in Entity, NEW v \in Content, CreateEntity(w, e, v)
      PROVE  Goal
  <2>1. /\ worker[w].at = "item" /\ e \in Row /\ OnlyCallAndCache
        /\ UpsertLocal(e, v) /\ ThenEnqueue(w, e, {Upsert(e, v)})
    BY <1>2 DEF CreateEntity, TakesItem, At, Row, OnlyCallAndCache
  <2> QED
    BY <2>1, InsertHandles
<1>3. CASE EnsureEntity(w)
  <2> DEFINE e == worker[w].owner
  <2>1. /\ worker[w].at = "ensure" /\ OnlyCallAndCache
        /\ UpsertLocal(e, Generic) /\ ThenEnqueue(w, e, {Upsert(e, Generic)})
    BY <1>3 DEF EnsureEntity, At, OnlyCallAndCache
  <2>2. e \in Row
    BY <1>1, <2>1 DEF Call, Row
  <2> HIDE DEF e
  <2> QED
    BY <2>1, <2>2, InsertHandles
<1>4. ASSUME NEW o \in Observation, NEW v \in Content, AddObservation(w, o, v)
      PROVE  Goal
  <2>1. /\ worker[w].at = "item" /\ o \in Row /\ OnlyCallAndCache
        /\ UpsertLocal(o, v) /\ ThenEnqueue(w, worker[w].owner, {Upsert(o, v)})
    BY <1>4 DEF AddObservation, TakesItem, At, Row, OnlyCallAndCache
  <2> QED
    BY <2>1, InsertHandles
<1>5. ASSUME NEW l \in Relation, AddRelation(w, l)
      PROVE  Goal
  <2>1. /\ worker[w].at = "item" /\ l \in Row /\ OnlyCallAndCache
        /\ UpsertLocal(l, Generic) /\ ThenEnqueue(w, NoRow, {Upsert(l, Generic)})
    BY <1>5 DEF AddRelation, TakesItem, At, Row, OnlyCallAndCache
  <2> QED
    BY <2>1, InsertHandles
<1>6. ASSUME NEW r \in Row, DeleteOne(w, r)
      PROVE  Goal
  <2>1. OnlyCallAndCache
    BY <1>6 DEF DeleteOne, OnlyCallAndCache
  <2> QED
    BY <1>6, <2>1, DeleteHandles
<1>7. ASSUME NEW e \in Entity, NEW texts, EraseObservations(w, e, texts)
      PROVE  Goal
  <2>1. OnlyCallAndCache
    BY <1>7 DEF EraseObservations, OnlyCallAndCache
  <2> QED
    BY <1>7, <2>1, EraseHandles
<1>8. CASE LookupErased(w)
  BY <1>8, LookupHandles
<1>9. ASSUME NEW wr \in worker[w].writes, EnqueueWrite(w, wr)
      PROVE  Goal
  BY <1>9, EnqueueHandles
<1>10. ASSUME NEW e \in Entity, FindEntity(w, e)
       PROVE  Goal
  <2> DEFINE at == IF Live(e) THEN "item" ELSE "ensure"
             items == IF Live(e) THEN worker[w].items + 1 ELSE worker[w].items
             call == [worker[w] EXCEPT !.at = at, !.items = items, !.owner = e]
  <2>1. /\ worker[w].at = "item" /\ Continue(w, call)
        /\ UNCHANGED <<breaks, remote, pc, batch, cache, queue>>
    BY <1>10 DEF FindEntity, TakesItem, At
  <2>2. call.at # "lookup"
    <3>1. at # "lookup"
      OBVIOUS
    <3> HIDE DEF at, items
    <3> QED
      BY <1>1, <3>1 DEF Call
  <2> HIDE DEF call
  <2> QED
    BY <2>1, <2>2, IdleHandles
<1>11. CASE RecordAudit(w)
  <2> DEFINE call == [worker[w] EXCEPT !.at = "trigger"]
  <2>1. /\ worker[w].at = "item" /\ Continue(w, call) /\ queue \subseteq queue'
        /\ UNCHANGED <<breaks, remote, pc, batch, cache>>
    BY <1>11 DEF RecordAudit, Enqueue, At
  <2>2. call.at # "lookup"
    BY <1>1 DEF Call
  <2> HIDE DEF call
  <2> QED
    BY <2>1, <2>2, IdleHandles
<1>12. CASE TriggerSync(w)
  <2>1. /\ worker[w].at = "trigger" /\ Continue(w, NoCall) /\ NoCall.at # "lookup"
        /\ UNCHANGED <<breaks, remote, pc, batch, cache, queue>>
    BY <1>12 DEF TriggerSync, At, NoCall
  <2> QED
    BY <2>1, IdleHandles
<1> QED
  BY <1>2, <1>3, <1>4, <1>5, <1>6, <1>7, <1>8, <1>9, <1>10, <1>11, <1>12
  DEF Handle, DeleteEntity, DeleteRelation, Row

\* Nor does a call that begins.
LEMMA BeginHandles ==
  ASSUME TypeOK, LookupInv, NEW w \in Worker, NEW tool \in Tool, Begin(w, tool)
  PROVE  LookupInv' /\ Handles(w)
<1> DEFINE call == [NoCall EXCEPT !.tool = tool, !.at = "item"]
<1>1. /\ worker[w].at = "idle" /\ Continue(w, call) /\ call.at = "item"
      /\ UNCHANGED <<breaks, remote, pc, batch, cache, queue>>
  BY DEF Begin, At, NoCall, engineVars, drainVars, pullVars, cacheVars, serverVars
<1> HIDE DEF call
<1> QED
  BY <1>1, IdleHandles

\* A handler that fails leaves the lookups alone; nothing is promised of rows.
LEMMA FailureKeepsLookup ==
  ASSUME TypeOK, LookupInv, NEW w \in Worker, HandleFails(w)
  PROVE  LookupInv' /\ OwedInv'
<1>1. UNCHANGED cache /\ Break
  BY DEF HandleFails, AbortCall, DropWrite, DropAudit, cacheVars
<1>2. worker[w] \in Call /\ worker \in [Worker -> Call]
  BY DEF TypeOK, ToolsTypeOK
<1>3. /\ worker'[w].at # "lookup"
      /\ \A u \in Worker \ {w} : worker'[u] = worker[u]
  <2>1. CASE AbortCall(w)
    BY <1>2, <2>1 DEF AbortCall, Continue, NoCall
  <2>2. ASSUME NEW wr \in worker[w].writes, DropWrite(w, wr)
        PROVE  /\ worker'[w].at # "lookup"
               /\ \A u \in Worker \ {w} : worker'[u] = worker[u]
    BY <1>2, <2>2 DEF DropWrite, Enqueued, Continue, Call
  <2>3. CASE DropAudit(w)
    BY <1>2, <2>3 DEF DropAudit, Continue, Call
  <2> QED
    BY <2>1, <2>2, <2>3 DEF HandleFails
<1>4. LookupInv'
  BY <1>1, <1>3, LookupKept
<1>5. breaks' # 0
  BY <1>1 DEF Break, TypeOK, ToolsTypeOK
<1> QED
  BY <1>4, <1>5 DEF OwedInv

\* What is here is on the server or owed to it, and what waits for its push has
\* an operation, or a handler, that stays.
THEOREM CarrierCorrect == Spec => []CarrierInv
<1>1. Init => CarrierInv
  BY DEF Init, CacheInit, EngineInit, ToolsInit, NoCall, Missing, Pending, At,
     CarrierInv, PresentInv, LookupInv, OwedInv, Covered
<1>2. TypeOK /\ QueueInv /\ CarrierInv /\ [Next]_vars => CarrierInv'
  <2> SUFFICES ASSUME TypeOK, QueueInv, CarrierInv, [Next]_vars PROVE CarrierInv'
    OBVIOUS
  <2> USE DEF CarrierInv
  <2>1. ASSUME UNCHANGED <<cache, breaks, worker, page, pc, batch>>,
               \A q \in queue : \E p \in queue' : p.id = q.id /\ p.row = q.row /\ p.do = q.do,
               \A r \in Row : Present(r) => Present(r)'
        PROVE  CarrierInv'
    <3>1. Drives
      BY <2>1 DEF Drives
    <3> QED
      BY <2>1, <3>1, PresentKept, DrivesKeepsOwed
  <2>2. CASE Peers
    <3>1. UNCHANGED <<cache, queue, breaks, worker, page, pc, batch>>
      BY <2>2 DEF Peers, cacheVars, engineVars, drainVars, pullVars, toolVars
    <3> QED
      BY <2>1, <2>2, <3>1, PeersPersist DEF TypeOK
  <2>3. CASE Backoff
    <3>1. PICK op \in queue : Elapse(op)
      BY <2>3 DEF Backoff
    <3>2. UNCHANGED <<cache, remote, breaks, worker, page, pc, batch>>
      BY <2>3 DEF Backoff, engineVars, drainVars, pullVars, toolVars, serverVars
    <3> QED
      BY <2>1, <3>1, <3>2, RescheduleKeeps DEF TypeOK, Present
  <2>4. CASE Sync
    <3>1. BatchKeys /\ UNCHANGED <<worker, breaks>>
      BY <2>4 DEF QueueInv, BatchKeys, Sync, toolVars
    <3> QED
      BY <2>4, <3>1, CycleKeepsPresent, CycleDrives, DrivesKeepsOwed DEF Sync
  <2>5. ASSUME NEW w \in Worker, Handles(w), LookupInv', UNCHANGED page
        PROVE  CarrierInv'
    <3>1. UNCHANGED <<pc, batch>> /\ \A r \in Row : Present(r) => Present(r)'
      BY <2>5 DEF Handles, Present
    <3> QED
      BY <2>5, <3>1, PresentKept, HandlesKeepsOwed
  <2>6. ASSUME NEW w \in Worker, Handle(w)
        PROVE  CarrierInv'
    <3>1. UNCHANGED page
      BY <2>6, HandleLeaves DEF pullVars
    <3> QED
      BY <2>5, <2>6, <3>1, HandleHandles
  <2>7. ASSUME NEW w \in Worker, NEW tool \in Tool, Begin(w, tool)
        PROVE  CarrierInv'
    <3>1. UNCHANGED page
      BY <2>7 DEF Begin, engineVars, pullVars
    <3> QED
      BY <2>5, <2>7, <3>1, BeginHandles
  <2>8. ASSUME NEW w \in Worker, HandleFails(w)
        PROVE  CarrierInv'
    <3>1. UNCHANGED <<page, pc, batch, remote>>
      BY <2>8, HandleLeaves DEF drainVars, pullVars, serverVars
    <3>2. \A r \in Row : Present(r) => Present(r)'
      BY <3>1 DEF Present
    <3> QED
      BY <2>8, <3>1, <3>2, PresentKept, FailureKeepsLookup
  <2>9. CASE Restart
    <3>1. /\ UNCHANGED <<cache, remote>> /\ Break /\ page' = {} /\ pc' = "fetch"
          /\ \A w \in Worker : worker'[w].at = "idle"
      BY <2>9 DEF Restart, NoCall, cacheVars, serverVars
    <3>2. LookupInv'
      BY <3>1, LookupKept
    <3>3. \A r \in Row : Present(r) => Present(r)'
      BY <3>1 DEF Present
    <3>4. PresentInv'
      BY <3>1, <3>3, PresentKept
    <3>5. breaks' # 0
      BY <3>1 DEF Break, TypeOK, ToolsTypeOK
    <3> QED
      BY <3>2, <3>4, <3>5 DEF OwedInv
  <2>10. CASE UNCHANGED vars
    <3>1. UNCHANGED <<cache, queue, breaks, worker, page, pc, batch, remote>>
      BY <2>10 DEF vars, cacheVars, engineVars, drainVars, pullVars, toolVars, serverVars
    <3> QED
      BY <2>1, <3>1 DEF Present
  <2> QED
    BY <2>2, <2>3, <2>4, <2>6, <2>7, <2>8, <2>9, <2>10 DEF Next, Serve
<1> QED
  BY <1>1, <1>2, TypeCorrect, QueueCorrect, PTL DEF Spec

\* As long as no handler fails and the process does not die, a row that waits
\* for its push has an operation in the queue, or a handler about to enqueue
\* one: also when two calls write it at once, when the engine pushes it in
\* between, and when a delete finds no row on the server and is given up
\* (tools.go: the handlers; push.go: applyOp).
THEOREM CarrierKept == Spec => []PendingHasCarrier
<1>1. CarrierInv => PendingHasCarrier
  BY DEF CarrierInv, OwedInv, Covered, PendingHasCarrier, HasCarrier, Held
<1> QED
  BY <1>1, CarrierCorrect, PTL
=============================================================================
