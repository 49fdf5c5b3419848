---------------------------- MODULE OutboxProofs --------------------------
(***************************************************************************)
(* The queue keeps the promise of the outbox: whatever callers, engine,     *)
(* failures and restarts do, an accepted operation stays queued until the   *)
(* server has executed it.                                                  *)
(***************************************************************************)
EXTENDS DeviceSyncProofs

-----------------------------------------------------------------------------
(* What the queue and its batch look like *)

\* A new operation gets a key of its own and is not part of the batch.
LEMMA EnqueueKeepsQueue ==
  ASSUME TypeOK, QueueInv, NEW wr, Enqueue(wr), UNCHANGED <<pc, batch, pushed>>
  PROVE  QueueInv'
<1>1. nextId \in Nat /\ \A p \in queue : p.id \in Nat
  <2>1. nextId \in Nat /\ queue \subseteq Entry
    BY DEF TypeOK, CacheTypeOK
  <2>2. \A p \in Entry : p.id \in Nat
    BY DEF Entry
  <2> QED
    BY <2>1, <2>2
<1>2. /\ \A p, q \in queue' : p.id = q.id => p = q
      /\ \A p \in queue' : p.id < nextId'
  <2> DEFINE new == [id |-> nextId, do |-> wr.do, row |-> wr.row, val |-> wr.val,
                     due |-> TRUE, tried |-> FALSE]
  <2>1. queue' = queue \cup {new} /\ nextId' = nextId + 1 /\ new.id = nextId
    BY DEF Enqueue
  <2> HIDE DEF new
  <2>2. \A p \in queue : p.id < nextId /\ \A q \in queue : p.id = q.id => p = q
    BY DEF QueueInv
  <2> QED
    BY <1>1, <2>1, <2>2
<1>3. batch' \subseteq queue'
  BY DEF QueueInv, Enqueue
<1> QED
  BY <1>2, <1>3 DEF QueueInv, IsNext

\* An operation outside the batch may change its backoff state.
LEMMA RescheduleKeepsKeys ==
  ASSUME QueueInv, NEW op \in queue, NEW new, new.id = op.id,
         queue' = (queue \ {op}) \cup {new}, nextId' = nextId
  PROVE  /\ \A p, q \in queue' : p.id = q.id => p = q
         /\ \A p \in queue' : p.id < nextId'
         /\ {p.id : p \in queue'} = {p.id : p \in queue}
BY DEF QueueInv

\* The statements that name a row by its key concern that one operation.
LEMMA KeyNamesOne ==
  ASSUME QueueInv, NEW op \in queue
  PROVE  /\ MarkSuccess(op) => queue' = queue \ {op}
         /\ MarkFailure(op) =>
              queue' = (queue \ {op}) \cup {[op EXCEPT !.due = FALSE, !.tried = TRUE]}
<1>1. Others(op) = queue \ {op} /\ queue \ Others(op) = {op}
  BY DEF Others, QueueInv
<1> QED
  BY <1>1 DEF MarkSuccess, MarkFailure

\* A step that leaves the queue alone, and the batch or empties it.
LEMMA QueueUntouched ==
  ASSUME QueueInv, UNCHANGED <<queue, nextId>>,
         \/ UNCHANGED <<pc, batch, pushed>>
         \/ batch' = {}
         \/ UNCHANGED batch /\ pc' \notin {"mark", "success"}
  PROVE  QueueInv'
BY DEF QueueInv, IsNext

\* A drain that ends leaves no batch behind.
LEMMA EndDrainEmpties ==
  ASSUME EndDrain
  PROVE  batch' = {}
BY DEF EndDrain

\* A step of the engine keeps the batch part of the queue, and executes an
\* operation before it marks or removes it.
LEMMA CycleKeepsQueue ==
  ASSUME TypeOK, QueueInv, Cycle
  PROVE  QueueInv'
<1> USE DEF drainVars, pullVars, cacheVars
<1>1. CASE Tick \/ Triggered
  BY <1>1, QueueUntouched DEF Tick, Triggered
<1>2. CASE Peek
  <2>1. CASE PeekDue # {}
    BY <1>2, <2>1 DEF Peek, PeekDue, QueueInv, IsNext
  <2>2. CASE PeekDue = {}
    BY <1>2, <2>2, EndDrainEmpties, QueueUntouched DEF Peek
  <2> QED
    BY <2>1, <2>2
<1>12. CASE PeekFails
  BY <1>12, EndDrainEmpties, QueueUntouched DEF PeekFails
<1>3. ASSUME NEW op \in batch, Push(op) \/ PushLost(op)
      PROVE  QueueInv'
  <2>1. \A p \in batch : p.id \in Nat
    BY DEF TypeOK, EngineTypeOK, Entry
  <2>2. \A p \in batch : IsNext(p) => p.id \in pushed'
    BY <1>3, <2>1 DEF Push, PushLost, IsNext
  <2> QED
    BY <1>3, <2>2 DEF Push, PushLost, QueueInv, IsNext
<1>4. ASSUME NEW op \in batch, PushFail(op) \/ MarkFails(op)
      PROVE  QueueInv'
  BY <1>4, QueueUntouched DEF PushFail, MarkFails
<1>5. ASSUME NEW op \in batch, Mark(op)
      PROVE  QueueInv'
  BY <1>5 DEF Mark, QueueInv, IsNext
<1>6. ASSUME NEW op \in batch, Success(op)
      PROVE  QueueInv'
  <2>1. queue' = queue \ {op} \/ queue' = queue
    BY <1>6, KeyNamesOne DEF Success, QueueInv
  <2> QED
    BY <1>6, <2>1 DEF Success, QueueInv
<1>7. ASSUME NEW op \in batch, Failure(op)
      PROVE  QueueInv'
  <2>1. batch' = {} /\ UNCHANGED nextId /\ op \in queue
    BY <1>7, EndDrainEmpties DEF Failure, QueueInv
  <2>2. CASE UNCHANGED queue
    BY <2>1, <2>2, QueueUntouched
  <2>3. CASE MarkFailure(op)
    <3>1. [op EXCEPT !.due = FALSE, !.tried = TRUE].id = op.id
      BY DEF TypeOK, EngineTypeOK, Entry
    <3> QED
      BY <2>1, <2>3, <3>1, KeyNamesOne, RescheduleKeepsKeys DEF QueueInv
  <2> QED
    BY <1>7, <2>2, <2>3 DEF Failure
<1>8. CASE Fetch
  <2>1. pc' \notin {"mark", "success"}
    BY <1>8 DEF Fetch, NextTable, PullFrom, EndPull, EndCycle
  <2> QED
    BY <1>8, <2>1, QueueUntouched DEF Fetch
<1>9. ASSUME NEW x \in todo, ApplyRow(x)
      PROVE  QueueInv'
  BY <1>9, QueueUntouched DEF ApplyRow
<1>10. CASE Advance
  <2>1. pc' \notin {"mark", "success"}
    BY <1>10 DEF Advance, NextTable, PullFrom, EndPull, EndCycle
  <2> QED
    BY <1>10, <2>1, QueueUntouched DEF Advance
<1>11. CASE PullFail
  BY <1>11, QueueUntouched DEF PullFail, EndPull, EndCycle
<1> QED
  BY <1>1, <1>2, <1>3, <1>4, <1>5, <1>6, <1>7, <1>8, <1>9, <1>10, <1>11, <1>12 DEF Cycle

\* A handler leaves the queue alone or adds one operation to it.
LEMMA HandlerEnqueues ==
  ASSUME NEW w \in Worker, Handle(w) \/ HandleFails(w)
  PROVE  UNCHANGED <<queue, nextId>> \/ \E wr : Enqueue(wr)
<1>1. CASE Handle(w)
  BY <1>1, Zenon DEF Handle, CreateEntity, FindEntity, EnsureEntity, AddObservation, AddRelation,
     DeleteEntity, DeleteRelation, DeleteOne, EraseObservations, LookupErased, EnqueueWrite, RecordAudit, TriggerSync, cacheVars
<1>2. CASE HandleFails(w)
  BY <1>2 DEF HandleFails, AbortCall, DropWrite, DropAudit, cacheVars
<1> QED
  BY <1>1, <1>2

\* Time makes an operation due again; it keeps its key.
LEMMA BackoffReschedules ==
  ASSUME TypeOK, Backoff
  PROVE  \E op \in queue : /\ ~op.due
                           /\ [op EXCEPT !.due = TRUE].id = op.id
                           /\ queue' = (queue \ {op}) \cup {[op EXCEPT !.due = TRUE]}
BY DEF Backoff, Elapse, TypeOK, CacheTypeOK, Entry

\* Keys are unique, the batch is part of the queue, and the operation that is
\* about to be marked or removed has been executed by the server.
THEOREM QueueCorrect == Spec => []QueueInv
<1>1. Init => QueueInv
  BY DEF Init, CacheInit, EngineInit, QueueInv
<1>2. TypeOK /\ QueueInv /\ [Next]_vars => QueueInv'
  <2> SUFFICES ASSUME TypeOK, QueueInv, [Next]_vars PROVE QueueInv'
    OBVIOUS
  <2> USE DEF cacheVars, engineVars, drainVars, pullVars
  <2>1. CASE Peers
    BY <2>1, QueueUntouched DEF Peers
  <2>2. CASE Backoff
    <3>1. PICK op \in queue : /\ ~op.due
                              /\ [op EXCEPT !.due = TRUE].id = op.id
                              /\ queue' = (queue \ {op}) \cup {[op EXCEPT !.due = TRUE]}
      BY <2>2, BackoffReschedules
    <3>2. /\ \A p, q \in queue' : p.id = q.id => p = q
          /\ \A p \in queue' : p.id < nextId'
      BY <2>2, <3>1, RescheduleKeepsKeys DEF Backoff
    <3>3. batch' \subseteq queue'
      BY <2>2, <3>1 DEF Backoff, QueueInv
    <3> QED
      BY <2>2, <3>2, <3>3 DEF Backoff, QueueInv, IsNext
  <2>3. CASE Sync
    BY <2>3, CycleKeepsQueue DEF Sync
  <2>4. ASSUME NEW w \in Worker, NEW tool \in Tool, Begin(w, tool)
        PROVE  QueueInv'
    BY <2>4, QueueUntouched DEF Begin
  <2>5. ASSUME NEW w \in Worker, Handle(w) \/ HandleFails(w)
        PROVE  QueueInv'
    BY <2>5, HandleLeaves, HandlerEnqueues, EnqueueKeepsQueue, QueueUntouched
  <2>6. CASE Restart
    BY <2>6, QueueUntouched DEF Restart
  <2>7. CASE UNCHANGED vars
    BY <2>7, QueueUntouched DEF vars
  <2> QED
    BY <2>1, <2>2, <2>3, <2>4, <2>5, <2>6, <2>7 DEF Next, Serve
<1> QED
  BY <1>1, <1>2, TypeCorrect, PTL DEF Spec
-----------------------------------------------------------------------------
(* The queue implements the outbox *)

\* A step that changes neither the tickets nor what was delivered is a stutter.
LEMMA OutboxStutter ==
  ASSUME {p.id : p \in queue'} = {p.id : p \in queue}, UNCHANGED <<nextId, pushed>>
  PROVE  UNCHANGED Queue!vars
BY DEF Queue!vars

\* A handler that enqueues has an operation accepted.
LEMMA EnqueueAccepts ==
  ASSUME NEW wr, Enqueue(wr), UNCHANGED pushed
  PROVE  Queue!Next
<1> DEFINE new == [id |-> nextId, do |-> wr.do, row |-> wr.row, val |-> wr.val,
                   due |-> TRUE, tried |-> FALSE]
<1>1. queue' = queue \cup {new} /\ nextId' = nextId + 1 /\ new.id = nextId
  BY DEF Enqueue
<1> HIDE DEF new
<1>2. {p.id : p \in queue'} = {p.id : p \in queue} \cup {nextId}
  BY <1>1
<1> QED
  BY <1>1, <1>2 DEF Queue!Next, Queue!Accept

\* A push delivers a ticket, the removal of a row settles it, and everything
\* else the engine does the outbox does not see.
LEMMA CycleDelivers ==
  ASSUME TypeOK, QueueInv, Cycle
  PROVE  [Queue!Next]_Queue!vars
<1> USE DEF drainVars, pullVars, cacheVars
<1>1. ASSUME NEW op \in batch, Push(op) \/ PushLost(op)
      PROVE  Queue!Next
  <2>1. /\ op.id \in {p.id : p \in queue}
        /\ pushed' = pushed \cup {op.id}
        /\ UNCHANGED <<queue, nextId>>
    BY <1>1 DEF Push, PushLost, QueueInv
  <2> QED
    BY <2>1 DEF Queue!Next, Queue!Deliver
<1>2. ASSUME NEW op \in batch, Success(op)
      PROVE  [Queue!Next]_Queue!vars
  <2>1. /\ op \in queue /\ op.id \in pushed
        /\ \A p \in queue : p.id = op.id => p = op
        /\ UNCHANGED <<nextId, pushed>>
    BY <1>2 DEF Success, QueueInv
  <2>2. CASE UNCHANGED queue
    BY <2>1, <2>2, OutboxStutter
  <2>3. CASE MarkSuccess(op)
    <3>1. queue' = queue \ {op}
      BY <2>1, <2>3, KeyNamesOne
    <3>2. {p.id : p \in queue'} = {p.id : p \in queue} \ {op.id}
      BY <2>1, <3>1
    <3>3. op.id \in {p.id : p \in queue}
      BY <2>1
    <3> QED
      BY <2>1, <3>2, <3>3 DEF Queue!Next, Queue!Settle
  <2> QED
    BY <1>2, <2>2, <2>3 DEF Success
<1>3. ASSUME NEW op \in batch, Failure(op)
      PROVE  [Queue!Next]_Queue!vars
  <2>1. op \in queue /\ UNCHANGED <<nextId, pushed>>
    BY <1>3 DEF Failure, QueueInv
  <2>2. CASE UNCHANGED queue
    BY <2>1, <2>2, OutboxStutter
  <2>3. CASE MarkFailure(op)
    <3>1. [op EXCEPT !.due = FALSE, !.tried = TRUE].id = op.id
      BY DEF TypeOK, EngineTypeOK, Entry
    <3>2. {p.id : p \in queue'} = {p.id : p \in queue}
      BY <2>1, <2>3, <3>1, KeyNamesOne, RescheduleKeepsKeys
    <3> QED
      BY <2>1, <3>2, OutboxStutter
  <2> QED
    BY <1>3, <2>2, <2>3 DEF Failure
<1>4. ASSUME UNCHANGED <<queue, nextId, pushed>>
      PROVE  [Queue!Next]_Queue!vars
  BY <1>4, OutboxStutter
<1>5. ASSUME Tick \/ Triggered \/ Peek \/ PeekFails \/ Fetch \/ Advance \/ PullFail
      PROVE  UNCHANGED <<queue, nextId, pushed>>
  BY <1>5 DEF Tick, Triggered, Peek, PeekFails, Fetch, Advance, PullFail
<1>6. ASSUME NEW op \in batch, PushFail(op) \/ Mark(op) \/ MarkFails(op)
      PROVE  UNCHANGED <<queue, nextId, pushed>>
  BY <1>6 DEF PushFail, Mark, MarkFails
<1>7. ASSUME NEW x \in todo, ApplyRow(x)
      PROVE  UNCHANGED <<queue, nextId, pushed>>
  BY <1>7 DEF ApplyRow
<1> QED
  BY <1>1, <1>2, <1>3, <1>4, <1>5, <1>6, <1>7 DEF Cycle

\* The write-behind queue loses no operation and invents none: what was
\* enqueued stays until the server has executed it, through failures, lost
\* replies, backoff and restarts (queue.go; push.go: drainOnce).
THEOREM OutboxRefined == Spec => OutboxSpec
<1>1. Init => Queue!Init
  BY DEF Init, CacheInit, EngineInit, Queue!Init
<1>2. TypeOK /\ QueueInv /\ [Next]_vars => [Queue!Next]_Queue!vars
  <2> SUFFICES ASSUME TypeOK, QueueInv, [Next]_vars PROVE [Queue!Next]_Queue!vars
    OBVIOUS
  <2> USE DEF cacheVars, engineVars, drainVars, pullVars
  <2>1. CASE Backoff
    <3>1. PICK op \in queue : /\ ~op.due
                              /\ [op EXCEPT !.due = TRUE].id = op.id
                              /\ queue' = (queue \ {op}) \cup {[op EXCEPT !.due = TRUE]}
      BY <2>1, BackoffReschedules
    <3>2. {p.id : p \in queue'} = {p.id : p \in queue}
      BY <2>1, <3>1, RescheduleKeepsKeys DEF Backoff
    <3> QED
      BY <2>1, <3>2, OutboxStutter DEF Backoff
  <2>2. CASE Sync
    BY <2>2, CycleDelivers DEF Sync
  <2>3. ASSUME NEW w \in Worker, Handle(w) \/ HandleFails(w)
        PROVE  [Queue!Next]_Queue!vars
    BY <2>3, HandleLeaves, HandlerEnqueues, EnqueueAccepts, OutboxStutter
  <2>4. CASE Peers \/ Restart \/ UNCHANGED vars
    BY <2>4, OutboxStutter DEF Peers, Restart, vars
  <2>5. ASSUME NEW w \in Worker, NEW tool \in Tool, Begin(w, tool)
        PROVE  [Queue!Next]_Queue!vars
    BY <2>5, OutboxStutter DEF Begin
  <2> QED
    BY <2>1, <2>2, <2>3, <2>4, <2>5 DEF Next, Serve
<1> QED
  BY <1>1, <1>2, TypeCorrect, QueueCorrect, PTL DEF Spec, OutboxSpec, Queue!Spec
=============================================================================
