---------------------------- MODULE SharedProofs ---------------------------
(***************************************************************************)
(* Two sessions drain one queue, and it still keeps the promise of the      *)
(* outbox: no lock orders their engines, so an operation may be executed    *)
(* twice, or marked after the other session removed it, but none is lost.   *)
(***************************************************************************)
EXTENDS SharedCache, TLAPS

-----------------------------------------------------------------------------
(* One session, seen from the queue *)

Tickets == {q.id : q \in queue}

\* A row of pending_writes has all its columns.
Complete(q) ==
  q \in [id : Nat, do : {q.do}, row : {q.row}, val : {q.val}, due : BOOLEAN, tried : BOOLEAN]

QueueShape ==
  /\ nextId \in Nat
  /\ \A q \in queue : q.id \in Nat /\ Complete(q)

Oldest(op, batch) == op \in batch /\ \A q \in batch : op.id <= q.id

\* What a session has peeked is still waiting, or was executed by one of the
\* two; what it is about to mark or remove was executed.
Sound(batch, pc, waiting, executed) ==
  /\ \A op \in batch : op.id \in Nat /\ op.id \in waiting \cup executed
  /\ pc \in {"mark", "success"} => \A op \in batch : Oldest(op, batch) => op.id \in executed

\* What a step of a session may do: nothing to the queue, ...
Rests(batch, batchN, pc, pcN) ==
  /\ UNCHANGED <<queue, nextId, pushed>>
  /\ \/ batchN = batch /\ (pcN \in {"mark", "success"} => pc \in {"mark", "success"})
     \/ batchN \subseteq queue /\ pcN \notin {"mark", "success"}

\* ... a new operation, ...
Accepts(batch, batchN, pc, pcN) ==
  /\ \E wr : Enqueue(wr)
  /\ batchN = batch /\ pcN = pc /\ UNCHANGED pushed

\* ... the execution of one, ...
Delivers(batch, batchN) ==
  \E op \in batch :
    /\ Oldest(op, batch)
    /\ pushed' = pushed \cup {op.id}
    /\ batchN = batch /\ UNCHANGED <<queue, nextId>>

\* ... its removal, ...
Settles(batch, batchN, pc, pcN) ==
  \E op \in batch :
    /\ pc = "success" /\ pcN \notin {"mark", "success"}
    /\ Oldest(op, batch)
    /\ MarkSuccess(op) \/ UNCHANGED queue
    /\ batchN = batch \ {op} /\ UNCHANGED <<nextId, pushed>>

\* ... or its backoff.
PutsOff(batch, batchN) ==
  \E op \in batch :
    /\ MarkFailure(op) \/ UNCHANGED queue
    /\ batchN = {} /\ UNCHANGED <<nextId, pushed>>

Acts(batch, batchN, pc, pcN) ==
  \/ Rests(batch, batchN, pc, pcN)
  \/ Accepts(batch, batchN, pc, pcN)
  \/ Delivers(batch, batchN)
  \/ Settles(batch, batchN, pc, pcN)
  \/ PutsOff(batch, batchN)

\* Every step of session A is one of these.
LEMMA ActsA ==
  ASSUME A!Sync \/ \E w \in WorkerA : A!Serve(w)
  PROVE  Acts(batchA, batchA', pcA, pcA')
<1> USE DEF A!drainVars, A!pullVars, A!cacheVars, A!engineVars, A!engineButTrig
<1>1. CASE A!Tick \/ A!Triggered
  BY <1>1 DEF A!Tick, A!Triggered, Acts, Rests
<1>2. CASE A!Peek
  BY <1>2 DEF A!Peek, A!PeekDue, A!EndDrain, A!PullFrom, A!EndCycle, Acts, Rests
<1>3. CASE A!PeekFails
  BY <1>3 DEF A!PeekFails, A!EndDrain, A!PullFrom, A!EndCycle, Acts, Rests
<1>4. ASSUME NEW op \in batchA, A!Push(op) \/ A!PushLost(op)
      PROVE  Delivers(batchA, batchA')
  BY <1>4 DEF A!Push, A!PushLost, A!IsNext, Oldest, Delivers
<1>5. ASSUME NEW op \in batchA, A!PushFail(op) \/ A!Mark(op) \/ A!MarkFails(op)
      PROVE  Rests(batchA, batchA', pcA, pcA')
  BY <1>5 DEF A!PushFail, A!Mark, A!MarkFails, Rests
<1>6. ASSUME NEW op \in batchA, A!Success(op)
      PROVE  Settles(batchA, batchA', pcA, pcA')
  BY <1>6 DEF A!Success, A!IsNext, A!MarkSuccess, A!Others, Oldest, Settles, MarkSuccess, Others
<1>7. ASSUME NEW op \in batchA, A!Failure(op)
      PROVE  PutsOff(batchA, batchA')
  BY <1>7 DEF A!Failure, A!EndDrain, A!MarkFailure, A!Others, PutsOff, MarkFailure, Others
<1>8. CASE A!Fetch
  BY <1>8 DEF A!Fetch, A!NextTable, A!PullFrom, A!EndPull, A!EndCycle, Acts, Rests
<1>9. CASE A!Advance \/ A!PullFail
  BY <1>9 DEF A!Advance, A!PullFail, A!NextTable, A!PullFrom, A!EndPull, A!EndCycle, Acts, Rests
<1>10. ASSUME NEW x \in todoA, A!ApplyRow(x)
       PROVE  Rests(batchA, batchA', pcA, pcA')
  BY <1>10 DEF A!ApplyRow, Rests
<1>11. ASSUME A!Sync
       PROVE  Acts(batchA, batchA', pcA, pcA')
  BY <1>1, <1>2, <1>3, <1>4, <1>5, <1>6, <1>7, <1>8, <1>9, <1>10, <1>11 DEF A!Sync, A!Cycle, Acts
<1>12. ASSUME NEW w \in WorkerA, NEW tool \in ToolA, A!Begin(w, tool)
       PROVE  Acts(batchA, batchA', pcA, pcA')
  BY <1>12 DEF A!Begin, Acts, Rests
<1>13. ASSUME NEW w \in WorkerA, A!Handle(w)
       PROVE  /\ UNCHANGED <<batchA, pcA, pushed>>
              /\ UNCHANGED <<queue, nextId>> \/ \E wr : A!Enqueue(wr)
  BY <1>13
  DEF A!Handle, A!CreateEntity, A!FindEntity, A!EnsureEntity, A!AddObservation, A!AddRelation,
      A!DeleteEntity, A!DeleteRelation, A!DeleteOne, A!EraseObservations, A!LookupErased,
      A!EnqueueWrite, A!RecordAudit, A!TriggerSync
<1>14. ASSUME NEW w \in WorkerA, A!Handle(w)
       PROVE  Acts(batchA, batchA', pcA, pcA')
  BY <1>13, <1>14 DEF A!Enqueue, Enqueue, Acts, Rests, Accepts
<1> QED
  BY <1>11, <1>12, <1>14 DEF A!Serve

\* Every step of session B is one of these.
LEMMA ActsB ==
  ASSUME B!Sync \/ \E w \in WorkerB : B!Serve(w)
  PROVE  Acts(batchB, batchB', pcB, pcB')
<1> USE DEF B!drainVars, B!pullVars, B!cacheVars, B!engineVars, B!engineButTrig
<1>1. CASE B!Tick \/ B!Triggered
  BY <1>1 DEF B!Tick, B!Triggered, Acts, Rests
<1>2. CASE B!Peek
  BY <1>2 DEF B!Peek, B!PeekDue, B!EndDrain, B!PullFrom, B!EndCycle, Acts, Rests
<1>3. CASE B!PeekFails
  BY <1>3 DEF B!PeekFails, B!EndDrain, B!PullFrom, B!EndCycle, Acts, Rests
<1>4. ASSUME NEW op \in batchB, B!Push(op) \/ B!PushLost(op)
      PROVE  Delivers(batchB, batchB')
  BY <1>4 DEF B!Push, B!PushLost, B!IsNext, Oldest, Delivers
<1>5. ASSUME NEW op \in batchB, B!PushFail(op) \/ B!Mark(op) \/ B!MarkFails(op)
      PROVE  Rests(batchB, batchB', pcB, pcB')
  BY <1>5 DEF B!PushFail, B!Mark, B!MarkFails, Rests
<1>6. ASSUME NEW op \in batchB, B!Success(op)
      PROVE  Settles(batchB, batchB', pcB, pcB')
  BY <1>6 DEF B!Success, B!IsNext, B!MarkSuccess, B!Others, Oldest, Settles, MarkSuccess, Others
<1>7. ASSUME NEW op \in batchB, B!Failure(op)
      PROVE  PutsOff(batchB, batchB')
  BY <1>7 DEF B!Failure, B!EndDrain, B!MarkFailure, B!Others, PutsOff, MarkFailure, Others
<1>8. CASE B!Fetch
  BY <1>8 DEF B!Fetch, B!NextTable, B!PullFrom, B!EndPull, B!EndCycle, Acts, Rests
<1>9. CASE B!Advance \/ B!PullFail
  BY <1>9 DEF B!Advance, B!PullFail, B!NextTable, B!PullFrom, B!EndPull, B!EndCycle, Acts, Rests
<1>10. ASSUME NEW x \in todoB, B!ApplyRow(x)
       PROVE  Rests(batchB, batchB', pcB, pcB')
  BY <1>10 DEF B!ApplyRow, Rests
<1>11. ASSUME B!Sync
       PROVE  Acts(batchB, batchB', pcB, pcB')
  BY <1>1, <1>2, <1>3, <1>4, <1>5, <1>6, <1>7, <1>8, <1>9, <1>10, <1>11 DEF B!Sync, B!Cycle, Acts
<1>12. ASSUME NEW w \in WorkerB, NEW tool \in ToolB, B!Begin(w, tool)
       PROVE  Acts(batchB, batchB', pcB, pcB')
  BY <1>12 DEF B!Begin, Acts, Rests
<1>13. ASSUME NEW w \in WorkerB, B!Handle(w)
       PROVE  /\ UNCHANGED <<batchB, pcB, pushed>>
              /\ UNCHANGED <<queue, nextId>> \/ \E wr : B!Enqueue(wr)
  BY <1>13
  DEF B!Handle, B!CreateEntity, B!FindEntity, B!EnsureEntity, B!AddObservation, B!AddRelation,
      B!DeleteEntity, B!DeleteRelation, B!DeleteOne, B!EraseObservations, B!LookupErased,
      B!EnqueueWrite, B!RecordAudit, B!TriggerSync
<1>14. ASSUME NEW w \in WorkerB, B!Handle(w)
       PROVE  Acts(batchB, batchB', pcB, pcB')
  BY <1>13, <1>14 DEF B!Enqueue, Enqueue, Acts, Rests, Accepts
<1> QED
  BY <1>11, <1>12, <1>14 DEF B!Serve

-----------------------------------------------------------------------------
(* What the steps do to the promise *)

\* Putting an operation off, and the end of its backoff, keep its key and its
\* columns.
LEMMA ReschedulingKeepsRow ==
  ASSUME NEW q, Complete(q)
  PROVE  /\ LET off == [q EXCEPT !.due = FALSE, !.tried = TRUE]
            IN  off.id = q.id /\ Complete(off)
         /\ LET again == [q EXCEPT !.due = TRUE]
            IN  again.id = q.id /\ Complete(again)
<1>1. ASSUME NEW do, NEW row, NEW val,
             q \in [id : Nat, do : {do}, row : {row}, val : {val}, due : BOOLEAN, tried : BOOLEAN]
      PROVE  LET off   == [q EXCEPT !.due = FALSE, !.tried = TRUE]
                 again == [q EXCEPT !.due = TRUE]
             IN  /\ off.id = q.id /\ off.do = do /\ off.row = row /\ off.val = val
                 /\ again.id = q.id /\ again.do = do /\ again.row = row /\ again.val = val
                 /\ {off, again} \subseteq [id : Nat, do : {do}, row : {row}, val : {val},
                                            due : BOOLEAN, tried : BOOLEAN]
  BY <1>1
<1> QED
  BY <1>1 DEF Complete

\* MarkFailure keeps the keys, whoever peeked the operation and whether or not
\* it is still there.
LEMMA MarkFailureKeepsKeys ==
  ASSUME QueueShape, NEW op, MarkFailure(op), UNCHANGED nextId
  PROVE  QueueShape' /\ Tickets' = Tickets
<1> DEFINE off(q) == [q EXCEPT !.due = FALSE, !.tried = TRUE]
<1>1. \A q \in queue : off(q).id = q.id /\ off(q).id \in Nat /\ Complete(off(q))
  BY ReschedulingKeepsRow DEF QueueShape
<1>2. queue' = Others(op) \cup {off(q) : q \in queue \ Others(op)} /\ Others(op) \subseteq queue
  BY DEF MarkFailure, Others
<1> HIDE DEF off
<1> QED
  BY <1>1, <1>2 DEF QueueShape, Tickets

\* Others keep what they peeked sound while keys only come, or go when executed.
LEMMA StaysSound ==
  ASSUME NEW batch, NEW pc, NEW waiting, NEW executed, NEW waitingN, NEW executedN,
         Sound(batch, pc, waiting, executed),
         waiting \subseteq waitingN \cup executedN, executed \subseteq executedN
  PROVE  Sound(batch, pc, waitingN, executedN)
BY DEF Sound

\* A step of one session is a step of the outbox or none, leaves the session
\* sound, and takes away no key that was not executed.
LEMMA ActsKeep ==
  ASSUME QueueShape, NEW batch, NEW batchN, NEW pc, NEW pcN,
         Sound(batch, pc, Tickets, pushed), Acts(batch, batchN, pc, pcN)
  PROVE  /\ QueueShape'
         /\ Sound(batchN, pcN, Tickets', pushed')
         /\ Tickets \subseteq Tickets' \cup pushed' /\ pushed \subseteq pushed'
         /\ [A!Queue!Next]_A!Queue!vars
<1> DEFINE Goal == /\ QueueShape'
                   /\ Sound(batchN, pcN, Tickets', pushed')
                   /\ Tickets \subseteq Tickets' \cup pushed' /\ pushed \subseteq pushed'
                   /\ [A!Queue!Next]_A!Queue!vars
<1>1. ASSUME Tickets' = Tickets, UNCHANGED <<nextId, pushed>>
      PROVE  UNCHANGED A!Queue!vars
  BY <1>1 DEF A!Queue!vars, Tickets
<1>2. CASE Rests(batch, batchN, pc, pcN)
  <2>1. QueueShape' /\ Tickets' = Tickets /\ UNCHANGED <<nextId, pushed>>
    BY <1>2 DEF Rests, QueueShape, Tickets
  <2>2. Sound(batchN, pcN, Tickets, pushed)
    BY <1>2 DEF Rests, Sound, QueueShape, Tickets
  <2> QED
    BY <1>1, <2>1, <2>2
<1>3. CASE Accepts(batch, batchN, pc, pcN)
  <2>1. PICK wr : Enqueue(wr)
    BY <1>3 DEF Accepts
  <2> DEFINE new == [id |-> nextId, do |-> wr.do, row |-> wr.row, val |-> wr.val,
                     due |-> TRUE, tried |-> FALSE]
  <2>2. queue' = queue \cup {new} /\ nextId' = nextId + 1 /\ new.id = nextId /\ Complete(new)
    <3>1. queue' = queue \cup {new} /\ nextId' = nextId + 1
      BY <2>1 DEF Enqueue
    <3>2. /\ new.id = nextId /\ new.due = TRUE /\ new.tried = FALSE
          /\ new.do = wr.do /\ new.row = wr.row /\ new.val = wr.val
      OBVIOUS
    <3>3. new \in [id : {nextId}, do : {wr.do}, row : {wr.row}, val : {wr.val},
                   due : BOOLEAN, tried : BOOLEAN]
      OBVIOUS
    <3>4. nextId \in Nat
      BY DEF QueueShape
    <3> HIDE DEF new
    <3> QED
      BY <3>1, <3>2, <3>3, <3>4 DEF Complete
  <2> HIDE DEF new
  <2>3. QueueShape'
    BY <2>2 DEF QueueShape
  <2>4. Tickets' = Tickets \cup {nextId}
    BY <2>2 DEF Tickets
  <2>5. batchN = batch /\ pcN = pc /\ UNCHANGED pushed
    BY <1>3 DEF Accepts
  <2>6. Sound(batchN, pcN, Tickets', pushed')
    BY <2>4, <2>5, StaysSound
  <2>7. A!Queue!Next
    BY <2>2, <2>4, <2>5 DEF A!Queue!Next, A!Queue!Accept, Tickets
  <2> QED
    BY <2>3, <2>4, <2>5, <2>6, <2>7
<1>4. CASE Delivers(batch, batchN)
  <2>1. PICK op \in batch : /\ Oldest(op, batch)
                            /\ pushed' = pushed \cup {op.id}
                            /\ batchN = batch /\ UNCHANGED <<queue, nextId>>
    BY <1>4 DEF Delivers
  <2>2. QueueShape' /\ Tickets' = Tickets
    BY <2>1 DEF QueueShape, Tickets
  <2>3. op.id \in Tickets \cup pushed /\ \A q \in batch : q.id \in Nat
    BY DEF Sound
  <2>4. Sound(batchN, pcN, Tickets', pushed')
    <3>1. \A q \in batch : Oldest(q, batch) => q.id = op.id
      BY <2>1, <2>3 DEF Oldest
    <3> QED
      BY <2>1, <2>2, <3>1 DEF Sound
  <2>5. CASE op.id \in Tickets
    <3>1. A!Queue!Next
      BY <2>1, <2>2, <2>5 DEF A!Queue!Next, A!Queue!Deliver, Tickets
    <3> QED
      BY <2>1, <2>2, <2>4, <3>1
  <2>6. CASE op.id \in pushed
    BY <1>1, <2>1, <2>2, <2>4, <2>6
  <2> QED
    BY <2>3, <2>5, <2>6
<1>5. CASE Settles(batch, batchN, pc, pcN)
  <2>1. PICK op \in batch :
          /\ pc = "success" /\ pcN \notin {"mark", "success"}
          /\ Oldest(op, batch)
          /\ MarkSuccess(op) \/ UNCHANGED queue
          /\ batchN = batch \ {op} /\ UNCHANGED <<nextId, pushed>>
    BY <1>5 DEF Settles
  <2>2. op.id \in pushed
    BY <2>1 DEF Sound
  <2>3. CASE UNCHANGED queue
    <3>1. QueueShape' /\ Tickets' = Tickets
      BY <2>1, <2>3 DEF QueueShape, Tickets
    <3>2. Sound(batchN, pcN, Tickets', pushed')
      BY <2>1, <3>1 DEF Sound
    <3> QED
      BY <1>1, <2>1, <3>1, <3>2
  <2>4. CASE MarkSuccess(op)
    <3>1. QueueShape' /\ Tickets' = Tickets \ {op.id}
      BY <2>1, <2>4 DEF MarkSuccess, Others, QueueShape, Tickets
    <3>2. Sound(batchN, pcN, Tickets', pushed')
      BY <2>1, <2>2, <3>1 DEF Sound
    <3>3. CASE op.id \in Tickets
      <4>1. A!Queue!Next
        BY <2>1, <2>2, <3>1, <3>3 DEF A!Queue!Next, A!Queue!Settle, Tickets
      <4> QED
        BY <2>1, <2>2, <3>1, <3>2, <4>1
    <3>4. CASE op.id \notin Tickets
      <4>1. Tickets' = Tickets
        BY <3>1, <3>4
      <4> QED
        BY <1>1, <2>1, <3>1, <3>2, <4>1
    <3> QED
      BY <3>3, <3>4
  <2> QED
    BY <2>1, <2>3, <2>4
<1>6. CASE PutsOff(batch, batchN)
  <2>1. PICK op \in batch : /\ MarkFailure(op) \/ UNCHANGED queue
                            /\ batchN = {} /\ UNCHANGED <<nextId, pushed>>
    BY <1>6 DEF PutsOff
  <2>2. QueueShape' /\ Tickets' = Tickets
    <3>1. CASE UNCHANGED queue
      BY <2>1, <3>1 DEF QueueShape, Tickets
    <3>2. CASE MarkFailure(op)
      BY <2>1, <3>2, MarkFailureKeepsKeys
    <3> QED
      BY <2>1, <3>1, <3>2
  <2>3. Sound(batchN, pcN, Tickets', pushed')
    BY <2>1 DEF Sound
  <2> QED
    BY <1>1, <2>1, <2>2, <2>3
<1> QED
  BY <1>2, <1>3, <1>4, <1>5, <1>6 DEF Acts

-----------------------------------------------------------------------------
(* The refinement *)

SharedInv ==
  /\ QueueShape
  /\ Sound(batchA, pcA, Tickets, pushed)
  /\ Sound(batchB, pcB, Tickets, pushed)

\* A step of either session, or the passing of time, keeps the invariant and is
\* a step of the outbox or none.
LEMMA SharedStep ==
  ASSUME SharedInv, [Next]_vars
  PROVE  SharedInv' /\ [A!Queue!Next]_A!Queue!vars
<1>1. CASE StepA
  <2>1. Acts(batchA, batchA', pcA, pcA')
    BY <1>1, ActsA DEF StepA
  <2>2. UNCHANGED <<batchB, pcB>>
    BY <1>1 DEF StepA, sessionB
  <2>3. /\ QueueShape'
        /\ Sound(batchA', pcA', Tickets', pushed')
        /\ Tickets \subseteq Tickets' \cup pushed' /\ pushed \subseteq pushed'
        /\ [A!Queue!Next]_A!Queue!vars
    BY <2>1, ActsKeep DEF SharedInv
  <2>4. Sound(batchB, pcB, Tickets', pushed')
    BY <2>3, StaysSound DEF SharedInv
  <2> QED
    BY <2>2, <2>3, <2>4 DEF SharedInv
<1>2. CASE StepB
  <2>1. Acts(batchB, batchB', pcB, pcB')
    BY <1>2, ActsB DEF StepB
  <2>2. UNCHANGED <<batchA, pcA>>
    BY <1>2 DEF StepB, sessionA
  <2>3. /\ QueueShape'
        /\ Sound(batchB', pcB', Tickets', pushed')
        /\ Tickets \subseteq Tickets' \cup pushed' /\ pushed \subseteq pushed'
        /\ [A!Queue!Next]_A!Queue!vars
    BY <2>1, ActsKeep DEF SharedInv
  <2>4. Sound(batchA, pcA, Tickets', pushed')
    BY <2>3, StaysSound DEF SharedInv
  <2> QED
    BY <2>2, <2>3, <2>4 DEF SharedInv
<1>3. CASE TimePasses
  <2>1. PICK op \in queue : Elapse(op)
    BY <1>3 DEF TimePasses
  <2> DEFINE new == [op EXCEPT !.due = TRUE]
  <2>2. queue' = (queue \ {op}) \cup {new}
    BY <2>1 DEF Elapse
  <2>3. new.id = op.id /\ Complete(new)
    BY ReschedulingKeepsRow DEF SharedInv, QueueShape
  <2> HIDE DEF new
  <2>4. UNCHANGED <<nextId, pushed, batchA, pcA, batchB, pcB>>
    BY <1>3 DEF TimePasses, sessionA, sessionB
  <2>5. QueueShape' /\ Tickets' = Tickets
    BY <2>2, <2>3, <2>4 DEF SharedInv, QueueShape, Tickets
  <2>6. SharedInv'
    BY <2>4, <2>5 DEF SharedInv
  <2>7. UNCHANGED A!Queue!vars
    BY <2>4, <2>5 DEF A!Queue!vars, Tickets
  <2> QED
    BY <2>6, <2>7
<1>4. CASE UNCHANGED vars
  <2>1. UNCHANGED <<queue, nextId, pushed, batchA, pcA, batchB, pcB>>
    BY <1>4 DEF vars, cacheVars, sessionA, sessionB
  <2> QED
    BY <2>1 DEF SharedInv, QueueShape, Tickets, A!Queue!vars
<1> QED
  BY <1>1, <1>2, <1>3, <1>4 DEF Next

\* Two server processes on one cache file lose no operation and invent none,
\* although each may execute, remove or put off what the other has peeked
\* (db.go: Open; queue.go: MarkSuccess, MarkFailure).
THEOREM SharedOutbox == Spec => SharedOutboxSpec
<1>1. Init => SharedInv
  BY DEF Init, A!Init, A!CacheInit, A!EngineInit, B!Init, B!EngineInit,
     SharedInv, QueueShape, Sound, Tickets
<1>2. Init => A!Queue!Init
  BY DEF Init, A!Init, A!CacheInit, A!EngineInit, A!Queue!Init
<1>3. SharedInv /\ [Next]_vars => SharedInv' /\ [A!Queue!Next]_A!Queue!vars
  BY SharedStep
<1> QED
  BY <1>1, <1>2, <1>3, PTL DEF Spec, SharedOutboxSpec, A!OutboxSpec, A!Queue!Spec
-----------------------------------------------------------------------------
(* The types of both sessions *)

\* The assumptions about the constants, as each session's lemmas need them.
LEMMA AssumptionsA ==
  /\ A!RowAssumption /\ A!ReferenceAssumption /\ A!ContentAssumption
  /\ A!ServerAssumption /\ A!BatchAssumption /\ A!PageAssumption /\ A!ToolAssumption
<1>1. A!RowAssumption
  BY RowAssumption, Zenon DEF A!IsFiniteSet, IsFiniteSet, A!Row, Row, A!NoRow, NoRow
<1>2. A!ReferenceAssumption /\ A!ContentAssumption /\ A!ServerAssumption /\ A!BatchAssumption
  BY ReferenceAssumption, ContentAssumption, ServerAssumption, BatchAssumption
<1>3. A!PageAssumption /\ A!ToolAssumption
  BY SessionAssumption
<1> QED
  BY <1>1, <1>2, <1>3

LEMMA AssumptionsB ==
  /\ B!RowAssumption /\ B!ReferenceAssumption /\ B!ContentAssumption
  /\ B!ServerAssumption /\ B!BatchAssumption /\ B!PageAssumption /\ B!ToolAssumption
<1>1. B!RowAssumption
  BY RowAssumption, Zenon DEF B!IsFiniteSet, IsFiniteSet, B!Row, Row, B!NoRow, NoRow
<1>2. B!ReferenceAssumption /\ B!ContentAssumption /\ B!ServerAssumption /\ B!BatchAssumption
  BY ReferenceAssumption, ContentAssumption, ServerAssumption, BatchAssumption
<1>3. B!PageAssumption /\ B!ToolAssumption
  BY SessionAssumption
<1> QED
  BY <1>1, <1>2, <1>3

\* A step of one session keeps the types of both.
LEMMA TypesA ==
  ASSUME A!TypeOK, B!TypeOK, [A!Next]_A!vars, UNCHANGED sessionB
  PROVE  A!TypeOK' /\ B!TypeOK'
<1>1. A!TypeOK'
  BY A!StepType, AssumptionsA
<1>2. /\ A!ServerTypeOK' /\ A!CacheTypeOK'
      /\ pushed' \subseteq Nat /\ breaks' \in Nat
  BY <1>1 DEF A!TypeOK, A!EngineTypeOK, A!ToolsTypeOK
<1>3. B!ServerTypeOK' /\ B!CacheTypeOK'
  BY <1>2
  DEF A!ServerTypeOK, B!ServerTypeOK, A!CacheTypeOK, B!CacheTypeOK, A!RemoteRow, B!RemoteRow,
      A!CacheRow, B!CacheRow, A!Entry, B!Entry, A!Row, B!Row, A!Table, B!Table, A!NoRow, B!NoRow
<1>4. B!EngineTypeOK' /\ B!ToolsTypeOK'
  BY <1>2 DEF B!TypeOK, B!EngineTypeOK, B!ToolsTypeOK, sessionB
<1> QED
  BY <1>1, <1>3, <1>4 DEF B!TypeOK

LEMMA TypesB ==
  ASSUME A!TypeOK, B!TypeOK, [B!Next]_B!vars, UNCHANGED sessionA
  PROVE  A!TypeOK' /\ B!TypeOK'
<1>1. B!TypeOK'
  BY B!StepType, AssumptionsB
<1>2. /\ B!ServerTypeOK' /\ B!CacheTypeOK'
      /\ pushed' \subseteq Nat /\ breaks' \in Nat
  BY <1>1 DEF B!TypeOK, B!EngineTypeOK, B!ToolsTypeOK
<1>3. A!ServerTypeOK' /\ A!CacheTypeOK'
  BY <1>2
  DEF A!ServerTypeOK, B!ServerTypeOK, A!CacheTypeOK, B!CacheTypeOK, A!RemoteRow, B!RemoteRow,
      A!CacheRow, B!CacheRow, A!Entry, B!Entry, A!Row, B!Row, A!Table, B!Table, A!NoRow, B!NoRow
<1>4. A!EngineTypeOK' /\ A!ToolsTypeOK'
  BY <1>2 DEF A!TypeOK, A!EngineTypeOK, A!ToolsTypeOK, sessionA
<1> QED
  BY <1>1, <1>3, <1>4 DEF A!TypeOK

-----------------------------------------------------------------------------
(* Keys *)

\* What an engine peeked stays distinct while new keys are new and the others
\* go on to name what they named.
LEMMA StaysDistinct ==
  ASSUME NEW ops, Distinct(ops, queue, nextId),
         \A p \in ops : p.id \in Nat,
         nextId \in Nat, nextId' \in {nextId, nextId + 1},
         \A p \in queue' : \/ p.id = nextId
                           \/ \E q \in queue : q.id = p.id /\ q.do = p.do /\ q.row = p.row
  PROVE  Distinct(ops, queue', nextId')
BY DEF Distinct

\* A step that enqueues, removes or puts off an operation keeps the keys.
LEMMA KeysKept ==
  ASSUME CacheTypeOK, KeysInv, NEW batch, NEW batchN, NEW other, NEW pc, NEW pcN,
         batch \subseteq Entry, other \subseteq Entry,
         Distinct(batch, queue, nextId), Distinct(other, queue, nextId),
         Acts(batch, batchN, pc, pcN)
  PROVE  /\ Distinct(queue', queue', nextId')
         /\ Distinct(batchN, queue', nextId')
         /\ Distinct(other, queue', nextId')
<1> DEFINE Goal == /\ Distinct(queue', queue', nextId')
                   /\ Distinct(batchN, queue', nextId')
                   /\ Distinct(other, queue', nextId')
<1>1. /\ nextId \in Nat /\ queue \subseteq Entry
      /\ \A p \in Entry : p.id \in Nat
      /\ Distinct(queue, queue, nextId)
  BY DEF CacheTypeOK, Entry, KeysInv
<1>2. ASSUME nextId' \in {nextId, nextId + 1},
             \A p \in queue' : \/ p.id = nextId
                               \/ \E q \in queue : q.id = p.id /\ q.do = p.do /\ q.row = p.row,
             \A p, q \in queue' : p.id = q.id => p = q,
             \A p \in queue' : p.id = nextId => nextId' = nextId + 1,
             batchN \subseteq batch
      PROVE  Goal
  <2>1. Distinct(queue', queue', nextId')
    BY <1>1, <1>2 DEF Distinct
  <2>2. Distinct(batch, queue', nextId') /\ Distinct(other, queue', nextId')
    BY <1>1, <1>2, StaysDistinct
  <2> QED
    BY <1>2, <2>1, <2>2 DEF Distinct
<1>3. ASSUME UNCHANGED nextId, queue' \subseteq queue, batchN \subseteq batch
      PROVE  Goal
  BY <1>1, <1>2, <1>3 DEF Distinct
<1>4. CASE Rests(batch, batchN, pc, pcN)
  <2>1. CASE batchN = batch
    BY <1>3, <1>4, <2>1 DEF Rests
  <2>2. CASE batchN \subseteq queue
    BY <1>1, <1>4, <2>2 DEF Rests, Distinct
  <2> QED
    BY <1>4, <2>1, <2>2 DEF Rests
<1>5. CASE Accepts(batch, batchN, pc, pcN)
  <2>1. PICK wr : Enqueue(wr)
    BY <1>5 DEF Accepts
  <2> DEFINE new == [id |-> nextId, do |-> wr.do, row |-> wr.row, val |-> wr.val,
                     due |-> TRUE, tried |-> FALSE]
  <2>2. queue' = queue \cup {new} /\ nextId' = nextId + 1 /\ new.id = nextId
    BY <2>1 DEF Enqueue
  <2>3. batchN \subseteq batch
    BY <1>5 DEF Accepts
  <2> HIDE DEF new
  <2>4. \A q \in queue : q.id # nextId
    BY <1>1 DEF Distinct
  <2>5. \A p, q \in queue' : p.id = q.id => p = q
    BY <1>1, <2>2, <2>4 DEF Distinct
  <2> QED
    BY <1>2, <2>2, <2>3, <2>5
<1>6. CASE Delivers(batch, batchN)
  BY <1>3, <1>6 DEF Delivers
<1>7. CASE Settles(batch, batchN, pc, pcN)
  BY <1>3, <1>7 DEF Settles, MarkSuccess, Others
<1>8. CASE PutsOff(batch, batchN)
  <2>1. PICK op \in batch : /\ MarkFailure(op) \/ UNCHANGED queue
                            /\ batchN = {} /\ UNCHANGED <<nextId, pushed>>
    BY <1>8 DEF PutsOff
  <2>2. CASE UNCHANGED queue
    BY <1>3, <2>1, <2>2
  <2>3. CASE MarkFailure(op)
    <3> DEFINE off(q) == [q EXCEPT !.due = FALSE, !.tried = TRUE]
    <3>1. queue' = Others(op) \cup {off(q) : q \in queue \ Others(op)}
      BY <2>3 DEF MarkFailure
    <3>2. \A q \in queue : off(q).id = q.id /\ off(q).do = q.do /\ off(q).row = q.row
      BY <1>1 DEF Entry
    <3> HIDE DEF off
    <3>3. \A q \in queue \ Others(op) : q.id = op.id
      BY DEF Others
    <3>4. \A p, q \in queue' : p.id = q.id => p = q
      BY <1>1, <3>1, <3>2, <3>3 DEF Distinct, Others
    <3>5. \A p \in queue' : \E q \in queue : q.id = p.id /\ q.do = p.do /\ q.row = p.row
      BY <3>1, <3>2 DEF Others
    <3>6. \A p \in queue' : p.id # nextId
      BY <1>1, <3>5 DEF Distinct
    <3> QED
      BY <1>2, <2>1, <3>4, <3>5, <3>6
  <2> QED
    BY <2>1, <2>2, <2>3
<1> QED
  BY <1>4, <1>5, <1>6, <1>7, <1>8 DEF Acts

\* So does the end of a backoff.
LEMMA ElapseKeepsKeys ==
  ASSUME CacheTypeOK, KeysInv, A!TypeOK, B!TypeOK, TimePasses
  PROVE  KeysInv'
<1>1. /\ nextId \in Nat /\ queue \subseteq Entry
      /\ \A p \in Entry : p.id \in Nat
      /\ \A p \in batchA \cup batchB : p.id \in Nat
  BY DEF CacheTypeOK, Entry, A!TypeOK, A!EngineTypeOK, A!Entry, B!TypeOK, B!EngineTypeOK, B!Entry
<1>2. PICK op \in queue : Elapse(op)
  BY DEF TimePasses
<1> DEFINE again == [op EXCEPT !.due = TRUE]
<1>3. queue' = (queue \ {op}) \cup {again}
  BY <1>2 DEF Elapse
<1>4. again.id = op.id /\ again.do = op.do /\ again.row = op.row
  BY <1>1 DEF Entry
<1> HIDE DEF again
<1>5. UNCHANGED <<nextId, batchA, batchB>>
  BY DEF TimePasses, sessionA, sessionB
<1>6. Distinct(queue', queue', nextId')
  BY <1>3, <1>4, <1>5 DEF KeysInv, Distinct
<1>7. \A p \in queue' : \E q \in queue : q.id = p.id /\ q.do = p.do /\ q.row = p.row
  BY <1>3, <1>4
<1>8. Distinct(batchA, queue', nextId') /\ Distinct(batchB, queue', nextId')
  BY <1>1, <1>5, <1>7, StaysDistinct DEF KeysInv
<1> QED
  BY <1>5, <1>6, <1>8 DEF KeysInv

-----------------------------------------------------------------------------
(* Carriers *)

\* A step of a session, or of time, seen from the rows.  A row changes when it
\* is marked or pulled, and is on the server then, or when a handler writes it,
\* and is held then; what a handler held it still holds or has queued, under a
\* key that no engine has peeked; no row leaves the server; an operation goes
\* that was about to; and one is about to go when its row was marked, or when
\* there was nothing to delete.
Moves(held, owing, leaving, heldN, owingN, leavingN) ==
  /\ \A r \in Row :
       \/ cache'[r] = cache[r]
       \/ cache'[r].sync = "synced" /\ Present(r)'
       \/ cache'[r].sync # "none" /\ r \in heldN /\ (cache[r].sync # "none" \/ r \in owingN)
  /\ \A r \in held : cache'[r] = cache[r] =>
       \/ r \in heldN
       \/ nextId \notin leavingN /\ \E q \in queue' : q.row = r /\ q.id = nextId
  /\ \A r \in owing : r \in owingN \/ \E q \in queue' : q.row = r /\ q.do = "upsert"
  /\ \A r \in Row : Present(r) => Present(r)'
  /\ \A q \in queue : \/ q.id \in leaving
                      \/ \E p \in queue' : p.id = q.id /\ p.row = q.row /\ p.do = q.do
  /\ \A q \in queue : q.id \in leavingN /\ q.row \in Row =>
       \/ q.id \in leaving
       \/ ~Pending(q.row)'
       \/ q.do = "delete" /\ ~Present(q.row)

\* Meanwhile the other session holds what does not change, and owes and is about
\* to remove what it did.
Stays(held, owing, leaving, heldN) ==
  /\ owing \subseteq held
  /\ \A r \in held : cache'[r] = cache[r] => r \in heldN
  /\ \A q \in queue : q.id \in leaving /\ q.do = "upsert" => Present(q.row)
  /\ nextId \notin leaving

\* A session that takes no step, in a step of the other one or of time.
LEMMA RestingA ==
  ASSUME A!TypeOK, A!PresentInv, A!LookupInv, UNCHANGED sessionA,
         \A r \in Row : Present(r) => Present(r)',
         \A r \in Row : cache'[r] = cache[r] \/ cache'[r].sync # "none"
  PROVE  /\ A!PresentInv' /\ A!LookupInv'
         /\ \A r \in A!Held : cache'[r] = cache[r] => r \in A!Held'
         /\ UNCHANGED <<A!Owing, A!Leaving>>
<1>1. UNCHANGED <<pageA, pcA, batchA, workerA>>
  BY DEF sessionA
<1>2. \A r \in A!Row : A!Present(r) => A!Present(r)'
  BY DEF A!Row, Row, A!Present, Present
<1>3. \A r \in A!Row : cache'[r] = cache[r] \/ cache'[r].sync # "none"
  BY DEF A!Row, Row
<1>4. A!PresentInv'
  BY <1>1, <1>2, A!PresentKept, AssumptionsA
<1>5. /\ A!LookupInv' /\ A!Owing' = A!Owing
      /\ \A r \in A!Held : cache'[r] = cache[r] => r \in A!Held'
  BY <1>1, <1>3, A!HeldKept, AssumptionsA
<1>6. A!Leaving' = A!Leaving
  BY <1>1 DEF A!Leaving, A!IsNext
<1> QED
  BY <1>4, <1>5, <1>6

LEMMA RestingB ==
  ASSUME B!TypeOK, B!PresentInv, B!LookupInv, UNCHANGED sessionB,
         \A r \in Row : Present(r) => Present(r)',
         \A r \in Row : cache'[r] = cache[r] \/ cache'[r].sync # "none"
  PROVE  /\ B!PresentInv' /\ B!LookupInv'
         /\ \A r \in B!Held : cache'[r] = cache[r] => r \in B!Held'
         /\ UNCHANGED <<B!Owing, B!Leaving>>
<1>1. UNCHANGED <<pageB, pcB, batchB, workerB>>
  BY DEF sessionB
<1>2. \A r \in B!Row : B!Present(r) => B!Present(r)'
  BY DEF B!Row, Row, B!Present, Present
<1>3. \A r \in B!Row : cache'[r] = cache[r] \/ cache'[r].sync # "none"
  BY DEF B!Row, Row
<1>4. B!PresentInv'
  BY <1>1, <1>2, B!PresentKept, AssumptionsB
<1>5. /\ B!LookupInv' /\ B!Owing' = B!Owing
      /\ \A r \in B!Held : cache'[r] = cache[r] => r \in B!Held'
  BY <1>1, <1>3, B!HeldKept, AssumptionsB
<1>6. B!Leaving' = B!Leaving
  BY <1>1 DEF B!Leaving, B!IsNext
<1> QED
  BY <1>4, <1>5, <1>6

\* What session A does.
LEMMA MovesA ==
  ASSUME A!TypeOK, CacheTypeOK, KeysInv, A!PresentInv, A!LookupInv,
         A!Sync \/ \E w \in WorkerA : A!Serve(w)
  PROVE  /\ A!PresentInv' /\ A!LookupInv'
         /\ Moves(A!Held, A!Owing, A!Leaving, A!Held', A!Owing', A!Leaving')
<1>1. A!BatchKeys
  BY DEF KeysInv, Distinct, A!BatchKeys
<1>2. CASE A!Sync
  <2>1. A!Cycle /\ UNCHANGED workerA
    BY <1>2 DEF A!Sync, A!toolVars
  <2>2. A!PresentInv' /\ A!Drives
    BY <1>1, <2>1, A!CycleKeepsPresent, A!CycleDrives, AssumptionsA
  <2>3. /\ \A r \in Row : Present(r) => Present(r)'
        /\ \A r \in Row : cache'[r] = cache[r] \/ (cache'[r].sync = "synced" /\ Present(r)')
        /\ \A q \in queue : \/ q.id \in A!Leaving
                            \/ \E p \in queue' : p.id = q.id /\ p.row = q.row /\ p.do = q.do
    BY <2>2 DEF A!Drives, A!Row, Row, A!Present, Present
  <2>4. /\ A!LookupInv' /\ A!Owing' = A!Owing
        /\ \A r \in A!Held : cache'[r] = cache[r] => r \in A!Held'
    <3>1. \A r \in A!Row : cache'[r] = cache[r] \/ cache'[r].sync # "none"
      BY <2>3 DEF A!Row, Row
    <3> QED
      BY <2>1, <3>1, A!HeldKept, AssumptionsA
  <2>5. \A q \in queue : q.id \in A!Leaving' /\ q.row \in Row =>
          \/ q.id \in A!Leaving
          \/ ~Pending(q.row)'
          \/ q.do = "delete" /\ ~Present(q.row)
    <3>1. \A q \in queue : q.id \in A!Leaving' /\ q.row \in A!Row =>
            \/ q.id \in A!Leaving
            \/ ~A!Pending(q.row)'
            \/ q.do = "delete" /\ ~A!Present(q.row)
      BY <1>1, <2>2, A!LeavingAfter, AssumptionsA
    <3> QED
      BY <3>1 DEF A!Row, Row, A!Present, Present, A!Pending, Pending
  <2> QED
    BY <2>2, <2>3, <2>4, <2>5 DEF Moves
<1>3. ASSUME NEW w \in WorkerA, A!Serve(w)
      PROVE  /\ A!PresentInv' /\ A!LookupInv'
             /\ Moves(A!Held, A!Owing, A!Leaving, A!Held', A!Owing', A!Leaving')
  <2>1. A!LookupInv' /\ A!Handles(w)
    BY <1>3, A!BeginHandles, A!HandleHandles, AssumptionsA DEF A!Serve
  <2>2. UNCHANGED <<pageA, pcA, batchA, remote>>
    <3>1. ASSUME NEW tool \in ToolA, A!Begin(w, tool)
          PROVE  UNCHANGED <<pageA, pcA, batchA, remote>>
      BY <3>1 DEF A!Begin, A!engineVars, A!drainVars, A!pullVars, A!serverVars
    <3>2. CASE A!Handle(w)
      BY <3>2, A!HandleLeaves, AssumptionsA DEF A!drainVars, A!pullVars, A!serverVars
    <3> QED
      BY <1>3, <3>1, <3>2 DEF A!Serve
  <2>3. A!PresentInv'
    <3>1. \A r \in A!Row : A!Present(r) => A!Present(r)'
      BY <2>2 DEF A!Present
    <3> QED
      BY <2>2, <3>1, A!PresentKept, AssumptionsA
  <2>4. /\ \A r \in A!Row :
             \/ cache'[r] = cache[r]
             \/ /\ cache'[r].sync # "none"
                /\ r \in A!Held' /\ (cache[r].sync # "none" \/ r \in A!Owing')
        /\ \A r \in A!Held : cache'[r] = cache[r] =>
             r \in A!Held' \/ \E q \in queue' : q.row = r /\ q.id = nextId
        /\ \A r \in A!Owing : r \in A!Owing' \/ \E q \in queue' : q.row = r /\ q.do = "upsert"
        /\ A!Leaving' = A!Leaving
    BY <2>1, A!HeldAfter, AssumptionsA
  <2>5. nextId \notin A!Leaving
    <3>1. nextId \in Nat /\ \A op \in batchA : op.id < nextId
      BY DEF CacheTypeOK, KeysInv, Distinct
    <3> QED
      BY <3>1 DEF A!Leaving
  <2>6. /\ \A r \in Row : Present(r) => Present(r)'
        /\ queue \subseteq queue'
    BY <2>1, <2>2 DEF Present, A!Handles
  <2>7. \A r \in Row :
          \/ cache'[r] = cache[r]
          \/ /\ cache'[r].sync # "none"
             /\ r \in A!Held' /\ (cache[r].sync # "none" \/ r \in A!Owing')
    BY <2>4 DEF A!Row, Row
  <2> QED
    BY <2>1, <2>3, <2>4, <2>5, <2>6, <2>7 DEF Moves
<1> QED
  BY <1>2, <1>3

\* What session B does.
LEMMA MovesB ==
  ASSUME B!TypeOK, CacheTypeOK, KeysInv, B!PresentInv, B!LookupInv,
         B!Sync \/ \E w \in WorkerB : B!Serve(w)
  PROVE  /\ B!PresentInv' /\ B!LookupInv'
         /\ Moves(B!Held, B!Owing, B!Leaving, B!Held', B!Owing', B!Leaving')
<1>1. B!BatchKeys
  BY DEF KeysInv, Distinct, B!BatchKeys
<1>2. CASE B!Sync
  <2>1. B!Cycle /\ UNCHANGED workerB
    BY <1>2 DEF B!Sync, B!toolVars
  <2>2. B!PresentInv' /\ B!Drives
    BY <1>1, <2>1, B!CycleKeepsPresent, B!CycleDrives, AssumptionsB
  <2>3. /\ \A r \in Row : Present(r) => Present(r)'
        /\ \A r \in Row : cache'[r] = cache[r] \/ (cache'[r].sync = "synced" /\ Present(r)')
        /\ \A q \in queue : \/ q.id \in B!Leaving
                            \/ \E p \in queue' : p.id = q.id /\ p.row = q.row /\ p.do = q.do
    BY <2>2 DEF B!Drives, B!Row, Row, B!Present, Present
  <2>4. /\ B!LookupInv' /\ B!Owing' = B!Owing
        /\ \A r \in B!Held : cache'[r] = cache[r] => r \in B!Held'
    <3>1. \A r \in B!Row : cache'[r] = cache[r] \/ cache'[r].sync # "none"
      BY <2>3 DEF B!Row, Row
    <3> QED
      BY <2>1, <3>1, B!HeldKept, AssumptionsB
  <2>5. \A q \in queue : q.id \in B!Leaving' /\ q.row \in Row =>
          \/ q.id \in B!Leaving
          \/ ~Pending(q.row)'
          \/ q.do = "delete" /\ ~Present(q.row)
    <3>1. \A q \in queue : q.id \in B!Leaving' /\ q.row \in B!Row =>
            \/ q.id \in B!Leaving
            \/ ~B!Pending(q.row)'
            \/ q.do = "delete" /\ ~B!Present(q.row)
      BY <1>1, <2>2, B!LeavingAfter, AssumptionsB
    <3> QED
      BY <3>1 DEF B!Row, Row, B!Present, Present, B!Pending, Pending
  <2> QED
    BY <2>2, <2>3, <2>4, <2>5 DEF Moves
<1>3. ASSUME NEW w \in WorkerB, B!Serve(w)
      PROVE  /\ B!PresentInv' /\ B!LookupInv'
             /\ Moves(B!Held, B!Owing, B!Leaving, B!Held', B!Owing', B!Leaving')
  <2>1. B!LookupInv' /\ B!Handles(w)
    BY <1>3, B!BeginHandles, B!HandleHandles, AssumptionsB DEF B!Serve
  <2>2. UNCHANGED <<pageB, pcB, batchB, remote>>
    <3>1. ASSUME NEW tool \in ToolB, B!Begin(w, tool)
          PROVE  UNCHANGED <<pageB, pcB, batchB, remote>>
      BY <3>1 DEF B!Begin, B!engineVars, B!drainVars, B!pullVars, B!serverVars
    <3>2. CASE B!Handle(w)
      BY <3>2, B!HandleLeaves, AssumptionsB DEF B!drainVars, B!pullVars, B!serverVars
    <3> QED
      BY <1>3, <3>1, <3>2 DEF B!Serve
  <2>3. B!PresentInv'
    <3>1. \A r \in B!Row : B!Present(r) => B!Present(r)'
      BY <2>2 DEF B!Present
    <3> QED
      BY <2>2, <3>1, B!PresentKept, AssumptionsB
  <2>4. /\ \A r \in B!Row :
             \/ cache'[r] = cache[r]
             \/ /\ cache'[r].sync # "none"
                /\ r \in B!Held' /\ (cache[r].sync # "none" \/ r \in B!Owing')
        /\ \A r \in B!Held : cache'[r] = cache[r] =>
             r \in B!Held' \/ \E q \in queue' : q.row = r /\ q.id = nextId
        /\ \A r \in B!Owing : r \in B!Owing' \/ \E q \in queue' : q.row = r /\ q.do = "upsert"
        /\ B!Leaving' = B!Leaving
    BY <2>1, B!HeldAfter, AssumptionsB
  <2>5. nextId \notin B!Leaving
    <3>1. nextId \in Nat /\ \A op \in batchB : op.id < nextId
      BY DEF CacheTypeOK, KeysInv, Distinct
    <3> QED
      BY <3>1 DEF B!Leaving
  <2>6. /\ \A r \in Row : Present(r) => Present(r)'
        /\ queue \subseteq queue'
    BY <2>1, <2>2 DEF Present, B!Handles
  <2>7. \A r \in Row :
          \/ cache'[r] = cache[r]
          \/ /\ cache'[r].sync # "none"
             /\ r \in B!Held' /\ (cache[r].sync # "none" \/ r \in B!Owing')
    BY <2>4 DEF B!Row, Row
  <2> QED
    BY <2>1, <2>3, <2>4, <2>5, <2>6, <2>7 DEF Moves
<1> QED
  BY <1>2, <1>3

\* What the rows of both sessions together have, after a step of one of them.
LEMMA MovesCover ==
  ASSUME NEW held, NEW owing, NEW leaving, NEW heldN, NEW owingN, NEW leavingN,
         NEW heldO, NEW owingO, NEW leavingO, NEW heldON,
         A!Covered(held \cup heldO, owing \cup owingO, leaving \cup leavingO),
         Moves(held, owing, leaving, heldN, owingN, leavingN),
         Stays(heldO, owingO, leavingO, heldON),
         owing \subseteq held,
         \A q \in queue : q.id \in leaving /\ q.do = "upsert" => Present(q.row)
  PROVE  A!CoveredNext(heldN \cup heldON, owingN \cup owingO, leavingN \cup leavingO)
<1> DEFINE h == held \cup heldO  hN == heldN \cup heldON
           o == owing \cup owingO  oN == owingN \cup owingO
           l == leaving \cup leavingO  lN == leavingN \cup leavingO
<1>1. A!Covered(h, o, l) /\ o \subseteq h
  BY DEF Stays
<1>2. \A r \in A!Row : A!Present(r) => A!Present(r)'
  BY DEF Moves, A!Row, Row, A!Present, Present
<1>3. \A r \in A!Row : \/ cache'[r] = cache[r]
                       \/ cache'[r].sync = "synced" /\ A!Present(r)'
                       \/ r \in hN /\ (cache[r].sync # "none" \/ r \in oN)
  BY DEF Moves, A!Row, Row, A!Present, Present
<1>4. \A r \in h : cache'[r] = cache[r] =>
        r \in hN \/ \E q \in queue' : q.row = r /\ q.id \notin lN
  BY DEF Moves, Stays
<1>5. \A r \in o : r \in oN \/ \E q \in queue' : q.row = r /\ q.do = "upsert"
  BY DEF Moves
<1>6. \A q \in queue : q.id \in l /\ q.do = "upsert" => A!Present(q.row)
  BY DEF Stays, A!Present, Present
<1>7. \A q \in queue : \/ q.id \in l
                       \/ \E p \in queue' : p.id = q.id /\ p.row = q.row /\ p.do = q.do
  BY DEF Moves
<1>8. \A q \in queue : q.id \in lN /\ q.row \in A!Row =>
        \/ q.id \in l
        \/ ~A!Pending(q.row)'
        \/ q.do = "delete" /\ ~A!Present(q.row)
  BY DEF Moves, A!Row, Row, A!Present, Present, A!Pending, Pending
<1> HIDE DEF h, hN, o, oN, l, lN
<1>9. A!CoveredNext(hN, oN, lN)
  BY <1>1, <1>2, <1>3, <1>4, <1>5, <1>6, <1>7, <1>8, A!StaysCovered, AssumptionsA
<1> QED
  BY <1>9 DEF hN, oN, lN

\* What is held, owed and about to leave, for both sessions.
LEMMA BothHold ==
  ASSUME CacheTypeOK, KeysInv, A!PresentInv, B!PresentInv
  PROVE  /\ A!Owing \subseteq A!Held /\ B!Owing \subseteq B!Held
         /\ \A q \in queue : q.id \in A!Leaving /\ q.do = "upsert" => Present(q.row)
         /\ \A q \in queue : q.id \in B!Leaving /\ q.do = "upsert" => Present(q.row)
         /\ nextId \notin A!Leaving /\ nextId \notin B!Leaving
<1>1. A!BatchKeys /\ B!BatchKeys
  BY DEF KeysInv, Distinct, A!BatchKeys, B!BatchKeys
<1>2. A!Owing \subseteq A!Held /\ B!Owing \subseteq B!Held
  BY A!OwingIsHeld, AssumptionsA, B!OwingIsHeld, AssumptionsB
<1>3. \A q \in queue : q.id \in A!Leaving /\ q.do = "upsert" => Present(q.row)
  <2>1. \A q \in queue : q.id \in A!Leaving /\ q.do = "upsert" => A!Present(q.row)
    BY <1>1, A!LeavingIsPresent, AssumptionsA
  <2> QED
    BY <2>1 DEF A!Present, Present
<1>4. \A q \in queue : q.id \in B!Leaving /\ q.do = "upsert" => Present(q.row)
  <2>1. \A q \in queue : q.id \in B!Leaving /\ q.do = "upsert" => B!Present(q.row)
    BY <1>1, B!LeavingIsPresent, AssumptionsB
  <2> QED
    BY <2>1 DEF B!Present, Present
<1>5. nextId \notin A!Leaving /\ nextId \notin B!Leaving
  <2>1. nextId \in Nat /\ \A op \in batchA \cup batchB : op.id < nextId
    BY DEF CacheTypeOK, KeysInv, Distinct
  <2> QED
    BY <2>1 DEF A!Leaving, B!Leaving
<1> QED
  BY <1>2, <1>3, <1>4, <1>5

\* The cover of the next state.
LEMMA CoverMeans ==
  ASSUME A!CoveredNext(A!Held' \cup B!Held', A!Owing' \cup B!Owing', A!Leaving' \cup B!Leaving')
  PROVE  A!Covered(A!Held \cup B!Held, A!Owing \cup B!Owing, A!Leaving \cup B!Leaving)'
BY DEF A!Covered, A!CoveredNext, A!Present, A!Pending

\* Every step of either session, and the passing of time, keeps a carrier for
\* what waits.
LEMMA CarrierStep ==
  ASSUME SharedCarrierInv, [Next]_vars
  PROVE  SharedCarrierInv'
<1> DEFINE Cover == A!Covered(A!Held \cup B!Held, A!Owing \cup B!Owing, A!Leaving \cup B!Leaving)
<1>1. /\ A!TypeOK /\ B!TypeOK /\ KeysInv /\ A!PresentInv /\ A!LookupInv
      /\ B!PresentInv /\ B!LookupInv /\ Cover
  BY DEF SharedCarrierInv
<1>2. /\ CacheTypeOK /\ batchA \subseteq Entry /\ batchB \subseteq Entry
  BY <1>1 DEF A!TypeOK, B!TypeOK, A!EngineTypeOK, B!EngineTypeOK, A!CacheTypeOK, CacheTypeOK,
     A!Entry, B!Entry, Entry, A!CacheRow, CacheRow, A!Row, B!Row, Row, A!Table, Table,
     A!NoRow, B!NoRow, NoRow
<1>3. /\ A!Owing \subseteq A!Held /\ B!Owing \subseteq B!Held
      /\ \A q \in queue : q.id \in A!Leaving /\ q.do = "upsert" => Present(q.row)
      /\ \A q \in queue : q.id \in B!Leaving /\ q.do = "upsert" => Present(q.row)
      /\ nextId \notin A!Leaving /\ nextId \notin B!Leaving
  BY <1>1, <1>2, BothHold
<1>4. /\ Distinct(queue, queue, nextId)
      /\ Distinct(batchA, queue, nextId) /\ Distinct(batchB, queue, nextId)
  BY <1>1 DEF KeysInv
<1> HIDE DEF Cover
<1>5. CASE StepA
  <2>1. A!Sync \/ \E w \in WorkerA : A!Serve(w)
    BY <1>5 DEF StepA
  <2>2. UNCHANGED sessionB /\ UNCHANGED batchB
    BY <1>5 DEF StepA, sessionB
  <2>3. A!TypeOK' /\ B!TypeOK'
    <3>1. [A!Next]_A!vars
      BY <2>1 DEF A!Next
    <3> QED
      BY <1>1, <2>2, <3>1, TypesA
  <2>4. KeysInv'
    <3>1. Acts(batchA, batchA', pcA, pcA')
      BY <2>1, ActsA
    <3>2. /\ Distinct(queue', queue', nextId') /\ Distinct(batchA', queue', nextId')
          /\ Distinct(batchB, queue', nextId')
      BY <1>1, <1>2, <1>4, <3>1, KeysKept
    <3> QED
      BY <2>2, <3>2 DEF KeysInv
  <2>5. /\ A!PresentInv' /\ A!LookupInv'
        /\ Moves(A!Held, A!Owing, A!Leaving, A!Held', A!Owing', A!Leaving')
    BY <1>1, <1>2, <2>1, MovesA
  <2>6. /\ B!PresentInv' /\ B!LookupInv'
        /\ \A r \in B!Held : cache'[r] = cache[r] => r \in B!Held'
        /\ UNCHANGED <<B!Owing, B!Leaving>>
    <3>1. /\ \A r \in Row : Present(r) => Present(r)'
          /\ \A r \in Row : cache'[r] = cache[r] \/ cache'[r].sync # "none"
      BY <2>5 DEF Moves
    <3> QED
      BY <1>1, <2>2, <3>1, RestingB
  <2>7. A!CoveredNext(A!Held' \cup B!Held', A!Owing' \cup B!Owing', A!Leaving' \cup B!Leaving')
    <3>1. A!Covered(A!Held \cup B!Held, A!Owing \cup B!Owing, A!Leaving \cup B!Leaving)
      BY <1>1 DEF Cover
    <3>2. A!CoveredNext(A!Held' \cup B!Held', A!Owing' \cup B!Owing, A!Leaving' \cup B!Leaving)
      <4>1. Stays(B!Held, B!Owing, B!Leaving, B!Held')
        BY <1>3, <2>6 DEF Stays
      <4> QED
        BY <1>3, <2>5, <3>1, <4>1, MovesCover
    <3> QED
      BY <2>6, <3>2
  <2> QED
    BY <2>3, <2>4, <2>5, <2>6, <2>7, CoverMeans DEF SharedCarrierInv
<1>6. CASE StepB
  <2>1. B!Sync \/ \E w \in WorkerB : B!Serve(w)
    BY <1>6 DEF StepB
  <2>2. UNCHANGED sessionA /\ UNCHANGED batchA
    BY <1>6 DEF StepB, sessionA
  <2>3. B!TypeOK' /\ A!TypeOK'
    <3>1. [B!Next]_B!vars
      BY <2>1 DEF B!Next
    <3> QED
      BY <1>1, <2>2, <3>1, TypesB
  <2>4. KeysInv'
    <3>1. Acts(batchB, batchB', pcB, pcB')
      BY <2>1, ActsB
    <3>2. /\ Distinct(queue', queue', nextId') /\ Distinct(batchB', queue', nextId')
          /\ Distinct(batchA, queue', nextId')
      BY <1>1, <1>2, <1>4, <3>1, KeysKept
    <3> QED
      BY <2>2, <3>2 DEF KeysInv
  <2>5. /\ B!PresentInv' /\ B!LookupInv'
        /\ Moves(B!Held, B!Owing, B!Leaving, B!Held', B!Owing', B!Leaving')
    BY <1>1, <1>2, <2>1, MovesB
  <2>6. /\ A!PresentInv' /\ A!LookupInv'
        /\ \A r \in A!Held : cache'[r] = cache[r] => r \in A!Held'
        /\ UNCHANGED <<A!Owing, A!Leaving>>
    <3>1. /\ \A r \in Row : Present(r) => Present(r)'
          /\ \A r \in Row : cache'[r] = cache[r] \/ cache'[r].sync # "none"
      BY <2>5 DEF Moves
    <3> QED
      BY <1>1, <2>2, <3>1, RestingA
  <2>7. A!CoveredNext(A!Held' \cup B!Held', A!Owing' \cup B!Owing', A!Leaving' \cup B!Leaving')
    <3>1. A!Covered(B!Held \cup A!Held, B!Owing \cup A!Owing, B!Leaving \cup A!Leaving)
      <4>1. /\ A!Held \cup B!Held = B!Held \cup A!Held
            /\ A!Owing \cup B!Owing = B!Owing \cup A!Owing
            /\ A!Leaving \cup B!Leaving = B!Leaving \cup A!Leaving
        OBVIOUS
      <4> QED
        BY <1>1, <4>1 DEF Cover
    <3>2. A!CoveredNext(B!Held' \cup A!Held', B!Owing' \cup A!Owing, B!Leaving' \cup A!Leaving)
      <4>1. Stays(A!Held, A!Owing, A!Leaving, A!Held')
        BY <1>3, <2>6 DEF Stays
      <4> QED
        BY <1>3, <2>5, <3>1, <4>1, MovesCover
    <3>3. /\ A!Held' \cup B!Held' = B!Held' \cup A!Held'
          /\ A!Owing' \cup B!Owing' = B!Owing' \cup A!Owing
          /\ A!Leaving' \cup B!Leaving' = B!Leaving' \cup A!Leaving
      BY <2>6
    <3> QED
      BY <3>2, <3>3
  <2> QED
    BY <2>3, <2>4, <2>5, <2>6, <2>7, CoverMeans DEF SharedCarrierInv
<1>7. ASSUME UNCHANGED <<cache, remote, sessionA, sessionB>>,
             \A q \in queue : \E p \in queue' : p.id = q.id /\ p.row = q.row /\ p.do = q.do
      PROVE  /\ A!PresentInv' /\ A!LookupInv' /\ B!PresentInv' /\ B!LookupInv'
             /\ Cover'
  <2>1. /\ \A r \in Row : Present(r) => Present(r)'
        /\ \A r \in Row : cache'[r] = cache[r]
    BY <1>7 DEF Present
  <2>2. /\ A!PresentInv' /\ A!LookupInv'
        /\ \A r \in A!Held : cache'[r] = cache[r] => r \in A!Held'
        /\ UNCHANGED <<A!Owing, A!Leaving>>
    BY <1>1, <1>7, <2>1, RestingA
  <2>3. /\ B!PresentInv' /\ B!LookupInv'
        /\ \A r \in B!Held : cache'[r] = cache[r] => r \in B!Held'
        /\ UNCHANGED <<B!Owing, B!Leaving>>
    BY <1>1, <1>7, <2>1, RestingB
  <2>4. Moves(A!Held, A!Owing, A!Leaving, A!Held', A!Owing', A!Leaving')
    BY <1>7, <2>1, <2>2 DEF Moves
  <2>5. A!CoveredNext(A!Held' \cup B!Held', A!Owing' \cup B!Owing, A!Leaving' \cup B!Leaving)
    <3>1. A!Covered(A!Held \cup B!Held, A!Owing \cup B!Owing, A!Leaving \cup B!Leaving)
      BY <1>1 DEF Cover
    <3>2. Stays(B!Held, B!Owing, B!Leaving, B!Held')
      BY <1>3, <2>3 DEF Stays
    <3> QED
      BY <1>3, <2>4, <3>1, <3>2, MovesCover
  <2>6. A!CoveredNext(A!Held' \cup B!Held', A!Owing' \cup B!Owing', A!Leaving' \cup B!Leaving')
    BY <2>3, <2>5
  <2> QED
    BY <2>2, <2>3, <2>6, CoverMeans DEF Cover
<1>8. CASE TimePasses
  <2>1. PICK op \in queue : Elapse(op)
    BY <1>8 DEF TimePasses
  <2>2. UNCHANGED <<cache, nextId, cursor, serverVars, pushed, breaks, sessionA, sessionB>>
    BY <1>8 DEF TimePasses
  <2>3. A!Backoff /\ UNCHANGED sessionB
    BY <1>8, <2>2
    DEF TimePasses, Elapse, A!Elapse, A!Backoff, sessionA, serverVars, A!engineVars, A!toolVars, A!serverVars
  <2>4. A!TypeOK' /\ B!TypeOK'
    BY <1>1, <2>3, TypesA DEF A!Next
  <2>5. KeysInv'
    BY <1>1, <1>2, <1>8, ElapseKeepsKeys
  <2>6. \A q \in queue : \E p \in queue' : p.id = q.id /\ p.row = q.row /\ p.do = q.do
    <3>1. A!Elapse(op) /\ A!CacheTypeOK
      BY <1>1, <2>1 DEF Elapse, A!Elapse, A!TypeOK
    <3> QED
      BY <3>1, A!RescheduleKeeps, AssumptionsA
  <2> QED
    BY <1>7, <2>2, <2>4, <2>5, <2>6 DEF SharedCarrierInv, Cover, serverVars
<1>9. CASE UNCHANGED vars
  <2>1. UNCHANGED <<cacheVars, serverVars, pushed, breaks, sessionA, sessionB, batchA, batchB>>
    BY <1>9 DEF vars, sessionA, sessionB
  <2>2. A!TypeOK' /\ B!TypeOK'
    <3>1. UNCHANGED A!vars
      BY <2>1
      DEF A!vars, A!engineVars, A!toolVars, A!serverVars, A!cacheVars, sessionA, cacheVars, serverVars
    <3> QED
      BY <1>1, <2>1, <3>1, TypesA
  <2>3. KeysInv'
    BY <1>1, <2>1 DEF KeysInv, Distinct, cacheVars
  <2> QED
    BY <1>7, <2>1, <2>2, <2>3 DEF SharedCarrierInv, Cover, cacheVars, serverVars
<1> QED
  BY <1>5, <1>6, <1>8, <1>9 DEF Next

\* What is here is on the server or owed to it by one of the sessions, and what
\* waits for its push has an operation, or a handler, that stays.
THEOREM SharedCarrierCorrect == Spec => []SharedCarrierInv
<1>1. Init => SharedCarrierInv
  <2> SUFFICES ASSUME Init PROVE SharedCarrierInv
    OBVIOUS
  <2>1. A!TypeOK /\ B!TypeOK
    BY A!InitType, AssumptionsA, B!InitType, AssumptionsB DEF Init
  <2>2. KeysInv
    BY DEF Init, A!Init, B!Init, A!CacheInit, A!EngineInit, B!EngineInit, KeysInv, Distinct
  <2>3. /\ A!PresentInv /\ A!LookupInv /\ B!PresentInv /\ B!LookupInv
        /\ \A h, o, l : A!Covered(h, o, l)
    BY DEF Init, A!Init, B!Init, A!CacheInit, A!EngineInit, A!ToolsInit, A!NoCall, A!Missing, A!At,
       B!CacheInit, B!EngineInit, B!ToolsInit, B!NoCall, B!Missing, B!At,
       A!PresentInv, A!LookupInv, B!PresentInv, B!LookupInv, A!Covered, A!Pending
  <2> QED
    BY <2>1, <2>2, <2>3 DEF SharedCarrierInv
<1>2. SharedCarrierInv /\ [Next]_vars => SharedCarrierInv'
  BY CarrierStep
<1> QED
  BY <1>1, <1>2, PTL DEF Spec

\* With two server processes on one cache file, too, no row is left waiting
\* for a push that nobody will make: also when one session executes and removes
\* what the other enqueued, marks a row that the other is writing, or finds
\* nothing to delete because the insertion is still the other's to enqueue
\* (tools.go: the handlers; push.go: applyOp; db.go: Open).
THEOREM SharedCarrier == Spec => []SharedPendingHasCarrier
<1>1. SharedCarrierInv => SharedPendingHasCarrier
  <2> SUFFICES ASSUME SharedCarrierInv, NEW r \in Row, Pending(r)
               PROVE  A!HasCarrier(r) \/ B!HasCarrier(r)
    BY DEF SharedPendingHasCarrier
  <2>1. r \in A!Held \cup B!Held \/ \E q \in queue : q.row = r
    BY DEF SharedCarrierInv, A!Covered, A!Row, Row, A!Pending, Pending
  <2> QED
    BY <2>1 DEF A!HasCarrier, B!HasCarrier, A!Held, B!Held
<1> QED
  BY <1>1, SharedCarrierCorrect, PTL
=============================================================================
