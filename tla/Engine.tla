------------------------------- MODULE Engine -----------------------------
(***************************************************************************)
(* The sync engine: one goroutine that on every tick drains the queue and   *)
(* then pulls, and on a trigger only drains.  The pull at startup holds the *)
(* same mutex and runs before tools are served.  Every step of a cycle is   *)
(* one statement, on the server or on the local file, so that tool calls,   *)
(* other devices and a crash may fall between any two.                      *)
(***************************************************************************)
EXTENDS Server, Cache

CONSTANT PageSize   \* rows per pull

ASSUME PageAssumption == PageSize \in Nat \ {0}

VARIABLES
  mode,     \* what the cycle is for: "boot", "tick", "trigger"; "rest" between cycles
  pc,       \* the statement the engine executes next
  trig,     \* is a trigger waiting in the channel
  batch,    \* the operations of the peeked batch still to be pushed
  reply,    \* the stamp the server gave the last push; 0 when it gave none
  pushed,   \* the ids of all operations the server has executed
  table,    \* the table being pulled
  sinceId,  \* the id half of the pull position; cursor[table] is the other
  page,     \* the rows of the page being applied
  todo      \* those still to be applied

engineVars == <<mode, pc, trig, batch, reply, pushed, table, sinceId, page, todo>>
drainVars  == <<batch, reply, pushed>>
pullVars   == <<table, sinceId, page, todo>>

PulledRow == [row : Row, ts : Nat, val : Content, dead : BOOLEAN]

EngineTypeOK ==
  /\ mode \in {"boot", "tick", "trigger", "rest"}
  /\ pc \in {"idle", "peek", "push", "mark", "success", "failure", "fetch", "apply"}
  /\ trig \in BOOLEAN
  /\ batch \subseteq Entry
  /\ reply \in Nat
  /\ pushed \subseteq Nat
  /\ table \in Table
  /\ sinceId \in Row \cup {NoRow}
  /\ page \subseteq PulledRow
  /\ todo \subseteq page

\* A new process: the startup pull comes first.
EngineInit ==
  /\ mode = "boot"
  /\ pc = "fetch"
  /\ trig = FALSE
  /\ batch = {}
  /\ reply = 0
  /\ pushed = {}
  /\ table = "entities"
  /\ sinceId = NoRow
  /\ page = {}
  /\ todo = {}

Serving == mode # "boot"

-----------------------------------------------------------------------------
(* Cycles *)

EndCycle ==
  /\ pc' = "idle"
  /\ mode' = "rest"

PullFrom(t, id) ==
  /\ pc' = "fetch"
  /\ table' = t
  /\ sinceId' = id
  /\ page' = {}
  /\ todo' = {}

\* Wrong: the rest of a page that broke off is kept.
EndPullKeepsRest ==
  /\ EndCycle
  /\ table' = "entities"
  /\ sinceId' = NoRow
  /\ page' = {}
  /\ UNCHANGED todo

EndPull ==
  /\ EndCycle
  /\ table' = "entities"
  /\ sinceId' = NoRow
  /\ page' = {}
  /\ todo' = {}

EndDrain ==
  /\ batch' = {}
  /\ reply' = 0
  /\ \/ mode = "tick" /\ PullFrom("entities", NoRow) /\ UNCHANGED mode
     \/ mode = "trigger" /\ EndCycle /\ UNCHANGED pullVars

\* The timer fires, or a trigger is received.
Tick ==
  /\ pc = "idle"
  /\ mode' = "tick"
  /\ pc' = "peek"
  /\ UNCHANGED <<trig, drainVars, pullVars, cacheVars, serverVars>>

Triggered ==
  /\ pc = "idle"
  /\ trig
  /\ trig' = FALSE
  /\ mode' = "trigger"
  /\ pc' = "peek"
  /\ UNCHANGED <<drainVars, pullVars, cacheVars, serverVars>>

-----------------------------------------------------------------------------
(* Drain *)

\* Wrong: newest first.
NewestFirst(op) == op \in batch /\ \A p \in batch : p.id <= op.id

\* Operations are executed oldest first.
IsNext(op) == op \in batch /\ \A p \in batch : op.id <= p.id

Peek ==
  /\ pc = "peek"
  /\ IF PeekDue # {}
     THEN /\ batch' = PeekDue
          /\ pc' = "push"
          /\ UNCHANGED <<mode, reply, pullVars>>
     ELSE EndDrain
  /\ UNCHANGED <<trig, pushed, cacheVars, serverVars>>

\* The queue cannot be read: the drain ends.
PeekFails ==
  /\ pc = "peek"
  /\ Lose
  /\ EndDrain
  /\ UNCHANGED <<trig, pushed, cacheVars, remote, clock, online>>

\* The server executes an operation and stamps what it wrote.  There is
\* nothing to stamp in a delete that finds no row.
Execute(op, stamp) ==
  \/ /\ op.do = "upsert"
     /\ UpsertAt(op.row, op.val, stamp)
     /\ reply' = stamp
  \/ /\ op.do = "delete"
     /\ DeleteAt(op.row, stamp)
     /\ reply' = stamp
  \/ /\ op.do = "delete" /\ ~Present(op.row)
     /\ reply' = 0
     /\ UNCHANGED <<remote, clock>>
  \/ /\ op.do = "audit"
     /\ reply' = 0
     /\ UNCHANGED <<remote, clock>>

Push(op) ==
  /\ pc = "push" /\ IsNext(op) /\ online
  /\ \E s \in Stamp : Execute(op, s)
  /\ pc' = IF op.do = "delete" /\ reply' = 0 THEN "success" ELSE "mark"
  /\ pushed' = pushed \cup {op.id}
  /\ UNCHANGED <<mode, trig, batch, pullVars, cacheVars, online, losses>>

\* The server executes the operation and the reply is lost.
PushLost(op) ==
  /\ pc = "push" /\ IsNext(op) /\ online
  /\ Lose
  /\ \E s \in Stamp : Execute(op, s)
  /\ pc' = "failure"
  /\ pushed' = pushed \cup {op.id}
  /\ UNCHANGED <<mode, trig, batch, pullVars, cacheVars, online>>

\* The server cannot be reached, or a foreign key of the row has no target.
PushFail(op) ==
  /\ pc = "push" /\ IsNext(op)
  /\ \/ ~online
     \/ op.do = "upsert" /\ \E e \in Refs(op.row) : ~Present(e)
  /\ pc' = "failure"
  /\ UNCHANGED <<mode, trig, drainVars, pullVars, cacheVars, serverVars>>

Mark(op) ==
  /\ pc = "mark" /\ IsNext(op)
  /\ pc' = "success"
  /\ IF op.do = "audit" THEN UNCHANGED cache ELSE MarkSynced(op.row, reply)
  /\ UNCHANGED <<mode, trig, drainVars, pullVars, queue, nextId, cursor, serverVars>>

MarkFails(op) ==
  /\ pc = "mark" /\ IsNext(op)
  /\ Lose
  /\ pc' = "failure"
  /\ UNCHANGED <<mode, trig, drainVars, pullVars, cacheVars, remote, clock, online>>

\* The operation leaves the queue; an error of that statement is ignored.
Success(op) ==
  /\ pc = "success" /\ IsNext(op)
  /\ \/ MarkSuccess(op) /\ UNCHANGED losses
     \/ Lose /\ UNCHANGED queue
  /\ batch' = batch \ {op}
  /\ reply' = 0
  /\ pc' = IF batch' = {} THEN "peek" ELSE "push"
  /\ UNCHANGED <<mode, trig, pushed, pullVars, cache, nextId, cursor, remote, clock, online>>

\* The operation backs off, or stays due if that statement fails; either way
\* the drain ends and the rest of the batch waits for another cycle.
Failure(op) ==
  /\ pc = "failure" /\ IsNext(op)
  /\ \/ MarkFailure(op) /\ UNCHANGED losses
     \/ Lose /\ UNCHANGED queue
  /\ EndDrain
  /\ UNCHANGED <<trig, pushed, cache, nextId, cursor, remote, clock, online>>

-----------------------------------------------------------------------------
(* Pull *)

NextTable ==
  \/ table = "entities" /\ PullFrom("observations", NoRow) /\ UNCHANGED mode
  \/ table = "observations" /\ PullFrom("relations", NoRow) /\ UNCHANGED mode
  \/ table = "relations" /\ EndPull

Fetch ==
  /\ pc = "fetch" /\ online
  /\ LET rows == FirstRows(Newer(table, cursor[table], sinceId), PageSize)
     IN  \/ /\ rows = {}
            /\ NextTable
         \/ /\ rows # {}
            /\ page' = rows
            /\ todo' = rows
            /\ pc' = "apply"
            /\ UNCHANGED <<mode, table, sinceId>>
  /\ UNCHANGED <<trig, drainVars, cacheVars, serverVars>>

\* Rows are applied one statement at a time, in the order of the page.
ApplyRow(x) ==
  /\ pc = "apply"
  /\ x \in todo
  /\ \A y \in todo : ~Before(y, x)
  /\ ApplyPulled(x)
  /\ todo' = todo \ {x}
  /\ UNCHANGED <<mode, pc, trig, drainVars, table, sinceId, page,
                 queue, nextId, cursor, serverVars>>

\* The cursor moves to the last row of the page; a full page is followed by
\* another, of the rows after it.
Advance ==
  /\ pc = "apply" /\ todo = {}
  /\ \E last \in page :
       /\ \A y \in page : ~Before(last, y)
       /\ cursor' = [cursor EXCEPT ![table] = last.ts]
       /\ IF Cardinality(page) < PageSize
          THEN NextTable
          ELSE PullFrom(table, last.row) /\ UNCHANGED mode
  /\ UNCHANGED <<trig, drainVars, cache, queue, nextId, serverVars>>

\* The first error, of the server or of a local statement, ends the pull.
PullFail ==
  /\ pc \in {"fetch", "apply"}
  /\ \/ pc = "fetch" /\ ~online /\ UNCHANGED losses
     \/ Lose
  /\ EndPull
  /\ UNCHANGED <<trig, drainVars, cacheVars, remote, clock, online>>

-----------------------------------------------------------------------------

\* Wrong: an unbuffered channel loses a trigger sent during a cycle.
TriggerUnbuffered == trig' = (trig \/ pc = "idle")

\* A trigger is dropped when one is waiting already.
Trigger == trig' = TRUE

Cycle ==
  \/ Tick \/ Triggered
  \/ Peek \/ PeekFails
  \/ \E op \in batch :
       \/ Push(op) \/ PushLost(op) \/ PushFail(op)
       \/ Mark(op) \/ MarkFails(op) \/ Success(op) \/ Failure(op)
  \/ Fetch \/ (\E x \in todo : ApplyRow(x)) \/ Advance \/ PullFail
=============================================================================
