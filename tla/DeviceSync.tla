----------------------------- MODULE DeviceSync ---------------------------
(***************************************************************************)
(* One device and its server: the tool handlers write the cache and the     *)
(* queue, the engine drains the queue and pulls, other devices write to the *)
(* server, the network fails and the process restarts.                      *)
(***************************************************************************)
EXTENDS Tools

vars == <<serverVars, cacheVars, engineVars, toolVars>>

TypeOK == ServerTypeOK /\ CacheTypeOK /\ EngineTypeOK /\ ToolsTypeOK

Init == ServerInit /\ CacheInit /\ EngineInit /\ ToolsInit

\* The process dies and is started again.  The cache file survives; calls,
\* the trigger channel and the engine's variables do not.  pushed is what
\* the server did, so it stays.
Restart ==
  /\ Break
  /\ worker' = [w \in Worker |-> NoCall]
  /\ mode' = "boot" /\ pc' = "fetch" /\ trig' = FALSE
  /\ batch' = {} /\ reply' = 0
  /\ table' = "entities" /\ sinceId' = NoRow /\ page' = {} /\ todo' = {}
  /\ UNCHANGED <<pushed, cacheVars, serverVars>>

Peers ==
  /\ \/ \E r \in Row, v \in Content : PeerUpsert(r, v)
     \/ \E r \in Row : PeerDelete(r)
     \/ FlipNetwork
  /\ UNCHANGED <<cacheVars, engineVars, toolVars>>

Backoff ==
  /\ \E op \in queue : Elapse(op)
  /\ UNCHANGED <<cache, nextId, cursor, engineVars, toolVars, serverVars>>

Sync == Cycle /\ UNCHANGED toolVars

Serve(w) ==
  \/ \E tool \in Tool : Begin(w, tool)
  \/ Handle(w)

Next ==
  \/ Peers
  \/ Backoff
  \/ Sync
  \/ \E w \in Worker : Serve(w) \/ HandleFails(w)
  \/ Restart

Spec == Init /\ [][Next]_vars

\* The goroutine of the engine and those of running calls are scheduled, the
\* timer fires, and time passes.  A call need never begin, the network need
\* never come back, and nothing that fails has to.
FairSpec ==
  /\ Spec
  /\ WF_vars(Sync)
  /\ WF_vars(Backoff)
  /\ \A w \in Worker : WF_vars(Handle(w))

-----------------------------------------------------------------------------
(* Safety *)

\* The local row is the server's, content and stamp.
Agrees(r) ==
  /\ cache[r].sync \in {"none", "synced"}
  /\ cache[r].ts = remote[r].ts
  /\ cache[r].val = remote[r].val
  /\ cache[r].dead = remote[r].dead

\* The local row is the server's, or holds an edit of its own.
Fresh(r) == Pending(r) \/ Agrees(r)

\* Delta pull loses nothing: whatever the server wrote before the cursor of
\* its table is here as the server has it, although pages are applied row by
\* row, the cursor moves after every page, pulls break off anywhere, pushes
\* stamp rows that hold newer edits and the process may restart (pull.go:
\* pullEntities, readCursor, writeCursor; ops.go: MarkSyncedJSON).
CursorSound ==
  \A r \in Row : remote[r].ts < cursor[TableOf(r)] => Fresh(r)

\* A row that waits for its push always has a carrier: an operation in the
\* queue, or a handler that is about to enqueue one.  Without one it would
\* never be pushed and no pull would replace it.  Crashes and failed statements
\* of handlers break this (tools.go: the handlers; push.go: applyOp).
Carries(w, r) ==
  \/ At(w, "enqueue") /\ \E wr \in worker[w].writes : wr.row = r
  \/ At(w, "lookup") /\ r \in Found(w)

HasCarrier(r) == (\E op \in queue : op.row = r) \/ \E w \in Worker : Carries(w, r)

PendingHasCarrier ==
  breaks = 0 => \A r \in Row : Pending(r) => HasCarrier(r)

\* No wakeup is lost although a trigger is dropped when one is waiting: when
\* nothing runs and nothing has failed, queued work implies a waiting trigger
\* (engine.go: Trigger, Run, cycle).
NoLostWakeup ==
  /\ pc = "idle"
  /\ breaks = 0 /\ losses = 0
  /\ \A w \in Worker : At(w, "idle")
  /\ \A op \in queue : ~op.tried
  /\ queue # {}
  => trig

\* The next pull of its table returns the server's row.
Ahead(r) == Snapshot(r) \in Newer(TableOf(r), cursor[TableOf(r)], NoRow)

\* At rest one pull is enough: once no call runs and the queue is empty, a row
\* that is not the server's is one the next pull returns, whatever edits,
\* pushes, losses and pulls crossed before.  No difference stays for good, and
\* none is left to a push that nobody will make (push.go: applyOp; pull.go:
\* pullEntities; tools.go: the handlers).
AtRest == queue = {} /\ \A w \in Worker : At(w, "idle")

AgreementAtRest ==
  breaks = 0 /\ AtRest => \A r \in Row : Agrees(r) \/ Ahead(r)

-----------------------------------------------------------------------------
(* What a step may never do *)

\* A synced row never goes back to an older version of the server's row: a
\* page that was read before a push is not applied over the pushed row
\* (engine.go: one mutex for drain and pull).
SyncedVersionMonotone ==
  [][\A r \in Row :
       cache[r].sync = "synced" /\ cache'[r].sync = "synced" => cache'[r].ts >= cache[r].ts]_vars

\* The server executes an operation.
Executes(op) == Push(op) \/ PushLost(op)

\* An operation overtakes an older one of the same row only when that one was
\* tried before: it failed, or it was executed and could not be removed.
\* PeekDue and the batch loop keep the order otherwise, also across batches
\* and restarts (queue.go: PeekDue; push.go: drainOnce).
OvertakenOnlyAfterFailure ==
  [][\A op \in batch :
       Executes(op) /\ op.row # NoRow =>
         \A q \in queue : q.row = op.row /\ q.id < op.id => q.tried \/ q.id \in pushed]_vars

\* The queue keeps the promise of the outbox.
Queue == INSTANCE Outbox WITH
  waiting <- {op.id : op \in queue}, delivered <- pushed, next <- nextId

OutboxSpec == Queue!Spec

-----------------------------------------------------------------------------
(* The inductive invariants behind these properties                          *)

\* Nothing here is newer than on the server, nothing newer than its clock.
StampOrder ==
  /\ \A r \in Row : cache[r].ts <= remote[r].ts /\ remote[r].ts <= clock
  /\ \A t \in Table : cursor[t] <= clock

\* The stamp about to be marked is newer than all the device has seen.
ReplyIsNew ==
  pc = "mark" =>
    \A op \in batch : IsNext(op) /\ op.do # "audit" =>
      /\ cursor[TableOf(op.row)] < reply
      /\ cache[op.row].ts <= reply
      /\ reply <= remote[op.row].ts

\* What the server does not have is not here, or waits for its push.
NothingInvented == \A r \in Row : ~Present(r) => Fresh(r)

\* Behind the position of the pull every row is fresh.
Position == [ts |-> cursor[table], row |-> sinceId]

FreshBehindPosition ==
  pc \in {"fetch", "apply"} =>
    \A r \in Row : TableOf(r) = table /\ ~Before(Position, Snapshot(r)) => Fresh(r)

\* The server's row is beyond the page: it was written after the fetch, or the
\* page was full.
Beyond(r) == \A x \in page : Before(x, Snapshot(r))

\* Every row of the table is fresh, will be when the page is applied, or is
\* beyond the page.
PageCovers ==
  pc = "apply" =>
    \A r \in Row : TableOf(r) = table =>
      Fresh(r) \/ Beyond(r) \/ Snapshot(r) \in todo

\* The rows of a page are of the table and there is one snapshot of each; one
\* still to be applied is as new as the cache, and current unless beyond.
PageInv ==
  pc = "apply" =>
    /\ \A x \in page : x.ts <= clock /\ TableOf(x.row) = table
    /\ \A x, y \in page : x.row = y.row => x = y
    /\ \A x \in todo : /\ cache[x.row].ts <= x.ts
                       /\ x.ts <= remote[x.row].ts
                       /\ x = Snapshot(x.row) \/ Beyond(x.row)

PullInv ==
  /\ StampOrder /\ ReplyIsNew /\ NothingInvented
  /\ FreshBehindPosition /\ PageCovers /\ PageInv /\ CursorSound

\* The batch is part of the queue, keys are unique, and what is about to be
\* marked or removed has been executed.
QueueInv ==
  /\ \A p, q \in queue : p.id = q.id => p = q
  /\ \A p \in queue : p.id < nextId
  /\ batch \subseteq queue
  /\ \A op \in batch : op.due
  /\ pc \in {"mark", "success"} => \A op \in batch : IsNext(op) => op.id \in pushed

\* Only what failed is put off; the batch has all older operations, but for
\* those that were tried or executed.
OrderInv ==
  /\ IsFiniteSet(queue)
  /\ \A op \in queue : op.due \/ op.tried
  /\ \A op \in batch, q \in queue : q.id < op.id => q \in batch \/ q.tried \/ q.id \in pushed

\* As long as nothing has failed, queued work has a trigger, a drain that has
\* not looked at the queue for the last time, or a handler that will trigger.
WakeupInv ==
  breaks = 0 /\ losses = 0 /\ (\A op \in queue : ~op.tried) /\ queue # {} =>
    \/ trig
    \/ pc \in {"peek", "push", "mark", "success", "failure"}
    \/ \E w \in Worker : ~At(w, "idle")

\* A key names one operation, in the batch and in the queue.
BatchKeys ==
  /\ \A p, q \in batch : p.id = q.id => p = q
  /\ \A p \in batch, q \in queue : p.id = q.id => p.do = q.do /\ p.row = q.row

\* The rows that handlers are about to enqueue an operation for, ...
Held == {r \in Row : \E w \in Worker : Carries(w, r)}

\* ... those among them whose insertion they owe to the server, ...
Owes(w, r) ==
  At(w, "enqueue") /\ \E wr \in worker[w].writes : wr.row = r /\ wr.do = "upsert"

Owing == {r \in Row : \E w \in Worker : Owes(w, r)}

\* ... and the keys that leave the queue with the engine's next step.
Leaving == {op.id : op \in {p \in batch : pc = "success" /\ IsNext(p)}}

\* What comes from the server, or was stamped by it, is there.
PresentInv ==
  /\ \A x \in page : Present(x.row)
  /\ pc = "mark" => \A op \in batch : IsNext(op) /\ op.do # "audit" => Present(op.row)
  /\ pc = "success" => \A op \in batch : IsNext(op) /\ op.do = "upsert" => Present(op.row)

\* A row that was ever here stays, so that the lookup's join finds it.
LookupInv ==
  /\ \A w \in Worker : At(w, "lookup") => worker[w].owner \in Entity
  /\ \A r \in Row : cache[r].sync = "none" => cache[r] = Missing

\* A row that is here is on the server or will be, so that an operation that
\* finds nothing there to delete is not the last one of its row; and one that
\* is pending has a carrier that stays.
Covered(held, owing, leaving) ==
  \A r \in Row :
    /\ cache[r].sync # "none" =>
         Present(r) \/ r \in owing \/ \E q \in queue : q.row = r /\ q.do = "upsert"
    /\ Pending(r) =>
         r \in held \/ \E q \in queue : q.row = r /\ q.id \notin leaving

OwedInv == breaks = 0 => Covered(Held, Owing, Leaving)

CarrierInv == PresentInv /\ LookupInv /\ OwedInv

-----------------------------------------------------------------------------
(* Liveness *)

Converged == queue = {} /\ \A r \in Row : Agrees(r)

\* No queued row refers to an entity that the server neither has nor is owed.
NothingDangles ==
  \A op \in queue : op.do = "upsert" =>
    \A e \in Refs(op.row) :
      Present(e) \/ \E q \in queue : q.row = e /\ q.do = "upsert"

\* Once the network stays up, the queue empties and the cache becomes the
\* server's copy, for good, in whatever order edits, failures, retries and
\* pulls fell before (engine.go: Run, cycle).  A relation to an entity that
\* nobody ever creates can never be pushed, so that is excluded.
Convergence == <>[](online /\ breaks = 0 /\ NothingDangles) => <>[]Converged

-----------------------------------------------------------------------------
(* What comments say of the code, and the code does not do *)

\* pull.go, applyEntities: "The local row's pending edit wins until it
\* drains."  A pull never changes a row with a queued edit that has not
\* been pushed yet.
PendingEditWins ==
  [][\A r \in Row :
       pc = "apply" /\ todo' # todo /\ (\E op \in queue : op.row = r /\ op.id \notin pushed)
         => cache'[r] = cache[r]]_vars

\* tools.go, handleDeleteObservations: "Look up the affected observation IDs
\* to enqueue ops."  The lookup finds every row the soft delete affected.
AffectedAreFound ==
  \A w \in Worker :
    At(w, "lookup") => \A wr \in worker[w].writes : wr.row \in Found(w)
=============================================================================
