------------------------------- MODULE Tools ------------------------------
(***************************************************************************)
(* The tool handlers that change the graph.  The MCP server runs calls on a *)
(* pool of workers, so handlers interleave with each other and with the     *)
(* engine between any two statements.                                       *)
(*                                                                          *)
(* A handler walks over its arguments.  For each it writes the local row    *)
(* and then enqueues the operations that replay the write on the server;    *)
(* after the last it enqueues an audit record and triggers the engine.      *)
(* Which arguments a call has is decided as it goes: the items are chosen   *)
(* one by one, and the call may end after any of them.                      *)
(***************************************************************************)
EXTENDS Engine

CONSTANTS
  Worker,     \* the workers that execute tool calls
  Tool,       \* the tools in use
  MaxItems,   \* bound on the items of one call
  MaxOps,     \* bound: no new item once this many operations were enqueued
  MaxBreaks   \* bound on crashes, failed statements of handlers and rejected items

ASSUME ToolAssumption ==
  /\ Tool \subseteq {"create_entities", "add_observations", "add_relations",
                     "delete_entities", "delete_observations", "delete_relations"}
  /\ MaxItems \in Nat /\ MaxOps \in Nat /\ MaxBreaks \in Nat

VARIABLES
  worker,  \* worker[w]: the call worker w executes
  breaks   \* crashes, failed statements of handlers and rejected items so far

toolVars == <<worker, breaks>>

Place == {"idle", "item", "ensure", "lookup", "enqueue", "trigger"}

\* at: where the call is; owner: the entity whose observations it handles;
\* texts: the contents being deleted; writes: operations still to enqueue.
\* At "lookup" writes is history: the deletes of the rows just soft-deleted.
Call == {call \in [tool   : Tool \cup {"none"},
                  at     : Place,
                  items  : Nat,
                  owner  : Entity \cup {NoRow},
                  texts  : SUBSET Content,
                  writes : SUBSET Write] :
           call.at = "ensure" => call.owner # NoRow}

NoCall == [tool |-> "none", at |-> "idle", items |-> 0, owner |-> NoRow,
           texts |-> {}, writes |-> {}]

ToolsTypeOK ==
  /\ worker \in [Worker -> Call]
  /\ breaks \in Nat

ToolsInit ==
  /\ worker = [w \in Worker |-> NoCall]
  /\ breaks = 0

\* What a handler leaves alone unless it says so.
engineButTrig == <<mode, pc, drainVars, pullVars>>

At(w, place) == worker[w].at = place
Runs(w, tool) == worker[w].tool = tool

\* A handler is about to treat one more item.
TakesItem(w) ==
  /\ At(w, "item")
  /\ worker[w].items < MaxItems
  /\ nextId <= MaxOps

Continue(w, call) == worker' = [worker EXCEPT ![w] = call]

\* The item at hand ends by enqueueing these operations.
ThenEnqueue(w, owner, writes) ==
  Continue(w, [worker[w] EXCEPT !.at = IF writes = {} THEN "item" ELSE "enqueue",
                                !.items = @ + 1, !.owner = owner,
                                !.texts = {}, !.writes = writes])

Begin(w, tool) ==
  /\ Serving
  /\ At(w, "idle")
  /\ nextId <= MaxOps
  /\ Continue(w, [NoCall EXCEPT !.tool = tool, !.at = "item"])
  /\ UNCHANGED <<breaks, engineVars, cacheVars, serverVars>>

\* create_entities writes the entity first, then its observations.
CreateEntity(w, e, v) ==
  /\ TakesItem(w) /\ Runs(w, "create_entities")
  /\ UpsertLocal(e, v)
  /\ ThenEnqueue(w, e, {Upsert(e, v)})
  /\ UNCHANGED <<breaks, engineVars, queue, nextId, cursor, serverVars>>

\* add_observations looks the entity up; it will create one that is not live.
FindEntity(w, e) ==
  /\ TakesItem(w) /\ Runs(w, "add_observations")
  /\ Continue(w, [worker[w] EXCEPT !.at = IF Live(e) THEN "item" ELSE "ensure",
                                   !.items = IF Live(e) THEN @ + 1 ELSE @,
                                   !.owner = e])
  /\ UNCHANGED <<breaks, engineVars, cacheVars, serverVars>>

EnsureEntity(w) ==
  LET e == worker[w].owner IN
  /\ At(w, "ensure")
  /\ UpsertLocal(e, Generic)
  /\ ThenEnqueue(w, e, {Upsert(e, Generic)})
  /\ UNCHANGED <<breaks, engineVars, queue, nextId, cursor, serverVars>>

\* Both then insert observations of that entity, each under a fresh id.
AddObservation(w, o, v) ==
  /\ TakesItem(w)
  /\ Runs(w, "create_entities") \/ Runs(w, "add_observations")
  /\ o \in LocalObs /\ cache[o] = Missing
  /\ Owner[o] = worker[w].owner
  /\ UpsertLocal(o, v)
  /\ ThenEnqueue(w, worker[w].owner, {Upsert(o, v)})
  /\ UNCHANGED <<breaks, engineVars, queue, nextId, cursor, serverVars>>

AddRelation(w, l) ==
  /\ TakesItem(w) /\ Runs(w, "add_relations")
  /\ UpsertLocal(l, Generic)
  /\ ThenEnqueue(w, NoRow, {Upsert(l, Generic)})
  /\ UNCHANGED <<breaks, engineVars, queue, nextId, cursor, serverVars>>

\* Only a live row is deleted and queued; what refers to it stays as it is.
DeleteOne(w, r) ==
  /\ TakesItem(w)
  /\ DeleteLocal({q \in {r} : Live(q)})
  /\ ThenEnqueue(w, NoRow, {Delete(q) : q \in {p \in {r} : Live(p)}})
  /\ UNCHANGED <<breaks, engineVars, queue, nextId, cursor, serverVars>>

DeleteEntity(w, e) == Runs(w, "delete_entities") /\ DeleteOne(w, e)

DeleteRelation(w, l) == Runs(w, "delete_relations") /\ DeleteOne(w, l)

\* delete_observations soft-deletes by content, if the entity is live ...
EraseObservations(w, e, texts) ==
  LET erased == {o \in Observation : /\ Owner[o] = e /\ Live(e)
                                     /\ Live(o) /\ cache[o].val \in texts}
  IN
  /\ TakesItem(w) /\ Runs(w, "delete_observations")
  /\ DeleteLocal(erased)
  /\ Continue(w, [worker[w] EXCEPT !.at = "lookup", !.owner = e, !.texts = texts,
                                   !.writes = {Delete(o) : o \in erased}])
  /\ UNCHANGED <<breaks, engineVars, queue, nextId, cursor, serverVars>>

\* ... and queues the rows that a second statement finds deleted and pending.
\* The join needs the entity's row, live or not.
Found(w) ==
  {o \in Observation :
     /\ Owner[o] = worker[w].owner
     /\ cache[worker[w].owner] # Missing
     /\ Pending(o) /\ cache[o].dead
     /\ cache[o].val \in worker[w].texts}

LookupErased(w) ==
  /\ At(w, "lookup")
  /\ ThenEnqueue(w, NoRow, {Delete(o) : o \in Found(w)})
  /\ UNCHANGED <<breaks, engineVars, cacheVars, serverVars>>

Enqueued(w, wr) ==
  LET rest == worker[w].writes \ {wr} IN
  Continue(w, [worker[w] EXCEPT !.at = IF rest = {} THEN "item" ELSE "enqueue",
                                !.writes = rest])

EnqueueWrite(w, wr) ==
  /\ At(w, "enqueue") /\ wr \in worker[w].writes
  /\ Enqueue(wr)
  /\ Enqueued(w, wr)
  /\ UNCHANGED <<breaks, engineVars, cache, cursor, serverVars>>

\* create_entities needs at least one item; the others may skip theirs.
RecordAudit(w) ==
  /\ At(w, "item")
  /\ Runs(w, "create_entities") => worker[w].items > 0
  /\ Enqueue(Audit)
  /\ Continue(w, [worker[w] EXCEPT !.at = "trigger"])
  /\ UNCHANGED <<breaks, engineVars, cache, cursor, serverVars>>

TriggerSync(w) ==
  /\ At(w, "trigger")
  /\ Trigger
  /\ Continue(w, NoCall)
  /\ UNCHANGED <<breaks, engineButTrig, cacheVars, serverVars>>

-----------------------------------------------------------------------------
(* Failing statements and rejected items *)

Break == breaks < MaxBreaks /\ breaks' = breaks + 1

\* A read or write of a row fails, create_entities fails to enqueue or meets an
\* entity without a name or type: the handler returns the error at once.
AbortCall(w) ==
  /\ Break
  /\ \/ At(w, "item") \/ At(w, "ensure") \/ At(w, "lookup")
     \/ At(w, "enqueue") /\ Runs(w, "create_entities")
  /\ Continue(w, NoCall)
  /\ UNCHANGED <<engineVars, cacheVars, serverVars>>

\* The other handlers ignore that an operation could not be enqueued.
DropWrite(w, wr) ==
  /\ Break
  /\ At(w, "enqueue") /\ wr \in worker[w].writes
  /\ ~Runs(w, "create_entities")
  /\ Enqueued(w, wr)
  /\ UNCHANGED <<engineVars, cacheVars, serverVars>>

DropAudit(w) ==
  /\ Break
  /\ At(w, "item")
  /\ Runs(w, "create_entities") => worker[w].items > 0
  /\ Continue(w, [worker[w] EXCEPT !.at = "trigger"])
  /\ UNCHANGED <<engineVars, cacheVars, serverVars>>

Handle(w) ==
  \/ \E e \in Entity, v \in Content : CreateEntity(w, e, v)
  \/ \E e \in Entity : FindEntity(w, e)
  \/ EnsureEntity(w)
  \/ \E o \in Observation, v \in Content : AddObservation(w, o, v)
  \/ \E l \in Relation : AddRelation(w, l)
  \/ \E e \in Entity : DeleteEntity(w, e)
  \/ \E l \in Relation : DeleteRelation(w, l)
  \/ \E e \in Entity, texts \in (SUBSET Content) \ {{}} : EraseObservations(w, e, texts)
  \/ LookupErased(w)
  \/ \E wr \in worker[w].writes : EnqueueWrite(w, wr)
  \/ RecordAudit(w)
  \/ TriggerSync(w)

HandleFails(w) ==
  \/ AbortCall(w)
  \/ \E wr \in worker[w].writes : DropWrite(w, wr)
  \/ DropAudit(w)
=============================================================================
