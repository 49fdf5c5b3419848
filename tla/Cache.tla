------------------------------- MODULE Cache ------------------------------
(***************************************************************************)
(* The SQLite file of one device: its copy of the content tables, the       *)
(* write-behind queue pending_writes and the pull cursors sync_cursor.      *)
(* Every statement is its own transaction on the one connection there is,   *)
(* so each operator below is one atomic change.                             *)
(***************************************************************************)
EXTENDS Rows

CONSTANT BatchSize   \* how many operations the engine peeks at a time

ASSUME BatchAssumption == BatchSize \in Nat \ {0}

VARIABLES
  cache,    \* cache[r]: the local row; sync = "none" when there is none
  queue,    \* the rows of pending_writes
  nextId,   \* the autoincrement key of the next one
  cursor    \* cursor[t]: last_pulled_at of table t

cacheVars == <<cache, queue, nextId, cursor>>

\* A pending row carries a stamp of the device's clock, which nothing ever
\* compares: it is 0 here.
CacheRow == [ts : Nat, val : Content, dead : BOOLEAN, sync : {"none", "synced", "pending"}]

Missing == [ts |-> 0, val |-> Generic, dead |-> FALSE, sync |-> "none"]

\* What a queued operation does: upsert or delete a row, or, with no row,
\* write an audit record.
Write == {wr \in [do : {"upsert", "delete", "audit"}, row : Row \cup {NoRow}, val : Content] :
            wr.do = "audit" <=> wr.row = NoRow}

\* due: next_attempt_at has passed; tried: attempts > 0.
Entry == {e \in [id : Nat, do : {"upsert", "delete", "audit"}, row : Row \cup {NoRow},
                 val : Content, due : BOOLEAN, tried : BOOLEAN] :
            e.do = "audit" <=> e.row = NoRow}

CacheTypeOK ==
  /\ cache \in [Row -> CacheRow]
  /\ queue \subseteq Entry
  /\ nextId \in Nat
  /\ cursor \in [Table -> Nat]

CacheInit ==
  /\ cache = [r \in Row |-> Missing]
  /\ queue = {}
  /\ nextId = 1
  /\ cursor = [t \in Table |-> 0]

Pending(r) == cache[r].sync = "pending"

Live(r) == cache[r].sync # "none" /\ ~cache[r].dead

\* Inserts the row or brings it back; either way it is pending.
UpsertLocal(r, v) ==
  cache' = [cache EXCEPT ![r] = [ts |-> 0, val |-> v, dead |-> FALSE, sync |-> "pending"]]

\* Soft-deletes rows.
DeleteLocal(S) ==
  cache' = [r \in Row |-> IF r \in S
                          THEN [cache[r] EXCEPT !.ts = 0, !.dead = TRUE, !.sync = "pending"]
                          ELSE cache[r]]

\* Wrong: the row is stamped, but stays pending.
StampOnly(r, ts) == cache' = [cache EXCEPT ![r].ts = ts]

\* Wrong: a deleted row is not found, so it stays pending.
MarkLive(r, ts) ==
  cache' = IF cache[r].dead THEN cache ELSE [cache EXCEPT ![r].ts = ts, ![r].sync = "synced"]

\* What a push does to the row it pushed, whatever the row holds by now.
MarkSynced(r, ts) == cache' = [cache EXCEPT ![r].ts = ts, ![r].sync = "synced"]

\* Wrong: on conflict do nothing.
InsertPulled(x) ==
  cache' = IF cache[x.row] # Missing THEN cache
           ELSE [cache EXCEPT ![x.row] = [ts |-> x.ts, val |-> x.val, dead |-> x.dead,
                                          sync |-> "synced"]]

\* A pulled row is inserted, or replaces the local one unless that is pending.
ApplyPulled(x) ==
  cache' = IF Pending(x.row) THEN cache
           ELSE [cache EXCEPT ![x.row] = [ts |-> x.ts, val |-> x.val, dead |-> x.dead,
                                          sync |-> "synced"]]

Upsert(r, v) == [do |-> "upsert", row |-> r, val |-> v]
Delete(r) == [do |-> "delete", row |-> r, val |-> Generic]
Audit == [do |-> "audit", row |-> NoRow, val |-> Generic]

\* Wrong: a row that waits already is not queued again.
Coalesce(wr) ==
  IF \E q \in queue : q.row = wr.row THEN UNCHANGED <<queue, nextId>>
  ELSE /\ queue' = queue \cup {[id |-> nextId, do |-> wr.do, row |-> wr.row, val |-> wr.val,
                                due |-> TRUE, tried |-> FALSE]}
       /\ nextId' = nextId + 1

Enqueue(wr) ==
  /\ queue' = queue \cup {[id |-> nextId, do |-> wr.do, row |-> wr.row, val |-> wr.val,
                           due |-> TRUE, tried |-> FALSE]}
  /\ nextId' = nextId + 1

\* The oldest BatchSize operations among those that are due.
PeekDue ==
  LET due == {op \in queue : op.due}
  IN  {op \in due : Cardinality({p \in due : p.id < op.id}) < BatchSize}

\* Both name the row by its key, and do nothing when it is gone.
Others(op) == {q \in queue : q.id # op.id}

MarkSuccess(op) == queue' = Others(op)

\* Wrong: an operation that failed is given up.
GiveUp(op) == queue' = Others(op)

\* Wrong: insert or replace, which brings back a row that is gone.
PutBack(op) == queue' = Others(op) \cup {[op EXCEPT !.due = FALSE, !.tried = TRUE]}

MarkFailure(op) ==
  queue' = Others(op) \cup {[q EXCEPT !.due = FALSE, !.tried = TRUE] : q \in queue \ Others(op)}

\* The backoff of an operation that failed runs out.
Elapse(op) ==
  /\ ~op.due
  /\ queue' = (queue \ {op}) \cup {[op EXCEPT !.due = TRUE]}
=============================================================================
