--------------------------- MODULE SharedCache ----------------------------
(***************************************************************************)
(* Two sessions on one device.  Every agent session starts a server process *)
(* of its own, and all of them open the same cache file.  A mutex orders    *)
(* drain and pull inside a process; between processes only SQLite orders    *)
(* anything, one statement at a time.                                       *)
(*                                                                          *)
(* Each session is a DeviceSync with an engine and callers of its own on    *)
(* the cache and the server they share.                                     *)
(***************************************************************************)
EXTENDS Server, Cache

CONSTANTS
  PageSize, MaxItems, MaxOps, MaxBreaks,  \* as in Engine and Tools
  WorkerA, WorkerB,  \* the workers of each session
  ToolA, ToolB       \* the tools in use in each

VARIABLES
  pushed,   \* the operations the server has executed, for either session
  breaks,   \* crashes, failed statements of handlers and rejected items so far
  modeA, pcA, trigA, batchA, replyA, tableA, sinceIdA, pageA, todoA, workerA,
  modeB, pcB, trigB, batchB, replyB, tableB, sinceIdB, pageB, todoB, workerB

sessionA == <<modeA, pcA, trigA, batchA, replyA, tableA, sinceIdA, pageA, todoA, workerA>>
sessionB == <<modeB, pcB, trigB, batchB, replyB, tableB, sinceIdB, pageB, todoB, workerB>>

vars == <<serverVars, cacheVars, pushed, breaks, sessionA, sessionB>>

\* CallersProofs is DeviceSync and what is proved of it, so that SharedProofs
\* can cite that of each session.
A == INSTANCE CallersProofs WITH Worker <- WorkerA, Tool <- ToolA,
  mode <- modeA, pc <- pcA, trig <- trigA, batch <- batchA, reply <- replyA,
  table <- tableA, sinceId <- sinceIdA, page <- pageA, todo <- todoA, worker <- workerA

B == INSTANCE CallersProofs WITH Worker <- WorkerB, Tool <- ToolB,
  mode <- modeB, pc <- pcB, trig <- trigB, batch <- batchB, reply <- replyB,
  table <- tableB, sinceId <- sinceIdB, page <- pageB, todo <- todoB, worker <- workerB

ASSUME SessionAssumption ==
  /\ PageSize \in Nat \ {0}
  /\ MaxItems \in Nat /\ MaxOps \in Nat /\ MaxBreaks \in Nat
  /\ ToolA \cup ToolB \subseteq {"create_entities", "add_observations", "add_relations",
                              "delete_entities", "delete_observations", "delete_relations"}

Init == A!Init /\ B!Init

\* A session calls tools and syncs.  One that is killed takes no more steps.
StepA ==
  /\ A!Sync \/ \E w \in WorkerA : A!Serve(w)
  /\ UNCHANGED sessionB

StepB ==
  /\ B!Sync \/ \E w \in WorkerB : B!Serve(w)
  /\ UNCHANGED sessionA

\* Backoffs run out.  Of the failures of the network the lost replies are
\* enough here: a device cannot tell them from the others.
TimePasses ==
  /\ \E op \in queue : Elapse(op)
  /\ UNCHANGED <<cache, nextId, cursor, serverVars, pushed, breaks, sessionA, sessionB>>

Next == StepA \/ StepB \/ TimePasses

Spec == Init /\ [][Next]_vars

-----------------------------------------------------------------------------

\* The queue keeps its promise although two engines drain it: whatever one of
\* them peeked, the other may have executed and removed, or put into backoff,
\* by the time its own statement runs (queue.go: MarkSuccess, MarkFailure,
\* which name the row by its key; db.go: Open).
SharedOutboxSpec == A!OutboxSpec

\* A row that waits for its push has a carrier in one of the two sessions: an
\* operation in the queue, or a handler about to enqueue one, although either
\* engine marks the rows and removes the operations that callers of the other
\* wrote (tools.go: the handlers; push.go: applyOp; queue.go: MarkSuccess).  A
\* handler that is killed counts as one that has not come to it yet.
SharedPendingHasCarrier ==
  \A r \in Row : Pending(r) => A!HasCarrier(r) \/ B!HasCarrier(r)

-----------------------------------------------------------------------------
(* The inductive invariant behind it                                         *)

\* Keys name one operation in the queue and in what an engine has peeked, and
\* none is given out twice.
Distinct(ops, entries, next) ==
  /\ \A p \in ops : p.id < next
  /\ \A p, q \in ops : p.id = q.id => p = q
  /\ \A p \in ops, q \in entries : p.id = q.id => p.do = q.do /\ p.row = q.row

KeysInv ==
  /\ Distinct(queue, queue, nextId)
  /\ Distinct(batchA, queue, nextId)
  /\ Distinct(batchB, queue, nextId)

\* A row that is here is on the server, or some session owes it its insertion;
\* one that is pending has a carrier that neither engine's next step removes.
SharedCarrierInv ==
  /\ A!TypeOK /\ B!TypeOK
  /\ KeysInv
  /\ A!PresentInv /\ A!LookupInv
  /\ B!PresentInv /\ B!LookupInv
  /\ A!Covered(A!Held \cup B!Held, A!Owing \cup B!Owing, A!Leaving \cup B!Leaving)
=============================================================================
