--------------------------- MODULE DrainSchedule ---------------------------
(***************************************************************************)
(* When operations get their turn.  A drain takes the due operations oldest *)
(* first and ends at the first that fails, which then backs off.  Some      *)
(* operations never succeed: an observation longer than the server accepts, *)
(* a relation to an entity that does not exist.  While one of these is due, *)
(* it keeps every younger operation waiting.                                *)
(*                                                                          *)
(* Time advances by seconds.  A cycle takes less than that, so a drain is   *)
(* one step here; DeviceSync has its statements one by one.                 *)
(***************************************************************************)
EXTENDS Backoff, FiniteSets, Sequences

CONSTANTS
  Interval,    \* seconds between ticks
  Delay,       \* seconds a failing drain may take until it stamps its failure
  Calls,       \* the calls in use: what each enqueues, in order, TRUE if it can succeed
  MaxCalls,    \* bound on the calls
  MaxBad,      \* bound on the operations that cannot succeed
  MaxAttempts  \* attempts are not counted beyond it; the backoff is the cap by then

ASSUME ScheduleAssumption ==
  /\ Interval \in Nat \ {0} /\ Delay \in Nat
  /\ \A call \in Calls : call \in Seq(BOOLEAN)
  /\ MaxCalls \in Nat /\ MaxBad \in Nat
  /\ MaxAttempts \in Nat \ {0}

VARIABLES
  queue,   \* pending_writes: [id, good, attempts, wait]
  nextId,  \* the key of the next operation
  calls,   \* how many calls were made
  timer,   \* seconds until the ticker fires
  trig,    \* is a trigger waiting
  online   \* can the device reach the server

vars == <<queue, nextId, calls, timer, trig, online>>

Operation == [id : Nat, good : BOOLEAN, attempts : 0 .. MaxAttempts, wait : 0 .. Cap + Delay]

TypeOK ==
  /\ queue \subseteq Operation
  /\ nextId \in Nat
  /\ calls \in 0 .. MaxCalls
  /\ timer \in 0 .. Interval
  /\ trig \in BOOLEAN
  /\ online \in BOOLEAN

Init ==
  /\ queue = {}
  /\ nextId = 1
  /\ calls = 0
  /\ timer = Interval
  /\ trig = FALSE
  /\ online = TRUE

\* A handler enqueues its operations, each due at once, and triggers a drain
\* unless it returned an error on the way.
Call(ops) ==
  /\ calls < MaxCalls
  /\ calls' = calls + 1
  /\ queue' = queue \cup {[id |-> nextId + i - 1, good |-> ops[i], attempts |-> 0, wait |-> 0] :
                          i \in DOMAIN ops}
  /\ Cardinality({op \in queue' : ~op.good}) <= MaxBad
  /\ nextId' = nextId + Len(ops)
  /\ trig' \in {trig, TRUE}
  /\ UNCHANGED <<timer, online>>

Due == {op \in queue : op.wait = 0}

Fails(op) == ~online \/ ~op.good

Failing == {op \in Due : Fails(op)}

\* The operation at which a drain ends.
IsFirst(op) == op \in Failing /\ \A p \in Failing : op.id <= p.id

\* What a drain that ends at op has pushed.
Before(op) == {p \in Due : p.id < op.id}

Attempt(op) == IF op.attempts < MaxAttempts THEN op.attempts + 1 ELSE MaxAttempts

\* Wrong: the attempt is counted, the next one is not put off.
RetryAtOnce(op) == {[op EXCEPT !.attempts = Attempt(op)]}

\* What MarkFailure may make of the operation.
Postponed(op) ==
  {[op EXCEPT !.attempts = Attempt(op), !.wait = wait + late] :
     wait \in BackoffOf(Attempt(op)), late \in 0 .. Delay}

Drain ==
  \/ /\ Failing = {}
     /\ queue' = queue \ Due
  \/ \E op \in Failing :
       /\ IsFirst(op)
       /\ \E late \in Postponed(op) : queue' = (queue \ (Before(op) \cup {op})) \cup {late}

Tick ==
  /\ timer = 0
  /\ Drain
  /\ timer' = Interval
  /\ UNCHANGED <<nextId, calls, trig, online>>

Triggered ==
  /\ trig
  /\ Drain
  /\ trig' = FALSE
  /\ UNCHANGED <<nextId, calls, timer, online>>

\* A second passes.  The engine does not wait longer than that for its turn.
Advance ==
  /\ timer > 0 /\ ~trig
  /\ timer' = timer - 1
  /\ queue' = {[op EXCEPT !.wait = IF @ = 0 THEN 0 ELSE @ - 1] : op \in queue}
  /\ UNCHANGED <<nextId, calls, trig, online>>

FlipNetwork ==
  /\ online' = ~online
  /\ UNCHANGED <<queue, nextId, calls, timer, trig>>

Engine == Tick \/ Triggered \/ Advance

Next == (\E ops \in Calls : Call(ops)) \/ Engine \/ FlipNetwork

\* Time passes, the ticker fires and the engine's goroutine is scheduled.
Spec == Init /\ [][Next]_vars /\ WF_vars(Engine)

-----------------------------------------------------------------------------

\* The numbers of attempts for which the wait is not 2^attempts seconds, capped.
Miscapped == {n \in 1 .. 80 : BackoffOf(n) # {IF n < 16 /\ 2 ^ n < Cap THEN 2 ^ n ELSE Cap}}

\* An operation that keeps failing never reaches an attempt after which it would
\* wait too long or not at all: the product wraps around from 2^34 seconds on,
\* days later, and the cap applies all the same (queue.go: backoff).
BackoffCapped ==
  \A op \in queue : \A n \in Miscapped : n <= op.attempts

\* A tick is left over when every failing operation has used up one.
TicksLeft == MaxBad * Interval < Cap

\* No operation starves: once the network stays up, every operation that can
\* succeed leaves the queue, although a drain ends at its first failure, as
\* long as there are fewer failing operations than ticks in the longest backoff
\* (push.go: drainOnce; queue.go: PeekDue, MarkFailure).
NoStarvation == TicksLeft /\ <>[]online => <>[](\A op \in queue : ~op.good)
=============================================================================
