------------------------------ MODULE Server ------------------------------
(***************************************************************************)
(* The Postgres server: the content tables, the stamps it gives to writes,  *)
(* the writes of the other devices, and the network that leads to it.       *)
(*                                                                          *)
(* updated_at is now(), the start time of the writing transaction.  clock   *)
(* is the newest stamp of any committed write.  Stamps of one transaction   *)
(* at a time grow strictly; MaxLag > 0 lets a transaction commit after one  *)
(* that started up to MaxLag ticks later, as concurrent transactions may.   *)
(***************************************************************************)
EXTENDS Rows

CONSTANTS
  MaxLag,      \* how late a transaction may commit, in stamps
  MaxStamp,    \* bound: peers write only while the clock is below it
  MaxLosses    \* bound on failed statements and lost replies of the engine

ASSUME ServerAssumption ==
  MaxLag \in Nat /\ MaxStamp \in Nat /\ MaxLosses \in Nat

VARIABLES
  remote,   \* remote[r]: the server's row; ts = 0 when there is none
  clock,    \* the newest stamp
  online,   \* can the device reach the server
  losses    \* failed statements and lost replies so far

serverVars == <<remote, clock, online, losses>>

RemoteRow == [ts : Nat, val : Content, dead : BOOLEAN]

Absent == [ts |-> 0, val |-> Generic, dead |-> FALSE]

Present(r) == remote[r].ts # 0

ServerTypeOK ==
  /\ remote \in [Row -> RemoteRow]
  /\ clock \in Nat
  /\ online \in BOOLEAN
  /\ losses \in Nat

\* Rows that predate the migration that added updated_at share one stamp.
ServerInit ==
  /\ \E old \in SUBSET Entity :
       remote = [r \in Row |-> IF r \in old THEN [Absent EXCEPT !.ts = 1] ELSE Absent]
  /\ clock = 1
  /\ online = TRUE
  /\ losses = 0

\* Wrong: the writer's clock stamps the row, however far behind it is.
WriterStamp == 1 .. clock + 1

\* The stamps a transaction that commits now may carry.
Stamp == {s \in 1 .. clock + 1 : clock + 1 - s <= MaxLag}

Commit(s) == clock' = IF s > clock THEN s ELSE clock

\* insert ... on conflict (id) do update: only an entity takes the new value.
UpsertAt(r, v, s) ==
  /\ \A e \in Refs(r) : Present(e)
  /\ remote' = [remote EXCEPT ![r] =
       [ts   |-> s,
        val  |-> IF r \in Entity \/ ~Present(r) THEN v ELSE remote[r].val,
        dead |-> FALSE]]
  /\ Commit(s)

\* Soft delete; the trigger stamps the row even when it was deleted already.
DeleteAt(r, s) ==
  /\ Present(r)
  /\ remote' = [remote EXCEPT ![r].ts = s, ![r].dead = TRUE]
  /\ Commit(s)

Snapshot(r) ==
  [row |-> r, ts |-> remote[r].ts, val |-> remote[r].val, dead |-> remote[r].dead]

RowsOf(table) == {Snapshot(r) : r \in {q \in Row : TableOf(q) = table /\ Present(q)}}

\* Wrong: the id half of the position is ignored.
NewerStamp(table, since, sinceId) == {x \in RowsOf(table) : since < x.ts}

\* select ... where (updated_at, id) > (since, sinceId)
Newer(table, since, sinceId) ==
  {x \in RowsOf(table) : Before([ts |-> since, row |-> sinceId], x)}

-----------------------------------------------------------------------------
(* The environment: other devices run the same writes; the network comes    *)
(* and goes.                                                                *)

PeerUpsert(r, v) ==
  /\ clock < MaxStamp
  /\ r \notin LocalObs
  /\ \E s \in Stamp : UpsertAt(r, v, s)
  /\ UNCHANGED <<online, losses>>

PeerDelete(r) ==
  /\ clock < MaxStamp
  /\ \E s \in Stamp : DeleteAt(r, s)
  /\ UNCHANGED <<online, losses>>

FlipNetwork ==
  /\ online' = ~online
  /\ UNCHANGED <<remote, clock, losses>>

\* A failure the environment may still inflict on the engine.
Lose ==
  /\ losses < MaxLosses
  /\ losses' = losses + 1
=============================================================================
