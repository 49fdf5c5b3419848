------------------------------- MODULE Outbox -----------------------------
(***************************************************************************)
(* What the write-behind queue promises, seen from outside: an operation    *)
(* that was accepted waits until the server has executed it, perhaps more   *)
(* than once, and only then is it forgotten.  Nothing accepted is lost, and *)
(* nothing is executed that was not accepted.                               *)
(***************************************************************************)
EXTENDS Integers

VARIABLES
  waiting,    \* the tickets of the operations still owed to the server
  delivered,  \* the tickets of those the server has executed at least once
  next        \* the next ticket

vars == <<waiting, delivered, next>>

Init ==
  /\ waiting = {}
  /\ delivered = {}
  /\ next = 1

Accept ==
  /\ waiting' = waiting \cup {next}
  /\ next' = next + 1
  /\ UNCHANGED delivered

Deliver(t) ==
  /\ t \in waiting
  /\ delivered' = delivered \cup {t}
  /\ UNCHANGED <<waiting, next>>

Settle(t) ==
  /\ t \in waiting \cap delivered
  /\ waiting' = waiting \ {t}
  /\ UNCHANGED <<delivered, next>>

Next == Accept \/ (\E t \in waiting : Deliver(t) \/ Settle(t))

Spec == Init /\ [][Next]_vars
=============================================================================
