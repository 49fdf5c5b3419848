------------------------------ MODULE MCReads ------------------------------
(***************************************************************************)
(* Instances of Reads.                                                      *)
(***************************************************************************)
EXTENDS Reads

MCOwner == [o \in Observation |-> 1]
MCEnds  == [l \in Relation |-> Entity]
MCFrom  == [l \in Relation |-> 1]
=============================================================================
