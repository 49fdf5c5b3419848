-------------------------- MODULE MCSharedCache ---------------------------
(***************************************************************************)
(* Two sessions that edit entity 1.                                         *)
(***************************************************************************)
EXTENDS SharedCache

MCOwner == [o \in Observation |-> 1]
MCEnds  == [l \in Relation |-> Entity]
=============================================================================
