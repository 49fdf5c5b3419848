--------------------------- MODULE MCDeviceSync ---------------------------
(***************************************************************************)
(* Instances of DeviceSync.  Entities 1 and 2, observations 3 and 4 of      *)
(* entity 1, relation 5 between all entities; a cfg takes subsets.          *)
(***************************************************************************)
EXTENDS DeviceSync

MCOwner == [o \in Observation |-> 1]
MCEnds  == [l \in Relation |-> Entity]
=============================================================================
