\* Two engines on one cache file; one session has a caller that writes an entity
\* twice, the other is idle.  One failure.
SPECIFICATION Spec
CONSTANTS
  Entity = {1}
  Observation = {}
  Relation = {}
  LocalObs = {}
  Content = {"entity"}
  Generic = "entity"
  PageSize = 1
  BatchSize = 1
  MaxLag = 0
  MaxStamp = 1
  MaxLosses = 1
  WorkerA = {w1}
  WorkerB = {w1}
  ToolA = {"create_entities"}
  ToolB = {}
  MaxItems = 2
  MaxOps = 2
  MaxBreaks = 0
  w1 = w1
  Owner <- MCOwner
  Ends <- MCEnds
INVARIANTS SharedPendingHasCarrier
PROPERTY SharedOutboxSpec
