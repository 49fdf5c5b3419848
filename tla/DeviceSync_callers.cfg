\* Two callers that add and delete observations of one entity.
SPECIFICATION Spec
CONSTANTS
  Entity = {1}
  Observation = {3}
  Relation = {}
  LocalObs = {3}
  Content = {"entity"}
  Generic = "entity"
  PageSize = 1
  BatchSize = 2
  MaxLag = 0
  MaxStamp = 1
  MaxLosses = 0
  Worker = {w1, w2}
  Tool = {"add_observations", "delete_observations"}
  MaxItems = 2
  MaxOps = 1
  MaxBreaks = 0
  w1 = w1
  w2 = w2
  Owner <- MCOwner
  Ends <- MCEnds
INVARIANT PendingHasCarrier
INVARIANT NoLostWakeup
