\* An observation is deleted while its push is under way.
SPECIFICATION Spec
CONSTANTS
  Entity = {1}
  Observation = {3}
  Relation = {}
  LocalObs = {3}
  Content = {"entity"}
  Generic = "entity"
  PageSize = 1
  BatchSize = 2
  MaxLag = 0
  MaxStamp = 1
  MaxLosses = 0
  Worker = {w1}
  Tool = {"add_observations", "delete_observations"}
  MaxItems = 2
  MaxOps = 3
  MaxBreaks = 0
  w1 = w1
  Owner <- MCOwner
  Ends <- MCEnds
INVARIANT AffectedAreFound
