\* A peer's transaction commits after one that started later.
SPECIFICATION Spec
CONSTANTS
  Entity = {1, 2}
  Observation = {}
  Relation = {}
  LocalObs = {}
  Content = {"entity"}
  Generic = "entity"
  PageSize = 1
  BatchSize = 2
  MaxLag = 1
  MaxStamp = 3
  MaxLosses = 0
  Worker = {w1}
  Tool = {"delete_entities"}
  MaxItems = 2
  MaxOps = 0
  MaxBreaks = 0
  w1 = w1
  Owner <- MCOwner
  Ends <- MCEnds
INVARIANT CursorSound
