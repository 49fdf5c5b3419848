\* Two edits of one entity, pushed while a peer writes it.
SPECIFICATION Spec
CONSTANTS
  Entity = {1}
  Observation = {}
  Relation = {}
  LocalObs = {}
  Content = {"entity"}
  Generic = "entity"
  PageSize = 1
  BatchSize = 2
  MaxLag = 0
  MaxStamp = 3
  MaxLosses = 0
  Worker = {w1}
  Tool = {"create_entities"}
  MaxItems = 2
  MaxOps = 2
  MaxBreaks = 0
  w1 = w1
  Owner <- MCOwner
  Ends <- MCEnds
PROPERTY PendingEditWins
