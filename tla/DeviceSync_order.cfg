\* One caller, one entity: order of pushes under outages, losses and a restart.
SPECIFICATION Spec
CONSTANTS
  Entity = {1}
  Observation = {}
  Relation = {}
  LocalObs = {}
  Content = {"entity"}
  Generic = "entity"
  PageSize = 1
  BatchSize = 2
  MaxLag = 0
  MaxStamp = 1
  MaxLosses = 1
  Worker = {w1}
  Tool = {"create_entities", "delete_entities"}
  MaxItems = 2
  MaxOps = 2
  MaxBreaks = 1
  w1 = w1
  Owner <- MCOwner
  Ends <- MCEnds
INVARIANT TypeOK
PROPERTY OvertakenOnlyAfterFailure
PROPERTY OutboxSpec
