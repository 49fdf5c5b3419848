\* Peers write while pages of one row are pulled; one caller creates or deletes.
SPECIFICATION Spec
CONSTANTS
  Entity = {1, 2}
  Observation = {}
  Relation = {}
  LocalObs = {}
  Content = {"entity"}
  Generic = "entity"
  PageSize = 1
  BatchSize = 2
  MaxLag = 0
  MaxStamp = 3
  MaxLosses = 0
  Worker = {w1}
  Tool = {"create_entities", "delete_entities"}
  MaxItems = 2
  MaxOps = 1
  MaxBreaks = 1
  w1 = w1
  Owner <- MCOwner
  Ends <- MCEnds
INVARIANT
  CursorSound
  AgreementAtRest
PROPERTY SyncedVersionMonotone
