\* A graph is read while a caller deletes or relates and a peer writes what is pulled.
SPECIFICATION SpecWithReads
CONSTANTS
  Entity = {1, 2}
  Observation = {3}
  Relation = {5}
  LocalObs = {}
  Content = {"entity"}
  Generic = "entity"
  PageSize = 3
  BatchSize = 2
  MaxLag = 0
  MaxStamp = 2
  MaxLosses = 0
  Worker = {w1}
  Tool = {"delete_observations", "delete_entities", "add_relations"}
  MaxItems = 1
  MaxOps = 1
  MaxBreaks = 0
  w1 = w1
  Owner <- MCOwner
  Ends <- MCEnds
  From <- MCFrom
INVARIANT ReadIsBracketed
