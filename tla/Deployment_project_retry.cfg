\* One administrator runs init; one device.
SPECIFICATION FairSpec
CONSTANTS
  Administrator = {a1}
  Command = {"init"}
  NumRules = 1
  MaxCommands = 1
  MaxFails = 0
  a1 = a1
  Name = {n1}
  None = none
  n1 = n1
  none = none
PROPERTY SyncRetries
