\* Two administrators run two commands, one statement fails; one device.
SPECIFICATION Spec
CONSTANTS
  Administrator = {a1, a2}
  Command = {"init", "migrate", "rotate", "reset"}
  NumRules = 2
  MaxCommands = 2
  MaxFails = 1
  a1 = a1
  a2 = a2
  Name = {n1, n2}
  None = none
  n1 = n1
  n2 = n2
  none = none
SYMMETRY MCSymmetry
INVARIANT TypeOK
INVARIANT FunctionsCurrent
INVARIANT ResetIsExact
INVARIANT FragmentWorks
INVARIANT DefaultsSurviveOffline
 
 
