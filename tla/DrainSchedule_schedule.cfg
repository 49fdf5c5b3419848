\* Three failing operations, four ticks in the longest backoff.
SPECIFICATION Spec
CONSTANTS
  Cap = 4
  Interval = 1
  Delay = 1
  Calls <- MCCalls
  MaxCalls = 2
  MaxBad = 3
  MaxAttempts = 3
INVARIANT TypeOK
 
PROPERTY NoStarvation
