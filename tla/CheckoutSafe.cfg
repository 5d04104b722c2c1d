\* Two requests, two claims, two faults.
SPECIFICATION FairSpec
CONSTANTS
  None = None
  Requests = {r1, r2}
  Claims = {c1, c2}
  MaxFaults = 2
INVARIANT Contained
INVARIANT NotCreated
INVARIANT OneUnlessFault
PROPERTY DeletionContains
CHECK_DEADLOCK FALSE
