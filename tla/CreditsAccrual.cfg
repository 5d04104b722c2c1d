\* The ledger and a deletion through four months.
SPECIFICATION Spec
CONSTANTS
  None = None
  Courses = {c1}
  Requests = {r1}
  Allocation <- SmallAllocation
  Cap <- SmallCap
  Month = 2
  FreezeTicks = 4
  Window = 1
  MonthlyCap = 1
  MaxTime = 8
INVARIANT NoFarming
CHECK_DEADLOCK FALSE
