\* Two courses, deleted by two requests; a credit is restored in the same tick only.
SPECIFICATION Spec
CONSTANTS
  None = None
  Courses = {c1, c2}
  Requests = {r1, r2}
  Allocation <- SmallAllocation
  Cap <- SmallCap
  Month = 2
  FreezeTicks = 6
  Window = 0
  MonthlyCap = 1
  MaxTime = 2
SYMMETRY Interchangeable
INVARIANT RefundsCounted
INVARIANT RefundRecoverable
CHECK_DEADLOCK FALSE
