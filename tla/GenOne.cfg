\* One course operation with two calls, resumed once.
SPECIFICATION Spec
CONSTANTS
  o1 = o1
  o2 = o2
  o3 = o3
  course = course
  lesson = lesson
  Ops = {o1}
  Calls = {c1, c2}
  Keys = {course, lesson}
  Key <- CoursesAndLesson
  CourseKeys = {course}
  Nobody = Nobody
  Reserve = 3
  Costs = {1, 4}
  UserLimit = 5
  PoolLimit = 5
  Balance = 1
  MaxAttempts = 2
SYMMETRY Interchangeable
INVARIANT PoolMatchesReceipts
INVARIANT LedgerMatchesOperations
INVARIANT PaidOnce
INVARIANT ClosedBooks
INVARIANT NoTakeoverDuringCall
CHECK_DEADLOCK FALSE
