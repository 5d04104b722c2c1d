\* Two courses of one user, or a course and a lesson, one call each.
SPECIFICATION PairSpec
CONSTANTS
  o1 = o1
  o2 = o2
  o3 = o3
  course = course
  lesson = lesson
  Ops = {o1, o2, o3}
  Calls = {c1}
  Keys = {course, lesson}
  Key <- CoursesAndLesson
  CourseKeys = {course}
  Nobody = Nobody
  Reserve = 2
  Costs = {1}
  UserLimit = 5
  PoolLimit = 5
  Balance = 2
  MaxAttempts = 2
INVARIANT CreditsConserved
INVARIANT OneOwner
INVARIANT ClosedKeysStayUnused
PROPERTY EndIsFinal
PROPERTY EventuallyEnds
PROPERTY LateUsageAccounted
PROPERTY DeletionCompletes
CHECK_DEADLOCK FALSE
