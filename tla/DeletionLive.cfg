\* Two requests, repeated until the deletion is done; one may fail, none may die.
SPECIFICATION FairSpec
CONSTANTS
  None = None
  Account = account
  Usage = usage
  Course = course
  Owned = {account, usage, course}
  Lessons = {}
  Events = {}
  Retained = {consent}
  Assets = {a, b}
  Shared = {b}
  Resumers = {r1, r2}
  Tokens = {t1, t2, t3, t4, t5, t6}
  SlowWorkers = FALSE
  MaxDeaths = 1
  MaxFailures = 1
  MaxLate = 0
INVARIANT NoOrphanObject
PROPERTY EndsUnlessOneDies
