\* One request, repeated until the deletion is done; it may die once.
SPECIFICATION FairSpec
CONSTANTS
  None = None
  Account = account
  Usage = usage
  Course = course
  Owned = {account, usage, course}
  Lessons = {}
  Events = {}
  Retained = {consent}
  Assets = {}
  Shared = {}
  Resumers = {r1}
  Tokens = {t1, t2, t3, t4}
  SlowWorkers = FALSE
  MaxDeaths = 1
  MaxFailures = 0
  MaxLate = 0
PROPERTY DeletionEnds
