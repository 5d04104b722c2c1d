\* Two requests that work on one job, one of them slow.
SPECIFICATION Spec
CONSTANTS
  None = None
  Account = account
  Usage = usage
  Course = course
  Owned = {account, usage, course}
  Lessons = {lesson}
  Events = {}
  Retained = {consent}
  Assets = {}
  Shared = {}
  Resumers = {r1, r2}
  Tokens = {t1, t2, t3, t4, t5, t6}
  SlowWorkers = TRUE
  MaxDeaths = 1
  MaxFailures = 0
  MaxLate = 1
INVARIANT NothingLeft
INVARIANT SettledBeforeRemoval
PROPERTY StageForward
