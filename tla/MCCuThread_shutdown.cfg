CONSTANTS
  a1 = a1
  a2 = a2
  a3 = a3
  k1 = k1
  k2 = k2
  None = None
  NoTimer = NoTimer
  Activities = {a1, a2}
  Listeners = {l1}
  Threads = {t1, t2}
  Tokens = {k1, k2}
  Timers = {m1}
  Periods = {1}
  TokenOf <- TwoTokens
  PeriodOf <- FirstPeriodic
  DeleteOnExit = {a1, a2}
  Posts = {}
  SelfPeriods = {}
  MayQuit = TRUE
  MaxEq = 2
  MaxLoop = 1
SPECIFICATION FairSpec
INVARIANT DeletedOnce
INVARIANT TimerListenersAlive
PROPERTY LifecycleKept
PROPERTY UnregisteredIsDeleted
PROPERTY RemovedThreadEnds
PROPERTY FinishTerminatesOnceStarted
CHECK_DEADLOCK FALSE
