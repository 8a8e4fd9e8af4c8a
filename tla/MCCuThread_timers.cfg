CONSTANTS
  a1 = a1
  a2 = a2
  a3 = a3
  k1 = k1
  k2 = k2
  None = None
  NoTimer = NoTimer
  Activities = {a1, a2}
  Listeners = {l1}
  Threads = {t1, t2}
  Tokens = {k1, k2}
  Timers = {m1, m2, m3}
  Periods = {1, 2}
  TokenOf <- TwoTokens
  PeriodOf <- SamePeriod
  DeleteOnExit = {a1, a2}
  Posts = {"Pause", "Execute"}
  SelfPeriods = {2}
  MayQuit = FALSE
  MaxEq = 1
  MaxLoop = 0
SPECIFICATION Spec
INVARIANT TypeOK
INVARIANT TimerLinks
INVARIANT PeriodicServedTogether
CHECK_DEADLOCK FALSE
