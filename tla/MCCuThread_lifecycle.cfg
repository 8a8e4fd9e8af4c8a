CONSTANTS
  a1 = a1
  a2 = a2
  a3 = a3
  k1 = k1
  k2 = k2
  None = None
  NoTimer = NoTimer
  Activities = {a1, a2, a3}
  Listeners = {l1, l2}
  Threads = {t1, t2, t3}
  Tokens = {k1, k2}
  Timers = {m1}
  Periods = {1}
  TokenOf <- TwoTokens
  PeriodOf <- OneShot
  DeleteOnExit = {a1, a2, a3}
  Posts = {}
  SelfPeriods = {}
  MayQuit = FALSE
  MaxEq = 3
  MaxLoop = 1
SPECIFICATION Spec
INVARIANT CopiesAgree
INVARIANT ServiceThreadsUsable
INVARIANT NoRegisterDiscarded
INVARIANT ExitEventsDelivered
INVARIANT NoUseAfterDelete
SYMMETRY Symmetry
CHECK_DEADLOCK FALSE
