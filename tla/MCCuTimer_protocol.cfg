CONSTANTS
  Threads = {t1, t2, t3}
  NoThread = NoThread
  MaxTold = 2
  MaxPending = 3
  SpuriousWakeup = FALSE
SPECIFICATION FairSpec
INVARIANT TypeOK
INVARIANT NoStartLost
INVARIANT StoppedForGood
PROPERTY SharedTimerKept
PROPERTY StopReturns
