CONSTANTS
  Sources = {s1, s2}
  DeviceOf <- OneDevice
  DataListeners = {l1}
  Modes = {"Change", "Polled"}
  Switches <- EventsToPolling
  PollPeriods = {1, 2}
  MaxReads = 0
  InCallback = {"unset"}
  MaxReaders = 2
  MaxPollers = 3
  MaxReadActivities = 4
  MaxInbox = 0
  MaxResults = 1
  NoListener = NoListener
  s1 = s1
  s2 = s2
  d1 = d1
  l1 = l1
  l2 = l2
SPECIFICATION SpecReader
INVARIANT OneSourceOfData
CHECK_DEADLOCK FALSE
