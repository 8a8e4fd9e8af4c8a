CONSTANTS
  s1 = s1
  d1 = d1
  l1 = l1
  l2 = l2
  Sources = {s1}
  DeviceOf <- OneDevice
  DataListeners = {l1, l2}
  Modes = {"Change", "Polled", "Manual"}
  Switches <- SafeSwitches
  PollPeriods = {1}
  MaxReads = 1
  InCallback = {"unset"}
  MaxReaders = 2
  MaxPollers = 2
  MaxReadActivities = 2
  MaxInbox = 0
  MaxResults = 1
  NoListener = NoListener
  HttpReaders = {l1, l2}
  HttpWriters = {}
  HttpSources = {s1}
  ChunkSize = 1
  MaxItems = 2
  HttpInCallback = {"set"}
  WriteAgain = FALSE
  NoHttp = NoHttp
  Engines = {"random", "epics"}
  MonitorSources = {s1}
  MonitorListeners = {l1, l2}
  MaxMonitors = 3
  NoMonitor = NoMonitor
  OneShotSources = {s1}
  OneShotListeners = {l1, l2}
  OneShotKinds = {"writer", "config", "db"}
  MaxOneShots = 2
  ReaddInCallback = FALSE
  NoOneShot = NoOneShot
SPECIFICATION Spec
PROPERTY ListenersTold
PROPERTY HttpAnswered
PROPERTY RandomListenersTold
PROPERTY OneShotAnswered
CHECK_DEADLOCK FALSE
