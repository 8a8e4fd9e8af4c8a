CONSTANTS
  s1 = s1
  s2 = s2
  d1 = d1
  c1 = c1
  c2 = c2
  x1 = x1
  x2 = x2
  x3 = x3
  x4 = x4
  h1 = h1
  h2 = h2
  h3 = h3
  Sources = {s1, s2}
  DeviceOf <- OneDevice
  DataListeners = {l1}
  Modes = {"Change", "Polled"}
  Switches <- SafeSwitches
  PollPeriods = {1}
  MaxReads = 1
  InCallback = {"unset"}
  MaxReaders = 2
  MaxPollers = 2
  MaxReadActivities = 3
  MaxInbox = 1
  MaxResults = 1
  NoListener = NoListener
  OneShotSources = {c1}
  OneShotListeners = {x1, x2}
  OneShotKinds = {"writer", "config", "db"}
  MaxOneShots = 2
  ReaddInCallback = FALSE
  NoOneShot = NoOneShot
  DeviceUsers = {x1, x2, x3, x4}
  UserKind <- AllKinds
  ThreadTokens = {c1}
  TangoDevices = {d1}
  MaxRefs = 5
  PolledAtts = {c1, c2}
  PolledCmds = {x1}
  AttValues = {1, 2}
  NoAttValue = 0
  UpdatePolicies = {"always", "noupdate"}
  MaxAdded = 1
  Engines = {"random", "epics"}
  MonitorSources = {c1, c2}
  MonitorListeners = {x1, x2}
  MaxMonitors = 3
  NoMonitor = NoMonitor
  HttpReaders = {x1}
  HttpWriters = {x2}
  HttpSources = {c1}
  ChunkSize = 1
  MaxItems = 2
  HttpInCallback = {"set", "write"}
  WriteAgain = FALSE
  NoHttp = NoHttp
  FormulaSources = {c1, c2}
  FormulaValues = {1, 2}
  Formulas <- TwoSourceFormulas
  MaxFormulaSources = 3
  MaxEvals = 1
  RepeatedSources = FALSE
  NoFormulaValue = 0
  DataThreads = {x1, x2}
  DataHandles = {h1, h2, h3}
  DataBlocks = {1, 2, 3}
  DataValues = {1, 2}
  EmptyData = 1
  MaxLost = 1
  ModifiesPublished = FALSE
  NoThread = NoThread
  NoBlock = NoBlock
  NoData = NoData
  Garbage = Garbage
  WsReaders = {x1, x2}
  WsWriters = {x3}
  WsSources = {c1}
  MaxWsActions = 4
  MaxWsMessages = 3
  LeaveAgain = FALSE
  NoWs = NoWs
  TimedSources = {c1}
  VectorSources = {c2}
  PlotValues = {1}
  PlotBuffer = 2
  MaxInstant = 2
  MaxLive = 2
  RepeatedInstants = FALSE
  VectorErrors = FALSE
  DefaultY = 0
  PlotGarbage = PlotGarbage
SPECIFICATION Spec
INVARIANT TypeOKReader
INVARIANT PollersCallLiveReaders
INVARIANT OneSourceOfData
INVARIANT PolledAsAsked
INVARIANT DevicesHeld
INVARIANT PolledOrScheduled
INVARIANT GoodValueSent
INVARIANT SlowdownFollowsErrors
INVARIANT MonitorServes
INVARIANT OneShotTellsWhoAsked
INVARIANT HttpNoneToldAfterLeaving
INVARIANT FormulaUpToDate
INVARIANT SharedDataAlive
INVARIANT WsServes
INVARIANT PlotShowsLatest
PROPERTY CopiesIndependent
SYMMETRY Symmetric
CHECK_DEADLOCK FALSE
