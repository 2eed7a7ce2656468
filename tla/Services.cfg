SPECIFICATION Spec
CONSTANTS
  A = A
  B = B
  None = None
  foPanels = {A, B}
  foPaths = {A, B}
  foMaxQueue = 1
  foMaxWatchers = 2
  foMaxFaults = 1
  rePanels = {A}
  reDirectories = {A, B}
  reRoot = A
  reMaxThreads = 2
  reMaxQueue = 1
  reMaxChanges = 1
  reMaxFaults = 1
  sfFiles <- EditableFiles
  sfLists <- ProfileLists
  sfVersions = {5, 10, 11}
  sfLimit = 3
  sfShared <- Meanwhile
  sfMaxWrites = 2
  sfMissing = NoFile
  sfBroken = Damaged
  sfReset = Cleared
  ofRequests = {A, B}
  ofMaxEngines = 2
  ofMaxFaults = 1
  dbSessions = {"s"}
  dbRequests = {A, B}
  dbScripts <- SqlScripts
  dbLimit = 1
  dbMaxStatements = 2
  teTerminals = {A}
  teStreams <- ShellOutputs
  teMaxChunk = 2
  teMaxInput = 1
  teMaxFaults = 1
  fmAttempts = {A, B}
  fmProfiles <- AllModes
  fmCerts = {A, B}
  fmTrusted = {A}
  fmMaxUpdates = 1
  fmMixes <- ConnectMixes
  liNames = {A, B}
  liUnsafe = {B}
  liOdd = {A}
  liLimit = 0
  liMaxCalls = 1
INVARIANTS WatchesTrue ServicesTrue ConnectionsSafe
PROPERTIES SettingsKept ServicesAnswer
CHECK_DEADLOCK FALSE
