SPECIFICATION Spec
CONSTANTS
  A = A
  B = B
  None = None
  psCallers = {A, B}
  psSessions = {A, B}
  psVideos = {A}
  psAutoplays = {TRUE}
  psBackends = 2
  psMaxOpens = 2
  psBounds <- PlayerBounds
  pcLast = 2
  pcLevels = {1, 2}
  pcMaxRequests = 3
  pcMaxOpens = 2
  pcBounds <- ControlBounds
  pcKinds = {"play", "pause", "seek", "volume", "track", "other"}
  vwKinds = {"metal", "d3d11", "gl", "wgl"}
  vwCallers = {"c", "d"}
  vwCommands = {"geometry", "show", "hide", "cover", "uncover"}
  vwBounds <- ViewBounds
  vwMaxFaults = 1
  vwExits = {"metal", "d3d11", "gl"}
  thRequests = {A, B}
  thOwners = {A}
  thFiles = {A, B}
  thMaxSources = 1
  thMemory = 1
  rgFetches = {A}
  rgStreams = {"s", "t"}
  rgMaxSize = 3
  rgChunk = 2
  rgMaxChanges = 1
  rgMaxReads = 2
  rgMixes = {{A}, {"s", "t"}}
INVARIANTS PlayersBehave PlaybackKept ViewsInOrder MediaTrue
PROPERTIES MediaAnswers
CHECK_DEADLOCK FALSE
