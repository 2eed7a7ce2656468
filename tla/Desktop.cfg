SPECIFICATION DesktopSpec
CONSTANTS
  A = A
  B = B
  C = C
  D = D
  None = None
  cbTokens = {0, 1, 2}
  cbReads = {}
  cbPastes = {A}
  cbItems = 1
  cbCuts = {0, 1}
  cbRemotes = {1, 2}
  cbMixes <- Copies
  cbSystems = {"macos", "windows"}
  cbOther = B
  drDrags = {A, B}
  drDrops = {A, B}
  drKept = 1
  drItems = 2
  drSystems = {"macos", "windows"}
  soCalls = {A, B}
  soHangs = {}
  soSize = 2
  soShort = 1
  soMaxFaults = 1
  diCalls = {A, B}
  diImages = {A, B}
  diRejected = {C}
  diDevices = {A, B}
  diSystems = {"diskutil", "hdiutil", "windows"}
  diPaths <- PathsOf
  diMaxOutside <- OutsideOf
  seSearches = {A}
  seSizes = {B}
  seStatuses = {C, D}
  seEntries = 3
  seBatchSize = 2
  seMaxResults = 2
  seSlots = 1
  seMixes <- ScanMixes
  seSystems = {"macos", "windows"}
  arJobs = {A, B}
  arMaxFaults = 1
  ccOps = {A, B}
  ccOpenings = {B}
  ccFiles = {A}
  ccSystems = {"macos", "windows"}
  ccSizes = {1, 2}
  ccMixes <- CloudMixes
  ccStall = 1
  ccMaxFaults = 1
INVARIANTS ExchangeHonest ContentTrue
PROPERTIES  DesktopEnds
CHECK_DEADLOCK FALSE
