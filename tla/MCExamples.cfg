SPECIFICATION MCSpec
CHECK_DEADLOCK FALSE
INVARIANTS
  SearchIsSettled
  PlanIsExact
  FinalPathIsClear
  SnapshotsAreOfOneRun
  SnapshotTellsTheHistory
  EdgesAreOfTheWindow
  SamplesAreSpread
  RegistrationIsWhole
  SamplesAgree
  CountsAreExact
PROPERTIES
  ReloadIsAllOrNothing
CONSTANTS
  Workloads <- MCWorkloads
  MaxCells = 16
  MaxPath = 6
  MaxSmoothed = 3
  MaxExpansions = 9
  Inf = 99
  MaxModules = 3
  MaxHostRuns = 4
  CellLimit = 2
  Oversize = 3
  LidarFrames <- MCLidarFrames
  MaxIndex = 5
  MaxInput = 5
  ScanLimit = 4
  TrailLimit = 2
  WindowLimit = 3
  MapLimit = 4
  EdgeLimit = 2
  MaxAccepted = 5
  Absent = Absent
  ImageSizes = {1, 2, 3}
  MaxPixels = 2
  MaxMatches = 3
  Keypoints = {2, 3}
  MatchLists <- MCMatchLists
  MinMatches = 2
  NoImage = NoImage
  CloudSizes = {1, 2, 3, 4, 5, 6, 7}
  MinPoints = 2
  MaxCloud = 6
  MaxPoints = 4
  NoCloud = NoCloud
  Threads = {"host", "worker"}
  MaxNested = 2
  MaxOperations = 2
