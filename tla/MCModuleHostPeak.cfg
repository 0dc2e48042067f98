SPECIFICATION HostSpec
CHECK_DEADLOCK FALSE
INVARIANTS
  PeakIsRecorded
CONSTANTS
  UnitCount = 3
  Resource <- PipelineResource
  ModuleInput = {"x"}
  ModuleOutput = {"b", "c"}
  Reads <- PipelineReads
  Writes <- PipelineWrites
  Slot = {"s0", "s1", "s2"}
  SlotOf <- PipelineSlotOf
  SlotKind <- GrowingSlotKind
  Capacity <- PipelineCapacity
  LiveEnd <- PipelineLiveEnd
  NoResource = NoResource
  OwnToken = own
  Token = {own, other}
  MaxRuns = 2
  MaxLength = 3
  GrowPolicy = TRUE
  HandlerError <- PipelineErrors
  Evidence <- MCEvidence
  ProbeLists <- MCProbeLists
  TimingCapacity = 2
  NoTarget = NoTarget
