SPECIFICATION HostSpec
CHECK_DEADLOCK FALSE
INVARIANTS
  PanicErrorIsFatal
CONSTANTS
  UnitCount = 3
  Resource <- PipelineResource
  ModuleInput = {"x"}
  ModuleOutput = {"b", "c"}
  Reads <- PipelineReads
  Writes <- PipelineWrites
  Slot = {"s0", "s1", "s2"}
  SlotOf <- PipelineSlotOf
  SlotKind <- PipelineSlotKind
  Capacity <- PipelineCapacity
  LiveEnd <- PipelineLiveEnd
  NoResource = NoResource
  OwnToken = own
  Token = {own, other}
  MaxRuns = 2
  MaxLength = 3
  GrowPolicy = FALSE
  HandlerError <- PipelineErrors
  Evidence <- MCEvidence
  ProbeLists <- MCProbeLists
  TimingCapacity = 2
  NoTarget = NoTarget
