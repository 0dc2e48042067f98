SPECIFICATION MCSpec
CHECK_DEADLOCK FALSE
INVARIANTS
  TokensAreUnique
  ModulesFitTheirRegistry
  AcceptsExactlyThePrepared
  TreeIsWhatWasRead
  RefusedForTheFirstFault
  OrderIsIrrelevant
  ClosestBoundIsUsed
PROPERTIES
  StrictOnEvidence
SYMMETRY BuilderSymmetry
CONSTANTS
  Registries = {"front", "back"}
  Resources <- MCResources
  Given <- MCGiven
  Calls <- MCCalls
  Sources <- MCSources
  Certificates = {"vendor", "audit"}
  Builders = {one, two}
  MaxBuilds = 2
  Plans <- MCPlans
  Supplies <- MCSupplies
  Strings <- MCStrings
  MergeKeyText = "<<"
  Others = {"7"}
  Scalars = {"a", "<<", "7"}
  MaxDepth = 2
  MaxEvents = 9
  Documents <- MCDocuments
  Rank <- MCRank
  SupportedSchema = "v0"
  SemanticTypes = {"t/map", "t/none", "t/scan"}
  ConcreteTypes <- MCConcreteTypes
  UnitTypes <- MCUnitTypes
  Bounds <- MCBounds
