SPECIFICATION DefinitionSpec
CHECK_DEADLOCK FALSE
INVARIANT
  PathsAreInTheDocument
CONSTANTS
  Strings <- MCStrings
  MergeKeyText = "<<"
  Others = {"7"}
  Scalars = {"a", "<<", "7"}
  MaxDepth = 2
  MaxEvents = 9
  Documents <- MismatchedDocuments
  Rank <- MCRank
  SupportedSchema = "v0"
  SemanticTypes = {"t/map", "t/none", "t/scan"}
  ConcreteTypes <- MCConcreteTypes
  UnitTypes <- MCUnitTypes
  Bounds <- MCBounds
