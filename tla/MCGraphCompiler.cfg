SPECIFICATION Spec
CONSTANTS
  UnitId <- MCUnitId
  Resource <- MCResource
  Port <- MCPort
  Semantic <- MCSemantic
  Concrete <- MCConcrete
  Source <- MCSource
CHECK_DEADLOCK FALSE
INVARIANTS
  CompileInv
  CompileIsExact
  OrderIsCanonical
PROPERTIES
  CompileEnds
