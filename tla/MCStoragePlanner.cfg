SPECIFICATION Spec
CONSTANTS
  UnitCount = 3
  ResourceCount = 4
  MaxSize = 15
  GrowPolicy = FALSE
  ResourceSpec <- MCResourceSpec
  SemanticType <- MCSemanticType
  Registered <- MCRegistered
  ElementSize <- MCElementSize
  Representation <- MCRepresentation
  ConcreteType <- MCConcreteType
  Layout <- MCLayout
CHECK_DEADLOCK FALSE
INVARIANTS
  PlanInv
  RuntimeCanRely
  FailuresNameTheFirst
  EstimateIsExact
