SPECIFICATION MCSpec
CHECK_DEADLOCK FALSE
INVARIANTS
  SinkInvariant
  Controlled
  Displayed
PROPERTIES
  SilentWhenDisabled
  EpisodesEnd
CONSTANTS
  Capacity = 2
  Kind = {"ok", "profile", "fatal"}
  MaxEvents = 4
  MaxUnits = 2
  MaxTrail = 3
  MaxCalls = 24
  ControllerCalls = 3
  Unset = Unset
  Legs = 3
  PathLength = {1, 2, 4}
