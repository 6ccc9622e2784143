CONSTANTS
  None = None
  MaxCalls = 6
  Scenarios <- MCScenarios
SPECIFICATION Spec
INVARIANTS
  ScriptInOrder
  IdsTellTurnsApart
PROPERTY RunsProduceOutput
CHECK_DEADLOCK FALSE
