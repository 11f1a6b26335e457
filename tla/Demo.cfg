\* Three agents as in the demo, two signals.
SPECIFICATION Spec
CONSTANTS
  AGENT_COUNT = 3
  MaxSignals = 2
INVARIANTS
  DemoTypeOK
  ReturnsAlone
PROPERTIES
  SignalStopsAll
CHECK_DEADLOCK FALSE
