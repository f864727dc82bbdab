SPECIFICATION Spec
CONSTANTS
  File = {f1, f2}
  Led = led
  Other = {p1, p2}
SYMMETRY BoardSymmetry
INVARIANTS LedTellsState NoGhostOutputs FaultsExplained
PROPERTY FallsOnlyWithLed
