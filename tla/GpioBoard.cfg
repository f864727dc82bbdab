SPECIFICATION Spec
CONSTANTS
  Led = p30
  Btn = p31
  Pin = {p30, p31}
  MaxFds = 3
INVARIANTS LeaksCounted DeafWhenRobbed
PROPERTY TogglesAdd
