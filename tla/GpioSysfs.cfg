SPECIFICATION SysfsSpec
CONSTANTS
  Led = p30
  Btn = p31
  Pin = {p30, p31, p5}
  MaxUnexports = 2
INVARIANT SysfsProtocolIsSafe
PROPERTY PinsOnlyTouched
CHECK_DEADLOCK FALSE
