SPECIFICATION Spec
CONSTANTS
  User = {u1, u2}
  Addr = {prr, other, ram, zero}
  Prr = prr
  Unmappable = {ram}
  Zero = zero
  Transmit = 1
  SizeT = 8
  Offsets = {2}
  Space = 4
SYMMETRY UserSymmetry
INVARIANTS
  
  InitIsUndone
  FaultsExplained
  LoneReadIsExact
CHECK_DEADLOCK FALSE
