SPECIFICATION FairSpec
CONSTANTS
  MaxFrames = 3
  Cap = 2
CHECK_DEADLOCK FALSE
INVARIANTS
  HandlerHangsOnlyAfterStop
PROPERTIES
  FramesOnceInOrder
  ChildDeathEndsParent
  FramesArrive
