SPECIFICATION MCSpec
CONSTANTS
  Forks = 6
  Short = 2
  OldSize = 1
CHECK_DEADLOCK FALSE
INVARIANTS WaitNeverBlocks OnlyRivalsOverwrite AEndsLast
