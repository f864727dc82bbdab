SPECIFICATION FairSpec
CONSTANTS
  Person = {p1, p2}
  Blank = Blank
  MaxNewlines = 2
INVARIANTS SomebodyCanRun SteadyRelay
PROPERTIES
  RunnersNeverMultiply
  SectionsAreAtomic
  EveryThreadKeepsWorking
  EnteredIsShown
