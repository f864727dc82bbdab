SPECIFICATION FairSpec
CONSTANTS
  Client = {c1, c2, c3}
  Backlog = 1
  MaxFds = 2
CHECK_DEADLOCK FALSE
INVARIANTS OneTurn PoliteClientsAreHarmless
PROPERTIES SpokenInTurn ExitEndsConversation
