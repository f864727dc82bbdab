SPECIFICATION FairSpec
CONSTANTS
  Server = {s1, s2}
  Client = {c1, c2}
  Backlog = 0
  MaxFds = 2
INVARIANTS OneServerAtATime RestartBlockedOnlyAfterCrash
PROPERTY SentIsAnswered
