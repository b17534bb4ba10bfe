CONSTANTS
  A1 = a1
  A2 = a2
  A3 = a3
  A4 = a4
  RepoOverviewConcurrency = 2
  NoEvent = NoEvent
  MaxProgress = 4
  Assignments <- MCAssignments
SPECIFICATION FairStreaming
CHECK_DEADLOCK FALSE
INVARIANTS DoneIsHonest
PROPERTIES NoGoroutineIsLeft
