SPECIFICATION FairSpec
CONSTANTS
  Word = 28
  Interval <- MCInterval
  Pool = 3
  MaxLag = 1
INVARIANTS TypeOK NoTimerLost NeverOversleeps
PROPERTIES ImplementsTimers AllRun
