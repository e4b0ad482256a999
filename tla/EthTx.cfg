SPECIFICATION FairSpec
CONSTANTS
  TxBufNb = 3
  FifoDepth = 2
  MaxFrames = 4
  LinkOps = {"send", "config"}
INVARIANTS IntactUntilOverlap NoStall
PROPERTIES UseMeansFull DropsOnlyBusy StartLosesNothing ImplementsQueue QueuedGoesOut
\* The bound MaxFrames ends every behaviour.
CHECK_DEADLOCK FALSE
