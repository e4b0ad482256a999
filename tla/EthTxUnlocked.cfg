SPECIFICATION Spec
CONSTANTS
  TxBufNb = 3
  FifoDepth = 2
  MaxFrames = 4
  LinkOps = {"send"}
INVARIANTS FramesIntact
\* The bound MaxFrames ends every behaviour.
CHECK_DEADLOCK FALSE
