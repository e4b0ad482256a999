SPECIFICATION Spec
CONSTANTS
  RxBufNb = 3
  MaxFrames = 4
  SegsOf <- MCSegsOf
  FifoLen = 1
  MboxSize = 1
  InpktNum = 3
  PoolSize = 2
  ReassMax = 1
INVARIANTS
  BusyOnlyByApp
  NeverWedged
  DrainedUnlessCut
  CopyOwned
  FramesWhole
  NothingLeaked
PROPERTY ImplementsChannel
