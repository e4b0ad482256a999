SPECIFICATION FairSpec
CONSTANTS
  RxBufNb = 2
  MaxFrames = 3
  SegsOf <- MCOneLong
  FifoLen = 1
  MboxSize = 1
  InpktNum = 3
  PoolSize = 3
  ReassMax = 0
PROPERTY FramesTaken
