SPECIFICATION FairSpec
CONSTANTS
  TickMod = 10
  ResetTimeout = 1
  InitTimeout = 2
  AutonegTimeout = 1
  PhyTimeout = 3
  MaxLag = 1
  Faults = {"swr", "mii"}
INVARIANTS MacMatchesPhy ReceivesWhenUp
PROPERTIES GivesUpLate WaitsEnd
