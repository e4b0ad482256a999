SPECIFICATION FairSpec
CONSTANTS
  MaxTries = 4
  RequestTries = 2
  Leases <- MCOneLease
  Faults = {"nak", "conflict", "alloc", "silent", "phy", "pcb"}
  MaxDhcpTries = 3
INVARIANTS TypeOK OffWhileLinkDown AddressOrTrying
PROPERTIES LossNoticed StaticFallback ServedAgain
