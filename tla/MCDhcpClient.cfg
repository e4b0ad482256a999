SPECIFICATION Spec
CONSTANTS
  MaxTries = 4
  RequestTries = 2
  Leases <- MCLeasesForever
  Faults = {"nak", "conflict", "alloc"}
INVARIANTS LeaseHeld NeverStuck SuppliedUnlessNak
PROPERTY TakenAfterCheck
