SPECIFICATION Spec
CONSTANTS
  MaxTries = 4
  RequestTries = 2
  Leases <- MCLeases
  Faults = {"nak", "conflict", "alloc"}
INVARIANTS SuppliedMeansAddr
