SPECIFICATION FairSpec
CONSTANTS
  p1 = p1
  k1 = k1
  k2 = k2
  Payrolls <- OnePayroll
  Processes <- TwoProcesses
  Total <- TotalOfThree
  Opening = 5
  MaxAttempts = 3
  MaxCrashes = 2
INVARIANTS
  ClaimIsExclusive
  StatusTellsPayment
PROPERTIES
  RepaidOnlyAfterFailure
  PendingIsPickedUp
CHECK_DEADLOCK FALSE
