SPECIFICATION Spec
CONSTANTS
  p1 = p1
  k1 = k1
  k2 = k2
  Payrolls <- OnePayroll
  Processes <- OneProcess
  Total <- TotalOfThree
  Opening = 5
  MaxAttempts = 2
  MaxCrashes = 1
INVARIANT FailedIsUnpaid
CHECK_DEADLOCK FALSE
