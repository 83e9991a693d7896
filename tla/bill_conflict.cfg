SPECIFICATION Spec
CONSTANTS
  b1 = b1
  b2 = b2
  c1 = c1
  c2 = c2
  d1 = d1
  d2 = d2
  Bills <- OneBill
  Calls <- TwoCalls
  Deliveries <- TwoDeliveries
  Cost <- CostOfFive
  Opening = 7
INVARIANT RefundedIsNotCompleted
CHECK_DEADLOCK FALSE
