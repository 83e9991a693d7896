SPECIFICATION Spec
CONSTANTS
  w1 = w1
  w2 = w2
  r1 = r1
  r2 = r2
  s1 = s1
  s2 = s2
  Workers <- OneWorker
  Requests <- OneRequest
  Settlers <- OneSettler
  GrossAmounts = {10}
  Amounts = {2, 8}
  DcseLimit = 12
  BufferPercent = 10
  Fee = 1
INVARIANT LedgerNetsToZero
CHECK_DEADLOCK FALSE
