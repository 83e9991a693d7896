SPECIFICATION Spec
CONSTANTS
  Employees = {"ann", "bob"}
  Opening <- MCOpening
  MaxRequests = 3
  LastDay = 1
  Payments <- MCPayments
  Fee = 1
  Luxury = {"bob"}
  Active = {"ann", "bob"}
  Referrer <- MCReferrer
  Threshold = 2
  Reward = 1
  Goals = {"rent"}
  Owner <- MCOwner
  Target <- MCTarget
  Monthly <- MCMonthly
  Stakes = {1}
  Quotes = {"q"}
  QuoteHolder <- MCQuoteHolder
  Price = 2
  Holder = "ann"
  Events <- MCEvents
  CardFee = 1
  CashbackRate = 1
  CashbackCap = 2
  Attempts <- MCAttempts
  DeclineAbove = 82
  Spike = 1
  Burst = 2
  SpendSpike = 5
  LargeTicket = 3
  BareTicket = 1
  Points = 10
  Salary = 100
  MaxAdvance = 2000
  Principals = {42, 43}
  SignedIn = "ann"
  Keys = {"k"}
  Guarded = {"k"}
  MaxKeyed = 2
  MaxFaults = 1
  Mixes <- MCMixes
INVARIANTS
  TypeOK
  LedgerExplainsBalances
  OverdraftNeedsOverlap
  KeyMovesMoneyOnce
  OnceOnlyNeedsOverlap
  RefundMirrorsFailure
  WorkOutsideIsCharged
  CardFollowsIssuer
  SpentTodayIsTodays
  BurstsAreDeclined
  LoansKeepTrack
  SessionIsOnePersons
CHECK_DEADLOCK FALSE
