SPECIFICATION FairSpec
CONSTANTS
  MaxRequests = 3
  MaxCodes = 2
  MaxLists = 2
  Snapshots <- MCSnapshots
  Canaries = {"cron", "second"}
  Approvers = {"p", "q"}
  Users = {"dan", "eve", "gil"}
  DeskOpening <- MCDeskOpening
  Staff = {"eve", "gil"}
  Walletless = {"gil"}
  Plans <- MCPlans
  MonthLength = 30
  Days = {9, 28}
  Backlog <- MCBacklog
  Sender = "dan"
  Receiver = "eve"
  Amounts = {1, 2}
  RemitFee = 1
  GoalTarget = 3
  LoanAmount = 3
  Turns = {1, 2, 3}
  Files <- MCFiles
  HolderOf <- MCHolderOf
  Payable = {"a", "b", "c"}
  Inactive = {"ghost"}
  KnownFirst <- MCKnownFirst
  Earlier <- MCEarlier
  Mixes <- MCMixes
  MaxFaults = 2
INVARIANTS
  CodeUsedOnce
  KnownIncidentStopsAdvance
  FailsafeTrail
  PaidOncePerRun
  RunsOncePerDay
  DeskTotalsFollowRows
  CyclesAreAccounted
  SessionsFollowCodes
PROPERTIES
  BlockHolds
  BreachTrips
CHECK_DEADLOCK FALSE
