------------------------------ MODULE EwaLoan ------------------------------
(***************************************************************************)
(* Advances from the partner lender: the credit score cached on the        *)
(* employee's row (scoring.service.ts), the request that calls FlexxPay    *)
(* before it creates the loan (ewa.controller.ts), and FlexxPay's status   *)
(* webhook (flexxpay.webhook.ts).  FlexxPay is external: it decides on     *)
(* what it was asked and reports each decision late, early or twice.       *)
(*                                                                         *)
(* One active employee.  The points for transactions, balance and          *)
(* referrals are one constant; the defaults, which the loans make, count.  *)
(***************************************************************************)
EXTENDS EmployeeWallet

CONSTANTS
  Points,       \* what transactions, balance and referrals add to the score
  Salary,       \* Employee.salary
  MaxAdvance,   \* the cap on an advance, 2000 AED
  Principals    \* the amounts asked for

VARIABLES
  credit,   \* creditScore, by the defaults it counts, and whether it is a day old
  aged,     \* history: the fewest defaults the loans show since the score is a day old
  lender,   \* what FlexxPay says of the request that asked it
  said,     \* what it has said so far
  loan,     \* the row a request has created
  paidOut,  \* history: requests whose row a report of a disbursement has reached
  unknown   \* history: reports, with the request they were about, that found no row

loanVars == <<credit, aged, lender, said, loan, paidOut, unknown>>

NoLoan == [status |-> "none", principal |-> 0, disbursed |-> FALSE]

InitLoans ==
  /\ credit = [counted |-> 0, fresh |-> FALSE]
  /\ aged = 0
  /\ lender = [n \in Requests |-> "none"]
  /\ said = [n \in Requests |-> {}]
  /\ loan = [n \in Requests |-> NoLoan]
  /\ paidOut = {}
  /\ unknown = {}

(***************************************************************************)
(* creditScoringService.computeScore                                       *)
(***************************************************************************)
Defaults == Cardinality({n \in Requests : loan[n].status = "DEFAULTED"})
Score(defaults) == Min({100, Max({0, 50 + Points - 15 * defaults})})

(* (30% + score * 20%) of the salary, rounded. *)
Limit(score) ==
  IF score >= 60 THEN Min({(Salary * (150 + score) + 250) \div 500, MaxAdvance}) ELSE 0

(* A request ends, or goes on to the lender, with the score it has. *)
Decides(n, score) ==
  LET r == request[n] IN
  GoesTo(n, IF r.op = "batch" THEN "done"
            ELSE IF r.principal > Limit(score) THEN "refused" ELSE "calls lender")

RequestAdvance(principal) ==
  /\ Arrives([op |-> "ewa", at |-> "reads score", principal |-> principal, counted |-> 0])
  /\ UNCHANGED <<walletVars, loanVars>>

(* batchUpdateScores takes the stale scores and computes them anew. *)
BatchUpdate ==
  /\ ~credit.fresh
  /\ Arrives([op |-> "batch", at |-> "collects factors", counted |-> 0])
  /\ UNCHANGED <<walletVars, loanVars>>

ReadScore(n) ==
  /\ Is(n, "ewa", "reads score")
  /\ IF credit.fresh THEN Decides(n, Score(credit.counted)) ELSE GoesTo(n, "collects factors")
  /\ UNCHANGED <<walletVars, loanVars>>

Scoring(n, at) == request[n].at = at /\ request[n].op \in {"ewa", "batch"}

CollectFactors(n) ==
  /\ Scoring(n, "collects factors")
  /\ Becomes(n, [request[n] EXCEPT !.at = "stores score", !.counted = Defaults])
  /\ UNCHANGED <<walletVars, loanVars>>

StoreScore(n) ==
  LET r == request[n] IN
  /\ Scoring(n, "stores score")
  /\ credit' = [counted |-> r.counted, fresh |-> TRUE]
  /\ Decides(n, Score(r.counted))
  /\ UNCHANGED <<walletVars, aged, lender, said, loan, paidOut, unknown>>

ScoreAges ==
  /\ credit.fresh
  /\ credit' = [credit EXCEPT !.fresh = FALSE]
  /\ aged' = Defaults
  /\ UNCHANGED <<sharedVars, lender, said, loan, paidOut, unknown>>

(***************************************************************************)
(* requestAdvance: the rail is called, then the row is created.            *)
(***************************************************************************)
CallLender(n) ==
  /\ Is(n, "ewa", "calls lender")
  /\ \/ lender' = [lender EXCEPT ![n] = "requested"] /\ GoesTo(n, "creates loan")
     \/ UNCHANGED lender /\ GoesTo(n, "refused")
  /\ UNCHANGED <<walletVars, credit, aged, said, loan, paidOut, unknown>>

(* The lender has the request, its answer is lost. *)
LenderAnswerIsLost(n) ==
  /\ Is(n, "ewa", "calls lender")
  /\ lender' = [lender EXCEPT ![n] = "requested"]
  /\ GoesTo(n, "refused")
  /\ UNCHANGED <<walletVars, credit, aged, said, loan, paidOut, unknown>>

CreateLoan(n) ==
  /\ Is(n, "ewa", "creates loan")
  /\ loan' = [loan EXCEPT ![n] = [status |-> "PENDING", principal |-> request[n].principal,
                                  disbursed |-> FALSE]]
  /\ GoesTo(n, "done")
  /\ UNCHANGED <<walletVars, credit, aged, lender, said, paidOut, unknown>>

(***************************************************************************)
(* FlexxPay, and its status webhook                                        *)
(***************************************************************************)
Decisions == {"approved", "disbursed", "repaid", "defaulted", "rejected"}

NextOf(decision) ==
  CASE decision = "requested" -> {"approved", "rejected"}
    [] decision = "approved" -> {"disbursed"}
    [] decision = "disbursed" -> {"repaid", "defaulted"}
    [] OTHER -> {}

LenderDecides(m, decision) ==
  /\ decision \in NextOf(lender[m])
  /\ lender' = [lender EXCEPT ![m] = decision]
  /\ said' = [said EXCEPT ![m] = @ \cup {decision}]
  /\ UNCHANGED <<sharedVars, credit, aged, loan, paidOut, unknown>>

LenderReport(m, decision) ==
  /\ decision \in said[m]
  /\ Arrives([op |-> "lender report", at |-> "finds loan", of |-> m, says |-> decision,
              disbursed |-> FALSE])
  /\ UNCHANGED <<walletVars, loanVars>>

(* An unknown reference is acknowledged all the same. *)
FindLoan(n) ==
  LET r == request[n] IN
  /\ Is(n, "lender report", "finds loan")
  /\ IF loan[r.of] = NoLoan
       THEN GoesTo(n, "done") /\ unknown' = unknown \cup {<<n, r.of>>}
       ELSE /\ Becomes(n, [r EXCEPT !.at = "writes loan", !.disbursed = loan[r.of].disbursed])
            /\ UNCHANGED unknown
  /\ UNCHANGED <<walletVars, credit, aged, lender, said, loan, paidOut>>

StatusOf(decision) ==
  CASE decision = "approved" -> "APPROVED" [] decision = "disbursed" -> "ACTIVE"
    [] decision = "repaid" -> "REPAID" [] decision = "defaulted" -> "DEFAULTED"
    [] decision = "rejected" -> "REJECTED"

(* Mutant: a report without an amount clears the one that is stored. *)
AmountOfReport(decision, stored) == decision = "disbursed"
AmountAfter(decision, stored) == decision = "disbursed" \/ stored

(* The amount is the report's or the one read before. *)
WriteLoan(n) ==
  LET r == request[n] IN
  /\ Is(n, "lender report", "writes loan")
  /\ loan' = [loan EXCEPT ![r.of].status = StatusOf(r.says),
                          ![r.of].disbursed = AmountAfter(r.says, r.disbursed)]
  /\ aged' = Min({aged, Defaults'})
  /\ paidOut' = IF r.says = "disbursed" THEN paidOut \cup {r.of} ELSE paidOut
  /\ GoesTo(n, "done")
  /\ UNCHANGED <<walletVars, credit, lender, said, unknown>>

LoanSteps(n) ==
  \/ ReadScore(n)
  \/ CollectFactors(n)
  \/ StoreScore(n)
  \/ CallLender(n)
  \/ CreateLoan(n)
  \/ FindLoan(n)
  \/ WriteLoan(n)
============================================================================
