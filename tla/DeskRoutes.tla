---------------------------- MODULE DeskRoutes ----------------------------
(***************************************************************************)
(* The dashboard's routes that move money for its user (dashboard/src/app  *)
(* /api): transfers, remittances, contributions to a savings goal,         *)
(* repayments of a loan and the turns of a hafiza circle.  Each reads      *)
(* outside its transaction what it writes from inside it.                  *)
(***************************************************************************)
EXTENDS DeskLedger

CONSTANTS
  Sender,       \* the user of DEMO_PHONE
  Receiver,
  Amounts,      \* the amounts requests come with
  RemitFee,
  GoalTarget,   \* SavingsGoal.targetAmount
  LoanAmount,   \* Loan.outstandingBalance, as the loan is disbursed
  Turns         \* the members of the circle by turnOrder, as it was set up

ASSUME SenderIsUser == {Sender, Receiver} \subseteq Users /\ Sender # Receiver
ASSUME TurnsAreNatural == Turns \subseteq Nat /\ Turns # {} /\ IsFiniteSet(Turns)
ASSUME AmountsAreWhole == Amounts \subseteq Nat \ {0} /\ RemitFee \in Nat /\ LoanAmount \in Nat

(* A circle somebody opened has one member, of turn 0; seeded ones count   *)
(* from 1.                                                                 *)
ASSUME TurnsAreAssigned == Turns = {0} \/ 0 \notin Turns

VARIABLES
  savings,        \* SavingsGoal: status and currentAmount
  contributions,  \* the rows of SavingsContribution
  loan,           \* Loan: status and outstandingBalance
  repayments,     \* the rows of LoanRepayment
  circle          \* HafizaCircle.currentTurn and the members that have paid

routeVars == <<savings, contributions, loan, repayments, circle>>

InitRoutes ==
  /\ savings = [status |-> "ACTIVE", amount |-> 0]
  /\ contributions = {}
  /\ loan = [status |-> "REPAYING", owed |-> LoanAmount]
  /\ repayments = {}
  /\ circle = [turn |-> Min(Turns), paid |-> {}]

RouteArrives(r) == Arrives(r) /\ UNCHANGED <<deskVars, routeVars>>

(* The route has read what it checks and decides. *)
Decides(n, admitted, r) ==
  /\ IF admitted THEN Becomes(n, r) ELSE GoesTo(n, "refused")
  /\ UNCHANGED <<deskVars, routeVars>>

(***************************************************************************)
(* POST /api/wallet/transfer and POST /api/remittance                      *)
(***************************************************************************)
Transfer(amount) == RouteArrives([op |-> "transfer", at |-> "reads", amount |-> amount])
Remit(amount) == RouteArrives([op |-> "remit", at |-> "reads", amount |-> amount])

Takes(r) == IF r.op = "remit" THEN r.amount + RemitFee ELSE r.amount

(* The rows of balance and user have been read before the receiver is. *)
ReadBalance(n) ==
  LET r == request[n] IN
  /\ r.at = "reads" /\ r.op \in {"transfer", "remit"}
  /\ Decides(n, balance[Sender] >= Takes(r), [op |-> r.op, at |-> "books", amount |-> r.amount])

BookTransfer(n) ==
  /\ Is(n, "transfer", "books")
  /\ Books({Entry(<<"request", n>>, Sender, "P2P_SEND", request[n].amount, 0, <<>>),
            Entry(<<"request", n>>, Receiver, "P2P_RECEIVE", 0, request[n].amount, <<>>)})
  /\ GoesTo(n, "done")
  /\ UNCHANGED routeVars

BookRemittance(n) ==
  /\ Is(n, "remit", "books")
  /\ Books({Entry(<<"request", n>>, Sender, "REMITTANCE", Takes(request[n]), 0, <<>>)})
  /\ GoesTo(n, "done")
  /\ UNCHANGED routeVars

(***************************************************************************)
(* POST /api/savings?action=contribute writes the amount it read plus the  *)
(* contribution; no balance pays for it.                                   *)
(***************************************************************************)
Contribute(amount) == RouteArrives([op |-> "contribute", at |-> "reads", amount |-> amount])

ReadGoal(n) ==
  /\ Is(n, "contribute", "reads")
  /\ Decides(n, savings.status = "ACTIVE",
             [op |-> "contribute", at |-> "writes", amount |-> request[n].amount, saw |-> savings.amount])

WriteGoal(n) ==
  LET new == request[n].saw + request[n].amount IN
  /\ Is(n, "contribute", "writes")
  /\ contributions' = contributions \cup {[by |-> <<"request", n>>, amount |-> request[n].amount]}
  /\ savings' = [status |-> IF new >= GoalTarget THEN "COMPLETED" ELSE savings.status, amount |-> new]
  /\ GoesTo(n, "done")
  /\ UNCHANGED <<deskVars, loan, repayments, circle>>

(***************************************************************************)
(* POST /api/loans?action=repay, likewise                                  *)
(***************************************************************************)
Repay(amount) == RouteArrives([op |-> "repay", at |-> "reads", amount |-> amount])

(* Mutant: a repayment may exceed what is owed. *)
AnyAmount(amount) == TRUE
WithinOwed(amount) == amount <= loan.owed

ReadLoan(n) ==
  /\ Is(n, "repay", "reads")
  /\ Decides(n, loan.status = "REPAYING" /\ WithinOwed(request[n].amount),
             [op |-> "repay", at |-> "writes", amount |-> request[n].amount, saw |-> loan.owed])

WriteLoan(n) ==
  LET left == request[n].saw - request[n].amount IN
  /\ Is(n, "repay", "writes")
  /\ repayments' = repayments \cup {[by |-> <<"request", n>>, amount |-> request[n].amount]}
  /\ loan' = [status |-> IF left <= 0 THEN "COMPLETED" ELSE loan.status,
              owed |-> IF left > 0 THEN left ELSE 0]
  /\ GoesTo(n, "done")
  /\ UNCHANGED <<deskVars, savings, contributions, circle>>

(***************************************************************************)
(* POST /api/hafiza/[id]/pay.  Turns are counted modulo the number of      *)
(* members, whatever their turnOrder; a turn nobody has is refused.        *)
(***************************************************************************)
PayTurn == RouteArrives([op |-> "pay turn", at |-> "reads"])

ReadCircle(n) ==
  /\ Is(n, "pay turn", "reads")
  /\ Decides(n, circle.turn \in Turns \ circle.paid, [op |-> "pay turn", at |-> "writes", turn |-> circle.turn])

WriteCircle(n) ==
  LET turn == request[n].turn
      next == (turn + 1) % Cardinality(Turns) IN
  /\ Is(n, "pay turn", "writes")
  /\ circle' = [turn |-> next, paid |-> IF next = 0 THEN {} ELSE circle.paid \cup {turn}]
  /\ entries' = entries \cup {Entry(<<"request", n>>, Sender, "SPEND", 0, 0, <<"turn", turn>>)}
  /\ GoesTo(n, "done")
  /\ UNCHANGED <<balance, savings, contributions, loan, repayments>>

RouteSteps(n) ==
  \/ ReadBalance(n) \/ BookTransfer(n) \/ BookRemittance(n)
  \/ ReadGoal(n) \/ WriteGoal(n) \/ ReadLoan(n) \/ WriteLoan(n)
  \/ ReadCircle(n) \/ WriteCircle(n)
============================================================================
