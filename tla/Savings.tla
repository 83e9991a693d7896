------------------------------ MODULE Savings ------------------------------
(***************************************************************************)
(* Savings goals (savings.service.ts): deposits, withdrawals and the       *)
(* monthly auto-save, which makes one deposit after another.  A deposit    *)
(* and a withdrawal check what they need before their transaction.         *)
(***************************************************************************)
EXTENDS EmployeeWallet

CONSTANTS
  Goals,
  Owner,    \* SavingsGoal.employeeId
  Target,   \* SavingsGoal.targetAmount
  Monthly,  \* SavingsGoal.monthlyAuto, 0 for none
  Stakes    \* amounts an employee deposits or withdraws

ASSUME GoalsAreOwned ==
  Owner \in [Goals -> Employees] /\ Monthly \in [Goals -> Nat] /\ Stakes \subseteq Nat

VARIABLE goal  \* SavingsGoal: its status and savedAmount

InitSavings == goal = [g \in Goals |-> [status |-> "none", saved |-> 0]]

CreateGoal(g) ==
  /\ goal[g].status = "none"
  /\ goal' = [goal EXCEPT ![g].status = "ACTIVE"]
  /\ UNCHANGED sharedVars

(* Who asks for it is the authenticated employee. *)
Deposit(e, g, amount) ==
  /\ Arrives([op |-> "deposit", at |-> "checks", who |-> e, goal |-> g,
              amount |-> amount, left |-> {}, sweep |-> FALSE])
  /\ UNCHANGED <<walletVars, goal>>

Withdraw(e, g, amount) ==
  /\ Arrives([op |-> "withdraw", at |-> "checks", who |-> e, goal |-> g, amount |-> amount])
  /\ UNCHANGED <<walletVars, goal>>

MayUse(e, g) == goal[g].status # "none" /\ Owner[g] = e

(* runMonthlyAutoSave goes on with the next goal whatever became of this. *)
AfterDeposit(n, outcome) == IF request[n].sweep THEN "picks" ELSE outcome

CheckDeposit(n) ==
  LET r == request[n] IN
  /\ Is(n, "deposit", "checks")
  /\ GoesTo(n, IF MayUse(r.who, r.goal) /\ wallet[r.who] >= r.amount
                 THEN "writes" ELSE AfterDeposit(n, "refused"))
  /\ UNCHANGED <<walletVars, goal>>

Reaches(g, saved) == saved >= Target[g] /\ goal[g].status = "ACTIVE"

CommitDeposit(n) ==
  LET r == request[n]
      saved == goal[r.goal].saved + r.amount IN
  /\ Is(n, "deposit", "writes")
  /\ goal' = [goal EXCEPT ![r.goal] =
       [saved |-> saved, status |-> IF Reaches(r.goal, saved) THEN "COMPLETED" ELSE @.status]]
  /\ Posts([wallet EXCEPT ![r.who] = @ - r.amount],
           ledger \cup {Row(n, r.who, "SAVINGS_TRANSFER", r.amount, NoKey, <<"goal", r.goal>>, "deposit")})
  /\ GoesTo(n, AfterDeposit(n, "done"))

(* Mutant: a withdrawal is not compared with what was saved. *)
MayUseIt(e, g, amount) == MayUse(e, g)
MayWithdraw(e, g, amount) == MayUse(e, g) /\ goal[g].saved >= amount

CheckWithdrawal(n) ==
  LET r == request[n] IN
  /\ Is(n, "withdraw", "checks")
  /\ GoesTo(n, IF MayWithdraw(r.who, r.goal, r.amount) THEN "writes" ELSE "refused")
  /\ UNCHANGED <<walletVars, goal>>

CommitWithdrawal(n) ==
  LET r == request[n] IN
  /\ Is(n, "withdraw", "writes")
  /\ goal' = [goal EXCEPT ![r.goal].saved = @ - r.amount]
  /\ Posts([wallet EXCEPT ![r.who] = @ + r.amount],
           ledger \cup {Row(n, r.who, "SAVINGS_TRANSFER", r.amount, NoKey, <<"goal", r.goal>>, "withdrawal")})
  /\ GoesTo(n, "done")

(***************************************************************************)
(* savingsService.runMonthlyAutoSave                                       *)
(***************************************************************************)
AutoSave ==
  /\ Arrives([op |-> "deposit", at |-> "picks", who |-> "", goal |-> "", amount |-> 0, sweep |-> TRUE,
              left |-> {g \in Goals : goal[g].status = "ACTIVE" /\ Monthly[g] # 0}])
  /\ UNCHANGED <<walletVars, goal>>

NextAutoSave(n) ==
  LET r == request[n] IN
  /\ Is(n, "deposit", "picks")
  /\ IF r.left = {} THEN GoesTo(n, "done")
     ELSE \E g \in r.left :
            Becomes(n, [r EXCEPT !.at = "checks", !.who = Owner[g], !.goal = g,
                                 !.amount = Monthly[g], !.left = @ \ {g}])
  /\ UNCHANGED <<walletVars, goal>>

SavingsSteps(n) ==
  \/ CheckDeposit(n)
  \/ CommitDeposit(n)
  \/ CheckWithdrawal(n)
  \/ CommitWithdrawal(n)
  \/ NextAutoSave(n)

SavingsArrives ==
  \/ AutoSave
  \/ \E e \in Employees, g \in Goals, amount \in Stakes : Deposit(e, g, amount) \/ Withdraw(e, g, amount)

(* What the rows say a goal holds. *)
SavedInto(g) ==
  -SumOf(Effect, {row \in ledger : row.type = "SAVINGS_TRANSFER" /\ row.ref = <<"goal", g>>})
============================================================================
