-------------------------- MODULE EmployeeWallet --------------------------
(***************************************************************************)
(* What every service of the wallet plane shares: the employees' balances  *)
(* and the rows of EmployeeTransaction.                                    *)
(*                                                                         *)
(* Transactions run at READ COMMITTED with relative updates (increment,    *)
(* decrement), so each is one step, taken when it commits; a value read    *)
(* before, inside or outside the transaction, is a step of its own.        *)
(***************************************************************************)
EXTENDS Handlers, FiniteSetsExt

CONSTANTS
  Employees,
  Opening,  \* Employee.walletBalance before the first request
  LastDay   \* bound: the last day that comes

ASSUME OpeningIsNatural == Opening \in [Employees -> Nat]
ASSUME LastDayIsNatural == LastDay \in Nat

VARIABLES
  wallet,   \* Employee.walletBalance
  ledger,   \* the rows of EmployeeTransaction
  today     \* the day, as new Date() gives it

walletVars == <<wallet, ledger, today>>
sharedVars == <<walletVars, handlerVars>>

NoKey == <<>>
KeyTaken(k) == k # NoKey /\ \E row \in ledger : row.key = k

(* A row as a service writes it.  "total" carries the sign the code gives  *)
(* it; "note" is the part of the description that tells two uses of one    *)
(* type apart.                                                             *)
Row(n, e, type, total, key, ref, note) ==
  [by |-> n, employee |-> e, type |-> type, total |-> total,
   status |-> "COMPLETED", key |-> key, ref |-> ref, note |-> note, day |-> today]

InitShared ==
  /\ wallet = Opening
  /\ ledger = {}
  /\ today = 0
  /\ InitHandlers

(* The request ends without an effect, with an error for its caller. *)
Refused(n) == GoesTo(n, "refused") /\ UNCHANGED walletVars

NextDay ==
  /\ today < LastDay
  /\ today' = today + 1
  /\ UNCHANGED <<wallet, ledger, handlerVars>>

(* What a transaction does to the balances and the rows. *)
Posts(balances, rows) ==
  /\ wallet' = balances
  /\ ledger' = rows
  /\ UNCHANGED today

(* What a row says happened to the balance of its employee.  Debits of the *)
(* remittance, the card fee and a deposit are written as positive numbers. *)
Effect(row) ==
  IF \/ row.type \in {"REMITTANCE", "FEE"}
     \/ row.type = "SAVINGS_TRANSFER" /\ row.note = "deposit"
    THEN -row.total
    ELSE row.total

SumOf(F(_), rows) == MapThenSumSet(F, rows)
RowsOf(e) == {row \in ledger : row.employee = e}
============================================================================
