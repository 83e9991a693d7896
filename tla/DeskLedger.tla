---------------------------- MODULE DeskLedger ----------------------------
(***************************************************************************)
(* The company dashboard keeps a database of its own: AED balances and the *)
(* rows of Transaction.  It is SQLite, so the transactions of two requests *)
(* are one after the other and each is one step; what a request read       *)
(* before its transaction may be stale by then.                            *)
(***************************************************************************)
EXTENDS Handlers, FiniteSetsExt

CONSTANTS
  Users,
  DeskOpening  \* Balance.amount before the first request

ASSUME DeskOpeningIsNatural == DeskOpening \in [Users -> Nat]

VARIABLES
  balance,  \* Balance.amount in AED
  entries   \* the rows of Transaction

deskVars == <<balance, entries>>

InitDesk ==
  /\ balance = DeskOpening
  /\ entries = {}

(* A row; "takes" is what the balance of its user has paid, "gives" what   *)
(* it got.                                                                 *)
Entry(by, user, type, takes, gives, ref) ==
  [by |-> by, user |-> user, type |-> type, takes |-> takes, gives |-> gives, ref |-> ref]

(* One transaction: the balances move by what its rows say. *)
Gives(row) == row.gives - row.takes
GivenTo(u, rows) == SumFunction([row \in {entry \in rows : entry.user = u} |-> Gives(row)])
Books(rows) ==
  /\ entries' = entries \cup rows
  /\ balance' = [u \in Users |-> balance[u] + GivenTo(u, rows)]
============================================================================
