----------------------------- MODULE BillEscrow -----------------------------
(***************************************************************************)
(* What paying a bill promises about the money, without calls, webhooks or *)
(* a rail: each idempotency key takes its cost from the balance at most    *)
(* once, only when the balance covers it, and gives it back at most once,  *)
(* in full, and never before it was taken.                                 *)
(***************************************************************************)
EXTENDS Integers

CONSTANTS
  Bills,    \* idempotency keys
  Cost,     \* what each takes
  Opening   \* the balance before the first

VARIABLES
  balance,
  held      \* "none", "taken", "returned"

vars == <<balance, held>>

Init ==
  /\ balance = Opening
  /\ held = [b \in Bills |-> "none"]

Take(b) ==
  /\ held[b] = "none"
  /\ balance >= Cost[b]
  /\ held' = [held EXCEPT ![b] = "taken"]
  /\ balance' = balance - Cost[b]

Return(b) ==
  /\ held[b] = "taken"
  /\ held' = [held EXCEPT ![b] = "returned"]
  /\ balance' = balance + Cost[b]

Next == \E b \in Bills : Take(b) \/ Return(b)

Spec == Init /\ [][Next]_vars
=============================================================================
