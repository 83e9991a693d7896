----------------------------- MODULE WageRouting -----------------------------
(***************************************************************************)
(* What the routing plane promises, without transactions, locks or rows:   *)
(* a cycle opens with everyone's gross pay, workers draw advances on it,   *)
(* and one step pays the whole company, giving every worker its gross less *)
(* what is recovered from it.  Nothing is recovered or paid before or      *)
(* after that step.                                                        *)
(*                                                                         *)
(* An advance may still be paid out after Pay: the promise the code keeps  *)
(* is that payroll is paid once and in full, not that every advance of the *)
(* cycle is recovered from it.                                             *)
(***************************************************************************)
EXTENDS Integers

CONSTANTS Workers

VARIABLES
  phase,      \* "none", "open", "paid", "frozen"
  gross,      \* what the employer pays each worker this cycle
  advanced,   \* what each worker has drawn in advances
  recovered,  \* what has been taken from its pay for them
  paid        \* what its pay has put into its wallet

vars == <<phase, gross, advanced, recovered, paid>>

Zero == [e \in Workers |-> 0]

Init ==
  /\ phase = "none"
  /\ gross = Zero
  /\ advanced = Zero
  /\ recovered = Zero
  /\ paid = Zero

Open ==
  /\ phase = "none"
  /\ phase' = "open"
  /\ gross' \in [Workers -> Nat]
  /\ UNCHANGED <<advanced, recovered, paid>>

Advance(e) ==
  /\ phase # "none"
  /\ \E a \in 1..gross[e] : advanced' = [advanced EXCEPT ![e] = @ + a]
  /\ UNCHANGED <<phase, gross, recovered, paid>>

Pay ==
  /\ phase = "open"
  /\ phase' = "paid"
  /\ recovered' \in [Workers -> Nat]
  /\ \A e \in Workers : recovered'[e] <= gross[e]
  /\ paid' = [e \in Workers |-> gross[e] - recovered'[e]]
  /\ UNCHANGED <<gross, advanced>>

Freeze ==
  /\ phase = "paid"
  /\ phase' = "frozen"
  /\ UNCHANGED <<gross, advanced, recovered, paid>>

Next == Open \/ (\E e \in Workers : Advance(e)) \/ Pay \/ Freeze

Spec == Init /\ [][Next]_vars
=============================================================================
