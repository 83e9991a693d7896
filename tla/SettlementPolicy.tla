-------------------------- MODULE SettlementPolicy --------------------------
(***************************************************************************)
(* How much of a wage may go to the advances owed (settlement-policy.ts,   *)
(* apportionSettlement): at most seven tenths of it, and never so much     *)
(* that less than the floor is left.  settleIntent does not call it; the   *)
(* score's projection does (flexscore-engine.service.ts), so it is a pure  *)
(* function with no state; PayrollRouting_proofs proves what it promises.  *)
(*                                                                         *)
(* Wages and debts are whole fils.  The cap on a wage is a tenth of a fil  *)
(* exact, so the code's numbers are counted in tenths before round2.       *)
(***************************************************************************)
EXTENDS Integers

NetFloor == 30000  \* MIN_NET_FLOOR_AED

Lesser(a, b) == IF a <= b THEN a ELSE b
NotNegative(a) == IF a >= 0 THEN a ELSE 0

(* Stage 1: what is owed, up to RECOVERY_CAP_FRACTION of the wage. *)
Capped(gross, owed) == Lesser(10 * owed, 7 * gross)

(* Stage 2: the floor, which replaces what stage 1 found. *)
Recoverable(gross, owed) ==
  IF 10 * gross - Capped(gross, owed) < 10 * NetFloor
    THEN NotNegative(10 * gross - 10 * NetFloor)
    ELSE Capped(gross, owed)

(* round2: a whole number of fils; half a fil goes up or down, as the      *)
(* floating-point product falls on one side of it or the other.            *)
Round2(tenths) == {(tenths + 4) \div 10, (tenths + 5) \div 10}

(* What apportionSettlement may return. *)
Apportionments(gross, owed) ==
  [recover : Round2(Recoverable(gross, owed)),
   net : Round2(10 * gross - Recoverable(gross, owed)),
   remaining : Round2(NotNegative(10 * owed - Recoverable(gross, owed)))]
=============================================================================
