-------------------------- MODULE MCPayrollRouting --------------------------
(***************************************************************************)
(* Instances of PayrollRouting for TLC.  Amounts are chosen around the     *)
(* limits: of a salary of 10 a worker may take at most 8 (buffer 10%, fee  *)
(* 1), and 2 when the cohort failsafe is active.                           *)
(***************************************************************************)
EXTENDS PayrollRouting

CONSTANTS w1, w2, r1, r2, s1, s2

OneWorker == {w1}
TwoWorkers == {w1, w2}
OneRequest == {r1}
TwoRequests == {r1, r2}
OneSettler == {s1}
TwoSettlers == {s1, s2}
=============================================================================
