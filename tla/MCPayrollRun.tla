--------------------------- MODULE MCPayrollRun ---------------------------
(***************************************************************************)
(* Instances of PayrollRun for TLC.  One row and one process already run   *)
(* its job, sweep, stall and retry; a second process makes them overlap.   *)
(***************************************************************************)
EXTENDS PayrollRun

CONSTANTS p1, k1, k2

OnePayroll == {p1}
OneProcess == {k1}
TwoProcesses == {k1, k2}
TotalOfThree == [p \in Payrolls |-> 3]
=============================================================================
