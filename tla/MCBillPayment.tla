--------------------------- MODULE MCBillPayment ---------------------------
(***************************************************************************)
(* Instances of BillPayment for TLC: the balance covers one bill of the    *)
(* two, so that a debit too many is seen at once.                          *)
(***************************************************************************)
EXTENDS BillPayment

CONSTANTS b1, b2, c1, c2, d1, d2

OneBill == {b1}
TwoBills == {b1, b2}
TwoCalls == {c1, c2}
OneDelivery == {d1}
TwoDeliveries == {d1, d2}
CostOfFive == [b \in Bills |-> 5]
=============================================================================
