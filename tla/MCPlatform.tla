---------------------------- MODULE MCPlatform ----------------------------
EXTENDS Platform, TLC

Only(counts) == counts @@ [op \in Ops |-> 0]
MCMixes == {
  Only("login" :> 3), Only("login" :> 1 @@ "kyc" :> 1), Only("login" :> 1 @@ "advance" :> 1),
  Only("kyc" :> 2 @@ "rescreen" :> 1), Only("kyc" :> 2 @@ "advance" :> 1), Only("rescreen" :> 1 @@ "advance" :> 1),
  Only("clear" :> 2), Only("tick" :> 2 @@ "patch" :> 1),
  Only("post" :> 1 @@ "retry tick" :> 1), Only("retry tick" :> 3),
  Only("post" :> 1 @@ "transfer" :> 1), Only("transfer" :> 2 @@ "remit" :> 1),
  Only("contribute" :> 3), Only("contribute" :> 1 @@ "repay" :> 2), Only("pay turn" :> 3),
  Only("upload" :> 2), Only("ask" :> 1 @@ "enter" :> 2), Only("enter" :> 1 @@ "refresh" :> 1 @@ "logout" :> 1),
  Only("refresh" :> 2 @@ "logout" :> 1)}
MCSnapshots == {{}, {"passport"}, Names}
MCDeskOpening == [u \in Users |-> IF u = "dan" THEN 2 ELSE 0]
Plan(frequency, payDay) == [frequency |-> frequency, payDay |-> payDay]
MCPlans == {Plan("WEEKLY", 3), Plan("BIWEEKLY", 1), Plan("BIWEEKLY", 10), Plan("BIWEEKLY", 20), Plan("MONTHLY", 20)}
Failed(e) == [job |-> 0, user |-> e, status |-> "FAILED", tries |-> 1]
MCBacklog == {<<>>, <<Failed("eve")>>}
EDR(month) == [type |-> "EDR", month |-> month]
SRR(id, fixed, variable, total) ==
  [type |-> "SRR", id |-> id, fixed |-> fixed, variable |-> variable, total |-> total]
TRR(count, total) == [type |-> "TRR", count |-> count, total |-> total]
Row(id, pay) == SRR(id, pay, 0, pay)
Two == <<EDR(2), Row("a", 200), Row("b", 199), TRR(2, 399)>>
Three == <<EDR(3), Row("a", 200), SRR("b", 100, 101, 200), Row("c", 250), TRR(3, 651)>>
MCFiles == {Two, Three,
  <<EDR(1), Row("a", 200), Row("b", 200), TRR(2, 402)>>,
  <<EDR(1), Row("a", 200), Row("b", 200), Row("c", 800), TRR(3, 1200)>>,
  <<EDR(4), Row("a", 200), Row("b", 200), Row("c", 800), TRR(3, 1200)>>,
  <<EDR(3), Row("b", 200), Row("b2", 200), Row("ghost", 100), TRR(3, 500)>>,
  <<EDR(13), Row("a", 200), Row("ghost", 300), TRR(2, 500)>>}
MCEarlier == {<<>>, <<Two>>, <<Three, Two>>}
MCHolderOf == [id \in {"a", "b", "b2", "c", "ghost"} |-> IF id = "b2" THEN "b" ELSE id]
MCKnownFirst == {{"a", "b", "b2", "ghost"}}
============================================================================
