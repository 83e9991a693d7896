--------------------------- MODULE MCWalletPlane ---------------------------
EXTENDS WalletPlane

MCMixes == {{"transfers", "savings"}, {"transfers", "remittance"}, {"card events", "card tokens"},
            {"card control", "card expiry"}, {"card orders", "savings"}, {"authorizations"}, {"loans"},
            {"phone"}, {"keyed calls"}}
MCKeyedMixes == {{"keyed calls"}}
MCOpening == [e \in Employees |-> IF e = "ann" THEN 3 ELSE 1]
Pay(from, to, amount, key) == [from |-> from, to |-> to, amount |-> amount, key |-> key]
MCPayments ==
  {Pay("ann", "bob", 2, <<"transfer", "k1">>), Pay("ann", "bob", 1, <<"transfer", "k1">>),
   Pay("bob", "ann", 1, NoKey), Pay("ann", "ann", 1, NoKey)}
MCReferrer == [e \in {"bob"} |-> "ann"]
MCOwner == [g \in Goals |-> "ann"]
MCTarget == [g \in Goals |-> 2]
MCMonthly == [g \in Goals |-> 1]
MCQuoteHolder == [q \in Quotes |-> "ann"]
MCEvents == {[type |-> "cleared", id |-> "e1", amount |-> 2],
             [type |-> "refunded", id |-> "e1", amount |-> 2],
             [type |-> "settled", id |-> "e2", amount |-> 1]}
MCAttempts == {[amount |-> 1, risky |-> TRUE, country |-> "home", device |-> TRUE],
               [amount |-> 4, risky |-> FALSE, country |-> "home", device |-> FALSE]}
============================================================================
