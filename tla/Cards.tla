------------------------------- MODULE Cards -------------------------------
(***************************************************************************)
(* Cards (cards.service.ts), the issuer's webhooks (nymcard-card.webhook)  *)
(* and the cashback a purchase earns (cashback.service.ts), for one        *)
(* employee, the holder, whose virtual card has been issued.  NymCard is   *)
(* external: it blocks, unblocks and expires its cards and sends its       *)
(* events at any time, in any order and more than once.                    *)
(*                                                                         *)
(* A day stands for the period a counter or a cap is kept for:             *)
(* spentThisMonth is written as spentToday is, with the month for the day. *)
(***************************************************************************)
EXTENDS EmployeeWallet

CONSTANTS
  Holder,       \* Card.employeeId
  Events,       \* the issuer's transaction events: [type, id, amount]
  CardFee,      \* PHYSICAL_CARD_FEE
  CashbackRate, \* cashback on one unit spent
  CashbackCap   \* the cap of the holder's plan

ASSUME CardIsHeld == Holder \in Employees /\ {CardFee, CashbackRate, CashbackCap} \subseteq Nat
ASSUME EventsAreWhole == \A e \in Events : e.amount \in Nat

VARIABLES
  card,      \* status and spentToday of the virtual card, and the day of its updatedAt
  issuer,    \* the card's status at NymCard
  plastic,   \* requests for which NymCard has issued a physical card
  hasPlastic,\* the holder has a PHYSICAL Card row
  carried    \* history: the counter may hold what another day spent

cardVars == <<card, issuer, plastic, hasPlastic, carried>>

InitCards ==
  /\ card = [status |-> "ACTIVE", spent |-> 0, day |-> 0]
  /\ issuer = "ACTIVE"
  /\ plastic = {}
  /\ hasPlastic = FALSE
  /\ carried = FALSE

(* Any update of the row moves updatedAt; the counter is left as it is. *)
Touches(status) ==
  /\ card' = [card EXCEPT !.status = status, !.day = today]
  /\ carried' = (carried \/ (card.day # today /\ card.spent # 0))

(***************************************************************************)
(* cardsService.freezeCard, unfreezeCard and tokenize: the issuer is asked *)
(* first, the row is written after.                                        *)
(***************************************************************************)
Wish(op) == CASE op = "freeze" -> "BLOCKED" [] OTHER -> "ACTIVE"

Managing == {"freeze", "unfreeze", "tokenize"}
Manages(n, at) == request[n].at = at /\ request[n].op \in Managing

Manage(op) ==
  /\ Arrives([op |-> op, at |-> "reads card"])
  /\ UNCHANGED <<walletVars, cardVars>>

Allows(op) ==
  CASE op = "freeze" -> card.status # "BLOCKED"
    [] op = "unfreeze" -> card.status \notin {"ACTIVE", "EXPIRED", "REPLACED"}
    [] op = "tokenize" -> card.status = "ACTIVE"

ReadCard(n) ==
  LET r == request[n] IN
  /\ Manages(n, "reads card")
  /\ GoesTo(n, IF Allows(r.op) THEN "asks issuer" ELSE "refused")
  /\ UNCHANGED <<walletVars, cardVars>>

AskIssuer(n) ==
  LET r == request[n] IN
  /\ Manages(n, "asks issuer")
  /\ issuer # "EXPIRED"
  /\ issuer' = IF r.op = "tokenize" THEN issuer ELSE Wish(r.op)
  /\ GoesTo(n, "writes card")
  /\ UNCHANGED <<walletVars, card, plastic, hasPlastic, carried>>

IssuerRefuses(n) ==
  /\ Manages(n, "asks issuer")
  /\ Refused(n)
  /\ UNCHANGED cardVars

WriteCard(n) ==
  LET r == request[n] IN
  /\ Manages(n, "writes card")
  /\ Touches(IF r.op = "tokenize" THEN card.status ELSE Wish(r.op))
  /\ GoesTo(n, "done")
  /\ UNCHANGED <<walletVars, issuer, plastic, hasPlastic>>

(***************************************************************************)
(* The issuer expires a card, and /card-status says so.                    *)
(***************************************************************************)
IssuerExpires ==
  /\ issuer # "EXPIRED"
  /\ issuer' = "EXPIRED"
  /\ UNCHANGED <<sharedVars, card, plastic, hasPlastic, carried>>

StatusEvent ==
  /\ issuer = "EXPIRED"
  /\ Arrives([op |-> "status", at |-> "finds card"])
  /\ UNCHANGED <<walletVars, cardVars>>

(* Mutant: only an active card changes its status. *)
OnlyActive == card.status = "ACTIVE"
StatusChanges == card.status # "EXPIRED"

ReadStatusEvent(n) ==
  /\ Is(n, "status", "finds card")
  /\ GoesTo(n, IF StatusChanges THEN "writes" ELSE "done")
  /\ UNCHANGED <<walletVars, cardVars>>

WriteStatusEvent(n) ==
  /\ Is(n, "status", "writes")
  /\ Touches("EXPIRED")
  /\ GoesTo(n, "done")
  /\ UNCHANGED <<walletVars, issuer, plastic, hasPlastic>>

(***************************************************************************)
(* cardsService.orderPhysicalCard                                          *)
(***************************************************************************)
OrderCard ==
  /\ Arrives([op |-> "order", at |-> "checks"])
  /\ UNCHANGED <<walletVars, cardVars>>

CheckOrder(n) ==
  /\ Is(n, "order", "checks")
  /\ GoesTo(n, IF wallet[Holder] >= CardFee THEN "calls issuer" ELSE "refused")
  /\ UNCHANGED <<walletVars, cardVars>>

IssuePlastic(n) ==
  /\ Is(n, "order", "calls issuer")
  /\ plastic' = plastic \cup {n}
  /\ GoesTo(n, "writes")
  /\ UNCHANGED <<walletVars, card, issuer, hasPlastic, carried>>

CommitOrder(n) ==
  /\ Is(n, "order", "writes")
  /\ ~hasPlastic
  /\ hasPlastic' = TRUE
  /\ Posts([wallet EXCEPT ![Holder] = @ - CardFee],
           ledger \cup {Row(n, Holder, "FEE", CardFee, NoKey, <<"order", n>>, "")})
  /\ GoesTo(n, "done")
  /\ UNCHANGED <<card, issuer, plastic, carried>>

(* One card of each type: the insert fails, and the fee is rolled back. *)
OrderConflicts(n) ==
  /\ Is(n, "order", "writes")
  /\ hasPlastic
  /\ Refused(n)
  /\ UNCHANGED cardVars

(***************************************************************************)
(* NymCardCardWebhook.processTransaction                                   *)
(***************************************************************************)
TransactionEvent(e) ==
  /\ Arrives([op |-> "event", at |-> "finds card", event |-> e, spent |-> 0, day |-> 0, earned |-> 0])
  /\ UNCHANGED <<walletVars, cardVars>>

ReadEventCard(n) ==
  /\ Is(n, "event", "finds card")
  /\ Becomes(n, [request[n] EXCEPT !.at = "replay check", !.spent = card.spent, !.day = card.day])
  /\ UNCHANGED <<walletVars, cardVars>>

EventKey(e) == <<e.type, e.id>>
Moves(e) == IF e.type = "refunded" THEN e.amount ELSE -e.amount

(* Mutant: the counter is not reset on a new day. *)
AddedUp(day, spent, e) == spent - Moves(e)
NextSpent(day, spent, e) == (IF day = today THEN spent ELSE 0) - Moves(e)

(* The counter is computed now, for the day it is now. *)
CheckEvent(n) ==
  LET r == request[n] IN
  /\ Is(n, "event", "replay check")
  /\ IF KeyTaken(EventKey(r.event)) THEN GoesTo(n, "done")
     ELSE Becomes(n, [r EXCEPT !.at = "writes", !.day = today,
                               !.spent = NextSpent(r.day, r.spent, r.event)])
  /\ UNCHANGED <<walletVars, cardVars>>

(* Mutant: a refund may take the counter below zero. *)
Unclamped(spent) == spent
Clamped(spent) == Max({0, spent})

CommitEvent(n) ==
  LET r == request[n] IN
  /\ Is(n, "event", "writes")
  /\ ~KeyTaken(EventKey(r.event))
  /\ Posts([wallet EXCEPT ![Holder] = @ + Moves(r.event)],
           ledger \cup {Row(n, Holder, IF r.event.type = "refunded" THEN "REFUND" ELSE "CARD_PURCHASE",
                            Moves(r.event), EventKey(r.event), NoKey, "card")})
  /\ card' = [card EXCEPT !.spent = Clamped(r.spent), !.day = today]
  /\ carried' = (r.day # today \/ (carried /\ card.day = today))
  /\ GoesTo(n, IF r.event.type = "refunded" THEN "done" ELSE "cashback")
  /\ UNCHANGED <<issuer, plastic, hasPlastic>>

EventConflicts(n) ==
  /\ Is(n, "event", "writes")
  /\ KeyTaken(EventKey(request[n].event))
  /\ Refused(n)
  /\ UNCHANGED cardVars

(***************************************************************************)
(* cashbackService.processCashback                                         *)
(***************************************************************************)
CashbackRows(d) == {row \in ledger : row.type = "CASHBACK" /\ row.day = d}
Total(row) == row.total

(* Mutant: the cap is compared with the award alone. *)
AwardIgnoringEarned(potential, earned) == Min({potential, CashbackCap})
Award(potential, earned) == Min({potential, CashbackCap - earned})

SumCashback(n) ==
  LET earned == SumOf(Total, CashbackRows(today))
      award == Award(CashbackRate * request[n].event.amount, earned) IN
  /\ Is(n, "event", "cashback")
  /\ IF award <= 0 THEN GoesTo(n, "done")
     ELSE Becomes(n, [request[n] EXCEPT !.at = "awards", !.earned = award])
  /\ UNCHANGED <<walletVars, cardVars>>

PayCashback(n) ==
  LET award == request[n].earned IN
  /\ Is(n, "event", "awards")
  /\ Posts([wallet EXCEPT ![Holder] = @ + award],
           ledger \cup {Row(n, Holder, "CASHBACK", award, NoKey, NoKey, "")})
  /\ GoesTo(n, "done")
  /\ UNCHANGED cardVars

CardSteps(n) ==
  \/ ReadCard(n)
  \/ AskIssuer(n)
  \/ IssuerRefuses(n)
  \/ WriteCard(n)
  \/ ReadStatusEvent(n)
  \/ WriteStatusEvent(n)
  \/ CheckOrder(n)
  \/ IssuePlastic(n)
  \/ CommitOrder(n)
  \/ OrderConflicts(n)
  \/ ReadEventCard(n)
  \/ CheckEvent(n)
  \/ CommitEvent(n)
  \/ EventConflicts(n)
  \/ SumCashback(n)
  \/ PayCashback(n)

ControlArrives == \E op \in Managing : Manage(op)
EventArrives == \E e \in Events : TransactionEvent(e)
============================================================================
