------------------------ MODULE WalletMoney_proofs ------------------------
(***************************************************************************)
(* Proofs about the money of WalletPlane, for any number of requests,      *)
(* employees, goals, events, days and faults: the rows explain every       *)
(* balance and every goal, and neither is overdrawn by requests that were  *)
(* in progress one at a time; what is done once only is, what the card has *)
(* spent today is its rows of today, and every variable keeps its type.    *)
(***************************************************************************)
EXTENDS WalletPlane_proofs, SumTheorems

(***************************************************************************)
(* Sums of effects.                                                        *)
(***************************************************************************)
EffectsAreWhole(rows) == IsFiniteSet(rows) /\ \A row \in rows : Effect(row) \in Int
EffectsOf(rows) == [row \in rows |-> Effect(row)]

LEMMA EffectSum ==
  ASSUME NEW S, EffectsAreWhole(S)
  PROVE  SumOf(Effect, S) = SumFunctionOnSet(EffectsOf(S), S)
  <1> DEFINE w == EffectsOf(S)
             step(f) == [s \in SUBSET S |-> IF s = {} THEN 0 ELSE Effect(Any(s)) + f[s \ {Any(s)}]]
             fold == CHOOSE f : f = step(f)
  <1>1. IsFiniteSet(S) /\ w \in [S -> Int] /\ \A x \in S : w[x] = Effect(x)
    BY DEF EffectsAreWhole, EffectsOf
  <1>2. PICK f \in [SUBSET S -> Int] : Folds(f, w, S) /\ SumFunctionOnSet(w, S) = f[S]
    BY <1>1, SumIsFold
  <1>3. f = step(f)
    <2>1. \A s \in SUBSET S : s # {} => w[Any(s)] = Effect(Any(s))
      BY <1>1, AnyIn
    <2> HIDE DEF w
    <2> QED BY <1>2, <2>1 DEF Folds
  <1>4. fold = step(fold)
    BY <1>3
  <1>5. Folds(fold, w, S)
    <2>1. \A s \in SUBSET S : s # {} => w[Any(s)] = Effect(Any(s))
      BY <1>1, AnyIn
    <2> HIDE DEF w, fold
    <2> QED BY <1>4, <2>1 DEF Folds
  <1>6. \A s \in SUBSET S : fold[s] = f[s]
    <2> HIDE DEF w, fold
    <2> QED BY <1>1, <1>2, <1>5, FoldsAgree
  <1>7. SumOf(Effect, S) = fold[S]
    BY DEF SumOf, MapThenSumSet, MapThenFoldSet, Any
  <1> HIDE DEF fold
  <1> QED BY <1>2, <1>6, <1>7

LEMMA EffectType == ASSUME NEW S, EffectsAreWhole(S) PROVE SumOf(Effect, S) \in Int
  <1>1. IsFiniteSet(S) /\ EffectsOf(S) \in [S -> Int]
    BY DEF EffectsAreWhole, EffectsOf
  <1> QED BY <1>1, EffectSum, SumType

LEMMA NoEffect == SumOf(Effect, {}) = 0
  <1>1. EffectsAreWhole({}) /\ EffectsOf({}) \in [{} -> Int]
    BY FS_EmptySet DEF EffectsAreWhole, EffectsOf
  <1> QED BY <1>1, EffectSum, SumEmpty

LEMMA EffectAdds ==
  ASSUME NEW S, NEW x, x \notin S, EffectsAreWhole(S \cup {x})
  PROVE  /\ EffectsAreWhole(S)
         /\ SumOf(Effect, S) \in Int /\ Effect(x) \in Int
         /\ SumOf(Effect, S \cup {x}) = SumOf(Effect, S) + Effect(x)
  <1>1. EffectsAreWhole(S) /\ Effect(x) \in Int /\ IsFiniteSet(S)
    BY FS_Subset DEF EffectsAreWhole
  <1>2. /\ EffectsOf(S) \in [S -> Int] /\ EffectsOf(S \cup {x}) \in [S \cup {x} -> Int]
        /\ \A y \in S : EffectsOf(S)[y] = EffectsOf(S \cup {x})[y]
        /\ EffectsOf(S \cup {x})[x] = Effect(x)
    BY DEF EffectsAreWhole, EffectsOf
  <1>3. SumFunctionOnSet(EffectsOf(S \cup {x}), S \cup {x}) = SumFunctionOnSet(EffectsOf(S), S) + Effect(x)
    <2>1. PICK v, w : v = EffectsOf(S) /\ w = EffectsOf(S \cup {x})
      OBVIOUS
    <2>2. v \in [S -> Int] /\ w \in [S \cup {x} -> Int] /\ (\A y \in S : v[y] = w[y]) /\ w[x] = Effect(x)
      BY <1>2, <2>1
    <2>3. SumFunctionOnSet(w, S \cup {x}) = SumFunctionOnSet(v, S) + w[x]
      BY <1>1, <2>2, SumAdds
    <2> QED BY <2>1, <2>2, <2>3
  <1> QED BY <1>1, <1>3, EffectSum, EffectType

LEMMA EffectSwaps ==
  ASSUME NEW S, EffectsAreWhole(S), NEW x \in S, NEW y, y \notin S \ {x}, Effect(y) = Effect(x)
  PROVE  /\ EffectsAreWhole((S \ {x}) \cup {y})
         /\ SumOf(Effect, (S \ {x}) \cup {y}) = SumOf(Effect, S)
  <1>1. PICK rest : rest = S \ {x}
    OBVIOUS
  <1>2. IsFiniteSet(rest) /\ Effect(x) \in Int
    BY <1>1, FS_Subset DEF EffectsAreWhole
  <1>3. EffectsAreWhole(rest \cup {y})
    BY <1>1, <1>2, FS_AddElement DEF EffectsAreWhole
  <1>4. rest \cup {x} = S /\ x \notin rest /\ y \notin rest
    BY <1>1
  <1>5. SumOf(Effect, rest \cup {x}) = SumOf(Effect, rest) + Effect(x)
    BY <1>4, EffectAdds
  <1>6. SumOf(Effect, rest \cup {y}) = SumOf(Effect, rest) + Effect(y)
    BY <1>3, <1>4, EffectAdds
  <1> QED BY <1>1, <1>3, <1>4, <1>5, <1>6

(* What rows moved, as an operator of their set alone. *)
Moved(rows) == SumOf(Effect, rows)

LEMMA MovedType == ASSUME NEW S, EffectsAreWhole(S) PROVE Moved(S) \in Int
  BY EffectType DEF Moved

LEMMA MovedByNone == Moved({}) = 0
  BY NoEffect DEF Moved

LEMMA MovedAdds ==
  ASSUME NEW S, NEW x, x \notin S, EffectsAreWhole(S \cup {x})
  PROVE  Moved(S) \in Int /\ Effect(x) \in Int /\ Moved(S \cup {x}) = Moved(S) + Effect(x)
  BY EffectAdds DEF Moved

LEMMA MovedSwaps ==
  ASSUME NEW S, EffectsAreWhole(S), NEW x \in S, NEW y, y \notin S \ {x}, Effect(y) = Effect(x)
  PROVE  EffectsAreWhole((S \ {x}) \cup {y}) /\ Moved((S \ {x}) \cup {y}) = Moved(S)
  BY EffectSwaps DEF Moved

(***************************************************************************)
(* Rows and balances.  A post adds a row that was not there, and to the    *)
(* balance of its employee what the row says.                              *)
(***************************************************************************)
AllFields == RowFields \cup {"note", "day"}

TypedRow(row) ==
  /\ AllFields \subseteq DOMAIN row
  /\ row.by \in Requests /\ row.employee \in Employees /\ row.type \in Types
  /\ row.total \in Int /\ row.status \in {"COMPLETED", "FAILED"}

TypedRows(rows) == IsFiniteSet(rows) /\ \A row \in rows : TypedRow(row)

OfEmployee(rows, e) == {row \in rows : row.employee = e}
OfGoal(rows, g) == {row \in rows : row.type = "SAVINGS_TRANSFER" /\ row.ref = <<"goal", g>>}

Explains(rows, balances) ==
  /\ balances \in [Employees -> Int]
  /\ \A e \in Employees : balances[e] = Opening[e] + Moved(OfEmployee(rows, e))

GoalsExplained(rows, goals) ==
  /\ goals \in [Goals -> [status : {"none", "ACTIVE", "COMPLETED"}, saved : Int]]
  /\ \A g \in Goals : goals[g].saved = -Moved(OfGoal(rows, g))

LEMMA RowEffect == ASSUME NEW row, TypedRow(row) PROVE Effect(row) \in Int
  BY DEF TypedRow, Effect

LEMMA TypedEffects ==
  ASSUME NEW rows, TypedRows(rows), NEW S \in SUBSET rows
  PROVE  EffectsAreWhole(S)
  BY FS_Subset, RowEffect DEF TypedRows, EffectsAreWhole

LEMMA TypedAdds ==
  ASSUME NEW rows, TypedRows(rows), NEW x, TypedRow(x)
  PROVE  TypedRows(rows \cup {x})
  BY FS_AddElement DEF TypedRows

LEMMA PostExplains ==
  ASSUME NEW rows, TypedRows(rows), NEW balances, Explains(rows, balances),
         NEW x, TypedRow(x), x \notin rows
  PROVE  Explains(rows \cup {x}, [balances EXCEPT ![x.employee] = @ + Effect(x)])
  <1> DEFINE after == [balances EXCEPT ![x.employee] = @ + Effect(x)]
  <1>1. x.employee \in Employees /\ Effect(x) \in Int
    BY RowEffect DEF TypedRow
  <1>2. after \in [Employees -> Int]
    BY <1>1 DEF Explains
  <1>3. ASSUME NEW e \in Employees
        PROVE  after[e] = Opening[e] + Moved(OfEmployee(rows \cup {x}, e))
    <2>1. CASE e = x.employee
      <3>1. OfEmployee(rows \cup {x}, e) = OfEmployee(rows, e) \cup {x} /\ x \notin OfEmployee(rows, e)
        BY <2>1 DEF OfEmployee
      <3>2. EffectsAreWhole(OfEmployee(rows, e) \cup {x})
        <4>1. OfEmployee(rows, e) \cup {x} \in SUBSET (rows \cup {x}) /\ TypedRows(rows \cup {x})
          BY TypedAdds DEF OfEmployee
        <4> QED BY <4>1, TypedEffects
      <3>3. /\ Moved(OfEmployee(rows, e)) \in Int
            /\ Moved(OfEmployee(rows \cup {x}, e)) = Moved(OfEmployee(rows, e)) + Effect(x)
        BY <3>1, <3>2, MovedAdds
      <3>4. Opening[e] \in Int /\ balances[e] = Opening[e] + Moved(OfEmployee(rows, e))
        BY OpeningIsNatural DEF Explains
      <3>5. after[e] = balances[e] + Effect(x)
        BY <2>1 DEF Explains
      <3>6. \A o, old, ef \in Int : (o + old) + ef = o + (old + ef)
        OBVIOUS
      <3> HIDE DEF after
      <3> QED BY <3>3, <3>4, <3>5, <3>6, <1>1
    <2>2. CASE e # x.employee
      <3>1. OfEmployee(rows \cup {x}, e) = OfEmployee(rows, e)
        BY <2>2 DEF OfEmployee
      <3>2. after[e] = balances[e]
        BY <2>2 DEF Explains
      <3> QED BY <3>1, <3>2 DEF Explains
    <2> QED BY <2>1, <2>2
  <1> QED BY <1>2, <1>3 DEF Explains

(* A row in the place of another with the same effect changes nothing. *)
LEMMA SwapExplains ==
  ASSUME NEW rows, TypedRows(rows), NEW balances, Explains(rows, balances),
         NEW x \in rows, NEW y, y \notin rows \ {x}, TypedRow(y),
         y.employee = x.employee, Effect(y) = Effect(x)
  PROVE  TypedRows((rows \ {x}) \cup {y}) /\ Explains((rows \ {x}) \cup {y}, balances)
  <1> DEFINE new == (rows \ {x}) \cup {y}
  <1>1. TypedRows(new)
    BY FS_Subset, FS_AddElement DEF TypedRows
  <1>2. ASSUME NEW e \in Employees PROVE Moved(OfEmployee(new, e)) = Moved(OfEmployee(rows, e))
    <2>1. EffectsAreWhole(OfEmployee(rows, e))
      <3>1. OfEmployee(rows, e) \in SUBSET rows
        BY DEF OfEmployee
      <3> QED BY <3>1, TypedEffects
    <2>2. CASE e = x.employee
      <3>1. /\ OfEmployee(new, e) = (OfEmployee(rows, e) \ {x}) \cup {y}
            /\ x \in OfEmployee(rows, e) /\ y \notin OfEmployee(rows, e) \ {x}
        BY <2>2 DEF OfEmployee
      <3> QED BY <2>1, <3>1, MovedSwaps
    <2>3. CASE e # x.employee
      <3>1. OfEmployee(new, e) = OfEmployee(rows, e)
        BY <2>3 DEF OfEmployee
      <3> QED BY <3>1
    <2> QED BY <2>2, <2>3
  <1> QED BY <1>1, <1>2 DEF Explains

(***************************************************************************)
(* Rows and goals.                                                         *)
(***************************************************************************)
LEMMA OfGoalIsTyped ==
  ASSUME NEW rows, TypedRows(rows), NEW g
  PROVE  EffectsAreWhole(OfGoal(rows, g)) /\ Moved(OfGoal(rows, g)) \in Int
  <1>1. OfGoal(rows, g) \in SUBSET rows
    BY DEF OfGoal
  <1> QED BY <1>1, TypedEffects, MovedType

(* A row that is not of a goal leaves the goals explained. *)
LEMMA PostLeavesGoals ==
  ASSUME NEW rows, NEW goals, GoalsExplained(rows, goals), NEW x, x.type # "SAVINGS_TRANSFER"
  PROVE  GoalsExplained(rows \cup {x}, goals)
  <1>1. \A g \in Goals : OfGoal(rows \cup {x}, g) = OfGoal(rows, g)
    BY DEF OfGoal
  <1> QED BY <1>1 DEF GoalsExplained

LEMMA SwapLeavesGoals ==
  ASSUME NEW rows, NEW goals, GoalsExplained(rows, goals), NEW x, x.type # "SAVINGS_TRANSFER",
         NEW y, y.type # "SAVINGS_TRANSFER"
  PROVE  GoalsExplained((rows \ {x}) \cup {y}, goals)
  <1>1. \A g \in Goals : OfGoal((rows \ {x}) \cup {y}, g) = OfGoal(rows, g)
    BY DEF OfGoal
  <1> QED BY <1>1 DEF GoalsExplained

(* What a deposit or a withdrawal takes from the balance it moves into the *)
(* goal.                                                                   *)
LEMMA PostExplainsGoals ==
  ASSUME NEW rows, TypedRows(rows), NEW goals, GoalsExplained(rows, goals),
         NEW x, TypedRow(x), x \notin rows, x.type = "SAVINGS_TRANSFER",
         NEW g \in Goals, x.ref = <<"goal", g>>,
         NEW after \in [Goals -> [status : {"none", "ACTIVE", "COMPLETED"}, saved : Int]],
         after[g].saved = goals[g].saved - Effect(x),
         \A h \in Goals \ {g} : after[h] = goals[h]
  PROVE  GoalsExplained(rows \cup {x}, after)
  <1>1. ASSUME NEW h \in Goals PROVE after[h].saved = -Moved(OfGoal(rows \cup {x}, h))
    <2>1. CASE h = g
      <3>1. OfGoal(rows \cup {x}, g) = OfGoal(rows, g) \cup {x} /\ x \notin OfGoal(rows, g)
        BY DEF OfGoal
      <3>2. EffectsAreWhole(OfGoal(rows, g) \cup {x})
        BY <3>1, TypedAdds, OfGoalIsTyped
      <3>3. /\ Moved(OfGoal(rows, g)) \in Int /\ Effect(x) \in Int
            /\ Moved(OfGoal(rows \cup {x}, g)) = Moved(OfGoal(rows, g)) + Effect(x)
        BY <3>1, <3>2, MovedAdds
      <3>4. goals[g].saved = -Moved(OfGoal(rows, g))
        BY DEF GoalsExplained
      <3>5. \A a, b \in Int : (-a) - b = -(a + b)
        OBVIOUS
      <3> QED BY <2>1, <3>3, <3>4, <3>5
    <2>2. CASE h # g
      <3>1. OfGoal(rows \cup {x}, h) = OfGoal(rows, h)
        BY <2>2 DEF OfGoal
      <3> QED BY <2>2, <3>1 DEF GoalsExplained
    <2> QED BY <2>1, <2>2
  <1> QED BY <1>1 DEF GoalsExplained

(***************************************************************************)
(* A row is new because its request has not written one like it: what each *)
(* request has written so far, by the type and the reference of its rows.  *)
(***************************************************************************)
Mark(row) == <<row.type, row.ref>>
Marks(rows, n) == {Mark(row) : row \in {r \in rows : r.by = n}}

GoalMark(g) == <<"SAVINGS_TRANSFER", <<"goal", g>>>>

(* A transfer pays two different people, both employees, and its reward last. *)
TellsTransfer(r, marks) ==
  /\ {"from", "to", "amount"} \subseteq DOMAIN r
  /\ r.from \in Employees /\ r.to \in Employees /\ r.amount \in Nat
  /\ r.at \in {"replay check", "checks", "writes"} => marks = {}
  /\ r.at = "pays reward" => r.to \in DOMAIN Referrer
  /\ <<"REFERRAL_REWARD", <<"referral", r.to>>>> \notin marks

(* A deposit, or the sweep, has yet to come to the goals that are left. *)
TellsDeposit(r, marks) ==
  /\ {"who", "goal", "amount", "left", "sweep"} \subseteq DOMAIN r
  /\ r.left \subseteq Goals
  /\ r.at \in {"picks", "checks", "writes"}
  /\ r.at # "picks" => r.who \in Employees /\ r.goal \in Goals /\ r.amount \in Nat /\ r.goal \notin r.left
  /\ \A g \in Goals : GoalMark(g) \in marks => g \notin r.left /\ (r.at # "picks" => g # r.goal)

TellsWithdrawal(r, marks) ==
  /\ {"who", "goal", "amount"} \subseteq DOMAIN r
  /\ r.who \in Employees /\ r.goal \in Goals /\ r.amount \in Nat
  /\ marks = {}

TellsSend(r, marks) == "who" \in DOMAIN r /\ r.who \in Employees /\ marks = {}

(* An event writes its own row, then its cashback. *)
TellsEvent(r, marks) ==
  /\ {"event", "spent", "day", "earned"} \subseteq DOMAIN r
  /\ r.event \in Events
  /\ r.at \in {"finds card", "replay check", "writes"} => marks = {}
  /\ r.at = "awards" => r.earned \in Int
  /\ <<"CASHBACK", NoKey>> \notin marks

Tells(r, marks) ==
  /\ r = NotYet => marks = {}
  /\ r.at \notin Ended =>
       /\ r.op = "transfer" => TellsTransfer(r, marks)
       /\ r.op = "deposit" => TellsDeposit(r, marks)
       /\ r.op = "withdraw" => TellsWithdrawal(r, marks)
       /\ r.op = "send" => TellsSend(r, marks)
       /\ r.op = "event" => TellsEvent(r, marks)
       /\ r.op \in {"report", "order"} => marks = {}

RequestsTell == \A n \in Requests : Tells(request[n], Marks(ledger, n))

MoneyInv ==
  /\ TypedRows(ledger)
  /\ Explains(ledger, wallet)
  /\ GoalsExplained(ledger, goal)
  /\ RequestsTell

OneMore(rows, x, after) == after = rows \cup {x}

LEMMA PostMarks ==
  ASSUME NEW rows, NEW x, NEW after, OneMore(rows, x, after), NEW n
  PROVE  /\ x.by = n => /\ Marks(after, n) = Marks(rows, n) \cup {Mark(x)}
                        /\ Mark(x) \notin Marks(rows, n) => x \notin rows
         /\ x.by # n => Marks(after, n) = Marks(rows, n)
  BY DEF Marks, OneMore

LEMMA SwapMarks ==
  ASSUME NEW rows, NEW x \in rows, NEW y, y.by = x.by, Mark(y) = Mark(x)
  PROVE  \A m : Marks((rows \ {x}) \cup {y}, m) = Marks(rows, m)
  BY DEF Marks

LEMMA EndTells == ASSUME NEW r, r # NotYet, r.at \in Ended PROVE \A marks : Tells(r, marks)
  BY DEF Tells

(* One request has gone on, and has written at most rows of its own. *)
LEMMA OneTells ==
  ASSUME RequestsTell, NEW n \in Requests,
         \A m \in Requests \ {n} : request'[m] = request[m] /\ Marks(ledger', m) = Marks(ledger, m),
         Tells(request'[n], Marks(ledger', n))
  PROVE  RequestsTell'
  BY DEF RequestsTell

LEMMA OthersTell ==
  ASSUME RequestsTell, UNCHANGED ledger, NEW ops, HandlerStep(ops),
         ops \cap {"transfer", "deposit", "withdraw", "send", "report", "order", "event"} = {}
  PROVE  RequestsTell'
  <1> SUFFICES ASSUME NEW n \in Requests PROVE Tells(request'[n], Marks(ledger, n))
    BY DEF RequestsTell
  <1>1. CASE request'[n] = request[n]
    BY <1>1 DEF RequestsTell
  <1>2. CASE request'[n] # request[n]
    <2>1. request'[n] # NotYet /\ request'[n].op \in ops
      BY <1>2 DEF HandlerStep
    <2> QED BY <2>1 DEF Tells
  <1> QED BY <1>1, <1>2

LEMMA ArrivalTells ==
  ASSUME HandlerInv, RequestsTell, UNCHANGED ledger,
         NEW r, IsRequest(r), r # NotYet, Arrives(r), Tells(r, {})
  PROVE  RequestsTell'
  <1>1. PICK n \in Requests : /\ request[n] = NotYet /\ request'[n] = r
                              /\ \A m \in Requests \ {n} : request'[m] = request[m]
    BY Arriving
  <1>2. Marks(ledger, n) = {}
    BY <1>1 DEF RequestsTell, Tells
  <1> QED BY <1>1, <1>2, OneTells

(* A request that ends has nothing more to write. *)
LEMMA EndingTells ==
  ASSUME HandlerInv, RequestsTell, NEW n \in Busy, NEW at \in {"done", "refused", "died"}, GoesTo(n, at),
         \A m \in Requests \ {n} : Marks(ledger', m) = Marks(ledger, m)
  PROVE  RequestsTell'
  <1>1. at \in Ended /\ at # "not yet"
    BY DEF Ended
  <1>2. /\ n \in Requests /\ request'[n] # NotYet /\ request'[n].at = at
        /\ \A m \in Requests \ {n} : request'[m] = request[m]
    BY <1>1, GoingOn
  <1> QED BY <1>1, <1>2, EndTells, OneTells

(* A new row, posted to the balance of its employee. *)
LEMMA PostRow ==
  ASSUME NEW rows, TypedRows(rows), NEW balances, Explains(rows, balances),
         NEW x, TypedRow(x), x \notin rows, NEW after, OneMore(rows, x, after),
         NEW paid, paid = [balances EXCEPT ![x.employee] = @ + Effect(x)]
  PROVE  TypedRows(after) /\ Explains(after, paid)
  BY TypedAdds, PostExplains DEF OneMore

LEMMA PostLeaves ==
  ASSUME NEW rows, NEW goals, GoalsExplained(rows, goals), NEW x, x.type # "SAVINGS_TRANSFER",
         NEW after, OneMore(rows, x, after)
  PROVE  GoalsExplained(after, goals)
  BY PostLeavesGoals DEF OneMore

LEMMA QuietMoney ==
  ASSUME MoneyInv, UNCHANGED <<ledger, wallet, goal>>, RequestsTell'
  PROVE  MoneyInv'
  BY DEF MoneyInv, RequestsTell

LEMMA PostSaves ==
  ASSUME NEW rows, TypedRows(rows), NEW goals, GoalsExplained(rows, goals),
         NEW x, TypedRow(x), x \notin rows, x.type = "SAVINGS_TRANSFER",
         NEW g \in Goals, x.ref = <<"goal", g>>, NEW after, OneMore(rows, x, after),
         NEW saved \in [Goals -> [status : {"none", "ACTIVE", "COMPLETED"}, saved : Int]],
         saved[g].saved = goals[g].saved - Effect(x),
         \A h \in Goals \ {g} : saved[h] = goals[h]
  PROVE  GoalsExplained(after, saved)
  BY PostExplainsGoals DEF OneMore

(***************************************************************************)
(* Transfers                                                               *)
(***************************************************************************)
LEMMA TransferArrivesMoney ==
  ASSUME HandlerInv, MoneyInv, TransferArrives, UNCHANGED goal
  PROVE  MoneyInv'
  <1>1. PICK p \in Payments : Transfer(p)
    BY DEF TransferArrives
  <1> DEFINE r == [op |-> "transfer", at |-> IF p.key = NoKey THEN "checks" ELSE "replay check",
                   from |-> p.from, to |-> p.to, amount |-> p.amount, key |-> p.key]
  <1>2. Arrives(r) /\ UNCHANGED <<wallet, ledger>>
    BY <1>1 DEF Transfer, walletVars
  <1>3. IsRequest(r) /\ r # NotYet
    BY DEF IsRequest, NotYet
  <1>4. TellsTransfer(r, {})
    BY PaymentsAreWhole DEF TellsTransfer
  <1>5. r.op = "transfer"
    OBVIOUS
  <1> HIDE DEF r
  <1>6. Tells(r, {})
    BY <1>3, <1>4, <1>5 DEF Tells
  <1>7. RequestsTell'
    BY <1>2, <1>3, <1>6, ArrivalTells DEF MoneyInv
  <1> QED BY <1>2, <1>7, QuietMoney

LEMMA TransferTells ==
  ASSUME HandlerInv, RequestsTell, NEW n \in Requests, NEW from, from \notin Ended,
         Is(n, "transfer", from), NEW at, at # "not yet", GoesTo(n, at),
         \A m \in Requests \ {n} : Marks(ledger', m) = Marks(ledger, m),
         at \in {"replay check", "checks", "writes"} => Marks(ledger', n) = {},
         at = "pays reward" => request[n].to \in DOMAIN Referrer,
         at \notin Ended => <<"REFERRAL_REWARD", <<"referral", request[n].to>>>> \notin Marks(ledger', n)
  PROVE  RequestsTell'
  <1>1. n \in Busy /\ request[n].op = "transfer"
    BY IsBusy
  <1>2. /\ request'[n] # NotYet /\ request'[n].at = at /\ request'[n].op = "transfer"
        /\ \A m \in Requests \ {n} : request'[m] = request[m]
        /\ at \notin Ended => /\ DOMAIN request'[n] = DOMAIN request[n]
                              /\ \A f \in DOMAIN request[n] \ {"at"} : request'[n][f] = request[n][f]
    BY <1>1, GoingOn
  <1>3. TellsTransfer(request[n], Marks(ledger, n))
    BY <1>1 DEF RequestsTell, Tells, Busy
  <1>4. at \notin Ended => TellsTransfer(request'[n], Marks(ledger', n))
    <2> SUFFICES ASSUME at \notin Ended PROVE TellsTransfer(request'[n], Marks(ledger', n))
      OBVIOUS
    <2>1. /\ {"from", "to", "amount"} \subseteq DOMAIN request'[n]
          /\ request'[n].from = request[n].from /\ request'[n].to = request[n].to
          /\ request'[n].amount = request[n].amount
      BY <1>2, <1>3 DEF TellsTransfer
    <2> QED BY <1>2, <1>3, <2>1 DEF TellsTransfer
  <1>5. Tells(request'[n], Marks(ledger', n))
    BY <1>2, <1>4 DEF Tells
  <1> QED BY <1>2, <1>5, OneTells

LEMMA TransferAt ==
  ASSUME RequestsTell, NEW n \in Requests, NEW at, at \notin Ended, Is(n, "transfer", at)
  PROVE  TellsTransfer(request[n], Marks(ledger, n)) /\ request[n].at = at /\ n \in Busy
  BY IsBusy DEF RequestsTell, Tells, Busy, Is

LEMMA CommitTransferMoney ==
  ASSUME WalletInv, MoneyInv, NEW n \in Requests, CommitTransfer(n), UNCHANGED goal
  PROVE  MoneyInv'
  <1> DEFINE p == request[n]
             total == p.amount + FeeOf(p.from)
             debit == Row(n, p.from, "TRANSFER", -total, p.key, NoKey, "")
             credited == Row(n, p.to, "RECEIVE", p.amount, NoKey, NoKey, "")
             between == ledger \cup {debit}
             less == [wallet EXCEPT ![debit.employee] = @ + Effect(debit)]
  <1>1. /\ ledger' = ledger \cup {debit, credited}
        /\ wallet' = [wallet EXCEPT ![p.from] = @ - total, ![p.to] = @ + p.amount]
        /\ \E at \in {"reward", "done"} : GoesTo(n, at)
    BY DEF CommitTransfer, Posts, AfterTransfer
  <1>2. /\ Is(n, "transfer", "writes") /\ n \in Busy
        /\ p.from \in Employees /\ p.to \in Employees /\ p.amount \in Nat
        /\ Marks(ledger, n) = {}
    <2>1. Is(n, "transfer", "writes")
      BY DEF CommitTransfer
    <2> QED BY <2>1, TransferAt DEF MoneyInv, TellsTransfer, Ended
  <1>3. p.from # p.to
    BY <1>2 DEF WalletInv, RequestsInv, TransferInv, Is
  <1>4. total \in Int /\ -total \in Int /\ p.amount \in Int
    BY <1>2, PaymentsAreWhole DEF FeeOf
  <1>5. /\ TypedRow(debit) /\ Mark(debit) = <<"TRANSFER", NoKey>> /\ debit.by = n
        /\ debit.employee = p.from /\ debit.type = "TRANSFER" /\ debit.total = -total
    BY <1>2, <1>4 DEF Row, TypedRow, AllFields, RowFields, Mark, Types
  <1>6. /\ TypedRow(credited) /\ Mark(credited) = <<"RECEIVE", NoKey>> /\ credited.by = n
        /\ credited.employee = p.to /\ credited.type = "RECEIVE" /\ credited.total = p.amount
    BY <1>2, <1>4 DEF Row, TypedRow, AllFields, RowFields, Mark, Types
  <1>7. Effect(debit) = -total /\ Effect(credited) = p.amount
    BY <1>5, <1>6 DEF Effect
  <1>8. wallet \in [Employees -> Int]
    BY DEF MoneyInv, Explains
  <1> HIDE DEF debit, credited, total, p
  <1>9. less = [wallet EXCEPT ![p.from] = @ - total]
    <2>1. wallet[p.from] + Effect(debit) = wallet[p.from] - total
      BY <1>2, <1>4, <1>7, <1>8
    <2> QED BY <1>5, <2>1
  <1>10. wallet' = [less EXCEPT ![credited.employee] = @ + Effect(credited)]
    BY <1>1, <1>2, <1>3, <1>4, <1>6, <1>7, <1>8, <1>9
  <1>11. OneMore(ledger, debit, between) /\ OneMore(between, credited, ledger')
    BY <1>1 DEF OneMore
  <1> HIDE DEF between, less
  <1>12. /\ Marks(between, n) = {<<"TRANSFER", NoKey>>} /\ debit \notin ledger
         /\ \A m \in Requests \ {n} : Marks(between, m) = Marks(ledger, m)
    BY <1>2, <1>5, <1>11, PostMarks
  <1>13. /\ Marks(ledger', n) = {<<"TRANSFER", NoKey>>, <<"RECEIVE", NoKey>>} /\ credited \notin between
         /\ \A m \in Requests \ {n} : Marks(ledger', m) = Marks(ledger, m)
    <2>1. <<"TRANSFER", NoKey>> # <<"RECEIVE", NoKey>>
      OBVIOUS
    <2>2. Marks(ledger', n) = Marks(between, n) \cup {Mark(credited)}
      BY <1>6, <1>11, PostMarks
    <2>3. credited \notin between
      BY <1>6, <1>11, <1>12, <2>1, PostMarks
    <2>4. \A m \in Requests \ {n} : Marks(ledger', m) = Marks(ledger, m)
      BY <1>6, <1>11, <1>12, PostMarks
    <2> QED BY <1>6, <1>12, <2>2, <2>3, <2>4
  <1>14. TypedRows(between) /\ Explains(between, less)
    BY <1>5, <1>11, <1>12, PostRow DEF less, MoneyInv
  <1>15. TypedRows(ledger') /\ Explains(ledger', wallet')
    BY <1>6, <1>10, <1>11, <1>13, <1>14, PostRow
  <1>16. GoalsExplained(ledger', goal)
    <2>1. GoalsExplained(between, goal)
      BY <1>5, <1>11, PostLeaves DEF MoneyInv
    <2> QED BY <1>6, <1>11, <2>1, PostLeaves
  <1>17. RequestsTell'
    <2>1. PICK at \in {"reward", "done"} : GoesTo(n, at)
      BY <1>1
    <2>2. \A to : <<"REFERRAL_REWARD", <<"referral", to>>>> \notin Marks(ledger', n)
      BY <1>13
    <2> QED BY <1>2, <1>13, <2>1, <2>2, TransferTells DEF WalletInv, RequestsInv, MoneyInv, Ended
  <1> QED BY <1>15, <1>16, <1>17 DEF MoneyInv, RequestsTell

(* Each side is paid once: nobody refers themselves. *)
LEMMA PayRewardMoney ==
  ASSUME WalletInv, MoneyInv, NEW n \in Requests, PayReward(n), UNCHANGED goal
  PROVE  MoneyInv'
  <1> DEFINE referee == request[n].to
             referrer == Referrer[referee]
             x == Row(n, referrer, "REFERRAL_REWARD", Reward, NoKey, <<"referral", referee>>, "")
             y == Row(n, referee, "REFERRAL_REWARD", Reward, NoKey, <<"referral", referee>>, "")
             between == ledger \cup {x}
             more == [wallet EXCEPT ![x.employee] = @ + Effect(x)]
  <1>1. /\ ledger' = ledger \cup {x, y} /\ GoesTo(n, "done")
        /\ wallet' = [wallet EXCEPT ![referrer] = @ + Reward, ![referee] = @ + Reward]
    BY DEF PayReward, Posts, RewardedSides
  <1>2. /\ n \in Busy /\ referee \in DOMAIN Referrer /\ Reward \in Int
        /\ referee \in Employees /\ referrer \in Employees /\ referrer # referee
        /\ <<"REFERRAL_REWARD", <<"referral", referee>>>> \notin Marks(ledger, n)
    <2>1. Is(n, "transfer", "pays reward")
      BY DEF PayReward
    <2>2. TellsTransfer(request[n], Marks(ledger, n)) /\ request[n].at = "pays reward" /\ n \in Busy
      BY <2>1, TransferAt DEF MoneyInv, Ended
    <2>3. referee \in DOMAIN Referrer
      BY <2>2 DEF TellsTransfer
    <2>4. referee \in Employees /\ referrer \in Employees /\ referrer # referee /\ Reward \in Int
      BY <2>3, ReferralsAreOfOthers
    <2> QED BY <2>2, <2>3, <2>4 DEF TellsTransfer
  <1>3. /\ TypedRow(x) /\ Mark(x) = <<"REFERRAL_REWARD", <<"referral", referee>>>> /\ x.by = n
        /\ x.employee = referrer /\ x.type = "REFERRAL_REWARD" /\ x.total = Reward
    BY <1>2 DEF Row, TypedRow, AllFields, RowFields, Mark, Types
  <1>4. /\ TypedRow(y) /\ Mark(y) = <<"REFERRAL_REWARD", <<"referral", referee>>>> /\ y.by = n
        /\ y.employee = referee /\ y.type = "REFERRAL_REWARD" /\ y.total = Reward
    BY <1>2 DEF Row, TypedRow, AllFields, RowFields, Mark, Types
  <1>5. Effect(x) = Reward /\ Effect(y) = Reward
    BY <1>3, <1>4 DEF Effect
  <1> HIDE DEF x, y, referee, referrer
  <1>6. wallet' = [more EXCEPT ![y.employee] = @ + Effect(y)]
    <2>1. wallet \in [Employees -> Int]
      BY DEF MoneyInv, Explains
    <2>2. more = [wallet EXCEPT ![referrer] = @ + Reward]
      BY <1>3, <1>5
    <2> HIDE DEF more
    <2> QED BY <1>1, <1>2, <1>4, <1>5, <2>1, <2>2
  <1>7. OneMore(ledger, x, between) /\ OneMore(between, y, ledger')
    BY <1>1 DEF OneMore
  <1>8. x \notin ledger /\ y \notin ledger
    BY <1>2, <1>3, <1>4, <1>7 DEF Marks
  <1>9. y \notin between
    BY <1>2, <1>3, <1>4, <1>8
  <1> HIDE DEF between, more
  <1>10. \A m \in Requests \ {n} : Marks(ledger', m) = Marks(ledger, m)
    BY <1>3, <1>4, <1>7, PostMarks
  <1>11. TypedRows(between) /\ Explains(between, more)
    BY <1>3, <1>7, <1>8, PostRow DEF more, MoneyInv
  <1>12. TypedRows(ledger') /\ Explains(ledger', wallet')
    BY <1>4, <1>6, <1>7, <1>9, <1>11, PostRow
  <1>13. GoalsExplained(ledger', goal)
    <2>1. GoalsExplained(between, goal)
      BY <1>3, <1>7, PostLeaves DEF MoneyInv
    <2> QED BY <1>4, <1>7, <2>1, PostLeaves
  <1>14. RequestsTell'
    BY <1>1, <1>2, <1>10, EndingTells DEF WalletInv, RequestsInv, MoneyInv
  <1> QED BY <1>12, <1>13, <1>14 DEF MoneyInv, RequestsTell

LEMMA TransferQuietMoney ==
  ASSUME WalletInv, MoneyInv, NEW n \in Requests, UNCHANGED goal,
         \/ CheckReplay(n) \/ CheckTransfer(n) \/ TransferConflicts(n) \/ FindReferral(n) \/ TransferIsLost(n)
  PROVE  MoneyInv'
  <1> USE DEF WalletInv, RequestsInv
  <1>1. UNCHANGED <<ledger, wallet>>
    BY DEF CheckReplay, CheckTransfer, TransferConflicts, FindReferral, TransferIsLost, Refused, walletVars
  <1>2. PICK from \in {"replay check", "checks", "writes", "reward"} : Is(n, "transfer", from)
    BY DEF CheckReplay, CheckTransfer, TransferConflicts, FindReferral, TransferIsLost
  <1>3. TellsTransfer(request[n], Marks(ledger, n)) /\ request[n].at = from /\ from \notin Ended
    BY <1>2, TransferAt DEF MoneyInv, Ended
  <1>4. PICK at \in {"checks", "writes", "reward", "pays reward", "done", "refused"} :
          /\ GoesTo(n, at)
          /\ at \in {"checks", "writes"} => from \in {"replay check", "checks"}
          /\ at = "pays reward" => request[n].to \in DOMAIN Referrer
    BY <1>2 DEF CheckReplay, CheckTransfer, TransferConflicts, FindReferral, TransferIsLost, Refused, AfterTransfer,
                RewardDue, Is
  <1>5. RequestsTell'
    <2>1. <<"REFERRAL_REWARD", <<"referral", request[n].to>>>> \notin Marks(ledger, n)
      BY <1>3 DEF TellsTransfer
    <2>2. at \in {"replay check", "checks", "writes"} => Marks(ledger, n) = {}
      BY <1>3, <1>4 DEF TellsTransfer
    <2> QED BY <1>1, <1>2, <1>3, <1>4, <2>1, <2>2, TransferTells DEF MoneyInv
  <1> QED BY <1>1, <1>5, QuietMoney

LEMMA TransferMoney ==
  ASSUME WalletInv, MoneyInv,
         TransferNext \/ (TransferFrame /\ \E n \in Requests : TransferIsLost(n))
  PROVE  MoneyInv'
  <1>1. UNCHANGED goal
    BY DEF TransferNext, TransferFrame
  <1>2. CASE TransferArrives
    BY <1>1, <1>2, TransferArrivesMoney DEF WalletInv, RequestsInv
  <1>3. CASE \E n \in Requests : TransferSteps(n) \/ TransferIsLost(n)
    BY <1>1, <1>3, CommitTransferMoney, PayRewardMoney, TransferQuietMoney DEF TransferSteps
  <1> QED BY <1>2, <1>3 DEF TransferNext

(***************************************************************************)
(* Savings                                                                 *)
(***************************************************************************)
LEMMA SavingsArrivesMoney ==
  ASSUME HandlerInv, MoneyInv, SavingsArrives
  PROVE  MoneyInv'
  <1>1. PICK r : /\ IsRequest(r) /\ r # NotYet /\ Arrives(r) /\ UNCHANGED <<wallet, ledger, goal>>
                 /\ \/ r.op = "deposit" /\ TellsDeposit(r, {})
                    \/ r.op = "withdraw" /\ TellsWithdrawal(r, {})
    <2>1. CASE AutoSave
      <3> DEFINE r == [op |-> "deposit", at |-> "picks", who |-> "", goal |-> "", amount |-> 0, sweep |-> TRUE,
                       left |-> {g \in Goals : goal[g].status = "ACTIVE" /\ Monthly[g] # 0}]
      <3>1. IsRequest(r) /\ r # NotYet /\ r.op = "deposit" /\ TellsDeposit(r, {})
        BY DEF IsRequest, NotYet, TellsDeposit
      <3>2. Arrives(r) /\ UNCHANGED <<wallet, ledger, goal>>
        BY <2>1 DEF AutoSave, walletVars
      <3> HIDE DEF r
      <3> QED BY <3>1, <3>2
    <2>2. ASSUME NEW e \in Employees, NEW g \in Goals, NEW amount \in Stakes, Deposit(e, g, amount)
          PROVE  \E r : /\ IsRequest(r) /\ r # NotYet /\ Arrives(r) /\ UNCHANGED <<wallet, ledger, goal>>
                        /\ r.op = "deposit" /\ TellsDeposit(r, {})
      <3> DEFINE r == [op |-> "deposit", at |-> "checks", who |-> e, goal |-> g,
                       amount |-> amount, left |-> {}, sweep |-> FALSE]
      <3>1. IsRequest(r) /\ r # NotYet /\ r.op = "deposit" /\ TellsDeposit(r, {})
        BY GoalsAreOwned DEF IsRequest, NotYet, TellsDeposit
      <3>2. Arrives(r) /\ UNCHANGED <<wallet, ledger, goal>>
        BY <2>2 DEF Deposit, walletVars
      <3> HIDE DEF r
      <3> QED BY <3>1, <3>2
    <2>3. ASSUME NEW e \in Employees, NEW g \in Goals, NEW amount \in Stakes, Withdraw(e, g, amount)
          PROVE  \E r : /\ IsRequest(r) /\ r # NotYet /\ Arrives(r) /\ UNCHANGED <<wallet, ledger, goal>>
                        /\ r.op = "withdraw" /\ TellsWithdrawal(r, {})
      <3> DEFINE r == [op |-> "withdraw", at |-> "checks", who |-> e, goal |-> g, amount |-> amount]
      <3>1. IsRequest(r) /\ r # NotYet /\ r.op = "withdraw" /\ TellsWithdrawal(r, {})
        BY GoalsAreOwned DEF IsRequest, NotYet, TellsWithdrawal
      <3>2. Arrives(r) /\ UNCHANGED <<wallet, ledger, goal>>
        BY <2>3 DEF Withdraw, walletVars
      <3> HIDE DEF r
      <3> QED BY <3>1, <3>2
    <2> QED BY <2>1, <2>2, <2>3 DEF SavingsArrives
  <1>2. Tells(r, {})
    BY <1>1 DEF Tells
  <1>3. RequestsTell'
    BY <1>1, <1>2, ArrivalTells DEF MoneyInv
  <1> QED BY <1>1, <1>3, QuietMoney

LEMMA CreateGoalMoney ==
  ASSUME MoneyInv, NEW g \in Goals, CreateGoal(g)
  PROVE  MoneyInv'
  <1>1. UNCHANGED <<ledger, wallet, request>>
    BY DEF CreateGoal, sharedVars, walletVars, handlerVars
  <1>2. GoalsExplained(ledger, goal')
    BY DEF CreateGoal, MoneyInv, GoalsExplained
  <1> QED BY <1>1, <1>2 DEF MoneyInv, RequestsTell

LEMMA SavingsAt ==
  ASSUME RequestsTell, NEW n \in Requests, NEW at, at \notin Ended
  PROVE  /\ Is(n, "deposit", at) => /\ TellsDeposit(request[n], Marks(ledger, n))
                                    /\ request[n].at = at /\ request[n].op = "deposit" /\ n \in Busy
         /\ Is(n, "withdraw", at) => /\ TellsWithdrawal(request[n], Marks(ledger, n))
                                     /\ request[n].at = at /\ request[n].op = "withdraw" /\ n \in Busy
  BY IsBusy DEF RequestsTell, Tells, Busy, Is

(* A deposit goes on: to its writes, or back to pick the next goal. *)
LEMMA DepositTells ==
  ASSUME HandlerInv, RequestsTell, NEW n \in Busy, request[n].op = "deposit", request[n].at # "picks",
         NEW at \in {"writes", "picks", "done", "refused"}, GoesTo(n, at),
         \A m \in Requests \ {n} : Marks(ledger', m) = Marks(ledger, m),
         \A g \in Goals : GoalMark(g) \in Marks(ledger', n) =>
           GoalMark(g) \in Marks(ledger, n) \/ (at # "writes" /\ g = request[n].goal)
  PROVE  RequestsTell'
  <1>1. CASE at \in {"done", "refused"}
    BY <1>1, EndingTells
  <1>2. CASE at \in {"writes", "picks"}
    <2>1. at \notin Ended /\ at # "not yet"
      BY <1>2 DEF Ended
    <2>2. /\ request'[n] # NotYet /\ request'[n].at = at /\ request'[n].op = "deposit" /\ n \in Requests
          /\ \A m \in Requests \ {n} : request'[m] = request[m]
          /\ DOMAIN request'[n] = DOMAIN request[n]
          /\ \A f \in DOMAIN request[n] \ {"at"} : request'[n][f] = request[n][f]
      BY <2>1, GoingOn
    <2>3. TellsDeposit(request[n], Marks(ledger, n))
      BY DEF RequestsTell, Tells, Busy
    <2>4. /\ {"who", "goal", "amount", "left", "sweep"} \subseteq DOMAIN request'[n]
          /\ request'[n].who = request[n].who /\ request'[n].goal = request[n].goal
          /\ request'[n].amount = request[n].amount /\ request'[n].left = request[n].left
      BY <2>2, <2>3 DEF TellsDeposit
    <2>5. TellsDeposit(request'[n], Marks(ledger', n))
      <3>1. \A g \in Goals : GoalMark(g) \in Marks(ledger', n) =>
              g \notin request[n].left /\ (at # "picks" => g # request[n].goal)
        BY <1>2, <2>3 DEF TellsDeposit
      <3> QED BY <1>2, <2>2, <2>3, <2>4, <3>1 DEF TellsDeposit
    <2> QED BY <2>2, <2>5, OneTells DEF Tells
  <1> QED BY <1>1, <1>2

LEMMA CheckDepositMoney ==
  ASSUME WalletInv, MoneyInv, NEW n \in Requests, CheckDeposit(n)
  PROVE  MoneyInv'
  <1>1. UNCHANGED <<ledger, wallet, goal>> /\ Is(n, "deposit", "checks")
    BY DEF CheckDeposit, walletVars
  <1>2. request[n].at = "checks" /\ request[n].op = "deposit" /\ n \in Busy
    BY <1>1, SavingsAt DEF MoneyInv, Ended
  <1>3. PICK at \in {"writes", "picks", "refused"} : GoesTo(n, at)
    BY DEF CheckDeposit, AfterDeposit
  <1>4. RequestsTell'
    BY <1>1, <1>2, <1>3, DepositTells DEF WalletInv, RequestsInv, MoneyInv
  <1> QED BY <1>1, <1>4, QuietMoney

LEMMA CommitDepositMoney ==
  ASSUME WalletInv, MoneyInv, NEW n \in Requests, CommitDeposit(n)
  PROVE  MoneyInv'
  <1> DEFINE r == request[n]
             x == Row(n, r.who, "SAVINGS_TRANSFER", r.amount, NoKey, <<"goal", r.goal>>, "deposit")
  <1>1. /\ ledger' = ledger \cup {x}
        /\ wallet' = [wallet EXCEPT ![r.who] = @ - r.amount]
        /\ \E at \in {"picks", "done"} : GoesTo(n, at)
    BY DEF CommitDeposit, Posts, AfterDeposit
  <1>2. /\ r.op = "deposit" /\ r.at = "writes" /\ n \in Busy
        /\ r.who \in Employees /\ r.goal \in Goals /\ r.amount \in Nat
        /\ GoalMark(r.goal) \notin Marks(ledger, n)
    <2>1. Is(n, "deposit", "writes")
      BY DEF CommitDeposit
    <2> QED BY <2>1, SavingsAt DEF MoneyInv, TellsDeposit, Ended
  <1>3. /\ TypedRow(x) /\ Mark(x) = GoalMark(r.goal) /\ x.by = n /\ x.employee = r.who
        /\ x.type = "SAVINGS_TRANSFER" /\ x.total = r.amount /\ x.ref = <<"goal", r.goal>> /\ x.note = "deposit"
    BY <1>2 DEF Row, TypedRow, AllFields, RowFields, Mark, GoalMark, Types
  <1>4. Effect(x) = -r.amount
    BY <1>3 DEF Effect
  <1> HIDE DEF x
  <1>5. wallet \in [Employees -> Int] /\ goal \in [Goals -> [status : {"none", "ACTIVE", "COMPLETED"}, saved : Int]]
    BY DEF MoneyInv, Explains, GoalsExplained
  <1>6. wallet' = [wallet EXCEPT ![x.employee] = @ + Effect(x)]
    BY <1>1, <1>2, <1>3, <1>4, <1>5
  <1>7. OneMore(ledger, x, ledger')
    BY <1>1 DEF OneMore
  <1>8. /\ Marks(ledger', n) = Marks(ledger, n) \cup {GoalMark(r.goal)} /\ x \notin ledger
        /\ \A m \in Requests \ {n} : Marks(ledger', m) = Marks(ledger, m)
    BY <1>2, <1>3, <1>7, PostMarks
  <1>9. TypedRows(ledger') /\ Explains(ledger', wallet')
    BY <1>3, <1>6, <1>7, <1>8, PostRow DEF MoneyInv
  <1>10. /\ goal' \in [Goals -> [status : {"none", "ACTIVE", "COMPLETED"}, saved : Int]]
         /\ goal'[r.goal].saved = goal[r.goal].saved - Effect(x)
         /\ \A h \in Goals \ {r.goal} : goal'[h] = goal[h]
    <2>1. PICK status \in {goal[r.goal].status, "COMPLETED"} :
            goal' = [goal EXCEPT ![r.goal] = [saved |-> goal[r.goal].saved + r.amount, status |-> status]]
      BY DEF CommitDeposit
    <2>2. goal[r.goal].saved \in Int /\ status \in {"none", "ACTIVE", "COMPLETED"}
      BY <1>2, <1>5
    <2>3. goal[r.goal].saved + r.amount \in Int /\ goal[r.goal].saved + r.amount = goal[r.goal].saved - Effect(x)
      BY <1>2, <1>4, <2>2
    <2> HIDE DEF r
    <2> QED BY <1>2, <1>5, <2>1, <2>2, <2>3
  <1>11. GoalsExplained(ledger', goal')
    BY <1>2, <1>3, <1>7, <1>8, <1>10, PostSaves DEF MoneyInv
  <1>12. RequestsTell'
    <2>1. PICK at \in {"picks", "done"} : GoesTo(n, at)
      BY <1>1
    <2>2. \A g \in Goals : GoalMark(g) \in Marks(ledger', n) => GoalMark(g) \in Marks(ledger, n) \/ g = r.goal
      BY <1>8 DEF GoalMark
    <2> QED BY <1>2, <1>8, <2>1, <2>2, DepositTells DEF WalletInv, RequestsInv, MoneyInv
  <1> QED BY <1>9, <1>11, <1>12 DEF MoneyInv, RequestsTell

LEMMA NextAutoSaveMoney ==
  ASSUME WalletInv, MoneyInv, NEW n \in Requests, NextAutoSave(n)
  PROVE  MoneyInv'
  <1> DEFINE r == request[n]
  <1>1. UNCHANGED <<ledger, wallet, goal>> /\ Is(n, "deposit", "picks")
    BY DEF NextAutoSave, walletVars
  <1>2. r.at = "picks" /\ r.op = "deposit" /\ n \in Busy /\ TellsDeposit(r, Marks(ledger, n))
    BY <1>1, SavingsAt DEF MoneyInv, Ended
  <1>3. CASE r.left = {}
    <2>1. GoesTo(n, "done")
      BY <1>3 DEF NextAutoSave
    <2>2. RequestsTell'
      BY <1>1, <1>2, <2>1, EndingTells DEF WalletInv, RequestsInv, MoneyInv
    <2> QED BY <1>1, <2>2, QuietMoney
  <1>4. CASE r.left # {}
    <2>1. PICK g \in r.left : Becomes(n, [r EXCEPT !.at = "checks", !.who = Owner[g], !.goal = g,
                                                   !.amount = Monthly[g], !.left = @ \ {g}])
      BY <1>4 DEF NextAutoSave
    <2> DEFINE s == [r EXCEPT !.at = "checks", !.who = Owner[g], !.goal = g, !.amount = Monthly[g], !.left = @ \ {g}]
    <2>2. /\ DOMAIN s = DOMAIN r /\ {"at", "op", "who", "goal", "amount", "left", "sweep"} \subseteq DOMAIN r
          /\ s.at = "checks" /\ s.op = "deposit" /\ s.who = Owner[g] /\ s.goal = g /\ s.amount = Monthly[g]
          /\ s.left = r.left \ {g} /\ s # NotYet
      BY <1>2, InProgress DEF TellsDeposit, NotYet, WalletInv, RequestsInv
    <2> HIDE DEF s
    <2>3. g \in Goals /\ Owner[g] \in Employees /\ Monthly[g] \in Nat
      BY <1>2, GoalsAreOwned DEF TellsDeposit
    <2>4. TellsDeposit(s, Marks(ledger, n))
      BY <1>2, <2>2, <2>3 DEF TellsDeposit
    <2>5. request'[n] = s /\ \A m \in Requests \ {n} : request'[m] = request[m]
      BY <2>1 DEF Becomes, s, WalletInv, RequestsInv, HandlerInv, RequestShape
    <2>6. Tells(request'[n], Marks(ledger', n))
      BY <1>1, <2>2, <2>4, <2>5 DEF Tells
    <2>7. RequestsTell'
      BY <1>1, <2>5, <2>6, OneTells DEF MoneyInv
    <2> QED BY <1>1, <2>7, QuietMoney
  <1> QED BY <1>3, <1>4

LEMMA CheckWithdrawalMoney ==
  ASSUME WalletInv, MoneyInv, NEW n \in Requests, CheckWithdrawal(n)
  PROVE  MoneyInv'
  <1>1. UNCHANGED <<ledger, wallet, goal>> /\ Is(n, "withdraw", "checks")
    BY DEF CheckWithdrawal, walletVars
  <1>2. request[n].op = "withdraw" /\ n \in Busy /\ TellsWithdrawal(request[n], Marks(ledger, n))
    BY <1>1, SavingsAt DEF MoneyInv, Ended
  <1>3. PICK at \in {"writes", "refused"} : GoesTo(n, at)
    BY DEF CheckWithdrawal
  <1>4. RequestsTell'
    <2>1. CASE at = "refused"
      BY <1>1, <1>2, <1>3, <2>1, EndingTells DEF WalletInv, RequestsInv, MoneyInv
    <2>2. CASE at = "writes"
      <3>1. /\ request'[n] # NotYet /\ request'[n].op = "withdraw"
            /\ \A m \in Requests \ {n} : request'[m] = request[m]
            /\ DOMAIN request'[n] = DOMAIN request[n]
            /\ \A f \in DOMAIN request[n] \ {"at"} : request'[n][f] = request[n][f]
        BY <1>2, <1>3, <2>2, GoingOn DEF WalletInv, RequestsInv, Ended
      <3>2. TellsWithdrawal(request'[n], Marks(ledger, n))
        BY <1>2, <3>1 DEF TellsWithdrawal
      <3> QED BY <1>1, <3>1, <3>2, OneTells DEF Tells, MoneyInv
    <2> QED BY <1>3, <2>1, <2>2
  <1> QED BY <1>1, <1>4, QuietMoney

LEMMA CommitWithdrawalMoney ==
  ASSUME WalletInv, MoneyInv, NEW n \in Requests, CommitWithdrawal(n)
  PROVE  MoneyInv'
  <1> DEFINE r == request[n]
             x == Row(n, r.who, "SAVINGS_TRANSFER", r.amount, NoKey, <<"goal", r.goal>>, "withdrawal")
  <1>1. /\ ledger' = ledger \cup {x} /\ GoesTo(n, "done")
        /\ wallet' = [wallet EXCEPT ![r.who] = @ + r.amount]
        /\ goal' = [goal EXCEPT ![r.goal].saved = @ - r.amount]
    BY DEF CommitWithdrawal, Posts
  <1>2. /\ n \in Busy /\ r.who \in Employees /\ r.goal \in Goals /\ r.amount \in Nat
        /\ Marks(ledger, n) = {}
    <2>1. Is(n, "withdraw", "writes")
      BY DEF CommitWithdrawal
    <2> QED BY <2>1, SavingsAt DEF MoneyInv, TellsWithdrawal, Ended
  <1>3. /\ TypedRow(x) /\ x.by = n /\ x.employee = r.who
        /\ x.type = "SAVINGS_TRANSFER" /\ x.total = r.amount /\ x.ref = <<"goal", r.goal>> /\ x.note = "withdrawal"
    BY <1>2 DEF Row, TypedRow, AllFields, RowFields, Types
  <1>4. Effect(x) = r.amount
    BY <1>3 DEF Effect
  <1> HIDE DEF x
  <1>5. wallet' = [wallet EXCEPT ![x.employee] = @ + Effect(x)]
    BY <1>1, <1>3, <1>4
  <1>6. OneMore(ledger, x, ledger')
    BY <1>1 DEF OneMore
  <1>7. x \notin ledger /\ \A m \in Requests \ {n} : Marks(ledger', m) = Marks(ledger, m)
    BY <1>2, <1>3, <1>6, PostMarks
  <1>8. TypedRows(ledger') /\ Explains(ledger', wallet')
    BY <1>3, <1>5, <1>6, <1>7, PostRow DEF MoneyInv
  <1>9. /\ goal' \in [Goals -> [status : {"none", "ACTIVE", "COMPLETED"}, saved : Int]]
        /\ goal'[r.goal].saved = goal[r.goal].saved - Effect(x)
        /\ \A h \in Goals \ {r.goal} : goal'[h] = goal[h]
    <2>1. goal \in [Goals -> [status : {"none", "ACTIVE", "COMPLETED"}, saved : Int]]
      BY DEF MoneyInv, GoalsExplained
    <2> HIDE DEF r
    <2> QED BY <1>1, <1>2, <1>4, <2>1
  <1>10. GoalsExplained(ledger', goal')
    BY <1>2, <1>3, <1>6, <1>7, <1>9, PostSaves DEF MoneyInv
  <1>11. RequestsTell'
    BY <1>1, <1>2, <1>7, EndingTells DEF WalletInv, RequestsInv, MoneyInv
  <1> QED BY <1>8, <1>10, <1>11 DEF MoneyInv, RequestsTell

LEMMA SavingsMoney == ASSUME WalletInv, MoneyInv, SavingsNext PROVE MoneyInv'
  <1>1. CASE SavingsArrives
    BY <1>1, SavingsArrivesMoney DEF WalletInv, RequestsInv
  <1>2. CASE \E g \in Goals : CreateGoal(g)
    BY <1>2, CreateGoalMoney
  <1>3. CASE \E n \in Requests : SavingsSteps(n)
    BY <1>3, CheckDepositMoney, CommitDepositMoney, NextAutoSaveMoney, CheckWithdrawalMoney, CommitWithdrawalMoney
       DEF SavingsSteps
  <1> QED BY <1>1, <1>2, <1>3 DEF SavingsNext

(***************************************************************************)
(* Remittances                                                             *)
(***************************************************************************)
LEMMA RemittanceArrivesMoney ==
  ASSUME HandlerInv, MoneyInv, RemittanceArrives, UNCHANGED goal
  PROVE  MoneyInv'
  <1>1. PICK r : /\ IsRequest(r) /\ r # NotYet /\ Arrives(r) /\ UNCHANGED <<wallet, ledger>>
                 /\ (r.op = "send" /\ TellsSend(r, {})) \/ r.op = "report"
    <2>1. ASSUME NEW e \in Employees, NEW at, at # "not yet", NEW q,
                 Arrives([op |-> "send", at |-> at, who |-> e, quote |-> q]), UNCHANGED walletVars
          PROVE  \E r : /\ IsRequest(r) /\ r # NotYet /\ Arrives(r) /\ UNCHANGED <<wallet, ledger>>
                        /\ r.op = "send" /\ TellsSend(r, {})
      <3> DEFINE r == [op |-> "send", at |-> at, who |-> e, quote |-> q]
      <3>1. IsRequest(r) /\ r.op = "send" /\ TellsSend(r, {})
        BY <2>1 DEF IsRequest, TellsSend, NotYet
      <3>2. r # NotYet
        BY DEF NotYet
      <3>3. Arrives(r) /\ UNCHANGED <<wallet, ledger>>
        BY <2>1 DEF walletVars
      <3> HIDE DEF r
      <3> QED BY <3>1, <3>2, <3>3
    <2>2. ASSUME NEW t, NEW verdict, UNCHANGED walletVars,
                 Arrives([op |-> "report", at |-> "finds row", transfer |-> t, verdict |-> verdict])
          PROVE  \E r : /\ IsRequest(r) /\ r # NotYet /\ Arrives(r) /\ UNCHANGED <<wallet, ledger>>
                        /\ r.op = "report"
      <3> DEFINE r == [op |-> "report", at |-> "finds row", transfer |-> t, verdict |-> verdict]
      <3>1. IsRequest(r) /\ r.op = "report" /\ r # NotYet
        BY DEF IsRequest, NotYet
      <3>2. Arrives(r) /\ UNCHANGED <<wallet, ledger>>
        BY <2>2 DEF walletVars
      <3> HIDE DEF r
      <3> QED BY <3>1, <3>2
    <2>3. CASE \E e \in Employees : Send(e) \/ \E q \in Quotes : SendQuote(e, q)
      BY <2>1, <2>3 DEF Send, SendQuote
    <2>4. CASE \E t \in Requests, verdict \in {"succeeded", "failed"} : Report(t, verdict)
      BY <2>2, <2>4 DEF Report
    <2> QED BY <2>3, <2>4 DEF RemittanceArrives
  <1>2. Tells(r, {})
    BY <1>1 DEF Tells
  <1>3. RequestsTell'
    BY <1>1, <1>2, ArrivalTells DEF MoneyInv
  <1> QED BY <1>1, <1>3, QuietMoney

(* A request that has written nothing goes on without writing. *)
LEMMA SilentTells ==
  ASSUME HandlerInv, RequestsTell, UNCHANGED ledger, NEW n \in Busy, request[n].op \in {"send", "report", "order"},
         NEW at, at # "not yet", GoesTo(n, at)
  PROVE  RequestsTell'
  <1>1. /\ n \in Requests /\ request'[n] # NotYet /\ request'[n].at = at /\ request'[n].op = request[n].op
        /\ \A m \in Requests \ {n} : request'[m] = request[m]
        /\ at \notin Ended => /\ DOMAIN request'[n] = DOMAIN request[n]
                              /\ \A f \in DOMAIN request[n] \ {"at"} : request'[n][f] = request[n][f]
    BY GoingOn
  <1>2. Tells(request[n], Marks(ledger, n)) /\ request[n].at \notin Ended
    BY <1>1 DEF RequestsTell, Busy
  <1>3. Tells(request'[n], Marks(ledger, n))
    <2>1. CASE request[n].op = "send" /\ at \notin Ended
      <3>1. TellsSend(request[n], Marks(ledger, n))
        BY <1>2, <2>1 DEF Tells
      <3>2. TellsSend(request'[n], Marks(ledger, n))
        BY <1>1, <2>1, <3>1 DEF TellsSend
      <3> QED BY <1>1, <2>1, <3>2 DEF Tells
    <2>2. CASE request[n].op # "send" \/ at \in Ended
      BY <1>1, <1>2, <2>2 DEF Tells
    <2> QED BY <2>1, <2>2
  <1> QED BY <1>1, <1>3, OneTells

LEMMA CommitSendMoney ==
  ASSUME WalletInv, MoneyInv, NEW n \in Requests, CommitSend(n), UNCHANGED goal
  PROVE  MoneyInv'
  <1> DEFINE e == request[n].who
             x == Row(n, e, "REMITTANCE", Price, NoKey, <<"transfer", n>>, "")
  <1>1. ledger' = ledger \cup {x} /\ GoesTo(n, "done") /\ wallet' = [wallet EXCEPT ![e] = @ - Price]
    BY DEF CommitSend, Posts
  <1>2. n \in Busy /\ e \in Employees /\ Marks(ledger, n) = {}
    <2>1. n \in Busy /\ request[n].op = "send" /\ request[n].at \notin Ended
      BY DEF CommitSend, Is, Busy, Ended
    <2>2. TellsSend(request[n], Marks(ledger, n))
      BY <2>1 DEF MoneyInv, RequestsTell, Tells
    <2> QED BY <2>1, <2>2 DEF TellsSend
  <1>3. TypedRow(x) /\ x.by = n /\ x.employee = e /\ x.type = "REMITTANCE" /\ x.total = Price
    BY <1>2, PriceIsNatural DEF Row, TypedRow, AllFields, RowFields, Types
  <1> HIDE DEF x, e
  <1>4. Effect(x) = -Price /\ Price \in Int
    BY <1>3, PriceIsNatural DEF Effect
  <1>5. wallet' = [wallet EXCEPT ![x.employee] = @ + Effect(x)]
    <2>1. wallet \in [Employees -> Int]
      BY DEF MoneyInv, Explains
    <2> QED BY <1>1, <1>2, <1>3, <1>4, <2>1
  <1>6. OneMore(ledger, x, ledger')
    BY <1>1 DEF OneMore
  <1>7. x \notin ledger /\ \A m \in Requests \ {n} : Marks(ledger', m) = Marks(ledger, m)
    BY <1>2, <1>3, <1>6, PostMarks
  <1>8. TypedRows(ledger') /\ Explains(ledger', wallet')
    BY <1>3, <1>5, <1>6, <1>7, PostRow DEF MoneyInv
  <1>9. GoalsExplained(ledger', goal)
    BY <1>3, <1>6, PostLeaves DEF MoneyInv
  <1>10. RequestsTell'
    BY <1>1, <1>2, <1>7, EndingTells DEF WalletInv, RequestsInv, MoneyInv
  <1> QED BY <1>8, <1>9, <1>10 DEF MoneyInv, RequestsTell

(* The failed row says what the row it replaces said, and the refund is    *)
(* the report's first row.                                                 *)
LEMMA CommitRefundMoney ==
  ASSUME WalletInv, MoneyInv, NEW n \in Requests, CommitRefund(n), UNCHANGED goal
  PROVE  MoneyInv'
  <1> DEFINE t == request[n].transfer
             Failed(row) == [row EXCEPT !.status = "FAILED"]
             Refund(row) == Row(n, row.employee, "REFUND", row.total, KeyOfRefund(t), <<"transfer", t>>, "")
  <1>0. GoesTo(n, "done")
    BY DEF CommitRefund
  <1>1. PICK row \in RemittanceRows(t) :
          /\ ledger' = (ledger \ {row}) \cup {Failed(row), Refund(row)}
          /\ wallet' = [wallet EXCEPT ![row.employee] = @ + row.total]
    BY DEF CommitRefund, Posts
  <1> DEFINE failed == Failed(row)
             refund == Refund(row)
             between == (ledger \ {row}) \cup {failed}
  <1>2. row \in ledger /\ row.type = "REMITTANCE" /\ TypedRow(row) /\ TypedRows(ledger)
    BY <1>1 DEF RemittanceRows, MoneyInv, TypedRows
  <1>3. n \in Busy /\ Marks(ledger, n) = {}
    <2>1. n \in Busy /\ request[n].op = "report" /\ request[n].at \notin Ended
      BY DEF CommitRefund, Is, Busy, Ended
    <2> QED BY <2>1 DEF MoneyInv, RequestsTell, Tells
  <1>4. /\ TypedRow(failed) /\ failed.by = row.by /\ failed.employee = row.employee /\ failed.type = "REMITTANCE"
        /\ failed.total = row.total /\ failed.ref = row.ref /\ failed.status = "FAILED"
    <2>1. DOMAIN failed = DOMAIN row /\ {"by", "employee", "type", "total", "status", "ref"} \subseteq DOMAIN row
      BY <1>2 DEF TypedRow, AllFields, RowFields
    <2> QED BY <1>2, <2>1 DEF TypedRow, Types
  <1>5. /\ TypedRow(refund) /\ refund.by = n /\ refund.employee = row.employee
        /\ refund.type = "REFUND" /\ refund.total = row.total
    BY <1>2 DEF Row, TypedRow, AllFields, RowFields, Types
  <1>6. ledger' = between \cup {refund}
    BY <1>1
  <1> HIDE DEF Failed, Refund, failed, refund
  <1>7. Effect(failed) = Effect(row) /\ Effect(refund) = row.total /\ Mark(failed) = Mark(row)
    BY <1>2, <1>4, <1>5 DEF Effect, Mark
  <1>8. failed \notin ledger \ {row}
    BY <1>2, <1>4 DEF WalletInv, RemitInv, SendsWriteOnce, IsRemittance
  <1>9. TypedRows(between) /\ Explains(between, wallet)
    BY <1>2, <1>4, <1>7, <1>8, SwapExplains DEF MoneyInv
  <1>10. GoalsExplained(between, goal)
    BY <1>2, <1>4, SwapLeavesGoals DEF MoneyInv
  <1>11. \A m : Marks(between, m) = Marks(ledger, m)
    BY <1>2, <1>4, <1>7, SwapMarks
  <1> HIDE DEF between
  <1>12. OneMore(between, refund, ledger')
    BY <1>6 DEF OneMore
  <1>13. refund \notin between /\ \A m \in Requests \ {n} : Marks(ledger', m) = Marks(ledger, m)
    BY <1>3, <1>5, <1>11, <1>12, PostMarks
  <1>14. wallet' = [wallet EXCEPT ![refund.employee] = @ + Effect(refund)]
    BY <1>1, <1>5, <1>7
  <1>15. TypedRows(ledger') /\ Explains(ledger', wallet')
    BY <1>5, <1>9, <1>12, <1>13, <1>14, PostRow
  <1>16. GoalsExplained(ledger', goal)
    BY <1>5, <1>10, <1>12, PostLeaves
  <1>17. RequestsTell'
    BY <1>0, <1>3, <1>13, EndingTells DEF WalletInv, RequestsInv, MoneyInv
  <1> QED BY <1>15, <1>16, <1>17 DEF MoneyInv, RequestsTell

LEMMA RemittanceMoney ==
  ASSUME WalletInv, MoneyInv,
         RemittanceNext \/ (RemittanceFrame /\ \E n \in Requests : RailAnswerIsLost(n))
  PROVE  MoneyInv'
  <1>1. UNCHANGED goal
    BY DEF RemittanceNext, RemittanceFrame
  <1>2. CASE RemittanceArrives
    BY <1>1, <1>2, RemittanceArrivesMoney DEF WalletInv, RequestsInv
  <1>3. CASE \/ \E q \in Quotes : LockQuote(q) \/ QuoteExpires(q)
             \/ \E t \in Requests, verdict \in {"succeeded", "failed"} : RailDecides(t, verdict)
    <2>1. UNCHANGED <<ledger, wallet, request>>
      BY <1>3 DEF LockQuote, QuoteExpires, RailDecides, sharedVars, walletVars, handlerVars
    <2> QED BY <1>1, <2>1 DEF MoneyInv, RequestsTell
  <1>4. ASSUME NEW n \in Requests, RemittanceSteps(n) \/ RailAnswerIsLost(n) PROVE MoneyInv'
    <2>1. CASE CommitSend(n) \/ CommitRefund(n)
      BY <1>1, <2>1, CommitSendMoney, CommitRefundMoney
    <2>2. CASE ~(CommitSend(n) \/ CommitRefund(n))
      <3>1. UNCHANGED <<ledger, wallet>>
        BY <1>4, <2>2 DEF RemittanceSteps, ReadQuote, DropQuote, CheckSend, CallRail, RailRefuses, Refused, walletVars,
                          FindRemittance, LookForRefund, RefundConflicts, RailAnswerIsLost
      <3>2. n \in Busy /\ request[n].op \in RemittanceOps /\ \E at : at # "not yet" /\ GoesTo(n, at)
        BY <1>4, RemittanceStepGoes DEF WalletInv, RequestsInv
      <3>3. RequestsTell'
        BY <3>1, <3>2, SilentTells DEF WalletInv, RequestsInv, MoneyInv, RemittanceOps
      <3> QED BY <1>1, <3>1, <3>3, QuietMoney
    <2> QED BY <2>1, <2>2
  <1> QED BY <1>2, <1>3, <1>4 DEF RemittanceNext


(***************************************************************************)
(* Cards                                                                   *)
(***************************************************************************)
TotalsAreWhole(rows) == IsFiniteSet(rows) /\ \A row \in rows : Total(row) \in Int
TotalsOf(rows) == [row \in rows |-> Total(row)]

LEMMA TotalSum ==
  ASSUME NEW S, TotalsAreWhole(S)
  PROVE  SumOf(Total, S) = SumFunctionOnSet(TotalsOf(S), S)
  <1> DEFINE w == TotalsOf(S)
             step(f) == [s \in SUBSET S |-> IF s = {} THEN 0 ELSE Total(Any(s)) + f[s \ {Any(s)}]]
             fold == CHOOSE f : f = step(f)
  <1>1. IsFiniteSet(S) /\ w \in [S -> Int] /\ \A x \in S : w[x] = Total(x)
    BY DEF TotalsAreWhole, TotalsOf
  <1>2. PICK f \in [SUBSET S -> Int] : Folds(f, w, S) /\ SumFunctionOnSet(w, S) = f[S]
    BY <1>1, SumIsFold
  <1>3. f = step(f)
    <2>1. \A s \in SUBSET S : s # {} => w[Any(s)] = Total(Any(s))
      BY <1>1, AnyIn
    <2> HIDE DEF w
    <2> QED BY <1>2, <2>1 DEF Folds
  <1>4. fold = step(fold)
    BY <1>3
  <1>5. Folds(fold, w, S)
    <2>1. \A s \in SUBSET S : s # {} => w[Any(s)] = Total(Any(s))
      BY <1>1, AnyIn
    <2> HIDE DEF w, fold
    <2> QED BY <1>4, <2>1 DEF Folds
  <1>6. \A s \in SUBSET S : fold[s] = f[s]
    <2> HIDE DEF w, fold
    <2> QED BY <1>1, <1>2, <1>5, FoldsAgree
  <1>7. SumOf(Total, S) = fold[S]
    BY DEF SumOf, MapThenSumSet, MapThenFoldSet, Any
  <1> HIDE DEF fold
  <1> QED BY <1>2, <1>6, <1>7

LEMMA TotalType == ASSUME NEW S, TotalsAreWhole(S) PROVE SumOf(Total, S) \in Int
  <1>1. IsFiniteSet(S) /\ TotalsOf(S) \in [S -> Int]
    BY DEF TotalsAreWhole, TotalsOf
  <1> QED BY <1>1, TotalSum, SumType

LEMMA AwardIsWhole ==
  ASSUME TypedRows(ledger), NEW potential \in Int, NEW d
  PROVE  /\ SumOf(Total, CashbackRows(d)) \in Int
         /\ Award(potential, SumOf(Total, CashbackRows(d))) \in Int
  <1>1. TotalsAreWhole(CashbackRows(d))
    BY FS_Subset DEF TypedRows, TypedRow, TotalsAreWhole, Total, CashbackRows
  <1>2. PICK earned : earned = SumOf(Total, CashbackRows(d)) /\ earned \in Int
    BY <1>1, TotalType
  <1>3. Award(potential, earned) \in Int
    BY <1>2, CardIsHeld, MinOfTwo DEF Award
  <1> QED BY <1>2, <1>3

LEMMA CardArrivesMoney ==
  ASSUME HandlerInv, MoneyInv, UNCHANGED goal,
         ControlArrives \/ StatusEvent \/ Manage("tokenize") \/ EventArrives \/ OrderCard
  PROVE  MoneyInv'
  <1>1. CASE ControlArrives \/ StatusEvent \/ Manage("tokenize")
    <2>1. Enters(Managing \cup {"status"}) /\ UNCHANGED <<wallet, ledger>>
      BY <1>1 DEF Enters, ControlArrives, Manage, StatusEvent, IsRequest, NotYet, Managing, walletVars
    <2>2. RequestsTell'
      BY <2>1, Entering, OthersTell DEF MoneyInv, Managing
    <2> QED BY <2>1, <2>2, QuietMoney
  <1>2. CASE OrderCard
    <2> DEFINE r == [op |-> "order", at |-> "checks"]
    <2>1. IsRequest(r) /\ r # NotYet /\ r.op = "order"
      BY DEF IsRequest, NotYet
    <2>2. Arrives(r) /\ UNCHANGED <<wallet, ledger>>
      BY <1>2 DEF OrderCard, walletVars
    <2> HIDE DEF r
    <2>3. RequestsTell'
      BY <2>1, <2>2, ArrivalTells DEF MoneyInv, Tells
    <2> QED BY <2>2, <2>3, QuietMoney
  <1>3. CASE EventArrives
    <2>1. PICK e \in Events : TransactionEvent(e)
      BY <1>3 DEF EventArrives
    <2> DEFINE r == [op |-> "event", at |-> "finds card", event |-> e, spent |-> 0, day |-> 0, earned |-> 0]
    <2>2. IsRequest(r) /\ r # NotYet /\ r.op = "event" /\ TellsEvent(r, {})
      BY DEF IsRequest, NotYet, TellsEvent
    <2>3. Arrives(r) /\ UNCHANGED <<wallet, ledger>>
      BY <2>1 DEF TransactionEvent, walletVars
    <2> HIDE DEF r
    <2>4. RequestsTell'
      BY <2>2, <2>3, ArrivalTells DEF MoneyInv, Tells
    <2> QED BY <2>3, <2>4, QuietMoney
  <1> QED BY <1>1, <1>2, <1>3

LEMMA ManageMoney ==
  ASSUME WalletInv, MoneyInv, UNCHANGED goal, NEW n \in Requests,
         \/ ReadCard(n) \/ AskIssuer(n) \/ IssuerRefuses(n) \/ WriteCard(n)
         \/ ReadStatusEvent(n) \/ WriteStatusEvent(n)
  PROVE  MoneyInv'
  <1>1. UNCHANGED <<wallet, ledger>>
    BY DEF ReadCard, AskIssuer, IssuerRefuses, WriteCard, ReadStatusEvent, WriteStatusEvent, Refused, walletVars
  <1>2. n \in Busy /\ request[n].op \in Managing \cup {"status"}
    BY DEF ReadCard, AskIssuer, IssuerRefuses, WriteCard, ReadStatusEvent, WriteStatusEvent, Manages, Is, Busy, Ended
  <1>3. Proceeds(n)
    BY DEF ReadCard, AskIssuer, IssuerRefuses, WriteCard, ReadStatusEvent, WriteStatusEvent, Refused, Proceeds
  <1>4. RequestsTell'
    <2>1. HandlerStep(Managing \cup {"status"})
      BY <1>2, <1>3, Proceeding DEF WalletInv, RequestsInv
    <2> QED BY <1>1, <2>1, OthersTell DEF MoneyInv, Managing
  <1> QED BY <1>1, <1>4, QuietMoney

LEMMA OrderMoney ==
  ASSUME WalletInv, MoneyInv, UNCHANGED goal, NEW n \in Requests,
         CheckOrder(n) \/ IssuePlastic(n) \/ OrderConflicts(n)
  PROVE  MoneyInv'
  <1>1. UNCHANGED <<wallet, ledger>>
    BY DEF CheckOrder, IssuePlastic, OrderConflicts, Refused, walletVars
  <1>2. n \in Busy /\ request[n].op = "order"
    BY DEF CheckOrder, IssuePlastic, OrderConflicts, Is, Busy, Ended
  <1>3. \E at : at # "not yet" /\ GoesTo(n, at)
    BY DEF CheckOrder, IssuePlastic, OrderConflicts, Refused
  <1>4. RequestsTell'
    BY <1>1, <1>2, <1>3, SilentTells DEF WalletInv, RequestsInv, MoneyInv
  <1> QED BY <1>1, <1>4, QuietMoney

LEMMA CommitOrderMoney ==
  ASSUME WalletInv, MoneyInv, UNCHANGED goal, NEW n \in Requests, CommitOrder(n)
  PROVE  MoneyInv'
  <1> DEFINE x == Row(n, Holder, "FEE", CardFee, NoKey, <<"order", n>>, "")
  <1>1. ledger' = ledger \cup {x} /\ GoesTo(n, "done") /\ wallet' = [wallet EXCEPT ![Holder] = @ - CardFee]
    BY DEF CommitOrder, Posts
  <1>2. n \in Busy /\ Marks(ledger, n) = {}
    <2>1. n \in Busy /\ request[n].op = "order" /\ request[n].at \notin Ended
      BY DEF CommitOrder, Is, Busy, Ended
    <2> QED BY <2>1 DEF MoneyInv, RequestsTell, Tells
  <1>3. TypedRow(x) /\ x.by = n /\ x.employee = Holder /\ x.type = "FEE" /\ x.total = CardFee
    BY CardIsHeld DEF Row, TypedRow, AllFields, RowFields, Types
  <1> HIDE DEF x
  <1>4. Effect(x) = -CardFee /\ CardFee \in Int /\ Holder \in Employees
    BY <1>3, CardIsHeld DEF Effect
  <1>5. wallet' = [wallet EXCEPT ![x.employee] = @ + Effect(x)]
    <2>1. wallet \in [Employees -> Int]
      BY DEF MoneyInv, Explains
    <2> QED BY <1>1, <1>3, <1>4, <2>1
  <1>6. OneMore(ledger, x, ledger')
    BY <1>1 DEF OneMore
  <1>7. x \notin ledger /\ \A m \in Requests \ {n} : Marks(ledger', m) = Marks(ledger, m)
    BY <1>2, <1>3, <1>6, PostMarks
  <1>8. TypedRows(ledger') /\ Explains(ledger', wallet')
    BY <1>3, <1>5, <1>6, <1>7, PostRow DEF MoneyInv
  <1>9. GoalsExplained(ledger', goal)
    BY <1>3, <1>6, PostLeaves DEF MoneyInv
  <1>10. RequestsTell'
    BY <1>1, <1>2, <1>7, EndingTells DEF WalletInv, RequestsInv, MoneyInv
  <1> QED BY <1>8, <1>9, <1>10 DEF MoneyInv, RequestsTell

LEMMA EventAt ==
  ASSUME RequestsTell, NEW n \in Requests, NEW at, at \notin Ended, Is(n, "event", at)
  PROVE  /\ TellsEvent(request[n], Marks(ledger, n)) /\ request[n].at = at /\ request[n].op = "event"
         /\ n \in Busy
  BY IsBusy DEF RequestsTell, Tells, Busy, Is

(* The event goes on as s. *)
LEMMA EventBecomes ==
  ASSUME WalletInv, MoneyInv, UNCHANGED <<wallet, ledger, goal>>, NEW n \in Requests,
         NEW s, s # NotYet, s.op = "event", TellsEvent(s, Marks(ledger, n)), Becomes(n, s)
  PROVE  MoneyInv'
  <1>1. request'[n] = s /\ \A m \in Requests \ {n} : request'[m] = request[m]
    BY DEF Becomes, WalletInv, RequestsInv, HandlerInv, RequestShape
  <1>2. RequestsTell'
    BY <1>1, OneTells DEF Tells, MoneyInv
  <1> QED BY <1>2, QuietMoney

LEMMA ProductIsWhole == \A c, d \in Nat : c * d \in Int
  OBVIOUS

LEMMA ReadEventMoney ==
  ASSUME WalletInv, MoneyInv, UNCHANGED goal, NEW n \in Requests,
         ReadEventCard(n) \/ CheckEvent(n) \/ SumCashback(n)
  PROVE  MoneyInv'
  <1> DEFINE r == request[n]
  <1>1. UNCHANGED <<wallet, ledger>>
    BY DEF ReadEventCard, CheckEvent, SumCashback, walletVars
  <1>2. PICK from \in {"finds card", "replay check", "cashback"} : Is(n, "event", from)
    BY DEF ReadEventCard, CheckEvent, SumCashback
  <1>3. /\ TellsEvent(r, Marks(ledger, n)) /\ r.at = from /\ r.op = "event" /\ n \in Busy
        /\ {"at", "op", "event", "spent", "day", "earned"} \subseteq DOMAIN r
    <2>1. TellsEvent(r, Marks(ledger, n)) /\ r.at = from /\ r.op = "event" /\ n \in Busy
      BY <1>2, EventAt DEF MoneyInv, Ended
    <2> QED BY <2>1, InProgress DEF TellsEvent, WalletInv, RequestsInv
  <1>4. CASE GoesTo(n, "done")
    <2>1. RequestsTell'
      BY <1>1, <1>3, <1>4, EndingTells DEF WalletInv, RequestsInv, MoneyInv
    <2> QED BY <1>1, <2>1, QuietMoney
  <1>5. CASE ReadEventCard(n) \/ (CheckEvent(n) /\ ~GoesTo(n, "done"))
    <2>1. ASSUME ReadEventCard(n) PROVE MoneyInv'
      <3> DEFINE s == [r EXCEPT !.at = "replay check", !.spent = card.spent, !.day = card.day]
      <3>1. Becomes(n, s) /\ from # "cashback"
        BY <1>2, <2>1 DEF ReadEventCard, Is
      <3>2. DOMAIN s = DOMAIN r /\ s.at = "replay check" /\ s.op = "event" /\ s.event = r.event /\ s # NotYet
        BY <1>3 DEF NotYet
      <3> HIDE DEF s
      <3>3. TellsEvent(s, Marks(ledger, n))
        BY <1>3, <3>1, <3>2 DEF TellsEvent
      <3> QED BY <1>1, <3>1, <3>2, <3>3, EventBecomes
    <2>2. ASSUME CheckEvent(n), ~GoesTo(n, "done") PROVE MoneyInv'
      <3> DEFINE s == [r EXCEPT !.at = "writes", !.day = today, !.spent = NextSpent(r.day, r.spent, r.event)]
      <3>1. Becomes(n, s) /\ from # "cashback"
        BY <1>2, <2>2 DEF CheckEvent, Is
      <3>2. DOMAIN s = DOMAIN r /\ s.at = "writes" /\ s.op = "event" /\ s.event = r.event /\ s # NotYet
        BY <1>3 DEF NotYet
      <3> HIDE DEF s
      <3>3. TellsEvent(s, Marks(ledger, n))
        BY <1>3, <3>1, <3>2 DEF TellsEvent
      <3> QED BY <1>1, <3>1, <3>2, <3>3, EventBecomes
    <2> QED BY <1>5, <2>1, <2>2
  <1>6. CASE SumCashback(n) /\ ~GoesTo(n, "done")
    <2> DEFINE award == Award(CashbackRate * r.event.amount, SumOf(Total, CashbackRows(today)))
    <2>1. Becomes(n, [r EXCEPT !.at = "awards", !.earned = award])
      BY <1>6 DEF SumCashback
    <2>2. award \in Int
      <3>1. CashbackRate * r.event.amount \in Int
        <4>1. PICK a \in Nat : a = r.event.amount
          BY <1>3, EventsAreWhole DEF TellsEvent
        <4>2. PICK b \in Nat : b = CashbackRate
          BY CardIsHeld
        <4> QED BY <4>1, <4>2, ProductIsWhole
      <3> QED BY <3>1, AwardIsWhole DEF MoneyInv
    <2> HIDE DEF award
    <2> DEFINE s == [r EXCEPT !.at = "awards", !.earned = award]
    <2>3. /\ DOMAIN s = DOMAIN r /\ s.at = "awards" /\ s.op = "event" /\ s.event = r.event /\ s.earned = award
          /\ s # NotYet
      BY <1>3 DEF NotYet
    <2>4. Becomes(n, s)
      BY <2>1
    <2> HIDE DEF s
    <2>5. TellsEvent(s, Marks(ledger, n))
      BY <1>3, <2>2, <2>3 DEF TellsEvent
    <2> QED BY <1>1, <2>3, <2>4, <2>5, EventBecomes
  <1> QED BY <1>4, <1>5, <1>6

LEMMA CommitEventMoney ==
  ASSUME WalletInv, MoneyInv, UNCHANGED goal, NEW n \in Requests, CommitEvent(n)
  PROVE  MoneyInv'
  <1> DEFINE r == request[n]
             type == IF r.event.type = "refunded" THEN "REFUND" ELSE "CARD_PURCHASE"
             x == Row(n, Holder, type, Moves(r.event), EventKey(r.event), NoKey, "card")
  <1>1. /\ ledger' = ledger \cup {x} /\ wallet' = [wallet EXCEPT ![Holder] = @ + Moves(r.event)]
        /\ \E at \in {"done", "cashback"} : GoesTo(n, at)
    BY DEF CommitEvent, Posts
  <1>2. /\ TellsEvent(r, Marks(ledger, n)) /\ r.at = "writes" /\ r.op = "event" /\ n \in Busy
        /\ r.event \in Events /\ Marks(ledger, n) = {}
    BY EventAt DEF CommitEvent, MoneyInv, Ended, TellsEvent
  <1>3. Moves(r.event) \in Int /\ Holder \in Employees
    BY <1>2, EventsAreWhole, CardIsHeld DEF Moves
  <1>4. /\ TypedRow(x) /\ x.by = n /\ x.employee = Holder /\ x.type \in {"REFUND", "CARD_PURCHASE"}
        /\ x.total = Moves(r.event) /\ x.ref = NoKey
    BY <1>2, <1>3 DEF Row, TypedRow, AllFields, RowFields, Types
  <1> HIDE DEF x
  <1>5. Effect(x) = Moves(r.event) /\ Mark(x) # <<"CASHBACK", NoKey>>
    BY <1>4 DEF Effect, Mark
  <1>6. wallet' = [wallet EXCEPT ![x.employee] = @ + Effect(x)]
    BY <1>1, <1>4, <1>5
  <1>7. OneMore(ledger, x, ledger')
    BY <1>1 DEF OneMore
  <1>8. /\ x \notin ledger /\ Marks(ledger', n) = {Mark(x)}
        /\ \A m \in Requests \ {n} : Marks(ledger', m) = Marks(ledger, m)
    BY <1>2, <1>4, <1>7, PostMarks
  <1>9. TypedRows(ledger') /\ Explains(ledger', wallet')
    BY <1>4, <1>6, <1>7, <1>8, PostRow DEF MoneyInv
  <1>10. GoalsExplained(ledger', goal)
    BY <1>4, <1>7, PostLeaves DEF MoneyInv
  <1>11. RequestsTell'
    <2>1. CASE GoesTo(n, "done")
      BY <1>2, <1>8, <2>1, EndingTells DEF WalletInv, RequestsInv, MoneyInv
    <2>2. CASE GoesTo(n, "cashback")
      <3>1. /\ request'[n] # NotYet /\ request'[n].op = "event" /\ request'[n].at = "cashback"
            /\ \A m \in Requests \ {n} : request'[m] = request[m]
            /\ DOMAIN request'[n] = DOMAIN r
            /\ \A f \in DOMAIN r \ {"at"} : request'[n][f] = r[f]
        BY <1>2, <2>2, GoingOn DEF WalletInv, RequestsInv, Ended
      <3>2. /\ {"event", "spent", "day", "earned"} \subseteq DOMAIN request'[n]
            /\ request'[n].event = r.event
        BY <1>2, <3>1 DEF TellsEvent
      <3>3. TellsEvent(request'[n], Marks(ledger', n))
        BY <1>2, <1>5, <1>8, <3>1, <3>2 DEF TellsEvent
      <3> QED BY <1>8, <3>1, <3>3, OneTells DEF Tells, MoneyInv
    <2> QED BY <1>1, <2>1, <2>2
  <1> QED BY <1>9, <1>10, <1>11 DEF MoneyInv, RequestsTell

LEMMA PayCashbackMoney ==
  ASSUME WalletInv, MoneyInv, UNCHANGED goal, NEW n \in Requests, PayCashback(n)
  PROVE  MoneyInv'
  <1> DEFINE award == request[n].earned
             x == Row(n, Holder, "CASHBACK", award, NoKey, NoKey, "")
  <1>1. ledger' = ledger \cup {x} /\ GoesTo(n, "done") /\ wallet' = [wallet EXCEPT ![Holder] = @ + award]
    BY DEF PayCashback, Posts
  <1>2. n \in Busy /\ award \in Int /\ <<"CASHBACK", NoKey>> \notin Marks(ledger, n)
    BY EventAt DEF PayCashback, MoneyInv, Ended, TellsEvent
  <1>3. TypedRow(x) /\ x.by = n /\ x.employee = Holder /\ x.type = "CASHBACK" /\ x.total = award /\ x.ref = NoKey
    BY <1>2, CardIsHeld DEF Row, TypedRow, AllFields, RowFields, Types
  <1> HIDE DEF x
  <1>4. Effect(x) = award /\ Mark(x) = <<"CASHBACK", NoKey>>
    BY <1>3 DEF Effect, Mark
  <1>5. wallet' = [wallet EXCEPT ![x.employee] = @ + Effect(x)]
    BY <1>1, <1>3, <1>4
  <1>6. OneMore(ledger, x, ledger')
    BY <1>1 DEF OneMore
  <1>7. x \notin ledger /\ \A m \in Requests \ {n} : Marks(ledger', m) = Marks(ledger, m)
    BY <1>2, <1>3, <1>4, <1>6, PostMarks
  <1>8. TypedRows(ledger') /\ Explains(ledger', wallet')
    BY <1>3, <1>5, <1>6, <1>7, PostRow DEF MoneyInv
  <1>9. GoalsExplained(ledger', goal)
    BY <1>3, <1>6, PostLeaves DEF MoneyInv
  <1>10. RequestsTell'
    BY <1>1, <1>2, <1>7, EndingTells DEF WalletInv, RequestsInv, MoneyInv
  <1> QED BY <1>8, <1>9, <1>10 DEF MoneyInv, RequestsTell

LEMMA CardMoney == ASSUME WalletInv, MoneyInv, CardNext PROVE MoneyInv'
  <1>1. UNCHANGED goal
    BY DEF CardNext, CardFrame
  <1>2. CASE ControlArrives \/ StatusEvent \/ Manage("tokenize") \/ EventArrives \/ OrderCard
    BY <1>1, <1>2, CardArrivesMoney DEF WalletInv, RequestsInv
  <1>3. CASE IssuerExpires
    BY <1>1, <1>3 DEF IssuerExpires, sharedVars, walletVars, handlerVars, MoneyInv, RequestsTell
  <1>4. ASSUME NEW n \in Requests, CardSteps(n) PROVE MoneyInv'
    <2>1. CASE EventConflicts(n)
      <3>1. n \in Busy /\ GoesTo(n, "refused") /\ UNCHANGED <<wallet, ledger>>
        BY <2>1 DEF EventConflicts, Is, Busy, Ended, Refused, walletVars
      <3>2. RequestsTell'
        BY <3>1, EndingTells DEF WalletInv, RequestsInv, MoneyInv
      <3> QED BY <1>1, <3>1, <3>2, QuietMoney
    <2> QED BY <1>1, <1>4, <2>1, ManageMoney, OrderMoney, CommitOrderMoney, ReadEventMoney, CommitEventMoney,
               PayCashbackMoney DEF CardSteps
  <1> QED BY <1>2, <1>3, <1>4 DEF CardNext

(***************************************************************************)
(* The other services, faults and the theorem                              *)
(***************************************************************************)
LEMMA OtherMoney ==
  ASSUME WalletInv, MoneyInv, AuthorizeNext \/ LoanNext \/ PhoneNext \/ KeyedNext
  PROVE  MoneyInv'
  <1>1. UNCHANGED <<wallet, goal>>
    <2>1. CASE AuthorizeNext
      BY <2>1 DEF AuthorizeNext, Authorization, VelocityExpires, AuthorizeSteps, ReadVelocity, CheckBalance, TimesOut,
                  ReadCount, WriteCount, Answers, Scores, CountsOn, walletVars, sharedVars, AuthorizeFrame
    <2>2. CASE LoanNext
      BY <2>2 DEF LoanNext, RequestAdvance, BatchUpdate, LenderReport, ScoreAges, LenderDecides, LoanSteps, ReadScore,
                  CollectFactors, StoreScore, CallLender, CreateLoan, FindLoan, WriteLoan, walletVars, sharedVars,
                  LoanFrame
    <2>3. CASE PhoneNext
      BY <2>3 DEF PhoneNext, PhoneStarts, Call, SignOut, SignIn, Starts, PhoneSteps, Attach, Answered, IsRejected,
                  Unauthorized, ReadRefresh, Refresh, Keep, Store, Clear, NeedsCode, EnterCode, CancelCode, walletVars,
                  PhoneFrame
    <2>4. CASE KeyedNext
      BY <2>4 DEF KeyedNext, KeyedArrives, KeyedCall, StoreAnswer, KeyedSteps, LookUpKey, Replay, Authenticate,
                  CheckStepCode, Run, RunFails, AnswerRun, Refuses, Stores, KeyedTo, walletVars, sharedVars, KeyedFrame
    <2> QED BY <2>1, <2>2, <2>3, <2>4
  <1>2. UNCHANGED ledger
    BY OtherRows
  <1>3. PICK ops \in {{"authorize"}, LoanOps, PhoneOps, {"keyed"}} : HandlerStep(ops)
    BY AuthorizeRequests, LoanRequests, PhoneRequests, KeyedRequests DEF WalletInv, RequestsInv
  <1>4. RequestsTell'
    BY <1>2, <1>3, OthersTell DEF LoanOps, PhoneOps, MoneyInv
  <1> QED BY <1>1, <1>2, <1>4, QuietMoney

LEMMA FaultMoney == ASSUME WalletInv, MoneyInv, Fault PROVE MoneyInv'
  <1>1. PICK n \in Requests :
          \/ Dies(n)
          \/ TransferIsLost(n) /\ TransferFrame
          \/ RailAnswerIsLost(n) /\ RemittanceFrame
          \/ AppIsKilled /\ PhoneFrame
          \/ OtherFault(n)
    BY DEF Fault, OtherFault
  <1>2. CASE Dies(n)
    <2>1. n \in Busy /\ GoesTo(n, "died") /\ UNCHANGED <<wallet, ledger, goal>>
      BY <1>2 DEF Dies, walletVars, planeVars
    <2>2. RequestsTell'
      BY <2>1, EndingTells DEF WalletInv, RequestsInv, MoneyInv
    <2> QED BY <2>1, <2>2, QuietMoney
  <1>3. CASE AppIsKilled /\ PhoneFrame
    <2>1. HandlerStep(PhoneOps) /\ UNCHANGED <<wallet, ledger, goal>>
      BY <1>3, KillRequests DEF AppIsKilled, PhoneFrame, walletVars, WalletInv, RequestsInv
    <2>2. RequestsTell'
      BY <2>1, OthersTell DEF PhoneOps, MoneyInv
    <2> QED BY <2>1, <2>2, QuietMoney
  <1>4. CASE OtherFault(n)
    <2>1. UNCHANGED <<wallet, ledger, goal>>
      BY <1>4 DEF OtherFault, RedisFails, Scores, CountsOn, Answers, AuthorizeFrame, LenderAnswerIsLost, LoanFrame,
                  KeyIsNotRead, KeyedTo, AnswerIsNotStored, KeyedFrame, walletVars, sharedVars
    <2>2. RequestsTell'
      BY <1>4, <2>1, OtherFaultRequests, OthersTell DEF WalletInv, RequestsInv, MoneyInv
    <2> QED BY <2>1, <2>2, QuietMoney
  <1> QED BY <1>1, <1>2, <1>3, <1>4, TransferMoney, RemittanceMoney

LEMMA MoneyStarts == Init => MoneyInv
  <1> SUFFICES ASSUME Init PROVE MoneyInv
    OBVIOUS
  <1>1. ledger = {} /\ wallet = Opening /\ goal = [g \in Goals |-> [status |-> "none", saved |-> 0]]
        /\ \A n \in Requests : request[n] = NotYet
    BY DEF Init, InitShared, InitSavings, InitHandlers
  <1>2. TypedRows(ledger)
    BY <1>1, FS_EmptySet DEF TypedRows
  <1>3. \A e : OfEmployee(ledger, e) = {} /\ OfGoal(ledger, e) = {} /\ Marks(ledger, e) = {}
    BY <1>1 DEF OfEmployee, OfGoal, Marks
  <1>4. Explains(ledger, wallet)
    <2> SUFFICES ASSUME NEW e \in Employees PROVE wallet[e] = Opening[e] + Moved(OfEmployee(ledger, e))
      BY <1>1, OpeningIsNatural DEF Explains
    <2>1. OfEmployee(ledger, e) = {}
      BY <1>3
    <2>2. Moved(OfEmployee(ledger, e)) = 0
      BY <2>1, MovedByNone
    <2>3. Opening[e] \in Int
      BY OpeningIsNatural
    <2>4. wallet[e] = Opening[e]
      BY <1>1
    <2> QED BY <2>2, <2>3, <2>4
  <1>5. GoalsExplained(ledger, goal)
    BY <1>1, <1>3, MovedByNone DEF GoalsExplained
  <1>6. RequestsTell
    BY <1>1, <1>3, NotYetEnded DEF RequestsTell, Tells
  <1> QED BY <1>2, <1>4, <1>5, <1>6 DEF MoneyInv

LEMMA MoneyGoesOn == WalletInv /\ MoneyInv /\ [Next]_vars => MoneyInv'
  <1> SUFFICES ASSUME WalletInv, MoneyInv, [Next]_vars PROVE MoneyInv'
    OBVIOUS
  <1>1. CASE Passes
    BY <1>1 DEF Passes, NextDay, planeVars, handlerVars, MoneyInv, RequestsTell
  <1>2. CASE UNCHANGED vars
    BY <1>2 DEF vars, sharedVars, walletVars, handlerVars, planeVars, MoneyInv, RequestsTell
  <1> QED BY <1>1, <1>2, TransferMoney, SavingsMoney, RemittanceMoney, CardMoney, OtherMoney, FaultMoney DEF Next

(* What the rows are, and that they tell of every movement.                *)
THEOREM MoneyHolds == Spec => []MoneyInv
  <1>1. WalletInv /\ MoneyInv /\ [Next]_vars => WalletInv' /\ MoneyInv'
    BY WalletGoesOn, MoneyGoesOn
  <1> QED BY <1>1, WalletStarts, MoneyStarts, PTL DEF Spec

(* A balance is what it opened with and what its employee's rows say       *)
(* happened to it, and a goal holds what its rows moved into it, for any   *)
(* number of requests of any services in any interleaving.                 *)
THEOREM LedgerExplainsBalancesHolds == Spec => []LedgerExplainsBalances
  <1>1. MoneyInv => LedgerExplainsBalances
    BY DEF MoneyInv, Explains, GoalsExplained, LedgerExplainsBalances, RowsOf, OfEmployee, OfGoal, SavedInto, Moved
  <1> QED BY <1>1, MoneyHolds, PTL

(***************************************************************************)
(* Funds.  What an employee has left is the balance before card purchases, *)
(* which nobody checks here.  A request that has checked it is covered: it *)
(* is still there, or another request, which was in progress with this     *)
(* one, has taken from it.                                                 *)
(***************************************************************************)
Rest(rows, e) == {row \in rows : row.employee = e /\ row.type # "CARD_PURCHASE"}
Purchases(rows, e) == {row \in rows : row.employee = e /\ row.type = "CARD_PURCHASE"}
LeftOf(rows, e) == Opening[e] + Moved(Rest(rows, e))
Held(rows, g) == -Moved(OfGoal(rows, g))

Debits(rows, e) == {row \in rows : row.employee = e /\ Effect(row) < 0 /\ row.type # "CARD_PURCHASE"}
Takes(rows, g) == {row \in rows : row.ref = <<"goal", g>> /\ row.note = "withdrawal"}
MetIn(rows, n, M) == \E row \in rows : row.by # n /\ {row.by, n} \in M
Clash(rows, M) == \E r, s \in rows : r.by # s.by /\ {r.by, s.by} \in M

Covered(rows, e, n, a, M) ==
  e \in Employees /\ a \in Int /\ (LeftOf(rows, e) >= a \/ MetIn(Debits(rows, e), n, M))
Stored(rows, g, n, a, M) == a \in Int /\ (Held(rows, g) >= a \/ MetIn(Takes(rows, g), n, M))

(* Rows as they come: a remittance is written as a positive number, and    *)
(* only a withdrawal takes from a goal.                                    *)
Signed(x) ==
  /\ x.type = "REMITTANCE" => x.total >= 0
  /\ x.type = "CARD_PURCHASE" => Effect(x) <= 0
  /\ x.type = "SAVINGS_TRANSFER" /\ Effect(x) > 0 => x.note = "withdrawal"

Sound(rows, M) ==
  /\ \A x \in rows : Signed(x)
  /\ \A e \in Employees : Moved(Purchases(rows, e)) <= 0
  /\ \A e \in Employees : LeftOf(rows, e) < 0 => Clash(Debits(rows, e), M)
  /\ \A g \in Goals : Held(rows, g) < 0 => Clash(Takes(rows, g), M)

(* What a request needs to be true of the rows when it writes. *)
Needs(r, n, rows, M) ==
  /\ r.op = "transfer" /\ r.at = "writes" => Covered(rows, r.from, n, r.amount + FeeOf(r.from), M)
  /\ r.op = "deposit" /\ r.at = "writes" => Covered(rows, r.who, n, r.amount, M)
  /\ r.op = "withdraw" /\ r.at = "writes" => Stored(rows, r.goal, n, r.amount, M)
  /\ r.op = "send" /\ r.at \in {"calls rail", "debits"} => Covered(rows, r.who, n, Price, M)
  /\ r.op = "order" /\ r.at \in {"calls issuer", "writes"} => Covered(rows, Holder, n, CardFee, M)
  /\ r.op = "event" /\ r.at = "awards" => r.earned \in Int /\ r.earned >= 0

FundsInv == Sound(ledger, met) /\ \A n \in Requests : Needs(request[n], n, ledger, met)

LEMMA LeftIsWhole ==
  ASSUME NEW rows, TypedRows(rows), NEW e \in Employees
  PROVE  LeftOf(rows, e) \in Int /\ Moved(Rest(rows, e)) \in Int /\ Moved(Purchases(rows, e)) \in Int
  <1>1. Rest(rows, e) \in SUBSET rows /\ Purchases(rows, e) \in SUBSET rows
    BY DEF Rest, Purchases
  <1>2. Moved(Rest(rows, e)) \in Int /\ Moved(Purchases(rows, e)) \in Int
    BY <1>1, TypedEffects, MovedType
  <1> QED BY <1>2, OpeningIsNatural DEF LeftOf

LEMMA HeldIsWhole ==
  ASSUME NEW rows, TypedRows(rows), NEW g PROVE Held(rows, g) \in Int
  BY OfGoalIsTyped DEF Held

(* Rows of an employee are purchases or the rest. *)
LEMMA MovedSplits ==
  ASSUME NEW rows, TypedRows(rows), NEW e \in Employees
  PROVE  Moved(OfEmployee(rows, e)) = Moved(Rest(rows, e)) + Moved(Purchases(rows, e))
  <1>1. PICK T : T = OfEmployee(rows, e)
    OBVIOUS
  <1>2. EffectsAreWhole(T) /\ T \in SUBSET rows
    <2>1. T \in SUBSET rows
      BY <1>1 DEF OfEmployee
    <2> QED BY <2>1, TypedEffects
  <1>3. PICK w \in [T -> Int] : w = EffectsOf(T)
    BY <1>2 DEF EffectsAreWhole, EffectsOf
  <1>4. ASSUME NEW S \in SUBSET T PROVE Moved(S) = SumOver(w, S)
    <2>1. EffectsAreWhole(S)
      BY <1>2, FS_Subset DEF EffectsAreWhole
    <2>2. [x \in S |-> w[x]] = EffectsOf(S)
      BY <1>3 DEF EffectsOf
    <2> QED BY <2>1, <2>2, EffectSum DEF Moved, SumOver
  <1>5. PICK A \in SUBSET T, B \in SUBSET T : A = Rest(rows, e) /\ B = Purchases(rows, e)
    BY <1>1 DEF Rest, Purchases, OfEmployee
  <1>6. Apart(A, B) /\ A \cup B = T
    BY <1>1, <1>5 DEF Apart, Rest, Purchases, OfEmployee
  <1>7. IsFiniteSet(T)
    BY <1>2 DEF EffectsAreWhole
  <1>8. SumOver(w, A \cup B) = SumOver(w, A) + SumOver(w, B)
    BY <1>6, <1>7, SumOverUnion
  <1>9. Moved(T) = SumOver(w, T) /\ Moved(A) = SumOver(w, A) /\ Moved(B) = SumOver(w, B)
    BY <1>4
  <1> QED BY <1>1, <1>5, <1>6, <1>8, <1>9

(* A new row counts where it is filed. *)
LEMMA LeftAdds ==
  ASSUME NEW rows, TypedRows(rows), NEW x, TypedRow(x), x \notin rows, NEW after, OneMore(rows, x, after),
         NEW e \in Employees
  PROVE  /\ Effect(x) \in Int
         /\ LeftOf(after, e) = IF x.employee = e /\ x.type # "CARD_PURCHASE"
                               THEN LeftOf(rows, e) + Effect(x) ELSE LeftOf(rows, e)
         /\ Moved(Purchases(after, e)) = IF x.employee = e /\ x.type = "CARD_PURCHASE"
                                           THEN Moved(Purchases(rows, e)) + Effect(x)
                                           ELSE Moved(Purchases(rows, e))
  <1>1. Effect(x) \in Int
    BY RowEffect
  <1>2. TypedRows(after)
    BY TypedAdds DEF OneMore
  <1>3. CASE x.employee = e /\ x.type # "CARD_PURCHASE"
    <2>1. /\ Rest(after, e) = Rest(rows, e) \cup {x} /\ x \notin Rest(rows, e)
          /\ Purchases(after, e) = Purchases(rows, e)
      BY <1>3 DEF Rest, Purchases, OneMore
    <2>2. EffectsAreWhole(Rest(rows, e) \cup {x})
      <3>1. Rest(after, e) \in SUBSET after
        BY DEF Rest
      <3> QED BY <1>2, <2>1, <3>1, TypedEffects
    <2>3. Moved(Rest(rows, e)) \in Int /\ Moved(Rest(after, e)) = Moved(Rest(rows, e)) + Effect(x)
      BY <2>1, <2>2, MovedAdds
    <2>4. Opening[e] \in Int
      BY OpeningIsNatural
    <2>5. LeftOf(after, e) = LeftOf(rows, e) + Effect(x)
      BY <1>1, <2>3, <2>4 DEF LeftOf
    <2> QED BY <1>1, <1>3, <2>1, <2>5
  <1>4. CASE x.employee = e /\ x.type = "CARD_PURCHASE"
    <2>1. /\ Purchases(after, e) = Purchases(rows, e) \cup {x} /\ x \notin Purchases(rows, e)
          /\ Rest(after, e) = Rest(rows, e)
      BY <1>4 DEF Rest, Purchases, OneMore
    <2>2. EffectsAreWhole(Purchases(rows, e) \cup {x})
      <3>1. Purchases(after, e) \in SUBSET after
        BY DEF Purchases
      <3> QED BY <1>2, <2>1, <3>1, TypedEffects
    <2>3. Moved(Purchases(after, e)) = Moved(Purchases(rows, e)) + Effect(x)
      BY <2>1, <2>2, MovedAdds
    <2> QED BY <1>1, <1>4, <2>1, <2>3 DEF LeftOf
  <1>5. CASE x.employee # e
    <2>1. Rest(after, e) = Rest(rows, e) /\ Purchases(after, e) = Purchases(rows, e)
      BY <1>5 DEF Rest, Purchases, OneMore
    <2> QED BY <1>1, <1>5, <2>1 DEF LeftOf
  <1> QED BY <1>3, <1>4, <1>5

LEMMA HeldAdds ==
  ASSUME NEW rows, TypedRows(rows), NEW x, TypedRow(x), x \notin rows, NEW after, OneMore(rows, x, after), NEW g
  PROVE  /\ Effect(x) \in Int
         /\ Held(after, g) = IF x.type = "SAVINGS_TRANSFER" /\ x.ref = <<"goal", g>>
                               THEN Held(rows, g) - Effect(x) ELSE Held(rows, g)
  <1>1. Effect(x) \in Int
    BY RowEffect
  <1>2. CASE x.type = "SAVINGS_TRANSFER" /\ x.ref = <<"goal", g>>
    <2>1. OfGoal(after, g) = OfGoal(rows, g) \cup {x} /\ x \notin OfGoal(rows, g)
      BY <1>2 DEF OfGoal, OneMore
    <2>2. EffectsAreWhole(OfGoal(rows, g) \cup {x})
      <3>1. TypedRows(after)
        BY TypedAdds DEF OneMore
      <3> QED BY <2>1, <3>1, OfGoalIsTyped
    <2>3. Moved(OfGoal(rows, g)) \in Int /\ Moved(OfGoal(after, g)) = Moved(OfGoal(rows, g)) + Effect(x)
      BY <2>1, <2>2, MovedAdds
    <2>4. \A a, b \in Int : (-a) - b = -(a + b)
      OBVIOUS
    <2> QED BY <1>1, <1>2, <2>3, <2>4 DEF Held
  <1>3. CASE ~(x.type = "SAVINGS_TRANSFER" /\ x.ref = <<"goal", g>>)
    <2>1. OfGoal(after, g) = OfGoal(rows, g)
      BY <1>3 DEF OfGoal, OneMore
    <2> QED BY <1>1, <1>3, <2>1 DEF Held
  <1> QED BY <1>2, <1>3

(* The row x may be written: what it takes is covered. *)
Pays(rows, x, M) ==
  /\ Signed(x)
  /\ Effect(x) < 0 /\ x.type # "CARD_PURCHASE" => Covered(rows, x.employee, x.by, -Effect(x), M)
  /\ \A g : x.type = "SAVINGS_TRANSFER" /\ x.ref = <<"goal", g>> /\ Effect(x) > 0 =>
       Stored(rows, g, x.by, Effect(x), M)

LEMMA PostSound ==
  ASSUME NEW rows, TypedRows(rows), NEW M, Sound(rows, M), NEW x, TypedRow(x), x \notin rows,
         NEW after, OneMore(rows, x, after), Pays(rows, x, M)
  PROVE  Sound(after, M)
  <1>1. \A y \in after : Signed(y)
    BY DEF OneMore, Sound, Pays
  <1>2. ASSUME NEW e \in Employees
        PROVE  /\ Moved(Purchases(after, e)) <= 0
               /\ LeftOf(after, e) < 0 => Clash(Debits(after, e), M)
    <2>1. LeftOf(rows, e) \in Int /\ Moved(Purchases(rows, e)) \in Int /\ Moved(Purchases(rows, e)) <= 0
      BY LeftIsWhole DEF Sound
    <2>2. Moved(Purchases(after, e)) <= 0
      <3>1. x.type = "CARD_PURCHASE" => Effect(x) <= 0
        BY DEF Pays, Signed
      <3> QED BY <2>1, <3>1, LeftAdds
    <2>3. Debits(rows, e) \subseteq Debits(after, e)
      BY DEF Debits, OneMore
    <2>4. CASE x.employee = e /\ x.type # "CARD_PURCHASE" /\ Effect(x) < 0
      <3>1. LeftOf(after, e) = LeftOf(rows, e) + Effect(x) /\ Effect(x) \in Int
        BY <2>4, LeftAdds
      <3>2. x \in Debits(after, e)
        BY <2>4 DEF Debits, OneMore
      <3>3. LeftOf(rows, e) >= -Effect(x) \/ MetIn(Debits(rows, e), x.by, M)
        BY <2>4 DEF Pays, Covered
      <3>4. MetIn(Debits(rows, e), x.by, M) => Clash(Debits(after, e), M)
        BY <2>3, <3>2 DEF MetIn, Clash
      <3>5. LeftOf(rows, e) >= -Effect(x) => LeftOf(after, e) >= 0
        BY <2>1, <3>1
      <3> QED BY <2>1, <2>2, <3>1, <3>3, <3>4, <3>5
    <2>5. CASE ~(x.employee = e /\ x.type # "CARD_PURCHASE" /\ Effect(x) < 0)
      <3>1. LeftOf(after, e) \in Int /\ LeftOf(after, e) >= LeftOf(rows, e)
        BY <2>1, <2>5, LeftAdds
      <3>2. LeftOf(after, e) < 0 => LeftOf(rows, e) < 0
        BY <2>1, <3>1
      <3>3. LeftOf(rows, e) < 0 => Clash(Debits(rows, e), M)
        BY DEF Sound
      <3> QED BY <2>2, <2>3, <3>2, <3>3 DEF Clash
    <2> QED BY <2>4, <2>5
  <1>3. ASSUME NEW g \in Goals PROVE Held(after, g) < 0 => Clash(Takes(after, g), M)
    <2>1. Held(rows, g) \in Int
      BY HeldIsWhole
    <2>2. Takes(rows, g) \subseteq Takes(after, g)
      BY DEF Takes, OneMore
    <2>3. CASE x.type = "SAVINGS_TRANSFER" /\ x.ref = <<"goal", g>> /\ Effect(x) > 0
      <3>1. Held(after, g) = Held(rows, g) - Effect(x) /\ Effect(x) \in Int
        BY <2>3, HeldAdds
      <3>2. x \in Takes(after, g)
        BY <2>3 DEF Takes, OneMore, Pays, Signed
      <3>3. Held(rows, g) >= Effect(x) \/ MetIn(Takes(rows, g), x.by, M)
        BY <2>3 DEF Pays, Stored
      <3>4. MetIn(Takes(rows, g), x.by, M) => Clash(Takes(after, g), M)
        BY <2>2, <3>2 DEF MetIn, Clash
      <3>5. Held(rows, g) >= Effect(x) => Held(after, g) >= 0
        BY <2>1, <3>1
      <3> QED BY <2>1, <3>1, <3>3, <3>4, <3>5
    <2>4. CASE ~(x.type = "SAVINGS_TRANSFER" /\ x.ref = <<"goal", g>> /\ Effect(x) > 0)
      <3>1. Held(after, g) \in Int /\ Held(after, g) >= Held(rows, g)
        BY <2>1, <2>4, HeldAdds
      <3>2. Held(after, g) < 0 => Held(rows, g) < 0
        BY <2>1, <3>1
      <3>3. Held(rows, g) < 0 => Clash(Takes(rows, g), M)
        BY DEF Sound
      <3> QED BY <2>2, <3>2, <3>3 DEF Clash
    <2> QED BY <2>3, <2>4
  <1> QED BY <1>1, <1>2, <1>3 DEF Sound

(* What another request in progress writes leaves this one covered. *)
LEMMA PostKeepsCover ==
  ASSUME NEW rows, TypedRows(rows), NEW M, NEW x, TypedRow(x), x \notin rows,
         NEW after, OneMore(rows, x, after), Signed(x), NEW m, x.by # m, {x.by, m} \in M
  PROVE  /\ \A e, a : Covered(rows, e, m, a, M) => Covered(after, e, m, a, M)
         /\ \A g, a : Stored(rows, g, m, a, M) => Stored(after, g, m, a, M)
  <1>1. ASSUME NEW e, NEW a, Covered(rows, e, m, a, M) PROVE Covered(after, e, m, a, M)
    <2>1. e \in Employees /\ a \in Int /\ LeftOf(rows, e) \in Int
      BY <1>1, LeftIsWhole DEF Covered
    <2>2. CASE MetIn(Debits(rows, e), m, M)
      BY <2>1, <2>2 DEF Covered, MetIn, Debits, OneMore
    <2>3. CASE x \in Debits(after, e)
      BY <2>1, <2>3 DEF Covered, MetIn
    <2>4. CASE x \notin Debits(after, e) /\ LeftOf(rows, e) >= a
      <3>1. ~(x.employee = e /\ x.type # "CARD_PURCHASE" /\ Effect(x) < 0)
        BY <2>4 DEF Debits, OneMore
      <3>2. LeftOf(after, e) \in Int /\ LeftOf(after, e) >= LeftOf(rows, e)
        BY <2>1, <3>1, LeftAdds
      <3> QED BY <2>1, <2>4, <3>2 DEF Covered
    <2> QED BY <1>1, <2>2, <2>3, <2>4 DEF Covered
  <1>2. ASSUME NEW g, NEW a, Stored(rows, g, m, a, M) PROVE Stored(after, g, m, a, M)
    <2>1. a \in Int /\ Held(rows, g) \in Int
      BY <1>2, HeldIsWhole DEF Stored
    <2>2. CASE MetIn(Takes(rows, g), m, M)
      BY <2>1, <2>2 DEF Stored, MetIn, Takes, OneMore
    <2>3. CASE x \in Takes(after, g)
      BY <2>1, <2>3 DEF Stored, MetIn
    <2>4. CASE x \notin Takes(after, g) /\ Held(rows, g) >= a
      <3>1. ~(x.type = "SAVINGS_TRANSFER" /\ x.ref = <<"goal", g>> /\ Effect(x) > 0)
        BY <2>4 DEF Takes, OneMore, Signed
      <3>2. Held(after, g) \in Int /\ Held(after, g) >= Held(rows, g)
        BY <2>1, <3>1, HeldAdds
      <3> QED BY <2>1, <2>4, <3>2 DEF Stored
    <2> QED BY <1>2, <2>2, <2>3, <2>4 DEF Stored
  <1> QED BY <1>1, <1>2

Keeps(rows, after, m, M) ==
  /\ \A e, a : Covered(rows, e, m, a, M) => Covered(after, e, m, a, M)
  /\ \A g, a : Stored(rows, g, m, a, M) => Stored(after, g, m, a, M)

(* A row that is there already changes nothing: so any row may be added. *)
LEMMA RowPosts ==
  ASSUME NEW rows, TypedRows(rows), NEW M, Sound(rows, M), NEW x, TypedRow(x),
         NEW after, OneMore(rows, x, after), Pays(rows, x, M)
  PROVE  /\ TypedRows(after) /\ Sound(after, M)
         /\ \A m : m # x.by /\ {x.by, m} \in M => Keeps(rows, after, m, M)
  <1>1. CASE x \in rows
    <2>1. after = rows
      BY <1>1 DEF OneMore
    <2> QED BY <2>1 DEF Keeps
  <1>2. CASE x \notin rows
    <2>1. TypedRows(after)
      BY TypedAdds DEF OneMore
    <2>2. Sound(after, M)
      BY <1>2, PostSound
    <2>3. ASSUME NEW m, m # x.by, {x.by, m} \in M PROVE Keeps(rows, after, m, M)
      <3>1. Signed(x)
        BY DEF Pays
      <3>2. x.by # m
        BY <2>3
      <3> QED BY <1>2, <2>3, <3>1, <3>2, PostKeepsCover DEF Keeps
    <2> QED BY <2>1, <2>2, <2>3
  <1> QED BY <1>1, <1>2

(* A remittance whose status has changed counts as it did. *)
LEMMA SwapFunds ==
  ASSUME NEW rows, TypedRows(rows), NEW M, Sound(rows, M), NEW x \in rows, NEW y, TypedRow(y),
         y \notin rows \ {x}, x.type = "REMITTANCE", y.type = "REMITTANCE", y.employee = x.employee,
         y.by = x.by, y.total = x.total, y.ref = x.ref, y.note = x.note,
         NEW after, after = (rows \ {x}) \cup {y}
  PROVE  TypedRows(after) /\ Sound(after, M) /\ \A m : Keeps(rows, after, m, M)
  <1>1. Effect(y) = Effect(x) /\ Signed(y) = Signed(x)
    BY DEF Effect, Signed
  <1>2. TypedRows(after)
    BY FS_Subset, FS_AddElement DEF TypedRows
  <1>3. \A g : OfGoal(after, g) = OfGoal(rows, g)
    BY DEF OfGoal
  <1>4. \A e : Purchases(after, e) = Purchases(rows, e)
    BY DEF Purchases
  <1>5. ASSUME NEW e \in Employees PROVE Moved(Rest(after, e)) = Moved(Rest(rows, e))
    <2>1. CASE x.employee = e
      <3>1. /\ Rest(after, e) = (Rest(rows, e) \ {x}) \cup {y}
            /\ x \in Rest(rows, e) /\ y \notin Rest(rows, e) \ {x}
        BY <2>1 DEF Rest
      <3>2. EffectsAreWhole(Rest(rows, e))
        <4>1. Rest(rows, e) \in SUBSET rows
          BY DEF Rest
        <4> QED BY <4>1, TypedEffects
      <3>3. PICK T : T = Rest(rows, e)
        OBVIOUS
      <3>4. Moved((T \ {x}) \cup {y}) = Moved(T)
        BY <1>1, <3>1, <3>2, <3>3, MovedSwaps
      <3> QED BY <3>1, <3>3, <3>4
    <2>2. CASE x.employee # e
      <3>1. Rest(after, e) = Rest(rows, e)
        BY <2>2 DEF Rest
      <3> QED BY <3>1
    <2> QED BY <2>1, <2>2
  <1>6. /\ \A e \in Employees : LeftOf(after, e) = LeftOf(rows, e)
        /\ \A g : Held(after, g) = Held(rows, g)
    BY <1>3, <1>5 DEF LeftOf, Held
  <1>7. ASSUME NEW e, NEW r \in Debits(rows, e) PROVE \E s \in Debits(after, e) : s.by = r.by
    <2>1. CASE r = x
      <3>1. y \in Debits(after, e) /\ y.by = r.by
        BY <1>1, <1>7, <2>1 DEF Debits
      <3> QED BY <3>1
    <2>2. CASE r # x
      BY <1>7, <2>2 DEF Debits
    <2> QED BY <2>1, <2>2
  <1>8. ASSUME NEW g, NEW r \in Takes(rows, g) PROVE \E s \in Takes(after, g) : s.by = r.by
    <2>1. CASE r = x
      <3>1. y \in Takes(after, g) /\ y.by = r.by
        BY <1>8, <2>1 DEF Takes
      <3> QED BY <3>1
    <2>2. CASE r # x
      BY <1>8, <2>2 DEF Takes
    <2> QED BY <2>1, <2>2
  <1>9. ASSUME NEW m PROVE Keeps(rows, after, m, M)
    <2>1. \A e : MetIn(Debits(rows, e), m, M) => MetIn(Debits(after, e), m, M)
      BY <1>7 DEF MetIn
    <2>2. ASSUME NEW g, MetIn(Takes(rows, g), m, M) PROVE MetIn(Takes(after, g), m, M)
      <3>1. PICK r \in Takes(rows, g) : r.by # m /\ {r.by, m} \in M
        BY <2>2 DEF MetIn
      <3>2. PICK s \in Takes(after, g) : s.by = r.by
        BY <1>8
      <3> QED BY <3>1, <3>2 DEF MetIn
    <2> QED BY <1>6, <2>1, <2>2 DEF Keeps, Covered, Stored
  <1>10. Sound(after, M)
    <2>0. ASSUME NEW S, NEW T, \A r \in S : \E s \in T : s.by = r.by, Clash(S, M) PROVE Clash(T, M)
      <3>1. PICK r \in S, s \in S : r.by # s.by /\ {r.by, s.by} \in M
        BY <2>0 DEF Clash
      <3>2. PICK t \in T, u \in T : t.by = r.by /\ u.by = s.by
        BY <2>0, <3>1
      <3> QED BY <3>1, <3>2 DEF Clash
    <2>1. \A e : Clash(Debits(rows, e), M) => Clash(Debits(after, e), M)
      BY <1>7, <2>0
    <2>2. \A g : Clash(Takes(rows, g), M) => Clash(Takes(after, g), M)
      BY <1>8, <2>0
    <2>3. \A z \in after : Signed(z)
      BY <1>1 DEF Sound
    <2> QED BY <1>4, <1>6, <2>1, <2>2, <2>3 DEF Sound
  <1> QED BY <1>2, <1>9, <1>10

LEMMA NeedsKept ==
  ASSUME NEW rows, NEW after, NEW m, NEW M, Keeps(rows, after, m, M), NEW r, Needs(r, m, rows, M)
  PROVE  Needs(r, m, after, M)
  BY DEF Keeps, Needs

(* Where a request needs nothing. *)
LEMMA NeedsNothing ==
  ASSUME NEW r, r.at \in Ended \cup {"reward", "picks", "cashback", "checks", "replay check", "pays reward"}
  PROVE  \A n, rows, M : Needs(r, n, rows, M)
  BY DEF Needs, Ended

LEMMA MoreHaveMet ==
  ASSUME NEW rows, NEW M, NEW N, M \subseteq N
  PROVE  /\ Sound(rows, M) => Sound(rows, N)
         /\ \A r, n : Needs(r, n, rows, M) => Needs(r, n, rows, N)
  <1>1. /\ \A s, n : MetIn(s, n, M) => MetIn(s, n, N)
        /\ \A s : Clash(s, M) => Clash(s, N)
    BY DEF MetIn, Clash
  <1>2. /\ \A e, n, a : Covered(rows, e, n, a, M) => Covered(rows, e, n, a, N)
        /\ \A g, n, a : Stored(rows, g, n, a, M) => Stored(rows, g, n, a, N)
    BY <1>1 DEF Covered, Stored
  <1>3. Sound(rows, M) => Sound(rows, N)
    BY <1>1 DEF Sound
  <1>4. ASSUME NEW r, NEW n, Needs(r, n, rows, M) PROVE Needs(r, n, rows, N)
    <2>1. /\ \A e, a : Covered(rows, e, n, a, M) => Covered(rows, e, n, a, N)
          /\ \A g, a : Stored(rows, g, n, a, M) => Stored(rows, g, n, a, N)
      BY <1>2
    <2> QED BY <1>4, <2>1 DEF Needs
  <1> QED BY <1>3, <1>4

LEMMA QuietFunds ==
  ASSUME FundsInv, UNCHANGED ledger, met \subseteq met',
         \A n \in Requests : request'[n] = request[n] \/ Needs(request'[n], n, ledger, met')
  PROVE  FundsInv'
  <1>1. Sound(ledger, met')
    BY MoreHaveMet DEF FundsInv
  <1>2. ASSUME NEW n \in Requests PROVE Needs(request'[n], n, ledger, met')
    BY MoreHaveMet DEF FundsInv
  <1> QED BY <1>1, <1>2 DEF FundsInv

(* A request goes on without writing. *)
LEMMA GoFunds ==
  ASSUME HandlerInv, FundsInv, UNCHANGED ledger, NEW n \in Busy, NEW at, at # "not yet", GoesTo(n, at),
         Needs(request'[n], n, ledger, met)
  PROVE  FundsInv'
  <1>1. met' = met
    BY DEF GoesTo, Becomes
  <1>2. n \in Requests /\ \A m \in Requests \ {n} : request'[m] = request[m]
    BY GoingOn
  <1>3. \A m \in Requests : request'[m] = request[m] \/ Needs(request'[m], m, ledger, met')
    BY <1>1, <1>2
  <1> QED BY <1>1, <1>3, QuietFunds

(* A request writes, and has nothing more to take. *)
LEMMA WriteFunds ==
  ASSUME HandlerInv, FundsInv, Sound(ledger', met), NEW n \in Busy,
         \A m : m # n /\ {n, m} \in met => Keeps(ledger, ledger', m, met),
         NEW at \in {"done", "reward", "picks", "cashback"}, GoesTo(n, at)
  PROVE  FundsInv'
  <1>1. met' = met
    BY DEF GoesTo, Becomes
  <1>2. n \in Requests /\ request'[n].at = at /\ \A m \in Requests \ {n} : request'[m] = request[m]
    BY GoingOn
  <1>3. ASSUME NEW m \in Requests PROVE Needs(request'[m], m, ledger', met)
    <2>1. CASE m = n
      BY <1>2, <2>1, NeedsNothing DEF Ended
    <2>2. CASE m # n /\ m \notin Busy
      <3>1. request'[m].at \in Ended
        BY <1>2, <2>2 DEF Busy
      <3> QED BY <3>1, NeedsNothing
    <2>3. CASE m # n /\ m \in Busy
      <3>1. {n, m} \in met
        BY <2>3 DEF HandlerInv, BusyMet, Overlapped
      <3>2. Keeps(ledger, ledger', m, met) /\ Needs(request[m], m, ledger, met)
        BY <2>3, <3>1 DEF FundsInv
      <3> QED BY <1>2, <2>3, <3>2, NeedsKept
    <2> QED BY <2>1, <2>2, <2>3
  <1> QED BY <1>1, <1>3 DEF FundsInv

LEMMA PostFunds ==
  ASSUME HandlerInv, TypedRows(ledger), FundsInv, NEW n \in Busy, NEW x, TypedRow(x), x.by = n,
         OneMore(ledger, x, ledger'), Pays(ledger, x, met),
         NEW at \in {"done", "reward", "picks", "cashback"}, GoesTo(n, at)
  PROVE  FundsInv'
  <1>1. Sound(ledger', met) /\ \A m : m # n /\ {n, m} \in met => Keeps(ledger, ledger', m, met)
    BY RowPosts DEF FundsInv
  <1> QED BY <1>1, WriteFunds

LEMMA WalletBelowLeft ==
  ASSUME MoneyInv, FundsInv, NEW e \in Employees
  PROVE  wallet[e] \in Int /\ LeftOf(ledger, e) \in Int /\ wallet[e] <= LeftOf(ledger, e)
  <1>1. TypedRows(ledger) /\ wallet[e] = Opening[e] + Moved(OfEmployee(ledger, e))
    BY DEF MoneyInv, Explains
  <1>2. /\ LeftOf(ledger, e) \in Int /\ Moved(Rest(ledger, e)) \in Int /\ Moved(Purchases(ledger, e)) \in Int
        /\ LeftOf(ledger, e) = Opening[e] + Moved(Rest(ledger, e)) /\ Opening[e] \in Int
    BY <1>1, LeftIsWhole, OpeningIsNatural DEF LeftOf
  <1>3. Moved(OfEmployee(ledger, e)) = Moved(Rest(ledger, e)) + Moved(Purchases(ledger, e))
    BY <1>1, MovedSplits
  <1>4. Moved(Purchases(ledger, e)) <= 0
    BY DEF FundsInv, Sound
  <1> QED BY <1>1, <1>2, <1>3, <1>4

LEMMA EnoughLeft ==
  ASSUME MoneyInv, FundsInv, NEW e \in Employees, NEW a \in Int, wallet[e] >= a
  PROVE  LeftOf(ledger, e) >= a
  <1>1. PICK w \in Int, l \in Int : w = wallet[e] /\ l = LeftOf(ledger, e) /\ w <= l
    BY WalletBelowLeft
  <1>2. w >= a
    BY <1>1
  <1>3. l >= a
    BY <1>1, <1>2
  <1> QED BY <1>1, <1>3

(***************************************************************************)
(* What each service does to them.                                         *)
(***************************************************************************)
OpsInNeed == {"transfer", "deposit", "withdraw", "send", "order", "event"}

(* Requests of other services need nothing. *)
LEMMA OthersFunds ==
  ASSUME FundsInv, UNCHANGED ledger, NEW ops, HandlerStep(ops), ops \cap OpsInNeed = {}
  PROVE  FundsInv'
  <1>1. ASSUME NEW n \in Requests, request'[n] # request[n] PROVE Needs(request'[n], n, ledger, met')
    BY <1>1 DEF HandlerStep, OpsInNeed, Needs
  <1> QED BY <1>1, QuietFunds DEF HandlerStep

(* One that has just come in has yet to check. *)
LEMMA ArrivalFunds ==
  ASSUME HandlerInv, FundsInv, UNCHANGED ledger, NEW r, IsRequest(r), r # NotYet, Arrives(r),
         r.at \in {"checks", "replay check", "picks", "reads quote", "finds row", "finds card"}
  PROVE  FundsInv'
  <1>1. PICK n \in Requests : request'[n] = r /\ \A m \in Requests \ {n} : request'[m] = request[m]
    BY Arriving
  <1>2. met \subseteq met'
    BY DEF Arrives
  <1>3. Needs(r, n, ledger, met')
    BY DEF Needs
  <1>4. \A m \in Requests : request'[m] = request[m] \/ Needs(request'[m], m, ledger, met')
    BY <1>1, <1>3
  <1> QED BY <1>2, <1>4, QuietFunds

LEMMA EndFunds ==
  ASSUME HandlerInv, FundsInv, UNCHANGED ledger, NEW n \in Busy,
         NEW at \in {"done", "refused", "died", "reward", "picks", "cashback", "checks", "pays reward"}, GoesTo(n, at)
  PROVE  FundsInv'
  <1>1. at # "not yet" /\ request'[n].at = at
    BY GoingOn
  <1>2. Needs(request'[n], n, ledger, met)
    BY <1>1, NeedsNothing DEF Ended
  <1> QED BY <1>1, <1>2, GoFunds

LEMMA CheckTransferFunds ==
  ASSUME WalletInv, MoneyInv, FundsInv, NEW n \in Requests, CheckTransfer(n)
  PROVE  FundsInv'
  <1> DEFINE r == request[n]
  <1>1. UNCHANGED ledger /\ Is(n, "transfer", "checks")
    BY DEF CheckTransfer, walletVars
  <1>2. n \in Busy /\ TellsTransfer(r, Marks(ledger, n)) /\ r.op = "transfer"
    BY <1>1, TransferAt, IsBusy DEF MoneyInv, Ended
  <1>3. CASE GoesTo(n, "refused")
    BY <1>1, <1>2, <1>3, EndFunds DEF WalletInv, RequestsInv
  <1>4. CASE GoesTo(n, "writes") /\ Covers(wallet[r.from], r.amount, FeeOf(r.from))
    <2>0. /\ request'[n].at = "writes" /\ request'[n].op = "transfer"
          /\ \A f \in DOMAIN r \ {"at"} : request'[n][f] = r[f]
      BY <1>2, <1>4, GoingOn DEF WalletInv, RequestsInv, Ended
    <2>1. /\ request'[n].at = "writes" /\ request'[n].op = "transfer"
          /\ request'[n].from = r.from /\ request'[n].amount = r.amount
      BY <1>2, <2>0 DEF TellsTransfer
    <2>2. PICK a \in Int : a = r.amount + FeeOf(r.from)
      <3>1. r.amount \in Int /\ FeeOf(r.from) \in Int
        <4>1. r.amount \in Nat
          BY <1>2 DEF TellsTransfer
        <4>2. FeeOf(r.from) \in Nat
          BY PaymentsAreWhole DEF FeeOf
        <4> QED BY <4>1, <4>2
      <3>2. r.amount + FeeOf(r.from) \in Int
        BY <3>1
      <3> QED BY <3>2
    <2>3. r.from \in Employees /\ wallet[r.from] >= a
      BY <1>2, <1>4, <2>2 DEF TellsTransfer, Covers
    <2>4. LeftOf(ledger, r.from) >= a
      BY <2>3, WalletBelowLeft
    <2>5. Covered(ledger, r.from, n, a, met)
      BY <2>3, <2>4 DEF Covered
    <2>6. Needs(request'[n], n, ledger, met)
      BY <2>1, <2>2, <2>5 DEF Needs
    <2> QED BY <1>1, <1>2, <1>4, <2>6, GoFunds DEF WalletInv, RequestsInv
  <1> QED BY <1>3, <1>4 DEF CheckTransfer

LEMMA CommitTransferFunds ==
  ASSUME WalletInv, MoneyInv, FundsInv, NEW n \in Requests, CommitTransfer(n)
  PROVE  FundsInv'
  <1> DEFINE p == request[n]
             total == p.amount + FeeOf(p.from)
             debit == Row(n, p.from, "TRANSFER", -total, p.key, NoKey, "")
             credited == Row(n, p.to, "RECEIVE", p.amount, NoKey, NoKey, "")
             between == ledger \cup {debit}
  <1>1. ledger' = ledger \cup {debit, credited} /\ \E at \in {"reward", "done"} : GoesTo(n, at)
    BY DEF CommitTransfer, Posts, AfterTransfer
  <1>2. /\ n \in Busy /\ p.from \in Employees /\ p.to \in Employees /\ p.amount \in Nat
        /\ p.op = "transfer" /\ p.at = "writes"
    <2>1. Is(n, "transfer", "writes")
      BY DEF CommitTransfer
    <2> QED BY <2>1, TransferAt, IsBusy DEF MoneyInv, TellsTransfer, Ended
  <1>3. total \in Int /\ -total \in Int /\ p.amount \in Int /\ -(-total) = total
    BY <1>2, PaymentsAreWhole DEF FeeOf
  <1>4. Covered(ledger, p.from, n, total, met)
    BY <1>2 DEF FundsInv, Needs
  <1>5. /\ TypedRow(debit) /\ debit.by = n
        /\ debit.employee = p.from /\ debit.type = "TRANSFER" /\ debit.total = -total
    BY <1>2, <1>3 DEF Row, TypedRow, AllFields, RowFields, Types
  <1>6. /\ TypedRow(credited) /\ credited.by = n
        /\ credited.employee = p.to /\ credited.type = "RECEIVE" /\ credited.total = p.amount
    BY <1>2, <1>3 DEF Row, TypedRow, AllFields, RowFields, Types
  <1> HIDE DEF debit, credited, total, p
  <1>7. Effect(debit) = -total /\ Effect(credited) = p.amount
    BY <1>5, <1>6 DEF Effect
  <1>8. OneMore(ledger, debit, between) /\ OneMore(between, credited, ledger')
    BY <1>1 DEF OneMore
  <1> HIDE DEF between
  <1>9. Pays(ledger, debit, met)
    BY <1>3, <1>4, <1>5, <1>7 DEF Pays, Signed
  <1>10. /\ TypedRows(between) /\ Sound(between, met)
         /\ \A m : m # n /\ {n, m} \in met => Keeps(ledger, between, m, met)
    BY <1>5, <1>8, <1>9, RowPosts DEF MoneyInv, FundsInv
  <1>11. Pays(between, credited, met)
    BY <1>2, <1>6, <1>7 DEF Pays, Signed
  <1>12. /\ Sound(ledger', met)
         /\ \A m : m # n /\ {n, m} \in met => Keeps(between, ledger', m, met)
    BY <1>6, <1>8, <1>10, <1>11, RowPosts
  <1>13. \A m : m # n /\ {n, m} \in met => Keeps(ledger, ledger', m, met)
    BY <1>10, <1>12 DEF Keeps
  <1> QED BY <1>1, <1>2, <1>12, <1>13, WriteFunds DEF WalletInv, RequestsInv

LEMMA PayRewardFunds ==
  ASSUME WalletInv, MoneyInv, FundsInv, NEW n \in Requests, PayReward(n)
  PROVE  FundsInv'
  <1> DEFINE referee == request[n].to
             referrer == Referrer[referee]
             x == Row(n, referrer, "REFERRAL_REWARD", Reward, NoKey, <<"referral", referee>>, "")
             y == Row(n, referee, "REFERRAL_REWARD", Reward, NoKey, <<"referral", referee>>, "")
             between == ledger \cup {x}
  <1>1. ledger' = ledger \cup {x, y} /\ GoesTo(n, "done")
    BY DEF PayReward, Posts, RewardedSides
  <1>2. n \in Busy /\ referee \in Employees /\ referrer \in Employees /\ Reward \in Nat
    <2>1. Is(n, "transfer", "pays reward")
      BY DEF PayReward
    <2>2. TellsTransfer(request[n], Marks(ledger, n)) /\ request[n].at = "pays reward" /\ n \in Busy
      BY <2>1, TransferAt DEF MoneyInv, Ended
    <2> QED BY <2>2, ReferralsAreOfOthers DEF TellsTransfer
  <1>3. /\ TypedRow(x) /\ x.by = n /\ x.type = "REFERRAL_REWARD" /\ x.total = Reward
        /\ TypedRow(y) /\ y.by = n /\ y.type = "REFERRAL_REWARD" /\ y.total = Reward
    BY <1>2 DEF Row, TypedRow, AllFields, RowFields, Types
  <1> HIDE DEF x, y, referee, referrer
  <1>4. Effect(x) = Reward /\ Effect(y) = Reward
    BY <1>3 DEF Effect
  <1>5. OneMore(ledger, x, between) /\ OneMore(between, y, ledger')
    BY <1>1 DEF OneMore
  <1> HIDE DEF between
  <1>6. Pays(ledger, x, met) /\ Pays(between, y, met)
    BY <1>2, <1>3, <1>4 DEF Pays, Signed
  <1>7. /\ TypedRows(between) /\ Sound(between, met)
        /\ \A m : m # n /\ {n, m} \in met => Keeps(ledger, between, m, met)
    BY <1>3, <1>5, <1>6, RowPosts DEF MoneyInv, FundsInv
  <1>8. /\ Sound(ledger', met)
        /\ \A m : m # n /\ {n, m} \in met => Keeps(between, ledger', m, met)
    BY <1>3, <1>5, <1>6, <1>7, RowPosts
  <1>9. \A m : m # n /\ {n, m} \in met => Keeps(ledger, ledger', m, met)
    BY <1>7, <1>8 DEF Keeps
  <1> QED BY <1>1, <1>2, <1>8, <1>9, WriteFunds DEF WalletInv, RequestsInv

LEMMA TransferFunds ==
  ASSUME WalletInv, MoneyInv, FundsInv,
         TransferNext \/ (TransferFrame /\ \E n \in Requests : TransferIsLost(n))
  PROVE  FundsInv'
  <1>1. CASE TransferArrives
    <2>1. PICK p \in Payments : Transfer(p)
      BY <1>1 DEF TransferArrives
    <2> DEFINE r == [op |-> "transfer", at |-> IF p.key = NoKey THEN "checks" ELSE "replay check",
                     from |-> p.from, to |-> p.to, amount |-> p.amount, key |-> p.key]
    <2>2. Arrives(r) /\ UNCHANGED ledger
      BY <2>1 DEF Transfer, walletVars
    <2>3. IsRequest(r) /\ r # NotYet /\ r.at \in {"checks", "replay check"}
      BY DEF IsRequest, NotYet
    <2> HIDE DEF r
    <2> QED BY <2>2, <2>3, ArrivalFunds DEF WalletInv, RequestsInv
  <1>2. ASSUME NEW n \in Requests, CheckReplay(n) \/ TransferConflicts(n) \/ TransferIsLost(n) \/ FindReferral(n)
        PROVE  FundsInv'
    <2>1. UNCHANGED ledger /\ n \in Busy
      BY <1>2 DEF CheckReplay, TransferConflicts, TransferIsLost, FindReferral, Refused, walletVars, Is, Busy, Ended
    <2>2. PICK at \in {"done", "checks", "refused", "reward", "pays reward"} : GoesTo(n, at)
      BY <1>2 DEF CheckReplay, TransferConflicts, TransferIsLost, FindReferral, Refused, AfterTransfer
    <2> QED BY <2>1, <2>2, EndFunds DEF WalletInv, RequestsInv
  <1> QED BY <1>1, <1>2, CheckTransferFunds, CommitTransferFunds, PayRewardFunds DEF TransferNext, TransferSteps

(* Savings *)
LEMMA CheckDepositFunds ==
  ASSUME WalletInv, MoneyInv, FundsInv, NEW n \in Requests, CheckDeposit(n)
  PROVE  FundsInv'
  <1> DEFINE r == request[n]
  <1>1. UNCHANGED ledger /\ Is(n, "deposit", "checks")
    BY DEF CheckDeposit, walletVars
  <1>2. n \in Busy /\ TellsDeposit(r, Marks(ledger, n)) /\ r.op = "deposit" /\ r.at = "checks"
    BY <1>1, SavingsAt DEF MoneyInv, Ended
  <1>3. r.who \in Employees /\ r.amount \in Nat /\ {"who", "amount"} \subseteq DOMAIN r
    BY <1>2 DEF TellsDeposit
  <1>4. CASE \E at \in {"refused", "picks"} : GoesTo(n, at)
    BY <1>1, <1>2, <1>4, EndFunds DEF WalletInv, RequestsInv
  <1>5. CASE GoesTo(n, "writes") /\ wallet[r.who] >= r.amount
    <2>1. /\ request'[n].at = "writes" /\ request'[n].op = "deposit"
          /\ \A f \in DOMAIN r \ {"at"} : request'[n][f] = r[f]
      <3>1. "writes" \notin Ended /\ "writes" # "not yet" /\ HandlerInv
        BY DEF WalletInv, RequestsInv, Ended
      <3> QED BY <1>2, <1>5, <3>1, GoingOn
    <2>2. request'[n].who = r.who /\ request'[n].amount = r.amount
      BY <1>3, <2>1
    <2>3. LeftOf(ledger, r.who) >= r.amount
      BY <1>3, <1>5, WalletBelowLeft
    <2>4. Covered(ledger, r.who, n, r.amount, met)
      BY <1>3, <2>3 DEF Covered
    <2>5. Needs(request'[n], n, ledger, met)
      BY <2>1, <2>2, <2>4 DEF Needs
    <2> QED BY <1>1, <1>2, <1>5, <2>5, GoFunds DEF WalletInv, RequestsInv
  <1> QED BY <1>4, <1>5 DEF CheckDeposit, AfterDeposit

LEMMA CommitDepositFunds ==
  ASSUME WalletInv, MoneyInv, FundsInv, NEW n \in Requests, CommitDeposit(n)
  PROVE  FundsInv'
  <1> DEFINE r == request[n]
             x == Row(n, r.who, "SAVINGS_TRANSFER", r.amount, NoKey, <<"goal", r.goal>>, "deposit")
  <1>1. ledger' = ledger \cup {x} /\ \E at \in {"picks", "done"} : GoesTo(n, at)
    BY DEF CommitDeposit, Posts, AfterDeposit
  <1>2. /\ r.op = "deposit" /\ r.at = "writes" /\ n \in Busy
        /\ r.who \in Employees /\ r.goal \in Goals /\ r.amount \in Nat
    <2>1. Is(n, "deposit", "writes")
      BY DEF CommitDeposit
    <2> QED BY <2>1, SavingsAt DEF MoneyInv, TellsDeposit, Ended
  <1>3. Covered(ledger, r.who, n, r.amount, met)
    BY <1>2 DEF FundsInv, Needs
  <1>4. /\ TypedRow(x) /\ x.by = n /\ x.employee = r.who
        /\ x.type = "SAVINGS_TRANSFER" /\ x.total = r.amount /\ x.note = "deposit"
    BY <1>2 DEF Row, TypedRow, AllFields, RowFields, Types
  <1>5. OneMore(ledger, x, ledger')
    BY <1>1 DEF OneMore
  <1>6. PICK a \in Nat : a = r.amount
    BY <1>2
  <1> HIDE DEF x
  <1>7. Effect(x) = -a /\ -(-a) = a
    BY <1>4, <1>6 DEF Effect
  <1>8. Pays(ledger, x, met)
    BY <1>3, <1>4, <1>6, <1>7 DEF Pays, Signed
  <1> QED BY <1>1, <1>2, <1>4, <1>5, <1>8, PostFunds DEF WalletInv, RequestsInv, MoneyInv

LEMMA CheckWithdrawalFunds ==
  ASSUME WalletInv, MoneyInv, FundsInv, NEW n \in Requests, CheckWithdrawal(n)
  PROVE  FundsInv'
  <1> DEFINE r == request[n]
  <1>1. UNCHANGED ledger /\ Is(n, "withdraw", "checks")
    BY DEF CheckWithdrawal, walletVars
  <1>2. /\ n \in Busy /\ r.op = "withdraw" /\ r.goal \in Goals /\ r.amount \in Nat
        /\ {"goal", "amount"} \subseteq DOMAIN r
    BY <1>1, SavingsAt DEF MoneyInv, Ended, TellsWithdrawal
  <1>3. CASE GoesTo(n, "refused")
    BY <1>1, <1>2, <1>3, EndFunds DEF WalletInv, RequestsInv
  <1>4. CASE GoesTo(n, "writes") /\ goal[r.goal].saved >= r.amount
    <2>1. /\ request'[n].at = "writes" /\ request'[n].op = "withdraw"
          /\ \A f \in DOMAIN r \ {"at"} : request'[n][f] = r[f]
      <3>1. HandlerInv /\ GoesTo(n, "writes") /\ "writes" \notin Ended /\ "writes" # "not yet"
        BY <1>4 DEF WalletInv, RequestsInv, Ended
      <3> QED BY <1>2, <3>1, GoingOn
    <2>2. request'[n].goal = r.goal /\ request'[n].amount = r.amount
      BY <1>2, <2>1
    <2>3. Held(ledger, r.goal) >= r.amount
      BY <1>2, <1>4 DEF MoneyInv, GoalsExplained, Held
    <2>4. Stored(ledger, r.goal, n, r.amount, met)
      BY <1>2, <2>3 DEF Stored
    <2>5. Needs(request'[n], n, ledger, met)
      BY <2>1, <2>2, <2>4 DEF Needs
    <2> QED BY <1>1, <1>2, <1>4, <2>5, GoFunds DEF WalletInv, RequestsInv
  <1> QED BY <1>3, <1>4 DEF CheckWithdrawal, MayWithdraw

LEMMA CommitWithdrawalFunds ==
  ASSUME WalletInv, MoneyInv, FundsInv, NEW n \in Requests, CommitWithdrawal(n)
  PROVE  FundsInv'
  <1> DEFINE r == request[n]
             x == Row(n, r.who, "SAVINGS_TRANSFER", r.amount, NoKey, <<"goal", r.goal>>, "withdrawal")
  <1>1. ledger' = ledger \cup {x} /\ GoesTo(n, "done")
    BY DEF CommitWithdrawal, Posts
  <1>2. /\ r.op = "withdraw" /\ r.at = "writes" /\ n \in Busy
        /\ r.who \in Employees /\ r.goal \in Goals /\ r.amount \in Nat
    <2>1. Is(n, "withdraw", "writes")
      BY DEF CommitWithdrawal
    <2> QED BY <2>1, SavingsAt DEF MoneyInv, TellsWithdrawal, Ended
  <1>3. Stored(ledger, r.goal, n, r.amount, met)
    BY <1>2 DEF FundsInv, Needs
  <1>4. /\ TypedRow(x) /\ x.by = n /\ x.employee = r.who /\ x.ref = <<"goal", r.goal>>
        /\ x.type = "SAVINGS_TRANSFER" /\ x.total = r.amount /\ x.note = "withdrawal"
    BY <1>2 DEF Row, TypedRow, AllFields, RowFields, Types
  <1>5. OneMore(ledger, x, ledger')
    BY <1>1 DEF OneMore
  <1> HIDE DEF x
  <1>6. Effect(x) = r.amount
    BY <1>4 DEF Effect
  <1>7. \A g : x.ref = <<"goal", g>> => g = r.goal
    BY <1>4
  <1>8. Pays(ledger, x, met)
    <2>1. ~(Effect(x) < 0)
      BY <1>2, <1>6
    <2> QED BY <1>3, <1>4, <1>6, <1>7, <2>1 DEF Pays, Signed
  <1> QED BY <1>1, <1>2, <1>4, <1>5, <1>8, PostFunds DEF WalletInv, RequestsInv, MoneyInv

LEMMA NextAutoSaveFunds ==
  ASSUME WalletInv, MoneyInv, FundsInv, NEW n \in Requests, NextAutoSave(n)
  PROVE  FundsInv'
  <1> DEFINE r == request[n]
  <1>1. UNCHANGED ledger /\ Is(n, "deposit", "picks")
    BY DEF NextAutoSave, walletVars
  <1>2. n \in Busy /\ r.op = "deposit" /\ {"at", "op"} \subseteq DOMAIN r
    BY <1>1, SavingsAt, InProgress DEF MoneyInv, Ended, WalletInv, RequestsInv
  <1>3. CASE GoesTo(n, "done")
    BY <1>1, <1>2, <1>3, EndFunds DEF WalletInv, RequestsInv
  <1>4. CASE ~GoesTo(n, "done")
    <2>1. PICK g : Becomes(n, [r EXCEPT !.at = "checks", !.who = Owner[g], !.goal = g,
                                        !.amount = Monthly[g], !.left = @ \ {g}])
      BY <1>4 DEF NextAutoSave
    <2> DEFINE s == [r EXCEPT !.at = "checks", !.who = Owner[g], !.goal = g, !.amount = Monthly[g], !.left = @ \ {g}]
    <2>2. s.at = "checks" /\ Becomes(n, s)
      BY <1>2, <2>1
    <2> HIDE DEF s
    <2>3. request'[n] = s /\ (\A m \in Requests \ {n} : request'[m] = request[m]) /\ met' = met
      BY <2>2 DEF Becomes, WalletInv, RequestsInv, HandlerInv, RequestShape
    <2>4. Needs(s, n, ledger, met')
      BY <2>2, NeedsNothing
    <2>5. \A m \in Requests : request'[m] = request[m] \/ Needs(request'[m], m, ledger, met')
      BY <2>3, <2>4
    <2> QED BY <1>1, <2>3, <2>5, QuietFunds
  <1> QED BY <1>3, <1>4

LEMMA SavingsFunds == ASSUME WalletInv, MoneyInv, FundsInv, SavingsNext PROVE FundsInv'
  <1>1. CASE SavingsArrives
    <2>1. PICK r : /\ IsRequest(r) /\ r # NotYet /\ Arrives(r) /\ UNCHANGED ledger
                   /\ r.at \in {"picks", "checks"}
      <3>1. CASE AutoSave
        <4> DEFINE r == [op |-> "deposit", at |-> "picks", who |-> "", goal |-> "", amount |-> 0, sweep |-> TRUE,
                         left |-> {g \in Goals : goal[g].status = "ACTIVE" /\ Monthly[g] # 0}]
        <4>1. IsRequest(r) /\ r # NotYet /\ r.at = "picks"
          BY DEF IsRequest, NotYet
        <4>2. Arrives(r) /\ UNCHANGED ledger
          BY <3>1 DEF AutoSave, walletVars
        <4> HIDE DEF r
        <4> QED BY <4>1, <4>2
      <3>2. ASSUME NEW e \in Employees, NEW g \in Goals, NEW amount \in Stakes, Deposit(e, g, amount)
            PROVE  \E r : IsRequest(r) /\ r # NotYet /\ Arrives(r) /\ UNCHANGED ledger /\ r.at = "checks"
        <4> DEFINE r == [op |-> "deposit", at |-> "checks", who |-> e, goal |-> g,
                         amount |-> amount, left |-> {}, sweep |-> FALSE]
        <4>1. IsRequest(r) /\ r # NotYet /\ r.at = "checks"
          BY DEF IsRequest, NotYet
        <4>2. Arrives(r) /\ UNCHANGED ledger
          BY <3>2 DEF Deposit, walletVars
        <4> HIDE DEF r
        <4> QED BY <4>1, <4>2
      <3>3. ASSUME NEW e \in Employees, NEW g \in Goals, NEW amount \in Stakes, Withdraw(e, g, amount)
            PROVE  \E r : IsRequest(r) /\ r # NotYet /\ Arrives(r) /\ UNCHANGED ledger /\ r.at = "checks"
        <4> DEFINE r == [op |-> "withdraw", at |-> "checks", who |-> e, goal |-> g, amount |-> amount]
        <4>1. IsRequest(r) /\ r # NotYet /\ r.at = "checks"
          BY DEF IsRequest, NotYet
        <4>2. Arrives(r) /\ UNCHANGED ledger
          BY <3>3 DEF Withdraw, walletVars
        <4> HIDE DEF r
        <4> QED BY <4>1, <4>2
      <3> QED BY <1>1, <3>1, <3>2, <3>3 DEF SavingsArrives
    <2> QED BY <2>1, ArrivalFunds DEF WalletInv, RequestsInv
  <1>2. CASE \E g \in Goals : CreateGoal(g)
    BY <1>2 DEF CreateGoal, sharedVars, walletVars, handlerVars, FundsInv
  <1> QED BY <1>1, <1>2, CheckDepositFunds, CommitDepositFunds, NextAutoSaveFunds, CheckWithdrawalFunds,
             CommitWithdrawalFunds DEF SavingsNext, SavingsSteps

(* Remittances *)
SendNeeds(r, n) == r.op = "send" /\ Covered(ledger, r.who, n, Price, met) /\ "who" \in DOMAIN r

LEMMA SendFunds ==
  ASSUME HandlerInv, FundsInv, UNCHANGED ledger, NEW n \in Busy, SendNeeds(request[n], n),
         NEW at \in {"calls rail", "debits"}, GoesTo(n, at)
  PROVE  FundsInv'
  <1>1. /\ request'[n].at = at /\ request'[n].op = "send" /\ at # "not yet"
        /\ \A f \in DOMAIN request[n] \ {"at"} : request'[n][f] = request[n][f]
    BY GoingOn DEF SendNeeds, Ended
  <1>2. request'[n].who = request[n].who
    BY <1>1 DEF SendNeeds
  <1>3. Needs(request'[n], n, ledger, met)
    BY <1>1, <1>2 DEF Needs, SendNeeds
  <1> QED BY <1>1, <1>3, GoFunds

LEMMA SendAt ==
  ASSUME MoneyInv, NEW n \in Busy, request[n].op = "send"
  PROVE  "who" \in DOMAIN request[n] /\ request[n].who \in Employees
  BY DEF MoneyInv, RequestsTell, Tells, TellsSend, Busy

LEMMA SendStepFunds ==
  ASSUME WalletInv, MoneyInv, FundsInv, NEW n \in Requests, CheckSend(n) \/ CallRail(n) \/ CommitSend(n)
  PROVE  FundsInv'
  <1> DEFINE e == request[n].who
  <1>1. n \in Busy /\ request[n].op = "send"
    BY DEF CheckSend, CallRail, CommitSend, Is, Busy, Ended
  <1>2. "who" \in DOMAIN request[n] /\ e \in Employees
    BY <1>1, SendAt
  <1>3. CASE CheckSend(n) /\ GoesTo(n, "refused")
    BY <1>1, <1>3, EndFunds DEF CheckSend, walletVars, WalletInv, RequestsInv
  <1>4. CASE CheckSend(n) /\ wallet[e] >= Price /\ GoesTo(n, "calls rail")
    <2>1. Price \in Int /\ LeftOf(ledger, e) >= Price
      <3>1. PICK w \in Employees, p \in Int : w = e /\ p = Price
        BY <1>2, PriceIsNatural
      <3>2. wallet[w] >= p
        BY <1>4, <3>1
      <3>3. LeftOf(ledger, w) >= p
        BY <3>2, EnoughLeft
      <3> QED BY <3>1, <3>3
    <2>2. SendNeeds(request[n], n)
      BY <1>1, <1>2, <2>1 DEF SendNeeds, Covered
    <2> QED BY <1>1, <1>4, <2>2, SendFunds DEF CheckSend, walletVars, WalletInv, RequestsInv
  <1>5. CASE CallRail(n)
    <2>1. SendNeeds(request[n], n)
      BY <1>1, <1>2, <1>5 DEF SendNeeds, CallRail, Is, FundsInv, Needs
    <2> QED BY <1>1, <1>5, <2>1, SendFunds DEF CallRail, walletVars, WalletInv, RequestsInv
  <1>6. CASE CommitSend(n)
    <2> DEFINE x == Row(n, e, "REMITTANCE", Price, NoKey, <<"transfer", n>>, "")
    <2>1. ledger' = ledger \cup {x} /\ GoesTo(n, "done")
      BY <1>6 DEF CommitSend, Posts
    <2>2. Covered(ledger, e, n, Price, met)
      BY <1>1, <1>6 DEF CommitSend, Is, FundsInv, Needs
    <2>3. TypedRow(x) /\ x.by = n /\ x.employee = e /\ x.type = "REMITTANCE" /\ x.total = Price
      BY <1>2, PriceIsNatural DEF Row, TypedRow, AllFields, RowFields, Types
    <2> HIDE DEF x, e
    <2>4. OneMore(ledger, x, ledger')
      BY <2>1 DEF OneMore
    <2>5. Effect(x) = -Price /\ Price \in Int /\ Price >= 0 /\ -(-Price) = Price
      BY <2>3, PriceIsNatural DEF Effect
    <2>6. Pays(ledger, x, met)
      BY <2>2, <2>3, <2>5 DEF Pays, Signed
    <2> QED BY <1>1, <2>1, <2>3, <2>4, <2>6, PostFunds DEF WalletInv, RequestsInv, MoneyInv
  <1> QED BY <1>3, <1>4, <1>5, <1>6 DEF CheckSend, AfterCheck

(* What a failed remittance took comes back. *)
LEMMA CommitRefundFunds ==
  ASSUME WalletInv, MoneyInv, FundsInv, NEW n \in Requests, CommitRefund(n)
  PROVE  FundsInv'
  <1> DEFINE t == request[n].transfer
             Failed(row) == [row EXCEPT !.status = "FAILED"]
             Refund(row) == Row(n, row.employee, "REFUND", row.total, KeyOfRefund(t), <<"transfer", t>>, "")
  <1>0. GoesTo(n, "done") /\ n \in Busy
    BY DEF CommitRefund, Is, Busy, Ended
  <1>1. PICK row \in RemittanceRows(t) : ledger' = (ledger \ {row}) \cup {Failed(row), Refund(row)}
    BY DEF CommitRefund, Posts
  <1> DEFINE failed == Failed(row)
             refund == Refund(row)
             between == (ledger \ {row}) \cup {failed}
  <1>2. row \in ledger /\ row.type = "REMITTANCE" /\ TypedRow(row) /\ TypedRows(ledger)
    BY <1>1 DEF RemittanceRows, MoneyInv, TypedRows
  <1>3. /\ TypedRow(failed) /\ failed.by = row.by /\ failed.employee = row.employee /\ failed.type = "REMITTANCE"
        /\ failed.total = row.total /\ failed.ref = row.ref /\ failed.note = row.note /\ failed.status = "FAILED"
    <2>1. /\ DOMAIN failed = DOMAIN row
          /\ {"by", "employee", "type", "total", "status", "ref", "note"} \subseteq DOMAIN row
      BY <1>2 DEF TypedRow, AllFields, RowFields
    <2> QED BY <1>2, <2>1 DEF TypedRow, Types
  <1>4. TypedRow(refund) /\ refund.by = n /\ refund.type = "REFUND" /\ refund.total = row.total
    BY <1>0, <1>2 DEF Row, TypedRow, AllFields, RowFields, Types
  <1>5. ledger' = between \cup {refund}
    BY <1>1
  <1> HIDE DEF Failed, Refund, failed, refund
  <1>6. failed \notin ledger \ {row}
    BY <1>2, <1>3 DEF WalletInv, RemitInv, SendsWriteOnce, IsRemittance
  <1>7. TypedRows(between) /\ Sound(between, met) /\ \A m : Keeps(ledger, between, m, met)
    BY <1>2, <1>3, <1>6, SwapFunds DEF FundsInv
  <1> HIDE DEF between
  <1>8. OneMore(between, refund, ledger')
    BY <1>5 DEF OneMore
  <1>9. Pays(between, refund, met)
    <2>1. row.total \in Int /\ row.total >= 0
      BY <1>2 DEF FundsInv, Sound, Signed, TypedRow
    <2>2. Effect(refund) = row.total
      BY <1>4 DEF Effect
    <2> QED BY <1>4, <2>1, <2>2 DEF Pays, Signed
  <1>10. /\ Sound(ledger', met)
         /\ \A m : m # n /\ {n, m} \in met => Keeps(between, ledger', m, met)
    BY <1>4, <1>7, <1>8, <1>9, RowPosts
  <1>11. \A m : m # n /\ {n, m} \in met => Keeps(ledger, ledger', m, met)
    BY <1>7, <1>10 DEF Keeps
  <1> QED BY <1>0, <1>10, <1>11, WriteFunds DEF WalletInv, RequestsInv

LEMMA RemittanceFunds ==
  ASSUME WalletInv, MoneyInv, FundsInv,
         RemittanceNext \/ (RemittanceFrame /\ \E n \in Requests : RailAnswerIsLost(n))
  PROVE  FundsInv'
  <1>1. CASE RemittanceArrives
    <2>1. PICK r : /\ IsRequest(r) /\ r # NotYet /\ Arrives(r) /\ UNCHANGED ledger
                   /\ r.at \in {"checks", "reads quote", "finds row"}
      <3>1. ASSUME NEW e, NEW at \in {"checks", "reads quote"}, NEW q,
                   Arrives([op |-> "send", at |-> at, who |-> e, quote |-> q]), UNCHANGED walletVars
            PROVE  \E r : /\ IsRequest(r) /\ r # NotYet /\ Arrives(r) /\ UNCHANGED ledger
                          /\ r.at \in {"checks", "reads quote"}
        <4> DEFINE r == [op |-> "send", at |-> at, who |-> e, quote |-> q]
        <4>1. IsRequest(r) /\ r # NotYet /\ r.at = at
          BY DEF IsRequest, NotYet
        <4>2. Arrives(r) /\ UNCHANGED ledger
          BY <3>1 DEF walletVars
        <4> HIDE DEF r
        <4> QED BY <4>1, <4>2
      <3>2. ASSUME NEW t, NEW verdict, UNCHANGED walletVars,
                   Arrives([op |-> "report", at |-> "finds row", transfer |-> t, verdict |-> verdict])
            PROVE  \E r : /\ IsRequest(r) /\ r # NotYet /\ Arrives(r) /\ UNCHANGED ledger /\ r.at = "finds row"
        <4> DEFINE r == [op |-> "report", at |-> "finds row", transfer |-> t, verdict |-> verdict]
        <4>1. IsRequest(r) /\ r # NotYet /\ r.at = "finds row"
          BY DEF IsRequest, NotYet
        <4>2. Arrives(r) /\ UNCHANGED ledger
          BY <3>2 DEF walletVars
        <4> HIDE DEF r
        <4> QED BY <4>1, <4>2
      <3>3. CASE \E e \in Employees : Send(e) \/ \E q \in Quotes : SendQuote(e, q)
        BY <3>1, <3>3 DEF Send, SendQuote
      <3>4. CASE \E t \in Requests, verdict \in {"succeeded", "failed"} : Report(t, verdict)
        BY <3>2, <3>4 DEF Report
      <3> QED BY <1>1, <3>3, <3>4 DEF RemittanceArrives
    <2> QED BY <2>1, ArrivalFunds DEF WalletInv, RequestsInv
  <1>2. CASE \/ \E q \in Quotes : LockQuote(q) \/ QuoteExpires(q)
             \/ \E t \in Requests, verdict \in {"succeeded", "failed"} : RailDecides(t, verdict)
    BY <1>2 DEF LockQuote, QuoteExpires, RailDecides, sharedVars, walletVars, handlerVars, FundsInv
  <1>3. ASSUME NEW n \in Requests, RemittanceSteps(n) \/ RailAnswerIsLost(n) PROVE FundsInv'
    <2>1. CASE ReadQuote(n) \/ DropQuote(n) \/ RailRefuses(n) \/ RailAnswerIsLost(n)
      <3>1. UNCHANGED ledger /\ n \in Busy
        BY <2>1 DEF ReadQuote, DropQuote, RailRefuses, RailAnswerIsLost, Refused, walletVars, Is, Busy, Ended
      <3>2. PICK at \in {"drops quote", "checks", "refused", "died"} : GoesTo(n, at)
        BY <2>1 DEF ReadQuote, DropQuote, RailRefuses, RailAnswerIsLost, Refused
      <3>3. request'[n].at = at /\ at # "not yet"
        BY <3>1, <3>2, GoingOn DEF WalletInv, RequestsInv
      <3>4. Needs(request'[n], n, ledger, met)
        BY <3>3 DEF Needs
      <3> QED BY <3>1, <3>2, <3>3, <3>4, GoFunds DEF WalletInv, RequestsInv
    <2>2. CASE FindRemittance(n) \/ LookForRefund(n) \/ RefundConflicts(n)
      <3>1. UNCHANGED ledger /\ n \in Busy
        BY <2>2 DEF FindRemittance, LookForRefund, RefundConflicts, Refused, walletVars, Is, Busy, Ended
      <3>2. PICK at \in {"looks for refund", "refunds", "done", "refused"} : GoesTo(n, at)
        BY <2>2 DEF FindRemittance, LookForRefund, RefundConflicts, Refused
      <3>3. request'[n].at = at /\ at # "not yet"
        BY <3>1, <3>2, GoingOn DEF WalletInv, RequestsInv
      <3>4. Needs(request'[n], n, ledger, met)
        BY <3>3 DEF Needs
      <3> QED BY <3>1, <3>2, <3>3, <3>4, GoFunds DEF WalletInv, RequestsInv
    <2> QED BY <1>3, <2>1, <2>2, SendStepFunds, CommitRefundFunds DEF RemittanceSteps
  <1> QED BY <1>1, <1>2, <1>3 DEF RemittanceNext

(* Cards *)
LEMMA OrderFunds ==
  ASSUME WalletInv, MoneyInv, FundsInv, NEW n \in Requests,
         CheckOrder(n) \/ IssuePlastic(n) \/ CommitOrder(n) \/ OrderConflicts(n)
  PROVE  FundsInv'
  <1>1. n \in Busy /\ request[n].op = "order" /\ HandlerInv
    BY DEF CheckOrder, IssuePlastic, CommitOrder, OrderConflicts, Is, Busy, Ended, WalletInv, RequestsInv
  <1>2. CardFee \in Int /\ Holder \in Employees
    BY CardIsHeld
  <1>3. CASE UNCHANGED ledger /\ GoesTo(n, "refused")
    BY <1>1, <1>3, EndFunds
  <1>4. ASSUME UNCHANGED ledger, Covered(ledger, Holder, n, CardFee, met),
               NEW at \in {"calls issuer", "writes"}, GoesTo(n, at)
        PROVE  FundsInv'
    <2>1. request'[n].at = at /\ request'[n].op = "order" /\ at # "not yet"
      BY <1>1, <1>4, GoingOn
    <2>2. Needs(request'[n], n, ledger, met)
      BY <1>4, <2>1 DEF Needs
    <2> QED BY <1>1, <1>4, <2>1, <2>2, GoFunds
  <1>5. CASE CheckOrder(n) /\ wallet[Holder] >= CardFee /\ GoesTo(n, "calls issuer")
    <2>1. LeftOf(ledger, Holder) >= CardFee
      BY <1>2, <1>5, EnoughLeft
    <2>2. Covered(ledger, Holder, n, CardFee, met)
      BY <1>2, <1>5, <2>1 DEF Covered
    <2> QED BY <1>4, <1>5, <2>2 DEF CheckOrder, walletVars
  <1>6. CASE IssuePlastic(n)
    <2>1. Covered(ledger, Holder, n, CardFee, met)
      BY <1>1, <1>6 DEF IssuePlastic, Is, FundsInv, Needs
    <2> QED BY <1>4, <1>6, <2>1 DEF IssuePlastic, walletVars
  <1>7. CASE CommitOrder(n)
    <2> DEFINE x == Row(n, Holder, "FEE", CardFee, NoKey, <<"order", n>>, "")
    <2>1. ledger' = ledger \cup {x} /\ GoesTo(n, "done")
      BY <1>7 DEF CommitOrder, Posts
    <2>2. Covered(ledger, Holder, n, CardFee, met)
      BY <1>1, <1>7 DEF CommitOrder, Is, FundsInv, Needs
    <2>3. TypedRow(x) /\ x.by = n /\ x.employee = Holder /\ x.type = "FEE" /\ x.total = CardFee
      BY <1>2 DEF Row, TypedRow, AllFields, RowFields, Types
    <2> HIDE DEF x
    <2>4. OneMore(ledger, x, ledger')
      BY <2>1 DEF OneMore
    <2>5. Effect(x) = -CardFee /\ -(-CardFee) = CardFee
      BY <1>2, <2>3 DEF Effect
    <2>6. Pays(ledger, x, met)
      BY <2>2, <2>3, <2>5 DEF Pays, Signed
    <2> QED BY <1>1, <2>1, <2>3, <2>4, <2>6, PostFunds DEF MoneyInv
  <1> QED BY <1>3, <1>5, <1>6, <1>7 DEF CheckOrder, OrderConflicts, Refused, walletVars

LEMMA SumCashbackFunds ==
  ASSUME WalletInv, MoneyInv, FundsInv, NEW n \in Requests, SumCashback(n)
  PROVE  FundsInv'
  <1> DEFINE r == request[n]
             award == Award(CashbackRate * r.event.amount, SumOf(Total, CashbackRows(today)))
  <1>1. UNCHANGED ledger /\ Is(n, "event", "cashback")
    BY DEF SumCashback, walletVars
  <1>2. /\ TellsEvent(r, Marks(ledger, n)) /\ r.at = "cashback" /\ r.op = "event" /\ n \in Busy
        /\ {"at", "op", "earned"} \subseteq DOMAIN r
    <2>1. TellsEvent(r, Marks(ledger, n)) /\ r.at = "cashback" /\ r.op = "event" /\ n \in Busy
      BY <1>1, EventAt DEF MoneyInv, Ended
    <2> QED BY <2>1, InProgress DEF TellsEvent, WalletInv, RequestsInv
  <1>3. CASE GoesTo(n, "done")
    BY <1>1, <1>2, <1>3, EndFunds DEF WalletInv, RequestsInv
  <1>4. CASE ~GoesTo(n, "done")
    <2>1. Becomes(n, [r EXCEPT !.at = "awards", !.earned = award]) /\ ~(award <= 0)
      BY <1>4 DEF SumCashback
    <2>2. award \in Int
      <3>1. CashbackRate * r.event.amount \in Int
        <4>1. PICK a \in Nat : a = r.event.amount
          BY <1>2, EventsAreWhole DEF TellsEvent
        <4>2. PICK b \in Nat : b = CashbackRate
          BY CardIsHeld
        <4> QED BY <4>1, <4>2, ProductIsWhole
      <3> QED BY <3>1, AwardIsWhole DEF MoneyInv
    <2> HIDE DEF award
    <2>3. award >= 0
      BY <2>1, <2>2
    <2> DEFINE s == [r EXCEPT !.at = "awards", !.earned = award]
    <2>4. s.at = "awards" /\ s.op = "event" /\ s.earned = award /\ Becomes(n, s)
      BY <1>2, <2>1
    <2> HIDE DEF s
    <2>5. request'[n] = s /\ (\A m \in Requests \ {n} : request'[m] = request[m]) /\ met' = met
      BY <2>4 DEF Becomes, WalletInv, RequestsInv, HandlerInv, RequestShape
    <2>6. Needs(s, n, ledger, met')
      BY <2>2, <2>3, <2>4 DEF Needs
    <2>7. \A m \in Requests : request'[m] = request[m] \/ Needs(request'[m], m, ledger, met')
      BY <2>5, <2>6
    <2> QED BY <1>1, <2>5, <2>7, QuietFunds
  <1> QED BY <1>3, <1>4

LEMMA EventPostsFunds ==
  ASSUME WalletInv, MoneyInv, FundsInv, NEW n \in Requests, CommitEvent(n) \/ PayCashback(n)
  PROVE  FundsInv'
  <1> DEFINE r == request[n]
  <1>1. n \in Busy /\ HandlerInv /\ TypedRows(ledger) /\ Holder \in Employees
    BY CardIsHeld DEF CommitEvent, PayCashback, Is, Busy, Ended, WalletInv, RequestsInv, MoneyInv
  <1>2. CASE CommitEvent(n)
    <2> DEFINE type == IF r.event.type = "refunded" THEN "REFUND" ELSE "CARD_PURCHASE"
               x == Row(n, Holder, type, Moves(r.event), EventKey(r.event), NoKey, "card")
    <2>1. ledger' = ledger \cup {x} /\ \E at \in {"done", "cashback"} : GoesTo(n, at)
      BY <1>2 DEF CommitEvent, Posts
    <2>2. r.event \in Events
      BY <1>2, EventAt DEF CommitEvent, MoneyInv, Ended, TellsEvent
    <2>3. PICK a \in Nat : a = r.event.amount
      BY <2>2, EventsAreWhole
    <2>4. TypedRow(x) /\ x.by = n /\ x.type = type /\ x.total = Moves(r.event)
      BY <1>1, <2>2, <2>3 DEF Row, TypedRow, AllFields, RowFields, Types, Moves
    <2> HIDE DEF x
    <2>5. /\ Effect(x) \in Int
          /\ x.type = "REFUND" => Effect(x) >= 0
          /\ x.type = "CARD_PURCHASE" => Effect(x) <= 0
      BY <2>3, <2>4 DEF Effect, Moves
    <2>6. Pays(ledger, x, met)
      BY <2>4, <2>5 DEF Pays, Signed
    <2>7. OneMore(ledger, x, ledger')
      BY <2>1 DEF OneMore
    <2> QED BY <1>1, <2>1, <2>4, <2>6, <2>7, PostFunds
  <1>3. CASE PayCashback(n)
    <2> DEFINE award == r.earned
               x == Row(n, Holder, "CASHBACK", award, NoKey, NoKey, "")
    <2>1. ledger' = ledger \cup {x} /\ GoesTo(n, "done")
      BY <1>3 DEF PayCashback, Posts
    <2>2. award \in Int /\ award >= 0
      BY <1>3 DEF PayCashback, Is, FundsInv, Needs
    <2>3. TypedRow(x) /\ x.by = n /\ x.type = "CASHBACK" /\ x.total = award
      BY <1>1, <2>2 DEF Row, TypedRow, AllFields, RowFields, Types
    <2> HIDE DEF x, award
    <2>4. Effect(x) = award
      BY <2>3 DEF Effect
    <2>5. Pays(ledger, x, met)
      BY <2>2, <2>3, <2>4 DEF Pays, Signed
    <2>6. OneMore(ledger, x, ledger')
      BY <2>1 DEF OneMore
    <2> QED BY <1>1, <2>1, <2>3, <2>5, <2>6, PostFunds
  <1> QED BY <1>2, <1>3

LEMMA CardFunds == ASSUME WalletInv, MoneyInv, FundsInv, CardNext PROVE FundsInv'
  <1>1. CASE ControlArrives \/ StatusEvent \/ Manage("tokenize")
    <2>1. Enters(Managing \cup {"status"}) /\ UNCHANGED ledger
      BY <1>1 DEF Enters, ControlArrives, Manage, StatusEvent, IsRequest, NotYet, Managing, walletVars
    <2> QED BY <2>1, Entering, OthersFunds DEF Managing, OpsInNeed, WalletInv, RequestsInv
  <1>2. CASE OrderCard
    <2> DEFINE r == [op |-> "order", at |-> "checks"]
    <2>1. IsRequest(r) /\ r # NotYet /\ r.at = "checks"
      BY DEF IsRequest, NotYet
    <2>2. Arrives(r) /\ UNCHANGED ledger
      BY <1>2 DEF OrderCard, walletVars
    <2> HIDE DEF r
    <2> QED BY <2>1, <2>2, ArrivalFunds DEF WalletInv, RequestsInv
  <1>3. CASE EventArrives
    <2>1. PICK e \in Events : TransactionEvent(e)
      BY <1>3 DEF EventArrives
    <2> DEFINE r == [op |-> "event", at |-> "finds card", event |-> e, spent |-> 0, day |-> 0, earned |-> 0]
    <2>2. IsRequest(r) /\ r # NotYet /\ r.at = "finds card"
      BY DEF IsRequest, NotYet
    <2>3. Arrives(r) /\ UNCHANGED ledger
      BY <2>1 DEF TransactionEvent, walletVars
    <2> HIDE DEF r
    <2> QED BY <2>2, <2>3, ArrivalFunds DEF WalletInv, RequestsInv
  <1>4. CASE IssuerExpires
    BY <1>4 DEF IssuerExpires, sharedVars, walletVars, handlerVars, FundsInv
  <1>5. ASSUME NEW n \in Requests, CardSteps(n) PROVE FundsInv'
    <2>1. CASE \/ ReadCard(n) \/ AskIssuer(n) \/ IssuerRefuses(n) \/ WriteCard(n)
               \/ ReadStatusEvent(n) \/ WriteStatusEvent(n)
      <3>1. UNCHANGED ledger /\ n \in Busy /\ request[n].op \in Managing \cup {"status"} /\ Proceeds(n)
        BY <2>1 DEF ReadCard, AskIssuer, IssuerRefuses, WriteCard, ReadStatusEvent, WriteStatusEvent, Refused,
                    Proceeds, Manages, Is, Busy, Ended, walletVars
      <3>2. HandlerStep(Managing \cup {"status"})
        BY <3>1, Proceeding DEF WalletInv, RequestsInv
      <3> QED BY <3>1, <3>2, OthersFunds DEF Managing, OpsInNeed
    <2>2. CASE ReadEventCard(n) \/ CheckEvent(n) \/ EventConflicts(n)
      <3>1. UNCHANGED ledger /\ n \in Busy /\ request[n].op = "event"
        BY <2>2 DEF ReadEventCard, CheckEvent, EventConflicts, Refused, Is, Busy, Ended, walletVars
      <3>2. CASE \E at \in {"done", "refused"} : GoesTo(n, at)
        BY <3>1, <3>2, EndFunds DEF WalletInv, RequestsInv
      <3>3. ASSUME NEW at \in {"replay check", "writes"}, NEW spent, NEW day,
                   Becomes(n, [request[n] EXCEPT !.at = at, !.spent = spent, !.day = day])
            PROVE  FundsInv'
        <4> DEFINE s == [request[n] EXCEPT !.at = at, !.spent = spent, !.day = day]
        <4>1. {"at", "op"} \subseteq DOMAIN request[n] /\ n \in Requests
          BY <3>1, InProgress DEF WalletInv, RequestsInv
        <4>2. s.at = at /\ s.op = "event" /\ Becomes(n, s)
          BY <3>1, <3>3, <4>1
        <4> HIDE DEF s
        <4>3. request'[n] = s /\ (\A m \in Requests \ {n} : request'[m] = request[m]) /\ met' = met
          BY <4>1, <4>2 DEF Becomes, WalletInv, RequestsInv, HandlerInv, RequestShape
        <4>4. Needs(s, n, ledger, met')
          BY <4>2 DEF Needs
        <4>5. \A m \in Requests : request'[m] = request[m] \/ Needs(request'[m], m, ledger, met')
          BY <4>3, <4>4
        <4> QED BY <3>1, <4>3, <4>5, QuietFunds
      <3>4. CASE ReadEventCard(n)
        <4>1. Becomes(n, [request[n] EXCEPT !.at = "replay check", !.spent = card.spent, !.day = card.day])
          BY <3>4 DEF ReadEventCard
        <4> QED BY <4>1, <3>3
      <3>5. CASE CheckEvent(n) /\ ~GoesTo(n, "done")
        <4>1. Becomes(n, [request[n] EXCEPT !.at = "writes", !.day = today,
                                            !.spent = NextSpent(request[n].day, request[n].spent, request[n].event)])
          BY <3>5 DEF CheckEvent
        <4> DEFINE spent == NextSpent(request[n].day, request[n].spent, request[n].event)
        <4>2. Becomes(n, [request[n] EXCEPT !.at = "writes", !.spent = spent, !.day = today])
          <5> HIDE DEF spent
          <5>1. [request[n] EXCEPT !.at = "writes", !.spent = spent, !.day = today]
                  = [request[n] EXCEPT !.at = "writes", !.day = today, !.spent = spent]
            OBVIOUS
          <5> USE DEF spent
          <5> QED BY <4>1, <5>1
        <4> HIDE DEF spent
        <4> QED BY <4>2, <3>3
      <3> QED BY <2>2, <3>2, <3>4, <3>5 DEF CheckEvent, EventConflicts, Refused
    <2> QED BY <1>5, <2>1, <2>2, OrderFunds, SumCashbackFunds, EventPostsFunds DEF CardSteps
  <1> QED BY <1>1, <1>2, <1>3, <1>4, <1>5 DEF CardNext

LEMMA OtherFunds ==
  ASSUME WalletInv, MoneyInv, FundsInv, AuthorizeNext \/ LoanNext \/ PhoneNext \/ KeyedNext
  PROVE  FundsInv'
  <1>1. UNCHANGED ledger
    BY OtherRows
  <1>2. PICK ops \in {{"authorize"}, LoanOps, PhoneOps, {"keyed"}} : HandlerStep(ops)
    BY AuthorizeRequests, LoanRequests, PhoneRequests, KeyedRequests DEF WalletInv, RequestsInv
  <1> QED BY <1>1, <1>2, OthersFunds DEF LoanOps, PhoneOps, OpsInNeed

LEMMA FaultFunds == ASSUME WalletInv, MoneyInv, FundsInv, Fault PROVE FundsInv'
  <1>1. PICK n \in Requests :
          \/ Dies(n)
          \/ TransferIsLost(n) /\ TransferFrame
          \/ RailAnswerIsLost(n) /\ RemittanceFrame
          \/ AppIsKilled /\ PhoneFrame
          \/ OtherFault(n)
    BY DEF Fault, OtherFault
  <1>2. CASE Dies(n)
    <2>1. n \in Busy /\ GoesTo(n, "died") /\ UNCHANGED ledger
      BY <1>2 DEF Dies, walletVars
    <2> QED BY <2>1, EndFunds DEF WalletInv, RequestsInv
  <1>3. CASE AppIsKilled /\ PhoneFrame
    <2>1. HandlerStep(PhoneOps) /\ UNCHANGED ledger
      BY <1>3, KillRequests DEF AppIsKilled, PhoneFrame, walletVars, WalletInv, RequestsInv
    <2> QED BY <2>1, OthersFunds DEF PhoneOps, OpsInNeed
  <1>4. CASE OtherFault(n)
    <2>1. UNCHANGED ledger
      BY <1>4 DEF OtherFault, RedisFails, Scores, CountsOn, Answers, AuthorizeFrame, LenderAnswerIsLost, LoanFrame,
                  KeyIsNotRead, KeyedTo, AnswerIsNotStored, KeyedFrame, walletVars, sharedVars
    <2> QED BY <1>4, <2>1, OtherFaultRequests, OthersFunds DEF WalletInv, RequestsInv, OpsInNeed, LoanOps
  <1> QED BY <1>1, <1>2, <1>3, <1>4, TransferFunds, RemittanceFunds

LEMMA FundsStart == Init => FundsInv
  <1> SUFFICES ASSUME Init PROVE FundsInv
    OBVIOUS
  <1>1. ledger = {} /\ \A n \in Requests : request[n] = NotYet
    BY DEF Init, InitShared, InitHandlers
  <1>2. \A e : Rest(ledger, e) = {} /\ Purchases(ledger, e) = {} /\ OfGoal(ledger, e) = {}
    BY <1>1 DEF Rest, Purchases, OfGoal
  <1>3. ASSUME NEW e \in Employees PROVE Moved(Purchases(ledger, e)) <= 0 /\ ~(LeftOf(ledger, e) < 0)
    <2>1. Moved(Purchases(ledger, e)) = 0 /\ Moved(Rest(ledger, e)) = 0
      BY <1>2, MovedByNone
    <2>2. PICK o \in Nat : o = Opening[e]
      BY OpeningIsNatural
    <2>3. LeftOf(ledger, e) = o
      BY <2>1, <2>2 DEF LeftOf
    <2> QED BY <2>1, <2>3
  <1>4. \A g : ~(Held(ledger, g) < 0)
    BY <1>2, MovedByNone DEF Held
  <1>5. Sound(ledger, met)
    BY <1>1, <1>3, <1>4 DEF Sound
  <1>6. \A n \in Requests : Needs(request[n], n, ledger, met)
    BY <1>1, NotYetEnded, NeedsNothing
  <1> QED BY <1>5, <1>6 DEF FundsInv

LEMMA FundsGoOn == WalletInv /\ MoneyInv /\ FundsInv /\ [Next]_vars => FundsInv'
  <1> SUFFICES ASSUME WalletInv, MoneyInv, FundsInv, [Next]_vars PROVE FundsInv'
    OBVIOUS
  <1>1. CASE Passes
    BY <1>1 DEF Passes, NextDay, planeVars, handlerVars, FundsInv
  <1>2. CASE UNCHANGED vars
    BY <1>2 DEF vars, sharedVars, walletVars, handlerVars, planeVars, FundsInv
  <1> QED BY <1>1, <1>2, TransferFunds, SavingsFunds, RemittanceFunds, CardFunds, OtherFunds, FaultFunds DEF Next

LEMMA FundsDoNotRunOut == MoneyInv /\ FundsInv => OverdraftNeedsOverlap
  <1> SUFFICES ASSUME MoneyInv, FundsInv PROVE OverdraftNeedsOverlap
    OBVIOUS
  <1>1. ASSUME NEW e \in Employees, wallet[e] + Purchased(e) < 0 PROVE SomeOverlap(CheckedDebits(e))
    <2>1. TypedRows(ledger) /\ wallet[e] = Opening[e] + Moved(OfEmployee(ledger, e))
      BY DEF MoneyInv, Explains
    <2>2. /\ LeftOf(ledger, e) \in Int /\ Moved(Rest(ledger, e)) \in Int /\ Moved(Purchases(ledger, e)) \in Int
          /\ LeftOf(ledger, e) = Opening[e] + Moved(Rest(ledger, e)) /\ Opening[e] \in Int
      BY <2>1, LeftIsWhole, OpeningIsNatural DEF LeftOf
    <2>3. Moved(OfEmployee(ledger, e)) = Moved(Rest(ledger, e)) + Moved(Purchases(ledger, e))
      BY <2>1, MovedSplits
    <2>4. Purchased(e) = -Moved(Purchases(ledger, e))
      <3>1. {row \in RowsOf(e) : row.type = "CARD_PURCHASE"} = Purchases(ledger, e)
        BY DEF RowsOf, Purchases
      <3> QED BY <3>1 DEF Purchased, Moved
    <2>5. wallet[e] + Purchased(e) = LeftOf(ledger, e)
      BY <2>1, <2>2, <2>3, <2>4
    <2>6. Clash(Debits(ledger, e), met)
      BY <1>1, <2>5 DEF FundsInv, Sound
    <2>7. Debits(ledger, e) = CheckedDebits(e)
      BY DEF Debits, CheckedDebits, RowsOf
    <2> QED BY <2>6, <2>7 DEF Clash, SomeOverlap, Overlapped
  <1>2. ASSUME NEW g \in Goals, goal[g].saved < 0 PROVE SomeOverlap(Withdrawals(g))
    <2>1. Clash(Takes(ledger, g), met)
      BY <1>2 DEF MoneyInv, GoalsExplained, Held, FundsInv, Sound
    <2>2. Takes(ledger, g) = Withdrawals(g)
      BY DEF Takes, Withdrawals
    <2> QED BY <2>1, <2>2 DEF Clash, SomeOverlap, Overlapped
  <1> QED BY <1>1, <1>2 DEF OverdraftNeedsOverlap

(* What employees have left, but for their card purchases, and what a goal *)
(* holds, goes below zero only by requests that were in progress at once:  *)
(* each request that takes from it has checked it, and finds it as it was  *)
(* unless another one, which it has met, has been there before it.         *)
THEOREM OverdraftNeedsOverlapHolds == Spec => []OverdraftNeedsOverlap
  <1>1. WalletInv /\ MoneyInv /\ FundsInv /\ [Next]_vars => WalletInv' /\ MoneyInv' /\ FundsInv'
    BY WalletGoesOn, MoneyGoesOn, FundsGoOn
  <1> QED BY <1>1, WalletStarts, MoneyStarts, FundsStart, FundsDoNotRunOut, PTL DEF Spec

(***************************************************************************)
(* What is done once only.  What a service has no part in stays: the rows  *)
(* of other types, and the requests of other operations.                   *)
(***************************************************************************)
Rewrites(types) ==
  /\ \A row \in ledger' : row \in ledger \/ row.type \in types
  /\ \A row \in ledger : row \in ledger' \/ row.type \in types

OfType(rows, type) == {row \in rows : row.type = type}

LEMMA RewritesNothing == ASSUME UNCHANGED ledger PROVE \A types : Rewrites(types)
  BY DEF Rewrites

LEMMA RewritesOthers ==
  ASSUME NEW types, Rewrites(types), NEW type, type \notin types
  PROVE  OfType(ledger', type) = OfType(ledger, type)
  BY DEF Rewrites, OfType

CardTypes == {"FEE", "REFUND", "CARD_PURCHASE", "CASHBACK"}

LEMMA RewritesOne ==
  ASSUME NEW row, ledger' = ledger \cup {row}, NEW types, row.type \in types
  PROVE  Rewrites(types)
  BY DEF Rewrites

LEMMA TransferRewrites ==
  ASSUME TransferNext, \A n \in Requests : ~PayReward(n)
  PROVE  Rewrites({"TRANSFER", "RECEIVE"})
  <1>1. CASE \E n \in Requests : CommitTransfer(n)
    <2>1. PICK n \in Requests : CommitTransfer(n)
      BY <1>1
    <2> DEFINE r == request[n]
               x == Row(n, r.from, "TRANSFER", -(r.amount + FeeOf(r.from)), r.key, NoKey, "")
               y == Row(n, r.to, "RECEIVE", r.amount, NoKey, NoKey, "")
    <2>2. ledger' = ledger \cup {x, y}
      BY <2>1 DEF CommitTransfer, Posts
    <2>3. x.type = "TRANSFER" /\ y.type = "RECEIVE"
      BY DEF Row
    <2> HIDE DEF x, y
    <2> QED BY <2>2, <2>3 DEF Rewrites
  <1>2. CASE UNCHANGED ledger
    BY <1>2, RewritesNothing
  <1> QED BY <1>1, <1>2 DEF TransferNext, TransferArrives, Transfer, TransferSteps, CheckReplay, CheckTransfer,
                            TransferConflicts, FindReferral, Refused, walletVars

LEMMA RewardRewrites == ASSUME NEW n \in Requests, PayReward(n) PROVE Rewrites({"REFERRAL_REWARD"})
  <1> DEFINE RewardTo(e) == Row(n, e, "REFERRAL_REWARD", Reward, NoKey, <<"referral", request[n].to>>, "")
             rows == {RewardTo(e) : e \in RewardedSides(Referrer[request[n].to], request[n].to)}
  <1>1. ledger' = ledger \cup rows
    BY DEF PayReward, Posts
  <1>2. \A e : RewardTo(e).type = "REFERRAL_REWARD"
    BY DEF Row
  <1>3. \A row \in rows : row.type = "REFERRAL_REWARD"
    BY <1>2
  <1> HIDE DEF rows
  <1> QED BY <1>1, <1>3 DEF Rewrites

LEMMA SavingsRewrites == ASSUME SavingsNext PROVE Rewrites({"SAVINGS_TRANSFER"})
  <1>1. CASE \E n \in Requests : CommitDeposit(n) \/ CommitWithdrawal(n)
    <2>1. PICK n \in Requests : CommitDeposit(n) \/ CommitWithdrawal(n)
      BY <1>1
    <2> DEFINE row(note) == Row(n, request[n].who, "SAVINGS_TRANSFER", request[n].amount, NoKey,
                                <<"goal", request[n].goal>>, note)
    <2>2. PICK note : ledger' = ledger \cup {row(note)}
      BY <2>1 DEF CommitDeposit, CommitWithdrawal, Posts
    <2>3. row(note).type = "SAVINGS_TRANSFER"
      BY DEF Row
    <2> HIDE DEF row
    <2> QED BY <2>2, <2>3, RewritesOne
  <1>2. CASE UNCHANGED ledger
    BY <1>2, RewritesNothing
  <1> QED BY <1>1, <1>2
       DEF SavingsNext, SavingsArrives, AutoSave, Deposit, Withdraw, CreateGoal, SavingsSteps, CheckDeposit,
           CheckWithdrawal, NextAutoSave, walletVars, sharedVars

LEMMA RemittanceRewrites ==
  ASSUME RowShape, RemittanceNext PROVE Rewrites({"REMITTANCE", "REFUND"})
  <1>1. CASE \E n \in Requests : CommitSend(n)
    <2>1. PICK n \in Requests : CommitSend(n)
      BY <1>1
    <2> DEFINE row == Row(n, request[n].who, "REMITTANCE", Price, NoKey, <<"transfer", n>>, "")
    <2>2. ledger' = ledger \cup {row}
      BY <2>1 DEF CommitSend, Posts
    <2>3. row.type = "REMITTANCE"
      BY DEF Row
    <2> HIDE DEF row
    <2> QED BY <2>2, <2>3, RewritesOne
  <1>2. CASE \E n \in Requests : CommitRefund(n)
    <2>1. PICK n \in Requests : CommitRefund(n)
      BY <1>2
    <2> DEFINE t == request[n].transfer
               Refund(row) == Row(n, row.employee, "REFUND", row.total, KeyOfRefund(t), <<"transfer", t>>, "")
    <2>5. \A row : Refund(row).type = "REFUND"
      BY DEF Row
    <2>2. PICK row \in RemittanceRows(t) :
            ledger' = (ledger \ {row}) \cup {[row EXCEPT !.status = "FAILED"], Refund(row)}
      BY <2>1 DEF CommitRefund, Posts
    <2> HIDE DEF Refund, t
    <2>3. row \in ledger /\ row.type = "REMITTANCE" /\ RowFields \subseteq DOMAIN row
      BY <2>2 DEF RemittanceRows, RowShape
    <2>4. [row EXCEPT !.status = "FAILED"].type = "REMITTANCE"
      BY <2>3 DEF RowFields
    <2> QED BY <2>5, <2>2, <2>3, <2>4 DEF Rewrites
  <1>3. CASE UNCHANGED ledger
    BY <1>3, RewritesNothing
  <1> QED BY <1>1, <1>2, <1>3
       DEF RemittanceNext, RemittanceArrives, Send, SendQuote, Report, LockQuote, QuoteExpires, RailDecides,
           RemittanceSteps, ReadQuote, DropQuote, CheckSend, CallRail, RailRefuses, FindRemittance, LookForRefund,
           RefundConflicts, Refused, walletVars, sharedVars

LEMMA CardRewrites ==
  ASSUME CardNext
  PROVE  (\E n \in Requests : PayCashback(n) /\ Rewrites({"CASHBACK"})) \/ Rewrites(CardTypes \ {"CASHBACK"})
  <1>1. CASE \E n \in Requests : CommitOrder(n)
    <2>1. PICK n \in Requests : CommitOrder(n)
      BY <1>1
    <2> DEFINE row == Row(n, Holder, "FEE", CardFee, NoKey, <<"order", n>>, "")
    <2>2. ledger' = ledger \cup {row}
      BY <2>1 DEF CommitOrder, Posts
    <2>3. row.type = "FEE"
      BY DEF Row
    <2> HIDE DEF row
    <2>4. row.type \in CardTypes \ {"CASHBACK"}
      BY <2>3 DEF CardTypes
    <2> QED BY <2>2, <2>4, RewritesOne
  <1>2. CASE \E n \in Requests : CommitEvent(n)
    <2>1. PICK n \in Requests : CommitEvent(n)
      BY <1>2
    <2> DEFINE event == request[n].event
               type == IF event.type = "refunded" THEN "REFUND" ELSE "CARD_PURCHASE"
               row == Row(n, Holder, type, Moves(event), EventKey(event), NoKey, "card")
    <2>2. ledger' = ledger \cup {row}
      BY <2>1 DEF CommitEvent, Posts
    <2>3. row.type = type
      BY DEF Row
    <2>4. row.type \in CardTypes \ {"CASHBACK"}
      BY <2>3 DEF CardTypes
    <2> HIDE DEF row
    <2> QED BY <2>2, <2>4, RewritesOne
  <1>3. CASE \E n \in Requests : PayCashback(n)
    <2>1. PICK n \in Requests : PayCashback(n)
      BY <1>3
    <2> DEFINE row == Row(n, Holder, "CASHBACK", request[n].earned, NoKey, NoKey, "")
    <2>2. ledger' = ledger \cup {row}
      BY <2>1 DEF PayCashback, Posts
    <2>3. row.type = "CASHBACK"
      BY DEF Row
    <2> HIDE DEF row
    <2>4. row.type \in {"CASHBACK"}
      BY <2>3
    <2> QED BY <2>1, <2>2, <2>4, RewritesOne
  <1>4. CASE UNCHANGED ledger
    BY <1>4, RewritesNothing
  <1> QED BY <1>1, <1>2, <1>3, <1>4
       DEF CardNext, ControlArrives, Manage, StatusEvent, EventArrives, TransactionEvent, OrderCard, IssuerExpires,
           CardSteps, ReadCard, AskIssuer, IssuerRefuses, WriteCard, ReadStatusEvent, WriteStatusEvent, CheckOrder,
           IssuePlastic, OrderConflicts, ReadEventCard, CheckEvent, EventConflicts, SumCashback, Refused,
           walletVars, sharedVars

(***************************************************************************)
(* A referral is rewarded once: whoever pays it has found the flag down,   *)
(* so those who have paid it since have met him.                           *)
(***************************************************************************)
Rewards(rows, e) == {row \in OfType(rows, "REFERRAL_REWARD") : row.ref = <<"referral", e>>}
AllMet(rows, M) == \A r, s \in rows : r.by # s.by => {r.by, s.by} \in M
HasMet(n, rows, M) == \A row \in rows : row.by # n => {row.by, n} \in M
IsPaying(n) == Is(n, "transfer", "pays reward")

ReferralInv ==
  /\ rewarded \in [DOMAIN Referrer -> BOOLEAN]
  /\ \A row \in OfType(ledger, "REFERRAL_REWARD") :
       \E e \in DOMAIN Referrer : row.ref = <<"referral", e>> /\ rewarded[e]
  /\ \A e \in DOMAIN Referrer : AllMet(Rewards(ledger, e), met)
  /\ \A n \in Requests : IsPaying(n) => HasMet(n, Rewards(ledger, request[n].to), met)

LEMMA OthersKeepReferrals ==
  ASSUME ReferralInv, UNCHANGED rewarded, OfType(ledger', "REFERRAL_REWARD") = OfType(ledger, "REFERRAL_REWARD"),
         met \subseteq met',
         \A n \in Requests : IsPaying(n)' => request'[n] = request[n] \/ Rewards(ledger, request'[n].to) = {}
  PROVE  ReferralInv'
  <1>1. \A e : Rewards(ledger', e) = Rewards(ledger, e)
    BY DEF Rewards
  <1>2. \A rows, n : AllMet(rows, met) => AllMet(rows, met')
    BY DEF AllMet
  <1>3. \A rows, n : HasMet(n, rows, met) => HasMet(n, rows, met')
    BY DEF HasMet
  <1>4. ASSUME NEW n \in Requests, IsPaying(n)' PROVE HasMet(n, Rewards(ledger', request'[n].to), met')
    <2>1. CASE request'[n] = request[n]
      <3>1. IsPaying(n)
        BY <1>4, <2>1 DEF IsPaying, Is
      <3> QED BY <1>1, <1>3, <2>1, <3>1 DEF ReferralInv
    <2>2. CASE Rewards(ledger, request'[n].to) = {}
      BY <1>1, <2>2 DEF HasMet
    <2> QED BY <1>4, <2>1, <2>2
  <1>5. \A e \in DOMAIN Referrer : AllMet(Rewards(ledger', e), met')
    BY <1>1, <1>2 DEF ReferralInv
  <1> QED BY <1>4, <1>5 DEF ReferralInv

LEMMA SparedReferrals ==
  ASSUME ReferralInv, UNCHANGED rewarded, NEW types, Rewrites(types), "REFERRAL_REWARD" \notin types,
         Spares("transfer")
  PROVE  ReferralInv'
  <1>1. \A n \in Requests : IsPaying(n)' => request'[n] = request[n]
    BY DEF Spares, IsPaying, Is, Ended
  <1> QED BY <1>1, RewritesOthers, OthersKeepReferrals DEF Spares

LEMMA PayRewardKeepsReferrals ==
  ASSUME WalletInv, MoneyInv, ReferralInv, NEW n \in Requests, PayReward(n)
  PROVE  ReferralInv'
  <1> DEFINE e == request[n].to
             RewardTo(who) == Row(n, who, "REFERRAL_REWARD", Reward, NoKey, <<"referral", e>>, "")
             new == {RewardTo(who) : who \in RewardedSides(Referrer[e], e)}
  <1>1. IsPaying(n) /\ n \in Busy /\ GoesTo(n, "done")
    BY DEF PayReward, IsPaying, Is, Busy, Ended
  <1>2. e \in DOMAIN Referrer
    BY <1>1 DEF MoneyInv, RequestsTell, Tells, TellsTransfer, IsPaying, Is, Ended
  <1>3. ledger' = ledger \cup new /\ rewarded' = [rewarded EXCEPT ![e] = TRUE]
    BY DEF PayReward, Posts
  <1>4. \A who : RewardTo(who).type = "REFERRAL_REWARD" /\ RewardTo(who).ref = <<"referral", e>> /\ RewardTo(who).by = n
    BY DEF Row
  <1>5. \A row \in new : row.type = "REFERRAL_REWARD" /\ row.ref = <<"referral", e>> /\ row.by = n
    BY <1>4
  <1>6. met' = met /\ request'[n].at = "done" /\ \A m \in Requests \ {n} : request'[m] = request[m]
    BY <1>1, GoingOn DEF GoesTo, Becomes, WalletInv, RequestsInv
  <1> HIDE DEF e, new
  <1>7. rewarded' \in [DOMAIN Referrer -> BOOLEAN] /\ rewarded'[e] /\ \A f \in DOMAIN Referrer : rewarded[f] => rewarded'[f]
    BY <1>2, <1>3 DEF ReferralInv
  <1>8. \A row \in OfType(ledger', "REFERRAL_REWARD") :
          \E f \in DOMAIN Referrer : row.ref = <<"referral", f>> /\ rewarded'[f]
    BY <1>2, <1>3, <1>5, <1>7 DEF ReferralInv, OfType
  <1>9. \A f : \A row \in Rewards(ledger', f) : row \in Rewards(ledger, f) \/ (f = e /\ row.by = n)
    BY <1>3, <1>5 DEF Rewards, OfType
  <1>10. HasMet(n, Rewards(ledger, e), met)
    BY <1>1 DEF ReferralInv, e
  <1>11. \A f \in DOMAIN Referrer : AllMet(Rewards(ledger', f), met)
    BY <1>9, <1>10 DEF ReferralInv, AllMet, HasMet
  <1>12. ASSUME NEW m \in Requests, IsPaying(m)' PROVE HasMet(m, Rewards(ledger', request'[m].to), met)
    <2>1. m # n /\ request'[m] = request[m] /\ IsPaying(m)
      BY <1>6, <1>12 DEF IsPaying, Is
    <2>2. m \in Busy /\ {n, m} \in met
      BY <1>1, <2>1 DEF IsPaying, Is, Busy, Ended, WalletInv, RequestsInv, HandlerInv, BusyMet, Overlapped
    <2>3. HasMet(m, Rewards(ledger, request[m].to), met)
      BY <2>1 DEF ReferralInv
    <2> QED BY <1>9, <2>1, <2>2, <2>3 DEF HasMet
  <1> QED BY <1>6, <1>7, <1>8, <1>11, <1>12 DEF ReferralInv

LEMMA TransfersKeepReferrals ==
  ASSUME WalletInv, MoneyInv, ReferralInv, TransferNext
  PROVE  ReferralInv'
  <1>1. HandlerStep({"transfer"})
    BY TransferRequests DEF WalletInv, RequestsInv
  <1>2. CASE \E n \in Requests : PayReward(n)
    BY <1>2, PayRewardKeepsReferrals
  <1>3. CASE \E n \in Requests : FindReferral(n)
    <2>1. PICK n \in Requests : FindReferral(n)
      BY <1>3
    <2>2. Is(n, "transfer", "reward") /\ n \in Busy /\ UNCHANGED <<ledger, rewarded>>
          /\ GoesTo(n, IF RewardDue(request[n].to) THEN "pays reward" ELSE "done")
      BY <2>1 DEF FindReferral, walletVars, Is, Busy, Ended
    <2>3. CASE RewardDue(request[n].to)
      <3>1. GoesTo(n, "pays reward") /\ "pays reward" # "not yet" /\ "pays reward" \notin Ended
        BY <2>2, <2>3 DEF Ended
      <3>2. "to" \in DOMAIN request[n]
        BY <2>2 DEF MoneyInv, RequestsTell, Tells, TellsTransfer, Is, Ended
      <3>3. request'[n].to = request[n].to /\ \A m \in Requests \ {n} : request'[m] = request[m]
        BY <2>2, <3>1, <3>2, GoingOn DEF WalletInv, RequestsInv
      <3>4. Rewards(ledger, request[n].to) = {}
        BY <2>3 DEF RewardDue, ReferralInv, Rewards
      <3> QED BY <1>1, <2>2, <3>3, <3>4, OthersKeepReferrals DEF HandlerStep
    <2>4. CASE ~RewardDue(request[n].to)
      <3>1. GoesTo(n, "done")
        BY <2>2, <2>4
      <3>2. Spares("transfer")
        BY <2>2, <3>1, EndingIsSpared DEF WalletInv, RequestsInv
      <3>3. Rewrites({})
        BY <2>2, RewritesNothing
      <3> QED BY <2>2, <3>2, <3>3, SparedReferrals
    <2> QED BY <2>3, <2>4
  <1>4. CASE ~\E n \in Requests : PayReward(n) \/ FindReferral(n)
    <2>1. UNCHANGED rewarded
      BY <1>4 DEF TransferNext, TransferArrives, Transfer, TransferSteps, CheckReplay, CheckTransfer,
                  CommitTransfer, TransferConflicts
    <2>2. OfType(ledger', "REFERRAL_REWARD") = OfType(ledger, "REFERRAL_REWARD")
      BY <1>4, TransferRewrites, RewritesOthers
    <2>3. NoneComesTo("pays reward")
      <3>1. CASE TransferArrives
        <4>1. PICK r : IsRequest(r) /\ r # NotYet /\ Arrives(r) /\ r.at \in {"checks", "replay check"}
          <5>1. PICK p \in Payments : Transfer(p)
            BY <3>1 DEF TransferArrives
          <5> DEFINE at == IF p.key = NoKey THEN "checks" ELSE "replay check"
                     r == [op |-> "transfer", at |-> at, from |-> p.from, to |-> p.to, amount |-> p.amount, key |-> p.key]
          <5>2. Arrives(r)
            BY <5>1 DEF Transfer
          <5>3. IsRequest(r) /\ r # NotYet /\ r.at = at /\ at \in {"checks", "replay check"}
            BY DEF IsRequest, NotYet
          <5> HIDE DEF r
          <5> QED BY <5>2, <5>3
        <4> QED BY <4>1, ArrivesElsewhere DEF WalletInv, RequestsInv
      <3>2. CASE \E n \in Requests : TransferSteps(n)
        <4>1. PICK n \in Requests : TransferSteps(n)
          BY <3>2
        <4>2. PICK at \in {"done", "refused", "checks", "writes", "reward"} : GoesTo(n, at) /\ n \in Busy
          BY <1>4, <4>1 DEF TransferSteps, CheckReplay, CheckTransfer, CommitTransfer, TransferConflicts, Refused,
                            AfterTransfer, Is, Busy, Ended
        <4> QED BY <4>2, GoesElsewhere DEF WalletInv, RequestsInv
      <3> QED BY <3>1, <3>2 DEF TransferNext
    <2>4. \A n \in Requests : IsPaying(n)' => request'[n] = request[n]
      BY <2>3 DEF NoneComesTo, IsPaying, Is
    <2> QED BY <1>1, <2>1, <2>2, <2>4, OthersKeepReferrals DEF HandlerStep
  <1> QED BY <1>2, <1>3, <1>4

(* A step of any other service, a death or a lost call spares the referrals. *)
LEMMA OthersSpareReferrals ==
  ASSUME WalletInv, MoneyInv, ReferralInv,
         \/ SavingsNext \/ RemittanceNext \/ CardNext \/ AuthorizeNext \/ LoanNext \/ PhoneNext \/ KeyedNext
         \/ Passes \/ UNCHANGED vars
  PROVE  ReferralInv'
  <1> USE DEF WalletInv, RequestsInv
  <1>1. UNCHANGED rewarded
    BY DEF SavingsNext, SavingsFrame, RemittanceNext, RemittanceFrame, CardNext, CardFrame, AuthorizeNext,
           AuthorizeFrame, LoanNext, LoanFrame, PhoneNext, PhoneFrame, KeyedNext, KeyedFrame, Passes, planeVars, vars
  <1>2. CASE SavingsNext
    BY <1>1, <1>2, SavingsRequests, SavingsRewrites, OthersAreSpared, SparedReferrals DEF SavingsOps
  <1>3. CASE RemittanceNext
    BY <1>1, <1>3, RemittanceRequests, RemittanceRewrites, OthersAreSpared, SparedReferrals DEF RemittanceOps, KeyInv
  <1>4. CASE CardNext
    <2>1. PICK types \in {{"CASHBACK"}, CardTypes \ {"CASHBACK"}} : Rewrites(types)
      BY <1>4, CardRewrites
    <2> QED BY <1>1, <1>4, <2>1, CardRequests, OthersAreSpared, SparedReferrals DEF CardOps, Managing, CardTypes
  <1>5. CASE AuthorizeNext \/ LoanNext \/ PhoneNext \/ KeyedNext
    <2>1. "transfer" \notin LoanOps /\ "transfer" \notin PhoneOps /\ "transfer" \notin {"authorize"}
          /\ "transfer" \notin {"keyed"}
      BY DEF LoanOps, PhoneOps
    <2>2. Rewrites({})
      BY <1>5, OtherRows, RewritesNothing
    <2>3. Spares("transfer")
      BY <1>5, <2>1, AuthorizeRequests, LoanRequests, PhoneRequests, KeyedRequests, OthersAreSpared
    <2> QED BY <1>1, <2>2, <2>3, SparedReferrals
  <1>6. CASE Passes \/ UNCHANGED vars
    <2>1. UNCHANGED <<ledger, handlerVars>>
      BY <1>6 DEF Passes, NextDay, vars, sharedVars, walletVars
    <2>2. HandlerStep({}) /\ Rewrites({})
      BY <2>1, HandlersRest, RewritesNothing
    <2> QED BY <1>1, <2>2, OthersAreSpared, SparedReferrals
  <1> QED BY <1>2, <1>3, <1>4, <1>5, <1>6

(* What a fault leaves: the rows, and every request but those that end and *)
(* a transfer, which may go on.                                            *)
LEMMA FaultSpares ==
  ASSUME WalletInv, Fault
  PROVE  /\ UNCHANGED <<ledger, today, rewarded, quote>>
         /\ Spares("send") /\ Spares("event")
         /\ \/ \E n \in Requests : TransferIsLost(n)
            \/ Spares("transfer")
  <1> USE DEF WalletInv, RequestsInv
  <1>1. PICK n \in Requests :
          \/ Dies(n)
          \/ TransferIsLost(n) /\ TransferFrame
          \/ RailAnswerIsLost(n) /\ RemittanceFrame
          \/ AppIsKilled /\ PhoneFrame
          \/ OtherFault(n)
    BY DEF Fault, OtherFault
  <1>2. UNCHANGED <<ledger, today, rewarded, quote>>
    BY <1>1 DEF Dies, TransferIsLost, TransferFrame, RailAnswerIsLost, RemittanceFrame, AppIsKilled, PhoneFrame,
                OtherFault, RedisFails, Scores, CountsOn, Answers, AuthorizeFrame, LenderAnswerIsLost, LoanFrame,
                KeyIsNotRead, KeyedTo, AnswerIsNotStored, KeyedFrame, walletVars, sharedVars, planeVars, remittanceVars
  <1>3. CASE Dies(n) \/ RailAnswerIsLost(n)
    <2>1. n \in Busy /\ GoesTo(n, "died")
      BY <1>3 DEF Dies, RailAnswerIsLost, Is, Busy, Ended
    <2> QED BY <1>2, <2>1, EndingIsSpared
  <1>4. CASE TransferIsLost(n)
    <2>1. n \in Busy /\ request[n].op = "transfer"
      BY <1>4 DEF TransferIsLost, Is, Busy, Ended
    <2>2. PICK at \in {"reward", "done"} : GoesTo(n, at)
      BY <1>4 DEF TransferIsLost, AfterTransfer
    <2>3. HandlerStep({"transfer"})
      BY <2>1, <2>2, Going
    <2> QED BY <1>2, <1>4, <2>3, OthersAreSpared
  <1>5. CASE AppIsKilled
    <2>1. HandlerStep(PhoneOps) /\ PhoneOps \cap {"send", "event", "transfer"} = {}
      BY <1>5, KillRequests DEF PhoneOps
    <2> QED BY <1>2, <2>1, OthersAreSpared
  <1>6. CASE OtherFault(n)
    BY <1>2, <1>6, OtherFaultRequests, OthersAreSpared
  <1> QED BY <1>1, <1>3, <1>4, <1>5, <1>6

LEMMA FaultKeepsReferrals ==
  ASSUME WalletInv, MoneyInv, ReferralInv, Fault
  PROVE  ReferralInv'
  <1>1. UNCHANGED <<ledger, rewarded>>
    BY FaultSpares
  <1>2. Rewrites({})
    BY <1>1, RewritesNothing
  <1>3. CASE Spares("transfer")
    BY <1>1, <1>2, <1>3, SparedReferrals
  <1>4. CASE \E n \in Requests : TransferIsLost(n)
    <2>1. PICK n \in Requests, at \in {"reward", "done"} : GoesTo(n, at) /\ n \in Busy
      BY <1>4 DEF TransferIsLost, AfterTransfer, Is, Busy, Ended
    <2>2. NoneComesTo("pays reward")
      BY <2>1, GoesElsewhere DEF WalletInv, RequestsInv
    <2> QED BY <1>1, <2>2, OthersKeepReferrals DEF NoneComesTo, IsPaying, Is
  <1> QED BY <1>3, <1>4, FaultSpares

LEMMA ReferralsGoOn ==
  ASSUME WalletInv, MoneyInv, ReferralInv, [Next]_vars
  PROVE  ReferralInv'
  BY TransfersKeepReferrals, OthersSpareReferrals, FaultKeepsReferrals DEF Next

LEMMA ReferralsStart == Init => ReferralInv
  <1> SUFFICES ASSUME Init PROVE ReferralInv
    OBVIOUS
  <1>1. ledger = {} /\ rewarded = [e \in DOMAIN Referrer |-> FALSE] /\ \A n \in Requests : request[n] = NotYet
    BY DEF Init, InitShared, InitTransfers, InitHandlers
  <1>2. \A n \in Requests : ~IsPaying(n)
    BY <1>1, NotYetEnded DEF IsPaying, Is, Ended
  <1> QED BY <1>1, <1>2 DEF ReferralInv, OfType, Rewards, AllMet

(***************************************************************************)
(* A locked quote is sent once: who has sent it has dropped it before, so  *)
(* whoever holds it as well has read it earlier, and has met him.          *)
(***************************************************************************)
QuoteNeeds(r, n, quotes, sends, M) ==
  r.op = "send" /\ r.at \notin Ended =>
    /\ "quote" \in DOMAIN r /\ r.quote \in Quotes \cup {"direct"}
    /\ r.at \in {"reads quote", "drops quote"} => r.quote \in Quotes
    /\ r.quote \in Quotes /\ r.at \in {"checks", "calls rail"} => quotes[r.quote] = "gone"
    /\ r.quote \in Quotes /\ r.at \in {"drops quote", "checks", "calls rail"} =>
         \A m \in Requests : m # n /\ sends[m] = r.quote => {m, n} \in M

QuotesOnce(quotes, sends, M) ==
  /\ quotes \in [Quotes -> {"none", "locked", "gone"}]
  /\ sends \in [Requests -> Quotes \cup {"direct", "nothing"}]
  /\ \A n \in Requests : sends[n] \in Quotes => quotes[sends[n]] = "gone"
  /\ \A m, n \in Requests : m # n /\ sends[m] = sends[n] /\ sends[m] \in Quotes => {m, n} \in M

QuoteInv == QuotesOnce(quote, sent, met) /\ \A n \in Requests : QuoteNeeds(request[n], n, quote, sent, met)

LEMMA QuotesKept ==
  ASSUME QuoteInv, UNCHANGED sent, quote' \in [Quotes -> {"none", "locked", "gone"}],
         \A q \in Quotes : quote[q] = "gone" => quote'[q] = "gone", met \subseteq met',
         \A n \in Requests : request'[n] = request[n] \/ QuoteNeeds(request'[n], n, quote', sent, met')
  PROVE  QuoteInv'
  <1>1. QuotesOnce(quote', sent, met')
    BY DEF QuoteInv, QuotesOnce
  <1>2. ASSUME NEW n \in Requests PROVE QuoteNeeds(request'[n], n, quote', sent, met')
    <2>1. CASE request'[n] = request[n]
      BY <2>1 DEF QuoteInv, QuoteNeeds
    <2> QED BY <2>1
  <1> QED BY <1>1, <1>2 DEF QuoteInv

LEMMA SparedQuotes ==
  ASSUME QuoteInv, UNCHANGED <<quote, sent>>, Spares("send")
  PROVE  QuoteInv'
  <1>1. \A n \in Requests : request'[n] = request[n] \/ QuoteNeeds(request'[n], n, quote', sent, met')
    BY DEF Spares, QuoteNeeds
  <1> QED BY <1>1, QuotesKept DEF Spares, QuoteInv, QuotesOnce

(* A send that goes on. *)
LEMMA SendGoes ==
  ASSUME HandlerInv, QuoteInv, UNCHANGED sent, NEW n \in Busy, request[n].op = "send",
         quote' \in [Quotes -> {"none", "locked", "gone"}], \A q \in Quotes : quote[q] = "gone" => quote'[q] = "gone",
         NEW at \in {"drops quote", "checks", "calls rail", "done", "refused"}, GoesTo(n, at),
         at = "drops quote" => request[n].quote \in Quotes,
         at \in {"checks", "calls rail"} /\ request[n].quote \in Quotes => quote'[request[n].quote] = "gone",
         \/ at \notin {"drops quote", "checks", "calls rail"}
         \/ request[n].at \in {"drops quote", "checks"}
         \/ request[n].quote \in Quotes /\ quote[request[n].quote] = "locked"
  PROVE  QuoteInv'
  <1>2. met' = met
    BY DEF GoesTo, Becomes
  <1>3. at # "not yet" /\ n \in Requests /\ request[n].at \notin Ended
    BY DEF Busy
  <1>4. /\ request'[n].at = at /\ request'[n].op = "send"
        /\ \A m \in Requests \ {n} : request'[m] = request[m]
        /\ at \notin Ended => DOMAIN request'[n] = DOMAIN request[n]
                              /\ \A f \in DOMAIN request[n] \ {"at"} : request'[n][f] = request[n][f]
    BY <1>3, GoingOn
  <1>5. QuoteNeeds(request[n], n, quote, sent, met) /\ QuotesOnce(quote, sent, met)
    BY <1>3 DEF QuoteInv
  <1>6. "quote" \in DOMAIN request[n] /\ request[n].quote \in Quotes \cup {"direct"}
    BY <1>3, <1>5 DEF QuoteNeeds
  <1>7. at \notin Ended => "quote" \in DOMAIN request'[n] /\ request'[n].quote = request[n].quote
    BY <1>4, <1>6
  <1>8. at \in {"drops quote", "checks", "calls rail"} /\ request[n].quote \in Quotes =>
          \A m \in Requests : m # n /\ sent[m] = request[n].quote => {m, n} \in met
    BY <1>3, <1>5 DEF QuoteNeeds, QuotesOnce
  <1>9. QuoteNeeds(request'[n], n, quote', sent, met')
    BY <1>2, <1>4, <1>6, <1>7, <1>8 DEF QuoteNeeds
  <1> QED BY <1>2, <1>4, <1>9, QuotesKept

(* MoneyHash has been called, whatever comes of it. *)
LEMMA SendsQuote ==
  ASSUME HandlerInv, QuoteInv, UNCHANGED quote, NEW n \in Requests, Is(n, "send", "calls rail"),
         sent' = [sent EXCEPT ![n] = request[n].quote],
         NEW at \in {"debits", "died"}, GoesTo(n, at)
  PROVE  QuoteInv'
  <1>1. n \in Busy /\ met' = met /\ at # "not yet"
    BY DEF Is, Busy, Ended, GoesTo, Becomes
  <1>2. /\ request'[n].at = at /\ request'[n].op = "send"
        /\ \A m \in Requests \ {n} : request'[m] = request[m]
        /\ at \notin Ended => DOMAIN request'[n] = DOMAIN request[n]
                              /\ \A f \in DOMAIN request[n] \ {"at"} : request'[n][f] = request[n][f]
    BY <1>1, GoingOn DEF Is
  <1>3. QuoteNeeds(request[n], n, quote, sent, met) /\ QuotesOnce(quote, sent, met)
    BY DEF QuoteInv
  <1>4. PICK q \in Quotes \cup {"direct"} :
          /\ q = request[n].quote /\ "quote" \in DOMAIN request[n]
          /\ q \in Quotes => quote[q] = "gone" /\ \A m \in Requests : m # n /\ sent[m] = q => {m, n} \in met
    BY <1>3 DEF QuoteNeeds, Is, Ended
  <1>5. sent'[n] = q /\ \A m \in Requests \ {n} : sent'[m] = sent[m]
    BY <1>3, <1>4 DEF QuotesOnce
  <1>6. QuotesOnce(quote', sent', met')
    <2>1. sent' \in [Requests -> Quotes \cup {"direct", "nothing"}]
      BY <1>3, <1>4 DEF QuotesOnce
    <2>2. \A m \in Requests : sent'[m] \in Quotes => quote[sent'[m]] = "gone"
      BY <1>3, <1>4, <1>5 DEF QuotesOnce
    <2>3. ASSUME NEW l \in Requests, NEW m \in Requests, l # m, sent'[l] = sent'[m], sent'[l] \in Quotes
          PROVE  {l, m} \in met
      <3>1. CASE l = n
        <4>1. {m, n} \in met /\ {m, n} = {l, m}
          BY <1>4, <1>5, <2>3, <3>1
        <4> QED BY <4>1
      <3>2. CASE m = n
        BY <1>4, <1>5, <2>3, <3>2
      <3>3. CASE l # n /\ m # n
        BY <1>3, <1>5, <2>3, <3>3 DEF QuotesOnce
      <3> QED BY <3>1, <3>2, <3>3
    <2> QED BY <1>1, <1>3, <2>1, <2>2, <2>3 DEF QuotesOnce
  <1>7. ASSUME NEW l \in Requests PROVE QuoteNeeds(request'[l], l, quote', sent', met')
    <2>1. CASE l = n
      <3>1. at \notin Ended => "quote" \in DOMAIN request'[n] /\ request'[n].quote = q
        BY <1>2, <1>4
      <3> QED BY <1>2, <2>1, <3>1 DEF QuoteNeeds
    <2>2. CASE l # n
      <3>1. request'[l] = request[l] /\ QuoteNeeds(request[l], l, quote, sent, met)
        BY <1>2, <2>2 DEF QuoteInv
      <3>2. request[l].at \notin Ended => {n, l} \in met
        BY <1>1, <2>2 DEF HandlerInv, BusyMet, Overlapped, Busy
      <3> QED BY <1>1, <1>5, <3>1, <3>2 DEF QuoteNeeds
    <2> QED BY <2>1, <2>2
  <1> QED BY <1>6, <1>7 DEF QuoteInv

LEMMA SendAsksQuote ==
  ASSUME QuoteInv, NEW n \in Requests, request[n].op = "send", request[n].at \notin Ended
  PROVE  QuoteNeeds(request[n], n, quote, sent, met) /\ QuotesOnce(quote, sent, met)
  BY DEF QuoteInv

LEMMA ReadQuoteKeeps ==
  ASSUME HandlerInv, QuoteInv, NEW n \in Requests, ReadQuote(n)
  PROVE  QuoteInv'
  <1>1. /\ n \in Busy /\ Is(n, "send", "reads quote") /\ UNCHANGED <<quote, sent>>
        /\ GoesTo(n, IF quote[request[n].quote] = "locked" /\ QuoteHolder[request[n].quote] = request[n].who
                       THEN "drops quote" ELSE "refused")
    BY DEF ReadQuote, Is, Busy, Ended, remittanceVars
  <1>2. request[n].quote \in Quotes /\ quote \in [Quotes -> {"none", "locked", "gone"}]
    BY <1>1, SendAsksQuote DEF Is, Ended, QuoteNeeds, QuotesOnce
  <1>3. CASE quote[request[n].quote] = "locked" /\ QuoteHolder[request[n].quote] = request[n].who
    <2>1. GoesTo(n, "drops quote")
      BY <1>1, <1>3
    <2> QED BY <1>1, <1>2, <1>3, <2>1, SendGoes DEF Is
  <1>4. CASE ~(quote[request[n].quote] = "locked" /\ QuoteHolder[request[n].quote] = request[n].who)
    <2>1. GoesTo(n, "refused")
      BY <1>1, <1>4
    <2> QED BY <1>1, <1>2, <2>1, SendGoes DEF Is
  <1> QED BY <1>3, <1>4

LEMMA DropQuoteKeeps ==
  ASSUME HandlerInv, QuoteInv, NEW n \in Requests, DropQuote(n)
  PROVE  QuoteInv'
  <1>1. /\ n \in Busy /\ Is(n, "send", "drops quote") /\ UNCHANGED sent /\ GoesTo(n, "checks")
        /\ quote' = [quote EXCEPT ![request[n].quote] = "gone"]
    BY DEF DropQuote, Is, Busy, Ended, Dropped
  <1>2. request[n].quote \in Quotes /\ quote \in [Quotes -> {"none", "locked", "gone"}]
    BY <1>1, SendAsksQuote DEF Is, Ended, QuoteNeeds, QuotesOnce
  <1>3. /\ quote' \in [Quotes -> {"none", "locked", "gone"}] /\ quote'[request[n].quote] = "gone"
        /\ \A q \in Quotes : quote[q] = "gone" => quote'[q] = "gone"
    BY <1>1, <1>2
  <1> QED BY <1>1, <1>3, SendGoes DEF Is

LEMMA CheckSendKeeps ==
  ASSUME HandlerInv, QuoteInv, NEW n \in Requests, CheckSend(n)
  PROVE  QuoteInv'
  <1>1. n \in Busy /\ Is(n, "send", "checks") /\ UNCHANGED <<quote, sent>>
    BY DEF CheckSend, Is, Busy, Ended, remittanceVars
  <1>2. PICK at \in {"calls rail", "refused"} : GoesTo(n, at)
    BY DEF CheckSend, AfterCheck
  <1>3. /\ quote \in [Quotes -> {"none", "locked", "gone"}]
        /\ request[n].quote \in Quotes => quote[request[n].quote] = "gone"
    BY <1>1, SendAsksQuote DEF Is, Ended, QuoteNeeds, QuotesOnce
  <1> QED BY <1>1, <1>2, <1>3, SendGoes DEF Is

LEMMA RemittanceArrivesKeepsQuotes ==
  ASSUME HandlerInv, QuoteInv, RemittanceArrives
  PROVE  QuoteInv'
  <1>1. UNCHANGED <<quote, sent>>
    BY DEF RemittanceArrives, Send, SendQuote, Report, remittanceVars
  <1>2. CASE \E e \in Employees, q \in Quotes : SendQuote(e, q)
    <2>1. PICK e \in Employees, q \in Quotes : SendQuote(e, q)
      BY <1>2
    <2>2. PICK r : r = [op |-> "send", at |-> "reads quote", who |-> e, quote |-> q]
      OBVIOUS
    <2>3. IsRequest(r) /\ r # NotYet /\ r.op \in {"send"} /\ Arrives(r)
      BY <2>1, <2>2 DEF SendQuote, IsRequest, NotYet
    <2>4. HandlerStep({"send"}) /\ \E n \in Requests : request'[n] = r /\ \A m \in Requests \ {n} : request'[m] = request[m]
      BY <2>3, Arriving
    <2>5. \A n : QuoteNeeds(r, n, quote, sent, met')
      BY <2>2 DEF QuoteNeeds
    <2>6. \A n \in Requests : request'[n] = request[n] \/ QuoteNeeds(request'[n], n, quote', sent, met')
      BY <1>1, <2>4, <2>5
    <2> QED BY <1>1, <2>4, <2>6, QuotesKept DEF HandlerStep, QuoteInv, QuotesOnce
  <1>3. CASE \E e \in Employees : Send(e)
    <2>1. PICK e \in Employees : Send(e)
      BY <1>3
    <2>2. PICK r : r = [op |-> "send", at |-> "checks", who |-> e, quote |-> "direct"]
      OBVIOUS
    <2>3. IsRequest(r) /\ r # NotYet /\ r.op \in {"send"} /\ Arrives(r)
      BY <2>1, <2>2 DEF Send, IsRequest, NotYet
    <2>4. HandlerStep({"send"}) /\ \E n \in Requests : request'[n] = r /\ \A m \in Requests \ {n} : request'[m] = request[m]
      BY <2>3, Arriving
    <2>5. \A n : QuoteNeeds(r, n, quote, sent, met')
      BY <2>2, QuotesAreNamed DEF QuoteNeeds
    <2>6. \A n \in Requests : request'[n] = request[n] \/ QuoteNeeds(request'[n], n, quote', sent, met')
      BY <1>1, <2>4, <2>5
    <2> QED BY <1>1, <2>4, <2>6, QuotesKept DEF HandlerStep, QuoteInv, QuotesOnce
  <1>4. CASE \E t \in Requests, verdict \in {"succeeded", "failed"} : Report(t, verdict)
    <2>1. Enters({"report"})
      BY <1>4 DEF Report, Enters, IsRequest, NotYet
    <2> QED BY <1>1, <2>1, Entering, OthersAreSpared, SparedQuotes
  <1> QED BY <1>2, <1>3, <1>4 DEF RemittanceArrives

LEMMA RemittanceKeepsQuotes ==
  ASSUME HandlerInv, QuoteInv, RemittanceNext
  PROVE  QuoteInv'
  <1>1. CASE \E q \in Quotes : LockQuote(q) \/ QuoteExpires(q)
    <2>1. /\ UNCHANGED <<sent, handlerVars>> /\ quote' \in [Quotes -> {"none", "locked", "gone"}]
          /\ \A q \in Quotes : quote[q] = "gone" => quote'[q] = "gone"
      BY <1>1 DEF LockQuote, QuoteExpires, sharedVars, QuoteInv, QuotesOnce
    <2> QED BY <2>1, QuotesKept DEF handlerVars
  <1>2. CASE \E t \in Requests, verdict \in {"succeeded", "failed"} : RailDecides(t, verdict)
    <2>1. UNCHANGED <<sent, quote, handlerVars>>
      BY <1>2 DEF RailDecides, sharedVars
    <2> QED BY <2>1, QuotesKept DEF handlerVars, QuoteInv, QuotesOnce
  <1>3. CASE \E n \in Requests : RemittanceSteps(n)
    <2>1. PICK n \in Requests : RemittanceSteps(n)
      BY <1>3
    <2>2. CASE CallRail(n)
      BY <2>2, SendsQuote DEF CallRail
    <2>3. CASE CommitSend(n) \/ RailRefuses(n)
      <3>1. PICK at \in {"done", "refused"} : GoesTo(n, at) /\ n \in Busy /\ UNCHANGED <<quote, sent>>
        BY <2>3 DEF CommitSend, RailRefuses, Refused, Is, Busy, Ended, remittanceVars
      <3> QED BY <3>1, EndingIsSpared, SparedQuotes
    <2>4. CASE FindRemittance(n) \/ LookForRefund(n) \/ CommitRefund(n) \/ RefundConflicts(n)
      <3>1. n \in Busy /\ request[n].op \in {"report"} /\ UNCHANGED <<quote, sent>>
        BY <2>4 DEF FindRemittance, LookForRefund, CommitRefund, RefundConflicts, Is, Busy, Ended, remittanceVars
      <3>2. PICK at \in {"looks for refund", "refunds", "done", "refused"} : GoesTo(n, at)
        BY <2>4 DEF FindRemittance, LookForRefund, CommitRefund, RefundConflicts, Refused
      <3>3. HandlerStep({"report"}) /\ "send" \notin {"report"}
        BY <3>1, <3>2, Going
      <3>4. Spares("send")
        BY <3>3, OthersAreSpared
      <3> QED BY <3>1, <3>4, SparedQuotes
    <2> QED BY <2>1, <2>2, <2>3, <2>4, ReadQuoteKeeps, DropQuoteKeeps, CheckSendKeeps DEF RemittanceSteps
  <1> QED BY <1>1, <1>2, <1>3, RemittanceArrivesKeepsQuotes DEF RemittanceNext

LEMMA QuotesGoOn == ASSUME WalletInv, QuoteInv, [Next]_vars PROVE QuoteInv'
  <1> USE DEF WalletInv, RequestsInv
  <1>1. CASE TransferNext \/ SavingsNext \/ CardNext \/ AuthorizeNext \/ LoanNext \/ PhoneNext \/ KeyedNext
    <2>1. UNCHANGED <<quote, sent>>
      BY <1>1 DEF TransferNext, TransferFrame, SavingsNext, SavingsFrame, CardNext, CardFrame, AuthorizeNext,
                  AuthorizeFrame, LoanNext, LoanFrame, PhoneNext, PhoneFrame, KeyedNext, KeyedFrame, remittanceVars
    <2>2. "send" \notin SavingsOps /\ "send" \notin CardOps /\ "send" \notin LoanOps /\ "send" \notin PhoneOps
      BY DEF SavingsOps, CardOps, Managing, LoanOps, PhoneOps
    <2>3. Spares("send")
      BY <1>1, <2>2, TransferRequests, SavingsRequests, CardRequests, AuthorizeRequests, LoanRequests, PhoneRequests,
         KeyedRequests, OthersAreSpared
    <2> QED BY <2>1, <2>3, SparedQuotes
  <1>2. CASE Passes \/ UNCHANGED vars
    <2>1. UNCHANGED <<quote, sent, handlerVars>>
      BY <1>2 DEF Passes, NextDay, planeVars, remittanceVars, vars, sharedVars
    <2> QED BY <2>1, QuotesKept DEF handlerVars, QuoteInv, QuotesOnce
  <1>3. CASE Fault
    <2>1. CASE \E n \in Requests : RailAnswerIsLost(n)
      BY <2>1, SendsQuote DEF RailAnswerIsLost
    <2>2. CASE ~\E n \in Requests : RailAnswerIsLost(n)
      <3>1. UNCHANGED <<quote, sent>>
        BY <1>3, <2>2 DEF Fault, Dies, TransferFrame, AppIsKilled, PhoneFrame, AuthorizeFrame, LoanFrame, KeyedFrame,
                          planeVars, remittanceVars
      <3> QED BY <1>3, <3>1, FaultSpares, SparedQuotes
    <2> QED BY <2>1, <2>2
  <1> QED BY <1>1, <1>2, <1>3, RemittanceKeepsQuotes DEF Next

LEMMA QuotesStart == Init => QuoteInv
  <1> SUFFICES ASSUME Init PROVE QuoteInv
    OBVIOUS
  <1>1. /\ quote = [q \in Quotes |-> "none"] /\ sent = [n \in Requests |-> "nothing"]
        /\ \A n \in Requests : request[n] = NotYet
    BY DEF Init, InitShared, InitRemittance, InitHandlers
  <1>2. \A n : QuoteNeeds(NotYet, n, quote, sent, met)
    BY NotYetEnded DEF QuoteNeeds
  <1> QED BY <1>1, <1>2, QuotesAreNamed DEF QuoteInv, QuotesOnce

(***************************************************************************)
(* A month's cashback goes on past its cap only by awards in progress at   *)
(* once: an award fits under the cap, or somebody its purchase has met has *)
(* been paid since it was computed.                                        *)
(***************************************************************************)
LEMMA TotalNone == SumOf(Total, {}) = 0
  <1>1. TotalsAreWhole({}) /\ TotalsOf({}) \in [{} -> Int]
    BY FS_EmptySet DEF TotalsAreWhole, TotalsOf
  <1> QED BY <1>1, TotalSum, SumEmpty

LEMMA TotalAdds ==
  ASSUME NEW S, NEW x, x \notin S, TotalsAreWhole(S \cup {x})
  PROVE  /\ SumOf(Total, S) \in Int /\ Total(x) \in Int
         /\ SumOf(Total, S \cup {x}) = SumOf(Total, S) + Total(x)
  <1>1. TotalsAreWhole(S) /\ Total(x) \in Int /\ IsFiniteSet(S)
    BY FS_Subset DEF TotalsAreWhole
  <1>2. /\ TotalsOf(S) \in [S -> Int] /\ TotalsOf(S \cup {x}) \in [S \cup {x} -> Int]
        /\ \A y \in S : TotalsOf(S)[y] = TotalsOf(S \cup {x})[y]
        /\ TotalsOf(S \cup {x})[x] = Total(x)
    BY DEF TotalsAreWhole, TotalsOf
  <1>3. SumFunctionOnSet(TotalsOf(S \cup {x}), S \cup {x}) = SumFunctionOnSet(TotalsOf(S), S) + Total(x)
    <2>1. PICK v, w : v = TotalsOf(S) /\ w = TotalsOf(S \cup {x})
      OBVIOUS
    <2>2. v \in [S -> Int] /\ w \in [S \cup {x} -> Int] /\ (\A y \in S : v[y] = w[y]) /\ w[x] = Total(x)
      BY <1>2, <2>1
    <2>3. SumFunctionOnSet(w, S \cup {x}) = SumFunctionOnSet(v, S) + w[x]
      BY <1>1, <2>2, SumAdds
    <2> QED BY <2>1, <2>2, <2>3
  <1> QED BY <1>1, <1>3, TotalSum, TotalType

LEMMA TotalNatural ==
  ASSUME NEW S, IsFiniteSet(S), \A x \in S : Total(x) \in Nat
  PROVE  SumOf(Total, S) \in Nat
  <1>1. TotalsAreWhole(S)
    BY DEF TotalsAreWhole
  <1>2. PICK w : w = TotalsOf(S) /\ w \in [S -> Nat] /\ w = [x \in S |-> w[x]]
    <2>1. TotalsOf(S) \in [S -> Nat]
      BY DEF TotalsOf
    <2>2. TotalsOf(S) = [x \in S |-> TotalsOf(S)[x]]
      BY DEF TotalsOf
    <2> QED BY <2>1, <2>2
  <1>3. SumOver(w, S) \in Nat
    BY <1>2, SumOverGrows
  <1> QED BY <1>1, <1>2, <1>3, TotalSum DEF SumOver

Awarded(rows, d) == {row \in OfType(rows, "CASHBACK") : row.day = d}
CashSum(rows, d) == SumOf(Total, Awarded(rows, d))

CapHolds(rows, M) == \A d : CashSum(rows, d) > CashbackCap => Clash(Awarded(rows, d), M)

AwardFits(award, n, rows, day, M) ==
  /\ award \in Nat /\ award <= CashbackCap
  /\ CashSum(rows, day) + award <= CashbackCap \/ MetIn(Awarded(rows, day), n, M)

AwardNeeds(r, n, rows, day, M) == r.op = "event" /\ r.at = "awards" => AwardFits(r.earned, n, rows, day, M)

AwardsAreWhole ==
  /\ today \in Nat
  /\ \A row \in OfType(ledger, "CASHBACK") : row.total \in Nat /\ row.day \in Nat /\ row.day <= today

CashbackInv ==
  /\ AwardsAreWhole
  /\ CapHolds(ledger, met)
  /\ \A n \in Requests : AwardNeeds(request[n], n, ledger, today, met)

LEMMA CashSumIsWhole ==
  ASSUME TypedRows(ledger), AwardsAreWhole, NEW d
  PROVE  CashSum(ledger, d) \in Nat
  <1>1. Awarded(ledger, d) \in SUBSET ledger /\ IsFiniteSet(ledger)
    BY DEF TypedRows, Awarded, OfType
  <1>2. IsFiniteSet(Awarded(ledger, d)) /\ \A x \in Awarded(ledger, d) : Total(x) \in Nat
    BY <1>1, FS_Subset DEF Total, AwardsAreWhole, Awarded
  <1> QED BY <1>2, TotalNatural DEF CashSum

LEMMA MoreHaveMetAward ==
  ASSUME NEW rows, NEW M, NEW N, M \subseteq N
  PROVE  /\ CapHolds(rows, M) => CapHolds(rows, N)
         /\ \A r, n, day : AwardNeeds(r, n, rows, day, M) => AwardNeeds(r, n, rows, day, N)
  <1>1. /\ \A s, n : MetIn(s, n, M) => MetIn(s, n, N)
        /\ \A s : Clash(s, M) => Clash(s, N)
    BY DEF MetIn, Clash
  <1> QED BY <1>1 DEF CapHolds, AwardNeeds, AwardFits

LEMMA CashbackKept ==
  ASSUME CashbackInv, UNCHANGED today, OfType(ledger', "CASHBACK") = OfType(ledger, "CASHBACK"), met \subseteq met',
         \A n \in Requests : request'[n] = request[n] \/ AwardNeeds(request'[n], n, ledger, today, met')
  PROVE  CashbackInv'
  <1>1. \A d : Awarded(ledger', d) = Awarded(ledger, d) /\ CashSum(ledger', d) = CashSum(ledger, d)
    BY DEF Awarded, CashSum
  <1>2. CapHolds(ledger', met')
    BY <1>1, MoreHaveMetAward DEF CashbackInv, CapHolds
  <1>3. ASSUME NEW n \in Requests PROVE AwardNeeds(request'[n], n, ledger', today, met')
    <2>1. AwardNeeds(request'[n], n, ledger, today, met')
      BY MoreHaveMetAward DEF CashbackInv
    <2> QED BY <1>1, <2>1 DEF AwardNeeds, AwardFits
  <1> QED BY <1>2, <1>3 DEF CashbackInv, AwardsAreWhole

LEMMA SparedAwards ==
  ASSUME CashbackInv, UNCHANGED today, OfType(ledger', "CASHBACK") = OfType(ledger, "CASHBACK"),
         Spares("event") \/ NoneComesTo("awards")
  PROVE  CashbackInv'
  <1>1. \A n \in Requests : request'[n] = request[n] \/ AwardNeeds(request'[n], n, ledger, today, met')
    BY DEF Spares, NoneComesTo, AwardNeeds, Ended
  <1> QED BY <1>1, CashbackKept DEF Spares, NoneComesTo

LEMMA SparedCashback ==
  ASSUME CashbackInv, UNCHANGED today, NEW types, Rewrites(types), "CASHBACK" \notin types,
         Spares("event") \/ NoneComesTo("awards")
  PROVE  CashbackInv'
  BY RewritesOthers, SparedAwards

(* A new day has no rows yet. *)
LEMMA NextDayKeepsCashback ==
  ASSUME CashbackInv, NextDay
  PROVE  CashbackInv'
  <1>1. today' = today + 1 /\ today \in Nat /\ UNCHANGED <<ledger, request, met>>
    BY DEF NextDay, CashbackInv, AwardsAreWhole, handlerVars
  <1>2. Awarded(ledger, today') = {}
    BY <1>1 DEF Awarded, CashbackInv, AwardsAreWhole
  <1>3. CashSum(ledger, today') = 0
    BY <1>2, TotalNone DEF CashSum
  <1>4. AwardsAreWhole'
    BY <1>1 DEF CashbackInv, AwardsAreWhole
  <1>5. ASSUME NEW n \in Requests PROVE AwardNeeds(request[n], n, ledger, today', met)
    <2>1. AwardNeeds(request[n], n, ledger, today, met)
      BY DEF CashbackInv
    <2> QED BY <1>3, <2>1 DEF AwardNeeds, AwardFits
  <1> QED BY <1>1, <1>4, <1>5 DEF CashbackInv

LEMMA AwardFitsNow ==
  ASSUME MoneyInv, CashbackInv, NEW potential \in Int, NEW award,
         award = Award(potential, SumOf(Total, CashbackRows(today))), ~(award <= 0)
  PROVE  \A n, M : AwardFits(award, n, ledger, today, M)
  <1>1. Awarded(ledger, today) = CashbackRows(today)
    BY DEF Awarded, OfType, CashbackRows
  <1>2. PICK earned \in Nat : earned = SumOf(Total, CashbackRows(today)) /\ earned = CashSum(ledger, today)
    BY <1>1, CashSumIsWhole DEF CashSum, MoneyInv, CashbackInv
  <1>3. PICK cap \in Nat : cap = CashbackCap
    BY CardIsHeld
  <1>4. award = Min({potential, cap - earned})
    BY <1>2, <1>3 DEF Award
  <1>5. award = IF potential <= cap - earned THEN potential ELSE cap - earned
    BY <1>4, MinOfTwo
  <1>6. award \in Nat /\ award <= cap /\ earned + award <= cap
    BY <1>5
  <1> QED BY <1>2, <1>3, <1>6 DEF AwardFits

LEMMA SumCashbackKeeps ==
  ASSUME WalletInv, MoneyInv, CashbackInv, NEW n \in Requests, SumCashback(n)
  PROVE  CashbackInv'
  <1> DEFINE r == request[n]
             award == Award(CashbackRate * r.event.amount, SumOf(Total, CashbackRows(today)))
  <1>1. UNCHANGED <<ledger, today>> /\ Is(n, "event", "cashback")
    BY DEF SumCashback, walletVars
  <1>2. /\ TellsEvent(r, Marks(ledger, n)) /\ r.at = "cashback" /\ r.op = "event" /\ n \in Busy
        /\ {"at", "op", "earned"} \subseteq DOMAIN r
    <2>1. TellsEvent(r, Marks(ledger, n)) /\ r.at = "cashback" /\ r.op = "event" /\ n \in Busy
      BY <1>1, EventAt DEF MoneyInv, Ended
    <2> QED BY <2>1, InProgress DEF TellsEvent, WalletInv, RequestsInv
  <1>3. CASE GoesTo(n, "done")
    <2>1. NoneComesTo("awards") /\ Rewrites({})
      BY <1>1, <1>2, <1>3, GoesElsewhere, RewritesNothing DEF WalletInv, RequestsInv
    <2> QED BY <1>1, <2>1, SparedCashback
  <1>4. CASE ~GoesTo(n, "done")
    <2>1. Becomes(n, [r EXCEPT !.at = "awards", !.earned = award]) /\ ~(award <= 0)
      BY <1>4 DEF SumCashback
    <2>2. CashbackRate * r.event.amount \in Int
      <3>1. PICK a \in Nat : a = r.event.amount
        BY <1>2, EventsAreWhole DEF TellsEvent
      <3>2. PICK b \in Nat : b = CashbackRate
        BY CardIsHeld
      <3> QED BY <3>1, <3>2, ProductIsWhole
    <2>3. \A M : AwardFits(award, n, ledger, today, M)
      BY <2>1, <2>2, AwardFitsNow
    <2> HIDE DEF award
    <2> DEFINE s == [r EXCEPT !.at = "awards", !.earned = award]
    <2>4. s.at = "awards" /\ s.op = "event" /\ s.earned = award /\ Becomes(n, s)
      BY <1>2, <2>1
    <2> HIDE DEF s
    <2>5. request'[n] = s /\ (\A m \in Requests \ {n} : request'[m] = request[m]) /\ met' = met
      BY <2>4 DEF Becomes, WalletInv, RequestsInv, HandlerInv, RequestShape
    <2>6. AwardNeeds(s, n, ledger, today, met')
      BY <2>3, <2>4 DEF AwardNeeds
    <2>7. \A m \in Requests : request'[m] = request[m] \/ AwardNeeds(request'[m], m, ledger, today, met')
      BY <2>5, <2>6
    <2> QED BY <1>1, <2>5, <2>7, CashbackKept
  <1> QED BY <1>3, <1>4

LEMMA PayCashbackKeeps ==
  ASSUME WalletInv, MoneyInv, MoneyInv', CashbackInv, NEW n \in Requests, PayCashback(n)
  PROVE  CashbackInv'
  <1> DEFINE award == request[n].earned
             x == Row(n, Holder, "CASHBACK", award, NoKey, NoKey, "")
  <1>1. ledger' = ledger \cup {x} /\ GoesTo(n, "done") /\ today' = today /\ Is(n, "event", "awards")
    BY DEF PayCashback, Posts
  <1>2. n \in Busy /\ <<"CASHBACK", NoKey>> \notin Marks(ledger, n)
    BY EventAt DEF PayCashback, MoneyInv, Ended, TellsEvent
  <1>3. AwardFits(award, n, ledger, today, met)
    BY <1>1 DEF CashbackInv, AwardNeeds, Is
  <1>4. x.by = n /\ x.type = "CASHBACK" /\ x.total = award /\ x.ref = NoKey /\ x.day = today
    BY DEF Row
  <1> HIDE DEF x
  <1>5. x \notin ledger
    <2>1. Mark(x) = <<"CASHBACK", NoKey>>
      BY <1>4 DEF Mark
    <2> QED BY <1>2, <1>4, <2>1 DEF Marks
  <1>6. met' = met /\ request'[n].at = "done" /\ \A m \in Requests \ {n} : request'[m] = request[m]
    BY <1>1, <1>2, GoingOn DEF GoesTo, Becomes, WalletInv, RequestsInv
  <1>7. AwardsAreWhole'
    BY <1>1, <1>3, <1>4 DEF AwardFits, CashbackInv, AwardsAreWhole, OfType
  <1>8. Awarded(ledger', today) = Awarded(ledger, today) \cup {x} /\ x \notin Awarded(ledger, today)
    BY <1>1, <1>4, <1>5 DEF Awarded, OfType
  <1>9. \A d : d # today => Awarded(ledger', d) = Awarded(ledger, d)
    BY <1>1, <1>4 DEF Awarded, OfType
  <1>10. CashSum(ledger', today) = CashSum(ledger, today) + award
    <2>1. TotalsAreWhole(Awarded(ledger, today) \cup {x})
      <3>1. Awarded(ledger', today) \in SUBSET ledger' /\ TypedRows(ledger')
        BY DEF Awarded, OfType, MoneyInv
      <3> QED BY <1>8, <3>1, FS_Subset DEF TotalsAreWhole, TypedRows, TypedRow, Total
    <2> QED BY <1>4, <1>8, <2>1, TotalAdds DEF CashSum, Total
  <1>11. CapHolds(ledger', met)
    <2> SUFFICES ASSUME NEW d, CashSum(ledger', d) > CashbackCap PROVE Clash(Awarded(ledger', d), met)
      BY DEF CapHolds
    <2>1. CASE d # today
      BY <1>9, <2>1 DEF CashbackInv, CapHolds, CashSum
    <2>2. CASE d = today
      <3>1. ~(CashSum(ledger, today) + award <= CashbackCap)
        <4>1. PICK sum \in Nat : sum = CashSum(ledger, today)
          BY CashSumIsWhole DEF MoneyInv, CashbackInv
        <4>2. PICK a \in Nat, cap \in Nat : a = award /\ cap = CashbackCap
          BY <1>3, CardIsHeld DEF AwardFits
        <4> QED BY <1>10, <2>2, <4>1, <4>2
      <3>2. PICK row \in Awarded(ledger, today) : row.by # n /\ {row.by, n} \in met
        BY <1>3, <3>1 DEF AwardFits, MetIn
      <3> QED BY <1>4, <1>8, <2>2, <3>2 DEF Clash
    <2> QED BY <2>1, <2>2
  <1>12. ASSUME NEW m \in Requests PROVE AwardNeeds(request'[m], m, ledger', today, met)
    <2>1. CASE m = n
      BY <1>6, <2>1 DEF AwardNeeds
    <2>2. CASE m # n
      <3> SUFFICES ASSUME request[m].op = "event", request[m].at = "awards"
                   PROVE  AwardFits(request[m].earned, m, ledger', today, met)
        BY <1>6, <2>2 DEF AwardNeeds
      <3>1. AwardFits(request[m].earned, m, ledger, today, met)
        BY DEF CashbackInv, AwardNeeds
      <3>2. {n, m} \in met
        BY <1>2, <2>2 DEF Busy, Ended, WalletInv, RequestsInv, HandlerInv, BusyMet, Overlapped
      <3>3. MetIn(Awarded(ledger', today), m, met)
        BY <1>4, <1>8, <2>2, <3>2 DEF MetIn
      <3> QED BY <3>1, <3>3 DEF AwardFits
    <2> QED BY <2>1, <2>2
  <1> QED BY <1>1, <1>6, <1>7, <1>11, <1>12 DEF CashbackInv

(* A request about a card that is not an award's, and one that comes in.   *)
LEMMA CardsGoElsewhere ==
  ASSUME WalletInv, CardNext, \A n \in Requests : ~SumCashback(n)
  PROVE  NoneComesTo("awards")
  <1> USE DEF WalletInv, RequestsInv
  <1>1. CASE ControlArrives \/ Manage("tokenize")
    <2>1. PICK op : Manage(op)
      BY <1>1 DEF ControlArrives
    <2> DEFINE r == [op |-> op, at |-> "reads card"]
    <2>2. IsRequest(r) /\ r # NotYet /\ Arrives(r) /\ r.at = "reads card"
      BY <2>1 DEF Manage, IsRequest, NotYet
    <2> HIDE DEF r
    <2> QED BY <2>2, ArrivesElsewhere
  <1>5. CASE StatusEvent
    <2> DEFINE r == [op |-> "status", at |-> "finds card"]
    <2>2. IsRequest(r) /\ r # NotYet /\ Arrives(r) /\ r.at = "finds card"
      BY <1>5 DEF StatusEvent, IsRequest, NotYet
    <2> HIDE DEF r
    <2> QED BY <2>2, ArrivesElsewhere
  <1>6. CASE OrderCard
    <2> DEFINE r == [op |-> "order", at |-> "checks"]
    <2>2. IsRequest(r) /\ r # NotYet /\ Arrives(r) /\ r.at = "checks"
      BY <1>6 DEF OrderCard, IsRequest, NotYet
    <2> HIDE DEF r
    <2> QED BY <2>2, ArrivesElsewhere
  <1>2. CASE EventArrives
    <2>1. PICK e \in Events : TransactionEvent(e)
      BY <1>2 DEF EventArrives
    <2> DEFINE r == [op |-> "event", at |-> "finds card", event |-> e, spent |-> 0, day |-> 0, earned |-> 0]
    <2>2. IsRequest(r) /\ r # NotYet /\ r.at = "finds card" /\ Arrives(r)
      BY <2>1 DEF IsRequest, NotYet, TransactionEvent
    <2> HIDE DEF r
    <2> QED BY <2>2, ArrivesElsewhere
  <1>3. CASE IssuerExpires
    BY <1>3 DEF IssuerExpires, sharedVars, handlerVars, NoneComesTo
  <1>4. CASE \E n \in Requests : CardSteps(n)
    <2>1. PICK n \in Requests : CardSteps(n)
      BY <1>4
    <2>2. CASE ReadEventCard(n) \/ (CheckEvent(n) /\ ~GoesTo(n, "done"))
      <3>1. n \in Busy
        BY <2>2 DEF ReadEventCard, CheckEvent, Is, Busy, Ended
      <3>2. {"at", "op"} \subseteq DOMAIN request[n]
        BY <3>1, InProgress
      <3>3. PICK r : Becomes(n, r) /\ r.at \in {"replay check", "writes"}
        <4>1. CASE ReadEventCard(n)
          <5> DEFINE r == [request[n] EXCEPT !.at = "replay check", !.spent = card.spent, !.day = card.day]
          <5>1. Becomes(n, r) /\ r.at = "replay check"
            BY <3>2, <4>1 DEF ReadEventCard
          <5> HIDE DEF r
          <5> QED BY <5>1
        <4>2. CASE CheckEvent(n) /\ ~GoesTo(n, "done")
          <5> DEFINE r == [request[n] EXCEPT !.at = "writes", !.day = today,
                             !.spent = NextSpent(request[n].day, request[n].spent, request[n].event)]
          <5>1. Becomes(n, r) /\ r.at = "writes"
            BY <3>2, <4>2 DEF CheckEvent
          <5> HIDE DEF r
          <5> QED BY <5>1
        <4> QED BY <2>2, <4>1, <4>2
      <3> QED BY <3>1, <3>3, BecomesElsewhere
    <2>3. CASE ~(ReadEventCard(n) \/ (CheckEvent(n) /\ ~GoesTo(n, "done")))
      <3>1. n \in Busy
        BY <2>1 DEF CardSteps, ReadCard, AskIssuer, IssuerRefuses, WriteCard, ReadStatusEvent, WriteStatusEvent, CheckOrder,
           IssuePlastic, CommitOrder, OrderConflicts, ReadEventCard, CheckEvent, CommitEvent, EventConflicts, SumCashback,
           PayCashback, Manages, Is, Busy, Ended
      <3>2. PICK at : GoesTo(n, at) /\ at # "not yet" /\ at # "awards"
        BY <2>1, <2>3 DEF CardSteps, ReadCard, AskIssuer, IssuerRefuses, WriteCard, ReadStatusEvent, WriteStatusEvent, CheckOrder,
           IssuePlastic, CommitOrder, OrderConflicts, CheckEvent, CommitEvent, EventConflicts, PayCashback, Refused
      <3> QED BY <3>1, <3>2, GoesElsewhere
    <2> QED BY <2>2, <2>3
  <1> QED BY <1>1, <1>2, <1>3, <1>4, <1>5, <1>6 DEF CardNext

LEMMA CardsKeepCashback ==
  ASSUME WalletInv, MoneyInv, MoneyInv', CashbackInv, CardNext
  PROVE  CashbackInv'
  <1>1. CASE \E n \in Requests : SumCashback(n)
    BY <1>1, SumCashbackKeeps
  <1>2. CASE \E n \in Requests : PayCashback(n)
    BY <1>2, PayCashbackKeeps
  <1>3. CASE ~\E n \in Requests : SumCashback(n) \/ PayCashback(n)
    <2>1. Rewrites(CardTypes \ {"CASHBACK"}) /\ NoneComesTo("awards")
      BY <1>3, CardRewrites, CardsGoElsewhere
    <2>2. UNCHANGED today
      BY <1>3 DEF CardNext, ControlArrives, Manage, StatusEvent, EventArrives, TransactionEvent, OrderCard, IssuerExpires,
           CardSteps, ReadCard, AskIssuer, IssuerRefuses, WriteCard, ReadStatusEvent, WriteStatusEvent, CheckOrder,
           IssuePlastic, CommitOrder, OrderConflicts, ReadEventCard, CheckEvent, CommitEvent, EventConflicts, Refused,
           Posts, walletVars, sharedVars
    <2> QED BY <2>1, <2>2, SparedCashback
  <1> QED BY <1>1, <1>2, <1>3

(* A step of another service sees no other day, and writes no cashback. *)
LEMMA TodayRests ==
  ASSUME \/ TransferNext \/ SavingsNext \/ RemittanceNext \/ AuthorizeNext \/ LoanNext \/ PhoneNext \/ KeyedNext
  PROVE  UNCHANGED today
  <1>1. CASE TransferNext
    BY <1>1 DEF TransferNext, TransferArrives, Transfer, TransferSteps, CheckReplay, CheckTransfer, CommitTransfer,
                TransferConflicts, FindReferral, PayReward, Refused, Posts, walletVars
  <1>2. CASE SavingsNext
    BY <1>2 DEF SavingsNext, SavingsArrives, AutoSave, Deposit, Withdraw, CreateGoal, SavingsSteps, CheckDeposit,
                CommitDeposit, CommitWithdrawal, CheckWithdrawal, NextAutoSave, Posts, walletVars, sharedVars
  <1>3. CASE RemittanceNext
    BY <1>3 DEF RemittanceNext, RemittanceArrives, Send, SendQuote, Report, LockQuote, QuoteExpires, RailDecides,
                RemittanceSteps, ReadQuote, DropQuote, CheckSend, CallRail, RailRefuses, CommitSend, FindRemittance,
                LookForRefund, CommitRefund, RefundConflicts, Refused, Posts, walletVars, sharedVars
  <1>4. CASE AuthorizeNext
    BY <1>4 DEF AuthorizeNext, Authorization, VelocityExpires, AuthorizeSteps, ReadVelocity, CheckBalance, TimesOut,
                ReadCount, WriteCount, Answers, Scores, CountsOn, walletVars, sharedVars
  <1>5. CASE LoanNext
    BY <1>5 DEF LoanNext, RequestAdvance, BatchUpdate, LenderReport, ScoreAges, LenderDecides, LoanSteps, ReadScore,
                CollectFactors, StoreScore, CallLender, CreateLoan, FindLoan, WriteLoan, walletVars, sharedVars
  <1>6. CASE PhoneNext
    BY <1>6 DEF PhoneNext, PhoneStarts, Call, SignOut, SignIn, Starts, PhoneSteps, Attach, Answered, IsRejected,
                Unauthorized, ReadRefresh, Refresh, Keep, Store, Clear, NeedsCode, EnterCode, CancelCode, walletVars
  <1>7. CASE KeyedNext
    BY <1>7 DEF KeyedNext, KeyedArrives, KeyedCall, StoreAnswer, KeyedSteps, LookUpKey, Replay, Authenticate,
                CheckStepCode, Run, RunFails, AnswerRun, Refuses, Stores, KeyedTo, walletVars, sharedVars
  <1> QED BY <1>1, <1>2, <1>3, <1>4, <1>5, <1>6, <1>7

LEMMA OthersSpareCashback ==
  ASSUME WalletInv, CashbackInv,
         TransferNext \/ SavingsNext \/ RemittanceNext \/ AuthorizeNext \/ LoanNext \/ PhoneNext \/ KeyedNext
  PROVE  CashbackInv'
  <1> USE DEF WalletInv, RequestsInv
  <1>1. /\ "event" \notin SavingsOps /\ "event" \notin RemittanceOps /\ "event" \notin LoanOps /\ "event" \notin PhoneOps
        /\ "event" \notin {"transfer"} /\ "event" \notin {"authorize"} /\ "event" \notin {"keyed"}
    BY DEF SavingsOps, RemittanceOps, LoanOps, PhoneOps
  <1>2. Spares("event")
    BY <1>1, TransferRequests, SavingsRequests, RemittanceRequests, AuthorizeRequests, LoanRequests, PhoneRequests,
       KeyedRequests, OthersAreSpared
  <1>3. UNCHANGED today
    BY TodayRests
  <1>4. OfType(ledger', "CASHBACK") = OfType(ledger, "CASHBACK")
    <2>1. CASE \E n \in Requests : PayReward(n)
      <3>1. Rewrites({"REFERRAL_REWARD"})
        BY <2>1, RewardRewrites
      <3> QED BY <3>1, RewritesOthers
    <2>2. CASE TransferNext /\ ~\E n \in Requests : PayReward(n)
      BY <2>2, TransferRewrites, RewritesOthers
    <2>3. CASE SavingsNext
      BY <2>3, SavingsRewrites, RewritesOthers
    <2>4. CASE RemittanceNext
      BY <2>4, RemittanceRewrites, RewritesOthers DEF KeyInv
    <2>5. CASE AuthorizeNext \/ LoanNext \/ PhoneNext \/ KeyedNext
      BY <2>5, OtherRows
    <2> QED BY <2>1, <2>2, <2>3, <2>4, <2>5
  <1> QED BY <1>2, <1>3, <1>4, SparedAwards

LEMMA CashbackGoesOn == ASSUME WalletInv, MoneyInv, MoneyInv', CashbackInv, [Next]_vars PROVE CashbackInv'
  <1>1. CASE Fault
    <2>1. Rewrites({}) /\ Spares("event") /\ UNCHANGED today
      BY <1>1, FaultSpares, RewritesNothing
    <2> QED BY <2>1, SparedCashback
  <1>2. CASE UNCHANGED vars
    BY <1>2, CashbackKept DEF vars, sharedVars, walletVars, handlerVars
  <1> QED BY <1>1, <1>2, OthersSpareCashback, CardsKeepCashback, NextDayKeepsCashback DEF Next, Passes

LEMMA CashbackStarts == Init => CashbackInv
  <1> SUFFICES ASSUME Init PROVE CashbackInv
    OBVIOUS
  <1>1. ledger = {} /\ today = 0 /\ \A n \in Requests : request[n] = NotYet
    BY DEF Init, InitShared, InitHandlers
  <1>2. \A d : CashSum(ledger, d) = 0
    <2>1. \A d : Awarded(ledger, d) = {}
      BY <1>1 DEF Awarded, OfType
    <2> QED BY <2>1, TotalNone DEF CashSum
  <1>3. \A n, day, M : AwardNeeds(NotYet, n, ledger, day, M)
    BY NotYetEnded DEF AwardNeeds, Ended
  <1> QED BY <1>1, <1>2, <1>3, CardIsHeld DEF CashbackInv, AwardsAreWhole, OfType, CapHolds

(***************************************************************************)
(* The handler of a key runs again only for calls in progress at once: a   *)
(* call that finds no answer, with none on the way, has met everyone who   *)
(* has run it.                                                             *)
(***************************************************************************)
HasAnswer(k, answers, stores) == answers[k] # "none" \/ \E w \in stores : w.key = k

KeyedFields(r) ==
  r.op = "keyed" /\ r.at \notin Ended =>
    /\ {"key", "good", "refreshed", "stepped", "alone"} \subseteq DOMAIN r
    /\ r.key \in Keys

MetRuns(r, n, runs, M) ==
  r.op = "keyed" /\ r.at \in {"authenticates", "checks code", "runs"} /\ r.alone =>
    \A u \in runs : u.key = r.key /\ u.by # n => {u.by, n} \in M

AnswersFit(answers, stores) ==
  /\ answers \in [Keys -> Statuses \cup {"none"}]
  /\ \A w \in stores : w.key \in Keys /\ w.status \in Statuses

RunsAnswered ==
  \A u \in ran : \/ Is(u.by, "keyed", "has run") /\ request[u.by].key = u.key
                 \/ HasAnswer(u.key, kept, onTheWay)

RunsOnce(runs, M) == \A u, v \in runs : u.key = v.key /\ u.by # v.by /\ u.alone /\ v.alone => {u.by, v.by} \in M

KeyedInv ==
  /\ faults \in Nat /\ AnswersFit(kept, onTheWay)
  /\ \A u \in ran : u.key \in Keys /\ u.by \in Requests
  /\ \A n \in Requests : KeyedFields(request[n])
  /\ faults = 0 => /\ RunsAnswered /\ RunsOnce(ran, met)
                   /\ \A n \in Requests : MetRuns(request[n], n, ran, met)

LEMMA KeyedKept ==
  ASSUME KeyedInv, faults' \in Nat, faults' = 0 => faults = 0,
         UNCHANGED ran, met \subseteq met', AnswersFit(kept', onTheWay'),
         \A k \in Keys : HasAnswer(k, kept, onTheWay) => faults' # 0 \/ HasAnswer(k, kept', onTheWay'),
         \A n \in Requests : \/ request'[n] = request[n]
                             \/ /\ KeyedFields(request'[n])
                                /\ faults' = 0 => /\ MetRuns(request'[n], n, ran, met')
                                                  /\ Is(n, "keyed", "has run") =>
                                                       HasAnswer(request[n].key, kept', onTheWay')
  PROVE  KeyedInv'
  <1>1. ASSUME NEW n \in Requests PROVE KeyedFields(request'[n]) /\ (faults' = 0 => MetRuns(request'[n], n, ran, met'))
    <2>1. CASE request'[n] = request[n]
      BY <2>1 DEF KeyedInv, MetRuns
    <2> QED BY <2>1
  <1>2. faults' = 0 => RunsAnswered'
    <2> SUFFICES ASSUME faults' = 0, NEW u \in ran
                 PROVE  \/ Is(u.by, "keyed", "has run")' /\ request'[u.by].key = u.key
                        \/ HasAnswer(u.key, kept', onTheWay')
      BY DEF RunsAnswered
    <2>1. u.key \in Keys /\ u.by \in Requests
      BY DEF KeyedInv
    <2>2. CASE HasAnswer(u.key, kept, onTheWay)
      BY <2>1, <2>2
    <2>3. CASE Is(u.by, "keyed", "has run") /\ request[u.by].key = u.key
      <3>1. CASE request'[u.by] = request[u.by]
        BY <2>3, <3>1 DEF Is
      <3>2. CASE request'[u.by] # request[u.by]
        BY <2>1, <2>3, <3>2
      <3> QED BY <3>1, <3>2
    <2> QED BY <2>2, <2>3 DEF KeyedInv, RunsAnswered
  <1>3. faults' = 0 => RunsOnce(ran, met')
    BY DEF KeyedInv, RunsOnce
  <1> QED BY <1>1, <1>2, <1>3 DEF KeyedInv

(* A step of another service, or one that fails. *)
LEMMA OthersKeepKeyed ==
  ASSUME KeyedInv, UNCHANGED <<keyedVars, faults>>, NEW ops, HandlerStep(ops), "keyed" \notin ops
  PROVE  KeyedInv'
  <1>1. \A n \in Requests : request'[n] # request[n] => request'[n].op # "keyed" /\ (request[n] = NotYet \/ request[n].op # "keyed")
    BY DEF HandlerStep
  <1>2. ASSUME NEW n \in Requests, request'[n] # request[n]
        PROVE  KeyedFields(request'[n]) /\ MetRuns(request'[n], n, ran, met') /\ ~Is(n, "keyed", "has run")
    BY <1>1, <1>2, NotYetEnded DEF KeyedFields, MetRuns, Is
  <1>3. /\ UNCHANGED <<kept, onTheWay, ran, faults>> /\ met \subseteq met'
        /\ faults \in Nat /\ AnswersFit(kept, onTheWay)
    BY DEF keyedVars, HandlerStep, KeyedInv
  <1> QED BY <1>2, <1>3, KeyedKept

LEMMA RestKeepsKeyed == ASSUME KeyedInv, UNCHANGED <<keyedVars, handlerVars, faults>> PROVE KeyedInv'
  <1>1. /\ UNCHANGED <<kept, onTheWay, ran, faults, request, met>>
        /\ faults \in Nat /\ AnswersFit(kept, onTheWay)
    BY DEF keyedVars, handlerVars, KeyedInv
  <1> QED BY <1>1, KeyedKept

(* A call that comes in has not looked up its key. *)
LEMMA KeyedArrivesKeeps == ASSUME HandlerInv, KeyedInv, KeyedArrives, UNCHANGED faults PROVE KeyedInv'
  <1>1. PICK key \in Keys, good \in BOOLEAN : KeyedCall(key, good)
    BY DEF KeyedArrives
  <1> DEFINE r == [op |-> "keyed", at |-> "looks up", key |-> key, good |-> good,
                   refreshed |-> FALSE, stepped |-> FALSE, alone |-> FALSE]
  <1>2. IsRequest(r) /\ r # NotYet /\ Arrives(r) /\ r.op \in {"keyed"}
    BY <1>1 DEF KeyedCall, IsRequest, NotYet
  <1>3. KeyedFields(r) /\ \A n, runs, M : MetRuns(r, n, runs, M)
    BY DEF KeyedFields, MetRuns
  <1> HIDE DEF r
  <1>4. /\ HandlerStep({"keyed"})
        /\ \E n \in Requests : /\ request[n] = NotYet /\ request'[n] = r
                               /\ \A m \in Requests \ {n} : request'[m] = request[m]
    BY <1>2, Arriving
  <1>5. /\ UNCHANGED <<kept, onTheWay, ran, faults>> /\ met \subseteq met'
        /\ faults \in Nat /\ AnswersFit(kept, onTheWay)
    BY <1>1, <1>4 DEF KeyedCall, keyedVars, HandlerStep, KeyedInv
  <1>6. \A n \in Requests : request[n] = NotYet => ~Is(n, "keyed", "has run")
    BY NotYetEnded DEF Is, Ended
  <1> QED BY <1>3, <1>4, <1>5, <1>6, KeyedKept

LEMMA StoreAnswerKeeps ==
  ASSUME KeyedInv, NEW w \in onTheWay, StoreAnswer(w), UNCHANGED faults PROVE KeyedInv'
  <1>1. /\ UNCHANGED <<ran, request, met, faults>> /\ onTheWay' = onTheWay \ {w}
        /\ kept' = [kept EXCEPT ![w.key] = w.status]
    BY DEF StoreAnswer, sharedVars, handlerVars
  <1>2. /\ kept \in [Keys -> Statuses \cup {"none"}] /\ w.key \in Keys /\ w.status \in Statuses
        /\ \A v \in onTheWay : v.key \in Keys /\ v.status \in Statuses
    BY DEF KeyedInv, AnswersFit
  <1>3. AnswersFit(kept', onTheWay')
    BY <1>1, <1>2 DEF AnswersFit
  <1>4. kept'[w.key] # "none"
    BY <1>1, <1>2 DEF Statuses
  <1>5. ASSUME NEW k \in Keys, HasAnswer(k, kept, onTheWay) PROVE HasAnswer(k, kept', onTheWay')
    <2>1. CASE k = w.key
      BY <1>4, <2>1 DEF HasAnswer
    <2>2. CASE k # w.key
      BY <1>1, <1>2, <1>5, <2>2 DEF HasAnswer
    <2> QED BY <2>1, <2>2
  <1>6. faults \in Nat
    BY DEF KeyedInv
  <1> QED BY <1>1, <1>3, <1>5, <1>6, KeyedKept
(* One call goes on. *)
LEMMA KeyedGoesOn ==
  ASSUME HandlerInv, KeyedInv, NEW n \in Busy, NEW r, Becomes(n, r), KeyedFields(r),
         faults' \in Nat, faults' = 0 => faults = 0 /\ MetRuns(r, n, ran, met),
         UNCHANGED ran, AnswersFit(kept', onTheWay'),
         \A k \in Keys : HasAnswer(k, kept, onTheWay) => HasAnswer(k, kept', onTheWay'),
         request[n].at = "has run" => HasAnswer(request[n].key, kept', onTheWay')
  PROVE  KeyedInv'
  <1>1. request'[n] = r /\ met' = met /\ \A m \in Requests \ {n} : request'[m] = request[m]
    BY DEF Becomes, HandlerInv, RequestShape, Busy
  <1> QED BY <1>1, KeyedKept DEF Is

LEMMA KeyedCalls ==
  ASSUME HandlerInv, KeyedInv, NEW n \in Requests, NEW at, at \notin Ended, Is(n, "keyed", at)
  PROVE  /\ n \in Busy /\ request[n].key \in Keys
         /\ {"op", "at", "key", "good", "refreshed", "stepped", "alone"} \subseteq DOMAIN request[n]
         /\ faults \in Nat /\ AnswersFit(kept, onTheWay)
  <1>1. n \in Busy
    BY DEF Is, Busy
  <1>2. {"op", "at"} \subseteq DOMAIN request[n]
    BY <1>1, InProgress
  <1> QED BY <1>1, <1>2 DEF KeyedInv, KeyedFields, Is

(* Keeping its fields, it goes to where it has not run, or ends. *)
LEMMA KeyedGoesTo ==
  ASSUME HandlerInv, KeyedInv, NEW n \in Requests, NEW from, from \notin Ended, Is(n, "keyed", from),
         NEW at, GoesTo(n, at), at # "not yet",
         faults' \in Nat, faults' = 0 => faults = 0 /\ (at \notin Ended => from \in {"authenticates", "checks code", "runs"}),
         UNCHANGED ran, AnswersFit(kept', onTheWay'),
         \A k \in Keys : HasAnswer(k, kept, onTheWay) => HasAnswer(k, kept', onTheWay'),
         from = "has run" => HasAnswer(request[n].key, kept', onTheWay')
  PROVE  KeyedInv'
  <1>1. /\ n \in Busy /\ request[n].key \in Keys
        /\ {"op", "at", "key", "good", "refreshed", "stepped", "alone"} \subseteq DOMAIN request[n]
    BY KeyedCalls
  <1> DEFINE r == IF at \in Ended THEN [op |-> request[n].op, at |-> at] ELSE [request[n] EXCEPT !.at = at]
  <1>2. Becomes(n, r)
    BY DEF GoesTo
  <1>3. KeyedFields(r)
    BY <1>1 DEF KeyedFields
  <1>4. faults' = 0 => MetRuns(r, n, ran, met)
    <2>1. CASE at \in Ended
      BY <2>1 DEF MetRuns, Ended
    <2>2. CASE at \notin Ended /\ faults' = 0
      <3>1. MetRuns(request[n], n, ran, met)
        BY <1>1, <2>2 DEF KeyedInv
      <3>2. r.op = request[n].op /\ r.alone = request[n].alone /\ r.key = request[n].key
        BY <1>1, <2>2
      <3> QED BY <2>2, <3>1, <3>2 DEF MetRuns, Is
    <2> QED BY <2>1, <2>2
  <1> HIDE DEF r
  <1> QED BY <1>1, <1>2, <1>3, <1>4, KeyedGoesOn DEF Is

LEMMA HearsKeeps ==
  ASSUME HandlerInv, KeyedInv, NEW n \in Requests, NEW from, from \notin Ended, Is(n, "keyed", from),
         NEW status, Hears(n, status), UNCHANGED faults,
         UNCHANGED ran, AnswersFit(kept', onTheWay'),
         \A k \in Keys : HasAnswer(k, kept, onTheWay) => HasAnswer(k, kept', onTheWay'),
         from = "has run" => HasAnswer(request[n].key, kept', onTheWay')
  PROVE  KeyedInv'
  <1>1. /\ n \in Busy /\ request[n].key \in Keys /\ faults \in Nat
        /\ {"op", "at", "key", "good", "refreshed", "stepped", "alone"} \subseteq DOMAIN request[n]
    BY KeyedCalls
  <1>2. ASSUME NEW r, DOMAIN r = DOMAIN request[n], r.key = request[n].key, Resends(n, r)
        PROVE  KeyedInv'
    <2> DEFINE again == [r EXCEPT !.at = "looks up", !.alone = FALSE]
    <2>1. Becomes(n, again)
      BY <1>2 DEF Resends
    <2>2. again.at = "looks up" /\ again.key = r.key /\ DOMAIN again = DOMAIN r
      BY <1>1, <1>2
    <2> HIDE DEF again
    <2>3. KeyedFields(again) /\ MetRuns(again, n, ran, met)
      BY <1>1, <1>2, <2>2 DEF KeyedFields, MetRuns
    <2> QED BY <1>1, <2>1, <2>3, KeyedGoesOn DEF Is
  <1>3. CASE Resends(n, [request[n] EXCEPT !.refreshed = TRUE, !.good = TRUE])
    <2> DEFINE r == [request[n] EXCEPT !.refreshed = TRUE, !.good = TRUE]
    <2>1. DOMAIN r = DOMAIN request[n] /\ r.key = request[n].key /\ Resends(n, r)
      BY <1>1, <1>3
    <2> HIDE DEF r
    <2> QED BY <1>2, <2>1
  <1>4. CASE Resends(n, [request[n] EXCEPT !.stepped = TRUE])
    <2> DEFINE r == [request[n] EXCEPT !.stepped = TRUE]
    <2>1. DOMAIN r = DOMAIN request[n] /\ r.key = request[n].key /\ Resends(n, r)
      BY <1>1, <1>4
    <2> HIDE DEF r
    <2> QED BY <1>2, <2>1
  <1>5. CASE GoesTo(n, IF status = "done" THEN "done" ELSE "refused")
    <2>1. PICK at : at = IF status = "done" THEN "done" ELSE "refused"
      OBVIOUS
    <2>2. GoesTo(n, at) /\ at \in Ended /\ at # "not yet"
      BY <1>5, <2>1 DEF Ended
    <2> QED BY <1>1, <2>2, KeyedGoesTo
  <1> QED BY <1>3, <1>4, <1>5 DEF Hears

(* The answer is on its way once it is given. *)
LEMMA StoresAnswer ==
  ASSUME HandlerInv, KeyedInv, NEW n \in Requests, NEW from, from \notin Ended, Is(n, "keyed", from),
         NEW status \in Statuses, Stores(n, status)
  PROVE  /\ AnswersFit(kept', onTheWay') /\ HasAnswer(request[n].key, kept', onTheWay')
         /\ \A k \in Keys : HasAnswer(k, kept, onTheWay) => HasAnswer(k, kept', onTheWay')
  <1>1. request[n].key \in Keys /\ AnswersFit(kept, onTheWay)
    BY KeyedCalls
  <1> DEFINE w == [key |-> request[n].key, by |-> n, status |-> status]
  <1>2. onTheWay' = onTheWay \cup {w} /\ kept' = kept
    BY DEF Stores
  <1>3. w.key = request[n].key /\ w.status = status
    OBVIOUS
  <1> HIDE DEF w
  <1>4. AnswersFit(kept', onTheWay')
    BY <1>1, <1>2, <1>3 DEF AnswersFit
  <1> QED BY <1>2, <1>3, <1>4 DEF HasAnswer

LEMMA RefusesKeeps ==
  ASSUME HandlerInv, KeyedInv, NEW n \in Requests, NEW from, from \notin Ended, Is(n, "keyed", from),
         NEW status \in Statuses, Hears(n, status), Stores(n, status), UNCHANGED <<ran, faults>>
  PROVE  KeyedInv'
  <1>1. /\ AnswersFit(kept', onTheWay') /\ HasAnswer(request[n].key, kept', onTheWay')
        /\ \A k \in Keys : HasAnswer(k, kept, onTheWay) => HasAnswer(k, kept', onTheWay')
    BY StoresAnswer
  <1> QED BY <1>1, HearsKeeps

(* A call that finds no answer, and none on the way, has met all who have run. *)
LEMMA LookUpKeyKeeps ==
  ASSUME HandlerInv, KeyedInv, NEW n \in Requests, LookUpKey(n), UNCHANGED faults PROVE KeyedInv'
  <1>1. Is(n, "keyed", "looks up") /\ kept[request[n].key] = "none" /\ "looks up" \notin Ended
    BY DEF LookUpKey, Ended
  <1>2. /\ n \in Busy /\ request[n].key \in Keys /\ faults \in Nat /\ AnswersFit(kept, onTheWay)
        /\ {"op", "at", "key", "good", "refreshed", "stepped", "alone"} \subseteq DOMAIN request[n]
    BY <1>1, KeyedCalls
  <1> DEFINE alone == ~\E w \in onTheWay : w.key = request[n].key
             r == [request[n] EXCEPT !.at = "authenticates", !.alone = alone]
  <1>3. Becomes(n, r) /\ UNCHANGED <<kept, onTheWay, ran>>
    BY DEF LookUpKey, keyedVars
  <1>4. r.key = request[n].key /\ DOMAIN r = DOMAIN request[n] /\ r.alone = alone
    BY <1>2
  <1> HIDE DEF r
  <1>5. KeyedFields(r)
    BY <1>2, <1>4 DEF KeyedFields
  <1>6. ASSUME faults = 0, r.alone, NEW u \in ran, u.key = r.key, u.by # n PROVE {u.by, n} \in met
    <2>1. ~HasAnswer(u.key, kept, onTheWay)
      BY <1>1, <1>4, <1>6 DEF HasAnswer
    <2>2. u.by \in Busy
      BY <1>6, <2>1 DEF KeyedInv, RunsAnswered, Is, Busy, Ended
    <2> QED BY <1>2, <1>6, <2>2 DEF HandlerInv, BusyMet, Overlapped
  <1>7. faults = 0 => MetRuns(r, n, ran, met)
    BY <1>6 DEF MetRuns
  <1> QED BY <1>1, <1>2, <1>3, <1>5, <1>7, KeyedGoesOn DEF Is

LEMMA RunKeeps ==
  ASSUME HandlerInv, KeyedInv, NEW n \in Requests, Run(n), UNCHANGED faults PROVE KeyedInv'
  <1>1. Is(n, "keyed", "runs") /\ GoesTo(n, "has run") /\ "runs" \notin Ended /\ "has run" \notin Ended
    BY DEF Run, Ended
  <1>2. /\ n \in Busy /\ request[n].key \in Keys /\ faults \in Nat /\ AnswersFit(kept, onTheWay)
        /\ {"op", "at", "key", "good", "refreshed", "stepped", "alone"} \subseteq DOMAIN request[n]
    BY <1>1, KeyedCalls
  <1> DEFINE x == [key |-> request[n].key, by |-> n, alone |-> request[n].alone]
  <1>3. ran' = ran \cup {x} /\ UNCHANGED <<kept, onTheWay>> /\ met' = met
    BY DEF Run, GoesTo, Becomes
  <1>4. x.key = request[n].key /\ x.by = n /\ x.alone = request[n].alone
    OBVIOUS
  <1> HIDE DEF x
  <1>5. /\ request'[n].at = "has run" /\ request'[n].op = "keyed" /\ DOMAIN request'[n] = DOMAIN request[n]
        /\ \A f \in DOMAIN request[n] \ {"at"} : request'[n][f] = request[n][f]
        /\ \A m \in Requests \ {n} : request'[m] = request[m]
    <2>1. "has run" # "not yet" /\ request[n].op = "keyed"
      BY <1>1 DEF Is
    <2> QED BY <1>1, <1>2, <2>1, GoingOn
  <1>6. request'[n].key = request[n].key /\ KeyedFields(request'[n])
    BY <1>2, <1>5 DEF KeyedFields
  <1>7. \A m \in Requests : KeyedFields(request'[m])
    BY <1>5, <1>6 DEF KeyedInv
  <1>8. \A u \in ran' : u.key \in Keys /\ u.by \in Requests
    BY <1>2, <1>3, <1>4 DEF KeyedInv
  <1>9. ASSUME faults = 0 PROVE RunsAnswered' /\ RunsOnce(ran', met')
                                /\ \A m \in Requests : MetRuns(request'[m], m, ran', met')
    <2>1. MetRuns(request[n], n, ran, met) /\ RunsAnswered /\ RunsOnce(ran, met)
      BY <1>9 DEF KeyedInv
    <2>2. request[n].alone => \A u \in ran : u.key = x.key /\ u.by # n => {u.by, n} \in met
      BY <1>1, <1>4, <2>1 DEF MetRuns, Is
    <2>3. RunsOnce(ran', met')
      <3> SUFFICES ASSUME NEW u \in ran', NEW v \in ran', u.key = v.key, u.by # v.by, u.alone, v.alone
                   PROVE  {u.by, v.by} \in met
        BY <1>3 DEF RunsOnce
      <3>1. CASE u \in ran /\ v \in ran
        BY <2>1, <3>1 DEF RunsOnce
      <3>2. CASE u \in ran /\ v = x
        BY <1>4, <2>2, <3>2
      <3>3. CASE u = x /\ v \in ran
        <4>1. {v.by, n} \in met /\ {v.by, n} = {u.by, v.by}
          BY <1>4, <2>2, <3>3
        <4> QED BY <4>1
      <3> QED BY <1>3, <3>1, <3>2, <3>3
    <2>4. RunsAnswered'
      <3> SUFFICES ASSUME NEW u \in ran'
                   PROVE  \/ request'[u.by].at = "has run" /\ request'[u.by].op = "keyed" /\ request'[u.by].key = u.key
                          \/ HasAnswer(u.key, kept, onTheWay)
        BY <1>3 DEF RunsAnswered, Is
      <3>1. CASE u = x
        BY <1>4, <1>5, <1>6, <3>1
      <3>2. CASE u \in ran
        <4>1. u.by \in Requests
          BY <3>2 DEF KeyedInv
        <4>2. CASE u.by # n
          BY <1>5, <2>1, <3>2, <4>1, <4>2 DEF RunsAnswered, Is
        <4>3. CASE u.by = n
          BY <1>1, <2>1, <3>2, <4>3 DEF RunsAnswered, Is
        <4> QED BY <4>2, <4>3
      <3> QED BY <1>3, <3>1, <3>2
    <2>5. ASSUME NEW m \in Requests PROVE MetRuns(request'[m], m, ran', met')
      <3>1. CASE m = n
        BY <1>5, <3>1 DEF MetRuns
      <3>2. CASE m # n
        <4>1. request'[m] = request[m] /\ MetRuns(request[m], m, ran, met)
          BY <1>5, <1>9, <3>2 DEF KeyedInv
        <4>2. request[m].op = "keyed" /\ request[m].at \in {"authenticates", "checks code", "runs"} => {n, m} \in met
          BY <1>2, <3>2 DEF Busy, Ended, HandlerInv, BusyMet, Overlapped
        <4> QED BY <1>3, <1>4, <4>1, <4>2 DEF MetRuns
      <3> QED BY <3>1, <3>2
    <2> QED BY <2>3, <2>4, <2>5
  <1> QED BY <1>2, <1>3, <1>7, <1>8, <1>9 DEF KeyedInv
LEMMA KeyedStepKeeps ==
  ASSUME HandlerInv, KeyedInv, NEW n \in Requests, KeyedSteps(n), UNCHANGED faults PROVE KeyedInv'
  <1>1. "looks up" \notin Ended /\ "authenticates" \notin Ended /\ "checks code" \notin Ended /\ "runs" \notin Ended
        /\ "has run" \notin Ended /\ "401" \in Statuses /\ "403" \in Statuses /\ "error" \in Statuses /\ "done" \in Statuses
    BY DEF Ended, Statuses
  <1>2. faults \in Nat /\ AnswersFit(kept, onTheWay)
    BY DEF KeyedInv
  <1>3. ASSUME NEW from \in {"authenticates", "checks code"}, Is(n, "keyed", from),
               NEW at \in {"checks code", "runs"}, KeyedTo(n, at)
        PROVE  KeyedInv'
    <2>1. UNCHANGED <<kept, onTheWay, ran>> /\ GoesTo(n, at) /\ at # "not yet" /\ from \notin Ended /\ from # "has run"
      BY <1>1, <1>3 DEF KeyedTo, keyedVars
    <2> QED BY <1>2, <1>3, <2>1, KeyedGoesTo
  <1>4. CASE Replay(n)
    <2>1. UNCHANGED <<kept, onTheWay>>
      BY <1>4 DEF Replay
    <2>2. PICK status : Hears(n, status)
      BY <1>4 DEF Replay
    <2>3. /\ AnswersFit(kept', onTheWay')
          /\ \A k \in Keys : HasAnswer(k, kept, onTheWay) => HasAnswer(k, kept', onTheWay')
      BY <1>2, <2>1
    <2>4. PICK from : Is(n, "keyed", from) /\ from \notin Ended /\ from # "has run"
      BY <1>1, <1>4 DEF Replay
    <2>5. UNCHANGED ran
      BY <1>4 DEF Replay
    <2> QED BY <2>2, <2>3, <2>4, <2>5, HearsKeeps
  <1>5. CASE Authenticate(n)
    <2>1. Is(n, "keyed", "authenticates")
      BY <1>5 DEF Authenticate
    <2>2. CASE request[n].good /\ request[n].key \in Guarded
      BY <1>3, <1>5, <2>1, <2>2 DEF Authenticate
    <2>3. CASE request[n].good /\ request[n].key \notin Guarded
      BY <1>3, <1>5, <2>1, <2>3 DEF Authenticate
    <2>4. CASE ~request[n].good
      BY <1>1, <1>5, <2>1, <2>4, RefusesKeeps DEF Authenticate, Refuses
    <2> QED BY <2>2, <2>3, <2>4
  <1>6. CASE CheckStepCode(n)
    BY <1>1, <1>3, <1>6, RefusesKeeps DEF CheckStepCode, Refuses
  <1>7. CASE RunFails(n)
    BY <1>1, <1>7, RefusesKeeps DEF RunFails, Refuses
  <1>8. CASE AnswerRun(n)
    BY <1>1, <1>8, RefusesKeeps DEF AnswerRun
  <1> QED BY <1>4, <1>5, <1>6, <1>7, <1>8, LookUpKeyKeeps, RunKeeps DEF KeyedSteps

(* A fault is counted: what it leaves undone need not be done once. *)
LEMMA FaultKeepsKeyed == ASSUME WalletInv, KeyedInv, Fault PROVE KeyedInv'
  <1> USE DEF WalletInv, RequestsInv
  <1>1. /\ faults \in Nat /\ faults' = faults + 1 /\ faults' # 0 /\ AnswersFit(kept, onTheWay)
        /\ \A n \in Requests : KeyedFields(request[n])
        /\ \A u \in ran : u.key \in Keys /\ u.by \in Requests
    BY DEF Fault, KeyedInv
  <1>2. ASSUME UNCHANGED ran, AnswersFit(kept', onTheWay'), \A n \in Requests : KeyedFields(request'[n])
        PROVE  KeyedInv'
    BY <1>1, <1>2 DEF KeyedInv
  <1>3. ASSUME UNCHANGED keyedVars, NEW ops, HandlerStep(ops), "keyed" \notin ops
        PROVE  KeyedInv'
    <2>1. ASSUME NEW n \in Requests PROVE KeyedFields(request'[n])
      <3>1. request'[n] = request[n] \/ request'[n].op # "keyed"
        BY <1>3 DEF HandlerStep
      <3> QED BY <1>1, <3>1 DEF KeyedFields
    <2> QED BY <1>1, <1>2, <1>3, <2>1 DEF keyedVars
  <1>4. PICK n \in Requests :
          \/ Dies(n)
          \/ TransferIsLost(n) /\ TransferFrame
          \/ RailAnswerIsLost(n) /\ RemittanceFrame
          \/ RedisFails(n) /\ AuthorizeFrame
          \/ LenderAnswerIsLost(n) /\ LoanFrame
          \/ AppIsKilled /\ PhoneFrame
          \/ KeyIsNotRead(n) /\ KeyedFrame
          \/ AnswerIsNotStored /\ KeyedFrame
    BY DEF Fault
  <1>5. CASE Dies(n) \/ (RailAnswerIsLost(n) /\ RemittanceFrame)
    <2>1. n \in Busy /\ GoesTo(n, "died") /\ "died" \in Ended /\ "died" # "not yet" /\ UNCHANGED keyedVars
      BY <1>5 DEF Dies, planeVars, RailAnswerIsLost, RemittanceFrame, Is, Busy, Ended
    <2>2. request'[n].at = "died" /\ \A m \in Requests \ {n} : request'[m] = request[m]
      BY <2>1, GoingOn
    <2>3. \A m \in Requests : KeyedFields(request'[m])
      BY <1>1, <2>1, <2>2 DEF KeyedFields
    <2> QED BY <1>1, <1>2, <2>1, <2>3 DEF keyedVars
  <1>6. CASE TransferIsLost(n) /\ TransferFrame
    <2>1. n \in Busy /\ request[n].op = "transfer" /\ UNCHANGED keyedVars
      BY <1>6 DEF TransferIsLost, TransferFrame, Is, Busy, Ended
    <2>2. PICK at \in {"reward", "done"} : GoesTo(n, at)
      BY <1>6 DEF TransferIsLost, AfterTransfer
    <2>3. HandlerStep({"transfer"})
      BY <2>1, <2>2, Going
    <2> QED BY <1>3, <2>1, <2>3
  <1>7. CASE RedisFails(n) /\ AuthorizeFrame
    <2>1. n \in Busy /\ request[n].op = "authorize"
      BY <1>7, IsBusy DEF RedisFails, Ended
    <2>2. Proceeds(n)
      BY <1>7, <2>1, InProgress DEF RedisFails, Scores, CountsOn, Answers, AfterAnswer, Proceeds, IsRequest, NotYet
    <2>3. HandlerStep({"authorize"})
      BY <2>1, <2>2, Proceeding
    <2> QED BY <1>3, <1>7, <2>3 DEF AuthorizeFrame
  <1>8. CASE LenderAnswerIsLost(n) /\ LoanFrame
    <2>1. n \in Busy /\ request[n].op = "ewa"
      BY <1>8, IsBusy DEF LenderAnswerIsLost, Ended
    <2>2. Proceeds(n)
      BY <1>8 DEF LenderAnswerIsLost, Proceeds
    <2>3. HandlerStep({"ewa"})
      BY <2>1, <2>2, Proceeding
    <2> QED BY <1>3, <1>8, <2>3 DEF LoanFrame
  <1>9. CASE AppIsKilled /\ PhoneFrame
    <2>1. HandlerStep(PhoneOps) /\ "keyed" \notin PhoneOps
      BY <1>9, KillRequests DEF PhoneOps
    <2> QED BY <1>3, <1>9, <2>1 DEF PhoneFrame
  <1>10. CASE KeyIsNotRead(n)
    <2>1. UNCHANGED <<kept, onTheWay>>
      BY <1>10 DEF KeyIsNotRead, KeyedTo, keyedVars
    <2>2. PICK from : Is(n, "keyed", from) /\ from \notin Ended /\ from # "has run"
      BY <1>10 DEF KeyIsNotRead, Ended
    <2>5. PICK at : at = "authenticates"
      OBVIOUS
    <2>6. GoesTo(n, at) /\ at # "not yet" /\ UNCHANGED ran
      BY <1>10, <2>5 DEF KeyIsNotRead, KeyedTo, keyedVars
    <2>3. /\ AnswersFit(kept', onTheWay')
          /\ \A k \in Keys : HasAnswer(k, kept, onTheWay) => HasAnswer(k, kept', onTheWay')
      BY <1>1, <2>1
    <2>4. faults' \in Nat
      BY <1>1
    <2> QED BY <1>1, <2>2, <2>3, <2>4, <2>6, KeyedGoesTo
  <1>11. CASE AnswerIsNotStored
    <2>1. UNCHANGED <<kept, ran, request>> /\ onTheWay' \subseteq onTheWay
      BY <1>11 DEF AnswerIsNotStored, sharedVars, handlerVars
    <2> QED BY <1>1, <1>2, <2>1 DEF AnswersFit
  <1> QED BY <1>4, <1>5, <1>6, <1>7, <1>8, <1>9, <1>10, <1>11

LEMMA KeyedGoesOnAll == ASSUME WalletInv, KeyedInv, [Next]_vars PROVE KeyedInv'
  <1> USE DEF WalletInv, RequestsInv
  <1>1. CASE (TransferNext \/ SavingsNext \/ RemittanceNext \/ CardNext \/ AuthorizeNext \/ LoanNext \/ PhoneNext)
             /\ UNCHANGED faults
    <2>1. UNCHANGED <<keyedVars, faults>>
      BY <1>1 DEF TransferNext, TransferFrame, SavingsNext, SavingsFrame, RemittanceNext, RemittanceFrame, CardNext,
                  CardFrame, AuthorizeNext, AuthorizeFrame, LoanNext, LoanFrame, PhoneNext, PhoneFrame
    <2>2. /\ "keyed" \notin SavingsOps /\ "keyed" \notin CardOps /\ "keyed" \notin LoanOps /\ "keyed" \notin PhoneOps
          /\ "keyed" \notin RemittanceOps /\ "keyed" \notin {"transfer"} /\ "keyed" \notin {"authorize"}
      BY DEF SavingsOps, CardOps, Managing, LoanOps, PhoneOps, RemittanceOps
    <2> QED BY <1>1, <2>1, <2>2, TransferRequests, SavingsRequests, RemittanceRequests, CardRequests, AuthorizeRequests,
               LoanRequests, PhoneRequests, OthersKeepKeyed
  <1>2. CASE KeyedNext /\ UNCHANGED faults
    BY <1>2, KeyedArrivesKeeps, StoreAnswerKeeps, KeyedStepKeeps DEF KeyedNext
  <1>3. CASE (Passes /\ UNCHANGED faults) \/ UNCHANGED vars
    <2>1. UNCHANGED <<keyedVars, handlerVars, faults>>
      BY <1>3 DEF Passes, NextDay, planeVars, vars, sharedVars
    <2> QED BY <2>1, RestKeepsKeyed
  <1> QED BY <1>1, <1>2, <1>3, FaultKeepsKeyed DEF Next

LEMMA KeyedStarts == Init => KeyedInv
  <1> SUFFICES ASSUME Init PROVE KeyedInv
    OBVIOUS
  <1>1. /\ kept = [k \in Keys |-> "none"] /\ onTheWay = {} /\ ran = {} /\ faults = 0
        /\ \A n \in Requests : request[n] = NotYet
    BY DEF Init, InitShared, InitKeyed, InitHandlers
  <1>2. KeyedFields(NotYet) /\ \A n, runs, M : MetRuns(NotYet, n, runs, M)
    BY NotYetEnded DEF KeyedFields, MetRuns, Ended
  <1> QED BY <1>1, <1>2 DEF KeyedInv, AnswersFit, RunsAnswered, RunsOnce

(***************************************************************************)
(* Once only, all together.                                                *)
(***************************************************************************)
OnceInv == ReferralInv /\ QuoteInv /\ CashbackInv /\ KeyedInv

LEMMA OnceIsOnlyOverlapped == OnceInv => OnceOnlyNeedsOverlap
  <1> SUFFICES ASSUME OnceInv PROVE OnceOnlyNeedsOverlap
    OBVIOUS
  <1>1. ASSUME NEW r \in ledger, NEW s \in ledger, r.type = "REFERRAL_REWARD", s.type = "REFERRAL_REWARD",
               r.ref = s.ref, r.by # s.by
        PROVE  Overlapped(r.by, s.by)
    <2>1. PICK e \in DOMAIN Referrer : r.ref = <<"referral", e>>
      BY <1>1 DEF OnceInv, ReferralInv, OfType
    <2>2. r \in Rewards(ledger, e) /\ s \in Rewards(ledger, e) /\ AllMet(Rewards(ledger, e), met)
      BY <1>1, <2>1 DEF OnceInv, ReferralInv, Rewards, OfType
    <2> QED BY <1>1, <2>2 DEF AllMet, Overlapped
  <1>2. \A m, n \in Requests : m # n /\ sent[m] = sent[n] /\ sent[m] \in Quotes => Overlapped(m, n)
    BY DEF OnceInv, QuoteInv, QuotesOnce, Overlapped
  <1>3. ASSUME NEW d \in 0..LastDay, SumOf(Total, CashbackRows(d)) > CashbackCap
        PROVE  SomeOverlap(CashbackRows(d))
    <2>1. Awarded(ledger, d) = CashbackRows(d)
      BY DEF Awarded, OfType, CashbackRows
    <2>2. Clash(CashbackRows(d), met)
      BY <1>3, <2>1 DEF OnceInv, CashbackInv, CapHolds, CashSum
    <2> QED BY <2>2 DEF Clash, SomeOverlap, Overlapped
  <1>4. faults > 0 \/ \A u, v \in ran : u.key = v.key /\ u.by # v.by /\ u.alone /\ v.alone => Overlapped(u.by, v.by)
    <2>1. faults \in Nat
      BY DEF OnceInv, KeyedInv
    <2>2. CASE faults = 0
      BY <2>2 DEF OnceInv, KeyedInv, RunsOnce, Overlapped
    <2> QED BY <2>1, <2>2
  <1> QED BY <1>1, <1>2, <1>3, <1>4 DEF OnceOnlyNeedsOverlap

LEMMA OnceStarts == Init => OnceInv
  BY ReferralsStart, QuotesStart, CashbackStarts, KeyedStarts DEF OnceInv

LEMMA OnceGoesOn == WalletInv /\ MoneyInv /\ MoneyInv' /\ OnceInv /\ [Next]_vars => OnceInv'
  BY ReferralsGoOn, QuotesGoOn, CashbackGoesOn, KeyedGoesOnAll DEF OnceInv

(* Whatever the numbers of people, quotes, days and keys: a referral is     *)
(* rewarded twice, a locked quote sent twice, a month's cashback gone past  *)
(* its cap or a key's handler run twice only by requests that were in       *)
(* progress at once (or, for a key, when Redis failed or had yet to store). *)
THEOREM OnceOnlyNeedsOverlapHolds == Spec => []OnceOnlyNeedsOverlap
  <1>1. Spec => []WalletInv /\ []MoneyInv
    BY WalletHolds, MoneyHolds, PTL
  <1>2. Init => OnceInv
    BY OnceStarts
  <1>3. WalletInv /\ MoneyInv /\ MoneyInv' /\ OnceInv /\ [Next]_vars => OnceInv'
    BY OnceGoesOn
  <1>4. OnceInv => OnceOnlyNeedsOverlap
    BY OnceIsOnlyOverlapped
  <1> QED BY <1>1, <1>2, <1>3, <1>4, PTL DEF Spec

(***************************************************************************)
(* What the card has spent today.  A row is written for the day it is; the *)
(* counter an event works with is the card's, or zero when the card has no *)
(* row of today, as long as one event is handled at a time.                *)
(***************************************************************************)
EventRows(rows) == {row \in rows : row.note = "card"}
DayRows(rows, d) == {row \in EventRows(rows) : row.day = d}
Bought(rows) == {row \in rows : row.type = "CARD_PURCHASE"}
Spends(spent, rows) == -Moved(rows) <= spent /\ spent <= -Moved(Bought(rows))

(* The counter an event works with. *)
CountsFrom(base, rows, spent, day, d) == (base = 0 /\ DayRows(rows, d) = {}) \/ (base = spent /\ day = d)

Reading(r) == r.op = "event" /\ r.at \in {"replay check", "writes"}
ReadsDay(r, d) == Reading(r) => r.spent \in Int /\ r.day \in 0..d
ReadsSpent(r, rows, spent, day, d) ==
  r.op = "event" =>
    /\ r.at = "replay check" => CountsFrom(IF r.day = d THEN r.spent ELSE 0, rows, spent, day, d)
    /\ r.at = "writes" /\ r.day = d => CountsFrom(r.spent + Moves(r.event), rows, spent, day, d)

RowsAreDated == today \in Nat /\ \A row \in ledger : row.day \in 0..today /\ (row.type = "REMITTANCE" => row.note # "card")
CardIsDated ==
  /\ {"status", "spent", "day"} \subseteq DOMAIN card /\ card = [f \in DOMAIN card |-> card[f]]
  /\ card.spent \in Nat /\ card.day \in 0..today /\ carried \in BOOLEAN
  /\ DayRows(ledger, today) # {} => card.day = today
CounterInv ==
  Calm({"event"}) =>
    /\ card.day = today /\ carried = FALSE => Spends(card.spent, DayRows(ledger, today))
    /\ \A n \in Requests : ReadsSpent(request[n], ledger, card.spent, card.day, today)

SpentInv ==
  /\ RowsAreDated /\ CardIsDated
  /\ \A n \in Requests : ReadsDay(request[n], today)
  /\ CounterInv

LEMMA SpentIsTodays == MoneyInv /\ SpentInv => SpentTodayIsTodays
  <1> SUFFICES ASSUME MoneyInv, SpentInv, card.day = today, ~carried, Undisturbed({"event"})
               PROVE  /\ card.spent >= -SumOf(Effect, TodaysEvents)
                      /\ card.spent <= -SumOf(Effect, {row \in TodaysEvents : row.type = "CARD_PURCHASE"})
    BY DEF SpentTodayIsTodays
  <1>1. Calm({"event"}) /\ carried = FALSE
    BY DEF Undisturbed, Calm, SpentInv, CardIsDated
  <1>2. TodaysEvents = DayRows(ledger, today)
    BY DEF TodaysEvents, DayRows, EventRows
  <1>3. {row \in TodaysEvents : row.type = "CARD_PURCHASE"} = Bought(DayRows(ledger, today))
    BY <1>2 DEF Bought
  <1>4. Spends(card.spent, DayRows(ledger, today))
    BY <1>1 DEF SpentInv, CounterInv
  <1>5. PICK rows : rows = DayRows(ledger, today)
    OBVIOUS
  <1>6. rows \in SUBSET ledger /\ TypedRows(ledger)
    BY <1>5 DEF DayRows, EventRows, MoneyInv
  <1>7. Moved(rows) \in Int
    BY <1>6, TypedEffects, MovedType
  <1>8. card.spent \in Int
    BY DEF SpentInv, CardIsDated
  <1>9. -Moved(rows) <= card.spent /\ card.spent <= -Moved(Bought(rows))
    BY <1>4, <1>5 DEF Spends
  <1>10. -Moved(rows) <= card.spent => card.spent >= -Moved(rows)
    BY <1>7, <1>8
  <1> QED BY <1>2, <1>3, <1>5, <1>9, <1>10 DEF Moved

(* What the rows have of the card's events stays: other rows come and go,  *)
(* dated today.                                                            *)
PostsPlainly ==
  /\ today' = today
  /\ \A row \in ledger' : row \in ledger \/ (row.day \in 0..today /\ row.note # "card")
  /\ \A row \in ledger : row \in ledger' \/ row.note # "card"

LEMMA PlainRows ==
  ASSUME RowsAreDated, PostsPlainly
  PROVE  RowsAreDated' /\ EventRows(ledger') = EventRows(ledger)
  <1>1. RowsAreDated'
    BY DEF RowsAreDated, PostsPlainly
  <1>2. EventRows(ledger') = EventRows(ledger)
    BY DEF PostsPlainly, EventRows
  <1> QED BY <1>1, <1>2

LEMMA PostsNone == ASSUME UNCHANGED <<ledger, today>> PROVE PostsPlainly
  BY DEF PostsPlainly

LEMMA PostsOne ==
  ASSUME RowsAreDated, NEW n, NEW e, NEW type, NEW total, NEW key, NEW ref, NEW note, note # "card"
  PROVE  Row(n, e, type, total, key, ref, note).day \in 0..today /\ Row(n, e, type, total, key, ref, note).note # "card"
  <1>1. today \in 0..today
    BY DEF RowsAreDated
  <1> QED BY <1>1 DEF Row

LEMMA TransferPosts == ASSUME RowsAreDated, TransferNext PROVE PostsPlainly
  <1>1. UNCHANGED today
    BY TodayRests
  <1>2. CASE \E n \in Requests : CommitTransfer(n)
    <2>1. PICK n \in Requests : CommitTransfer(n)
      BY <1>2
    <2> DEFINE r == request[n]
               x == Row(n, r.from, "TRANSFER", -(r.amount + FeeOf(r.from)), r.key, NoKey, "")
               y == Row(n, r.to, "RECEIVE", r.amount, NoKey, NoKey, "")
    <2>2. ledger' = ledger \cup {x, y}
      BY <2>1 DEF CommitTransfer, Posts
    <2>3. x.day \in 0..today /\ x.note # "card" /\ y.day \in 0..today /\ y.note # "card"
      BY PostsOne
    <2> HIDE DEF x, y
    <2> QED BY <1>1, <2>2, <2>3 DEF PostsPlainly
  <1>3. CASE \E n \in Requests : PayReward(n)
    <2>1. PICK n \in Requests : PayReward(n)
      BY <1>3
    <2> DEFINE RewardTo(e) == Row(n, e, "REFERRAL_REWARD", Reward, NoKey, <<"referral", request[n].to>>, "")
               rows == {RewardTo(e) : e \in RewardedSides(Referrer[request[n].to], request[n].to)}
    <2>2. ledger' = ledger \cup rows
      BY <2>1 DEF PayReward, Posts
    <2>3. \A e : RewardTo(e).day \in 0..today /\ RewardTo(e).note # "card"
      BY PostsOne
    <2>4. \A row \in rows : row.day \in 0..today /\ row.note # "card"
      BY <2>3
    <2> HIDE DEF rows
    <2> QED BY <1>1, <2>2, <2>4 DEF PostsPlainly
  <1>4. CASE UNCHANGED ledger
    BY <1>1, <1>4, PostsNone
  <1> QED BY <1>2, <1>3, <1>4 DEF TransferNext, TransferArrives, Transfer, TransferSteps, CheckReplay, CheckTransfer,
                            TransferConflicts, FindReferral, Refused, walletVars

LEMMA SavingsPosts == ASSUME RowsAreDated, SavingsNext PROVE PostsPlainly
  <1>1. UNCHANGED today
    BY TodayRests
  <1>2. CASE \E n \in Requests : CommitDeposit(n) \/ CommitWithdrawal(n)
    <2>1. PICK n \in Requests : CommitDeposit(n) \/ CommitWithdrawal(n)
      BY <1>2
    <2> DEFINE row(note) == Row(n, request[n].who, "SAVINGS_TRANSFER", request[n].amount, NoKey,
                                <<"goal", request[n].goal>>, note)
    <2>2. PICK note \in {"deposit", "withdrawal"} : ledger' = ledger \cup {row(note)}
      BY <2>1 DEF CommitDeposit, CommitWithdrawal, Posts
    <2>3. row(note).day \in 0..today /\ row(note).note # "card"
      BY PostsOne
    <2> HIDE DEF row
    <2> QED BY <1>1, <2>2, <2>3 DEF PostsPlainly
  <1>3. CASE UNCHANGED ledger
    BY <1>1, <1>3, PostsNone
  <1> QED BY <1>2, <1>3
       DEF SavingsNext, SavingsArrives, AutoSave, Deposit, Withdraw, CreateGoal, SavingsSteps, CheckDeposit,
           CheckWithdrawal, NextAutoSave, walletVars, sharedVars

LEMMA RemittancePosts == ASSUME RowShape, RowsAreDated, RemittanceNext PROVE PostsPlainly
  <1>1. UNCHANGED today
    BY TodayRests
  <1>2. CASE \E n \in Requests : CommitSend(n)
    <2>1. PICK n \in Requests : CommitSend(n)
      BY <1>2
    <2> DEFINE row == Row(n, request[n].who, "REMITTANCE", Price, NoKey, <<"transfer", n>>, "")
    <2>2. ledger' = ledger \cup {row}
      BY <2>1 DEF CommitSend, Posts
    <2>3. row.day \in 0..today /\ row.note # "card"
      BY PostsOne
    <2> HIDE DEF row
    <2> QED BY <1>1, <2>2, <2>3 DEF PostsPlainly
  <1>3. CASE \E n \in Requests : CommitRefund(n)
    <2>1. PICK n \in Requests : CommitRefund(n)
      BY <1>3
    <2> DEFINE t == request[n].transfer
               Refund(row) == Row(n, row.employee, "REFUND", row.total, KeyOfRefund(t), <<"transfer", t>>, "")
    <2>2. \A row : Refund(row).day \in 0..today /\ Refund(row).note # "card"
      BY PostsOne
    <2>3. PICK row \in RemittanceRows(t) :
            ledger' = (ledger \ {row}) \cup {[row EXCEPT !.status = "FAILED"], Refund(row)}
      BY <2>1 DEF CommitRefund, Posts
    <2> HIDE DEF Refund, t
    <2>4. row \in ledger /\ row.type = "REMITTANCE" /\ row.note # "card" /\ row.day \in 0..today
      BY <2>3 DEF RemittanceRows, RowsAreDated
    <2>5. [row EXCEPT !.status = "FAILED"].note # "card" /\ [row EXCEPT !.status = "FAILED"].day \in 0..today
      BY <2>4
    <2> QED BY <1>1, <2>2, <2>3, <2>4, <2>5 DEF PostsPlainly
  <1>4. CASE UNCHANGED ledger
    BY <1>1, <1>4, PostsNone
  <1> QED BY <1>2, <1>3, <1>4
       DEF RemittanceNext, RemittanceArrives, Send, SendQuote, Report, LockQuote, QuoteExpires, RailDecides,
           RemittanceSteps, ReadQuote, DropQuote, CheckSend, CallRail, RailRefuses, FindRemittance, LookForRefund,
           RefundConflicts, Refused, walletVars, sharedVars

(* A step that leaves the card, its rows and the events' requests alone. *)
LEMMA UnspentKept ==
  ASSUME SpentInv, PostsPlainly, UNCHANGED <<card, carried>>, NEW ops, HandlerStep(ops),
         \A n \in Requests : request'[n] = request[n] \/ ~Reading(request'[n])
  PROVE  SpentInv'
  <1>1. RowsAreDated' /\ EventRows(ledger') = EventRows(ledger) /\ today' = today
    BY PlainRows DEF SpentInv, PostsPlainly
  <1>2. \A d : DayRows(ledger', d) = DayRows(ledger, d)
    BY <1>1 DEF DayRows
  <1>3. CardIsDated'
    BY <1>1, <1>2 DEF SpentInv, CardIsDated
  <1>4. \A n \in Requests : ReadsDay(request'[n], today)
    BY DEF SpentInv, ReadsDay
  <1>5. CounterInv'
    <2> SUFFICES ASSUME Calm({"event"})'
                 PROVE  /\ card.day = today /\ carried = FALSE => Spends(card.spent, DayRows(ledger', today))
                        /\ \A n \in Requests : ReadsSpent(request'[n], ledger', card.spent, card.day, today)
      BY <1>1 DEF CounterInv
    <2>1. Calm({"event"})
      <3>1. PICK mine : mine = {"event"}
        OBVIOUS
      <3> QED BY <3>1, CalmBefore
    <2>2. \A n \in Requests : ReadsSpent(request'[n], ledger, card.spent, card.day, today)
      BY <2>1 DEF SpentInv, CounterInv, ReadsSpent, Reading
    <2>3. \A r, spent, day : ReadsSpent(r, ledger', spent, day, today) <=> ReadsSpent(r, ledger, spent, day, today)
      BY <1>2 DEF ReadsSpent, CountsFrom
    <2> QED BY <1>2, <2>1, <2>2, <2>3 DEF SpentInv, CounterInv
  <1> QED BY <1>1, <1>3, <1>4, <1>5 DEF SpentInv

LEMMA SparedSpent ==
  ASSUME SpentInv, PostsPlainly, UNCHANGED <<card, carried>>, NEW ops, HandlerStep(ops), "event" \notin ops
  PROVE  SpentInv'
  <1>1. \A n \in Requests : request'[n] = request[n] \/ ~Reading(request'[n])
    BY DEF HandlerStep, Reading
  <1> QED BY <1>1, UnspentKept

LEMMA NextDayKeepsSpent == ASSUME HandlerInv, SpentInv, NextDay, UNCHANGED cardVars PROVE SpentInv'
  <1>1. /\ today' = today + 1 /\ today \in Nat /\ UNCHANGED <<ledger, request, met>>
        /\ UNCHANGED <<card, carried>>
    BY DEF NextDay, handlerVars, cardVars, SpentInv, RowsAreDated
  <1>2. RowsAreDated'
    BY <1>1 DEF SpentInv, RowsAreDated
  <1>3. DayRows(ledger, today') = {}
    BY <1>1 DEF DayRows, EventRows, SpentInv, RowsAreDated
  <1>4. CardIsDated' /\ card.day # today'
    BY <1>1, <1>3 DEF SpentInv, CardIsDated
  <1>5. ASSUME NEW n \in Requests
        PROVE  ReadsDay(request[n], today') /\ ReadsSpent(request[n], ledger, card.spent, card.day, today')
    <2>1. ReadsDay(request[n], today)
      BY DEF SpentInv
    <2>2. ReadsDay(request[n], today') /\ (Reading(request[n]) => request[n].day # today')
      BY <1>1, <2>1 DEF ReadsDay
    <2> QED BY <1>3, <2>2 DEF ReadsSpent, CountsFrom, Reading
  <1> QED BY <1>1, <1>2, <1>4, <1>5 DEF SpentInv, CounterInv

(* Another update of the row: the counter stays, the day becomes today. *)
LEMMA TouchKeepsSpent ==
  ASSUME SpentInv, NEW status, Touches(status), UNCHANGED <<ledger, today>>, NEW ops, HandlerStep(ops), "event" \notin ops
  PROVE  SpentInv'
  <1>1. /\ {"status", "spent", "day"} \subseteq DOMAIN card' /\ card' = [f \in DOMAIN card' |-> card'[f]]
        /\ card'.spent = card.spent /\ card'.day = today
        /\ carried' = (carried \/ (card.day # today /\ card.spent # 0))
    BY DEF Touches, SpentInv, CardIsDated
  <1>2. today \in Nat /\ today \in 0..today /\ carried' \in BOOLEAN
    BY <1>1 DEF SpentInv, RowsAreDated
  <1>3. CardIsDated'
    BY <1>1, <1>2 DEF SpentInv, CardIsDated
  <1>4. \A n \in Requests : request'[n] = request[n] \/ ~Reading(request'[n])
    BY DEF HandlerStep, Reading
  <1>5. \A n \in Requests : ReadsDay(request'[n], today)
    BY <1>4 DEF SpentInv, ReadsDay
  <1>6. CounterInv'
    <2> SUFFICES ASSUME Calm({"event"})'
                 PROVE  /\ carried' = FALSE => Spends(card.spent, DayRows(ledger, today))
                        /\ \A n \in Requests : ReadsSpent(request'[n], ledger, card.spent, today, today)
      BY <1>1 DEF CounterInv
    <2>1. Calm({"event"})
      <3>1. PICK mine : mine = {"event"}
        OBVIOUS
      <3> QED BY <3>1, CalmBefore
    <2>2. ASSUME carried' = FALSE PROVE Spends(card.spent, DayRows(ledger, today))
      <3>1. carried = FALSE /\ (card.day = today \/ card.spent = 0)
        BY <1>1, <2>2 DEF SpentInv, CardIsDated
      <3>2. CASE card.day = today
        BY <2>1, <3>1, <3>2 DEF SpentInv, CounterInv
      <3>3. CASE card.day # today
        <4>1. DayRows(ledger, today) = {} /\ card.spent = 0
          BY <3>1, <3>3 DEF SpentInv, CardIsDated
        <4>2. Bought({}) = {} /\ Moved({}) = 0
          BY MovedByNone DEF Bought
        <4> QED BY <4>1, <4>2 DEF Spends
      <3> QED BY <3>2, <3>3
    <2>3. ASSUME NEW n \in Requests PROVE ReadsSpent(request'[n], ledger, card.spent, today, today)
      <3>1. ReadsSpent(request[n], ledger, card.spent, card.day, today)
        BY <2>1 DEF SpentInv, CounterInv
      <3>2. CASE ~Reading(request'[n])
        BY <3>2 DEF ReadsSpent, Reading
      <3>3. CASE request'[n] = request[n]
        BY <3>1, <3>3 DEF ReadsSpent, CountsFrom
      <3> QED BY <1>4, <3>2, <3>3
    <2> QED BY <2>2, <2>3
  <1> QED BY <1>3, <1>5, <1>6 DEF SpentInv, RowsAreDated

(* The event goes on as s, with what it has read. *)
LEMMA EventReads ==
  ASSUME WalletInv, SpentInv, UNCHANGED <<ledger, today, card, carried>>, NEW n \in Busy, request[n].op = "event",
         NEW s, IsRequest(s), s # NotYet, s.op = "event", Becomes(n, s), ReadsDay(s, today),
         Calm({"event"}) => ReadsSpent(s, ledger, card.spent, card.day, today)
  PROVE  SpentInv'
  <1>1. PICK mine : mine = {"event"}
    OBVIOUS
  <1>2. HandlerStep(mine) /\ request'[n] = s /\ \A m \in Requests \ {n} : request'[m] = request[m]
    BY <1>1, Becoming DEF Becomes, WalletInv, RequestsInv, HandlerInv, RequestShape
  <1>3. RowsAreDated' /\ CardIsDated'
    BY DEF SpentInv, RowsAreDated, CardIsDated
  <1>4. \A m \in Requests : ReadsDay(request'[m], today)
    BY <1>2 DEF SpentInv
  <1>5. Calm(mine)' => Calm(mine)
    BY <1>2, CalmBefore
  <1>6. CounterInv'
    BY <1>1, <1>2, <1>5 DEF SpentInv, CounterInv
  <1> QED BY <1>3, <1>4, <1>6 DEF SpentInv

LEMMA ZeroIsWhole == 0 \in Int /\ \A d \in Nat : d \in 0..d
  OBVIOUS

LEMMA CardIsWhole == SpentInv => card.spent \in Int /\ card.day \in 0..today
  BY DEF SpentInv, CardIsDated

LEMMA MovesAreWhole == \A e \in Events : Moves(e) \in Int
  BY EventsAreWhole DEF Moves

LEMMA TakesBack == \A b, m \in Int : b - m \in Int /\ (b - m) + m = b
  OBVIOUS

LEMMA ReadEventKeepsSpent ==
  ASSUME WalletInv, MoneyInv, SpentInv, NEW n \in Requests, ReadEventCard(n) \/ (CheckEvent(n) /\ ~GoesTo(n, "done"))
  PROVE  SpentInv'
  <1> DEFINE r == request[n]
  <1>1. UNCHANGED <<ledger, today, card, carried>>
    BY DEF ReadEventCard, CheckEvent, walletVars, cardVars
  <1>2. PICK from \in {"finds card", "replay check"} : Is(n, "event", from)
    BY DEF ReadEventCard, CheckEvent
  <1>3. /\ r.op = "event" /\ r.at = from /\ n \in Busy /\ r.event \in Events
        /\ {"at", "op", "event", "spent", "day", "earned"} \subseteq DOMAIN r
        /\ r = [f \in DOMAIN r |-> r[f]]
    <2>1. TellsEvent(r, Marks(ledger, n)) /\ r.at = from /\ r.op = "event" /\ n \in Busy
      BY <1>2, EventAt DEF MoneyInv, Ended
    <2> QED BY <2>1, InProgress DEF TellsEvent, WalletInv, RequestsInv
  <1>4. CASE ReadEventCard(n)
    <2> DEFINE s == [r EXCEPT !.at = "replay check", !.spent = card.spent, !.day = card.day]
    <2>1. Becomes(n, s)
      BY <1>4 DEF ReadEventCard
    <2>2. /\ DOMAIN s = DOMAIN r /\ s.at = "replay check" /\ s.op = "event" /\ s.spent = card.spent /\ s.day = card.day
          /\ IsRequest(s) /\ s # NotYet
      BY <1>3 DEF NotYet, IsRequest
    <2> HIDE DEF s
    <2>3. ReadsDay(s, today)
      <3> QED BY <2>2, CardIsWhole DEF ReadsDay
    <2>4. ReadsSpent(s, ledger, card.spent, card.day, today)
      BY <2>2 DEF ReadsSpent, CountsFrom, SpentInv, CardIsDated
    <2> QED BY <1>1, <1>3, <2>1, <2>2, <2>3, <2>4, EventReads
  <1>5. CASE CheckEvent(n) /\ ~GoesTo(n, "done")
    <2> DEFINE base == IF r.day = today THEN r.spent ELSE 0
               s == [r EXCEPT !.at = "writes", !.day = today, !.spent = NextSpent(r.day, r.spent, r.event)]
    <2>1. Becomes(n, s) /\ r.at = "replay check"
      BY <1>5 DEF CheckEvent, Is
    <2>2. /\ DOMAIN s = DOMAIN r /\ s.at = "writes" /\ s.op = "event" /\ s.spent = base - Moves(r.event) /\ s.day = today
          /\ s.event = r.event /\ IsRequest(s) /\ s # NotYet
      BY <1>3 DEF NotYet, IsRequest, NextSpent
    <2> HIDE DEF s
    <2>3. r.spent \in Int /\ today \in Nat /\ Moves(r.event) \in Int
      <3>1. ReadsDay(r, today)
        BY DEF SpentInv
      <3>2. r.spent \in Int
        BY <1>3, <2>1, <3>1 DEF ReadsDay, Reading
      <3> QED BY <1>3, <3>2, MovesAreWhole DEF SpentInv, RowsAreDated
    <2>4. base \in Int
      <3> QED BY <2>3, ZeroIsWhole
    <2>5. s.spent \in Int /\ s.spent + Moves(r.event) = base
      <3> QED BY <2>2, <2>3, <2>4, TakesBack
    <2>6. ReadsDay(s, today)
      <3> QED BY <2>2, <2>3, <2>5, ZeroIsWhole DEF ReadsDay
    <2>7. ASSUME Calm({"event"}) PROVE ReadsSpent(s, ledger, card.spent, card.day, today)
      <3>1. ReadsSpent(r, ledger, card.spent, card.day, today)
        BY <2>7 DEF SpentInv, CounterInv
      <3>2. CountsFrom(base, ledger, card.spent, card.day, today)
        BY <1>3, <2>1, <3>1 DEF ReadsSpent
      <3> QED BY <2>2, <2>5, <3>2 DEF ReadsSpent
    <2> QED BY <1>1, <1>3, <2>1, <2>2, <2>6, <2>7, EventReads
  <1> QED BY <1>4, <1>5

(* An event's row, and the counter with it. *)
LEMMA ClampedIs == \A s \in Int : Clamped(s) = IF s > 0 THEN s ELSE 0
  <1> SUFFICES ASSUME NEW s \in Int PROVE Clamped(s) = IF s > 0 THEN s ELSE 0
    OBVIOUS
  <1>1. \E x \in {0, s} : \A y \in {0, s} : x >= y
    BY 0 \in Int
  <1> QED BY <1>1 DEF Clamped, Max

LEMMA ClampedNatural == \A s \in Int : Clamped(s) \in Nat
  BY ClampedIs

LEMMA PutsBack == \A s, m \in Int : s = (s + m) - m
  OBVIOUS

LEMMA ClampBounds ==
  ASSUME NEW lo \in Int, NEW hi \in Int, NEW base \in Nat, NEW m \in Int, -lo <= base, base <= -hi
  PROVE  /\ Clamped(base - m) \in Nat
         /\ -(lo + m) <= Clamped(base - m)
         /\ m <= 0 => Clamped(base - m) <= -(hi + m)
         /\ m >= 0 => Clamped(base - m) <= -hi
  <1>1. base - m \in Int
    OBVIOUS
  <1>2. Clamped(base - m) = IF base - m > 0 THEN base - m ELSE 0
    BY <1>1, ClampedIs
  <1> QED BY <1>2

LEMMA SpendsMore ==
  ASSUME NEW rows, NEW x, x \notin rows, EffectsAreWhole(rows \cup {x}), NEW base \in Nat, Spends(base, rows),
         x.type = "CARD_PURCHASE" => Effect(x) <= 0, x.type # "CARD_PURCHASE" => Effect(x) >= 0
  PROVE  Spends(Clamped(base - Effect(x)), rows \cup {x})
  <1>1. Moved(rows) \in Int /\ Effect(x) \in Int /\ Moved(rows \cup {x}) = Moved(rows) + Effect(x)
    BY MovedAdds
  <1>2. PICK bought : bought = Bought(rows)
    OBVIOUS
  <1>3. x \notin bought /\ EffectsAreWhole(bought) /\ EffectsAreWhole(bought \cup {x})
    BY <1>2, FS_Subset DEF Bought, EffectsAreWhole
  <1>4. Moved(bought) \in Int /\ Moved(bought \cup {x}) = Moved(bought) + Effect(x)
    BY <1>3, MovedAdds, MovedType
  <1>5. Bought(rows \cup {x}) = IF x.type = "CARD_PURCHASE" THEN bought \cup {x} ELSE bought
    BY <1>2 DEF Bought
  <1>6. PICK lo, hi, m \in Int : lo = Moved(rows) /\ hi = Moved(bought) /\ m = Effect(x)
    BY <1>1, <1>4
  <1>7. -lo <= base /\ base <= -hi
    BY <1>2, <1>6 DEF Spends
  <1>8. /\ -(lo + m) <= Clamped(base - m)
        /\ m <= 0 => Clamped(base - m) <= -(hi + m)
        /\ m >= 0 => Clamped(base - m) <= -hi
    BY <1>7, ClampBounds
  <1> QED BY <1>1, <1>4, <1>5, <1>6, <1>8 DEF Spends

LEMMA MovesSigned ==
  ASSUME NEW e \in Events
  PROVE  IF e.type = "refunded" THEN Moves(e) >= 0 ELSE Moves(e) <= 0
  <1>1. PICK a \in Nat : a = e.amount
    BY EventsAreWhole
  <1> QED BY <1>1 DEF Moves

LEMMA CommitEventKeepsSpent ==
  ASSUME WalletInv, MoneyInv, SpentInv, NEW n \in Requests, CommitEvent(n)
  PROVE  SpentInv'
  <1> DEFINE r == request[n]
             type == IF r.event.type = "refunded" THEN "REFUND" ELSE "CARD_PURCHASE"
             x == Row(n, Holder, type, Moves(r.event), EventKey(r.event), NoKey, "card")
  <1>1. /\ ledger' = ledger \cup {x} /\ UNCHANGED today
        /\ card' = [card EXCEPT !.spent = Clamped(r.spent), !.day = today]
        /\ carried' = (r.day # today \/ (carried /\ card.day = today))
        /\ \E at \in {"done", "cashback"} : GoesTo(n, at)
    BY DEF CommitEvent, Posts
  <1>2. /\ TellsEvent(r, Marks(ledger, n)) /\ r.at = "writes" /\ r.op = "event" /\ n \in Busy
        /\ r.event \in Events /\ Marks(ledger, n) = {}
    BY EventAt DEF CommitEvent, MoneyInv, Ended, TellsEvent
  <1>3. Moves(r.event) \in Int /\ Holder \in Employees
    BY <1>2, MovesAreWhole, CardIsHeld
  <1>4. /\ TypedRow(x) /\ x.by = n /\ x.type = type /\ x.note = "card" /\ x.day = today
        /\ x.total = Moves(r.event)
    BY <1>2, <1>3 DEF Row, TypedRow, AllFields, RowFields, Types
  <1> HIDE DEF x
  <1>5. Effect(x) = Moves(r.event)
    BY <1>4 DEF Effect
  <1>6. OneMore(ledger, x, ledger')
    BY <1>1 DEF OneMore
  <1>7. x \notin ledger
    BY <1>2, <1>4, <1>6, PostMarks
  <1>8. DayRows(ledger', today) = DayRows(ledger, today) \cup {x} /\ x \notin DayRows(ledger, today)
    BY <1>1, <1>4, <1>7 DEF DayRows, EventRows
  <1>9. RowsAreDated'
    <2>1. today \in 0..today /\ x.type # "REMITTANCE"
      BY <1>4, ZeroIsWhole DEF SpentInv, RowsAreDated
    <2> QED BY <1>1, <1>4, <2>1 DEF SpentInv, RowsAreDated
  <1>10. r.spent \in Int /\ r.day \in 0..today
    BY <1>2 DEF SpentInv, ReadsDay, Reading
  <1>11. /\ {"status", "spent", "day"} \subseteq DOMAIN card' /\ card' = [f \in DOMAIN card' |-> card'[f]]
         /\ card'.spent = Clamped(r.spent) /\ card'.day = today
    BY <1>1 DEF SpentInv, CardIsDated
  <1>12. Clamped(r.spent) \in Nat
    BY <1>10, ClampedNatural
  <1>13. CardIsDated'
    <2>1. carried' \in BOOLEAN /\ today \in 0..today
      BY <1>1, ZeroIsWhole DEF SpentInv, RowsAreDated
    <2> QED BY <1>1, <1>11, <1>12, <2>1 DEF CardIsDated
  <1>14. PICK mine : mine = {"event"}
    OBVIOUS
  <1>15. /\ HandlerStep(mine) /\ request'[n].at \in {"done", "cashback"}
         /\ \A m \in Requests \ {n} : request'[m] = request[m]
    BY <1>1, <1>2, <1>14, Going, GoingOn DEF WalletInv, RequestsInv
  <1>16. \A m \in Requests : ReadsDay(request'[m], today)
    BY <1>15 DEF SpentInv, ReadsDay, Reading
  <1>17. CounterInv'
    <2> SUFFICES ASSUME Calm(mine)'
                 PROVE  /\ carried' = FALSE => Spends(Clamped(r.spent), DayRows(ledger', today))
                        /\ \A m \in Requests : ReadsSpent(request'[m], ledger', card'.spent, card'.day, today)
      BY <1>1, <1>11, <1>14 DEF CounterInv
    <2>1. Calm(mine)
      BY <1>15, CalmBefore
    <2>2. \A m \in Busy : request[m].op \in mine => m = n
      BY <1>2, <1>14, <2>1, OneAtATime DEF WalletInv, RequestsInv
    <2>3. ASSUME NEW m \in Requests PROVE ReadsSpent(request'[m], ledger', card'.spent, card'.day, today)
      <3>1. CASE m = n
        BY <1>15, <3>1 DEF ReadsSpent
      <3>2. CASE m # n
        <4>1. request'[m] = request[m] /\ (request[m].op = "event" => request[m].at \in Ended)
          BY <1>14, <1>15, <2>2, <3>2 DEF Busy
        <4> QED BY <4>1 DEF ReadsSpent, Ended
      <3> QED BY <3>1, <3>2
    <2>4. ASSUME carried' = FALSE PROVE Spends(Clamped(r.spent), DayRows(ledger', today))
      <3>1. r.day = today /\ (carried = FALSE \/ card.day # today)
        BY <1>1, <2>4 DEF SpentInv, CardIsDated
      <3>2. PICK base : base = r.spent + Moves(r.event)
        OBVIOUS
      <3>3. CountsFrom(base, ledger, card.spent, card.day, today)
        BY <1>2, <1>14, <2>1, <3>1, <3>2 DEF SpentInv, CounterInv, ReadsSpent
      <3>4. base \in Nat /\ Spends(base, DayRows(ledger, today))
        <4>1. CASE base = 0 /\ DayRows(ledger, today) = {}
          <5>1. Bought({}) = {} /\ Moved({}) = 0
            BY MovedByNone DEF Bought
          <5> QED BY <4>1, <5>1 DEF Spends
        <4>2. CASE base = card.spent /\ card.day = today
          BY <1>14, <2>1, <3>1, <4>2 DEF SpentInv, CounterInv, CardIsDated
        <4> QED BY <3>3, <4>1, <4>2 DEF CountsFrom
      <3>5. r.spent = base - Effect(x)
        BY <1>3, <1>5, <1>10, <3>2, PutsBack
      <3>6. PICK rows : rows = DayRows(ledger, today)
        OBVIOUS
      <3>7. EffectsAreWhole(rows \cup {x}) /\ x \notin rows
        <4>1. TypedRows(ledger \cup {x}) /\ rows \cup {x} \in SUBSET (ledger \cup {x})
          BY <1>4, <3>6, TypedAdds DEF MoneyInv, DayRows, EventRows
        <4> QED BY <1>8, <3>6, <4>1, TypedEffects
      <3>8. (x.type = "CARD_PURCHASE" => Effect(x) <= 0) /\ (x.type # "CARD_PURCHASE" => Effect(x) >= 0)
        BY <1>2, <1>4, <1>5, MovesSigned
      <3>9. Spends(Clamped(base - Effect(x)), rows \cup {x})
        BY <3>4, <3>6, <3>7, <3>8, SpendsMore
      <3> QED BY <1>8, <3>5, <3>6, <3>9
    <2> QED BY <2>3, <2>4
  <1> QED BY <1>1, <1>9, <1>13, <1>16, <1>17 DEF SpentInv

(* The other steps about cards: their rows are not the events'. *)
OtherCardStep(n) ==
  \/ ReadCard(n) \/ AskIssuer(n) \/ IssuerRefuses(n) \/ ReadStatusEvent(n) \/ CheckOrder(n) \/ IssuePlastic(n)
  \/ CommitOrder(n) \/ OrderConflicts(n) \/ (CheckEvent(n) /\ GoesTo(n, "done")) \/ EventConflicts(n)
  \/ SumCashback(n) \/ PayCashback(n)

LEMMA OtherCardPosts ==
  ASSUME RowsAreDated, NEW n \in Requests, OtherCardStep(n)
  PROVE  PostsPlainly /\ UNCHANGED <<card, carried>>
  <1>1. UNCHANGED <<card, carried, today>>
    BY DEF OtherCardStep, ReadCard, AskIssuer, IssuerRefuses, ReadStatusEvent, CheckOrder, IssuePlastic, CommitOrder,
           OrderConflicts, CheckEvent, EventConflicts, SumCashback, PayCashback, Refused, Posts, walletVars, cardVars
  <1>2. CASE CommitOrder(n) \/ PayCashback(n)
    <2> DEFINE fee == Row(n, Holder, "FEE", CardFee, NoKey, <<"order", n>>, "")
               back == Row(n, Holder, "CASHBACK", request[n].earned, NoKey, NoKey, "")
    <2>1. PICK row \in {fee, back} : ledger' = ledger \cup {row}
      BY <1>2 DEF CommitOrder, PayCashback, Posts
    <2>2. fee.day \in 0..today /\ fee.note # "card" /\ back.day \in 0..today /\ back.note # "card"
      BY PostsOne
    <2> HIDE DEF fee, back
    <2> QED BY <1>1, <2>1, <2>2 DEF PostsPlainly
  <1>3. CASE ~(CommitOrder(n) \/ PayCashback(n))
    <2>1. UNCHANGED ledger
      BY <1>3 DEF OtherCardStep, ReadCard, AskIssuer, IssuerRefuses, ReadStatusEvent, CheckOrder, IssuePlastic,
           OrderConflicts, CheckEvent, EventConflicts, SumCashback, Refused, walletVars
    <2> QED BY <1>1, <2>1, PostsNone
  <1> QED BY <1>1, <1>2, <1>3

LEMMA OtherCardGoes ==
  ASSUME HandlerInv, NEW n \in Requests, OtherCardStep(n)
  PROVE  \A m \in Requests : request'[m] = request[m] \/ ~Reading(request'[m])
  <1>0. CardSteps(n)
    BY DEF OtherCardStep, CardSteps
  <1>1. n \in Busy
    BY <1>0, CardProceeds
  <1>2. CASE SumCashback(n) /\ ~GoesTo(n, "done")
    <2> DEFINE award == Award(CashbackRate * request[n].event.amount, SumOf(Total, CashbackRows(today)))
               r == [request[n] EXCEPT !.at = "awards", !.earned = award]
    <2>1. Becomes(n, r)
      BY <1>2 DEF SumCashback
    <2>2. r.at = "awards"
      BY <1>1, InProgress
    <2> HIDE DEF r
    <2>3. NoneComesTo("replay check") /\ NoneComesTo("writes")
      BY <1>1, <2>1, <2>2, BecomesElsewhere
    <2> QED BY <2>3 DEF NoneComesTo, Reading
  <1>3. CASE ~(SumCashback(n) /\ ~GoesTo(n, "done"))
    <2>1. PICK at : GoesTo(n, at) /\ at # "not yet" /\ (request[n].op = "event" => at \in {"done", "refused"})
      <3>1. CASE (CheckEvent(n) /\ GoesTo(n, "done")) \/ EventConflicts(n) \/ SumCashback(n) \/ PayCashback(n)
        BY <1>3, <3>1 DEF EventConflicts, PayCashback, Refused
      <3>2. CASE ReadCard(n) \/ AskIssuer(n) \/ IssuerRefuses(n) \/ ReadStatusEvent(n) \/ CheckOrder(n)
                   \/ IssuePlastic(n) \/ CommitOrder(n) \/ OrderConflicts(n)
        <4>1. request[n].op # "event"
          BY <3>2 DEF ReadCard, AskIssuer, IssuerRefuses, ReadStatusEvent, CheckOrder, IssuePlastic, CommitOrder,
                      OrderConflicts, Manages, Managing, Is
        <4>2. PICK at \in {"asks issuer", "refused", "writes card", "writes", "done", "calls issuer"} : GoesTo(n, at)
          BY <3>2 DEF ReadCard, AskIssuer, IssuerRefuses, ReadStatusEvent, CheckOrder, IssuePlastic, CommitOrder,
                      OrderConflicts, Refused
        <4> QED BY <4>1, <4>2
      <3> QED BY <3>1, <3>2 DEF OtherCardStep
    <2>2. request'[n].at = at /\ request'[n].op = request[n].op /\ \A m \in Requests \ {n} : request'[m] = request[m]
      BY <1>1, <2>1, GoingOn
    <2> QED BY <2>1, <2>2 DEF Reading
  <1> QED BY <1>2, <1>3

LEMMA CardsKeepSpent == ASSUME WalletInv, MoneyInv, SpentInv, CardNext PROVE SpentInv'
  <1> USE DEF WalletInv, RequestsInv
  <1>1. HandlerStep(CardOps)
    BY CardRequests
  <1>2. CASE ControlArrives \/ Manage("tokenize") \/ StatusEvent \/ OrderCard \/ EventArrives
    <2>1. PICK r : IsRequest(r) /\ r # NotYet /\ Arrives(r) /\ r.at \in {"reads card", "finds card", "checks"}
      <3>1. CASE ControlArrives \/ Manage("tokenize")
        <4>1. PICK op : Manage(op)
          BY <3>1 DEF ControlArrives
        <4> DEFINE r == [op |-> op, at |-> "reads card"]
        <4>2. IsRequest(r) /\ r # NotYet /\ Arrives(r) /\ r.at = "reads card"
          BY <4>1 DEF Manage, IsRequest, NotYet
        <4> HIDE DEF r
        <4> QED BY <4>2
      <3>2. CASE StatusEvent \/ OrderCard
        <4> DEFINE status == [op |-> "status", at |-> "finds card"]
                   order == [op |-> "order", at |-> "checks"]
        <4>1. /\ IsRequest(status) /\ status # NotYet /\ status.at = "finds card"
              /\ IsRequest(order) /\ order # NotYet /\ order.at = "checks"
          BY DEF IsRequest, NotYet
        <4>2. Arrives(status) \/ Arrives(order)
          BY <3>2 DEF StatusEvent, OrderCard
        <4> HIDE DEF status, order
        <4> QED BY <4>1, <4>2
      <3>4. CASE EventArrives
        <4>1. PICK e \in Events : TransactionEvent(e)
          BY <3>4 DEF EventArrives
        <4> DEFINE r == [op |-> "event", at |-> "finds card", event |-> e, spent |-> 0, day |-> 0, earned |-> 0]
        <4>2. IsRequest(r) /\ r # NotYet /\ r.at = "finds card" /\ Arrives(r)
          BY <4>1 DEF IsRequest, NotYet, TransactionEvent
        <4> HIDE DEF r
        <4> QED BY <4>2
      <3> QED BY <1>2, <3>1, <3>2, <3>4
    <2>2. NoneComesTo("replay check") /\ NoneComesTo("writes")
      BY <2>1, ArrivesElsewhere
    <2>3. \A m \in Requests : request'[m] = request[m] \/ ~Reading(request'[m])
      BY <2>2 DEF NoneComesTo, Reading
    <2>4. UNCHANGED <<ledger, today, card, carried>>
      BY <1>2 DEF ControlArrives, Manage, StatusEvent, OrderCard, EventArrives, TransactionEvent, walletVars, cardVars
    <2> QED BY <1>1, <2>3, <2>4, PostsNone, UnspentKept
  <1>3. CASE IssuerExpires
    <2>1. UNCHANGED <<ledger, today, card, carried, request>>
      BY <1>3 DEF IssuerExpires, sharedVars, walletVars, handlerVars
    <2> QED BY <1>1, <2>1, PostsNone, UnspentKept
  <1>4. CASE \E n \in Requests : CardSteps(n)
    <2>1. PICK n \in Requests : CardSteps(n)
      BY <1>4
    <2>2. CASE WriteCard(n) \/ WriteStatusEvent(n)
      <3>1. n \in Busy /\ request[n].op # "event" /\ GoesTo(n, "done") /\ UNCHANGED <<ledger, today>>
        BY <2>2 DEF WriteCard, WriteStatusEvent, Manages, Managing, Is, Busy, Ended, walletVars
      <3>2. PICK ops : ops = {request[n].op}
        OBVIOUS
      <3>3. HandlerStep(ops) /\ "event" \notin ops
        BY <3>1, <3>2, Going
      <3>4. PICK status : Touches(status)
        BY <2>2 DEF WriteCard, WriteStatusEvent
      <3> QED BY <3>1, <3>3, <3>4, TouchKeepsSpent
    <2>3. CASE CommitEvent(n)
      BY <2>3, CommitEventKeepsSpent
    <2>4. CASE ReadEventCard(n) \/ (CheckEvent(n) /\ ~GoesTo(n, "done"))
      BY <2>4, ReadEventKeepsSpent
    <2>5. CASE OtherCardStep(n)
      <3>1. PostsPlainly /\ UNCHANGED <<card, carried>>
        BY <2>5, OtherCardPosts DEF SpentInv
      <3>2. \A m \in Requests : request'[m] = request[m] \/ ~Reading(request'[m])
        BY <2>5, OtherCardGoes
      <3> QED BY <1>1, <3>1, <3>2, UnspentKept
    <2> QED BY <2>1, <2>2, <2>3, <2>4, <2>5 DEF CardSteps, OtherCardStep
  <1> QED BY <1>2, <1>3, <1>4 DEF CardNext

LEMMA OthersKeepSpent ==
  ASSUME WalletInv, MoneyInv, SpentInv,
         TransferNext \/ SavingsNext \/ RemittanceNext \/ AuthorizeNext \/ LoanNext \/ PhoneNext \/ KeyedNext
  PROVE  SpentInv'
  <1> USE DEF WalletInv, RequestsInv
  <1>1. UNCHANGED <<card, carried>>
    BY DEF TransferNext, TransferFrame, SavingsNext, SavingsFrame, RemittanceNext, RemittanceFrame, AuthorizeNext,
           AuthorizeFrame, LoanNext, LoanFrame, PhoneNext, PhoneFrame, KeyedNext, KeyedFrame, cardVars
  <1>2. PICK ops : HandlerStep(ops) /\ "event" \notin ops
    <2>1. \A ops \in {{"transfer"}, SavingsOps, RemittanceOps, {"authorize"}, LoanOps, PhoneOps, {"keyed"}} : "event" \notin ops
      <3>1. /\ "event" \notin {"transfer"} /\ "event" \notin SavingsOps /\ "event" \notin RemittanceOps
            /\ "event" \notin {"authorize"} /\ "event" \notin LoanOps /\ "event" \notin PhoneOps /\ "event" \notin {"keyed"}
        BY DEF SavingsOps, LoanOps, PhoneOps, RemittanceOps
      <3> QED BY <3>1
    <2>2. PICK ops \in {{"transfer"}, SavingsOps, RemittanceOps, {"authorize"}, LoanOps, PhoneOps, {"keyed"}} :
            HandlerStep(ops)
      BY TransferRequests, SavingsRequests, RemittanceRequests, AuthorizeRequests, LoanRequests, PhoneRequests, KeyedRequests
    <2> QED BY <2>1, <2>2
  <1>3. PostsPlainly
    <2>1. RowsAreDated
      BY DEF SpentInv
    <2>2. CASE TransferNext \/ SavingsNext \/ RemittanceNext
      BY <2>1, <2>2, TransferPosts, SavingsPosts, RemittancePosts DEF KeyInv
    <2>3. CASE AuthorizeNext \/ LoanNext \/ PhoneNext \/ KeyedNext
      BY <2>3, OtherRows, TodayRests, PostsNone
    <2> QED BY <2>2, <2>3
  <1> QED BY <1>1, <1>2, <1>3, SparedSpent

LEMMA FaultKeepsSpent == ASSUME WalletInv, SpentInv, Fault PROVE SpentInv'
  <1>1. UNCHANGED <<ledger, today>> /\ Spares("event")
    BY FaultSpares
  <1>2. UNCHANGED <<card, carried>>
    BY DEF Fault, Dies, TransferFrame, RemittanceFrame, AuthorizeFrame, LoanFrame, PhoneFrame, KeyedFrame, planeVars, cardVars
  <1>3. \A n \in Requests : request'[n] = request[n] \/ ~Reading(request'[n])
    BY <1>1 DEF Spares, Reading, Ended
  <1>4. PICK ops : HandlerStep(ops)
    BY FaultIsHandled DEF WalletInv
  <1> QED BY <1>1, <1>2, <1>3, <1>4, PostsNone, UnspentKept

LEMMA SpentGoesOn == WalletInv /\ MoneyInv /\ SpentInv /\ [Next]_vars => SpentInv'
  <1> SUFFICES ASSUME WalletInv, MoneyInv, SpentInv, [Next]_vars PROVE SpentInv'
    OBVIOUS
  <1>1. CASE Passes
    <2>1. NextDay /\ UNCHANGED cardVars
      BY <1>1 DEF Passes, planeVars
    <2> QED BY <2>1, NextDayKeepsSpent DEF WalletInv, RequestsInv
  <1>2. CASE UNCHANGED vars
    <2>1. UNCHANGED <<ledger, today, card, carried, request, handlerVars>>
      BY <1>2 DEF vars, sharedVars, walletVars, handlerVars, planeVars, cardVars
    <2>2. PICK ops : ops = {}
      OBVIOUS
    <2>3. HandlerStep(ops)
      BY <2>1, HandlersRest DEF WalletInv, RequestsInv
    <2> QED BY <2>1, <2>3, PostsNone, UnspentKept
  <1> QED BY <1>1, <1>2, CardsKeepSpent, OthersKeepSpent, FaultKeepsSpent DEF Next

LEMMA NoneSpent == 0 \in Nat /\ 0 \in 0..0
  OBVIOUS

LEMMA SpentStarts == Init => SpentInv
  <1> SUFFICES ASSUME Init PROVE SpentInv
    OBVIOUS
  <1>1. /\ ledger = {} /\ today = 0 /\ \A n \in Requests : request[n] = NotYet
        /\ card = [status |-> "ACTIVE", spent |-> 0, day |-> 0] /\ carried = FALSE
    BY DEF Init, InitShared, InitHandlers, InitCards
  <1>2. RowsAreDated
    BY <1>1 DEF RowsAreDated
  <1>3. DayRows(ledger, today) = {}
    BY <1>1 DEF DayRows, EventRows
  <1>4. CardIsDated
    <2>1. /\ DOMAIN card = {"status", "spent", "day"} /\ card = [f \in DOMAIN card |-> card[f]]
          /\ card.spent = 0 /\ card.day = 0
      BY <1>1
    <2>2. 0 \in Nat /\ 0 \in 0..0
      BY NoneSpent
    <2>4. carried \in BOOLEAN
      BY <1>1
    <2>3. {"status", "spent", "day"} \subseteq DOMAIN card
      BY <2>1
    <2> QED BY <1>1, <1>3, <2>1, <2>2, <2>3, <2>4 DEF CardIsDated
  <1>5. \A n \in Requests : ReadsDay(request[n], today) /\ ReadsSpent(request[n], ledger, card.spent, card.day, today)
    BY <1>1, NotYetEnded DEF ReadsDay, ReadsSpent, Reading
  <1>6. Spends(0, {})
    <2>1. Bought({}) = {} /\ Moved({}) = 0
      BY MovedByNone DEF Bought
    <2> QED BY <2>1 DEF Spends
  <1> QED BY <1>1, <1>2, <1>3, <1>4, <1>5, <1>6 DEF SpentInv, CounterInv

(* spentToday stays between what today's events add up to and today's      *)
(* purchases, unless events overlapped, one was read before midnight and   *)
(* written after, or another update of the row made an earlier day's       *)
(* counter look like today's (nymcard-card.webhook.ts, cards.service.ts).  *)
THEOREM SpentTodayIsTodaysHolds == Spec => []SpentTodayIsTodays
  <1>1. Spec => []WalletInv
    BY WalletHolds
  <1>2. Spec => []MoneyInv
    BY MoneyHolds
  <1> QED BY <1>1, <1>2, SpentStarts, SpentGoesOn, SpentIsTodays, PTL DEF Spec

(***************************************************************************)
(* Every variable stays in its type: what the invariants above leave open. *)
(***************************************************************************)
Pairs == {{m, n} : m, n \in Requests}
MetGrows == met' = met \/ \E n \in Requests : met' = met \cup {{m, n} : m \in Busy}
CallsTyped == met \subseteq Pairs /\ \A n \in Requests : request[n] = NotYet \/ request[n].op \in Ops

LEMMA MeetsNone ==
  /\ \A n, at : GoesTo(n, at) => MetGrows
  /\ \A n, r : Becomes(n, r) => MetGrows
  /\ UNCHANGED met => MetGrows
  BY DEF GoesTo, Becomes, MetGrows

LEMMA MeetsBusy == \A r : Arrives(r) => MetGrows
  BY DEF Arrives, MetGrows

LEMMA TransferMeets == ASSUME TransferNext PROVE MetGrows
  <1>1. CASE TransferArrives
    BY <1>1, MeetsBusy DEF TransferArrives, Transfer
  <1>2. CASE \E n \in Requests : TransferSteps(n)
    BY <1>2, MeetsNone DEF TransferSteps, CheckReplay, CheckTransfer, CommitTransfer, TransferConflicts,
                           FindReferral, PayReward, Refused
  <1> QED BY <1>1, <1>2 DEF TransferNext

LEMMA SavingsMeets == ASSUME SavingsNext PROVE MetGrows
  <1>1. CASE SavingsArrives
    BY <1>1, MeetsBusy DEF SavingsArrives, AutoSave, Deposit, Withdraw
  <1>2. CASE \E g \in Goals : CreateGoal(g)
    BY <1>2, MeetsNone DEF CreateGoal, sharedVars, handlerVars
  <1>3. CASE \E n \in Requests : SavingsSteps(n)
    BY <1>3, MeetsNone DEF SavingsSteps, CheckDeposit, CommitDeposit, CheckWithdrawal, CommitWithdrawal, NextAutoSave
  <1> QED BY <1>1, <1>2, <1>3 DEF SavingsNext

LEMMA RemittanceMeets == ASSUME RemittanceNext PROVE MetGrows
  <1>1. CASE RemittanceArrives
    BY <1>1, MeetsBusy DEF RemittanceArrives, Send, SendQuote, Report
  <1>2. CASE \/ \E q \in Quotes : LockQuote(q) \/ QuoteExpires(q)
             \/ \E t \in Requests, verdict \in {"succeeded", "failed"} : RailDecides(t, verdict)
    BY <1>2, MeetsNone DEF LockQuote, QuoteExpires, RailDecides, sharedVars, handlerVars
  <1>3. CASE \E n \in Requests : RemittanceSteps(n)
    BY <1>3, MeetsNone DEF RemittanceSteps, ReadQuote, DropQuote, CheckSend, CallRail, RailRefuses, CommitSend,
                           FindRemittance, LookForRefund, CommitRefund, RefundConflicts, Refused
  <1> QED BY <1>1, <1>2, <1>3 DEF RemittanceNext

LEMMA CardMeets == ASSUME CardNext PROVE MetGrows
  <1>1. CASE ControlArrives \/ StatusEvent \/ EventArrives \/ OrderCard \/ Manage("tokenize")
    BY <1>1, MeetsBusy DEF ControlArrives, Manage, StatusEvent, EventArrives, TransactionEvent, OrderCard
  <1>2. CASE IssuerExpires
    BY <1>2, MeetsNone DEF IssuerExpires, sharedVars, handlerVars
  <1>3. CASE \E n \in Requests : CardSteps(n)
    BY <1>3, MeetsNone DEF CardSteps, ReadCard, AskIssuer, IssuerRefuses, WriteCard, ReadStatusEvent, WriteStatusEvent,
                CheckOrder, IssuePlastic, CommitOrder, OrderConflicts, ReadEventCard, CheckEvent, CommitEvent,
                EventConflicts, SumCashback, PayCashback, Refused
  <1> QED BY <1>1, <1>2, <1>3 DEF CardNext

LEMMA AuthorizeMeets == ASSUME AuthorizeNext PROVE MetGrows
  <1>1. CASE \E a \in Attempts : Authorization(a)
    BY <1>1, MeetsBusy DEF Authorization
  <1>2. CASE VelocityExpires
    BY <1>2, MeetsNone DEF VelocityExpires, sharedVars, handlerVars
  <1>3. CASE \E n \in Requests : AuthorizeSteps(n)
    BY <1>3, MeetsNone DEF AuthorizeSteps, ReadVelocity, CheckBalance, TimesOut, ReadCount, WriteCount,
                           Scores, Answers, CountsOn
  <1> QED BY <1>1, <1>2, <1>3 DEF AuthorizeNext

LEMMA LoanMeets == ASSUME LoanNext PROVE MetGrows
  <1>1. CASE \/ \E principal \in Principals : RequestAdvance(principal)
             \/ BatchUpdate
             \/ \E m \in Requests, decision \in Decisions : LenderReport(m, decision)
    BY <1>1, MeetsBusy DEF RequestAdvance, BatchUpdate, LenderReport
  <1>2. CASE ScoreAges \/ \E m \in Requests, decision \in Decisions : LenderDecides(m, decision)
    BY <1>2, MeetsNone DEF ScoreAges, LenderDecides, sharedVars, handlerVars
  <1>3. CASE \E n \in Requests : LoanSteps(n)
    BY <1>3, MeetsNone DEF LoanSteps, ReadScore, CollectFactors, StoreScore, CallLender, CreateLoan, FindLoan,
                           WriteLoan, Decides
  <1> QED BY <1>1, <1>2, <1>3 DEF LoanNext

LEMMA PhoneMeets == ASSUME PhoneNext PROVE MetGrows
  <1>1. CASE PhoneStarts
    BY <1>1, MeetsBusy DEF PhoneStarts, Call, SignOut, SignIn, Starts
  <1>2. CASE \E n \in Requests : PhoneSteps(n)
    BY <1>2, MeetsNone DEF PhoneSteps, Attach, Answered, IsRejected, Unauthorized, ReadRefresh, Refresh, Keep, Store,
                           Clear, NeedsCode, EnterCode, CancelCode, Clears, GoesOn
  <1> QED BY <1>1, <1>2 DEF PhoneNext

LEMMA KeyedMeets == ASSUME KeyedNext PROVE MetGrows
  <1>1. CASE KeyedArrives
    BY <1>1, MeetsBusy DEF KeyedArrives, KeyedCall
  <1>2. CASE \E w \in onTheWay : StoreAnswer(w)
    BY <1>2, MeetsNone DEF StoreAnswer, sharedVars, handlerVars
  <1>3. CASE \E n \in Requests : KeyedSteps(n)
    BY <1>3, MeetsNone DEF KeyedSteps, LookUpKey, Replay, Authenticate, CheckStepCode, Run, RunFails, AnswerRun,
                           Refuses, Hears, Resends, KeyedTo
  <1> QED BY <1>1, <1>2, <1>3 DEF KeyedNext

LEMMA FaultMeets == ASSUME Fault PROVE MetGrows
  BY MeetsNone DEF Fault, Dies, TransferIsLost, RailAnswerIsLost, RedisFails, LenderAnswerIsLost, AppIsKilled,
                   KeyIsNotRead, AnswerIsNotStored, Scores, Answers, CountsOn, KeyedTo, sharedVars, handlerVars

(* Requests keep the operation they came in for. *)
LEMMA StepIsTyped == ASSUME CallsTyped, MetGrows, NEW ops, HandlerStep(ops), ops \subseteq Ops PROVE CallsTyped'
  <1>1. met' \subseteq Pairs
    BY DEF MetGrows, CallsTyped, Pairs, Busy
  <1>2. \A n \in Requests : request'[n] = NotYet \/ request'[n].op \in Ops
    BY DEF HandlerStep, CallsTyped
  <1> QED BY <1>1, <1>2 DEF CallsTyped, Pairs

LEMMA DyingIsTyped == ASSUME HandlerInv, CallsTyped, MetGrows, NEW n \in Requests, Dies(n) PROVE CallsTyped'
  <1>1. n \in Busy /\ GoesTo(n, "died") /\ request[n] # NotYet
    BY BusyIsLive DEF Dies
  <1>2. PICK ops : ops = {request[n].op}
    OBVIOUS
  <1>3. ops \subseteq Ops
    BY <1>1, <1>2 DEF CallsTyped
  <1>4. HandlerStep(ops)
    <2>1. "died" # "not yet"
      OBVIOUS
    <2> QED BY <1>1, <1>2, <2>1, Going
  <1> QED BY <1>3, <1>4, StepIsTyped

LEMMA CallsStayTyped == RequestsInv /\ CallsTyped /\ [Next]_vars => CallsTyped'
  <1> SUFFICES ASSUME RequestsInv, CallsTyped, [Next]_vars PROVE CallsTyped'
    OBVIOUS
  <1> USE DEF RequestsInv
  <1> DEFINE Services == {{"transfer"}, SavingsOps, RemittanceOps, {"authorize"}, CardOps, LoanOps, PhoneOps, {"keyed"},
                          LostOps, {}}
  <1>1. \A ops \in Services : ops \subseteq Ops
    BY DEF SavingsOps, RemittanceOps, CardOps, Managing, LoanOps, PhoneOps, LostOps, Ops
  <1>2. \/ MetGrows /\ \E ops \in Services : HandlerStep(ops)
        \/ MetGrows /\ \E n \in Requests : Dies(n)
    <2>1. CASE TransferNext \/ SavingsNext \/ RemittanceNext \/ CardNext
      BY <2>1, TransferRequests, SavingsRequests, RemittanceRequests, CardRequests,
         TransferMeets, SavingsMeets, RemittanceMeets, CardMeets
    <2>2. CASE AuthorizeNext \/ LoanNext \/ PhoneNext \/ KeyedNext
      BY <2>2, AuthorizeRequests, LoanRequests, PhoneRequests, KeyedRequests,
         AuthorizeMeets, LoanMeets, PhoneMeets, KeyedMeets
    <2>3. CASE Fault
      BY <2>3, FaultTouches, FaultMeets
    <2>4. CASE Passes \/ UNCHANGED vars
      <3>1. UNCHANGED handlerVars
        BY <2>4 DEF Passes, NextDay, vars, sharedVars
      <3>2. HandlerStep({})
        BY <3>1, HandlersRest
      <3>3. MetGrows
        BY <3>1, MeetsNone DEF handlerVars
      <3> QED BY <3>2, <3>3
    <2> QED BY <2>1, <2>2, <2>3, <2>4 DEF Next
  <1> HIDE DEF Services
  <1> QED BY <1>1, <1>2, StepIsTyped, DyingIsTyped

CardStatuses == {"ACTIVE", "BLOCKED", "EXPIRED"}
CardTyped ==
  /\ DOMAIN card = {"status", "spent", "day"} /\ card.status \in CardStatuses
  /\ issuer \in CardStatuses /\ hasPlastic \in BOOLEAN

LEMMA CardStepIsTyped == ASSUME CardTyped, CardNext PROVE CardTyped'
  <1>1. CASE UNCHANGED card
    <2>1. issuer' \in CardStatuses /\ hasPlastic' \in BOOLEAN
      <3>1. CASE ControlArrives \/ StatusEvent \/ EventArrives \/ OrderCard \/ Manage("tokenize") \/ IssuerExpires
        BY <3>1 DEF ControlArrives, Manage, StatusEvent, EventArrives, TransactionEvent, OrderCard, IssuerExpires,
                    cardVars, CardTyped, CardStatuses
      <3>2. CASE \E n \in Requests : CardSteps(n)
        BY <3>2 DEF CardSteps, ReadCard, AskIssuer, IssuerRefuses, WriteCard, ReadStatusEvent, WriteStatusEvent,
                CheckOrder, IssuePlastic, CommitOrder, OrderConflicts, ReadEventCard, CheckEvent, CommitEvent,
                EventConflicts, SumCashback, PayCashback, cardVars, CardTyped, CardStatuses, Wish
      <3> QED BY <3>1, <3>2 DEF CardNext
    <2> QED BY <1>1, <2>1 DEF CardTyped
  <1>2. CASE card' # card
    <2>1. PICK n \in Requests : WriteCard(n) \/ WriteStatusEvent(n) \/ CommitEvent(n)
      BY <1>2 DEF CardNext, ControlArrives, Manage, StatusEvent, EventArrives, TransactionEvent, OrderCard, IssuerExpires,
                  CardSteps, ReadCard, AskIssuer, IssuerRefuses, ReadStatusEvent,
                  CheckOrder, IssuePlastic, CommitOrder, OrderConflicts, ReadEventCard, CheckEvent,
                  EventConflicts, SumCashback, PayCashback, cardVars
    <2>2. UNCHANGED <<issuer, hasPlastic>>
      BY <2>1 DEF WriteCard, WriteStatusEvent, CommitEvent
    <2>3. CASE CommitEvent(n)
      <3>1. PICK spent, day : card' = [card EXCEPT !.spent = spent, !.day = day]
        BY <2>3 DEF CommitEvent
      <3> QED BY <2>2, <3>1 DEF CardTyped
    <2>4. CASE WriteCard(n) \/ WriteStatusEvent(n)
      <3>1. \E status \in CardStatuses : \E day : card' = [card EXCEPT !.status = status, !.day = day]
        BY <2>4 DEF WriteCard, WriteStatusEvent, Touches, Wish, CardTyped, CardStatuses
      <3> QED BY <2>2, <3>1 DEF CardTyped
    <2> QED BY <2>1, <2>3, <2>4
  <1> QED BY <1>1, <1>2

LEMMA CardStaysTyped == CardTyped /\ [Next]_vars => CardTyped'
  <1>1. CASE CardNext
    BY <1>1, CardStepIsTyped
  <1>2. CASE UNCHANGED cardVars
    BY <1>2 DEF cardVars, CardTyped
  <1> QED BY <1>1, <1>2 DEF Next, TransferNext, TransferFrame, SavingsNext, SavingsFrame, RemittanceNext, RemittanceFrame,
        AuthorizeNext, AuthorizeFrame, LoanNext, LoanFrame, PhoneNext, PhoneFrame, KeyedNext, KeyedFrame,
        Fault, Dies, Passes, vars, planeVars

(* The bounds: days and faults are counted, and the mix is chosen once. *)
BoundsTyped == today \in 0..LastDay /\ faults \in 0..MaxFaults /\ mix \in Mixes

LEMMA FaultsHaveToday == ASSUME Fault PROVE UNCHANGED today
  BY DEF Fault, Dies, TransferIsLost, RailAnswerIsLost, RedisFails, LenderAnswerIsLost, AppIsKilled,
         KeyIsNotRead, AnswerIsNotStored, Scores, Answers, CountsOn, KeyedTo, sharedVars, walletVars

LEMMA CardsHaveToday == ASSUME CardNext PROVE UNCHANGED today
  BY DEF CardNext, ControlArrives, Manage, StatusEvent, EventArrives, TransactionEvent, OrderCard, IssuerExpires,
         CardSteps, ReadCard, AskIssuer, IssuerRefuses, WriteCard, ReadStatusEvent, WriteStatusEvent,
         CheckOrder, IssuePlastic, CommitOrder, OrderConflicts, ReadEventCard, CheckEvent, CommitEvent,
         EventConflicts, SumCashback, PayCashback, Refused, Posts, sharedVars, walletVars

LEMMA BoundsStay == BoundsTyped /\ [Next]_vars => BoundsTyped'
  <1> SUFFICES ASSUME BoundsTyped, [Next]_vars PROVE BoundsTyped'
    OBVIOUS
  <1>1. CASE Fault /\ UNCHANGED mix
    <2>1. UNCHANGED today
      BY <1>1, FaultsHaveToday
    <2>2. faults' = faults + 1 /\ faults < MaxFaults
      BY <1>1 DEF Fault
    <2> QED BY <1>1, <2>1, <2>2, MaxFaultsIsNatural DEF BoundsTyped
  <1>2. CASE NextDay /\ UNCHANGED <<faults, mix>>
    BY <1>2, LastDayIsNatural DEF NextDay, BoundsTyped
  <1>3. CASE UNCHANGED <<today, faults, mix>>
    BY <1>3 DEF BoundsTyped
  <1> QED BY <1>1, <1>2, <1>3, TodayRests, CardsHaveToday DEF Next, Passes, vars, sharedVars, walletVars

(* An approval remembers a window of the velocity. *)
ApprovalsTyped == \A a \in approvals : a.earlier \in Velocities

LEMMA ApprovalsStayTyped == VelocityFits /\ ApprovalsTyped /\ [Next]_vars => ApprovalsTyped'
  <1> SUFFICES ASSUME VelocityFits, ApprovalsTyped, [Next]_vars PROVE ApprovalsTyped'
    OBVIOUS
  <1>1. CASE UNCHANGED approvals
    BY <1>1 DEF ApprovalsTyped
  <1>2. CASE AuthorizeNext \/ \E n \in Requests : RedisFails(n)
    <2>1. ASSUME approvals' # approvals
          PROVE  \E n \in Requests : request[n].op = "authorize" /\ request[n].at \notin Ended
                   /\ approvals' = approvals \cup {[asks |-> request[n].asks, earlier |-> request[n].seen]}
      BY <1>2, <2>1 DEF AuthorizeNext, Authorization, VelocityExpires, AuthorizeSteps, ReadVelocity, CheckBalance, TimesOut,
             ReadCount, WriteCount, RedisFails, Scores, Answers, CountsOn, authorizeVars, Is, Ended
    <2>2. CASE approvals' # approvals
      <3>1. PICK n \in Requests : /\ request[n].op = "authorize" /\ request[n].at \notin Ended
                                  /\ approvals' = approvals \cup {[asks |-> request[n].asks, earlier |-> request[n].seen]}
        BY <2>1, <2>2
      <3>2. request[n].seen \in Velocities
        BY <3>1 DEF VelocityFits, AsksFit
      <3> QED BY <3>1, <3>2 DEF ApprovalsTyped
    <2> QED BY <1>1, <2>2
  <1> QED BY <1>1, <1>2 DEF Next, TransferNext, TransferFrame, SavingsNext, SavingsFrame, RemittanceNext, RemittanceFrame,
        CardNext, CardFrame, LoanNext, LoanFrame, PhoneNext, PhoneFrame, KeyedNext, KeyedFrame,
        Fault, Dies, Passes, vars, planeVars, authorizeVars

(* Calls with a key, their handlers and the answers on the way. *)
AloneFits(r) == r.op = "keyed" /\ r.at \notin Ended => r.alone \in BOOLEAN

KeyedTyped ==
  /\ onTheWay \subseteq [key : Keys, by : Requests, status : Statuses]
  /\ ran \subseteq [key : Keys, by : Requests, alone : BOOLEAN]
  /\ unheard \subseteq Requests
  /\ \A n \in Requests : AloneFits(request[n])

(* A request of another service, or one that ends. *)
LEMMA NotKeyed ==
  ASSUME KeyedTyped, NEW ops, HandlerStep(ops), "keyed" \notin ops, UNCHANGED keyedVars
  PROVE  KeyedTyped'
  <1>1. \A n \in Requests : AloneFits(request'[n])
    BY DEF HandlerStep, KeyedTyped, AloneFits
  <1> QED BY <1>1 DEF KeyedTyped, keyedVars

(* The call n goes on: only it changes, and what it says of itself. *)
AloneGoes(n) == AloneFits(request'[n]) /\ \A m \in Requests \ {n} : request'[m] = request[m]

LEMMA AloneEnds == ASSUME HandlerInv, NEW n \in Busy, NEW at \in Ended, at # "not yet", GoesTo(n, at) PROVE AloneGoes(n)
  <1>1. request'[n].at = at /\ \A m \in Requests \ {n} : request'[m] = request[m]
    BY GoingOn
  <1> QED BY <1>1 DEF AloneGoes, AloneFits

LEMMA AloneBecomes ==
  ASSUME HandlerInv, NEW n \in Busy, NEW r, Becomes(n, r), r.alone \in BOOLEAN PROVE AloneGoes(n)
  BY BecomingOn DEF AloneGoes, AloneFits

LEMMA AloneGoesTo ==
  ASSUME HandlerInv, KeyedInv, KeyedTyped, NEW n \in Requests, NEW from, from \notin Ended, Is(n, "keyed", from),
         NEW at, at # "not yet", GoesTo(n, at)
  PROVE  AloneGoes(n)
  <1>1. n \in Busy /\ "alone" \in DOMAIN request[n]
    BY KeyedCalls
  <1>2. request[n].alone \in BOOLEAN
    BY DEF KeyedTyped, AloneFits, Is
  <1>3. CASE at \in Ended
    BY <1>1, <1>3, AloneEnds
  <1>4. CASE at \notin Ended
    <2>1. Becomes(n, [request[n] EXCEPT !.at = at])
      BY <1>4 DEF GoesTo
    <2>2. [request[n] EXCEPT !.at = at].alone = request[n].alone
      BY <1>1
    <2> QED BY <1>1, <1>2, <2>1, <2>2, AloneBecomes
  <1> QED BY <1>3, <1>4

LEMMA AloneHears ==
  ASSUME HandlerInv, KeyedInv, KeyedTyped, NEW n \in Requests, NEW from, from \notin Ended, Is(n, "keyed", from),
         NEW status, Hears(n, status)
  PROVE  AloneGoes(n)
  <1>1. n \in Busy /\ "alone" \in DOMAIN request[n]
    BY KeyedCalls
  <1>2. ASSUME NEW r, DOMAIN r = DOMAIN request[n], Resends(n, r) PROVE AloneGoes(n)
    <2>1. [r EXCEPT !.at = "looks up", !.alone = FALSE].alone = FALSE
      BY <1>1, <1>2
    <2> QED BY <1>1, <1>2, <2>1, AloneBecomes DEF Resends
  <1>3. CASE GoesTo(n, IF status = "done" THEN "done" ELSE "refused")
    <2>1. PICK at : at = IF status = "done" THEN "done" ELSE "refused"
      OBVIOUS
    <2>2. GoesTo(n, at) /\ at # "not yet"
      BY <1>3, <2>1
    <2> QED BY <2>2, AloneGoesTo
  <1>4. CASE Resends(n, [request[n] EXCEPT !.refreshed = TRUE, !.good = TRUE])
    BY <1>2, <1>4
  <1>5. CASE Resends(n, [request[n] EXCEPT !.stepped = TRUE])
    BY <1>2, <1>5
  <1> QED BY <1>3, <1>4, <1>5 DEF Hears

LEMMA KeyedArrivalIsTyped == ASSUME HandlerInv, KeyedTyped, KeyedArrives PROVE KeyedTyped'
  <1>1. PICK key \in Keys, good \in BOOLEAN : KeyedCall(key, good)
    BY DEF KeyedArrives
  <1> DEFINE r == [op |-> "keyed", at |-> "looks up", key |-> key, good |-> good,
                   refreshed |-> FALSE, stepped |-> FALSE, alone |-> FALSE]
  <1>2. IsRequest(r) /\ r # NotYet /\ Arrives(r) /\ r.op \in {"keyed"}
    BY <1>1 DEF KeyedCall, IsRequest, NotYet
  <1>3. AloneFits(r)
    BY DEF AloneFits
  <1> HIDE DEF r
  <1>4. PICK n \in Requests : request'[n] = r /\ \A m \in Requests \ {n} : request'[m] = request[m]
    BY <1>2, Arriving
  <1> QED BY <1>1, <1>3, <1>4 DEF KeyedCall, KeyedTyped, keyedVars

LEMMA KeyedStepIsTyped ==
  ASSUME HandlerInv, KeyedInv, KeyedTyped, NEW n \in Requests, KeyedSteps(n) \/ KeyIsNotRead(n) PROVE KeyedTyped'
  <1>1. PICK from \in {"looks up", "authenticates", "checks code", "runs", "has run"} : Is(n, "keyed", from)
    BY DEF KeyedSteps, LookUpKey, Replay, Authenticate, CheckStepCode, Run, RunFails, AnswerRun, KeyIsNotRead
  <1>2. from \notin Ended
    BY DEF Ended
  <1>3. /\ n \in Busy /\ request[n].key \in Keys
        /\ {"op", "at", "key", "good", "refreshed", "stepped", "alone"} \subseteq DOMAIN request[n]
    BY <1>1, <1>2, KeyedCalls
  <1>4. request[n].alone \in BOOLEAN
    BY <1>1, <1>2 DEF KeyedTyped, AloneFits, Is
  <1>5. AloneGoes(n)
    <2>1. CASE LookUpKey(n)
      <3> DEFINE alone == ~\E w \in onTheWay : w.key = request[n].key
      <3>1. Becomes(n, [request[n] EXCEPT !.at = "authenticates", !.alone = alone])
        BY <2>1 DEF LookUpKey
      <3>2. alone \in BOOLEAN
        OBVIOUS
      <3> HIDE DEF alone
      <3>3. [request[n] EXCEPT !.at = "authenticates", !.alone = alone].alone = alone
        BY <1>3
      <3> QED BY <1>3, <3>1, <3>2, <3>3, AloneBecomes
    <2>2. CASE \E status : Hears(n, status)
      BY <1>1, <1>2, <2>2, AloneHears
    <2>3. CASE \E at : at # "not yet" /\ GoesTo(n, at)
      BY <1>1, <1>2, <2>3, AloneGoesTo
    <2> QED BY <2>1, <2>2, <2>3 DEF KeyedSteps, Replay, Authenticate, CheckStepCode, Run, RunFails, AnswerRun, KeyIsNotRead,
               Refuses, KeyedTo
  <1>6. \A m \in Requests : AloneFits(request'[m])
    BY <1>5 DEF AloneGoes, KeyedTyped
  <1>7. onTheWay' \subseteq [key : Keys, by : Requests, status : Statuses]
    <2>1. onTheWay' = onTheWay \/ \E status \in Statuses : onTheWay' = onTheWay \cup {[key |-> request[n].key, by |-> n, status |-> status]}
      BY DEF KeyedSteps, LookUpKey, Replay, Authenticate, CheckStepCode, Run, RunFails, AnswerRun, KeyIsNotRead,
             Refuses, KeyedTo, Stores, Statuses, keyedVars
    <2>2. PICK all : all = [key : Keys, by : Requests, status : Statuses]
      OBVIOUS
    <2>3. PICK key \in Keys : key = request[n].key
      BY <1>3
    <2>4. \A status \in Statuses : [key |-> key, by |-> n, status |-> status] \in all
      BY <2>2
    <2>5. onTheWay' \subseteq all
      BY <2>1, <2>2, <2>3, <2>4 DEF KeyedTyped
    <2> QED BY <2>2, <2>5
  <1>8. ran' \subseteq [key : Keys, by : Requests, alone : BOOLEAN]
    <2>1. ran' = ran \/ ran' = ran \cup {[key |-> request[n].key, by |-> n, alone |-> request[n].alone]}
      BY DEF KeyedSteps, LookUpKey, Replay, Authenticate, CheckStepCode, Run, RunFails, AnswerRun, KeyIsNotRead,
             Refuses, KeyedTo, Stores, keyedVars
    <2>2. PICK all : all = [key : Keys, by : Requests, alone : BOOLEAN]
      OBVIOUS
    <2>3. PICK key \in Keys, alone \in BOOLEAN : key = request[n].key /\ alone = request[n].alone
      BY <1>3, <1>4
    <2>4. [key |-> key, by |-> n, alone |-> alone] \in all
      BY <2>2
    <2>5. ran' \subseteq all
      BY <2>1, <2>2, <2>3, <2>4 DEF KeyedTyped
    <2> QED BY <2>2, <2>5
  <1>9. unheard' \subseteq Requests
    BY DEF KeyedSteps, LookUpKey, Replay, Authenticate, CheckStepCode, Run, RunFails, AnswerRun, KeyIsNotRead,
           Refuses, KeyedTo, Stores, keyedVars, KeyedTyped
  <1> QED BY <1>6, <1>7, <1>8, <1>9 DEF KeyedTyped

LEMMA KeyedStaysTyped == ASSUME RequestsInv, KeyedInv, KeyedTyped, [Next]_vars PROVE KeyedTyped'
  <1> USE DEF RequestsInv
  <1>1. CASE TransferNext \/ SavingsNext \/ RemittanceNext \/ CardNext \/ AuthorizeNext \/ LoanNext \/ PhoneNext
    <2>1. UNCHANGED keyedVars
      BY <1>1 DEF TransferNext, TransferFrame, SavingsNext, SavingsFrame, RemittanceNext, RemittanceFrame, CardNext,
                  CardFrame, AuthorizeNext, AuthorizeFrame, LoanNext, LoanFrame, PhoneNext, PhoneFrame
    <2>2. /\ "keyed" \notin SavingsOps /\ "keyed" \notin CardOps /\ "keyed" \notin LoanOps /\ "keyed" \notin PhoneOps
          /\ "keyed" \notin RemittanceOps /\ "keyed" \notin {"transfer"} /\ "keyed" \notin {"authorize"}
      BY DEF SavingsOps, CardOps, Managing, LoanOps, PhoneOps, RemittanceOps
    <2> QED BY <1>1, <2>1, <2>2, TransferRequests, SavingsRequests, RemittanceRequests, CardRequests, AuthorizeRequests,
               LoanRequests, PhoneRequests, NotKeyed
  <1>2. CASE KeyedNext
    <2>1. CASE \E w \in onTheWay : StoreAnswer(w)
      <3>1. UNCHANGED <<request, ran, unheard>> /\ onTheWay' \subseteq onTheWay
        BY <2>1 DEF StoreAnswer, sharedVars, handlerVars
      <3> QED BY <3>1 DEF KeyedTyped
    <2> QED BY <1>2, <2>1, KeyedArrivalIsTyped, KeyedStepIsTyped DEF KeyedNext
  <1>3. CASE Passes \/ UNCHANGED vars
    <2>1. UNCHANGED <<keyedVars, handlerVars>>
      BY <1>3 DEF Passes, NextDay, planeVars, vars, sharedVars
    <2>2. HandlerStep({}) /\ "keyed" \notin {}
      BY <2>1, HandlersRest
    <2> QED BY <2>1, <2>2, NotKeyed
  <1>4. CASE Fault
    <2>1. PICK n \in Requests :
            \/ Dies(n) \/ (RailAnswerIsLost(n) /\ RemittanceFrame) \/ (TransferIsLost(n) /\ TransferFrame)
            \/ (AppIsKilled /\ PhoneFrame)
            \/ (OtherFault(n) /\ UNCHANGED keyedVars)
            \/ KeyIsNotRead(n) \/ AnswerIsNotStored
      BY <1>4 DEF Fault, OtherFault, AuthorizeFrame, LoanFrame
    <2>2. CASE Dies(n) \/ (RailAnswerIsLost(n) /\ RemittanceFrame)
      <3>1. n \in Busy /\ GoesTo(n, "died") /\ "died" \in Ended /\ "died" # "not yet" /\ UNCHANGED keyedVars
        BY <2>2 DEF Dies, planeVars, RailAnswerIsLost, RemittanceFrame, Is, Busy, Ended
      <3>2. AloneGoes(n)
        BY <3>1, AloneEnds
      <3> QED BY <3>1, <3>2 DEF AloneGoes, KeyedTyped, keyedVars
    <2>3. CASE TransferIsLost(n) /\ TransferFrame
      <3>1. n \in Busy /\ request[n].op = "transfer" /\ UNCHANGED keyedVars
        BY <2>3 DEF TransferIsLost, TransferFrame, Is, Busy, Ended
      <3>2. PICK at \in {"reward", "done"} : GoesTo(n, at)
        BY <2>3 DEF TransferIsLost, AfterTransfer
      <3>3. HandlerStep({"transfer"})
        BY <3>1, <3>2, Going
      <3> QED BY <3>1, <3>3, NotKeyed
    <2>4. CASE AppIsKilled /\ PhoneFrame
      <3>1. HandlerStep(PhoneOps) /\ "keyed" \notin PhoneOps /\ UNCHANGED keyedVars
        BY <2>4, KillRequests DEF PhoneOps, PhoneFrame
      <3> QED BY <3>1, NotKeyed
    <2>5. CASE KeyIsNotRead(n)
      BY <2>5, KeyedStepIsTyped
    <2>6. CASE AnswerIsNotStored
      <3>1. UNCHANGED <<request, ran, unheard>> /\ onTheWay' \subseteq onTheWay
        BY <2>6 DEF AnswerIsNotStored, sharedVars, handlerVars
      <3> QED BY <3>1 DEF KeyedTyped
    <2>7. CASE (RedisFails(n) \/ LenderAnswerIsLost(n)) /\ UNCHANGED keyedVars
      <3>1. n \in Busy /\ request[n].op \in {"authorize", "ewa"}
        BY <2>7, IsBusy DEF RedisFails, LenderAnswerIsLost, Ended
      <3>2. Proceeds(n)
        BY <2>7, <3>1, InProgress DEF RedisFails, Scores, CountsOn, Answers, AfterAnswer, LenderAnswerIsLost,
                                      Proceeds, IsRequest, NotYet
      <3>3. HandlerStep({"authorize", "ewa"})
        BY <3>1, <3>2, Proceeding
      <3>4. "keyed" \notin {"authorize", "ewa"}
        OBVIOUS
      <3> QED BY <2>7, <3>3, <3>4, NotKeyed
    <2> QED BY <2>1, <2>2, <2>3, <2>4, <2>5, <2>6, <2>7 DEF OtherFault
  <1> QED BY <1>1, <1>2, <1>3, <1>4 DEF Next

(* The phone's requests and what it holds are of employees, or nobody's. *)
Persons == Employees \cup {Nobody}
PhoneHolds(r) == r.op \in PhoneOps /\ r.at \notin Ended => r.for \in Employees /\ r.token \in Persons

PhoneTyped ==
  /\ keychain \in [Items -> Persons] /\ shown \in Persons
  /\ challenge \in 0..MaxRequests /\ acted \subseteq [for : Employees, as : Employees]
  /\ \A n \in Requests : PhoneHolds(request[n])

(* A request of another service, or one that ends. *)
LEMMA NotOnPhone ==
  ASSUME PhoneTyped, NEW ops, HandlerStep(ops), ops \cap PhoneOps = {}, UNCHANGED phoneVars
  PROVE  PhoneTyped'
  <1>1. \A n \in Requests : request'[n] = request[n] \/ request'[n].op \notin PhoneOps
    BY DEF HandlerStep
  <1>2. \A n \in Requests : PhoneHolds(request'[n])
    BY <1>1 DEF PhoneTyped, PhoneHolds
  <1> QED BY <1>2 DEF PhoneTyped, phoneVars

(* The request n goes on: only it changes, and it is of whom it was. *)
PhoneGoes(n) == PhoneHolds(request'[n]) /\ \A m \in Requests \ {n} : request'[m] = request[m]

LEMMA HolderEnds == ASSUME HandlerInv, NEW n \in Busy, NEW at \in Ended, at # "not yet", GoesTo(n, at) PROVE PhoneGoes(n)
  <1>1. request'[n].at = at /\ \A m \in Requests \ {n} : request'[m] = request[m]
    BY GoingOn
  <1> QED BY <1>1 DEF PhoneGoes, PhoneHolds

LEMMA HolderBecomes ==
  ASSUME HandlerInv, NEW n \in Busy, NEW r, Becomes(n, r), r.for \in Employees, r.token \in Persons PROVE PhoneGoes(n)
  BY BecomingOn DEF PhoneGoes, PhoneHolds

LEMMA PhoneArrivalIsTyped == ASSUME HandlerInv, PhoneTyped, PhoneStarts PROVE PhoneTyped'
  <1>0. shown # Nobody => shown \in Employees
    BY DEF PhoneTyped, Persons
  <1>1. PICK op \in PhoneOps, at \in {"attaches", "sent"}, person \in Employees : Starts(op, at, person)
    BY <1>0 DEF PhoneStarts, Call, SignOut, SignIn, PhoneOps
  <1> DEFINE r == Phone(op, at, person)
  <1>2. IsRequest(r) /\ r # NotYet /\ r.op \in PhoneOps /\ Arrives(r)
    BY <1>1 DEF Starts, Phone, IsRequest, NotYet
  <1>3. PhoneHolds(r)
    BY DEF PhoneHolds, Phone, Persons
  <1> HIDE DEF r
  <1>4. PICK n \in Requests : request'[n] = r /\ \A m \in Requests \ {n} : request'[m] = request[m]
    BY <1>2, Arriving
  <1> QED BY <1>1, <1>3, <1>4 DEF Starts, PhoneTyped, phoneVars

PhoneAts == {"attaches", "sent", "reads refresh", "refreshes", "keeps", "stores", "clears", "forces out", "awaits code"}

(* What the request n has when a step of it is taken. *)
LEMMA HolderHas ==
  ASSUME HandlerInv, PhoneInv, PhoneTyped, NEW n \in Requests, PhoneSteps(n)
  PROVE  /\ n \in Busy /\ request[n].op \in PhoneOps /\ PhoneFields \subseteq DOMAIN request[n]
         /\ request[n].for \in Employees /\ request[n].token \in Persons
  <1>1. PICK at \in PhoneAts : OnPhone(n, at)
    BY DEF PhoneSteps, Attach, Answered, IsRejected, Unauthorized, ReadRefresh, Refresh, Keep, Store, Clear, NeedsCode,
           EnterCode, CancelCode, PhoneAts
  <1>2. at \notin Ended
    BY DEF PhoneAts, Ended
  <1> QED BY <1>1, <1>2, PhoneBusy DEF PhoneTyped, PhoneHolds, OnPhone

LEMMA HolderGoes ==
  ASSUME HandlerInv, PhoneInv, PhoneTyped, NEW n \in Requests, PhoneSteps(n), ~NeedsCode(n)
  PROVE  PhoneGoes(n)
  <1>1. /\ n \in Busy /\ request[n].op \in PhoneOps /\ PhoneFields \subseteq DOMAIN request[n]
        /\ request[n].for \in Employees /\ request[n].token \in Persons
    BY HolderHas
  <1>2. ASSUME NEW to \in {"attaches", "done", "refused"}, GoesTo(n, to) PROVE PhoneGoes(n)
    <2>1. CASE to \in Ended
      BY <1>1, <1>2, <2>1, HolderEnds
    <2>2. CASE to \notin Ended
      <3>1. Becomes(n, [request[n] EXCEPT !.at = to])
        BY <1>2, <2>2 DEF GoesTo
      <3>2. [request[n] EXCEPT !.at = to].for = request[n].for /\ [request[n] EXCEPT !.at = to].token = request[n].token
        BY <1>1 DEF PhoneFields
      <3> QED BY <1>1, <3>1, <3>2, HolderBecomes
    <2> QED BY <2>1, <2>2
  <1>3. ASSUME NEW r, Becomes(n, r), r.for = request[n].for, r.token \in Persons PROVE PhoneGoes(n)
    BY <1>1, <1>3, HolderBecomes
  <1>4. ASSUME NEW to, NEW todo, Becomes(n, [request[n] EXCEPT !.at = to, !.todo = todo]) PROVE PhoneGoes(n)
    <2> DEFINE r == [request[n] EXCEPT !.at = to, !.todo = todo]
    <2>1. r.for = request[n].for /\ r.token = request[n].token
      BY <1>1 DEF PhoneFields
    <2> HIDE DEF r
    <2>2. Becomes(n, r)
      BY <1>4 DEF r
    <2> QED BY <1>1, <1>3, <2>1, <2>2
  <1>5. ASSUME NEW item, GoesOn(n, item) PROVE PhoneGoes(n)
    <2> DEFINE left == Left(n, item)
               r == [request[n] EXCEPT !.todo = left]
    <2>1. r.for = request[n].for /\ r.token = request[n].token
      BY <1>1 DEF PhoneFields
    <2>2. Becomes(n, r)
      BY <1>5 DEF GoesOn
    <2> HIDE DEF r
    <2> QED BY <1>1, <1>3, <2>1, <2>2
  <1>6. CASE Attach(n)
    <2>1. PICK token : token = keychain["access"] /\ token \in Persons
      BY DEF PhoneTyped, Items
    <2> DEFINE r == [request[n] EXCEPT !.at = "sent", !.token = token]
    <2>2. Becomes(n, r)
      BY <1>6, <2>1 DEF Attach
    <2>3. r.for = request[n].for /\ r.token = token
      BY <1>1 DEF PhoneFields
    <2> HIDE DEF r
    <2> QED BY <1>3, <2>1, <2>2, <2>3
  <1>7. CASE Unauthorized(n)
    <2> DEFINE r == [request[n] EXCEPT !.at = "reads refresh", !.retried = TRUE]
    <2>1. r.for = request[n].for /\ r.token = request[n].token
      BY <1>1 DEF PhoneFields
    <2>2. Becomes(n, r)
      BY <1>7 DEF Unauthorized
    <2> HIDE DEF r
    <2> QED BY <1>1, <1>3, <2>1, <2>2
  <1>8. CASE ReadRefresh(n)
    <2>1. PICK token : token = keychain["refresh"] /\ token \in Persons
      BY DEF PhoneTyped, Items
    <2> DEFINE r == [request[n] EXCEPT !.at = "refreshes", !.token = token]
    <2>2. Becomes(n, r) \/ Clears(n, "forces out")
      BY <1>8, <2>1 DEF ReadRefresh
    <2>3. r.for = request[n].for /\ r.token = token
      BY <1>1 DEF PhoneFields
    <2> HIDE DEF r
    <2> QED BY <1>3, <1>4, <2>1, <2>2, <2>3 DEF Clears
  <1>9. CASE Refresh(n)
    BY <1>4, <1>9 DEF Refresh, Clears
  <1>10. CASE Answered(n)
    <2> DEFINE r == [request[n] EXCEPT !.at = "stores", !.token = request[n].for, !.todo = Items]
    <2>1. Becomes(n, r) \/ Clears(n, "clears") \/ GoesTo(n, "done")
      BY <1>10 DEF Answered
    <2>2. r.for = request[n].for /\ r.token = request[n].for
      BY <1>1 DEF PhoneFields
    <2> HIDE DEF r
    <2> QED BY <1>1, <1>2, <1>3, <1>4, <2>1, <2>2 DEF Clears, Persons
  <1>11. CASE Keep(n)
    <2>1. PICK item : \/ GoesOn(n, item)
                      \/ \E to : Becomes(n, [request[n] EXCEPT !.todo = {}, !.at = to])
      BY <1>11 DEF Keep
    <2>2. ASSUME NEW to, Becomes(n, [request[n] EXCEPT !.todo = {}, !.at = to]) PROVE PhoneGoes(n)
      <3> DEFINE r == [request[n] EXCEPT !.todo = {}, !.at = to]
      <3>1. r.for = request[n].for /\ r.token = request[n].token
        BY <1>1 DEF PhoneFields
      <3>2. Becomes(n, r)
        BY <2>2
      <3> HIDE DEF r
      <3> QED BY <1>1, <1>3, <3>1, <3>2
    <2> QED BY <1>5, <2>1, <2>2
  <1>12. CASE Store(n) \/ Clear(n)
    BY <1>2, <1>5, <1>12 DEF Store, Clear
  <1>13. CASE IsRejected(n) \/ EnterCode(n) \/ CancelCode(n)
    BY <1>2, <1>13 DEF IsRejected, EnterCode, CancelCode
  <1> QED BY <1>6, <1>7, <1>8, <1>9, <1>10, <1>11, <1>12, <1>13 DEF PhoneSteps

LEMMA NeedsCodeHolds ==
  ASSUME HandlerInv, PhoneInv, PhoneTyped, NEW n \in Requests, NeedsCode(n)
  PROVE  \A m \in Requests : PhoneHolds(request'[m])
  <1>1. /\ PhoneFields \subseteq DOMAIN request[n]
        /\ request[n].for \in Employees /\ request[n].token \in Persons
    BY HolderHas DEF PhoneSteps
  <1> DEFINE r == [request[n] EXCEPT !.at = "awaits code", !.stepped = TRUE]
             gone == [op |-> "call", at |-> "refused"]
  <1>2. request' = [m \in Requests |-> IF m = n THEN r ELSE IF m = challenge THEN gone ELSE request[m]]
    BY DEF NeedsCode
  <1>3. r.for = request[n].for /\ r.token = request[n].token
    BY <1>1 DEF PhoneFields
  <1>4. gone.at \in Ended
    BY DEF Ended
  <1> HIDE DEF r, gone
  <1> QED BY <1>1, <1>2, <1>3, <1>4 DEF PhoneTyped, PhoneHolds

LEMMA PhoneStepIsTyped ==
  ASSUME HandlerInv, PhoneInv, PhoneTyped, NEW n \in Requests, PhoneSteps(n) PROVE PhoneTyped'
  <1>1. \A m \in Requests : PhoneHolds(request'[m])
    BY HolderGoes, NeedsCodeHolds DEF PhoneGoes, PhoneTyped
  <1>2. request[n].for \in Employees /\ request[n].token \in Persons
    BY HolderHas
  <1>3. keychain' = keychain \/ \E item : \E person \in Persons : keychain' = [keychain EXCEPT ![item] = person]
    BY <1>2 DEF PhoneSteps, Attach, Answered, IsRejected, Unauthorized, ReadRefresh, Refresh, Keep, Store, Clear, NeedsCode,
                EnterCode, CancelCode, phoneVars, Puts, Cleared, Persons
  <1>4. keychain' \in [Items -> Persons]
    BY <1>3 DEF PhoneTyped
  <1>5. shown' \in Persons
    BY <1>2 DEF PhoneSteps, Attach, Answered, IsRejected, Unauthorized, ReadRefresh, Refresh, Keep, Store, Clear, NeedsCode,
                EnterCode, CancelCode, phoneVars, PhoneTyped, Persons
  <1>6. challenge' \in 0..MaxRequests
    <2>1. challenge' \in {challenge, 0, n}
      BY DEF PhoneSteps, Attach, Answered, IsRejected, Unauthorized, ReadRefresh, Refresh, Keep, Store, Clear, NeedsCode,
             EnterCode, CancelCode, phoneVars
    <2> QED BY <2>1, MaxRequestsIsNatural DEF PhoneTyped, Requests
  <1>7. acted' \subseteq [for : Employees, as : Employees]
    <2>1. acted' = acted \/ (request[n].token # Nobody /\ acted' = acted \cup {[for |-> request[n].for, as |-> request[n].token]})
      BY DEF PhoneSteps, Attach, Answered, IsRejected, Unauthorized, ReadRefresh, Refresh, Keep, Store, Clear, NeedsCode,
             EnterCode, CancelCode, phoneVars
    <2>2. PICK all : all = [for : Employees, as : Employees]
      OBVIOUS
    <2>3. \A person \in Employees, token \in Employees : [for |-> person, as |-> token] \in all
      BY <2>2
    <2>4. request[n].token # Nobody => request[n].token \in Employees
      BY <1>2 DEF Persons
    <2>5. acted' \subseteq all
      BY <1>2, <2>1, <2>2, <2>3, <2>4 DEF PhoneTyped
    <2> QED BY <2>2, <2>5
  <1> QED BY <1>1, <1>4, <1>5, <1>6, <1>7 DEF PhoneTyped

LEMMA KillIsTyped == ASSUME HandlerInv, PhoneTyped, AppIsKilled PROVE PhoneTyped'
  <1>1. \A n \in Requests : PhoneHolds(request'[n])
    <2>1. ASSUME NEW n \in Requests PROVE request'[n] = request[n] \/ request'[n].at = "died"
      BY DEF AppIsKilled
    <2> QED BY <2>1 DEF PhoneTyped, PhoneHolds, Ended
  <1>2. keychain' = keychain /\ acted' = acted /\ challenge' = 0 /\ shown' = keychain["user"]
    BY DEF AppIsKilled
  <1>3. 0 \in 0..MaxRequests /\ "user" \in Items
    BY MaxRequestsIsNatural DEF Items
  <1> QED BY <1>1, <1>2, <1>3 DEF PhoneTyped

LEMMA PhoneStaysTyped == ASSUME RequestsInv, PhoneInv, PhoneTyped, [Next]_vars PROVE PhoneTyped'
  <1> USE DEF RequestsInv
  <1>1. CASE TransferNext \/ SavingsNext \/ RemittanceNext \/ CardNext \/ AuthorizeNext \/ LoanNext \/ KeyedNext
    <2>1. UNCHANGED phoneVars
      BY <1>1 DEF TransferNext, TransferFrame, SavingsNext, SavingsFrame, RemittanceNext, RemittanceFrame, CardNext,
                  CardFrame, AuthorizeNext, AuthorizeFrame, LoanNext, LoanFrame, KeyedNext, KeyedFrame
    <2> DEFINE Others == {{"transfer"}, SavingsOps, RemittanceOps, {"authorize"}, CardOps, LoanOps, {"keyed"}}
    <2>2. \A ops \in Others : ops \cap PhoneOps = {}
      BY DEF SavingsOps, CardOps, Managing, LoanOps, PhoneOps, RemittanceOps
    <2>3. PICK ops \in Others : HandlerStep(ops)
      BY <1>1, TransferRequests, SavingsRequests, RemittanceRequests, AuthorizeRequests, CardRequests,
         LoanRequests, KeyedRequests
    <2> HIDE DEF Others
    <2> QED BY <2>1, <2>2, <2>3, NotOnPhone
  <1>2. CASE PhoneNext
    BY <1>2, PhoneArrivalIsTyped, PhoneStepIsTyped DEF PhoneNext
  <1>3. CASE Passes \/ UNCHANGED vars
    <2>1. UNCHANGED <<phoneVars, handlerVars>>
      BY <1>3 DEF Passes, NextDay, planeVars, vars, sharedVars
    <2>2. HandlerStep({}) /\ {} \cap PhoneOps = {}
      BY <2>1, HandlersRest
    <2> QED BY <2>1, <2>2, NotOnPhone
  <1>4. CASE Fault
    <2>1. PICK n \in Requests :
            \/ Dies(n) \/ (RailAnswerIsLost(n) /\ RemittanceFrame) \/ (TransferIsLost(n) /\ TransferFrame)
            \/ AppIsKilled \/ OtherFault(n)
      BY <1>4 DEF Fault, OtherFault
    <2>2. CASE Dies(n) \/ (RailAnswerIsLost(n) /\ RemittanceFrame)
      <3>1. n \in Busy /\ GoesTo(n, "died") /\ "died" \in Ended /\ "died" # "not yet" /\ UNCHANGED phoneVars
        BY <2>2 DEF Dies, planeVars, RailAnswerIsLost, RemittanceFrame, Is, Busy, Ended
      <3>2. PhoneGoes(n)
        BY <3>1, HolderEnds
      <3> QED BY <3>1, <3>2 DEF PhoneGoes, PhoneTyped, phoneVars
    <2>3. CASE TransferIsLost(n) /\ TransferFrame
      <3>1. n \in Busy /\ request[n].op = "transfer" /\ UNCHANGED phoneVars
        BY <2>3 DEF TransferIsLost, TransferFrame, Is, Busy, Ended
      <3>2. PICK at \in {"reward", "done"} : GoesTo(n, at)
        BY <2>3 DEF TransferIsLost, AfterTransfer
      <3>3. HandlerStep({"transfer"}) /\ {"transfer"} \cap PhoneOps = {}
        BY <3>1, <3>2, Going DEF PhoneOps
      <3> QED BY <3>1, <3>3, NotOnPhone
    <2>4. CASE OtherFault(n)
      <3>1. UNCHANGED phoneVars
        BY <2>4 DEF OtherFault, AuthorizeFrame, LoanFrame, KeyedFrame
      <3>2. HandlerStep({"authorize", "ewa", "keyed"}) /\ {"authorize", "ewa", "keyed"} \cap PhoneOps = {}
        BY <2>4, OtherFaultRequests DEF PhoneOps
      <3> QED BY <3>1, <3>2, NotOnPhone
    <2> QED BY <2>1, <2>2, <2>3, <2>4, KillIsTyped
  <1> QED BY <1>1, <1>2, <1>3, <1>4 DEF Next

TypesInv == CallsTyped /\ BoundsTyped /\ CardTyped /\ ApprovalsTyped /\ PhoneTyped /\ KeyedTyped

LEMMA TypesStart == Init => TypesInv
  <1> SUFFICES ASSUME Init PROVE TypesInv
    OBVIOUS
  <1>1. met = {} /\ \A n \in Requests : request[n] = NotYet
    BY DEF Init, InitShared, InitHandlers
  <1>2. CallsTyped
    BY <1>1 DEF CallsTyped
  <1>3. BoundsTyped
    BY LastDayIsNatural, MaxFaultsIsNatural DEF Init, InitShared, BoundsTyped
  <1>4. CardTyped
    BY DEF Init, InitCards, CardTyped, CardStatuses
  <1>5. ApprovalsTyped
    BY DEF Init, InitAuthorize, ApprovalsTyped
  <1>6. PhoneTyped
    <2>1. \A n \in Requests : PhoneHolds(request[n])
      BY <1>1, NotYetEnded DEF PhoneHolds
    <2>2. shown = SignedIn /\ keychain = [item \in Items |-> shown] /\ challenge = 0 /\ acted = {}
      BY DEF Init, InitPhone
    <2>3. shown \in Persons
      BY <2>2, SomebodyOrNobody DEF Persons
    <2>4. 0 \in 0..MaxRequests
      BY MaxRequestsIsNatural
    <2> QED BY <2>1, <2>2, <2>3, <2>4 DEF PhoneTyped
  <1>7. KeyedTyped
    BY <1>1, NotYetEnded DEF Init, InitKeyed, KeyedTyped, AloneFits
  <1> QED BY <1>2, <1>3, <1>4, <1>5, <1>6, <1>7 DEF TypesInv

LEMMA TypesGoOn == RequestsInv /\ VelocityFits /\ OnceInv /\ PhoneInv /\ TypesInv /\ [Next]_vars => TypesInv'
  BY CallsStayTyped, BoundsStay, CardStaysTyped, ApprovalsStayTyped, PhoneStaysTyped, KeyedStaysTyped DEF TypesInv, OnceInv

(* What is proved of the variables one service at a time.                  *)
ProvedInv == ChargedInv /\ MoneyInv /\ SpentInv /\ OnceInv /\ BurstInv /\ LoanInv /\ TypesInv

LEMMA MoneyIsTyped ==
  ASSUME MoneyInv, SpentInv
  PROVE  /\ wallet \in [Employees -> Int]
         /\ \A row \in ledger :
              /\ row.by \in Requests /\ row.employee \in Employees /\ row.type \in Types
              /\ row.total \in Int /\ row.status \in {"COMPLETED", "FAILED"} /\ row.day \in 0..today
         /\ goal \in [Goals -> [status : {"none", "ACTIVE", "COMPLETED"}, saved : Int]]
  <1>1. wallet \in [Employees -> Int]
    BY DEF MoneyInv, Explains
  <1>2. goal \in [Goals -> [status : {"none", "ACTIVE", "COMPLETED"}, saved : Int]]
    BY DEF MoneyInv, GoalsExplained
  <1>3. ASSUME NEW row \in ledger PROVE TypedRow(row) /\ row.day \in 0..today
    BY DEF MoneyInv, TypedRows, SpentInv, RowsAreDated
  <1> QED BY <1>1, <1>2, <1>3 DEF TypedRow

LEMMA CardIsTyped ==
  ASSUME SpentInv, CardTyped
  PROVE  /\ card \in [status : {"ACTIVE", "BLOCKED", "EXPIRED"}, spent : Nat, day : 0..today]
         /\ issuer \in {"ACTIVE", "BLOCKED", "EXPIRED"} /\ hasPlastic \in BOOLEAN /\ carried \in BOOLEAN
  <1>1. /\ card = [f \in DOMAIN card |-> card[f]] /\ DOMAIN card = {"status", "spent", "day"}
        /\ card.spent \in Nat /\ card.day \in 0..today /\ carried \in BOOLEAN
    BY DEF SpentInv, CardIsDated, CardTyped
  <1>2. card.status \in CardStatuses /\ issuer \in CardStatuses /\ hasPlastic \in BOOLEAN
    BY DEF CardTyped
  <1>3. card = [status |-> card.status, spent |-> card.spent, day |-> card.day]
    BY <1>1
  <1>4. PICK status \in CardStatuses, spent \in Nat, day \in 0..today : card = [status |-> status, spent |-> spent, day |-> day]
    BY <1>1, <1>2, <1>3
  <1>5. card \in [status : {"ACTIVE", "BLOCKED", "EXPIRED"}, spent : Nat, day : 0..today]
    BY <1>4 DEF CardStatuses
  <1> QED BY <1>1, <1>2, <1>5 DEF CardStatuses

LEMMA VelocityIsTyped ==
  ASSUME VelocityFits, ApprovalsTyped
  PROVE  {velocity, window} \cup {a.earlier : a \in approvals} \subseteq [count : Nat, amount : Nat]
  <1>1. velocity \in Velocities /\ window \in Velocities /\ \A a \in approvals : a.earlier \in Velocities
    BY DEF VelocityFits, ApprovalsTyped
  <1>2. {velocity, window} \cup {a.earlier : a \in approvals} \subseteq Velocities
    BY <1>1
  <1> QED BY <1>2 DEF Velocities

LEMMA AllIsTyped == ProvedInv => TypeOK
  <1> SUFFICES ASSUME ProvedInv PROVE TypeOK
    OBVIOUS
  <1> USE DEF ProvedInv
  <1>1. /\ wallet \in [Employees -> Int]
        /\ \A row \in ledger :
             /\ row.by \in Requests /\ row.employee \in Employees /\ row.type \in Types
             /\ row.total \in Int /\ row.status \in {"COMPLETED", "FAILED"} /\ row.day \in 0..today
        /\ goal \in [Goals -> [status : {"none", "ACTIVE", "COMPLETED"}, saved : Int]]
    BY MoneyIsTyped
  <1>2. /\ today \in 0..LastDay /\ faults \in 0..MaxFaults /\ mix \in Mixes
        /\ met \subseteq {{m, n} : m, n \in Requests}
        /\ \A n \in Requests : request[n] = NotYet \/ request[n].op \in Ops
    BY DEF TypesInv, BoundsTyped, CallsTyped, Pairs
  <1>3. /\ rewarded \in [DOMAIN Referrer -> BOOLEAN]
        /\ quote \in [Quotes -> {"none", "locked", "gone"}]
        /\ sent \in [Requests -> Quotes \cup {"direct", "nothing"}]
        /\ kept \in [Keys -> Statuses \cup {"none"}]
    BY DEF OnceInv, ReferralInv, QuoteInv, QuotesOnce, KeyedInv, AnswersFit
  <1>4. verdicts \in [Requests -> SUBSET {"succeeded", "failed"}] /\ plastic \subseteq Requests
    BY DEF ChargedInv, WalletInv, RemitInv, PlasticInv
  <1>5. /\ card \in [status : {"ACTIVE", "BLOCKED", "EXPIRED"}, spent : Nat, day : 0..today]
        /\ issuer \in {"ACTIVE", "BLOCKED", "EXPIRED"} /\ hasPlastic \in BOOLEAN /\ carried \in BOOLEAN
    BY CardIsTyped DEF TypesInv
  <1>6. {velocity, window} \cup {a.earlier : a \in approvals} \subseteq [count : Nat, amount : Nat]
    BY VelocityIsTyped DEF BurstInv, TypesInv
  <1>7. /\ credit \in [counted : 0..MaxRequests, fresh : BOOLEAN] /\ aged \in 0..MaxRequests
        /\ lender \in [Requests -> Decisions \cup {"none", "requested"}]
        /\ said \in [Requests -> SUBSET Decisions]
        /\ \A n \in Requests : loan[n] # NoLoan => loan[n].principal \in Principals
        /\ paidOut \subseteq Requests /\ unknown \subseteq Requests \X Requests
    BY DEF LoanInv, LoanTypes, IsLoan
  <1>8. /\ keychain \in [Items -> Employees \cup {Nobody}] /\ shown \in Employees \cup {Nobody}
        /\ challenge \in 0..MaxRequests /\ acted \subseteq [for : Employees, as : Employees]
    BY DEF TypesInv, PhoneTyped, Persons
  <1>9. /\ onTheWay \subseteq [key : Keys, by : Requests, status : Statuses]
        /\ ran \subseteq [key : Keys, by : Requests, alone : BOOLEAN]
        /\ unheard \subseteq Requests
    BY DEF TypesInv, KeyedTyped
  <1> HIDE DEF ProvedInv
  <1> QED BY <1>1, <1>2, <1>3, <1>4, <1>5, <1>6, <1>7, <1>8, <1>9 DEF TypeOK

(* Every variable stays in its type, for any numbers of everything: no     *)
(* status but those of the schema, no request of no service, no row of     *)
(* nobody's, no counter below zero, and no reference to what never was     *)
(* (all the services of the wallet plane).                                 *)
THEOREM TypesHold == Spec => []TypeOK
  <1>1. Spec => []WalletInv /\ []MoneyInv
    BY WalletHolds, MoneyHolds, PTL
  <1>2. Spec => []ChargedInv
    BY ChargedStarts, ChargedGoesOn, PTL DEF Spec
  <1>3. Spec => []SpentInv
    BY <1>1, SpentStarts, SpentGoesOn, PTL DEF Spec
  <1>4. Spec => []OnceInv
    <2>1. WalletInv /\ MoneyInv /\ MoneyInv' /\ OnceInv /\ [Next]_vars => OnceInv'
      BY OnceGoesOn
    <2> QED BY <1>1, <2>1, OnceStarts, PTL DEF Spec
  <1>5. WalletInv => RequestsInv
    BY DEF WalletInv
  <1>6. Spec => []BurstInv
    <2>1. RequestsInv /\ BurstInv /\ [Next]_vars => BurstInv'
      BY BurstsGoOn
    <2> QED BY <1>1, <1>5, <2>1, BurstsStart, PTL DEF Spec
  <1>7. Spec => []LoanInv
    <2>1. RequestsInv /\ LoanInv /\ [Next]_vars => LoanInv'
      BY LoansGoOn
    <2> QED BY <1>1, <1>5, <2>1, LoansStart, PTL DEF Spec
  <1>8. Spec => []PhoneInv
    <2>1. RequestsInv /\ PhoneInv /\ [Next]_vars => PhoneInv'
      BY PhoneGoesOn
    <2> QED BY <1>1, <1>5, <2>1, PhoneStartsOnes, PTL DEF Spec
  <1>9. Spec => []TypesInv
    <2>1. BurstInv => VelocityFits
      BY DEF BurstInv
    <2> QED BY <1>1, <1>4, <1>5, <1>6, <1>8, <2>1, TypesStart, TypesGoOn, PTL DEF Spec
  <1>10. ChargedInv /\ MoneyInv /\ SpentInv /\ OnceInv /\ BurstInv /\ LoanInv /\ TypesInv => TypeOK
    BY AllIsTyped DEF ProvedInv
  <1> QED BY <1>1, <1>2, <1>3, <1>4, <1>6, <1>7, <1>9, <1>10, PTL
============================================================================
