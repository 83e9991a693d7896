-------------------------- MODULE Handlers_proofs --------------------------
(***************************************************************************)
(* What the three ways of touching a request keep true of all of them: a   *)
(* request is a record that keeps its operation once it has come in, and   *)
(* any two that are in progress have met.                                  *)
(***************************************************************************)
EXTENDS Handlers, TLAPS

IsRequest(r) ==
  /\ r = [f \in DOMAIN r |-> r[f]]
  /\ "at" \in DOMAIN r
  /\ r # NotYet => "op" \in DOMAIN r /\ r.at # "not yet"

RequestShape ==
  /\ request = [n \in Requests |-> request[n]]
  /\ \A n \in Requests : IsRequest(request[n])

BusyMet == \A m, n \in Busy : m # n => Overlapped(m, n)

HandlerInv == RequestShape /\ BusyMet

(* A step of the operations in ops: every request it changes is one of     *)
(* theirs, before and after, and had not ended.                            *)
HandlerStep(ops) ==
  /\ HandlerInv'
  /\ met \subseteq met'
  /\ \A n \in Requests : request'[n] # request[n] =>
       /\ request'[n] # NotYet /\ request'[n].op \in ops
       /\ request[n] # NotYet => n \in Busy /\ request[n].op = request'[n].op

LEMMA HandlersInit == InitHandlers => HandlerInv
  <1> SUFFICES ASSUME InitHandlers PROVE HandlerInv
    OBVIOUS
  <1>1. NotYet.at = "not yet" /\ IsRequest(NotYet)
    BY DEF NotYet, IsRequest
  <1>2. \A n \in Requests : request[n] = NotYet
    BY DEF InitHandlers
  <1>3. RequestShape
    BY <1>1, <1>2 DEF InitHandlers, RequestShape
  <1>4. Busy = {}
    BY <1>1, <1>2 DEF Busy, Ended
  <1> QED BY <1>3, <1>4 DEF HandlerInv, BusyMet

LEMMA HandlersRest ==
  ASSUME HandlerInv, UNCHANGED handlerVars, NEW ops PROVE HandlerStep(ops)
  BY DEF HandlerInv, RequestShape, IsRequest, BusyMet, Busy, Overlapped, HandlerStep, handlerVars

(* Becomes: the request in progress goes on as the record r. *)
LEMMA Becoming ==
  ASSUME HandlerInv, NEW n \in Busy, NEW r, IsRequest(r), r # NotYet,
         r.op = request[n].op, Becomes(n, r), NEW ops, r.op \in ops
  PROVE  HandlerStep(ops) /\ request'[n] = r
  <1>1. n \in Requests /\ request' = [request EXCEPT ![n] = r] /\ met' = met
    BY DEF Busy, Becomes
  <1>2. request'[n] = r /\ \A m \in Requests \ {n} : request'[m] = request[m]
    BY <1>1 DEF HandlerInv, RequestShape
  <1>3. RequestShape'
    BY <1>1, <1>2 DEF HandlerInv, RequestShape, IsRequest
  <1>4. BusyMet'
    <2>1. Busy' \subseteq Busy
      BY <1>1, <1>2 DEF Busy
    <2> QED BY <1>1, <2>1 DEF HandlerInv, BusyMet, Overlapped
  <1> QED BY <1>1, <1>2, <1>3, <1>4 DEF HandlerStep, HandlerInv

(* GoesTo: it keeps its fields, but forgets them at its end. *)
LEMMA Going ==
  ASSUME HandlerInv, NEW n \in Busy, NEW at, at # "not yet", GoesTo(n, at),
         NEW ops, request[n].op \in ops
  PROVE  /\ HandlerStep(ops)
         /\ request'[n].at = at /\ request'[n].op = request[n].op
         /\ at \notin Ended => /\ DOMAIN request'[n] = DOMAIN request[n]
                               /\ \A f \in DOMAIN request[n] \ {"at"} : request'[n][f] = request[n][f]
  <1> DEFINE r == IF at \in Ended THEN [op |-> request[n].op, at |-> at] ELSE [request[n] EXCEPT !.at = at]
  <1>1. n \in Requests /\ request[n] # NotYet /\ IsRequest(request[n])
    <2>1. NotYet.at \in Ended
      BY DEF NotYet, Ended
    <2> QED BY <2>1 DEF Busy, HandlerInv, RequestShape
  <1>2. IsRequest(r) /\ r # NotYet /\ r.op = request[n].op /\ r.at = at
    <2>1. CASE at \in Ended
      BY <2>1 DEF IsRequest, NotYet
    <2>2. CASE at \notin Ended
      BY <1>1, <2>2 DEF IsRequest, NotYet
    <2> QED BY <2>1, <2>2
  <1>3. Becomes(n, r)
    BY DEF GoesTo
  <1> HIDE DEF r
  <1>4. HandlerStep(ops) /\ request'[n] = r
    BY <1>2, <1>3, Becoming
  <1>5. at \notin Ended => /\ DOMAIN r = DOMAIN request[n]
                           /\ \A f \in DOMAIN request[n] \ {"at"} : r[f] = request[n][f]
    BY <1>1 DEF r, IsRequest
  <1> QED BY <1>2, <1>4, <1>5

(* Arrives: a new request meets those in progress. *)
LEMMA Arriving ==
  ASSUME HandlerInv, NEW r, IsRequest(r), r # NotYet, Arrives(r), NEW ops, r.op \in ops
  PROVE  /\ HandlerStep(ops)
         /\ \E n \in Requests : /\ request[n] = NotYet /\ request'[n] = r
                                /\ \A m \in Requests \ {n} : request'[m] = request[m]
  <1>1. PICK n \in Requests : /\ request[n] = NotYet
                              /\ request' = [request EXCEPT ![n] = r]
                              /\ met' = met \cup {{m, n} : m \in Busy}
    BY DEF Arrives
  <1>2. request'[n] = r /\ \A m \in Requests \ {n} : request'[m] = request[m]
    BY <1>1 DEF HandlerInv, RequestShape
  <1>3. RequestShape'
    BY <1>1, <1>2 DEF HandlerInv, RequestShape, IsRequest
  <1>4. BusyMet'
    <2>1. \A m \in Busy' : m \in Busy \/ m = n
      BY <1>2 DEF Busy
    <2>2. \A m \in Busy : {m, n} \in met' /\ {n, m} \in met'
      BY <1>1
    <2> QED BY <1>1, <2>1, <2>2 DEF HandlerInv, BusyMet, Overlapped
  <1> QED BY <1>1, <1>2, <1>3, <1>4 DEF HandlerStep, HandlerInv

(* The request n, in progress, goes on or ends. *)
Proceeds(n) ==
  \/ \E at : at # "not yet" /\ GoesTo(n, at)
  \/ \E r : IsRequest(r) /\ r # NotYet /\ r.op = request[n].op /\ Becomes(n, r)

LEMMA Proceeding ==
  ASSUME HandlerInv, NEW n \in Busy, Proceeds(n), NEW ops, request[n].op \in ops
  PROVE  HandlerStep(ops)
  BY Going, Becoming DEF Proceeds

LEMMA IsBusy ==
  ASSUME NEW n \in Requests, NEW op, NEW at, at \notin Ended, Is(n, op, at)
  PROVE  n \in Busy /\ request[n].op = op /\ request[n].at = at
  BY DEF Is, Busy

(* A request of one of these operations comes in. *)
Enters(ops) == \E r : IsRequest(r) /\ r # NotYet /\ r.op \in ops /\ Arrives(r)

LEMMA NotYetEnded == NotYet.at \in Ended /\ NotYet.at = "not yet"
  BY DEF NotYet, Ended

(* What GoesTo does to the requests, in full. *)
LEMMA GoingOn ==
  ASSUME HandlerInv, NEW n \in Busy, NEW at, at # "not yet", GoesTo(n, at)
  PROVE  /\ n \in Requests
         /\ request'[n] # NotYet /\ request'[n].at = at /\ request'[n].op = request[n].op
         /\ \A m \in Requests \ {n} : request'[m] = request[m]
         /\ at \notin Ended => /\ DOMAIN request'[n] = DOMAIN request[n]
                               /\ \A f \in DOMAIN request[n] \ {"at"} : request'[n][f] = request[n][f]
  <1>1. /\ request'[n].at = at /\ request'[n].op = request[n].op
        /\ at \notin Ended => /\ DOMAIN request'[n] = DOMAIN request[n]
                              /\ \A f \in DOMAIN request[n] \ {"at"} : request'[n][f] = request[n][f]
    <2> DEFINE ops == {request[n].op}
    <2>1. request[n].op \in ops
      OBVIOUS
    <2> HIDE DEF ops
    <2> QED BY <2>1, Going
  <1>2. request'[n] # NotYet
    BY <1>1, NotYetEnded
  <1>3. n \in Requests /\ \A m \in Requests \ {n} : request'[m] = request[m]
    BY DEF GoesTo, Becomes, HandlerInv, RequestShape, Busy
  <1> QED BY <1>1, <1>2, <1>3

(***************************************************************************)
(* What a service has no part in: the requests of other operations stay as *)
(* they are, or end; and no request comes to where those steps start.      *)
(***************************************************************************)
Spares(op) ==
  /\ met \subseteq met'
  /\ \A n \in Requests : request'[n] = request[n] \/ request'[n].op # op \/ request'[n].at \in Ended

LEMMA OthersAreSpared ==
  ASSUME NEW ops, HandlerStep(ops), NEW op, op \notin ops PROVE Spares(op)
  BY DEF HandlerStep, Spares

LEMMA EndingIsSpared ==
  ASSUME HandlerInv, NEW n \in Busy, NEW at \in {"done", "refused", "died"}, GoesTo(n, at)
  PROVE  \A op : Spares(op)
  <1>1. at \in Ended /\ at # "not yet"
    BY DEF Ended
  <1>2. request'[n].at = at /\ \A m \in Requests \ {n} : request'[m] = request[m]
    BY <1>1, GoingOn
  <1>3. met' = met
    BY DEF GoesTo, Becomes
  <1> QED BY <1>1, <1>2, <1>3 DEF Spares

(* No request comes to where it is "at" there. *)
NoneComesTo(there) ==
  met \subseteq met' /\ \A n \in Requests : request'[n].at = there => request'[n] = request[n]

LEMMA GoesElsewhere ==
  ASSUME HandlerInv, NEW n \in Busy, NEW at, at # "not yet", GoesTo(n, at)
  PROVE  \A there : at # there => NoneComesTo(there)
  <1>1. request'[n].at = at /\ \A m \in Requests \ {n} : request'[m] = request[m]
    BY GoingOn
  <1>2. met' = met
    BY DEF GoesTo, Becomes
  <1> QED BY <1>1, <1>2 DEF NoneComesTo

LEMMA BecomesElsewhere ==
  ASSUME HandlerInv, NEW n \in Busy, NEW r, Becomes(n, r)
  PROVE  \A there : r.at # there => NoneComesTo(there)
  BY DEF NoneComesTo, Becomes, HandlerInv, RequestShape, Busy

LEMMA ArrivesElsewhere ==
  ASSUME HandlerInv, NEW r, IsRequest(r), r # NotYet, Arrives(r)
  PROVE  \A there : r.at # there => NoneComesTo(there)
  <1>1. \E n \in Requests : request'[n] = r /\ \A m \in Requests \ {n} : request'[m] = request[m]
    <2>1. r.op \in {r.op}
      OBVIOUS
    <2> QED BY <2>1, Arriving
  <1>2. met \subseteq met'
    BY DEF Arrives
  <1> QED BY <1>1, <1>2 DEF NoneComesTo

(* A fault touches requests of any kind, but only to end them. *)
Killing ==
  /\ HandlerInv'
  /\ met' = met
  /\ \A n \in Requests : request'[n] # request[n] =>
       /\ n \in Busy /\ request'[n] # NotYet
       /\ request'[n].at = "died" /\ request'[n].op = request[n].op

LEMMA BusyIsLive ==
  /\ \A n \in Busy : n \in Requests /\ request[n] # NotYet /\ request[n].at # "died"
  /\ \A n \in Busy' : n \in Requests /\ request'[n] # NotYet /\ request'[n].at # "died"
  <1>1. NotYet.at \in Ended /\ "died" \in Ended
    BY DEF NotYet, Ended
  <1> QED BY <1>1 DEF Busy

(* Requests keep their operation; those that are done stay so. *)
OpsKept ==
  \A n \in Requests : request[n] # NotYet =>
    request'[n] # NotYet /\ request'[n].op = request[n].op

DoneStay == \A n \in Requests : request[n].at = "done" => request'[n] = request[n]

LEMMA DoneStays == ASSUME NEW ops, HandlerStep(ops) PROVE DoneStay
  <1>1. NotYet.at # "done" /\ "done" \in Ended
    BY NotYetEnded DEF Ended
  <1> QED BY <1>1 DEF HandlerStep, DoneStay, Busy

(* A step in which no request for op does anything but die. *)
Untouched(op) ==
  \A n \in Requests : SameOp(n, op)' => request'[n] = request[n] \/ request'[n].at = "died"

LEMMA OthersUntouched ==
  ASSUME HandlerInv, NEW ops, HandlerStep(ops), NEW op, op \notin ops PROVE Untouched(op)
  BY DEF HandlerStep, Untouched, SameOp

LEMMA KilledOnly == ASSUME Killing, NEW op PROVE Untouched(op)
  BY DEF Killing, Untouched

LEMMA SameOpStays ==
  ASSUME OpsKept, NEW n \in Requests, NEW op, SameOp(n, op) PROVE SameOp(n, op)'
  BY DEF OpsKept, SameOp
============================================================================
