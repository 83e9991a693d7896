----------------------------- MODULE Handlers -----------------------------
(***************************************************************************)
(* Requests in progress.  A request is a record whose field "at" says      *)
(* which await it is at; the other fields are what it was called with and  *)
(* what it has read so far.  Requests are numbered as they come in.        *)
(***************************************************************************)
EXTENDS Integers

CONSTANT MaxRequests  \* bound: how many requests the environment makes

ASSUME MaxRequestsIsNatural == MaxRequests \in Nat

VARIABLES
  request,  \* the requests in the order they came in
  met       \* the pairs of requests that have been in progress at once

handlerVars == <<request, met>>

Requests == 1..MaxRequests
NotYet == [at |-> "not yet"]
Ended == {"not yet", "done", "refused", "died"}
Busy == {n \in Requests : request[n].at \notin Ended}

InitHandlers ==
  /\ request = [n \in Requests |-> NotYet]
  /\ met = {}

(* The next request comes in as the record r. *)
Arrives(r) ==
  \E n \in Requests :
    /\ request[n] = NotYet
    /\ \A m \in 1..(n - 1) : request[m] # NotYet
    /\ request' = [request EXCEPT ![n] = r]
    /\ met' = met \cup {{m, n} : m \in Busy}

SameOp(n, op) == request[n] # NotYet /\ request[n].op = op
Is(n, op, at) == request[n].at = at /\ request[n].op = op

Becomes(n, r) == request' = [request EXCEPT ![n] = r] /\ UNCHANGED met

(* A request that has ended forgets what it held. *)
GoesTo(n, at) ==
  Becomes(n, IF at \in Ended THEN [op |-> request[n].op, at |-> at] ELSE [request[n] EXCEPT !.at = at])

Overlapped(m, n) == {m, n} \in met
============================================================================
