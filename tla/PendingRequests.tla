-------------------------- MODULE PendingRequests --------------------------
(***************************************************************************)
(* What the Modbus tracker promises its caller: a bounded map from a       *)
(* request identifier (transaction id, unit id) to the most recent request *)
(* seen under that identifier.  A take hands the request back and forgets  *)
(* it.  Slots, the free stack and the hash table do not appear here.       *)
(***************************************************************************)
EXTENDS Integers, FiniteSets

CONSTANTS Keys,        \* request identifiers
          Requests,    \* what is remembered of a request
          NoRequest,   \* no request
          Capacity     \* most identifiers that can be pending at a time

VARIABLES pending,     \* identifier -> pending request, or NoRequest
          reply        \* what the last call returned

vars == <<pending, reply>>

Open == {k \in Keys : pending[k] # NoRequest}

Reply(ok, r) == [ok |-> ok, req |-> r]

Init == /\ pending = [k \in Keys |-> NoRequest]
        /\ reply = Reply(TRUE, NoRequest)

Store(k, r) ==
    /\ k \in Open \/ Cardinality(Open) < Capacity
    /\ pending' = [pending EXCEPT ![k] = r]
    /\ reply' = Reply(TRUE, NoRequest)

\* Only an identifier that is not pending may be refused.
Refuse(k) ==
    /\ k \notin Open
    /\ reply' = Reply(FALSE, NoRequest)
    /\ UNCHANGED pending

Take(k) ==
    /\ k \in Open
    /\ reply' = Reply(TRUE, pending[k])
    /\ pending' = [pending EXCEPT ![k] = NoRequest]

Unmatched(k) ==
    /\ k \notin Open
    /\ reply' = Reply(FALSE, NoRequest)
    /\ UNCHANGED pending

Next == \E k \in Keys : \/ \E r \in Requests : Store(k, r)
                        \/ Refuse(k)
                        \/ Take(k)
                        \/ Unmatched(k)

Spec == Init /\ [][Next]_vars
=============================================================================
