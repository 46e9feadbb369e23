----------------------------- MODULE RpcService -----------------------------
(***************************************************************************)
(* What the JSON-RPC server promises its client, with no goroutines,       *)
(* queues, pools or contexts: a request is answered once, after every      *)
(* change of its document that was sent before it has been applied, and    *)
(* the changes of one document are applied one after the other in the      *)
(* order they were sent.  Rpc.tla implements this specification.           *)
(***************************************************************************)
EXTENDS Naturals

CONSTANTS
  Reqs,      \* request ids a client uses, each at most once
  Docs,      \* documents (the empty URI is a document here)
  DocOf      \* [Reqs -> Docs]: the document a request is about

Unsent == "unsent"
Open == "open"
Answered == "answered"

VARIABLES
  request,   \* [Reqs -> {Unsent, Open, Answered}]
  changes,   \* [Docs -> Nat]: changes accepted from the client
  applied,   \* [Docs -> Nat]: changes applied, a prefix of the accepted ones
  before     \* [Reqs -> Nat]: changes accepted before the request

svars == <<request, changes, applied, before>>

Init ==
  /\ request = [r \in Reqs |-> Unsent]
  /\ changes = [d \in Docs |-> 0]
  /\ applied = [d \in Docs |-> 0]
  /\ before = [r \in Reqs |-> 0]

Change(d) ==
  /\ changes' = [changes EXCEPT ![d] = @ + 1]
  /\ UNCHANGED <<request, applied, before>>

Apply(d) ==
  /\ applied[d] < changes[d]
  /\ applied' = [applied EXCEPT ![d] = @ + 1]
  /\ UNCHANGED <<request, changes, before>>

\* A request the lifecycle does not allow is answered as it arrives.
Refuse(r) ==
  /\ request[r] = Unsent
  /\ request' = [request EXCEPT ![r] = Answered]
  /\ UNCHANGED <<changes, applied, before>>

Accept(r) ==
  /\ request[r] = Unsent
  /\ request' = [request EXCEPT ![r] = Open]
  /\ before' = [before EXCEPT ![r] = changes[DocOf[r]]]
  /\ UNCHANGED <<changes, applied>>

Answer(r) ==
  /\ request[r] = Open
  /\ before[r] <= applied[DocOf[r]]
  /\ request' = [request EXCEPT ![r] = Answered]
  /\ UNCHANGED <<changes, applied, before>>

Next ==
  \/ \E d \in Docs : Change(d) \/ Apply(d)
  \/ \E r \in Reqs : Refuse(r) \/ Accept(r) \/ Answer(r)

Spec == Init /\ [][Next]_svars
=============================================================================
