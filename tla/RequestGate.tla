---------------------------- MODULE RequestGate ----------------------------
(***************************************************************************)
(* What a location with plugins promises for a request: it is answered     *)
(* once, by the proxy or by the upstream, and the upstream only gets to    *)
(* see it when every plugin that guards the location would let it pass.    *)
(***************************************************************************)
CONSTANT Req
VARIABLES
  outcome,    \* what has become of a request
  allowed,    \* the requests the guards let pass
  silent      \* the requests a plugin is configured to leave unanswered

Init == outcome = [r \in Req |-> "none"]

Arrive(r)  == outcome[r] = "none" /\ outcome' = [outcome EXCEPT ![r] = "waiting"]
Reply(r)   == outcome[r] = "waiting" /\ outcome' = [outcome EXCEPT ![r] = "answered"]
Forward(r) == /\ outcome[r] = "waiting" /\ r \in allowed
              /\ outcome' = [outcome EXCEPT ![r] = "forwarded"]
Relay(r)   == outcome[r] = "forwarded" /\ outcome' = [outcome EXCEPT ![r] = "answered"]
Ignore(r)  == /\ outcome[r] = "waiting" /\ r \in silent
              /\ outcome' = [outcome EXCEPT ![r] = "ignored"]

Serve(r) == Reply(r) \/ Forward(r) \/ Relay(r) \/ Ignore(r)
Next == \E r \in Req : Arrive(r) \/ Serve(r)

Spec == Init /\ [][Next]_outcome
FairSpec == Spec /\ \A r \in Req : WF_outcome(Serve(r))
=============================================================================
