-------------------------- MODULE TransferOutcome --------------------------
(***************************************************************************)
(* What a DomainGroup promises its worker, whatever the number of domains: *)
(* a submitted transfer runs until it succeeds or fails, once and for all. *)
(***************************************************************************)
CONSTANT Ids

VARIABLE outcome

TypeOK == outcome \in [Ids -> {"idle", "running", "succeeded", "failed"}]

Init == outcome = [t \in Ids |-> "idle"]

Start(t) == /\ outcome[t] = "idle"
            /\ \E s \in {"running", "failed"} : outcome' = [outcome EXCEPT ![t] = s]

Resolve(t) == /\ outcome[t] = "running"
              /\ \E s \in {"succeeded", "failed"} : outcome' = [outcome EXCEPT ![t] = s]

Next == \E t \in Ids : Start(t) \/ Resolve(t)

Safety == Init /\ [][Next]_outcome

\* A running transfer does not run for ever.
Spec == Safety /\ \A t \in Ids : WF_outcome(Resolve(t))
============================================================================
