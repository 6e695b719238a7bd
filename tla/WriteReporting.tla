--------------------------- MODULE WriteReporting ---------------------------
(***************************************************************************)
(* What a domain (fabric-lib/src/provider.rs) promises the DomainGroup     *)
(* of the writes it accepts: each is reported, once, as a transfer or as   *)
(* an error.  A write reported as an error may be reported as a transfer   *)
(* afterwards, when the operations behind the failed one all complete.     *)
(***************************************************************************)

CONSTANT Writes

VARIABLE report

States == {"idle", "active", "done", "failed", "failed_done"}

Init == report = [w \in Writes |-> "idle"]

Moves(w, from, to) ==
    /\ report[w] = from
    /\ report' = [report EXCEPT ![w] = to]

Accept(w) == Moves(w, "idle", "active")

Resolve(w) == Moves(w, "active", "done") \/ Moves(w, "active", "failed")

LateTransfer(w) == Moves(w, "failed", "failed_done")

Next == \E w \in Writes : Accept(w) \/ Resolve(w) \/ LateTransfer(w)

\* An accepted write is reported.  Nothing obliges the late transfer to come.
Fairness == \A w \in Writes : WF_report(Resolve(w))

Safety == Init /\ [][Next]_report

Spec == Safety /\ Fairness
============================================================================
