----------------------------- MODULE MCCounters -----------------------------
(***************************************************************************)
(* An immediate is counted in one of the ways of ImmCountMap: for a user   *)
(* who waits (WaitCounter) or towards an expected count (ImmCount).  Both  *)
(* are checked in one run: the way is chosen initially, and the state of   *)
(* the other stays as it is.                                               *)
(***************************************************************************)
EXTENDS WaitCounter

CONSTANTS Workers, Expected, MaxImms

\* An expected count is a NonZeroU32 (imm_count.rs:16).
ASSUME ExpectedAssumption == Expected \in Nat \ {0} /\ MaxImms \in Nat

VARIABLES way, receivers, entry, tally, handler, pc, events, cb, installer, arrived, called, immdata

E == INSTANCE ImmCount WITH counter <- tally, user <- installer

EVars ==
    <<receivers, entry, tally, handler, pc, events, cb, installer, arrived, called, immdata>>

MCVars == <<way, vars, EVars>>

Unused ==
    IF way = "expected" THEN kind = "imm" /\ target = 0 ELSE receivers = Workers

MCInit == way \in {"waited", "expected"} /\ Init /\ E!Init /\ Unused

MCWorker == way = "waited" /\ Worker /\ UNCHANGED <<way, EVars>>

MCUser == way = "waited" /\ User /\ UNCHANGED <<way, EVars>>

MCRest == way = "waited" /\ (Spins \/ Finished) /\ UNCHANGED <<way, EVars>>

MCExpected == way = "expected" /\ E!Next /\ UNCHANGED <<way, vars>>

MCNext == MCWorker \/ MCUser \/ MCRest \/ MCExpected

MCSpec == MCInit /\ [][MCNext]_MCVars /\ WF_MCVars(MCWorker) /\ WF_MCVars(MCUser)

----------------------------------------------------------------------------

\* No immediate is delivered twice by a counter of ImmCount::Expected: see
\* EachImmOnce in ImmCount (imm_count.rs:37, transfer_engine.rs:467).
EachImmOnce == E!EachImmOnce

\* One call of the repeated callback for each full count: see CallbackPerCount in
\* ImmCount (imm_count.rs:40).
CallbackPerCount == E!CallbackPerCount

\* Every wait of a waited counter ends: see WaitEnds in WaitCounter (api.rs:208).
EveryWaitEnds == way = "waited" => WaitEnds
=============================================================================
