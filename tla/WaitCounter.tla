---------------------------- MODULE WaitCounter ----------------------------
(***************************************************************************)
(* The two counters a user can wait on, ImmCounter and GdrCounter          *)
(* (fabric-lib/src/api.rs), against ImmCount::inc (imm_count.rs), one       *)
(* atomic operation at a time.                                              *)
(*                                                                         *)
(* A round is one wait(target) of the user and the target immediates its   *)
(* peers send for it, which may arrive before, during or after the call.    *)
(* The next round's immediates are sent once this round is over: the peers  *)
(* wait for a barrier whose immediates the same worker thread reads, so it  *)
(* is between two calls of inc by then (a2a_worker.rs, barrier).            *)
(***************************************************************************)
EXTENDS Integers

CONSTANTS
    MaxTarget,  \* bound: immediates in a round
    MaxRounds   \* bound: rounds

ASSUME WaitCounterAssumption == MaxTarget \in Nat /\ MaxRounds \in Nat

VARIABLES
    kind,       \* "imm" (the user spins) or "gdr" (a flag releases a kernel)
    counter,    \* the AtomicI64
    flag,       \* the GdrFlag
    worker,     \* worker thread in inc: "idle", "zero", "flagged"
    user,       \* user thread: "start", "subtracted", "spin", "kernel", "over"
    old,        \* what the user's fetch_sub returned
    target,     \* the target of this round
    due,        \* immediates of this round still to arrive
    round

vars == <<kind, counter, flag, worker, user, old, target, due, round>>

TypeOK ==
    /\ kind \in {"imm", "gdr"}
    /\ counter \in -MaxTarget..MaxTarget /\ flag \in BOOLEAN
    /\ worker \in {"idle", "zero", "flagged"}
    /\ user \in {"start", "subtracted", "spin", "kernel", "over"}
    /\ old \in -MaxTarget..MaxTarget
    /\ target \in 0..MaxTarget /\ due \in 0..MaxTarget
    /\ round \in 0..MaxRounds

Init ==
    /\ kind \in {"imm", "gdr"}
    /\ counter = 0 /\ flag = FALSE /\ worker = "idle"
    /\ user = "start" /\ old = 0
    /\ target \in 0..MaxTarget /\ due = target
    /\ round = 0

----------------------------------------------------------------------------
(* The worker thread: ImmCount::inc.                                        *)

\* Mutant: any non-negative value sets the flag.
ReachedOrPassed(value) == value >= 0

\* The value at which the Gdr counter fires.
Fires(value) == value = 0

\* fetch_add(1).
IncAdd ==
    /\ worker = "idle" /\ due > 0
    /\ due' = due - 1
    /\ counter' = counter + 1
    /\ worker' = IF kind = "gdr" /\ Fires(counter + 1) THEN "zero" ELSE "idle"
    /\ UNCHANGED <<kind, flag, user, old, target, round>>

\* flag.set(true).
IncSetFlag ==
    /\ worker = "zero"
    /\ flag' = TRUE
    /\ worker' = "flagged"
    /\ UNCHANGED <<kind, counter, user, old, target, due, round>>

\* store(0).
IncStore ==
    /\ worker = "flagged"
    /\ counter' = 0
    /\ worker' = "idle"
    /\ UNCHANGED <<kind, flag, user, old, target, due, round>>

----------------------------------------------------------------------------
(* The user thread: wait(target).                                           *)

\* fetch_sub(target).
WaitSub ==
    /\ user = "start"
    /\ old' = counter
    /\ counter' = counter - target
    /\ user' = "subtracted"
    /\ UNCHANGED <<kind, flag, worker, target, due, round>>

\* Mutant: a count that is just enough is not seen.
EnoughStrict == old > target

\* All immediates of the round had arrived before the call.
Enough == old >= target

\* ImmCounter::wait returns at once or goes on to spin.
WaitImm ==
    /\ user = "subtracted" /\ kind = "imm"
    /\ user' = IF Enough THEN "over" ELSE "spin"
    /\ UNCHANGED <<kind, counter, flag, worker, old, target, due, round>>

\* A turn of the user's or the kernel's spin loop that finds nothing yet.
Spins ==
    /\ \/ user = "spin" /\ counter < 0
       \/ user = "kernel" /\ ~flag
    /\ UNCHANGED vars

\* One turn of the spin loop that finds the counter settled.
SpinEnds ==
    /\ user = "spin"
    /\ counter >= 0
    /\ user' = "over"
    /\ UNCHANGED <<kind, counter, flag, worker, old, target, due, round>>

\* GdrCounter::wait sets the flag itself or leaves it to inc.
WaitGdr ==
    /\ user = "subtracted" /\ kind = "gdr"
    /\ flag' = IF Enough THEN TRUE ELSE flag
    /\ user' = "kernel"
    /\ UNCHANGED <<kind, counter, worker, old, target, due, round>>

\* The kernel sees the flag, clears it, reads the received tokens and lets the
\* host go on.
KernelReads ==
    /\ user = "kernel"
    /\ flag
    /\ flag' = FALSE
    /\ user' = "over"
    /\ UNCHANGED <<kind, counter, worker, old, target, due, round>>

\* The barrier at the end of the round, and the next round.
NextRound ==
    /\ user = "over" /\ worker = "idle" /\ round < MaxRounds
    /\ round' = round + 1
    /\ \E n \in 0..MaxTarget : target' = n /\ due' = n
    /\ user' = "start"
    /\ UNCHANGED <<kind, counter, flag, worker, old>>

Finished == user = "over" /\ worker = "idle" /\ round = MaxRounds /\ UNCHANGED vars

Worker == IncAdd \/ IncSetFlag \/ IncStore
User == WaitSub \/ WaitImm \/ SpinEnds \/ WaitGdr \/ KernelReads \/ NextRound

Next == Worker \/ User \/ Spins \/ Finished

\* Both threads keep running, and the peers' immediates arrive.
Spec == Init /\ [][Next]_vars /\ WF_vars(Worker) /\ WF_vars(User)

----------------------------------------------------------------------------
(* Properties.                                                              *)

\* Nobody is released early: when the wait is over, or the flag that releases
\* the kernel is up, every immediate of the round has arrived, and so the
\* data written before it.
NotReleasedEarly == user = "over" \/ flag => due = 0

\* A round leaves nothing behind: at its end the counter is back at zero and the
\* flag is down, so the next wait starts from a clean state.
RoundStartsClean == user = "over" /\ worker = "idle" => counter = 0 /\ ~flag

\* No release is lost: once all immediates have arrived and the worker has done
\* with the last, the flag a kernel waits for is up, and a spinning user finds
\* the counter settled.
NothingLost ==
    /\ user = "kernel" /\ due = 0 /\ worker = "idle" => flag
    /\ user = "spin" /\ due = 0 => counter >= 0

\* A wait is over neither early nor with anything left for the next one to find,
\* and has all it needs to end when its immediates are there, whatever the order of
\* fetch_sub, fetch_add, flag.set and store(0): wait and inc, api.rs:209 and
\* imm_count.rs:49.
WaitsSeparate == TypeOK /\ NotReleasedEarly /\ RoundStartsClean /\ NothingLost

\* Every wait ends: the release is neither lost between fetch_sub and
\* fetch_add nor wiped out by the store of zero.
WaitEnds == \A r \in 0..MaxRounds : round = r ~> user = "over"
============================================================================
