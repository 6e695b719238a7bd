------------------------------ MODULE ImmCount ------------------------------
(***************************************************************************)
(* An expected-count immediate: ImmCount::Expected and ImmCountMap         *)
(* (fabric-lib/src/imm_count.rs) as the worker threads increment it, and    *)
(* the callback thread of TransferEngine that acts on ImmCountReached.      *)
(*                                                                         *)
(* The map is shared by the workers of all GPUs.  inc runs under the READ   *)
(* lock, so workers interleave between its two atomic operations; insert    *)
(* and remove take the write lock and so wait for every inc to finish.      *)
(***************************************************************************)
EXTENDS Integers, Sequences

CONSTANTS
    Workers,    \* worker threads (one per GPU)
    Expected,   \* the expected count
    MaxImms     \* bound: immediates that arrive

VARIABLES
    receivers,  \* the workers whose GPUs the immediate is sent to
    entry,      \* the map has an entry for the immediate
    counter,    \* its AtomicI64
    handler,    \* callbacks.imm_count: "none", "once" or "repeated"
    pc,         \* per worker: "idle", or "reached" between fetch_add and fetch_sub
    events,     \* completion entries for the callback thread
    cb,         \* callback thread: "idle", or "removing" between its two removals
    user,       \* the thread that installs the handler
    arrived,    \* immediates received
    called,     \* calls of the count callback
    immdata     \* calls of the ImmData callbacks

vars == <<receivers, entry, counter, handler, pc, events, cb, user, arrived, called, immdata>>

TypeOK ==
    /\ receivers \subseteq Workers
    /\ entry \in BOOLEAN /\ counter \in 0..MaxImms
    /\ handler \in {"none", "once", "repeated"}
    /\ pc \in [Workers -> {"idle", "reached"}]
    /\ events \in Seq({"ImmData", "ImmCountReached"})
    /\ cb \in {"idle", "removing"}
    /\ user \in {"start", "handler", "done"}
    /\ arrived \in 0..MaxImms /\ called \in 0..MaxImms /\ immdata \in 0..MaxImms

Init ==
    /\ receivers \in SUBSET Workers \ {{}}
    /\ entry = FALSE /\ counter = 0 /\ handler = "none"
    /\ pc = [w \in Workers |-> "idle"]
    /\ events = <<>> /\ cb = "idle" /\ user = "start"
    /\ arrived = 0 /\ called = 0 /\ immdata = 0

Unlocked == \A w \in Workers : pc[w] = "idle"

----------------------------------------------------------------------------
(* set_imm_count_expected and wait_for_imm_count: first the callback, then  *)
(* the entry of the map.                                                    *)

InsertHandler(kind) ==
    /\ user = "start"
    /\ handler' = kind
    /\ user' = "handler"
    /\ UNCHANGED <<receivers, entry, counter, pc, events, cb, arrived, called, immdata>>

\* ImmCountMap::set_expected: the counter starts at zero.
SetExpected ==
    /\ user = "handler"
    /\ Unlocked
    /\ entry' = TRUE /\ counter' = 0
    /\ user' = "done"
    /\ UNCHANGED <<receivers, handler, pc, events, cb, arrived, called, immdata>>

----------------------------------------------------------------------------
(* Worker threads: a remote write with an immediate is read from the CQ.    *)

Receive(w) == w \in receivers /\ pc[w] = "idle" /\ arrived < MaxImms

\* Vacant: the immediate itself is passed on.
IncVacant(w) ==
    /\ Receive(w)
    /\ ~entry
    /\ arrived' = arrived + 1
    /\ events' = Append(events, "ImmData")
    /\ UNCHANGED <<receivers, entry, counter, handler, pc, cb, user, called, immdata>>

\* The test on the value fetch_add returned.
Reaches(prev) == prev + 1 = Expected

\* fetch_add(1).
IncAdd(w) ==
    /\ Receive(w)
    /\ entry
    /\ arrived' = arrived + 1
    /\ counter' = counter + 1
    /\ pc' = [pc EXCEPT ![w] = IF Reaches(counter) THEN "reached" ELSE "idle"]
    /\ UNCHANGED <<receivers, entry, handler, events, cb, user, called, immdata>>

\* Mutant: the counter is not taken back.
IncKeep(w) ==
    /\ pc[w] = "reached"
    /\ events' = Append(events, "ImmCountReached")
    /\ pc' = [pc EXCEPT ![w] = "idle"]
    /\ UNCHANGED <<receivers, entry, counter, handler, cb, user, arrived, called, immdata>>

\* Mutant: the callback thread is not told.
IncSubSilent(w) ==
    /\ pc[w] = "reached"
    /\ counter' = counter - Expected
    /\ pc' = [pc EXCEPT ![w] = "idle"]
    /\ UNCHANGED <<receivers, entry, handler, events, cb, user, arrived, called, immdata>>

\* fetch_sub(expected), the lock released, ImmCountReached sent.
IncSub(w) ==
    /\ pc[w] = "reached"
    /\ counter' = counter - Expected
    /\ events' = Append(events, "ImmCountReached")
    /\ pc' = [pc EXCEPT ![w] = "idle"]
    /\ UNCHANGED <<receivers, entry, handler, cb, user, arrived, called, immdata>>

----------------------------------------------------------------------------
(* The callback thread, handle_transfer_completion.                         *)

Event(e) == cb = "idle" /\ events # <<>> /\ Head(events) = e /\ events' = Tail(events)

OnImmData ==
    /\ Event("ImmData")
    /\ immdata' = immdata + 1
    /\ UNCHANGED <<receivers, entry, counter, handler, pc, cb, user, arrived, called>>

\* No handler is registered any more: nothing happens.
OnReachedUnhandled ==
    /\ Event("ImmCountReached")
    /\ handler = "none"
    /\ UNCHANGED <<receivers, entry, counter, handler, pc, cb, user, arrived, called, immdata>>

\* Once: the callback is removed and called; the map keeps its entry.
OnReachedOnce ==
    /\ Event("ImmCountReached")
    /\ handler = "once"
    /\ handler' = "none"
    /\ called' = called + 1
    /\ UNCHANGED <<receivers, entry, counter, pc, cb, user, arrived, immdata>>

\* Repeated: the callback says whether to go on.
OnReachedRepeated(again) ==
    /\ Event("ImmCountReached")
    /\ handler = "repeated"
    /\ called' = called + 1
    /\ handler' = IF again THEN handler ELSE "none"
    /\ cb' = IF again THEN "idle" ELSE "removing"
    /\ UNCHANGED <<receivers, entry, counter, pc, user, arrived, immdata>>

\* remove_imm_count and consume: what was counted beyond the last callback
\* goes to the ImmData callbacks.
RemoveImmCount ==
    /\ cb = "removing"
    /\ Unlocked
    /\ entry' = FALSE
    /\ counter' = 0
    /\ immdata' = immdata + counter
    /\ cb' = "idle"
    /\ UNCHANGED <<receivers, handler, pc, events, user, arrived, called>>

----------------------------------------------------------------------------

Quiet == Unlocked /\ events = <<>> /\ cb = "idle" /\ user = "done"

\* All immediates have arrived and been dealt with: the threads stay idle.
AllHandled == arrived = MaxImms /\ Quiet /\ UNCHANGED vars

Next ==
    \/ \E kind \in {"once", "repeated"} : InsertHandler(kind)
    \/ SetExpected
    \/ \E w \in Workers : IncVacant(w) \/ IncAdd(w) \/ IncSub(w)
    \/ OnImmData
    \/ OnReachedUnhandled
    \/ OnReachedOnce
    \/ \E again \in BOOLEAN : OnReachedRepeated(again)
    \/ RemoveImmCount
    \/ AllHandled

Spec == Init /\ [][Next]_vars

----------------------------------------------------------------------------
(* Properties.                                                              *)

\* No immediate is delivered twice: what the count callback stands for and what
\* went to the ImmData callbacks never exceeds what arrived, however workers,
\* the callback thread and the removal of the counter interleave.
EachImmOnce == TypeOK /\ called * Expected + immdata <= arrived

\* "The counter has already been reset as soon as it reached the expected value.
\* The callback will be called again when reaching the expected value again":
\* outside of inc the counter is below the expected value.
CounterReset == Unlocked => counter < Expected

\* At rest, a callback that wants to go on has been called once for every full
\* count, if one GPU receives the immediate: what was not yet called for does
\* not make up another count.
CallbackPerCount ==
    Quiet /\ handler = "repeated" /\ (\E w \in Workers : receivers = {w}) =>
        arrived - immdata - called * Expected \in 0..(Expected - 1)

\* "Call ImmData callback if there are overflow counts": once a repeated
\* callback is done and the counter removed, every immediate beyond the counts
\* it was called for has reached the ImmData callbacks.
OverflowDelivered ==
    Quiet /\ called > 0 /\ ~entry => arrived = called * Expected + immdata

\* "Remove the counter from the engine": a handler that is gone has left no
\* counter behind that keeps swallowing immediates.
CounterGoneWithHandler == Quiet /\ handler = "none" => ~entry
============================================================================
