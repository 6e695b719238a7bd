---------------------------- MODULE VerbsWrites ----------------------------
(***************************************************************************)
(* The RDMA write path of one Verbs domain                                 *)
(* (fabric-lib/src/verbs/verbs_domain.rs), over reliable connected queue   *)
(* pairs.  It differs from the EFA one in four ways: a write posts all it  *)
(* can when it is submitted; the operations of one queue pair complete in  *)
(* order, and behind the first failure all of them fail (the pair is in    *)
(* the error state); poll_cq reads on after a failure; and a step polls    *)
(* before it posts.                                                        *)
(*                                                                         *)
(* Contexts live in the slots of an ObjectPool (utils/obj_pool.rs), which  *)
(* gives the slot freed last to the next write: a pointer that outlives    *)
(* its context would meet the context of another write.  The work request  *)
(* buffer of a context comes from a second pool, allocated and freed       *)
(* together with it.                                                       *)
(***************************************************************************)
EXTENDS Integers, Sequences, FiniteSets

CONSTANTS
    Writes,     \* the writes ever submitted, by their TransferIds
    Peers,      \* the connected queue pairs
    MaxOps,     \* bound: operations of one write
    Depth,      \* send queue entries of a queue pair
    MaxBroken   \* bound: queue pairs that break

ASSUME VerbsWritesAssumption ==
    /\ Writes \subseteq Nat /\ IsFiniteSet(Writes)
    /\ MaxOps \in Nat \ {0} /\ Depth \in Nat \ {0} /\ MaxBroken \in Nat

VARIABLES
    ctx,            \* the contexts, by slot of the pool; freed ones keep their values
    free_list,      \* slots given back, the last freed at the end
    next_slot,      \* next_in_last: the first slot never used
    write_ops,      \* queue of contexts with operations left to post
    sq,             \* operations on the NIC, for each queue pair in order
    broken,         \* queue pairs in the error state
    cq,             \* unread completions
    completions,    \* what was pushed to `completions` for each write
    phase           \* where the worker thread is in worker_step

pool == <<free_list, next_slot>>
nic  == <<sq, broken, cq>>
vars == <<ctx, pool, write_ops, nic, completions, phase>>

Slots == 1..Cardinality(Writes)

\* Where the operations of a write go: a single or paged write to one peer, a
\* scatter to different ones.
Shapes ==
    LET seqs == UNION {[1..n -> Peers] : n \in 1..MaxOps} IN
    {s \in seqs : \/ \A i, j \in DOMAIN s : s[i] = s[j]
                  \/ \A i, j \in DOMAIN s : s[i] = s[j] => i = j}

Context == [write : Writes, qps : Shapes, posted : 0..MaxOps, finished : 0..MaxOps,
            in_queue : BOOLEAN, bad : BOOLEAN]

\* An operation or a completion carries the pointer to its context (the slot);
\* `of` is the write it was posted for.
Operation == [slot : Slots, of : Writes]

TypeOK ==
    /\ \A s \in DOMAIN ctx : ctx[s] \in Context
    /\ free_list \in Seq(Slots) /\ next_slot \in 1..Cardinality(Writes) + 1
    /\ DOMAIN ctx = 1..next_slot - 1
    /\ write_ops \in Seq(Slots)
    /\ \A q \in Peers : sq[q] \in Seq(Operation)
    /\ broken \subseteq Peers
    /\ \A i \in DOMAIN cq : cq[i].of \in Writes
    /\ completions \in [Writes -> Seq({"Transfer", "Error"})]
    /\ phase \in {"command", "poll", "progress"}

Init ==
    /\ ctx = <<>> /\ free_list = <<>> /\ next_slot = 1
    /\ write_ops = <<>>
    /\ sq = [q \in Peers |-> <<>>] /\ broken = {} /\ cq = <<>>
    /\ completions = [w \in Writes |-> <<>>]
    /\ phase = "command"

Total(c) == Len(c.qps)

\* TransferIds are handed out in the order of the submissions.
Submitted(w) == completions[w] # <<>> \/ \E s \in DOMAIN ctx : ctx[s].write = w

----------------------------------------------------------------------------
(* The pool.                                                                *)

\* alloc_uninit: the slot freed last, or else the next new one.
AllocSlot == IF free_list # <<>> THEN free_list[Len(free_list)] ELSE next_slot

Alloc ==
    IF free_list # <<>>
    THEN free_list' = SubSeq(free_list, 1, Len(free_list) - 1) /\ UNCHANGED next_slot
    ELSE next_slot' = next_slot + 1 /\ UNCHANGED free_list

\* Mutant: a context in the queue is dropped.
MaybeDropQueued(s, c) ==
    /\ free_list' = IF c.finished = c.posted THEN Append(free_list, s) ELSE free_list
    /\ UNCHANGED next_slot

\* maybe_drop_write_op_context of the context that is now c.
MaybeDrop(s, c) ==
    /\ free_list' = IF c.finished = c.posted /\ ~c.in_queue
                    THEN Append(free_list, s) ELSE free_list
    /\ UNCHANGED next_slot

----------------------------------------------------------------------------
(* Posting.                                                                 *)

\* Entries of q's send queue that are taken until their completion is read.
Used(q) == Len(sq[q]) + Cardinality({i \in DOMAIN cq : cq[i].qp = q})

\* How many operations of c progress_rdma_write_op_context posts: all that are
\* left, or those before the first whose queue pair is full (ENOMEM).
Fits(c, k) == \A q \in Peers :
    Cardinality({i \in c.posted + 1..c.posted + k : c.qps[i] = q}) <= Depth - Used(q)

\* Mutant: a write that does not fit as a whole is not posted.
NumPostedAllOrNone(c) ==
    IF Fits(c, Total(c) - c.posted) THEN Total(c) - c.posted ELSE 0

NumPosted(c) ==
    CHOOSE k \in 0..Total(c) - c.posted :
        Fits(c, k) /\ \A j \in 0..Total(c) - c.posted : Fits(c, j) => j <= k

\* The send queues after the first n operations left of c, at slot s, are posted.
SqAfter(s, c, n) ==
    [q \in Peers |->
        LET here == {i \in c.posted + 1..c.posted + n : c.qps[i] = q}
        IN  sq[q] \o [i \in 1..Cardinality(here) |-> [slot |-> s, of |-> c.write]]]

----------------------------------------------------------------------------
(* The worker thread.                                                       *)

\* do_submit_write: a fresh context that posts what it can at once, and queues
\* for the rest.
SubmitWrite(w, qps) ==
    /\ phase = "command"
    /\ ~Submitted(w) /\ \A v \in Writes : v < w => Submitted(v)
    /\ LET s    == AllocSlot
           c    == [write |-> w, qps |-> qps, posted |-> 0, finished |-> 0,
                    in_queue |-> FALSE, bad |-> FALSE]
           k    == NumPosted(c)
           left == k # Len(qps)
           new  == [c EXCEPT !.posted = k, !.in_queue = left]
       IN  /\ Alloc
           /\ ctx' = [t \in DOMAIN ctx \cup {s} |-> IF t = s THEN new ELSE ctx[t]]
           /\ sq' = SqAfter(s, c, k)
           /\ write_ops' = IF left THEN Append(write_ops, s) ELSE write_ops
    /\ phase' = "poll"
    /\ UNCHANGED <<broken, cq, completions>>

\* The command channel is empty.
NoCommand ==
    /\ phase = "command"
    /\ phase' = "poll"
    /\ UNCHANGED <<ctx, pool, write_ops, nic, completions>>

Report(w, entry) == completions' = [completions EXCEPT ![w] = Append(@, entry)]

\* Mutant: a transfer is over when all that was posted has finished.
IsLastPosted(c) == c.finished >= c.posted

\* The completion just counted is that of the last operation.
IsLast(c) == c.finished >= Total(c)

\* poll_cq reads the completion of a write that went well.
HandleWriteCqe ==
    /\ phase = "poll" /\ cq # <<>> /\ Head(cq).ok
    /\ cq' = Tail(cq)
    /\ LET s == Head(cq).slot
           c == [ctx[s] EXCEPT !.finished = @ + 1]
       IN  /\ ctx' = [ctx EXCEPT ![s] = c]
           /\ IF IsLast(c)
              THEN MaybeDrop(s, c) /\ Report(c.write, "Transfer")
              ELSE UNCHANGED <<pool, completions>>
    /\ UNCHANGED <<write_ops, sq, broken, phase>>

\* poll_cq reads that of one that failed: the first failure turns the context
\* bad and is reported.
HandleWriteError ==
    /\ phase = "poll" /\ cq # <<>> /\ ~Head(cq).ok
    /\ cq' = Tail(cq)
    /\ LET s == Head(cq).slot
           c == [ctx[s] EXCEPT !.finished = @ + 1, !.bad = TRUE]
       IN  /\ ctx' = [ctx EXCEPT ![s] = c]
           /\ IF ctx[s].bad THEN UNCHANGED completions ELSE Report(c.write, "Error")
           /\ MaybeDrop(s, c)
    /\ UNCHANGED <<write_ops, sq, broken, phase>>

\* ibv_poll_cq returns 0.
PollDone ==
    /\ phase = "poll" /\ cq = <<>>
    /\ phase' = "progress"
    /\ UNCHANGED <<ctx, pool, write_ops, nic, completions>>

\* progress_rdma_write_ops meets a bad context.
UnqueueBad ==
    /\ phase = "progress" /\ write_ops # <<>>
    /\ LET s == Head(write_ops)
           c == [ctx[s] EXCEPT !.in_queue = FALSE]
       IN  /\ ctx[s].bad
           /\ ctx' = [ctx EXCEPT ![s] = c]
           /\ MaybeDrop(s, c)
    /\ write_ops' = Tail(write_ops)
    /\ UNCHANGED <<nic, completions, phase>>

\* progress_rdma_write_ops posts.  A context that is posted in full leaves the
\* queue and keeps in_queue; otherwise the loop breaks until the next step.
PostQueued ==
    /\ phase = "progress" /\ write_ops # <<>>
    /\ LET s == Head(write_ops)
           c == ctx[s]
           k == NumPosted(c)
           all == c.posted + k = Total(c)
       IN  /\ ~c.bad
           /\ ctx' = [ctx EXCEPT ![s].posted = @ + k]
           /\ sq' = SqAfter(s, c, k)
           /\ write_ops' = IF all THEN Tail(write_ops) ELSE write_ops
           /\ phase' = IF all THEN phase ELSE "command"
    /\ UNCHANGED <<pool, broken, cq, completions>>

\* The queue is empty: the step is over.
ProgressDone ==
    /\ phase = "progress" /\ write_ops = <<>>
    /\ phase' = "command"
    /\ UNCHANGED <<ctx, pool, write_ops, nic, completions>>

----------------------------------------------------------------------------
(* The NIC.                                                                 *)

\* The first operation of q completes.  A failure breaks q, and flushes with an
\* error what is posted to it.
NicComplete(q) ==
    /\ sq[q] # <<>>
    /\ sq' = [sq EXCEPT ![q] = Tail(@)]
    /\ \E ok \in BOOLEAN :
        /\ IF q \in broken THEN ~ok ELSE ok \/ Cardinality(broken) < MaxBroken
        /\ cq' = Append(cq, [slot |-> Head(sq[q]).slot, of |-> Head(sq[q]).of,
                             qp |-> q, ok |-> ok])
        /\ broken' = IF ok THEN broken ELSE broken \cup {q}
    /\ UNCHANGED <<ctx, pool, write_ops, completions, phase>>

Nic == \E q \in Peers : NicComplete(q)

Worker ==
    \/ \E w \in Writes, qps \in Shapes : SubmitWrite(w, qps)
    \/ NoCommand
    \/ HandleWriteCqe
    \/ HandleWriteError
    \/ PollDone
    \/ UnqueueBad
    \/ PostQueued
    \/ ProgressDone

Next == Worker \/ Nic

\* The worker thread loops for ever; a posted operation completes, if only by
\* the retry limit (the pair's timeout and retry_cnt).
Spec == Init /\ [][Next]_vars /\ WF_vars(Worker) /\ \A q \in Peers : WF_vars(NicComplete(q))

----------------------------------------------------------------------------
(* Properties.                                                              *)

\* Allocated slots: used before and not in the free list.
Live == {s \in 1..next_slot - 1 : \A i \in DOMAIN free_list : free_list[i] # s}

\* Each pointer to a context (in the queue, in a work request on the NIC, in
\* the wr_id of an unread completion) meets the context of the write it was
\* made for: the pool never hands out a slot that is still pointed to, and no
\* slot is freed twice.  With a slot reused too early the completions of one
\* transfer would be counted for another.
PointersOwned ==
    /\ TypeOK
    /\ \A i \in DOMAIN write_ops : write_ops[i] \in Live
    /\ \A q \in Peers : \A i \in DOMAIN sq[q] :
        sq[q][i].slot \in Live /\ ctx[sq[q][i].slot].write = sq[q][i].of
    /\ \A i \in DOMAIN cq : cq[i].slot \in Live /\ ctx[cq[i].slot].write = cq[i].of
    /\ \A i, j \in DOMAIN free_list : free_list[i] = free_list[j] => i = j

OnNic(w, q) == {i \in DOMAIN sq[q] : sq[q][i].of = w}

\* When the application hears that a write is done none of its operations is
\* with the NIC or waits in the queue, and when it hears of a failure alone
\* nothing more of the write is posted: it may reuse the source once the posted
\* operations are flushed.
ReportMeansOver ==
    [][\A w \in Writes :
        /\ "Transfer" \in {completions[w][i] : i \in DOMAIN completions[w]} =>
                /\ \A q \in Peers : OnNic(w, q) = {}
                /\ \A i \in DOMAIN write_ops : ctx[write_ops[i]].write # w
        /\ completions[w] # <<>> => \A q \in Peers :
                Cardinality(OnNic(w, q)') <= Cardinality(OnNic(w, q))]_vars

ReportOf(w) == CASE ~Submitted(w)                        -> "idle"
                 [] Submitted(w) /\ completions[w] = <<>> -> "active"
                 [] completions[w] = <<"Transfer">>      -> "done"
                 [] completions[w] = <<"Error">>         -> "failed"
                 [] completions[w] = <<"Error", "Transfer">> -> "failed_done"
                 [] OTHER                                -> "reported again"

Abstract == INSTANCE WriteReporting WITH report <- [w \in Writes |-> ReportOf(w)]

\* The Verbs domain keeps the promise the EFA domain keeps: every write is
\* reported, once, a transfer or an error, although pairs break, flush what
\* other writes posted to them, and refuse work when they are full.
ImplementsWriteReporting == Abstract!Spec

\* "Once cnt_finished_ops catches up with cnt_posted_ops, the context will be
\* dropped", of a bad context.
BadContextDropped ==
    \A s \in Slots : (/\ s \in Live /\ ctx[s].bad
                      /\ ctx[s].finished = ctx[s].posted) ~> s \notin Live

\* Case 1 of maybe_drop_write_op_context: "All ops completed successfully. Drop
\* from poll_cq when last op is completed."
FinishedContextDropped ==
    \A s \in DOMAIN ctx :
        ctx[s].finished = Total(ctx[s]) => s \notin Live

\* "Try to eagerly post if currently there's no pending write ops."
EagerOnlyWhenIdle ==
    [][phase = "command" /\ write_ops # <<>> =>
        \A q \in Peers : Len(sq'[q]) <= Len(sq[q])]_vars
============================================================================
