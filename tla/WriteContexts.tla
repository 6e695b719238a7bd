--------------------------- MODULE WriteContexts ---------------------------
(***************************************************************************)
(* The RDMA write path of one EFA domain (fabric-lib/src/efa/efa_domain.rs):*)
(* the life of a WriteOpContext from do_submit_write to the object pool.   *)
(*                                                                         *)
(* Two parties share a context.  The worker thread submits writes, posts   *)
(* their operations to the NIC and polls the completion queue; the NIC     *)
(* completes posted operations in any order, with or without an error.     *)
(* The NIC holds a raw pointer to the context in every operation it has    *)
(* not completed, and so does every completion the worker has not read.    *)
(*                                                                         *)
(* The worker's loop is cut at the iterations of its own loops: phase says *)
(* which of them it is in, and only the NIC moves in between.              *)
(***************************************************************************)
EXTENDS Integers, Sequences, FiniteSets

CONSTANTS
    Writes,     \* the writes ever submitted; each has a context of its own
    MaxOps,     \* bound: RDMA operations in one write
    PostBatch   \* max_submit of progress_rdma_write_ops (32 in the code)

ASSUME WriteContextsAssumption ==
    /\ MaxOps \in Nat \ {0}
    /\ PostBatch \in Nat \ {0}

VARIABLES
    alloc,          \* allocation of each write's context: "none", "live", "freed"
    total_ops, cnt_posted_ops, cnt_finished_ops,    \* its counters
    bad,            \* the writes whose context has `bad` set
    in_queue,       \* the writes whose context has `in_queue` set
    write_ops,      \* the queue of contexts with operations left to post
    flight,         \* operations of each write the NIC is working on
    good, failed,   \* unread completions of each write
    completions,    \* what was pushed to `completions` for each write, in order
    phase           \* where the worker thread is in worker_step

nic  == <<flight, good, failed>>
vars == <<alloc, total_ops, cnt_posted_ops, cnt_finished_ops, bad, in_queue,
          write_ops, nic, completions, phase>>

Reports == {"Transfer", "Error"}
Count   == 0..MaxOps

TypeOK ==
    /\ alloc \in [Writes -> {"none", "live", "freed"}]
    /\ total_ops \in [Writes -> Count]
    /\ cnt_posted_ops \in [Writes -> Count] /\ cnt_finished_ops \in [Writes -> Count]
    /\ bad \in SUBSET Writes /\ in_queue \in SUBSET Writes
    /\ write_ops \in Seq(Writes)
    /\ flight \in [Writes -> Count]
    /\ good \in [Writes -> Count] /\ failed \in [Writes -> Count]
    /\ completions \in [Writes -> Seq(Reports)]
    /\ phase \in {"command", "progress", "poll"}

Zero == [w \in Writes |-> 0]

Init ==
    /\ alloc = [w \in Writes |-> "none"]
    /\ total_ops = Zero /\ cnt_posted_ops = Zero /\ cnt_finished_ops = Zero
    /\ bad = {} /\ in_queue = {}
    /\ write_ops = <<>>
    /\ flight = Zero /\ good = Zero /\ failed = Zero
    /\ completions = [w \in Writes |-> <<>>]
    /\ phase = "command"

----------------------------------------------------------------------------
(* Posting and dropping.                                                    *)

\* Operations the provider has accepted and whose completion is unread.
Outstanding == \E w \in Writes : flight[w] + good[w] + failed[w] > 0

\* How many of the operations left one call of progress_rdma_write_op_context
\* may post: up to max_submit, fewer when the provider answers EAGAIN, which it
\* does only while it holds operations.  (Neither caller passes a bad context.)
PostedBy(left, max_submit) ==
    LET limit == IF left < max_submit THEN left ELSE max_submit
    IN  {k \in 0..limit : k = limit \/ k > 0 \/ Outstanding}

\* Mutant: a context is dropped although the queue points to it.
MaybeDropQueued(w, finished, queued) ==
    alloc' = [alloc EXCEPT ![w] = IF finished = cnt_posted_ops[w] THEN "freed" ELSE @]

\* maybe_drop_write_op_context: back to the pool when every posted operation
\* has finished and the queue holds no pointer to the context.
MaybeDrop(w, finished, queued) ==
    alloc' = [alloc EXCEPT ![w] =
        IF finished = cnt_posted_ops[w] /\ w \notin queued THEN "freed" ELSE @]

----------------------------------------------------------------------------
(* The worker thread.                                                       *)

\* do_submit_write: a fresh context, one operation posted eagerly, and the
\* rest left to the queue.
SubmitWrite(w, n) ==
    /\ phase = "command"
    /\ alloc[w] = "none"
    /\ alloc' = [alloc EXCEPT ![w] = "live"]
    /\ total_ops' = [total_ops EXCEPT ![w] = n]
    /\ \E k \in PostedBy(n, 1) :
        /\ cnt_posted_ops' = [cnt_posted_ops EXCEPT ![w] = k]
        /\ flight' = [flight EXCEPT ![w] = k]
        /\ in_queue' = IF k # n THEN in_queue \cup {w} ELSE in_queue
        /\ write_ops' = IF k # n THEN Append(write_ops, w) ELSE write_ops
    /\ phase' = "progress"
    /\ UNCHANGED <<cnt_finished_ops, bad, good, failed, completions>>

\* The command channel is empty.
NoCommand ==
    /\ phase = "command"
    /\ phase' = "progress"
    /\ UNCHANGED <<alloc, total_ops, cnt_posted_ops, cnt_finished_ops, bad, in_queue,
                   write_ops, nic, completions>>

\* progress_rdma_write_ops, an iteration that meets a bad context: out of the
\* queue, and dropped when nothing it posted is outstanding.
UnqueueBad ==
    /\ phase = "progress"
    /\ write_ops # <<>>
    /\ LET w == Head(write_ops) IN
        /\ w \in bad
        /\ in_queue' = in_queue \ {w}
        /\ MaybeDrop(w, cnt_finished_ops[w], in_queue \ {w})
    /\ write_ops' = Tail(write_ops)
    /\ UNCHANGED <<total_ops, cnt_posted_ops, cnt_finished_ops, bad, nic,
                   completions, phase>>

\* Mutant: the context leaves the queue after one round of posting.
PostQueuedOnce ==
    /\ phase = "progress"
    /\ write_ops # <<>>
    /\ LET w == Head(write_ops) IN
        /\ w \notin bad
        /\ \E k \in PostedBy(total_ops[w] - cnt_posted_ops[w], PostBatch) :
            /\ cnt_posted_ops' = [cnt_posted_ops EXCEPT ![w] = @ + k]
            /\ flight' = [flight EXCEPT ![w] = @ + k]
    /\ write_ops' = Tail(write_ops)
    /\ UNCHANGED <<alloc, total_ops, cnt_finished_ops, bad, in_queue, good, failed,
                   completions, phase>>

\* progress_rdma_write_ops, an iteration that posts.  The context leaves the
\* queue once everything is posted (in_queue keeps its value); otherwise the
\* loop stops until the next step.
PostQueued ==
    /\ phase = "progress"
    /\ write_ops # <<>>
    /\ LET w == Head(write_ops) IN
        /\ w \notin bad
        /\ \E k \in PostedBy(total_ops[w] - cnt_posted_ops[w], PostBatch) :
            LET all == cnt_posted_ops[w] + k = total_ops[w] IN
            /\ cnt_posted_ops' = [cnt_posted_ops EXCEPT ![w] = @ + k]
            /\ flight' = [flight EXCEPT ![w] = @ + k]
            /\ write_ops' = IF all THEN Tail(write_ops) ELSE write_ops
            /\ phase' = IF all THEN phase ELSE "poll"
    /\ UNCHANGED <<alloc, total_ops, cnt_finished_ops, bad, in_queue, good, failed,
                   completions>>

\* The queue of writes is empty: on to poll_cq.
ProgressDone ==
    /\ phase = "progress"
    /\ write_ops = <<>>
    /\ phase' = "poll"
    /\ UNCHANGED <<alloc, total_ops, cnt_posted_ops, cnt_finished_ops, bad, in_queue,
                   write_ops, nic, completions>>

\* Mutant: the write is reported once what was posted so far has finished.
IsLastPosted(w) == cnt_finished_ops[w] + 1 >= cnt_posted_ops[w]

\* The completion being read is that of the write's last operation.
IsLast(w) == cnt_finished_ops[w] + 1 >= total_ops[w]

\* poll_cq reads a good FI_WRITE completion: the last one of all the write's
\* operations drops the context and reports the transfer, the others only
\* count.
HandleWriteCqe(w) ==
    /\ phase = "poll"
    /\ good[w] > 0
    /\ good' = [good EXCEPT ![w] = @ - 1]
    /\ cnt_finished_ops' = [cnt_finished_ops EXCEPT ![w] = @ + 1]
    /\ IF IsLast(w)
       THEN /\ MaybeDrop(w, cnt_finished_ops[w] + 1, in_queue)
            /\ completions' = [completions EXCEPT ![w] = Append(@, "Transfer")]
       ELSE UNCHANGED <<alloc, completions>>
    /\ UNCHANGED <<total_ops, cnt_posted_ops, bad, in_queue, write_ops, flight,
                   failed, phase>>

\* poll_cq reads a failed completion of a write: the context turns bad, the
\* first failure is reported, and poll_cq returns.
HandleWriteError(w) ==
    /\ phase = "poll"
    /\ failed[w] > 0
    /\ failed' = [failed EXCEPT ![w] = @ - 1]
    /\ cnt_finished_ops' = [cnt_finished_ops EXCEPT ![w] = @ + 1]
    /\ completions' = IF w \in bad THEN completions
                      ELSE [completions EXCEPT ![w] = Append(@, "Error")]
    /\ bad' = bad \cup {w}
    /\ MaybeDrop(w, cnt_finished_ops[w] + 1, in_queue)
    /\ phase' = "command"
    /\ UNCHANGED <<total_ops, cnt_posted_ops, in_queue, write_ops, flight, good>>

\* fi_cq_read answers EAGAIN: nothing is left to read.
PollDone ==
    /\ phase = "poll"
    /\ \A w \in Writes : good[w] + failed[w] = 0
    /\ phase' = "command"
    /\ UNCHANGED <<alloc, total_ops, cnt_posted_ops, cnt_finished_ops, bad, in_queue,
                   write_ops, nic, completions>>

----------------------------------------------------------------------------
(* The NIC.                                                                 *)

\* The provider completes one operation of w, well or with an error.
NicComplete(w) ==
    /\ flight[w] > 0
    /\ flight' = [flight EXCEPT ![w] = @ - 1]
    /\ \/ good' = [good EXCEPT ![w] = @ + 1] /\ UNCHANGED failed
       \/ failed' = [failed EXCEPT ![w] = @ + 1] /\ UNCHANGED good
    /\ UNCHANGED <<alloc, total_ops, cnt_posted_ops, cnt_finished_ops, bad, in_queue,
                   write_ops, completions, phase>>

Nic == \E w \in Writes : NicComplete(w)

Worker ==
    \/ \E w \in Writes, n \in 1..MaxOps : SubmitWrite(w, n)
    \/ NoCommand
    \/ UnqueueBad
    \/ PostQueued
    \/ ProgressDone
    \/ \E w \in Writes : HandleWriteCqe(w) \/ HandleWriteError(w)
    \/ PollDone

Next == Worker \/ Nic

\* The worker thread loops for ever and a posted operation completes.
Spec == Init /\ [][Next]_vars /\ WF_vars(Worker) /\ WF_vars(Nic)

----------------------------------------------------------------------------
(* Properties.                                                              *)

Queued(w) == \E i \in 1..Len(write_ops) : write_ops[i] = w

\* No pointer to a context outlives it: a context in the queue, one with an
\* operation on the NIC and one with an unread completion are all still
\* allocated, so neither progress_rdma_write_ops nor poll_cq ever reads memory
\* that maybe_drop_write_op_context gave back to the pool.
NoUseAfterFree ==
    \A w \in Writes :
        \/ Queued(w)
        \/ flight[w] > 0
        \/ good[w] + failed[w] > 0
        => alloc[w] = "live"

\* The assertion of progress_rdma_write_ops, and what its message claims: a
\* context in the queue is there once and has more operations to post.
QueueHasMoreToPost ==
    /\ \A i, j \in 1..Len(write_ops) : write_ops[i] = write_ops[j] => i = j
    /\ \A w \in Writes : Queued(w) =>
        /\ w \in in_queue
        /\ cnt_finished_ops[w] <= cnt_posted_ops[w]
        /\ cnt_posted_ops[w] < total_ops[w]

\* The caller hears of a write at most once as an error and at most once as a
\* transfer, and never of an error after the transfer.
ReportedOnce ==
    \A w \in Writes : completions[w] \in
        {<<>>, <<"Transfer">>, <<"Error">>, <<"Error", "Transfer">>}

\* A write reported as a transfer has all of its operations behind it: none is
\* left to post and the NIC no longer touches its buffers.
TransferMeansFinished ==
    \A w \in Writes :
        (\E i \in 1..Len(completions[w]) : completions[w][i] = "Transfer") =>
            /\ cnt_finished_ops[w] = total_ops[w]
            /\ flight[w] = 0
            /\ good[w] + failed[w] = 0

\* "No more write ops will be posted" once a completion failed.
NoPostAfterError ==
    [][\A w \in bad : cnt_posted_ops'[w] = cnt_posted_ops[w]]_vars

\* What the DomainGroup has heard of a write.
ReportOf(w) ==
    IF alloc[w] = "none"                       THEN "idle"
    ELSE IF completions[w] = <<>>              THEN "active"
    ELSE IF completions[w] = <<"Transfer">>    THEN "done"
    ELSE IF completions[w] = <<"Error">>       THEN "failed"
    ELSE "failed_done"

Abstract == INSTANCE WriteReporting WITH report <- [w \in Writes |-> ReportOf(w)]

\* The EFA domain keeps the promise of WriteReporting: a write is reported once,
\* with an error possibly followed by a late transfer, and every submitted
\* write is reported in the end, whatever the NIC refuses or fails.
ImplementsWriteReporting == Abstract!Spec

\* The comment on WriteOpContext::bad: once cnt_finished_ops catches up with
\* cnt_posted_ops, a bad context is dropped.
BadContextDropped ==
    \A w \in Writes :
        (w \in bad /\ cnt_finished_ops[w] = cnt_posted_ops[w]) ~> alloc[w] = "freed"

\* Case 1 of maybe_drop_write_op_context: a write whose operations all
\* completed successfully gives its context back.
FinishedContextDropped ==
    \A w \in Writes :
        (completions[w] = <<"Transfer">>) ~> alloc[w] = "freed"
============================================================================
