------------------------------ MODULE AllToAll ------------------------------
(***************************************************************************)
(* Rounds of the all-to-all: on every rank the host worker                 *)
(* (WorkerState::step, p2p-all-to-all/src/a2a_worker.rs), the stream of     *)
(* kernels it shares GDR flags with (p2p-all-to-all/a2a-kernels), and the   *)
(* RDMA writes with immediates between ranks.                              *)
(*                                                                         *)
(* Writes are delivered in any order.  A write reads its source buffer at   *)
(* any time up to its delivery, and its transfer counts as complete at the  *)
(* sender some time after that.  A kernel is one or two steps, between the  *)
(* flags it waits for and those it sets; the NVLink traffic inside a node   *)
(* is not modelled.  ImmCounter::wait is one step, see WaitCounter.         *)
(***************************************************************************)
EXTENDS RoutingPlan, Sequences

CONSTANTS
    World, Nets,
    NodeSizes,  \* the node sizes to consider
    MaxRounds,  \* bound: rounds before the ranks stop
    MaxOverflow \* bound: ranks to which one rank overflows in a round

ASSUME AllToAllAssumption ==
    /\ World \in Nat \ {0, 1}
    /\ NodeSizes \subseteq {n \in 1..World : World % n = 0}
    /\ Nets \in Nat \ {0} /\ MaxRounds \in Nat \ {0} /\ MaxOverflow \in Nat

VARIABLES
    node_size,  \* ranks per node
    host,       \* program counter of each host worker
    round,      \* the round each host worker is in
    gpu,        \* position of each rank's kernel stream
    gpu_round,  \* the round its kernels are in
    flags,      \* the GDR flags that are set, by rank
    counter,    \* immediate counters and the tx counter, by rank
    num_routed, \* routing table of each rank, by group
    send_buffer,\* what the send buffer holds: <<stage, round>>
    landed,     \* payload writes landed in the recv buffer, not yet consumed
    wire,       \* writes submitted and not delivered
    open,       \* number of transfers not yet counted as complete, by sender
    stopped     \* ranks whose stop flag is set

vars == <<node_size, host, round, gpu, gpu_round, flags, counter, num_routed, send_buffer,
          landed, wire, open, stopped>>

\* One rank per data-parallel group.
Shape == [world |-> World, node |-> node_size, dp |-> 1, nets |-> Nets]
Rank  == 0..(World - 1)

DoneFlags == {"dispatch_route_done", "dispatch_send_done", "dispatch_recv_done",
              "combine_send_done", "combine_recv_done"}
Flags == DoneFlags \cup {"num_recv_tokens_flag", "dispatch_recv_flag",
                         "combine_recv_flag", "tx_ready"}

HostSteps == <<"route", "send", "route_count", "dispatch", "dispatch_wait",
               "dispatch_recv", "dispatch_barrier", "dispatch_tx",
               "combine_send", "combine_count", "combine_recv",
               "combine_barrier", "combine_tx", "exited">>
GpuSteps  == <<"dispatch_send", "dispatch_copy", "dispatch_recv", "dispatch_read",
               "combine_send", "combine_end", "combine_recv", "finished">>

Kinds    == {"route", "private", "overflow", "combine", "dispatch_barrier", "combine_barrier"}
Payloads == {"private", "overflow", "combine"}
Counters == {"route", "dispatch", "combine", "dispatch_barrier", "combine_barrier", "tx"}

Writes    == [kind: Kinds, from: Rank, to: Rank, shard: 1..Nets, round: 1..MaxRounds]

TypeOK ==
    /\ node_size \in NodeSizes
    /\ host \in [Rank -> {HostSteps[i] : i \in 1..Len(HostSteps)}]
    /\ round \in [Rank -> 1..(MaxRounds + 1)]
    /\ gpu \in [Rank -> {GpuSteps[i] : i \in 1..Len(GpuSteps)}]
    /\ gpu_round \in [Rank -> 1..(MaxRounds + 1)]
    /\ flags \in [Rank -> SUBSET Flags]
    /\ counter \in [Rank -> [Counters -> Int]]
    /\ \A r \in Rank, c \in {"route", "dispatch_barrier", "combine_barrier"} :
            counter[r][c] \in 0..(World - 1)
    /\ num_routed \in [Rank -> [Rank -> SUBSET Rank]]
    /\ send_buffer \in [Rank -> {"dispatch", "combine", "none"} \X (0..MaxRounds)]
    /\ landed \in [Rank -> SUBSET Writes]
    /\ wire \in SUBSET Writes
    /\ open \in [Rank -> Nat]
    /\ stopped \in SUBSET Rank

Init ==
    /\ node_size \in NodeSizes
    /\ host = [r \in Rank |-> "route"] /\ round = [r \in Rank |-> 1]
    /\ gpu = [r \in Rank |-> "dispatch_send"] /\ gpu_round = [r \in Rank |-> 1]
    /\ flags = [r \in Rank |-> {"tx_ready"}]
    /\ counter = [r \in Rank |-> [c \in Counters |-> 0]]
    /\ num_routed = [r \in Rank |-> [g \in Rank |-> {}]]
    /\ send_buffer = [r \in Rank |-> <<"none", 0>>]
    /\ landed = [r \in Rank |-> {}]
    /\ wire = {} /\ open = [r \in Rank |-> 0] /\ stopped = {}

----------------------------------------------------------------------------
(* The network.                                                             *)

WritesTo(kind, r, targets, shards) ==
    {[kind |-> kind, from |-> r, to |-> p, shard |-> s, round |-> round[r]] :
        p \in targets, s \in 1..shards}

\* submit_transfer_atomic to targets.  The dispatch and combine scatters are
\* skipped when they have no target, and DomainGroup refuses an empty route
\* scatter without moving the tx counter.
Submit(kind, r, targets, shards) ==
    /\ wire' = wire \cup WritesTo(kind, r, targets, shards)
    /\ open' = IF targets = {} THEN open ELSE [open EXCEPT ![r] = @ + 1]

\* The immediate of a write arrives at its target: ImmCount::inc, after the
\* payload (or the sender's row of the routing table) is in place.
Deliver(m) ==
    LET r == m.to
        c == CASE m.kind \in {"private", "overflow"} -> "dispatch"
               [] OTHER                              -> m.kind
    IN  /\ wire' = wire \ {m}
        /\ counter' = [counter EXCEPT ![r][c] = @ + 1]
        /\ flags' = IF c = "dispatch" /\ counter[r][c] + 1 = 0
                    THEN [flags EXCEPT ![r] = @ \cup {"dispatch_recv_flag"}] ELSE flags
        /\ landed' = IF m.kind \in Payloads
                     THEN [landed EXCEPT ![r] = @ \cup {m}] ELSE landed
        /\ num_routed' = IF m.kind = "route"
                         THEN [num_routed EXCEPT ![r][m.from] = num_routed[m.from][m.from]]
                         ELSE num_routed
        /\ UNCHANGED <<host, round, gpu, gpu_round, send_buffer, open, stopped>>

\* The transfers of r with a write that has not been delivered.
Undelivered(r) == {<<m.kind, m.round>> : m \in {w \in wire : w.from = r}}

\* DomainGroup counts a transfer of r whose writes have all completed.
TransferDone(r) ==
    /\ open[r] > Cardinality(Undelivered(r))
    /\ open' = [open EXCEPT ![r] = @ - 1]
    /\ counter' = [counter EXCEPT ![r]["tx"] = @ + 1]
    /\ UNCHANGED <<host, round, gpu, gpu_round, flags, num_routed, send_buffer,
                   landed, wire, stopped>>

Network == /\ (\E m \in wire : Deliver(m)) \/ (\E r \in Rank : TransferDone(r))
           /\ UNCHANGED node_size

----------------------------------------------------------------------------
(* The kernels of rank r, in stream order.                                  *)

Kernel(r, from, to) == gpu[r] = from /\ gpu' = [gpu EXCEPT ![r] = to]

Flip(r, clear, set) == flags' = [flags EXCEPT ![r] = (@ \ clear) \cup set]

\* a2a_dispatch_send: the routing table is written and handed to the host.
DispatchSendRoute(r) ==
    /\ Kernel(r, "dispatch_send", "dispatch_copy")
    /\ \E S \in SUBSET RemoteRanks(Shape, r) :
            /\ Cardinality(S) <= MaxOverflow
            /\ num_routed' = [num_routed EXCEPT ![r][r] = S]
    /\ Flip(r, {}, {"dispatch_route_done"})
    /\ UNCHANGED <<host, round, gpu_round, counter, send_buffer, landed, wire, open, stopped>>

\* a2a_dispatch_send: once the send buffer is free, the tokens are copied to it.
DispatchSendCopy(r) ==
    /\ "tx_ready" \in flags[r]
    /\ Kernel(r, "dispatch_copy", "dispatch_recv")
    /\ send_buffer' = [send_buffer EXCEPT ![r] = <<"dispatch", gpu_round[r]>>]
    /\ Flip(r, {}, {"dispatch_send_done"})
    /\ UNCHANGED <<host, round, gpu_round, counter, num_routed, landed, wire, open, stopped>>

\* a2a_dispatch_recv waits for the token counts.
DispatchRecvStart(r) ==
    /\ "num_recv_tokens_flag" \in flags[r]
    /\ Kernel(r, "dispatch_recv", "dispatch_read")
    /\ UNCHANGED <<host, round, gpu_round, flags, counter, num_routed, send_buffer,
                   landed, wire, open, stopped>>

\* a2a_dispatch_recv reads the received tokens and clears its flags.
DispatchRecvRead(r) ==
    /\ "dispatch_recv_flag" \in flags[r]
    /\ Kernel(r, "dispatch_read", "combine_send")
    /\ Flip(r, {"num_recv_tokens_flag", "dispatch_recv_flag"}, {"dispatch_recv_done"})
    /\ landed' = [landed EXCEPT ![r] = {m \in @ : m.kind = "combine"}]
    /\ UNCHANGED <<host, round, gpu_round, counter, num_routed, send_buffer, wire, open, stopped>>

\* a2a_combine_send reuses the send buffer for the combined tokens.
CombineSend(r) ==
    /\ "tx_ready" \in flags[r]
    /\ Kernel(r, "combine_send", "combine_end")
    /\ send_buffer' = [send_buffer EXCEPT ![r] = <<"combine", gpu_round[r]>>]
    /\ Flip(r, {}, {"combine_send_done"})
    /\ UNCHANGED <<host, round, gpu_round, counter, num_routed, landed, wire, open, stopped>>

\* ... and takes tx_ready back when it ends.
CombineSendEnd(r) ==
    /\ Kernel(r, "combine_end", "combine_recv")
    /\ Flip(r, {"tx_ready"}, {})
    /\ UNCHANGED <<host, round, gpu_round, counter, num_routed, send_buffer, landed,
                   wire, open, stopped>>

\* a2a_combine_recv reads the combined tokens; the next round's kernels follow.
CombineRecv(r) ==
    /\ "combine_recv_flag" \in flags[r]
    /\ Kernel(r, "combine_recv", IF gpu_round[r] = MaxRounds THEN "finished" ELSE "dispatch_send")
    /\ gpu_round' = [gpu_round EXCEPT ![r] = @ + 1]
    /\ Flip(r, {"combine_recv_flag"}, {"combine_recv_done"})
    /\ landed' = [landed EXCEPT ![r] = {m \in @ : m.kind # "combine"}]
    /\ UNCHANGED <<host, round, counter, num_routed, send_buffer, wire, open, stopped>>

Gpu(r) ==
    /\ \/ DispatchSendRoute(r) \/ DispatchSendCopy(r)
       \/ DispatchRecvStart(r) \/ DispatchRecvRead(r)
       \/ CombineSend(r) \/ CombineSendEnd(r) \/ CombineRecv(r)
    /\ UNCHANGED node_size

----------------------------------------------------------------------------
(* The host worker of rank r: WorkerState::step.                            *)

Goto(r, from, to) == host[r] = from /\ host' = [host EXCEPT ![r] = to]

Others(r) == Rank \ {r}

\* The kernel's routing table is ready: exchange it, unless stopped.
Route(r) ==
    /\ "dispatch_route_done" \in flags[r]
    /\ Goto(r, "route", IF r \in stopped THEN "exited" ELSE "send")
    /\ Flip(r, {"dispatch_route_done"}, {})
    /\ IF r \in stopped THEN UNCHANGED <<wire, open>>
       ELSE Submit("route", r, RouteTargets(Shape, r), 1)
    /\ UNCHANGED <<round, gpu, gpu_round, counter, num_routed, send_buffer, landed, stopped>>

\* The tokens are in the send buffer: dispatch_initial_routes.
SendPrivate(r) ==
    /\ "dispatch_send_done" \in flags[r]
    /\ Goto(r, "send", IF r \in stopped THEN "exited" ELSE "route_count")
    /\ Flip(r, {"dispatch_send_done", "tx_ready"}, {})
    /\ IF r \in stopped THEN UNCHANGED <<wire, open>>
       ELSE Submit("private", r, PrivateTargets(Shape, r), 1)
    /\ UNCHANGED <<round, gpu, gpu_round, counter, num_routed, send_buffer, landed, stopped>>

Overflow(r) == OverflowTargets(Shape, r, num_routed[r])

\* ImmCounter::wait(n) on counter c.
WaitFor(r, c, n) ==
    /\ counter[r][c] >= n
    /\ counter' = [counter EXCEPT ![r][c] = @ - n]

\* route_counter.wait
RouteCount(r) ==
    /\ Goto(r, "route_count", "dispatch")
    /\ WaitFor(r, "route", RouteExpected(Shape))
    /\ UNCHANGED <<round, gpu, gpu_round, flags, num_routed, send_buffer, landed,
                   wire, open, stopped>>

\* process_routing_info, and the scatter of the tokens that overflow the
\* private buffers.
Dispatch(r) ==
    /\ Goto(r, "dispatch", "dispatch_wait")
    /\ Flip(r, {}, {"num_recv_tokens_flag"})
    /\ Submit("overflow", r, Overflow(r), Nets)
    /\ UNCHANGED <<round, gpu, gpu_round, counter, num_routed, send_buffer, landed, stopped>>

\* dispatch_counter.wait(num_recv_tx): GdrCounter::wait.
DispatchWait(r) ==
    LET n == NumRecvTx(Shape, r, num_routed[r]) IN
    /\ Goto(r, "dispatch_wait", "dispatch_recv")
    /\ counter' = [counter EXCEPT ![r]["dispatch"] = @ - n]
    /\ Flip(r, {}, IF counter[r]["dispatch"] >= n THEN {"dispatch_recv_flag"} ELSE {})
    /\ UNCHANGED <<round, gpu, gpu_round, num_routed, send_buffer, landed, wire, open, stopped>>

\* Mutant: the barrier does not wait for the dispatch kernel.
DispatchRecvEarly(r) ==
    /\ Goto(r, "dispatch_recv", "dispatch_barrier")
    /\ Flip(r, {"dispatch_recv_done"}, {})
    /\ Submit("dispatch_barrier", r, Others(r), 1)
    /\ UNCHANGED <<round, gpu, gpu_round, counter, num_routed, send_buffer, landed, stopped>>

\* The dispatch kernel is done: the barrier's immediates go out.
DispatchRecv(r) ==
    /\ "dispatch_recv_done" \in flags[r]
    /\ Goto(r, "dispatch_recv", "dispatch_barrier")
    /\ Flip(r, {"dispatch_recv_done"}, {})
    /\ Submit("dispatch_barrier", r, Others(r), 1)
    /\ UNCHANGED <<round, gpu, gpu_round, counter, num_routed, send_buffer, landed, stopped>>

\* num_dispatch_tx and num_combine_tx.
NumDispatchTx(r) == 1 + (IF PrivateTargets(Shape, r) = {} THEN 0 ELSE 1)
                      + (IF Overflow(r) = {} THEN 0 ELSE 1)
NumCombineTx == 1 + (IF World > node_size THEN 1 ELSE 0)

\* barrier: all peers' immediates are in; num_tx is taken off the tx counter.
BarrierPass(r, kind, to, num_tx) ==
    /\ Goto(r, kind, to)
    /\ counter[r][kind] >= World - 1
    /\ counter' = [counter EXCEPT ![r][kind] = @ - (World - 1), ![r]["tx"] = @ - num_tx]
    /\ UNCHANGED <<round, gpu, gpu_round, flags, num_routed, send_buffer, landed,
                   wire, open, stopped>>

\* barrier: the tx counter has settled, the send buffer is handed back.
DispatchTx(r) ==
    /\ Goto(r, "dispatch_tx", "combine_send")
    /\ counter[r]["tx"] >= 0
    /\ Flip(r, {}, {"tx_ready"})
    /\ UNCHANGED <<round, gpu, gpu_round, counter, num_routed, send_buffer, landed,
                   wire, open, stopped>>

\* The combine kernel filled the send buffer: send it to the remote ranks.
CombineScatter(r) ==
    /\ "combine_send_done" \in flags[r]
    /\ Goto(r, "combine_send", IF r \in stopped THEN "exited" ELSE "combine_count")
    /\ Flip(r, {"combine_send_done"}, {})
    /\ IF r \in stopped THEN UNCHANGED <<wire, open>>
       ELSE Submit("combine", r, CombineTargets(Shape, r), Nets)
    /\ UNCHANGED <<round, gpu, gpu_round, counter, num_routed, send_buffer, landed, stopped>>

\* combine_counter.wait, then the kernel is released.
CombineCount(r) ==
    /\ Goto(r, "combine_count", "combine_recv")
    /\ WaitFor(r, "combine", CombineExpected(Shape))
    /\ Flip(r, {}, {"combine_recv_flag"})
    /\ UNCHANGED <<round, gpu, gpu_round, num_routed, send_buffer, landed, wire, open, stopped>>

\* The combine kernel is done: the second barrier's immediates go out.
CombineDone(r) ==
    /\ "combine_recv_done" \in flags[r]
    /\ Goto(r, "combine_recv", "combine_barrier")
    /\ Flip(r, {"combine_recv_done"}, {})
    /\ Submit("combine_barrier", r, Others(r), 1)
    /\ UNCHANGED <<round, gpu, gpu_round, counter, num_routed, send_buffer, landed, stopped>>

\* The end of the second barrier and of the step; main_loop goes on unless
\* stopped.
CombineTx(r) ==
    /\ Goto(r, "combine_tx", IF r \in stopped THEN "exited" ELSE "route")
    /\ counter[r]["tx"] >= 0
    /\ Flip(r, {}, {"tx_ready"})
    /\ round' = [round EXCEPT ![r] = @ + 1]
    /\ UNCHANGED <<gpu, gpu_round, counter, num_routed, send_buffer, landed, wire, open, stopped>>

Host(r) ==
    /\ \/ Route(r) \/ SendPrivate(r) \/ RouteCount(r) \/ Dispatch(r) \/ DispatchWait(r)
       \/ DispatchRecv(r)
       \/ BarrierPass(r, "dispatch_barrier", "dispatch_tx", NumDispatchTx(r))
       \/ DispatchTx(r)
       \/ CombineScatter(r) \/ CombineCount(r) \/ CombineDone(r)
       \/ BarrierPass(r, "combine_barrier", "combine_tx", NumCombineTx)
       \/ CombineTx(r)
    /\ UNCHANGED node_size

\* Mutant: only the stop flag is set.
StopFlagOnly(r) ==
    /\ gpu[r] = "finished" /\ r \notin stopped
    /\ stopped' = stopped \cup {r}
    /\ UNCHANGED <<node_size, host, round, gpu, gpu_round, flags, counter, num_routed,
                   send_buffer, landed, wire, open>>

\* AllToAllContext::destroy after the last round: stop sets the flag and then
\* every flag the worker may be waiting for.
Stop(r) ==
    /\ gpu[r] = "finished" /\ r \notin stopped
    /\ stopped' = stopped \cup {r}
    /\ Flip(r, {}, DoneFlags)
    /\ UNCHANGED <<node_size, host, round, gpu, gpu_round, counter, num_routed, send_buffer,
                   landed, wire, open>>

\* Every worker thread has been joined.
Joined == \A r \in Rank : host[r] = "exited"
Terminated == Joined /\ wire = {} /\ (\A r \in Rank : open[r] = 0) /\ UNCHANGED vars

Next ==
    \/ Network
    \/ \E r \in Rank : Host(r) \/ Gpu(r) \/ Stop(r)
    \/ Terminated

\* Threads, kernels and the network make progress, and the application
\* destroys its context after the last round.
Spec == /\ Init /\ [][Next]_vars
        /\ WF_vars(Network)
        /\ \A r \in Rank : WF_vars(Host(r)) /\ WF_vars(Gpu(r)) /\ WF_vars(Stop(r))

----------------------------------------------------------------------------
(* Properties.                                                              *)

SourceOf(m) == <<IF m.kind = "combine" THEN "combine" ELSE "dispatch", m.round>>

\* A kernel never overwrites tokens that are still being sent: a payload write
\* that has not been delivered finds in the send buffer what it was submitted
\* for, and a routing message finds the table of its round.
SendBufferStable ==
    \A m \in wire :
        /\ m.kind \in Payloads => send_buffer[m.from] = SourceOf(m)
        /\ m.kind = "route" =>
              gpu_round[m.from] = m.round /\ gpu[m.from] # "dispatch_send"

GpuPast(r, step, k) ==
    \/ gpu_round[r] > k
    \/ /\ gpu_round[r] = k
       /\ \E i, j \in 1..Len(GpuSteps) :
            i < j /\ GpuSteps[i] = step /\ GpuSteps[j] = gpu[r]

\* A write never lands on tokens the target's kernels have yet to read: combine
\* writes are sent only once the target has read its dispatched tokens, and
\* dispatch writes only once it has read the combined tokens of the round before.
RecvBufferFree ==
    \A m \in wire :
        /\ m.kind = "combine" => GpuPast(m.to, "dispatch_read", m.round)
        /\ m.kind \in {"private", "overflow"} => gpu_round[m.to] >= m.round

\* Both: no buffer is written while somebody still needs what is in it
\* (a2a_worker.rs:445 and :855).
BuffersKept == SendBufferStable /\ RecvBufferFree

Payload(kinds, r, k) == {m \in landed[r] : m.kind \in kinds /\ m.round = k}

\* The payload writes rank r is owed in round k.
DispatchOwed(r, k) ==
    {[kind |-> "private", from |-> p, to |-> r, shard |-> 1, round |-> k] :
        p \in RemoteRanks(Shape, r)} \cup
    {[kind |-> "overflow", from |-> p, to |-> r, shard |-> s, round |-> k] :
        p \in {q \in RemoteRanks(Shape, r) : r \in num_routed[q][q]}, s \in 1..Nets}

CombineOwed(r, k) ==
    {[kind |-> "combine", from |-> p, to |-> r, shard |-> s, round |-> k] :
        p \in RemoteRanks(Shape, r), s \in 1..Nets}

\* A kernel is released only when everything it reads has landed: all tokens
\* dispatched to the rank in this round, and no immediate of another round was
\* taken for one of this round's.
KernelsReadAll ==
    /\ TypeOK
    /\ \A r \in Rank :
        /\ "dispatch_recv_flag" \in flags[r] =>
              Payload({"private", "overflow"}, r, gpu_round[r]) = DispatchOwed(r, gpu_round[r])
        /\ "combine_recv_flag" \in flags[r] =>
              Payload({"combine"}, r, gpu_round[r]) = CombineOwed(r, gpu_round[r])

\* All rounds complete on all ranks and every worker thread can be joined.
AllJoined == <>Joined

\* "Wait for the sends to complete": after a barrier the rank has no transfer
\* under way.
BarrierWaitsForSends ==
    \A r \in Rank : host[r] \in {"combine_send", "route"} => open[r] = 0
============================================================================
