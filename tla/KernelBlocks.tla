---------------------------- MODULE KernelBlocks ----------------------------
(* The four all-to-all kernels of one rank, block by block, and the flags   *)
(* they exchange with the host worker.  A kernel runs on Blocks thread      *)
(* blocks; block b handles the tokens b, b + Blocks, b + 2 * Blocks ...     *)
(* The last block to add its tokens to a shared counter raises the "done"   *)
(* flag, and some kernels lower the flags they waited for.  A launch starts *)
(* when the previous kernel of the stream has ended on all blocks.          *)
(*                                                                          *)
(* The other ranks are left out: what they send arrives at some time, and   *)
(* a barrier passes at some time.  AllToAll has them, with a kernel as one  *)
(* or two steps.                                                            *)
EXTENDS Integers, Sequences

CONSTANTS Blocks,       \* gridDim.x, the number of SMs
          NodeSizes,    \* the values of NODE_SIZE to explore
          QuickTokens,  \* the values of num_send_tokens to explore, when QUICK
          SlowTokens,   \* ... and when not
          EfaTokens,    \* the values of num_efa_tokens to explore
          FixedDims,    \* whether TokenDimTy is a Fixed size: the cases to explore
          MaxRounds     \* bound on the rounds

ASSUME BlocksAssumption == Blocks \in Nat \ {0} /\ NodeSizes \subseteq Nat \ {0}
ASSUME TokensAssumption ==
    /\ QuickTokens \subseteq 0 .. Blocks /\ SlowTokens \subseteq Nat
    /\ EfaTokens \subseteq Nat /\ FixedDims \subseteq BOOLEAN

VARIABLES
    kernel,           \* the kernel on the stream
    gpu_round,        \* the round it belongs to
    pc,               \* block |-> its place in the kernel
    copied,           \* blocks all of whose threads have moved their tokens
    node_size, fixed, \* NODE_SIZE, and whether TokenDimTy is a Fixed size
    num_send_tokens, num_efa_tokens, quick,     \* this round's batch
    counter,          \* grid_counter and token_counter
    flags,            \* the GDR flags that are up
    host, round,      \* where the host worker is
    incoming          \* dispatch_counter still waits for immediates

batch == <<node_size, fixed, num_send_tokens, num_efa_tokens, quick>>
gpu == <<kernel, gpu_round, pc, copied, batch, counter>>
vars == <<gpu, flags, host, round, incoming>>

Block == 0 .. Blocks - 1
SendTokens == QuickTokens \cup SlowTokens
Kernels == <<"dispatch_send", "dispatch_recv", "combine_send", "combine_recv">>
HostSteps == <<"route", "send", "counts", "recv", "barrier",
               "combine_send", "combine_count", "combine_recv", "combine_barrier">>
Places == {"start", "ready", "efa", "copy", "add", "done", "sync", "reset", "sync2", "end"}
Flags == {"dispatch_route_done", "dispatch_send_done", "num_recv_tokens_flag",
          "dispatch_recv_flag", "dispatch_recv_done", "tx_ready",
          "combine_send_done", "combine_recv_flag", "combine_recv_done"}

\* The place of x in sequence s.
Place(s, x) == CHOOSE i \in 1 .. Len(s) : s[i] = x

\* The number of tokens of block b out of n.
Local(n, b) == (n + Blocks - 1 - b) \div Blocks

\* The tokens the current kernel moves.
Total == IF kernel \in {"dispatch_send", "combine_recv"} THEN num_send_tokens
                                                         ELSE num_efa_tokens

\* The counter a kernel counts them on (combine_recv has none).
CounterOf(k) == IF k = "combine_send" THEN "token_counter" ELSE "grid_counter"

TypeOK ==
    /\ kernel \in {Kernels[i] : i \in 1..4} \cup {"finished"}
    /\ gpu_round \in 1 .. MaxRounds + 1 /\ round \in 1 .. MaxRounds + 1
    /\ pc \in [Block -> Places] /\ copied \subseteq Block
    /\ node_size \in NodeSizes /\ fixed \in FixedDims
    /\ num_send_tokens \in SendTokens /\ num_efa_tokens \in EfaTokens /\ quick \in BOOLEAN
    /\ DOMAIN counter = {"grid_counter", "token_counter"}
    /\ counter["token_counter"] \in 0 .. num_efa_tokens
    /\ \E n \in SendTokens \cup EfaTokens : counter["grid_counter"] \in 0 .. n
    /\ flags \subseteq Flags
    /\ host \in {HostSteps[i] : i \in 1..9}
    /\ incoming \in BOOLEAN

\* a2a_dispatch_send takes the QUICK variant when num_blocks >= num_tokens;
\* num_send_tokens is num_tokens unless bound_m lowers it, so that no more than
\* num_blocks without QUICK means a bound_m.
NewBatch(s, e, q) ==
    e \in EfaTokens /\ q \in BOOLEAN /\ s \in IF q THEN QuickTokens ELSE SlowTokens

Init ==
    /\ kernel = "dispatch_send" /\ gpu_round = 1
    /\ pc = [b \in Block |-> "start"] /\ copied = {}
    /\ node_size \in NodeSizes /\ fixed \in FixedDims
    /\ NewBatch(num_send_tokens, num_efa_tokens, quick)
    /\ counter = [c \in {"grid_counter", "token_counter"} |-> 0]
    /\ flags = {"tx_ready"}
    /\ host = "route" /\ round = 1 /\ incoming = FALSE

Flip(down, up) == flags' = (flags \ down) \cup up

\* Block b goes from one place of kernel k to another.
Go(k, b, from, to) == kernel = k /\ pc[b] = from /\ pc' = [pc EXCEPT ![b] = to]

----------------------------------------------------------------------------
(* The start of each kernel.                                                *)

\* Block 0 counts the routes and reports them.
CountRoutes ==
    /\ Go("dispatch_send", 0, "start", "ready")
    /\ Flip({}, {"dispatch_route_done"})
    /\ UNCHANGED <<kernel, gpu_round, copied, batch, counter, host, round, incoming>>

\* It then waits for the send buffer; the other blocks wait for block 0.
SendReady(b) ==
    /\ \/ Go("dispatch_send", b, "ready", "sync") /\ "tx_ready" \in flags
       \/ Go("dispatch_send", b, "start", "sync") /\ b # 0
    /\ UNCHANGED <<kernel, gpu_round, copied, batch, counter, flags, host, round, incoming>>

\* Each block waits for the token counts and then for the payloads; with NVLink
\* peers all blocks meet in between.
RecvReady(b) ==
    /\ \/ /\ Go("dispatch_recv", b, "start", IF node_size > 1 THEN "sync" ELSE "efa")
          /\ "num_recv_tokens_flag" \in flags
       \/ /\ Go("dispatch_recv", b, "efa", "copy")
          /\ "dispatch_recv_flag" \in flags
    /\ UNCHANGED <<kernel, gpu_round, copied, batch, counter, flags, host, round, incoming>>

\* Each block waits for the send buffer; without tokens from other nodes it
\* reports at once.
CombineSendReady(b) ==
    /\ Go("combine_send", b, "start", "copy")
    /\ "tx_ready" \in flags
    /\ Flip({}, IF num_efa_tokens = 0 THEN {"combine_send_done"} ELSE {})
    /\ UNCHANGED <<kernel, gpu_round, copied, batch, counter, host, round, incoming>>

CombineRecvReady(b) ==
    /\ Go("combine_recv", b, "start", "copy")
    /\ "combine_recv_flag" \in flags
    /\ UNCHANGED <<kernel, gpu_round, copied, batch, counter, flags, host, round, incoming>>

----------------------------------------------------------------------------
(* Moving the tokens and reporting.                                         *)

\* The QUICK variant for token sizes that are not Fixed: thread 0 goes on to count
\* the token as soon as its own part is stored, with no __syncthreads before.
Unsynced == kernel = "dispatch_send" /\ quick /\ ~fixed

\* Where dispatch_send leaves: the QUICK variant for Fixed sizes, and any with
\* NVLink peers, has all blocks meet again (the NVLink writes are left out here).
Leave == IF kernel = "dispatch_send" /\ (node_size > 1 \/ (quick /\ fixed))
         THEN "sync2" ELSE "end"
AfterAdd == IF kernel = "combine_send" THEN "sync" ELSE Leave
AfterReport == IF kernel = "combine_send" THEN "sync" ELSE "reset"

\* In the QUICK variant a block without a token neither copies nor counts.
HasNone(b) == kernel = "dispatch_send" /\ quick /\ b >= num_send_tokens

\* Block b moves its tokens, up to the __syncthreads after it; without one the
\* threads other than thread 0 may still be storing.
Copy(b) ==
    /\ Go(kernel, b, "copy",
          IF kernel = "combine_recv" THEN "sync" ELSE IF HasNone(b) THEN Leave ELSE "add")
    /\ \/ copied' = copied \cup {b}
       \/ Unsynced /\ ~HasNone(b) /\ UNCHANGED copied
    /\ UNCHANGED <<kernel, gpu_round, batch, counter, flags, host, round, incoming>>

\* Those threads are through as well.
StoreRest(b) ==
    /\ Unsynced /\ pc[b] \notin {"start", "ready", "sync", "copy"} /\ b \notin copied
    /\ copied' = copied \cup {b}
    /\ UNCHANGED <<kernel, gpu_round, pc, batch, counter, flags, host, round, incoming>>

\* All threads of all blocks have reached place p.
AllAt(p) == \A b \in Block : pc[b] = p /\ (Unsynced /\ p # "sync" => b \in copied)

\* Block b adds its tokens to the counter and compares it with the total.
Add(b) ==
    LET c == CounterOf(kernel)
        n == counter[c] + Local(Total, b) IN
    /\ Go(kernel, b, "add", IF n = Total THEN "done" ELSE AfterAdd)
    /\ counter' = [counter EXCEPT ![c] = n]
    /\ UNCHANGED <<kernel, gpu_round, copied, batch, flags, host, round, incoming>>

DoneFlag(k) ==
    CASE k = "dispatch_send" -> "dispatch_send_done"
      [] k = "dispatch_recv" -> "dispatch_recv_done"
      [] k = "combine_send" -> "combine_send_done"
      [] k = "combine_recv" -> "combine_recv_done"

\* It raises the kernel's done flag.
Report(b) ==
    /\ Go(kernel, b, "done", AfterReport)
    /\ Flip({}, {DoneFlag(kernel)})
    /\ UNCHANGED <<kernel, gpu_round, copied, batch, counter, host, round, incoming>>

Lowered(k) ==
    CASE k = "dispatch_send" -> {}
      [] k = "dispatch_recv" -> {"num_recv_tokens_flag", "dispatch_recv_flag"}
      [] k = "combine_send" -> {"tx_ready"}
      [] k = "combine_recv" -> {"combine_recv_flag"}

\* The kernels put back to zero the counter they use; combine_recv uses none.
ResetCounter ==
    counter' = IF kernel = "combine_recv" THEN counter
               ELSE [counter EXCEPT ![CounterOf(kernel)] = 0]

\* Mutant: only the counter is put back to zero.
ResetCounterOnly(b) ==
    /\ Go(kernel, b, "reset", Leave)
    /\ ResetCounter
    /\ UNCHANGED <<kernel, gpu_round, copied, batch, flags, host, round, incoming>>

\* It lowers the flags the kernel waited for and puts the counter back.
Reset(b) ==
    /\ Go(kernel, b, "reset", Leave)
    /\ Flip(Lowered(kernel), {})
    /\ ResetCounter
    /\ UNCHANGED <<kernel, gpu_round, copied, batch, host, round, incoming>>

\* grid.sync: all blocks go on together.  The combine kernels end with block 0
\* resetting for all (combine_send meets twice, with only NVLink copies between).
GridSync ==
    /\ \/ /\ AllAt("sync")
          /\ pc' = [b \in Block |->
                      CASE kernel = "dispatch_send" -> "copy"
                        [] kernel = "dispatch_recv" -> "efa"
                        [] kernel = "combine_send" -> IF b = 0 THEN "reset" ELSE "end"
                        [] kernel = "combine_recv" -> IF b = 0 THEN "done" ELSE "end"]
       \/ AllAt("sync2") /\ pc' = [b \in Block |-> "end"]
    /\ UNCHANGED <<kernel, gpu_round, copied, batch, counter, flags, host, round, incoming>>

\* The stream's next kernel starts; the next round brings a new batch.
NextKernel ==
    /\ kernel # "finished" /\ AllAt("end")
    /\ pc' = [b \in Block |-> "start"] /\ copied' = {}
    /\ IF kernel # "combine_recv"
       THEN /\ kernel' = Kernels[Place(Kernels, kernel) + 1]
            /\ UNCHANGED <<gpu_round, batch>>
       ELSE /\ kernel' = IF gpu_round = MaxRounds THEN "finished" ELSE "dispatch_send"
            /\ gpu_round' = gpu_round + 1 /\ UNCHANGED <<node_size, fixed>>
            /\ \E s \in SendTokens, e \in EfaTokens, q \in BOOLEAN :
                  /\ NewBatch(s, e, q)
                  /\ num_send_tokens' = s /\ num_efa_tokens' = e /\ quick' = q
    /\ UNCHANGED <<counter, flags, host, round, incoming>>

BlockStep(b) ==
    \/ b = 0 /\ CountRoutes
    \/ SendReady(b) \/ RecvReady(b) \/ CombineSendReady(b) \/ CombineRecvReady(b)
    \/ Copy(b) \/ StoreRest(b) \/ Add(b) \/ Report(b) \/ Reset(b)

----------------------------------------------------------------------------
(* The host worker: WorkerState::step without the transfers.                *)

Goto(from, to) == host = from /\ host' = to

\* GdrFlag::wait
Await(f, down) == f \in flags /\ Flip({f} \cup down, {})

HostWait ==
    /\ \/ Goto("route", "send") /\ Await("dispatch_route_done", {})
       \/ Goto("send", "counts") /\ Await("dispatch_send_done", {"tx_ready"})
       \/ Goto("recv", "barrier") /\ Await("dispatch_recv_done", {})
       \/ Goto("combine_send", "combine_count") /\ Await("combine_send_done", {})
       \/ Goto("combine_recv", "combine_barrier") /\ Await("combine_recv_done", {})
    /\ UNCHANGED <<gpu, round, incoming>>

\* process_routing_info publishes the counts; dispatch_counter.wait then leaves
\* it to the immediates to raise dispatch_recv_flag.
HostCounts ==
    /\ Goto("counts", "recv")
    /\ Flip({}, {"num_recv_tokens_flag"})
    /\ incoming' = TRUE
    /\ UNCHANGED <<gpu, round>>

\* The last dispatch immediate arrives.
PayloadsArrive ==
    /\ incoming
    /\ incoming' = FALSE
    /\ Flip({}, {"dispatch_recv_flag"})
    /\ UNCHANGED <<gpu, host, round>>

\* Mutant: the first barrier does not hand the send buffer back.
HostReleaseLate ==
    /\ \/ Goto("barrier", "combine_send") /\ UNCHANGED <<flags, round>>
       \/ /\ Goto("combine_count", "combine_recv")
          /\ Flip({}, {"combine_recv_flag"}) /\ UNCHANGED round
       \/ /\ Goto("combine_barrier", "route")
          /\ Flip({}, {"tx_ready"}) /\ round' = round + 1
    /\ UNCHANGED <<gpu, incoming>>

\* The barriers hand the send buffer back, the combine count the recv buffer.
HostRelease ==
    /\ \/ /\ Goto("barrier", "combine_send")
          /\ Flip({}, {"tx_ready"}) /\ UNCHANGED round
       \/ /\ Goto("combine_count", "combine_recv")
          /\ Flip({}, {"combine_recv_flag"}) /\ UNCHANGED round
       \/ /\ Goto("combine_barrier", "route")
          /\ Flip({}, {"tx_ready"}) /\ round' = round + 1
    /\ UNCHANGED <<gpu, incoming>>

Host == HostWait \/ HostCounts \/ HostRelease

Finished == kernel = "finished" /\ host = "route"

Next ==
    \/ \E b \in Block : BlockStep(b)
    \/ GridSync \/ NextKernel
    \/ Host \/ PayloadsArrive
    \/ Finished /\ UNCHANGED vars

\* All blocks of a kernel are resident and keep running; so do the stream, the
\* worker thread and the network.
Spec == /\ Init /\ [][Next]_vars
        /\ \A b \in Block : WF_vars(BlockStep(b))
        /\ WF_vars(GridSync) /\ WF_vars(NextKernel)
        /\ WF_vars(Host) /\ WF_vars(PayloadsArrive)

----------------------------------------------------------------------------
(* Properties.                                                              *)

\* Kernel k of the host's round has moved all its tokens.
Moved(k) ==
    \/ gpu_round > round
    \/ /\ gpu_round = round
       /\ \/ Place(Kernels, kernel) > Place(Kernels, k)
          \/ kernel = k /\ \A b \in Block : Local(Total, b) > 0 => b \in copied

\* The host step that waits for kernel k.
WaitOf(k) ==
    CASE k = "dispatch_send" -> "send"
      [] k = "dispatch_recv" -> "recv"
      [] k = "combine_send" -> "combine_send"
      [] k = "combine_recv" -> "combine_recv"

\* The host gets past its wait for a kernel only when all blocks of that
\* kernel, in that round, have moved their tokens: neither a count reached too
\* early nor a flag left from the round before lets it through.  The QUICK
\* dispatch_send for token sizes that are not Fixed is excepted while it runs: its
\* threads are not synchronised before the count (see SendBufferFilled).
DoneMeansMoved ==
    /\ TypeOK
    /\ \A i \in 1 .. Len(Kernels) :
        Place(HostSteps, host) > Place(HostSteps, WaitOf(Kernels[i])) =>
            Moved(Kernels[i]) \/ (Kernels[i] = "dispatch_send" /\ gpu_round = round /\ Unsynced)

\* Nothing is left of a round when the next one starts: tx_ready is the only
\* flag up and both counters are zero.
RoundStartsClean ==
    /\ host = "route" /\ gpu_round = round
    /\ kernel = "finished" \/ (kernel = "dispatch_send" /\ pc[0] = "start")
    =>  /\ flags = {"tx_ready"}
        /\ \A c \in DOMAIN counter : counter[c] = 0

\* Both: a round is done when its tokens are moved, and leaves nothing to the next.
RoundsSeparate == DoneMeansMoved /\ RoundStartsClean

\* All kernels of all rounds end, when every block has a token from another node
\* to receive: no block waits for ever for a flag, for its own grid or for the
\* host, which in turn waits for the flags of the kernels (a2a_worker.rs:403).
StreamEnds == <>(kernel = "finished")

\* "Wait for all transactions using the send buffer to finish before writing to
\* it" (a2a_combine_send.cu): no block of combine_send is about to write its
\* tokens while the worker is sending this round's combine from the buffer.
NoWriteWhileSending ==
    \A b \in Block :
        kernel = "combine_send" /\ pc[b] = "copy" /\ Local(num_efa_tokens, b) > 0 =>
            ~ (/\ round = gpu_round
               /\ host \in {"combine_count", "combine_recv", "combine_barrier"})

\* "Wait for the dispatch kernel to copy tokens into send buffers" (WorkerState
\* ::step): past that wait the tokens of this round are in the send buffer.
SendBufferFilled ==
    Place(HostSteps, host) > Place(HostSteps, "send") => Moved("dispatch_send")

\* The same line's other half: once dispatch_send has ended the worker's wait for it ends.
SendWaitEnds == (kernel = "dispatch_recv" /\ host = "send") ~> (host # "send")
============================================================================
