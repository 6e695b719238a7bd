# TLA+ models of pplx-garden

pplx-garden moves tensors between GPUs over RDMA. `fabric-lib` is the transfer
engine; `p2p-all-to-all` is the dispatch and combine of a mixture-of-experts
layer built on it. This directory models the protocols inside and between
these two: who may touch which buffer, counter or context at what moment, and
which events must follow which others. Byte layouts, CUDA and libfabric calls,
and formatting are abstracted.

Contents: [the system](#the-system), [modules](#modules),
[runs](#runs-bounds-and-results), [fairness](#fairness), [proofs](#proofs),
[known disagreements](#known-disagreements),
[not modelled](#not-modelled-and-next-steps).

## The system

    Python package (python/pplx_garden, python-ext)
      |                                   |
      |  AllToAllContext                  |  TransferEngine: API + callback thread
      v                                   v
    a2a_context.rs  --launches-->  kernels (dispatch_send/recv, combine_send/recv)
      |                               ^  |
      |                     GDR flags |  | GDR flags, counters
      v                               |  v
    a2a_worker.rs: one host worker thread per rank, WorkerState::step
      |
      |  submit_transfer, ImmCounter::wait, GdrCounter
      v
    transfer_engine.rs -> fabric_engine.rs -> worker.rs
                          one RDMA worker thread and one UVM watcher thread per GPU,
                          bounded(128) command and completion channels
      v
    domain_group.rs: splits a transfer over the N NICs of a GPU
      v
    provider.rs: efa/efa_domain.rs (libfabric) or verbs/verbs_domain.rs (RC + UD queue pairs)
      ^
      |  immediates received
    imm_count.rs: ImmCountMap, shared by all workers

* **A transfer** is a single, paged, scatter or barrier/immediate request. The
  application hands it to the worker's command channel. The worker gives it to the
  `DomainGroup`, which books the number of parts, builds one write per domain or
  target, and submits each to a domain. A domain keeps a heap-allocated context
  per write, posts its operations as the NIC accepts them and reports the write as
  `Transfer` or `Error`. The group counts the reports, and sends one entry for the
  transfer into the completion channel, where the callback thread finds the handler.
* **An immediate** that arrives with a write increments a counter of the
  `ImmCountMap`: an expected count with a callback, an `ImmCounter` a thread spins
  on, or a `GdrCounter` that releases a waiting kernel.
* **The all-to-all** runs rounds. In each, the dispatch_send kernel counts and
  copies tokens; the host worker exchanges the routing table, ships private and
  overflow parts of the send buffer, waits for as many immediates as it computes
  from the table, releases dispatch_recv, passes a barrier, and does the same for
  the combine. All buffers are reused in the next round.
* **Connections** of the Verbs provider are made on first use, with a handshake
  over unreliable datagrams; operations wait in queues until it is over.

## Modules

| Module | Models | Source |
| --- | --- | --- |
| `WriteReporting` | abstract: what a domain promises of a write | `provider.rs` |
| `WriteContexts` | EFA write path of one domain | `efa/efa_domain.rs` |
| `WriteContextsProofs` | its theorems | |
| `VerbsWrites` | Verbs write path of one domain, with its object pool | `verbs/verbs_domain.rs`, `utils/obj_pool.rs` |
| `VerbsWritesProofs` | its theorems | |
| `Sharding` | the three loops that split a transfer | `domain_group.rs`, `efa/efa_rdma_op.rs` |
| `WriteOps` | the operation iterators of both providers: from a request to the bytes the NIC copies | `efa/efa_rdma_op.rs`, `verbs/verbs_rdma_op.rs` |
| `TransferOutcome` | abstract: what a group promises of a transfer | `domain_group.rs`, `worker.rs` |
| `DomainGroup`, `MCDomainGroup` | requests, parts, completion bookkeeping | `domain_group.rs`, `worker.rs` |
| `DomainGroupProofs` | its theorems | |
| `MemoryRegions` | registration, its caches, peer groups, bouncing receives | `fabric_engine.rs`, `worker.rs`, `domain_group.rs`, both domains, `transfer_engine.rs`, `mr.rs` |
| `MemoryRegionsProofs` | its inductive invariant, one lemma per step, and its theorems | |
| `Startup` | construction, its failures, shutdown; opening and closing a domain | `transfer_engine_builder.rs`, `fabric_engine.rs`, `worker.rs`, both domains, `utils/defer.rs` |
| `ImmCount` | expected-count immediates and their callbacks | `imm_count.rs`, `transfer_engine.rs` |
| `WaitCounter` | `ImmCounter` and `GdrCounter` against `inc` | `api.rs`, `imm_count.rs` |
| `MCCounters` | both kinds of counter in one run | |
| `CountersProofs` | the theorems on `WaitCounter` and `ImmCount` | |
| `Engine` | the three threads of an engine and their channels | `transfer_engine.rs`, `fabric_engine.rs`, `worker.rs` |
| `VerbsPeers`, `MCVerbsPeers` | handshake and waiting operations | `verbs/verbs_domain.rs` |
| `RoutingPlan` | who writes to whom, and how many immediates are expected | `a2a_worker.rs` |
| `TokenPlacement`, `MCRoutingPlan` | where each token lies at each end | `a2a_worker.rs`, the four kernels, `p2p_all_to_all.py` |
| `AllToAll` | rounds on several ranks: hosts, streams, network | `a2a_worker.rs`, `a2a_context.rs`, kernels |
| `AllToAllInvariant` | its inductive invariant, and the part of its proof that is about one rank | |
| `AllToAllLinks` | the part about two ranks and the writes between them | |
| `AllToAllProofs` | what a rank is owed, the steps of host worker and kernels in order, and its theorems | |
| `KernelBlocks` | the four kernels block by block | `a2a-kernels/src/a2a/*.cu`, `a2a_worker.rs` |

They compose by promise. `WriteContexts` (EFA) and `VerbsWrites` (Verbs) implement
`WriteReporting`, and `DomainGroup` is built on domains that do no more than
`WriteReporting` says. `WriteOps` EXTENDS `Sharding`: it posts the parts that the loops
of `Sharding` cut.
`DomainGroup` implements `TransferOutcome`, and `Engine` uses a group that does
what `TransferOutcome` says. `AllToAll` EXTENDS `RoutingPlan` and takes a counter
wait as one step, which `WaitCounter` justifies. `KernelBlocks` refines the kernel
steps of `AllToAll` informally: it has all blocks of one rank, `AllToAll` has all
ranks with one or two steps per kernel.

`PROJECT.json` maps each definition to the lines it models.

### How state and actions correspond to the code

**WriteContexts.** `total_ops`, `cnt_posted_ops`, `cnt_finished_ops`, `bad` and
`in_queue` are the fields of `WriteOpContext`; `write_ops` is the domain's queue;
`alloc` says whether the context is in the object pool. `flight`, `good` and
`failed` are what the NIC holds a pointer for. `worker_step` is cut at the
iterations of its loops (`phase`): `SubmitWrite` is `do_submit_write` with its first
posting attempt, `PostQueued` one iteration of `progress_rdma_write_ops`,
`HandleWriteCqe` and `HandleWriteError` one completion in `poll_cq`, with
`maybe_drop_write_op_context` where the code reaches its call. `NicComplete` is the NIC.

**DomainGroup.** `write_ops` is the map of `TransferOp` bookkeeping, `rr_next` the
round robin. A request carries what its checks look at; the accepting action books
the parts, submits them and advances the round robin in one step, because the worker
thread does. The scan of `worker_step` over the domains' completion queues is one
step per entry (`ScanPart`, `ScanLastCounted`, `ScanLastReturned`, `ScanError`,
`ScanStray`), and one per empty queue. `completions` are those queues; `active` and `failed` are what
the domains still work on, and what they have reported as failed and may report again. `posted`,
`returned` and `counted` are history variables.

**VerbsWrites.** `ctx` holds the contexts by slot of the object pool, with the fields of
`WriteOpContext`; `free_list` and `next_slot` are those of `ObjectPool`. A pointer is a
slot; `of` remembers, for the properties only, the write it was made for. `sq[q]` is what
queue pair `q` has accepted; `broken` pairs flush everything with an error. `SubmitWrite`
is `do_submit_write`, `HandleWriteCqe` and `HandleWriteError` are the two branches of
`poll_cq`, `UnqueueBad` and `PostQueued` the iterations of `progress_rdma_write_ops`.

**Sharding and WriteOps.** One step per iteration of `divide_evenly`,
`shard_single_transfer` and the byte shards of a scatter target; then, part by part, an
iterator is made (`StartPart`) and its operations are posted, all that are prepared
(`PostAll`) or as many as the send queue takes (`PostSome`). `iter` is the ring of work
requests with its links; the EFA iterators are a ring of one. An operation is its
target, source address, remote address as the provider counts it, and length.

**MemoryRegions.** `local_mr_map` is that of each domain, `mr_device_map`, `peer_groups`
and the call and command channels those of the engine; memory at an address has an `era`
that grows with each allocation, so that a region can be told from a later one at the same
address. `Worker...` actions are the arms of the worker's loop and walk the domains up to the
first that fails. `Tidy` restricts the application and `FreshStorage` the allocator: the storage of
bouncing receives never gets an address that held something before. The module comment says how.

**Startup.** `main` is the constructing thread, in `build`, `spawn`, `wait_init` or `stop`;
`rdma`, `uvm` and `callback` are the threads. `listening` and `connected` say which ends of
the channels exist, and so what a thread finds when it uses them. `opened` has the resources
of each domain. Opening a domain, and closing what was opened, is one step: nothing else
looks at a domain meanwhile. The RDMA loop comes round to its condition; that a send on a full completion
channel may keep it from doing so is left to `Engine`. Tables say what is left for each place it can fail
(`Failed`) and by `Drop` (`Dropped`), computed from the order of the calls, the `Defer`
guards and the dependencies that libfabric and verbs enforce (`Uses`).

**ImmCount.** `inc` runs under the map's read lock, so its `fetch_add` and
`fetch_sub` are two steps that interleave between workers; insert and remove take the write
lock. The callback thread removes a repeated handler in two steps, as the code does.

**WaitCounter.** One atomic operation per step for both waits and for `inc`.

**Engine.** `cmd` and `cq` are the bounded channels and block when full.
`worker`, `callback` and `uvm` are the program counters of the three threads;
`call`/`reply` is the synchronous call to the UVM thread. `Stuck` is the callback
thread waiting for a lock it holds.

**VerbsPeers.** A domain's methods are atomic, because one worker thread runs it.
`peer`, `pending`, `waiting` and `group` are the fields of `Peer` and the two maps of
peer groups; `left` is `pending_peers` of a group write, `Raw` before it is written.
`Submit` is all of `submit_write`, `submit_send` and `submit_group_write`, up to the
first verbs call that fails. `Handshake` is the receipt of a datagram with everything
it releases.

**RoutingPlan and TokenPlacement** are operators, not actions: the loops of
`dispatch_initial_routes` and `process_routing_info` as sums and sequences over the
table `num_routed`, next to the positions the kernels compute for themselves.
A slot is a place the table counts, and `order` says which token each rank of a group puts into it: the
kernels number tokens with `atomicAdd`, so every rank has an order of its own.
`MCRoutingPlan` walks through the routing tables and the orders one token at a time.

**AllToAll.** `host` is the program counter of `WorkerState::step` between its waits,
`gpu` that of the kernel stream, `flags` the GDR flags, `counter` the immediate and
transfer counters, `wire` the writes under way, `open` the transfers not yet counted at
the sender. The buffers are represented by what they hold (`send_buffer`, `landed`).

**KernelBlocks.** `pc[b]` is the place of thread block `b` in the kernel; `counter` has
`grid_counter` and `token_counter`; one step per flag access, counter access or copy.
`fixed` says whether the token size is known at compile time, `quick` whether the batch takes the branch with
a block per token. In the quick branch for other sizes thread 0 counts without waiting for the other
threads of its block, so that what they store may come later (`StoreRest`).

## Runs, bounds and results

All runs are exhaustive and pass. They check deadlock, except `MemoryRegions` and `Startup`,
where an application that has used up its allocations, or an engine that is stopped, may do
nothing more.

| Run | Instance | Shows |
| --- | --- | --- |
| `WriteContexts` | 2 writes of up to 3 operations, batch of 2 | `NoUseAfterFree`: nothing in the queue, on the NIC or in the completion queue points to a freed context. `TransferMeansFinished`: success is reported when the NIC is through. `ImplementsWriteReporting`: each write is reported, in the end and at most once per outcome |
| `VerbsWrites` | 3 writes of up to 2 operations, 2 queue pairs of 1 entry, 1 of them breaks | `PointersOwned`: a pointer in the queue, on the NIC or in a completion meets the context it was made for, although slots are reused. `ReportMeansOver`: nothing of a write is on the NIC or queued when its success is reported, and nothing more is posted after its failure. `ImplementsWriteReporting` |
| `WriteOps` | sizes to 16, up to 5 shards, rounding to 4, ring of 4, lengths cut at 15, both providers | `ShardsExact`: the shards do not overlap, do not exceed the request, and are as many as the group books. `RequestWritten`: the operations posted copy exactly the bytes asked for, none twice (for requests within `InReach`, below), and are as many as the write counts on. `ChainIsPending`: the chain the NIC follows is what is left to post |
| `DomainGroup` | 2 NICs, 2 transfers: one of any kind, accepted or refused at each check, and one immediate or refused | `OutcomeSound`: one outcome per transfer, success only when all parts are done. `TrackedIsPending`: bookkeeping and outstanding parts agree. `ImplementsTransferOutcome` |
| `MemoryRegions` | 1 application address, 1 storage (always fresh), on the host or the second of 2 GPUs, 2 NICs, 2 threads, 2 allocations each, 1 failure, both providers | for a tidy application: `HandlesUsable`: each domain of the worker a transfer goes to has a region of what is at the address now, and descriptors and peer-group handles are good on all domains. `NoStaleMr`: no region outlives its memory, failed registrations included. `BuffersInUse`: no transfer is refused or uses another region, and posted receives have their storage |
| `Startup` | 3 workers of 2 or 3 domains, 1 failing call, both providers | `ClosedWhenEnded`: a thread closes what it opened, dependants first (on Verbs up to a known rest). `ConstructorReturns`: except for one case. `ThreadsEnd`: after a failed construction or a stop no thread is left |
| `Counters` | targets to 6, 3 rounds, both kinds; 1 or 2 workers, count of 2, 9 immediates | `WaitsSeparate`: no wait is over early, none leaves a count or a flag behind, and a settled count is always seen. `EveryWaitEnds`. `EachImmOnce`: no immediate goes to two callbacks. `CallbackPerCount`: with one worker each full count is a call |
| `RoutingPlan` | up to 4 ranks, all node sizes, groups of 1 or 2, 4 experts, 1 or 2 per token, private part of 0 or 1, up to 4 routed tokens (3 with 4 ranks) | `ImmediatesExpected`: a rank waits for what it is sent. `TokensFound`: every token is where the reader looks, and no other is, tokens grouped by expert. `ResultsReturn`: a result is read for the token it is of. Both are about shapes where one rank of a group writes a given position (`OneWriter`), and the second about the experts on ranks at the reader's position in their group. `BuffersSuffice` |
| `AllToAll` | 2 ranks on 1 or 2 nodes, 2 NICs, 1 overflow, 2 rounds | `BuffersKept`: a buffer with writes under way is not overwritten, and no write lands on unread tokens. `KernelsReadAll`. `AllJoined`: destroy after the last round ends all workers |
| `KernelBlocks` | 3 blocks, with and without NVLink peers, fixed and other token sizes, 2 rounds | `RoundsSeparate`: a done flag means that all tokens were moved (not in the quick branch of `dispatch_send` for other sizes), and flags and counters are clean for the next round. `StreamEnds` |
| `Engine` | 2 of {transfer, send, recv, watcher}, channels of 1 and 6 | `HandledOnce`, `RecvHeldOnce`, `WatchChain`: no gap in the values a watcher sees; `EventuallyCalled`, `LastValueSeen`, `StopJoins` |
| `VerbsPeers` | 3 domains, 5 operations of which 3 are submitted, 1 fault (a failed call, a datagram lost or repeated), 2 buffers | `PostedProperly`: once, in order, and on connected queue pairs where the code waits for them. `WaitsForHandshake`: what waits is known to a handshake that will post it. `CleanAtRest`: undisturbed handshakes connect both ends, and buffers are given back |

Each module's `TypeOK` is a conjunct of one of its safety invariants, except in
`WriteContexts`, where it is proved.

Why these bounds:

* `WriteContexts`: three operations and a batch of two let a write be posted partly at
  submission and partly from the queue, and let one operation fail before, between and after
  others succeed. Two writes share the queue. The proofs remove these bounds for safety.
* `VerbsWrites`: two queue pairs let a scatter have one operation on a broken pair and one on a
  good one; pairs of one entry make every second operation wait; the third write can be given the
  slot of the first while the second still has pointers outstanding.
* `WriteOps`: the rounding of 8192 is scaled to 4 and 2^32 to 15; 16 and 5 have all remainders, and
  requests smaller than, equal to and larger than the ring of 4, so that the ring wraps round.
* `MemoryRegions`: two domains are what a registration can fail between, two threads what calls can
  interleave on, two allocations what a stale region and its successor need; the device of the
  memory is chosen initially among the host and a GPU that is not the main one. The proofs
  remove these bounds.
* `Startup`: with three workers one fails while one has been waited for and one has not. Three
  domains are not supported by either provider. One failure is enough for every error path; two
  failures were checked with two workers.
* `DomainGroup`: two NICs make a part finish on one before the other, and a stray completion
  needs a second transfer. The proofs remove these bounds for safety.
* `Counters`: zero, one and several immediates a round, and a round after a round. Nine immediates
  are four full counts and one over, so that a count can be reached while the previous one is still
  handled. The proofs remove these bounds for safety.
* `RoutingPlan`: four ranks are two nodes of two, the smallest with both NVLink and RDMA
  peers; a private part of 0 or 1 makes both parts non-empty with two tokens. The first rank of a group
  has its tokens in the order they come, the others in any order: only the difference matters.
* `AllToAll`: two rounds reach the reuse of every buffer and counter, and a rank that is a round
  ahead of another. Two NICs make an overflow more than one write. The proofs remove these
  bounds for safety.
* `KernelBlocks`: every block has at least one token from another node (`EfaTokens`), and a batch that
  takes the slow branch (`SlowTokens`, with `bound_m` or larger than the grid) is not smaller than the grid;
  smaller ones are known disagreements, below. The batch to send is smaller than, equal to and larger
  than the grid.
* `Engine`: a command channel of one blocks submitters at once. The completion channel
  holds what two uses can report, because a smaller one deadlocks (see below); with 128
  entries in the code the same happens with more operations.
* `VerbsPeers`: three domains are the least in which a group has one connected and one new
  peer.

## Fairness

* Threads (`Worker`, `Host`, `Callback`, `Uvm`, `User`) are weakly fair: each is a loop on
  a thread of its own, pinned to a CPU, that blocks only where the model does.
* Kernels and blocks are weakly fair: the grid is launched cooperatively, so that all blocks
  are resident and a spinning one cannot keep another from running.
* The NIC is weakly fair in `WriteContexts`, and each queue pair in `VerbsWrites`: a posted operation
  completes, with success or with an error. The two providers turn a broken connection into error
  completions. Verbs retries without end while a live receiver has no buffer posted (`rnr_retry = 7`):
  there the assumption includes that the receiver posts one, as its worker loop does.
* In `DomainGroup` and `Engine` a part or operation is strongly fair in being reported:
  it is the liveness of `WriteReporting` and of `TransferOutcome`, in models in which the
  reporting action is disabled while the queue is being scanned.
* `AllToAll` assumes that the application destroys its context after the last round.
* In `Startup` the constructing thread and every thread it starts are weakly fair; the application need
  not stop the engine.
* Nothing is assumed of message arrival, of values written by a kernel, of `stop` in `Engine`, or of
  datagrams: `VerbsPeers` has no fairness and states `CleanAtRest` as an invariant of
  states in which nothing is under way. `MemoryRegions` has safety properties only.

## Proofs

`WriteContextsProofs` proves, for every set of writes, every `MaxOps` and every
`PostBatch` (assumption: both are positive), that the EFA write path has

* `TypeCorrect`: `TypeOK`;
* `NoUseAfterFreeHolds`: whatever the queue, the NIC or the completion queue refers to
  is an allocated context;
* `QueueHasMoreToPostHolds`: the assertion in `progress_rdma_write_ops`;
* `ReportedOnceHolds`: no write is reported twice with the same outcome;
* `TransferMeansFinishedHolds`: success is reported when nothing is outstanding;
* `NoPostAfterErrorHolds`: an action property, that no operation of a write is posted after
  its failure was seen;
* `ReportingRefined`: every behaviour satisfies the safety part of `WriteReporting`.

The argument. `NoUseAfterFree` is not inductive: that a freed context has nothing
outstanding depends on the counters. The inductive invariant `IInv` adds for every write

* `Balanced`: posted = finished + on the NIC + unread, and posted <= total, so that
  `cnt_finished_ops = cnt_posted_ops`, the test before a drop, means that nobody has a pointer;
* `Allocated`: an unsubmitted write has no counters, a freed one has nothing outstanding, a
  queued one is live, marked `in_queue` and has operations left to post;
* `Reported`: the reports of a write match `bad` and its counters;

and that no write is in the queue twice. One lemma per action (`SubmitWriteInv`,
`UnqueueBadInv`, `PostQueuedInv`, `HandleWriteCqeInv`, `HandleWriteErrorInv`,
`NicCompleteInv`, `StayInv`) shows that it is preserved; `Frame` carries the writes an
action leaves alone. The refinement has a lemma for accepting, one for resolving
completions and one for silent steps.

`VerbsWritesProofs` proves, for every finite set of writes, any queue pairs, `MaxOps` and `Depth` (assumption: positive) and
any number of pairs that break, that the Verbs write path has

* `PointersOwnedHolds`: whatever points to a slot of the object pool meets the context it was made for;
* `ReportMeansOverHolds`: an action property, that a reported write has nothing more on the NIC (success) or
  is given nothing more (failure);
* `ReportingRefined`: every behaviour satisfies the safety part of `WriteReporting`.

The argument differs from that of EFA, because slots are reused: a pointer outlives the context it was made for unless
the counters say that there is none. The inductive invariant `IInv`, which TLC also checked on the instance of the
run, adds for every slot `SlotInv`: finished + pointers out (`Out`, on the NIC and in unread completions) <= posted
<= total; a queued context has operations left to post; a freed one has finished = posted, is not queued and was reported.
So a freed slot has `Out = 0`, and the next write given the slot finds no pointer to it. `Owned` and `OneContext` tie
pointers, slots and writes; `Room` bounds what a send queue holds. The first part of `SlotInv` is an inequality, where
EFA has an equality: the argument needs no more. The lemmas on queues (`IdxTail`, `RefsTake`, `PostedToRefs`) say how many pointers a step
adds or removes: a completion moves one, `PostEffect` adds as many as operations posted, however they spread over the pairs,
and `ReadEffect` removes one. Each action has a lemma (`SubmitWriteInv`, `HandleWriteCqeInv`, `HandleWriteErrorInv`, `UnqueueBadInv`,
`PostQueuedInv`, `NicCompleteInv`, `StayInv`); `AllocFacts` is about a slot being handed out, new or used before.

`CountersProofs` proves `WaitsSeparateHolds`: for every `MaxTarget` and `MaxRounds` (assumption:
natural numbers), and so for any targets and any number of rounds, `WaitsSeparate` holds of waits by a user
and by a kernel. It is not inductive, because it says nothing of the moments between `fetch_add`,
`flag.set` and `store(0)`. The inductive invariant adds

* `CounterInv`: before the subtraction the counter is what has arrived, after it the negated number of
  what has not;
* `PlaceInv`: the worker is in the middle of `inc` only after the round's last immediate, and only if the
  wait had not found enough, so its `store(0)` changes nothing;
* `FlagInv`: the flag is raised by exactly one of the two sides.

`WorkerIInv` and `UserIInv` show that every step of `inc` and of the wait preserves it.

It also proves `EachImmOnceHolds` and `CallbackPerCountHolds`, the properties of expected counts, for any
set of workers, any number of immediates and any expected count (`ExpectedAssumption`: it is
positive, as a `NonZeroU32` is). The inductive invariant `ImmInv` is a ledger: the
immediates of the callbacks called, of the `ImmData` callbacks, of the entries in the completion channel
and of the counter sum up to at most what has arrived (`Accounted`), with equality as long as a repeated handler is
installed. `InsideInc` says that two workers are never both between `fetch_add` and `fetch_sub`, so
that a count is taken out of the counter once; `SingleWorker` that one worker alone meets the expected value exactly.
The lemmas on `Count` and `Ledger` say what one more or one less entry in the channel changes.

`DomainGroupProofs` proves, for any number of domains and ids and any requests a caller may submit,
`OutcomeSoundHolds`, `TrackedIsPendingHolds` and `OutcomeRefined`, the safety part of the refinement of
`TransferOutcome`. The assumptions: there is a domain, and no request is one on which the worker thread panics
(`RequestsAssumption`, with `Submittable` naming the two cases). The inductive invariant `Inv` ties three places
together: what the domains still work on, what lies unread in their queues, and the group's `TransferOp`.

* `Counts`: while a transfer is tracked, `cnt` is the number of its settled parts, those with nothing outstanding
  and no unread report; it is below the number booked; and each failed part has its error still unread. So
  the last part counted finds no failure and nothing under way.
* `ReportsInv`, `OrderInv`: a report is in the queue of the domain its part was posted through, at most
  one of each kind; a failed part that completes late is behind its error in the same queue, which is first in,
  first out. So the error removes the bookkeeping before the late completion could be counted.
* `PartsTyped`, `ChunksFit`, `DivCeilCovers`: every part booked is posted on an existing domain, for each
  kind of request and any number of pages, targets and shards.

`AllToAllProofs` proves `BuffersKeptHolds` and `KernelsReadAllHolds`: for any number of ranks of at least
two, any size of nodes that divides it, any NICs, overflows and rounds (`AllToAllAssumption`), no rank
overwrites or reads a buffer too early. Neither is inductive: they are about a write and the two ranks it
joins, and nothing in a state says directly how far apart two ranks can be. The argument counts. The steps of a
host worker and of a kernel stream are numbered, and `HostDone(r, i)` and `GpuDone(r, i)` are the rounds in which
rank r is through with step i. The inductive invariant `Inv` (`AllToAllInvariant`), which TLC also checked
on the instance of the run (169,548 states) before it was proved, is stated in these counts:

* `InStep`, `FlagsSay`: host worker and kernels of one rank are at most one round apart at each flag; a
  raised flag is a strict inequality between two counts, except where `stop` raised it;
* `Waited`: a rank does not take from a peer what the peer has not sent, so with the two barriers
  no rank is more than one round ahead in any kind of write;
* `OnWire`, `IsLanded`: a write under way, or landed and unread, is the latest of its kind from its sender; its
  target has not taken it. This is what makes one counter enough for all rounds;
* `CountersCount`: each counter is the number of peers heard of, or of payloads landed, less what a
  kernel already waits for; `Complete`: when a kernel is released exactly what it is owed has landed;
* `TableCopied`: until the counts are computed, the received routing table is that of its sender;
* `BufferHolds`: what the send buffer holds follows from the two counts of kernels that fill it.

The counts of `CountersCount` need the sizes of sets of writes. `AllToAllLinks` takes what it needs of them as
hypotheses (`SetSizes`, `OwedSizes`), and `AllToAllProofs` proves both (`SizesHold`, from `DispatchOwedCount` and `CombineOwedCount`):
`num_recv_tx` and `num_combine_imm` count exactly the writes a rank is owed, for any shape.
`AllToAllLinks` has one lemma for each kind of effect (`Submitting`, `NewTable`, `TakingTokens`,
`TakingCombined`, `ReadingTokens`, `ReadingCombined`, `DeliveringPayload` and so on), `AllToAllProofs` one for each step of the
program, which names its effect.

`MemoryRegionsProofs` proves `HandlesUsableHolds`, `NoStaleMrHolds` and `BuffersInUseHolds`: the three
properties of the `MemoryRegions` run, for any set of GPUs, NICs, addresses and threads, any bounds and
both providers, from `MemoryRegionsAssumption`, `Tidy` and `FreshStorage` (without these they do not all hold,
see below).
The inductive invariant is `IInv`; TLC checked it on the instance of the run
before it was proved. None of the three is inductive, because a registration is complete only when the
call returns and its effects are spread over caches, channels and callers until then. `IInv` adds to them

* `RegionInv`: a cached region is that of the memory now at its address, on the worker that serves it,
  with the access asked for since the last unregister (`touched`); so the cache, which looks at the
  address alone, answers with the right region;
* `AccessInv`, `UnregisterInv`, `BounceInv`, `GroupCallInv`: what a call under way is about stays as it
  was when the call was sent;
* `RegisterReply`, `UnregisterReply`, `BounceReply`: what an answer means still holds when the caller
  reads it, although other calls ran on the worker in between;
* `UniqueInv`, `QueueInv`: one call at a time for an address, waiting once, unanswered, at its worker;
* `HeldInv`, `CommandInv`, `GroupInv`, `StorageInv`: handles, transfers under way, peer groups and the
  storage of receives rest on complete registrations.

Each step has a lemma (`RegisterStep`, `WorkerRegisterStep`, `ReturnStep`, ...). A `...Kept` lemma carries a
part of the invariant over a step that leaves its variables alone, a `...Other` lemma over a step of
another thread. The hard cases are `WorkerRegisterStep`, where registration stops at any domain and the
regions before it stay, and `ReturnStep`, where the answer becomes a handle.

Only model-checked, because the prover does not support it: liveness under fairness and everything about
`ENABLED`, so the fair part of the three refinements too; and what recursive definitions compute for every
input, which needs an induction that it cannot instantiate. The second concerns

* `RoutingPlan`: `ImmediatesExpected`, `TokensFound`, `ResultsReturn` and `BuffersSuffice` are about sums and
  sequences built over the routing table;
* `WriteOps`: `ShardsExact`, `RequestWritten` and `ChainIsPending` are about what iterators yield in total.

Only model-checked, and not attempted: `RoundsSeparate` of `KernelBlocks`, `HandledOnce`, `RecvHeldOnce` and `WatchChain` of `Engine`, the
invariants of `VerbsPeers`, and `ClosedWhenEnded` of `Startup`, whose tables are finite and fully explored.

## Known disagreements

The formulas below are defined in the modules and are not part of a run, or are part of one whose
constants exclude the case. Each states what a comment, a document or an assertion of the
repository says and is violated by what the code does; TLC shows it in seconds with the
constants given here, the formula as the only INVARIANT or PROPERTY, and `-deadlock`. Paths
are relative to the crate.

`WriteContexts` (1 write, `MaxOps = 3`, `PostBatch = 2`):
* `BadContextDropped`. `handle_cqe` returns before `maybe_drop_write_op_context` unless the
  operation is the last of all (`efa/efa_domain.rs:729`), so a failed context whose other posted
  operations succeed is never dropped. Line 93: "Once cnt_finished_ops catches up with
  cnt_posted_ops, the context will be dropped."
* `FinishedContextDropped`. `progress_rdma_write_ops` pops a context without clearing
  `in_queue` (line 710), so its last completion does not drop it. Line 667: "All ops completed
  successfully. Drop from poll_cq when last op is completed."

`VerbsWrites` (1 write, 2 peers, `MaxOps = 3`, `Depth = 1`; 2 writes for the last two):
* `BadContextDropped`, `FinishedContextDropped`. As for EFA (`verbs/verbs_domain.rs:900`, the list of
  "three ways to finalize a WriteOpContext").
* `EagerOnlyWhenIdle`. `do_submit_write` posts a new write although others are queued, and so out of
  order: "Try to eagerly post if currently there's no pending write ops."
* A write without operations is accepted and never reported, by either provider; the group does not make
  one. And `poll_cq` looks at `wc.opcode` of a failed completion (line 995), which verbs leaves undefined:
  the model takes it as the opcode that was posted.

`WriteOps` (constants of the run, `SPECIFICATION OpsSpec`). `RequestWritten` is about what callers ask for
(`InReach`); outside it:
* `PagesLandAtOffset`. The paged iterator of EFA drops `dst_offset` (`efa/efa_rdma_op.rs:201`);
  `PagedTransferRequest` has one and the Verbs iterator adds it.
* `EveryByteWritten`. `shard_single_transfer` rounds a quotient that was rounded down, and scatter shards
  have `length / num_shards` bytes (`domain_group.rs:582`, `efa/efa_rdma_op.rs:291`): the last bytes of a
  transfer can belong to no shard. `api.rs` has no such restriction on lengths.

`MemoryRegions` (constants of the run, with the changes named):
* `NoOrphans`. A region that was created and whose bind or enable fails is neither closed nor entered in the
  map (`efa/efa_domain.rs:362`). The current CUDA device is not restored on these paths either.
* `HandlesUsable` with `Tidy = FALSE`. The cache ignores length and access (`efa_domain.rs:290`,
  `verbs_domain.rs:632`): registering for remote access what is registered locally returns keys of the local
  region. And `add_peer_group` enters a group before adding it to the domains (`domain_group.rs`), so that
  a second call after a failure returns a handle some domains do not know.
* `NoStaleMr` with `Tidy = FALSE`. `unregister_memory` asks the main worker only (`fabric_engine.rs:154`),
  which does not know memory registered for another GPU; `fabric-debug/src/main.rs:316` unregisters such
  memory.
* `BuffersInUse` with `FreshStorage = FALSE`, `Addrs = {}`. The storage of bouncing receives is never unregistered
  (`transfer_engine.rs:279`); one allocated at the same address later is given the old region.

`Startup` (`NumWorkers = 2`, `Nets = {1, 2}`, `MaxFailures = 1`):
* `NothingLeftOpen`. `Drop` for `VerbsDomain` does not destroy the shared receive queues
  (`verbs_domain.rs:1340`, where a comment has "TODO: drop only_qp and ud"), and the UD queue pair has no
  guard while it is activated (line 286); the protection domains below stay open too.
* `ConstructorAlwaysReturns`. When the UVM thread fails and the RDMA thread runs, `wait_init` joins the
  latter while it holds the senders and the stop signal the thread waits for (`worker.rs:264`).
* A `TransferEngine` that is dropped without `stop` leaves all its threads running: the callback thread owns
  a reference to the `FabricEngine`, whose `Drop` is what stops the workers.

`MCDomainGroup` (`N = 2`, 1 id):
* `PostedWhereBuilt` with `Requests <- PinnedSingle`. The operations are built for the chosen
  domain and zipped with the domains from index 0 (`domain_group.rs:289`). `api.rs:100`: "Send the
  transfer via a specific domain."
* `CounterMoves` with `EveryKind`. A refused request drops its `TransferCounter` without
  `error()` (`worker.rs:458`). `api.rs:239`: "Transfer counter exposing a pollable interface to
  transfer completion."
* `AcceptedIsResolved` with `EmptyPaged`. A paged transfer of no pages books zero domains and is
  never resolved (`domain_group.rs:318`). Line 500: "Return Transfer if all domains have
  completed the transfer."

`ImmCount` (2 workers, `Expected = 2`, `MaxImms = 5`):
* `CounterReset`. A second worker between `fetch_add` and `fetch_sub` lifts the counter past the
  value that is compared for equality (`imm_count.rs:39`), and that count is missed.
  `transfer_engine.rs:488`: "The counter has already been reset as soon as it reached the
  expected value."
* `OverflowDelivered`. A queued `ImmCountReached` finds its repeated handler gone, and its
  immediates reach no callback. `transfer_engine.rs:497`: "Call ImmData callback if there are
  overflow counts."
* `CounterGoneWithHandler`. The once branch leaves the map's entry in place
  (`transfer_engine.rs:474`: "Remove the counter from the engine.").

`MCRoutingPlan` (constants of the run):
* `DispatchExpectedDp`. Every rank of a remote group sends its private part with an immediate,
  and the receiver counts one per group (`a2a_worker.rs:663`), so with `dp_size > 1` on several
  nodes the counter is released early. Line 443: "Register a callback to wait for the expected
  number of immediates." `ImmediatesExpected` is about the other shapes.
* `TokensFoundDp`. Every rank of a group writes the private parts, by RDMA (`a2a_worker.rs:554`) or over
  NVLink (`a2a_dispatch_send.cu:383`, fixed sizes), each in its own order (line 188: "Assign an offset to
  the token within the current rank and expert."), so with `dp_size > 1` a receiver may find one token twice and
  another not at all. `tests/p2p_all_to_all/test_p2p_all_to_all.py:231`: "Missing {num_missing} tokens on rank
  {dp_rank}".
* `ResultsReturnDp`. A result computed from the token one rank of a group put into a slot is written to all of
  them (`a2a_combine_send.cu:197`), and each sums it for the token it has there itself
  (`a2a_combine_recv.cu:67`). Line 233 of the same test: "Verify the combine output."
* `BuffersAlwaysSuffice`. `max_recv_tokens` (`p2p_all_to_all.py:94`, "Determine the size of the
  recv buffers.") bounds what a rank receives, not what a group sends, so with data-parallel groups
  and more experts per token than `num_dp_groups * num_local_experts` the send buffer is too small.
  `BuffersSuffice` is about the other shapes.
* `Shapes` leaves out numbers of experts for which a rank's first expert lies beyond the last one
  (5 experts on 4 ranks): `num_local_experts` underflows there.

`AllToAll` (`World = 2`, `NodeSizes = {1}`, `Nets = 1`, `MaxOverflow = 1`, `MaxRounds = 3`):
* `BarrierWaitsForSends`. `num_dispatch_tx` does not count the routing transfer
  (`a2a_worker.rs:445`), so a barrier can end with a transfer of its round under way. Line 869:
  "Wait for the sends to complete." `BuffersKept` holds nevertheless.

`KernelBlocks` (`Blocks = 3`, `NodeSizes = {2}`, `MaxRounds = 2`, `FixedDims = {TRUE}`, `QuickTokens = {3}`,
`SlowTokens = {}`, `EfaTokens = {3}` unless said):
* `StreamEnds` with `EfaTokens = {1}`. A block lowers `dispatch_recv_flag` while an idle block
  still waits for it (`a2a_dispatch_recv.cu:232`). Line 174: "Wait for the worker to indicate that all
  tokens have been received over EFA."
* `NoWriteWhileSending` with `EfaTokens = {0, 3}`. Without such tokens every block raises
  `combine_send_done` (`a2a_combine_send.cu:76`); one raised late is taken for the next round's.
  Line 72: "Wait for all transactions using the send buffer to finish before writing to it."
* `SendBufferFilled` with `QuickTokens = {}`, `SlowTokens = {1}`. A block that adds zero before the
  counter is reset raises `dispatch_send_done` again (`a2a_dispatch_send.cu:465`).
  `a2a_worker.rs:421`: "Wait for the dispatch kernel to copy tokens into send buffers."
* `SendBufferFilled` with `FixedDims = {FALSE}`. Thread 0 counts its block's token without a
  `__syncthreads` after the copy (`a2a_dispatch_send.cu:326`), so the flag can be up before the other threads
  have stored theirs. The same comment.
* `SendWaitEnds` with `QuickTokens = {0}`. No block counts an empty batch
  (`a2a_dispatch_send.cu:268`), and the wait of `a2a_worker.rs:421` does not end.

`Engine`:
* `WatcherEnds` (1 transfer, `CqCap = 6`, `MaxUses = 1`, `MaxValue = 2`). The callback thread
  removes a watcher from a map while it holds a reference into it (`transfer_engine.rs:526`).
* `RepostEnds` (2 transfers, 1 send, 1 recv, both channels of 1, `MaxUses = 4`,
  `MaxMessages = 1`). The worker waits for room in the completion channel
  (`worker.rs:512`) and the callback thread for room in the command channel
  (`transfer_engine.rs:450`). `StopJoins` fails for the same reason when the completion channel is
  smaller than what is outstanding.

`MCVerbsPeers` (`MaxSubmits = 2`, `Buffers = 2`, `MaxFaults = 1`):
* `PendingWritten`. A group write that fails after it has created a peer leaves a pointer to a
  `PendingGroupWriteOp` that was never written (`verbs_domain.rs:1303`). Line 616: "It's always
  Some."
* `GroupOnConnected`. `add_peer_group` takes the queue pair of a peer that is still connecting for one that
  is ready (`verbs_domain.rs:1212`), so that a write to the group is posted on it.

## Not modelled, and next steps

Not modelled, because they have no protocol of their own: topology and device discovery, CUDA
memory wrappers, Python bindings, the debug tool, logging and build crates; the numeric conversion and
weighted sum of tokens; the attributes of queue pairs and the formats of addresses.

Not modelled yet:

1. The two-sided sends and receives inside the two providers (queues of their own, posted in order and
   completed by the NIC, without contexts); `Engine` has them as operations that complete or fail.
2. NVLink flags between the GPUs of one node, which the kernels of different ranks set for each other;
   `KernelBlocks` has one rank, for which they are up to the environment.
3. Thread start-up and the exchange of handles of the all-to-all worker.
4. Theorems: `RecvHeldOnce` of `Engine` for any number of buffers and messages; `RoundsSeparate` of `KernelBlocks` for any number of blocks.
