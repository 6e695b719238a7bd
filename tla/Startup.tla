------------------------------ MODULE Startup ------------------------------
(***************************************************************************)
(* Starting and stopping an engine: TransferEngineBuilder::build,          *)
(* TransferEngine::new, FabricEngine::new, Worker::spawn, wait_init, the   *)
(* two threads of each worker, and the device resources that the RDMA      *)
(* thread opens, with Defer guards, and drops                              *)
(* (fabric-lib/src/fabric_engine.rs, worker.rs, efa/efa_domain.rs,         *)
(* verbs/verbs_domain.rs, verbs/verbs_qp.rs, utils/defer.rs).              *)
(*                                                                         *)
(* The constructor and the threads run concurrently.  A thread is told to  *)
(* go in three ways: its stop signal; the receiver of its initialization   *)
(* message is gone; or the senders of its channels are, which are in that  *)
(* message until wait_init takes it and in the WorkerHandle afterwards.    *)
(***************************************************************************)
EXTENDS Integers, Sequences

CONSTANTS
    NumWorkers,     \* workers, one per GPU
    Nets,           \* numbers of domains a worker may be given
    Providers,      \* "efa", "verbs"
    MaxFailures     \* bound: calls that fail

ASSUME StartupAssumption ==
    NumWorkers \in Nat \ {0} /\ Nets \subseteq Nat \ {0} /\ MaxFailures \in Nat

VARIABLES
    provider,
    nets,           \* domains of each worker
    main,           \* the constructing thread: what it does, and for which worker
    callback,       \* the callback thread
    rdma, uvm,      \* what the two threads of each worker do
    init_rdma, init_uvm,    \* their initialization messages
    listening,      \* workers whose InitializingWorker (the receivers) exists
    connected,      \* workers whose WorkerHandle (the senders, the stop signals) exists
    stop_signal,    \* workers told to stop
    opened,         \* open resources of each domain of each worker
    next_domain,    \* per worker: the domain to open next
    failures

threads == <<rdma, uvm, init_rdma, init_uvm>>
devices == <<opened, next_domain>>
handles == <<listening, connected, stop_signal>>
vars == <<provider, nets, main, callback, threads, devices, handles, failures>>

Workers == 1..NumWorkers

----------------------------------------------------------------------------
(* Opening a domain.                                                        *)

\* The steps of `open`.  Those in Guarded make a resource and put a Defer guard
\* on it; "ud" is a resource without a guard; the others may only fail.
EfaSteps == <<"fabric", "domain", "cq", "av", "ep", "bind and enable">>

\* The UD queue pair is created and taken to its sending state.
UdSteps == <<"ud", "activate">>

VerbsSteps ==
    <<"context", "query", "td", "mt_pd", "pd", "cq", "msg_srq", "rma_srq">> \o UdSteps \o <<"post_init">>

Steps(p) == IF p = "efa" THEN EfaSteps ELSE VerbsSteps

Guarded == {"fabric", "domain", "cq", "av", "ep", "context", "td", "mt_pd", "pd",
            "msg_srq", "rma_srq"}

\* With the memory regions, and the queue pairs to peers.
Resources == Guarded \cup {"ud", "mr", "rc"}

\* What a resource was made from: the provider refuses to close it before.
Uses(r) ==
    CASE r = "domain"             -> {"fabric"}
      [] r = "av"                 -> {"domain"}
      [] r = "cq"                 -> {"domain"}
      [] r = "ep"                 -> {"domain", "cq", "av"}
      [] r = "pd"                 -> {"mt_pd", "td"}
      [] r \in {"msg_srq", "rma_srq"} -> {"pd"}
      [] r = "ud"                 -> {"pd", "cq"}
      [] r = "rc"                 -> {"pd", "cq", "msg_srq", "rma_srq"}
      [] r = "mr"                 -> {"domain", "ep", "pd"}
      [] OTHER                    -> {}

InUse(r, open) == \E s \in open : r \in Uses(s)

\* Mutant: the guards run in the order they were declared.
UnwindForwards(p, n) ==
    SelectSeq([i \in 1..n |-> Steps(p)[i]], LAMBDA r : r \in Guarded)

\* The guards that run when `open` fails at step n + 1: the last made first.
Unwind(p, n) ==
    SelectSeq([i \in 1..n |-> Steps(p)[n + 1 - i]], LAMBDA r : r \in Guarded)

\* Drop for EfaDomain and VerbsDomain.
EfaDrop == <<"mr", "ep", "av", "cq", "domain", "fabric">>

VerbsDrop == <<"mr", "rc", "ud", "cq", "pd", "mt_pd", "td", "context">>

DropOrder(p) == IF p = "efa" THEN EfaDrop ELSE VerbsDrop

\* What the closing calls rs leave open: a call that is refused leaves its resource.
Closing(open, rs) ==
    LET left[i \in 0..Len(rs)] ==
            IF i = 0 THEN open
            ELSE LET before == left[i - 1]
                 IN IF InUse(rs[i], before) THEN before ELSE before \ {rs[i]}
    IN left[Len(rs)]

----------------------------------------------------------------------------

TypeOK ==
    /\ provider \in Providers /\ nets \in [Workers -> Nets]
    /\ main.at \in {"build", "spawn rdma", "spawn uvm", "wait rdma", "wait uvm", "join",
                    "spawn callback", "running", "stopping", "stopped", "failed"}
    /\ main.w \in 1..NumWorkers + 1
    /\ callback \in {"none", "runs", "ended"}
    /\ rdma \in [Workers -> {"none", "starts", "opens", "reports", "runs",
                             "returns", "ended"}]
    /\ uvm \in [Workers -> {"none", "starts", "runs", "ended"}]
    /\ init_rdma \in [Workers -> {"none", "ok", "err", "taken"}]
    /\ init_uvm \in [Workers -> {"none", "ok", "err", "taken"}]
    /\ listening \subseteq Workers /\ connected \subseteq Workers /\ stop_signal \subseteq Workers
    /\ \A w \in Workers : \A d \in DOMAIN opened[w] : opened[w][d] \subseteq Resources
    /\ failures \in 0..MaxFailures

Init ==
    /\ provider \in Providers /\ nets \in [Workers -> Nets]
    /\ main = [at |-> "build", w |-> 1] /\ callback = "none"
    /\ rdma = [w \in Workers |-> "none"] /\ uvm = [w \in Workers |-> "none"]
    /\ init_rdma = [w \in Workers |-> "none"] /\ init_uvm = [w \in Workers |-> "none"]
    /\ listening = {} /\ connected = {} /\ stop_signal = {}
    /\ opened = [w \in Workers |-> [d \in 1..nets[w] |-> {}]]
    /\ next_domain = [w \in Workers |-> 1]
    /\ failures = 0

MayFail == failures < MaxFailures /\ failures' = failures + 1

----------------------------------------------------------------------------
(* The constructing thread.                                                 *)

Goes(at, w) == main' = [at |-> at, w |-> w]

\* The constructor returns an error: whatever it holds is dropped.
Fails == Goes("failed", main.w) /\ listening' = {} /\ connected' = {}

\* build: the GPUs, domains and CPUs asked for are those of the topology, or not.
Build ==
    /\ main.at = "build"
    /\ Goes("spawn rdma", 1) \/ Goes("failed", 1)
    /\ UNCHANGED <<provider, nets, callback, threads, devices, handles, failures>>

\* The numbers of domains rdma_worker_thread is instantiated for.
Supported(n) == n \in IF provider = "efa" THEN {1, 2, 4} ELSE {1, 2}

\* Worker::spawn starts the RDMA thread, unless the number of domains is not
\* supported or the thread cannot be made.
SpawnRdma ==
    /\ main.at = "spawn rdma"
    /\ LET w == main.w IN
        \/ /\ Supported(nets[w])
           /\ rdma' = [rdma EXCEPT ![w] = "starts"]
           /\ listening' = listening \cup {w}
           /\ Goes("spawn uvm", w)
           /\ UNCHANGED <<connected, failures>>
        \/ ~Supported(nets[w]) /\ Fails /\ UNCHANGED <<rdma, failures>>
        \/ Supported(nets[w]) /\ MayFail /\ Fails /\ UNCHANGED rdma
    /\ UNCHANGED <<provider, nets, callback, uvm, init_rdma, init_uvm, devices, stop_signal>>

SpawnUvm ==
    /\ main.at = "spawn uvm"
    /\ LET w == main.w IN
        \/ /\ uvm' = [uvm EXCEPT ![w] = "starts"]
           /\ IF w < NumWorkers THEN Goes("spawn rdma", w + 1) ELSE Goes("wait rdma", 1)
           /\ UNCHANGED <<listening, connected, failures>>
        \/ MayFail /\ Fails /\ UNCHANGED uvm
    /\ UNCHANGED <<provider, nets, callback, rdma, init_rdma, init_uvm, devices, stop_signal>>

\* wait_init receives the message of the RDMA thread, and then that of the UVM
\* thread.
WaitRdma ==
    /\ main.at = "wait rdma" /\ init_rdma[main.w] # "none"
    /\ Goes("wait uvm", main.w)
    /\ UNCHANGED <<provider, nets, callback, threads, devices, handles, failures>>

WaitUvm ==
    /\ main.at = "wait uvm" /\ init_uvm[main.w] # "none"
    /\ LET w == main.w IN
        IF init_rdma[w] = "ok" /\ init_uvm[w] = "ok"
        THEN /\ listening' = listening \ {w} /\ connected' = connected \cup {w}
             /\ init_rdma' = [init_rdma EXCEPT ![w] = "taken"]
             /\ init_uvm' = [init_uvm EXCEPT ![w] = "taken"]
             /\ IF w < NumWorkers THEN Goes("wait rdma", w + 1) ELSE Goes("spawn callback", w)
        ELSE Goes("join", w) /\ UNCHANGED <<listening, connected, init_rdma, init_uvm>>
    /\ UNCHANGED <<provider, nets, callback, rdma, uvm, devices, stop_signal, failures>>

\* Mutant: the UVM thread is joined.
JoinUvm ==
    /\ main.at = "join" /\ uvm[main.w] = "ended"
    /\ Fails
    /\ UNCHANGED <<provider, nets, callback, threads, devices, stop_signal, failures>>

\* One of the two failed: the RDMA thread is joined, whichever of them it was,
\* with the messages still in hand.
Join ==
    /\ main.at = "join" /\ rdma[main.w] = "ended"
    /\ Fails
    /\ UNCHANGED <<provider, nets, callback, threads, devices, stop_signal, failures>>

\* TransferEngine::new starts the callback thread.  If it cannot, the engine is
\* dropped, which stops the workers.
SpawnCallback ==
    /\ main.at = "spawn callback"
    /\ \/ callback' = "runs" /\ Goes("running", 1) /\ UNCHANGED <<handles, failures>>
       \/ MayFail /\ Fails /\ stop_signal' = Workers /\ UNCHANGED callback
    /\ UNCHANGED <<provider, nets, threads, devices>>

\* What is made in a domain once it is open: memory regions, and on Verbs the
\* queue pairs of peers.
MadeLater(p) == IF p = "efa" THEN {"mr"} ELSE {"mr", "rc"}

UseDomains(w) ==
    /\ main.at = "running" /\ rdma[w] = "runs"
    /\ opened' = [opened EXCEPT ![w] = [d \in DOMAIN @ |-> @[d] \cup MadeLater(provider)]]
    /\ opened' # opened
    /\ UNCHANGED <<provider, nets, main, callback, threads, next_domain, handles, failures>>

\* Mutant: stop reaches the first worker only.
StopFirst ==
    /\ main.at = "running"
    /\ stop_signal' = {1} /\ Goes("stopping", 1)
    /\ UNCHANGED <<provider, nets, callback, threads, devices, listening, connected, failures>>

\* TransferEngine::stop: the signals, then the callback thread is joined.
Stop ==
    /\ main.at = "running"
    /\ stop_signal' = Workers /\ Goes("stopping", 1)
    /\ UNCHANGED <<provider, nets, callback, threads, devices, listening, connected, failures>>

StopJoins ==
    /\ main.at = "stopping" /\ callback = "ended"
    /\ Goes("stopped", 1)
    /\ UNCHANGED <<provider, nets, callback, threads, devices, handles, failures>>

MainThread ==
    Build \/ SpawnRdma \/ SpawnUvm \/ WaitRdma \/ WaitUvm \/ Join \/ SpawnCallback \/ StopJoins

\* callback_worker_thread ends when the engine is stopped.
Callback ==
    /\ callback = "runs" /\ stop_signal # {}
    /\ callback' = "ended"
    /\ UNCHANGED <<provider, nets, main, threads, devices, handles, failures>>

----------------------------------------------------------------------------
(* The threads of worker w.                                                 *)

Becomes(w, at) == rdma' = [rdma EXCEPT ![w] = at]

\* rdma_worker_thread pins its CPU and goes on to open its domains.
PinRdma(w) ==
    /\ rdma[w] = "starts"
    /\ \/ Becomes(w, "opens") /\ UNCHANGED failures
       \/ Becomes(w, "reports") /\ MayFail
    /\ UNCHANGED <<provider, nets, main, callback, uvm, init_rdma, init_uvm, devices, handles>>

\* open, up to its step n: the resources it has made, and those it leaves when
\* the next step fails.  The guards run, but for post_init: by then they are
\* cancelled, and the domain, which may have its first region, is dropped.
Made(p, n) == {Steps(p)[i] : i \in 1..n} \cap Resources

FailedAfter(p, n) ==
    IF Steps(p)[n + 1] = "post_init"
    THEN {Closing(Made(p, n) \cup m, DropOrder(p)) : m \in {{}, {"mr"}}}
    ELSE {Closing(Made(p, n), Unwind(p, n))}

Failed == [p \in Providers |-> UNION {FailedAfter(p, n) : n \in 0..Len(Steps(p)) - 1}]

Complete == [p \in Providers |-> Made(p, Len(Steps(p))) \cup IF p = "verbs" THEN {"mr"} ELSE {}]

\* An open domain is dropped, used or not.
Dropped == [p \in Providers |->
    [open \in {Complete[p], Complete[p] \cup MadeLater(p)} |-> Closing(open, DropOrder(p))]]

OpenDomain(w) ==
    /\ rdma[w] = "opens"
    /\ LET d == next_domain[w] IN
        \/ /\ opened' = [opened EXCEPT ![w][d] = Complete[provider]]
           /\ next_domain' = [next_domain EXCEPT ![w] = d + 1]
           /\ Becomes(w, IF d = nets[w] THEN "reports" ELSE "opens")
           /\ UNCHANGED failures
        \/ /\ MayFail
           /\ \E left \in Failed[provider] : opened' = [opened EXCEPT ![w][d] = left]
           /\ Becomes(w, "reports")
           /\ UNCHANGED next_domain
    /\ UNCHANGED <<provider, nets, main, callback, uvm, init_rdma, init_uvm, handles>>

\* The initialization message.  If nobody wants it, or it is an error, the
\* thread returns.
ReportRdma(w) ==
    /\ rdma[w] = "reports"
    /\ LET ok == next_domain[w] > nets[w] IN
        /\ init_rdma' = IF w \in listening
                        THEN [init_rdma EXCEPT ![w] = IF ok THEN "ok" ELSE "err"]
                        ELSE init_rdma
        /\ Becomes(w, IF ok /\ w \in listening THEN "runs" ELSE "returns")
    /\ UNCHANGED <<provider, nets, main, callback, uvm, init_uvm, devices, handles, failures>>

\* What the thread has opened is dropped when it returns.
ReturnRdma(w) ==
    /\ rdma[w] = "returns"
    /\ opened' = [opened EXCEPT ![w] =
            [d \in DOMAIN @ |-> IF d < next_domain[w] THEN Dropped[provider][@[d]] ELSE @[d]]]
    /\ Becomes(w, "ended")
    /\ UNCHANGED <<provider, nets, main, callback, uvm, init_rdma, init_uvm, next_domain, handles,
                   failures>>

\* The senders of the channels of w are gone, or w is told to stop.
ToldToGo(w) == w \in stop_signal \/ w \notin listening \cup connected

\* The loop ends, by its condition or by the panic on a disconnected channel.  A send
\* on the completion channel, which may block inside the loop while nobody reads it,
\* is left to Engine: here the loop always comes round to its condition.
LeaveRdma(w) ==
    /\ rdma[w] = "runs" /\ ToldToGo(w)
    /\ Becomes(w, "returns")
    /\ UNCHANGED <<provider, nets, main, callback, uvm, init_rdma, init_uvm, devices, handles, failures>>

Rdma(w) == PinRdma(w) \/ OpenDomain(w) \/ ReportRdma(w) \/ LeaveRdma(w) \/ ReturnRdma(w)

\* uvm_worker_thread pins its CPU and reports.
StartUvm(w) ==
    /\ uvm[w] = "starts"
    /\ \E ok \in BOOLEAN :
        /\ IF ok THEN UNCHANGED failures ELSE MayFail
        /\ uvm' = [uvm EXCEPT ![w] = IF ok /\ w \in listening THEN "runs" ELSE "ended"]
        /\ init_uvm' = IF w \in listening
                       THEN [init_uvm EXCEPT ![w] = IF ok THEN "ok" ELSE "err"]
                       ELSE init_uvm
    /\ UNCHANGED <<provider, nets, main, callback, rdma, init_rdma, devices, handles>>

LeaveUvm(w) ==
    /\ uvm[w] = "runs" /\ ToldToGo(w)
    /\ uvm' = [uvm EXCEPT ![w] = "ended"]
    /\ UNCHANGED <<provider, nets, main, callback, rdma, init_rdma, init_uvm, devices, handles, failures>>

Uvm(w) == StartUvm(w) \/ LeaveUvm(w)

Next ==
    \/ MainThread \/ Stop \/ Callback
    \/ \E w \in Workers : Rdma(w) \/ Uvm(w) \/ UseDomains(w)

\* Threads run; the application need not stop the engine.
Fairness ==
    /\ WF_vars(MainThread) /\ WF_vars(Callback)
    /\ \A w \in Workers : WF_vars(Rdma(w)) /\ WF_vars(Uvm(w))

Spec == Init /\ [][Next]_vars /\ Fairness

----------------------------------------------------------------------------
(* Properties                                                               *)

\* What a Verbs domain is known to leave: Drop does not destroy the shared
\* receive queues, and nothing guards the UD queue pair while it is activated;
\* the domains of protection they were made in cannot be closed either.
LeftByVerbs == {{"msg_srq", "rma_srq", "pd", "mt_pd", "td"}, {"ud", "cq", "pd", "mt_pd", "td"}}

\* A thread that has ended has closed all it opened, however far it came, in an
\* order the provider accepts: the Defer guards of open, and Drop
\* (efa_domain.rs:1043, verbs_domain.rs:1340).  Verbs leaves no more than is known.
ClosedWhenEnded == TypeOK /\
    \A w \in Workers : rdma[w] = "ended" =>
        \A d \in 1..nets[w] :
            \/ opened[w][d] = {}
            \/ provider = "verbs" /\ opened[w][d] \in LeftByVerbs

\* The case wait_init does not end in: the UVM thread failed and the RDMA thread,
\* which it joins, runs.
UvmAlone ==
    \E w \in Workers : main.at = "join" /\ main.w = w /\ init_rdma[w] = "ok" /\ init_uvm[w] = "err"

\* Whatever fails, the constructor returns: wait_init gets a message from each
\* thread or joins one that ends (worker.rs:244), except in that one case.
ConstructorReturns ==
    <>(main.at \in {"running", "stopping", "stopped", "failed"} \/ UvmAlone)

AllEnded == \A w \in Workers : rdma[w] \in {"none", "ended"} /\ uvm[w] \in {"none", "ended"}

\* When the constructor fails, or the engine is stopped, every thread that was
\* started ends: those never waited for, those that have reported to nobody and
\* those whose handle is dropped included (fabric_engine.rs:43, worker.rs:398).
ThreadsEnd == main.at \in {"failed", "stopping"} ~> (AllEnded /\ callback # "runs")

\* Disagreements, violated: see README.

\* Nothing is left open by either provider.
NothingLeftOpen ==
    \A w \in Workers : rdma[w] = "ended" => \A d \in 1..nets[w] : opened[w][d] = {}

\* The constructor returns also when the UVM thread fails.
ConstructorAlwaysReturns == <>(main.at \in {"running", "stopping", "stopped", "failed"})
============================================================================
