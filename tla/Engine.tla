------------------------------- MODULE Engine -------------------------------
(***************************************************************************)
(* The threads of a TransferEngine with one GPU and the bounded channels   *)
(* between them:                                                           *)
(*   application -- cmd --> worker thread -- cq --> callback thread        *)
(*   application, callback thread <-- calls --> UVM watcher thread -- cq   *)
(* (fabric-lib/src/transfer_engine.rs, fabric_engine.rs, worker.rs.)       *)
(*                                                                         *)
(* An operation is a transfer, a send or a recv; its handler is registered *)
(* before it is submitted.  A recv is submitted again by the callback      *)
(* thread each time it completes.  The DomainGroup is what TransferOutcome  *)
(* says of it: an operation completes or fails, and a failed transfer may  *)
(* report more than one error.  Immediates are in ImmCount.                *)
(***************************************************************************)
EXTENDS Integers, Sequences, FiniteSets

CONSTANTS
    Transfers, Sends, Recvs,    \* the operations, by kind
    CmdCap, CqCap,              \* capacity of the channels (128 in the code)
    MaxUses,                    \* bound: operations and watchers in one behaviour
    MaxMessages,                \* bound: completions of each recv
    MaxValue                    \* bound: values written to the watched word

Ops == Transfers \cup Sends \cup Recvs

ASSUME EngineAssumption ==
    /\ CmdCap \in Nat \ {0} /\ CqCap \in Nat \ {0}
    /\ MaxUses \in Nat /\ MaxMessages \in Nat /\ MaxValue \in Nat

VARIABLES
    app,        \* what the application has done about each operation
    handlers,   \* operations in transfer_ops, send_ops or recv_ops
    called,     \* outcomes each handler was called with
    cmd, cq,    \* the channels to the worker and to the callback thread
    posted,     \* operations the DomainGroup works on
    late,       \* failed transfers with another error to come
    ready,      \* completions the DomainGroup has not yet returned
    worker, sending,    \* worker thread, and the entry it is sending
    callback, handling, \* callback thread, and the entry it is handling
    uvm, noticed,       \* UVM thread, and the entry it is sending
    call, reply,        \* the pending call to it and its answer
    slot,       \* whether the slot is used, and the watcher registered in it
    value, last_value,  \* the watched word, and what the UVM thread saw last
    watched,    \* value last handed to the watcher's callback
    stopped     \* stop() has been called

ops  == <<app, handlers, called, posted, late, ready>>
uvms == <<uvm, noticed, call, reply, slot, value, last_value, watched>>
vars == <<ops, cmd, cq, worker, sending, callback, handling, uvms, stopped>>

Outcomes == {"done", "error"}
None     == <<"none">>
Reports  == Ops \X Outcomes
Watches  == {<<"uvm", o, n>> : o, n \in 0..MaxValue}

Messages(r) == Cardinality({i \in 1..Len(called[r]) : called[r][i] = "done"})

TypeOK ==
    /\ app \in [Ops -> {"new", "registered", "submitted", "refused"}]
    /\ handlers \subseteq Ops
    /\ called \in [Ops -> Seq(Outcomes)]
    /\ cmd \in Seq(Ops) /\ Len(cmd) <= CmdCap
    /\ cq \in Seq(Reports \cup Watches) /\ Len(cq) <= CqCap
    /\ posted \subseteq Ops /\ late \subseteq Transfers /\ ready \subseteq Reports
    /\ worker \in {"check", "refuse", "poll", "drain", "send", "exited"}
    /\ sending \in Reports \cup {None}
    /\ callback \in {"check", "take", "repost", "release", "releasing", "remove", "exited"}
    /\ handling \in Reports \cup Watches \cup {None}
    /\ uvm \in {"check", "scan", "send", "exited"}
    /\ noticed \in Watches \cup {None}
    /\ call \in {"none", "acquire", "release"} /\ reply \in BOOLEAN
    /\ slot \in [used: BOOLEAN, watcher: {"none", "acquiring", "registered"}]
    /\ value \in 0..MaxValue /\ last_value \in 0..MaxValue /\ watched \in 0..MaxValue
    /\ stopped \in BOOLEAN

Init ==
    /\ app = [o \in Ops |-> "new"] /\ handlers = {}
    /\ called = [o \in Ops |-> <<>>]
    /\ cmd = <<>> /\ cq = <<>>
    /\ posted = {} /\ late = {} /\ ready = {}
    /\ worker = "check" /\ sending = None
    /\ callback = "check" /\ handling = None
    /\ uvm = "check" /\ noticed = None /\ call = "none" /\ reply = FALSE
    /\ slot = [used |-> FALSE, watcher |-> "none"]
    /\ value = 0 /\ last_value = 0 /\ watched = 0
    /\ stopped = FALSE

----------------------------------------------------------------------------
(* The application.                                                         *)

Uses == Cardinality({o \in Ops : app[o] # "new"})
        + (IF slot.watcher = "none" THEN 0 ELSE 1)

\* submit_transfer, submit_send, submit_recv: the handler goes into its map ...
Register(o) ==
    /\ app[o] = "new" /\ Uses < MaxUses
    /\ app' = [app EXCEPT ![o] = "registered"]
    /\ handlers' = handlers \cup {o}
    /\ UNCHANGED <<called, posted, late, ready, cmd, cq, worker, sending, callback,
                   handling, uvms, stopped>>

\* ... and the command to the worker, when there is room and it still runs.
Submit(o) ==
    /\ app[o] = "registered"
    /\ IF worker = "exited"
       THEN app' = [app EXCEPT ![o] = "refused"] /\ UNCHANGED cmd
       ELSE /\ Len(cmd) < CmdCap
            /\ cmd' = Append(cmd, o)
            /\ app' = [app EXCEPT ![o] = "submitted"]
    /\ UNCHANGED <<handlers, called, posted, late, ready, cq, worker, sending,
                   callback, handling, uvms, stopped>>

\* alloc_scalar_watcher: a slot is asked for ...
AcquireWatcher ==
    /\ slot.watcher = "none" /\ uvm # "exited" /\ Uses < MaxUses
    /\ call' = "acquire"
    /\ slot' = [slot EXCEPT !.watcher = "acquiring"]
    /\ UNCHANGED <<ops, cmd, cq, worker, sending, callback, handling, uvm, noticed, reply,
                   value, last_value, watched, stopped>>

\* ... and, once the UVM thread has answered, the callback is registered.
RegisterWatcher ==
    /\ slot.watcher = "acquiring" /\ reply
    /\ slot' = [slot EXCEPT !.watcher = "registered"]
    /\ reply' = FALSE
    /\ UNCHANGED <<ops, cmd, cq, worker, sending, callback, handling, uvm, noticed, call,
                   value, last_value, watched, stopped>>

\* A kernel writes the next value.  (The word of a released slot is not looked at.)
Write ==
    /\ slot.watcher = "registered" /\ slot.used /\ value < MaxValue
    /\ value' = value + 1
    /\ UNCHANGED <<ops, cmd, cq, worker, sending, callback, handling, uvm, noticed, call,
                   reply, slot, last_value, watched, stopped>>

\* stop: every thread's stop signal is set, and the callback thread is joined.
Stop ==
    /\ ~stopped
    /\ stopped' = TRUE
    /\ UNCHANGED <<ops, cmd, cq, worker, sending, callback, handling, uvms>>

----------------------------------------------------------------------------
(* The worker thread: rdma_worker_thread and worker_step.                   *)

\* The stop signal ends the thread, and with it the channel it reads.
WorkerExit ==
    /\ worker = "check" /\ stopped
    /\ worker' = "exited"
    /\ cmd' = <<>>
    /\ UNCHANGED <<ops, cq, sending, callback, handling, uvms, stopped>>

\* Mutant: a refused operation is not reported.
WorkerCommandSilent ==
    /\ worker = "check" /\ ~stopped
    /\ \/ /\ cmd = <<>>
          /\ worker' = "poll"
          /\ UNCHANGED <<cmd, posted, sending>>
       \/ /\ cmd # <<>>
          /\ cmd' = Tail(cmd)
          /\ \/ /\ posted' = posted \cup {Head(cmd)}
                /\ worker' = "poll"
                /\ UNCHANGED sending
             \/ /\ worker' = "poll"
                /\ UNCHANGED <<posted, sending>>
    /\ UNCHANGED <<app, handlers, called, late, ready, cq, callback, handling, uvms,
                   stopped>>

\* One command at most: the group accepts the operation or refuses it.
WorkerCommand ==
    /\ worker = "check" /\ ~stopped
    /\ \/ /\ cmd = <<>>
          /\ worker' = "poll"
          /\ UNCHANGED <<cmd, posted, sending>>
       \/ /\ cmd # <<>>
          /\ cmd' = Tail(cmd)
          /\ \/ /\ posted' = posted \cup {Head(cmd)}
                /\ worker' = "poll"
                /\ UNCHANGED sending
             \/ /\ sending' = <<Head(cmd), "error">>
                /\ worker' = "refuse"
                /\ UNCHANGED posted
    /\ UNCHANGED <<app, handlers, called, late, ready, cq, callback, handling, uvms,
                   stopped>>

\* poll_progress: operations complete or fail while it runs.
Complete(o, outcome) ==
    /\ worker = "poll"
    /\ o \in posted
    /\ o \in Recvs /\ outcome = "done" => Messages(o) < MaxMessages
    /\ posted' = posted \ {o}
    /\ ready' = ready \cup {<<o, outcome>>}
    /\ \/ UNCHANGED late
       \/ o \in Transfers /\ outcome = "error" /\ late' = late \cup {o}
    /\ UNCHANGED <<app, handlers, called, cmd, cq, worker, sending, callback,
                   handling, uvms, stopped>>

\* Another part of a failed transfer fails.
FailAgain(o) ==
    /\ worker = "poll"
    /\ o \in late /\ <<o, "error">> \notin ready
    /\ late' = late \ {o}
    /\ ready' = ready \cup {<<o, "error">>}
    /\ UNCHANGED <<app, handlers, called, posted, cmd, cq, worker, sending, callback,
                   handling, uvms, stopped>>

PollDone ==
    /\ worker = "poll"
    /\ worker' = "drain"
    /\ UNCHANGED <<ops, cmd, cq, sending, callback, handling, uvms, stopped>>

\* get_completion: an entry to send, or the end of the step.
WorkerDrain ==
    /\ worker = "drain"
    /\ \/ /\ ready = {}
          /\ worker' = "check"
          /\ UNCHANGED <<ready, sending>>
       \/ \E e \in ready :
            /\ sending' = e
            /\ ready' = ready \ {e}
            /\ worker' = "send"
    /\ UNCHANGED <<app, handlers, called, posted, late, cmd, cq, callback, handling,
                   uvms, stopped>>

\* cq_tx.send waits for room.
WorkerSend ==
    /\ worker \in {"refuse", "send"}
    /\ Len(cq) < CqCap
    /\ cq' = Append(cq, sending)
    /\ sending' = None
    /\ worker' = IF worker = "refuse" THEN "poll" ELSE "drain"
    /\ UNCHANGED <<ops, cmd, callback, handling, uvms, stopped>>

Worker == WorkerExit \/ WorkerCommand \/ PollDone \/ WorkerDrain \/ WorkerSend

----------------------------------------------------------------------------
(* The UVM watcher thread: uvm_worker_thread and uwm_worker_step.           *)

UvmExit ==
    /\ uvm = "check" /\ stopped
    /\ uvm' = "exited"
    /\ UNCHANGED <<ops, cmd, cq, worker, sending, callback, handling, noticed, call,
                   reply, slot, value, last_value, watched, stopped>>

\* A call, if there is one: acquire takes the slot, release gives it back and
\* clears its word.
UvmCall ==
    /\ uvm = "check" /\ ~stopped
    /\ uvm' = "scan"
    /\ call' = "none"
    /\ reply' = (reply \/ call # "none")
    /\ slot' = [slot EXCEPT !.used = (@ \/ call = "acquire") /\ call # "release"]
    /\ value' = IF call = "release" THEN 0 ELSE value
    /\ last_value' = IF call = "release" THEN 0 ELSE last_value
    /\ UNCHANGED <<ops, cmd, cq, worker, sending, callback, handling, noticed, watched,
                   stopped>>

\* Mutant: the value seen is not kept.
UvmScanForgets ==
    /\ uvm = "scan"
    /\ IF slot.used /\ value # last_value
       THEN /\ noticed' = <<"uvm", last_value, value>>
            /\ UNCHANGED last_value
            /\ uvm' = "send"
       ELSE uvm' = "check" /\ UNCHANGED <<noticed, last_value>>
    /\ UNCHANGED <<ops, cmd, cq, worker, sending, callback, handling, call, reply, slot,
                   value, watched, stopped>>

\* Mutant: only the first change is reported.
UvmScanFirst ==
    /\ uvm = "scan"
    /\ IF slot.used /\ value # 0 /\ last_value = 0
       THEN /\ noticed' = <<"uvm", last_value, value>>
            /\ last_value' = value
            /\ uvm' = "send"
       ELSE uvm' = "check" /\ UNCHANGED <<noticed, last_value>>
    /\ UNCHANGED <<ops, cmd, cq, worker, sending, callback, handling, call, reply, slot,
                   value, watched, stopped>>

\* A used slot whose word has changed is reported.
UvmScan ==
    /\ uvm = "scan"
    /\ IF slot.used /\ value # last_value
       THEN /\ noticed' = <<"uvm", last_value, value>>
            /\ last_value' = value
            /\ uvm' = "send"
       ELSE uvm' = "check" /\ UNCHANGED <<noticed, last_value>>
    /\ UNCHANGED <<ops, cmd, cq, worker, sending, callback, handling, call, reply, slot,
                   value, watched, stopped>>

UvmSend ==
    /\ uvm = "send"
    /\ Len(cq) < CqCap
    /\ cq' = Append(cq, noticed)
    /\ noticed' = None
    /\ uvm' = "check"
    /\ UNCHANGED <<ops, cmd, worker, sending, callback, handling, call, reply, slot,
                   value, last_value, watched, stopped>>

Uvm == UvmExit \/ UvmCall \/ UvmScan \/ UvmSend

----------------------------------------------------------------------------
(* The callback thread: callback_worker_thread, handle_transfer_completion. *)

CallbackExit ==
    /\ callback = "check" /\ stopped
    /\ callback' = "exited"
    /\ UNCHANGED <<ops, cmd, cq, worker, sending, handling, uvms, stopped>>

CallbackTake ==
    /\ callback = "check" /\ ~stopped /\ cq # <<>>
    /\ handling' = Head(cq)
    /\ cq' = Tail(cq)
    /\ callback' = "take"
    /\ UNCHANGED <<ops, cmd, worker, sending, uvms, stopped>>

\* What follows a callback that may fail: a failure stops the engine.
GoOn(ok, next) ==
    /\ callback' = IF ok THEN next ELSE "exited"
    /\ handling' = IF ok /\ next = "repost" THEN handling ELSE None
    /\ stopped' = (stopped \/ ~ok)

\* Transfer and Send: the handler is taken out of its map and called.
HandleDone(o, ok) ==
    /\ callback = "take" /\ handling = <<o, "done">>
    /\ o \in (Transfers \cup Sends) \cap handlers
    /\ handlers' = handlers \ {o}
    /\ called' = [called EXCEPT ![o] = Append(@, "done")]
    /\ GoOn(ok, "check")
    /\ UNCHANGED <<app, posted, late, ready, cmd, cq, worker, sending, uvms>>

\* Recv: the handler stays in its map, and the recv is to be posted again.
HandleRecv(o, ok) ==
    /\ callback = "take" /\ handling = <<o, "done">>
    /\ o \in Recvs \cap handlers
    /\ called' = [called EXCEPT ![o] = Append(@, "done")]
    /\ GoOn(ok, "repost")
    /\ UNCHANGED <<app, handlers, posted, late, ready, cmd, cq, worker, sending, uvms>>

\* Mutant: try_send, its failure ignored.
RepostTry ==
    /\ callback = "repost"
    /\ IF worker = "exited"
       THEN GoOn(FALSE, "check") /\ UNCHANGED cmd
       ELSE /\ cmd' = IF Len(cmd) < CmdCap THEN Append(cmd, handling[1]) ELSE cmd
            /\ GoOn(TRUE, "check")
    /\ UNCHANGED <<ops, cq, worker, sending, uvms>>

\* Mutant: a command that finds no worker is tried again.
RepostRetries ==
    /\ callback = "repost"
    /\ IF worker = "exited"
       THEN UNCHANGED <<cmd, callback, handling, stopped>>
       ELSE /\ Len(cmd) < CmdCap
            /\ cmd' = Append(cmd, handling[1])
            /\ GoOn(TRUE, "check")
    /\ UNCHANGED <<ops, cq, worker, sending, uvms>>

\* "Re-register the operation": the command waits for room, or finds no worker.
Repost ==
    /\ callback = "repost"
    /\ IF worker = "exited"
       THEN GoOn(FALSE, "check") /\ UNCHANGED cmd
       ELSE /\ Len(cmd) < CmdCap
            /\ cmd' = Append(cmd, handling[1])
            /\ GoOn(TRUE, "check")
    /\ UNCHANGED <<ops, cq, worker, sending, uvms>>

\* Mutant: the handler stays in its map.
HandleErrorKeeps(o) ==
    /\ callback = "take" /\ handling = <<o, "error">>
    /\ handlers' = handlers
    /\ called' = IF o \in handlers THEN [called EXCEPT ![o] = Append(@, "error")]
                                   ELSE called
    /\ callback' = "check" /\ handling' = None
    /\ UNCHANGED <<app, posted, late, ready, cmd, cq, worker, sending, uvms,
                   stopped>>

\* Error: the handler, if there still is one, is taken out and called; what it
\* returns is only logged.
HandleError(o) ==
    /\ callback = "take" /\ handling = <<o, "error">>
    /\ handlers' = handlers \ {o}
    /\ called' = IF o \in handlers THEN [called EXCEPT ![o] = Append(@, "error")]
                                   ELSE called
    /\ callback' = "check" /\ handling' = None
    /\ UNCHANGED <<app, posted, late, ready, cmd, cq, worker, sending, uvms,
                   stopped>>

\* UvmWatch: the callback says whether the watcher goes on (more).
HandleWatch(more) ==
    /\ callback = "take" /\ handling \in Watches
    /\ slot.watcher = "registered"
    /\ watched' = handling[3]
    /\ handling' = None
    /\ callback' = IF more THEN "check" ELSE "release"
    /\ UNCHANGED <<ops, cmd, cq, worker, sending, uvm, noticed, call, reply,
                   slot, value, last_value, stopped>>

\* release_uvm_watcher asks the UVM thread, if it still runs, and waits for it.
ReleaseWatcher ==
    /\ callback = "release"
    /\ IF uvm = "exited" THEN callback' = "remove" /\ UNCHANGED call
                         ELSE callback' = "releasing" /\ call' = "release"
    /\ UNCHANGED <<ops, cmd, cq, worker, sending, handling, uvm, noticed, reply, slot,
                   value, last_value, watched, stopped>>

\* Then watchers.remove waits for the map's shard, which the reference this
\* thread got from watchers.get keeps locked: there is no step out of "remove".
Released ==
    /\ callback = "releasing" /\ (reply \/ uvm = "exited")
    /\ callback' = "remove"
    /\ reply' = FALSE
    /\ UNCHANGED <<ops, cmd, cq, worker, sending, handling, uvm, noticed, call, slot,
                   value, last_value, watched, stopped>>

Callback ==
    \/ CallbackExit \/ CallbackTake \/ Repost \/ ReleaseWatcher \/ Released
    \/ \E o \in Ops : \/ HandleError(o)
                      \/ \E ok \in BOOLEAN : HandleDone(o, ok) \/ HandleRecv(o, ok)
    \/ \E more \in BOOLEAN : HandleWatch(more)

----------------------------------------------------------------------------
Stuck == callback = "remove"

\* Every thread has ended, or waits for ever.
Terminated ==
    /\ worker = "exited" /\ uvm = "exited" /\ callback \in {"exited", "remove"}
    /\ UNCHANGED vars

Next ==
    \/ Stop \/ AcquireWatcher \/ RegisterWatcher \/ Write
    \/ \E o \in Ops : \/ Register(o) \/ Submit(o) \/ FailAgain(o)
                      \/ \E outcome \in Outcomes : Complete(o, outcome)
    \/ Worker \/ Uvm \/ Callback \/ Terminated

\* Each thread keeps running, a submission that was begun is finished, and the
\* DomainGroup resolves every transfer and send (TransferOutcome).
\* Nothing is assumed of the arrival of messages, of the kernel or of stop.
Spec ==
    /\ Init /\ [][Next]_vars
    /\ WF_vars(Worker) /\ WF_vars(Uvm) /\ WF_vars(Callback)
    /\ \A o \in Ops : WF_vars(Submit(o))
    /\ \A o \in Transfers \cup Sends : SF_vars(\E outcome \in Outcomes : Complete(o, outcome))

----------------------------------------------------------------------------
(* Properties.                                                              *)

\* How many of the places on the way from submission to handler hold o.
Count(seq, Is(_)) == Cardinality({i \in 1..Len(seq) : Is(seq[i])})
Places(o) ==
    LET Report(e) == e[1] = o
    IN  Count(cmd, LAMBDA e : e = o) + Count(cq, Report)
        + Cardinality({o} \cap posted) + Cardinality({e \in ready : Report(e)})
        + (IF Report(sending) THEN 1 ELSE 0)
        + (IF callback \in {"take", "repost"} /\ Report(handling) THEN 1 ELSE 0)

\* A transfer's or a send's handler is called once at most, though a failed
\* transfer reports an error for each of its parts; a recv's on_recv is never
\* called after its on_error.
CalledOnce ==
    /\ \A o \in Transfers \cup Sends : Len(called[o]) <= 1
    /\ \A o \in Recvs : \A i \in 1..Len(called[o]) - 1 : called[o][i] = "done"

\* While the engine runs, a recv whose handler is registered is held in exactly one
\* place: re-registering it from the callback thread neither posts its buffer
\* twice nor loses it.
RecvHeldOnce ==
    /\ TypeOK
    /\ \A o \in Recvs :
        /\ Places(o) <= 1
        /\ app[o] = "submitted" /\ o \in handlers /\ ~stopped => Places(o) = 1

\* The success of an operation, or a change of a watched word, always finds its
\* handler: the warnings "callback not found" and "UvmWatcher not found" are for
\* errors reported again only.
HandlerFound ==
    /\ \A o \in Ops : (\/ \E i \in 1..Len(cq) : cq[i] = <<o, "done">>
                       \/ callback = "take" /\ handling = <<o, "done">>)
                      => o \in handlers
    /\ callback = "take" /\ handling \in Watches => slot.watcher = "registered"

\* Both: a handler is there when it is needed, and gone once it was called
\* (handle_transfer_completion, transfer_engine.rs:430).
HandledOnce == CalledOnce /\ HandlerFound

\* Changes of the word that are on their way to the watcher's callback, in order.
Underway ==
    (IF callback = "take" /\ handling \in Watches THEN <<handling>> ELSE <<>>)
    \o SelectSeq(cq, LAMBDA e : e \in Watches)
    \o (IF noticed = None THEN <<>> ELSE <<noticed>>)

\* The values the watcher's callback sees form one chain: each call's old value
\* is the new value of the call before, up to what the UVM thread saw last.
WatchChain ==
    slot.used =>
        LET u == Underway
            Old(i) == IF i <= Len(u) THEN u[i][2] ELSE last_value
            New(i) == IF i = 0 THEN watched ELSE u[i][3]
        IN  \A i \in 0..Len(u) : New(i) = Old(i + 1)

\* Every transfer and send that was submitted has its handler called, unless the
\* engine is stopped (or the callback thread waits for itself, see Released).
EventuallyCalled ==
    \A o \in Transfers \cup Sends :
        app[o] = "submitted" ~> called[o] # <<>> \/ stopped \/ Stuck

\* The last value written to a watched word reaches the watcher's callback, however
\* many values were overwritten between two looks of the UVM thread.
LastValueSeen ==
    value = MaxValue ~> watched = MaxValue \/ stopped \/ Stuck

\* stop() returns: the callback thread it joins ends, whatever it was doing
\* (but for the same wait), and the worker's threads end too.
StopJoins ==
    stopped ~> worker = "exited" /\ uvm = "exited" /\ callback \in {"exited", "remove"}

\* "Stop the watcher if the callback returns false or an error occurs": the
\* callback thread goes on after that.
WatcherEnds == callback = "release" ~> callback \in {"check", "exited"}

\* A callback thread that re-registers a recv gets to send the command.
RepostEnds == callback = "repost" ~> callback # "repost"
============================================================================
