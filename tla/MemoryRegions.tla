--------------------------- MODULE MemoryRegions ---------------------------
(***************************************************************************)
(* Memory registration, from the application's calls to the maps of the    *)
(* domains (fabric-lib/src/fabric_engine.rs, worker.rs, domain_group.rs,   *)
(* efa/efa_domain.rs, verbs/verbs_domain.rs), and the storage of bouncing  *)
(* receives (transfer_engine.rs).                                          *)
(*                                                                         *)
(* A domain caches its regions by address alone.  The memory at an address *)
(* can be freed and be another allocation later, registration can fail on  *)
(* one domain after it succeeded on another, and calls of several          *)
(* application threads meet in the worker threads.                         *)
(*                                                                         *)
(* Tidy says how the application behaves.  A tidy one                      *)
(*   - unregisters what it registered, or tried to, before it frees it;    *)
(*   - neither unregisters nor frees what it registered for a GPU other    *)
(*     than the first;                                                     *)
(*   - registers an address again only with the same access, and unregis-  *)
(*     ters it with no call or transfer on it under way;                   *)
(*   - does not add a peer group again after a failure.                    *)
(* FreshStorage is about the allocator, which no application controls: it  *)
(* never gives new storage of bouncing receives the address of old one.    *)
(***************************************************************************)
EXTENDS Integers, Sequences

CONSTANTS
    Addrs,          \* addresses the application allocates at
    Storage,        \* addresses the storage of bouncing receives gets
    Gpus,           \* the GPUs, one worker each; the smallest is the main one
    Devices,        \* what memory may be on: 0 for the host, or a GPU
    Domains,        \* 1..N, the NICs of a worker
    Threads,        \* application threads
    Providers,      \* "efa", "verbs"
    Tidy,           \* see above
    FreshStorage,   \* see above
    MaxLen,         \* bound: length of an allocation
    MaxEras,        \* bound: allocations at one address
    MaxFailures,    \* bound: provider calls that fail
    Recvs           \* `count` of submit_bouncing_recvs

ASSUME MemoryRegionsAssumption ==
    /\ Addrs \cap Storage = {}
    /\ Gpus \subseteq Nat \ {0} /\ Gpus # {} /\ Devices \subseteq Gpus \cup {0}
    /\ Domains \subseteq Nat \ {0} /\ 1 \in Domains
    /\ Tidy \in BOOLEAN /\ FreshStorage \in BOOLEAN
    /\ MaxLen \in Nat \ {0} /\ MaxEras \in Nat /\ MaxFailures \in Nat /\ Recvs \in Nat \ {0}

VARIABLES
    provider,
    device,         \* where the memory at each address lives
    mem,            \* length of what is allocated at each address, or 0
    era,            \* how often something was allocated there
    local_mr_map,   \* each domain's regions, by address
    orphans,        \* regions created on the NIC and in no map
    mr_device_map,  \* the device of each handle, kept for ever
    peer_groups,    \* workers whose DomainGroup has the peer group
    domain_groups,  \* domains of each worker that have it
    group_handle,   \* workers for which add_peer_group returned the handle
    calls,          \* worker_call channel of each worker: the calling threads
    pending,        \* the call each thread is in
    held,           \* what the application has registered: "no", "local", "remote"
    descriptor,     \* the regions behind the rkeys given to peers
    touched,        \* access asked for since the last unregister
    cmds,           \* command channel of each worker: transfers
    answers,        \* what became of transfers
    recvs,          \* posted bouncing receives in each storage
    failures

heap   == <<provider, device, mem, era>>
engine == <<local_mr_map, orphans, mr_device_map>>
groups == <<peer_groups, domain_groups, group_handle>>
app    == <<held, descriptor, touched>>
vars   == <<heap, engine, groups, calls, pending, app, cmds, answers, recvs, failures>>

Places == Addrs \cup Storage
Main   == CHOOSE g \in Gpus : \A h \in Gpus : g <= h
Access == {"local", "remote"}
NoMr   == [era |-> 0, len |-> 0, remote |-> FALSE]
Idle   == [op |-> "none"]

\* get_worker
WorkerOf(dev) == IF dev = 0 THEN Main ELSE dev

TypeOK ==
    /\ provider \in Providers /\ device \in [Places -> Devices \cup {0}]
    /\ mem \in [Places -> 0..MaxLen] /\ era \in [Places -> 0..MaxEras]
    /\ \A g \in Gpus, d \in Domains, a \in Places :
        /\ local_mr_map[g][d][a].era \in 0..era[a]
        /\ local_mr_map[g][d][a].len \in 0..MaxLen
    /\ orphans \in 0..MaxFailures
    /\ mr_device_map \in [Places -> Devices \cup {-1, 0}]
    /\ peer_groups \subseteq Gpus /\ group_handle \subseteq Gpus
    /\ domain_groups \in [Gpus -> SUBSET Domains]
    /\ calls \in [Gpus -> Seq(Threads)]
    /\ held \in [Places -> Access \cup {"no"}] /\ touched \in [Places -> Access \cup {"no"}]
    /\ answers \subseteq {"posted", "refused", "stale"}
    /\ recvs \in [Places -> 0..Recvs] /\ failures \in 0..MaxFailures

Init ==
    /\ provider \in Providers
    /\ device \in [Places -> Devices \cup {0}] /\ \A a \in Storage : device[a] = 0
    /\ mem = [a \in Places |-> 0] /\ era = [a \in Places |-> 0]
    /\ local_mr_map = [g \in Gpus |-> [d \in Domains |-> [a \in Places |-> NoMr]]]
    /\ orphans = 0
    /\ mr_device_map = [a \in Places |-> -1]
    /\ peer_groups = {} /\ domain_groups = [g \in Gpus |-> {}] /\ group_handle = {}
    /\ calls = [g \in Gpus |-> <<>>] /\ pending = [t \in Threads |-> Idle]
    /\ held = [a \in Places |-> "no"] /\ touched = [a \in Places |-> "no"]
    /\ descriptor = [a \in Places |-> [d \in Domains |-> NoMr]]
    /\ cmds = [g \in Gpus |-> <<>>] /\ answers = {}
    /\ recvs = [a \in Places |-> 0] /\ failures = 0

----------------------------------------------------------------------------
(* The application.                                                         *)

InCall(a) == \E t \in Threads : pending[t].op \notin {"none", "group"} /\ pending[t].addr = a

InTransfer(a) == \E g \in Gpus : \E i \in DOMAIN cmds[g] : cmds[g][i].addr = a

Malloc(a, len) ==
    /\ a \in Addrs /\ mem[a] = 0 /\ era[a] < MaxEras
    /\ mem' = [mem EXCEPT ![a] = len]
    /\ era' = [era EXCEPT ![a] = @ + 1]
    /\ UNCHANGED <<provider, device, engine, groups, calls, pending, app, cmds, answers,
                   recvs, failures>>

Free(a) ==
    /\ mem[a] > 0 /\ held[a] = "no" /\ recvs[a] = 0 /\ ~InCall(a)
    /\ Tidy => touched[a] = "no"
    /\ mem' = [mem EXCEPT ![a] = 0]
    /\ UNCHANGED <<provider, device, era, engine, groups, calls, pending, app, cmds,
                   answers, recvs, failures>>

Send(t, g, call) ==
    /\ pending[t] = Idle
    /\ pending' = [pending EXCEPT ![t] = call]
    /\ calls' = [calls EXCEPT ![g] = Append(@, t)]

\* register_memory_local, register_memory_allow_remote: the call is sent to the
\* worker of the device.
Register(t, a, access) ==
    /\ a \in Addrs /\ mem[a] > 0
    /\ Tidy => touched[a] \in {"no", access} /\ ~InCall(a)
    /\ Send(t, WorkerOf(device[a]), [op |-> access, addr |-> a, len |-> mem[a], ok |-> "sent"])
    /\ touched' = [touched EXCEPT ![a] = access]
    /\ UNCHANGED <<heap, engine, groups, held, descriptor, cmds, answers, recvs, failures>>

\* unregister_memory: always to the main worker.
Unregister(t, a) ==
    /\ a \in Addrs /\ touched[a] # "no"
    /\ Tidy => WorkerOf(device[a]) = Main /\ ~InCall(a) /\ ~InTransfer(a)
    /\ Send(t, Main, [op |-> "unregister", addr |-> a, ok |-> "sent"])
    /\ held' = [held EXCEPT ![a] = "no"]
    /\ descriptor' = [descriptor EXCEPT ![a] = [d \in Domains |-> NoMr]]
    /\ UNCHANGED <<heap, engine, groups, touched, cmds, answers, recvs, failures>>

\* add_peer_group for a GPU, always of the same peers.
AddPeerGroup(t, g) ==
    /\ g \notin group_handle
    /\ Tidy => g \notin peer_groups /\ \A u \in Threads : pending[u].op # "group"
    /\ Send(t, g, [op |-> "group", worker |-> g, ok |-> "sent"])
    /\ UNCHANGED <<heap, engine, groups, app, cmds, answers, recvs, failures>>

\* submit_bouncing_recvs: the storage is allocated, and registered as host memory.
BouncingRecvs(t, a) ==
    /\ a \in Storage /\ mem[a] = 0 /\ era[a] < MaxEras
    /\ FreshStorage => era[a] = 0
    /\ Send(t, Main, [op |-> "bounce", addr |-> a, len |-> MaxLen, ok |-> "sent"])
    /\ mem' = [mem EXCEPT ![a] = MaxLen]
    /\ era' = [era EXCEPT ![a] = @ + 1]
    /\ UNCHANGED <<provider, device, engine, groups, app, cmds, answers, recvs, failures>>

\* The call returns, and a registration enters mr_device_map.  Bouncing receives
\* are then posted, each with a reference to the storage; after a failed
\* registration the storage is dropped.
Return(t) ==
    /\ pending[t] # Idle /\ pending[t].ok # "sent"
    /\ pending' = [pending EXCEPT ![t] = Idle]
    /\ LET call == pending[t]
           good == call.ok = "ok"
       IN  /\ recvs' = IF good /\ call.op = "bounce"
                THEN [recvs EXCEPT ![call.addr] = Recvs] ELSE recvs
           /\ mem' = IF ~good /\ call.op = "bounce"
                THEN [mem EXCEPT ![call.addr] = 0] ELSE mem
           /\ mr_device_map' = IF good /\ call.op \in Access \cup {"bounce"}
                THEN [mr_device_map EXCEPT ![call.addr] = device[call.addr]]
                ELSE mr_device_map
           /\ held' = IF good /\ call.op \in Access
                THEN [held EXCEPT ![call.addr] = call.op] ELSE held
           /\ descriptor' = IF good /\ call.op = "remote"
                THEN [descriptor EXCEPT ![call.addr] = call.rkeys] ELSE descriptor
           /\ touched' = IF call.op = "unregister"
                THEN [touched EXCEPT ![call.addr] = "no"] ELSE touched
           /\ group_handle' = IF good /\ call.op = "group"
                THEN group_handle \cup {call.worker} ELSE group_handle
    /\ UNCHANGED <<provider, device, era, local_mr_map, orphans, peer_groups,
                   domain_groups, calls, cmds, answers, failures>>

\* Mutant: transfers go to the main worker, as sends and receives do.
SubmitTransferMain(a) ==
    /\ held[a] # "no" /\ mr_device_map[a] # -1 /\ ~InTransfer(a)
    /\ cmds' = [cmds EXCEPT ![Main] =
                    Append(@, [addr |-> a, era |-> era[a], len |-> mem[a]])]
    /\ UNCHANGED <<heap, engine, groups, calls, pending, app, answers, recvs, failures>>

\* submit_transfer: to the worker that mr_device_map names (get_worker_by_mr).
SubmitTransfer(a) ==
    /\ held[a] # "no" /\ mr_device_map[a] # -1 /\ ~InTransfer(a)
    /\ cmds' = [cmds EXCEPT ![WorkerOf(mr_device_map[a])] =
                    Append(@, [addr |-> a, era |-> era[a], len |-> mem[a]])]
    /\ UNCHANGED <<heap, engine, groups, calls, pending, app, answers, recvs, failures>>

\* A bouncing receive fails for good: its context is dropped, and with the last
\* of them the storage.  Nothing unregisters it.
RecvFails(a) ==
    /\ recvs[a] > 0
    /\ recvs' = [recvs EXCEPT ![a] = @ - 1]
    /\ mem' = IF recvs[a] = 1 THEN [mem EXCEPT ![a] = 0] ELSE mem
    /\ UNCHANGED <<provider, device, era, engine, groups, calls, pending, app, cmds,
                   answers, failures>>

----------------------------------------------------------------------------
(* The worker threads.                                                      *)

\* register_mr finds the address in local_mr_map.
Cached(mr) == mr # NoMr

\* Mutant: the access does not reach the provider.
RegisteredMrLocal(mr, call) ==
    IF Cached(mr) THEN mr ELSE [era |-> era[call.addr], len |-> call.len, remote |-> FALSE]

\* What register_mr leaves in a domain's map for a region of this call.
RegisteredMr(mr, call) ==
    IF Cached(mr) THEN mr
    ELSE [era |-> era[call.addr], len |-> call.len, remote |-> call.op = "remote"]

\* register_mr can fail only where the address is new.
MayFailAt(g, a) == {d \in Domains : ~Cached(local_mr_map[g][d][a])}

\* A failed register_mr may leave the region with the NIC: on EFA, where binding
\* and enabling it come after.
LeavesOrphan(fails) == IF fails # 0 /\ provider = "efa" THEN BOOLEAN ELSE {FALSE}

Reply(fails) == IF fails = 0 THEN "ok" ELSE "err"

\* register_mr_local and register_mr_allow_remote of the group: domain after
\* domain, up to the first that fails (0: none does).  What is registered by
\* then stays.
WorkerRegister(g) ==
    /\ calls[g] # <<>>
    /\ LET t    == Head(calls[g])
           call == pending[t]
           a    == call.addr
       IN  /\ call.op \in Access \cup {"bounce"}
           /\ \E fails \in {0} \cup MayFailAt(g, a) :
                /\ fails # 0 => failures < MaxFailures
                /\ failures' = IF fails = 0 THEN failures ELSE failures + 1
                /\ \E orphan \in LeavesOrphan(fails) :
                    orphans' = IF orphan THEN orphans + 1 ELSE orphans
                /\ LET reached == {d \in Domains : fails = 0 \/ d < fails}
                       mrs == [d \in Domains |-> IF d \in reached
                                THEN RegisteredMr(local_mr_map[g][d][a], call)
                                ELSE local_mr_map[g][d][a]]
                   IN  /\ local_mr_map' = [local_mr_map EXCEPT ![g] =
                                [d \in Domains |-> [@[d] EXCEPT ![a] = mrs[d]]]]
                       /\ pending' = [pending EXCEPT ![t] =
                                [op |-> call.op, addr |-> a, ok |-> Reply(fails), rkeys |-> mrs]]
    /\ calls' = [calls EXCEPT ![g] = Tail(@)]
    /\ UNCHANGED <<heap, mr_device_map, groups, app, cmds, answers, recvs>>

\* Mutant: only the first domain forgets the region.
UnregisterDomainsFirst == {1}

\* unregister_mr of the group: all its domains.
UnregisterDomains == Domains

\* unregister_mr of a domain.
Forget(mrs, a) == [mrs EXCEPT ![a] = NoMr]

WorkerUnregister(g) ==
    /\ calls[g] # <<>>
    /\ LET t == Head(calls[g]) IN
        /\ pending[t].op = "unregister"
        /\ local_mr_map' = [local_mr_map EXCEPT ![g] = [d \in Domains |->
                IF d \in UnregisterDomains THEN Forget(@[d], pending[t].addr)
                ELSE @[d]]]
        /\ pending' = [pending EXCEPT ![t] =
                [op |-> "unregister", addr |-> pending[t].addr, ok |-> "ok"]]
    /\ calls' = [calls EXCEPT ![g] = Tail(@)]
    /\ UNCHANGED <<heap, orphans, mr_device_map, groups, app, cmds, answers, recvs, failures>>

\* add_peer_group of the group: a group it knows is returned at once; a new one
\* is entered first, and then added to domain after domain.
WorkerAddGroup(g) ==
    /\ calls[g] # <<>>
    /\ LET t == Head(calls[g]) IN
        /\ pending[t].op = "group"
        /\ IF g \in peer_groups
           THEN /\ pending' = [pending EXCEPT ![t] = [op |-> "group", worker |-> g, ok |-> "ok"]]
                /\ UNCHANGED <<domain_groups, failures>>
           ELSE \E fails \in {0} \cup Domains :
                /\ fails # 0 => failures < MaxFailures
                /\ failures' = IF fails = 0 THEN failures ELSE failures + 1
                /\ domain_groups' = [domain_groups EXCEPT ![g] =
                        @ \cup {d \in Domains : fails = 0 \/ d < fails}]
                /\ pending' = [pending EXCEPT ![t] =
                        [op |-> "group", worker |-> g, ok |-> Reply(fails)]]
    /\ peer_groups' = peer_groups \cup {g}
    /\ calls' = [calls EXCEPT ![g] = Tail(@)]
    /\ UNCHANGED <<heap, engine, group_handle, app, cmds, answers, recvs>>

\* get_mem_desc on each domain, refused if one of them has no region there.  A
\* region of an earlier allocation, or a shorter one, is taken as it is.
MemDesc(mrs, cmd) ==
    IF NoMr \in mrs THEN "refused"
    ELSE IF \A mr \in mrs : mr.era = cmd.era /\ mr.len >= cmd.len THEN "posted"
    ELSE "stale"

\* submit_transfer_request.
WorkerCommand(g) ==
    /\ cmds[g] # <<>>
    /\ LET cmd == Head(cmds[g])
           mrs == {local_mr_map[g][d][cmd.addr] : d \in Domains}
       IN  answers' = answers \cup {MemDesc(mrs, cmd)}
    /\ cmds' = [cmds EXCEPT ![g] = Tail(@)]
    /\ UNCHANGED <<heap, engine, groups, calls, pending, app, recvs, failures>>

App ==
    \/ \E a \in Places : (\E len \in 1..MaxLen : Malloc(a, len)) \/ Free(a)
    \/ \E t \in Threads :
        \/ \E a \in Places :
            (\E access \in Access : Register(t, a, access)) \/ Unregister(t, a) \/ BouncingRecvs(t, a)
        \/ \E g \in Gpus : AddPeerGroup(t, g)
        \/ Return(t)
    \/ \E a \in Addrs : SubmitTransfer(a)

Worker(g) == WorkerRegister(g) \/ WorkerUnregister(g) \/ WorkerAddGroup(g) \/ WorkerCommand(g)

Next == App \/ (\E g \in Gpus : Worker(g)) \/ \E a \in Places : RecvFails(a)

Spec == Init /\ [][Next]_vars

----------------------------------------------------------------------------
(* Properties.                                                              *)

\* The region at a, on the worker that serves it.
MrOf(a, d) == local_mr_map[WorkerOf(device[a])][d][a]

Covers(mr, a) == mr.era = era[a] /\ mr.len >= mem[a]

\* A handle the application holds is good for transfers: every domain of the
\* worker that submit_transfer picks has a region of the memory that is at the
\* address now, as long as that memory.  What is under the rkeys of a
\* descriptor handed to peers is that region, with remote access.  And a peer
\* group handle is known to all domains of its worker.
HandlesUsable ==
    /\ TypeOK
    /\ \A a \in Addrs, d \in Domains :
        /\ held[a] # "no" => mr_device_map[a] = device[a] /\ Covers(MrOf(a, d), a)
        /\ held[a] = "remote" => descriptor[a][d] = MrOf(a, d) /\ MrOf(a, d).remote
    /\ \A g \in group_handle : domain_groups[g] = Domains

\* No domain keeps a region of memory the application has freed, which the NIC
\* could still write to and which the next allocation there would be given
\* instead of its own, even after registrations that failed half way.
NoStaleMr ==
    \A a \in Addrs, g \in Gpus, d \in Domains :
        local_mr_map[g][d][a] # NoMr => mem[a] > 0 /\ Covers(local_mr_map[g][d][a], a)

\* Transfers from registered memory are neither refused nor posted with a region
\* of something else, and a posted bouncing receive has its storage and a region
\* on the domain that receives.
BuffersInUse ==
    /\ answers \subseteq {"posted"}
    /\ \A a \in Storage : recvs[a] > 0 => mem[a] > 0 /\ Covers(MrOf(a, 1), a)

\* "fi_mr_bind" and "fi_mr_enable" failures are reported as failed registrations:
\* nothing is left registered on the NIC that no map knows of.
NoOrphans == orphans = 0
============================================================================
