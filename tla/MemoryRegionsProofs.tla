------------------------- MODULE MemoryRegionsProofs -------------------------
(***************************************************************************)
(* The invariant of memory registration for a tidy application, and that  *)
(* every step keeps it: the calls an application sends to the workers,     *)
(* their return, peer groups, and the registrations and unregistrations of *)
(* the worker threads.  What a Tidy application may rely on follows, for   *)
(* any number of addresses, GPUs, NICs, threads and failures.              *)
(***************************************************************************)
EXTENDS MemoryRegions, TLAPS, WellFoundedInduction

Mrs       == [era : Nat, len : Nat, remote : BOOLEAN]
Commands  == [addr : Addrs, era : Nat, len : Nat]
Addressed == Access \cup {"bounce", "unregister"}

----------------------------------------------------------------------------
(* Types.                                                                   *)

HeapType ==
    /\ provider \in Providers /\ device \in [Places -> Devices \cup {0}]
    /\ \A a \in Storage : device[a] = 0
    /\ mem \in [Places -> 0..MaxLen] /\ era \in [Places -> 0..MaxEras]

MrType ==
    /\ local_mr_map \in [Gpus -> [Domains -> [Places -> Mrs]]]
    /\ \A g \in Gpus, d \in Domains, a \in Places :
        /\ local_mr_map[g][d][a].era \in 0..era[a]
        /\ local_mr_map[g][d][a].len \in 0..MaxLen

CountType ==
    /\ orphans \in 0..MaxFailures /\ failures \in 0..MaxFailures /\ orphans <= failures
    /\ recvs \in [Places -> 0..Recvs]

GroupType ==
    /\ peer_groups \subseteq Gpus /\ group_handle \subseteq Gpus
    /\ domain_groups \in [Gpus -> SUBSET Domains]

AppType ==
    /\ held \in [Places -> Access \cup {"no"}] /\ touched \in [Places -> Access \cup {"no"}]
    /\ mr_device_map \in [Places -> Devices \cup {-1, 0}] /\ DOMAIN descriptor = Places

CallType ==
    /\ calls \in [Gpus -> Seq(Threads)] /\ DOMAIN pending = Threads
    /\ \A t \in Threads : pending[t].op \in Addressed \cup {"none", "group"}

CommandType == cmds \in [Gpus -> Seq(Commands)]

----------------------------------------------------------------------------
(* Regions, handles and calls.                                              *)

\* A region belongs to what is at its address now, on the one worker that serves
\* it, and has the access that was asked for; memory that is to be unregistered
\* is there.
RegionOk(a, g, mr) ==
    /\ touched[a] # "no" /\ g = WorkerOf(device[a])
    /\ mr.era = era[a] /\ mr.len = mem[a] /\ (mr.remote <=> touched[a] = "remote")

RegionInv ==
    /\ \A a \in Addrs, g \in Gpus, d \in Domains :
        local_mr_map[g][d][a] # NoMr => RegionOk(a, g, local_mr_map[g][d][a])
    /\ \A a \in Addrs : touched[a] # "no" => mem[a] > 0

\* The registration of what a handle stands for is complete.
HeldInv ==
    \A a \in Places : held[a] # "no" =>
        /\ a \in Addrs /\ touched[a] = held[a] /\ mr_device_map[a] = device[a]
        /\ \A d \in Domains :
            /\ MrOf(a, d) # NoMr
            /\ held[a] = "remote" => descriptor[a][d] = MrOf(a, d)

\* What the calls under way are about.
AccessInv ==
    \A t \in Threads : pending[t].op \in Access =>
        /\ pending[t].addr \in Addrs /\ touched[pending[t].addr] = pending[t].op
        /\ pending[t].ok = "sent" => pending[t].len = mem[pending[t].addr]

UnregisterInv ==
    \A t \in Threads : pending[t].op = "unregister" =>
        /\ pending[t].addr \in Addrs /\ touched[pending[t].addr] # "no"
        /\ held[pending[t].addr] = "no" /\ WorkerOf(device[pending[t].addr]) = Main

BounceInv ==
    \A t \in Threads : pending[t].op = "bounce" =>
        /\ pending[t].addr \in Storage /\ recvs[pending[t].addr] = 0
        /\ era[pending[t].addr] = 1 /\ mem[pending[t].addr] = MaxLen
        /\ pending[t].ok = "sent" => pending[t].len = MaxLen

GroupCallInv ==
    \A t \in Threads : pending[t].op = "group" =>
        /\ pending[t].worker \in Gpus
        /\ pending[t].ok = "sent" <=> pending[t].worker \notin peer_groups
        /\ pending[t].ok = "ok" => domain_groups[pending[t].worker] = Domains

\* What their replies mean.
RegisterReply ==
    \A t \in Threads : pending[t].op \in Access /\ pending[t].ok = "ok" =>
        \A d \in Domains : /\ MrOf(pending[t].addr, d) # NoMr
                           /\ pending[t].rkeys[d] = MrOf(pending[t].addr, d)

UnregisterReply ==
    \A t \in Threads : pending[t].op = "unregister" /\ pending[t].ok # "sent" =>
        \A g \in Gpus, d \in Domains : local_mr_map[g][d][pending[t].addr] = NoMr

BounceReply ==
    \A t \in Threads : pending[t].op = "bounce" /\ pending[t].ok = "ok" =>
        \A d \in Domains : local_mr_map[Main][d][pending[t].addr] # NoMr

\* One call at a time for an address, and one for peer groups.
UniqueInv ==
    \A t, u \in Threads : t # u =>
        /\ pending[t].op \in Addressed /\ pending[u].op \in Addressed =>
            pending[t].addr # pending[u].addr
        /\ ~(pending[t].op = "group" /\ pending[u].op = "group")

Serves(g, c) ==
    /\ c.op \in Access => g = WorkerOf(device[c.addr])
    /\ c.op \in {"bounce", "unregister"} => g = Main
    /\ c.op = "group" => g = c.worker

\* A call waits once, at the worker it is for, until it is answered.
QueueInv ==
    \A g \in Gpus : \A i \in 1..Len(calls[g]) :
        /\ pending[calls[g][i]].op # "none" /\ pending[calls[g][i]].ok = "sent"
        /\ Serves(g, pending[calls[g][i]])
        /\ \A j \in 1..Len(calls[g]) : calls[g][i] = calls[g][j] => i = j

GroupInv == \A g \in group_handle : g \in peer_groups /\ domain_groups[g] = Domains

\* A transfer under way is of memory that is held.
CommandInv ==
    /\ \A g \in Gpus : \A i \in 1..Len(cmds[g]) :
        /\ held[cmds[g][i].addr] # "no" /\ g = WorkerOf(device[cmds[g][i].addr])
        /\ cmds[g][i].era = era[cmds[g][i].addr] /\ cmds[g][i].len = mem[cmds[g][i].addr]
    /\ answers \subseteq {"posted"}

\* The storage of bouncing receives is allocated once at an address.
StorageInv ==
    /\ \A a \in Places : recvs[a] > 0 => a \in Storage
    /\ \A a \in Storage :
        /\ era[a] \in {0, 1}
        /\ \A g \in Gpus, d \in Domains : local_mr_map[g][d][a] # NoMr =>
            /\ local_mr_map[g][d][a].era = 1 /\ local_mr_map[g][d][a].len = MaxLen
            /\ era[a] = 1
        /\ recvs[a] > 0 =>
            /\ mem[a] = MaxLen /\ era[a] = 1
            /\ \A d \in Domains : local_mr_map[Main][d][a] # NoMr

\* The inductive invariant.
IInv ==
    /\ HeapType /\ MrType /\ CountType /\ GroupType /\ AppType /\ CallType /\ CommandType
    /\ RegionInv /\ HeldInv
    /\ AccessInv /\ UnregisterInv /\ BounceInv /\ GroupCallInv
    /\ RegisterReply /\ UnregisterReply /\ BounceReply
    /\ UniqueInv /\ QueueInv /\ GroupInv /\ CommandInv /\ StorageInv

----------------------------------------------------------------------------
(* What a step leaves alone.                                                *)

\* Each part of the invariant speaks of some of the state only, and is kept by
\* whatever leaves that alone.  The memory: steps of the engine do not allocate.
LEMMA HeapTypeKept ==
  ASSUME HeapType, UNCHANGED <<provider, device, mem, era>>
  PROVE HeapType'
  BY Zenon DEF HeapType

\* The caches of the domains: typed as long as caches and allocations stay.
LEMMA MrTypeKept ==
  ASSUME MrType, UNCHANGED <<local_mr_map, era>>
  PROVE MrType'
  BY DEF MrType

\* Failures and posted receives: typed as long as none is added.
LEMMA CountTypeKept ==
  ASSUME CountType, UNCHANGED <<orphans, failures, recvs>>
  PROVE CountType'
  BY DEF CountType

\* The maps of peer groups: typed as long as no group is added.
LEMMA GroupTypeKept ==
  ASSUME GroupType, UNCHANGED <<peer_groups, domain_groups, group_handle>>
  PROVE GroupType'
  BY DEF GroupType

\* Handles, descriptors and mr_device_map: typed as long as no call returns.
LEMMA AppTypeKept ==
  ASSUME AppType, UNCHANGED <<held, touched, mr_device_map, descriptor>>
  PROVE AppType'
  BY DEF AppType

\* The worker_call channels: typed as long as no call is sent or answered.
LEMMA CallTypeKept ==
  ASSUME CallType, UNCHANGED <<calls, pending>>
  PROVE CallType'
  BY DEF CallType

\* The command channels: typed as long as no transfer is sent or taken.
LEMMA CommandTypeKept ==
  ASSUME CommandType, UNCHANGED <<cmds>>
  PROVE CommandType'
  BY DEF CommandType

\* Regions: kept as long as caches, memory and what was asked for are.
LEMMA RegionInvKept ==
  ASSUME RegionInv, UNCHANGED <<local_mr_map, touched, device, era, mem>>
  PROVE RegionInv'
  BY DEF RegionInv, RegionOk, WorkerOf

\* Handles: kept as long as caches, mr_device_map and descriptors are.
LEMMA HeldInvKept ==
  ASSUME HeldInv, UNCHANGED <<held, touched, mr_device_map, device, local_mr_map, descriptor>>
  PROVE HeldInv'
  BY Zenon DEF HeldInv, MrOf, WorkerOf

\* Registrations under way: kept as long as the calls and their memory are.
LEMMA AccessInvKept ==
  ASSUME AccessInv, UNCHANGED <<pending, touched, mem>>
  PROVE AccessInv'
  BY DEF AccessInv

\* Unregistrations under way: kept as long as the calls and the handles are.
LEMMA UnregisterInvKept ==
  ASSUME UnregisterInv, UNCHANGED <<pending, touched, held, device>>
  PROVE UnregisterInv'
  BY DEF UnregisterInv, WorkerOf

\* submit_bouncing_recvs under way: kept as long as the call and its storage are.
LEMMA BounceInvKept ==
  ASSUME BounceInv, UNCHANGED <<pending, recvs, era, mem>>
  PROVE BounceInv'
  BY DEF BounceInv

\* add_peer_group under way: kept as long as the call and the groups are.
LEMMA GroupCallInvKept ==
  ASSUME GroupCallInv, UNCHANGED <<pending, peer_groups, domain_groups>>
  PROVE GroupCallInv'
  BY DEF GroupCallInv

\* Replies to registrations: kept as long as the caches are.
LEMMA RegisterReplyKept ==
  ASSUME RegisterReply, UNCHANGED <<pending, local_mr_map, device>>
  PROVE RegisterReply'
  BY Zenon DEF RegisterReply, MrOf, WorkerOf

\* Replies to unregistrations: kept as long as the caches are.
LEMMA UnregisterReplyKept ==
  ASSUME UnregisterReply, UNCHANGED <<pending, local_mr_map>>
  PROVE UnregisterReply'
  BY DEF UnregisterReply

\* Replies to registrations of storage: kept as long as the caches are.
LEMMA BounceReplyKept ==
  ASSUME BounceReply, UNCHANGED <<pending, local_mr_map>>
  PROVE BounceReply'
  BY DEF BounceReply

\* That calls do not collide depends on the calls alone.
LEMMA UniqueInvKept ==
  ASSUME UniqueInv, UNCHANGED <<pending>>
  PROVE UniqueInv'
  BY DEF UniqueInv

\* What has to be shown of the worker_call channels after a step: each call waits
\* once, unanswered, at the worker that serves it.
LEMMA QueueIntro ==
  ASSUME UNCHANGED device,
         \A g \in Gpus : \A i \in 1..Len(calls'[g]) :
            /\ pending'[calls'[g][i]].op # "none" /\ pending'[calls'[g][i]].ok = "sent"
            /\ Serves(g, pending'[calls'[g][i]])
            /\ \A j \in 1..Len(calls'[g]) : calls'[g][i] = calls'[g][j] => i = j
  PROVE  QueueInv'
  BY ZenonT(40) DEF QueueInv, Serves, WorkerOf

\* The worker_call channels: kept as long as channels and calls are.
LEMMA QueueInvKept ==
  ASSUME QueueInv, UNCHANGED <<calls, pending, device>>
  PROVE QueueInv'
  <1>1. \A g \in Gpus : \A i \in 1..Len(calls'[g]) :
          /\ pending'[calls'[g][i]].op # "none" /\ pending'[calls'[g][i]].ok = "sent"
          /\ Serves(g, pending'[calls'[g][i]])
          /\ \A j \in 1..Len(calls'[g]) : calls'[g][i] = calls'[g][j] => i = j
    BY DEF QueueInv
  <1>2. QED
    BY <1>1, QueueIntro

\* Peer groups: kept as long as the maps of groups and the handles are.
LEMMA GroupInvKept ==
  ASSUME GroupInv, UNCHANGED <<group_handle, peer_groups, domain_groups>>
  PROVE GroupInv'
  BY DEF GroupInv

\* Transfers in the command channels: kept as long as what they refer to is.
LEMMA CommandInvKept ==
  ASSUME CommandInv, UNCHANGED <<cmds, answers, held, device, era, mem>>
  PROVE CommandInv'
  BY Zenon DEF CommandInv, WorkerOf

\* The storage of bouncing receives: kept as long as memory, regions and posted
\* receives are.
LEMMA StorageInvKept ==
  ASSUME StorageInv, UNCHANGED <<recvs, era, mem, local_mr_map>>
  PROVE StorageInv'
  BY DEF StorageInv

----------------------------------------------------------------------------
(* Steps that change the call of one thread.                                *)

\* A thread that sends or ends another kind of call does not disturb the
\* registrations other threads wait for.
LEMMA AccessOther ==
  ASSUME AccessInv, UNCHANGED <<touched, mem>>, NEW t \in Threads,
         \A u \in Threads : u # t => pending'[u] = pending[u], pending'[t].op \notin Access
  PROVE  AccessInv'
  BY DEF AccessInv

\* Nor the unregistrations.
LEMMA UnregisterOther ==
  ASSUME UnregisterInv, UNCHANGED <<touched, held, device>>, NEW t \in Threads,
         \A u \in Threads : u # t => pending'[u] = pending[u], pending'[t].op # "unregister"
  PROVE  UnregisterInv'
  BY DEF UnregisterInv, WorkerOf

\* Nor a submit_bouncing_recvs.
LEMMA BounceOther ==
  ASSUME BounceInv, UNCHANGED <<recvs, era, mem>>, NEW t \in Threads,
         \A u \in Threads : u # t => pending'[u] = pending[u], pending'[t].op # "bounce"
  PROVE  BounceInv'
  BY DEF BounceInv

\* Nor an add_peer_group.
LEMMA GroupOther ==
  ASSUME GroupCallInv, UNCHANGED <<peer_groups, domain_groups>>, NEW t \in Threads,
         \A u \in Threads : u # t => pending'[u] = pending[u], pending'[t].op # "group"
  PROVE  GroupCallInv'
  BY DEF GroupCallInv

\* A call that is sent, or has returned, has no reply; the replies of the others
\* still say what the caches hold.
LEMMA RepliesOther ==
  ASSUME RegisterReply, UnregisterReply, BounceReply, UNCHANGED <<local_mr_map, device>>,
         NEW t \in Threads, \A u \in Threads : u # t => pending'[u] = pending[u],
         pending'[t].ok = "sent" \/ pending'[t].op \notin Addressed
  PROVE  RegisterReply' /\ UnregisterReply' /\ BounceReply'
  <1>1. RegisterReply'
    <2>1. SUFFICES ASSUME NEW u \in Threads, pending'[u].op \in Access, pending'[u].ok = "ok",
                          NEW d \in Domains
                   PROVE  /\ MrOf(pending'[u].addr, d) # NoMr
                          /\ pending'[u].rkeys[d] = MrOf(pending'[u].addr, d)
      BY ZenonT(40) DEF RegisterReply, MrOf, WorkerOf
    <2>2. u # t
      BY <2>1 DEF Addressed
    <2>3. QED
      BY <2>1, <2>2 DEF RegisterReply
  <1>2. UnregisterReply'
    BY DEF UnregisterReply, Addressed
  <1>3. BounceReply'
    BY Zenon DEF BounceReply, Addressed
  <1>4. QED
    BY <1>1, <1>2, <1>3

\* A thread's new call collides with no other if no other is about its address,
\* or about peer groups.
LEMMA UniqueOther ==
  ASSUME UniqueInv, NEW t \in Threads, \A u \in Threads : u # t => pending'[u] = pending[u],
         \A u \in Threads : u # t =>
            /\ pending'[t].op \in Addressed /\ pending[u].op \in Addressed =>
                pending[u].addr # pending'[t].addr
            /\ ~(pending'[t].op = "group" /\ pending[u].op = "group")
  PROVE  UniqueInv'
  BY DEF UniqueInv

----------------------------------------------------------------------------
(* Channels and workers.                                                    *)

\* A send to a channel puts the message behind all others.
LEMMA AppendFacts ==
  ASSUME NEW S, NEW s \in Seq(S), NEW e \in S
  PROVE  /\ Append(s, e) \in Seq(S) /\ Len(s) \in Nat /\ Len(Append(s, e)) = Len(s) + 1
         /\ \A i \in 1..Len(s) : Append(s, e)[i] = s[i]
         /\ Append(s, e)[Len(s) + 1] = e
  OBVIOUS

\* A receive takes the first message from a channel that is not empty.
LEMMA TailFacts ==
  ASSUME NEW S, NEW s \in Seq(S), s # <<>>
  PROVE  /\ Tail(s) \in Seq(S) /\ Len(s) \in Nat \ {0} /\ Len(Tail(s)) = Len(s) - 1
         /\ Head(s) = s[1] /\ Head(s) \in S
         /\ \A i \in 1..Len(Tail(s)) : Tail(s)[i] = s[i + 1]
  OBVIOUS

\* A transfer in a command channel is of application memory.
LEMMA CommandTyped ==
  ASSUME CommandType, NEW g \in Gpus, NEW i \in 1..Len(cmds[g])
  PROVE  cmds[g][i].addr \in Addrs
  <1>1. cmds[g] \in Seq(Commands)
    BY DEF CommandType
  <1>2. cmds[g][i] \in Commands
    BY <1>1
  <1>3. QED
    BY <1>2 DEF Commands

\* Transfers under way: kept as long as nothing happens to the memory they are of.
LEMMA CommandInvOther ==
  ASSUME CommandInv, CommandType, UNCHANGED <<device, cmds, answers>>,
         \A b \in Addrs : held[b] # "no" =>
             held'[b] # "no" /\ era'[b] = era[b] /\ mem'[b] = mem[b]
  PROVE  CommandInv'
  <1>1. SUFFICES ASSUME NEW g \in Gpus, NEW i \in 1..Len(cmds[g])
                 PROVE  /\ held'[cmds[g][i].addr] # "no"
                        /\ g = WorkerOf(device[cmds[g][i].addr])
                        /\ cmds[g][i].era = era'[cmds[g][i].addr]
                        /\ cmds[g][i].len = mem'[cmds[g][i].addr]
    BY DEF CommandInv, WorkerOf
  <1>2. cmds[g][i].addr \in Addrs
    BY CommandTyped
  <1>3. /\ held[cmds[g][i].addr] # "no" /\ g = WorkerOf(device[cmds[g][i].addr])
        /\ cmds[g][i].era = era[cmds[g][i].addr] /\ cmds[g][i].len = mem[cmds[g][i].addr]
    BY Zenon DEF CommandInv
  <1>4. QED
    BY <1>2, <1>3, Zenon

\* Regions: kept as long as nothing happens to the memory that has one.
LEMMA RegionInvOther ==
  ASSUME RegionInv, UNCHANGED device,
         \A a \in Addrs, g \in Gpus, d \in Domains : local_mr_map'[g][d][a] # NoMr =>
             /\ local_mr_map'[g][d][a] = local_mr_map[g][d][a]
             /\ touched'[a] = touched[a] /\ era'[a] = era[a] /\ mem'[a] = mem[a],
         \A a \in Addrs : touched'[a] # "no" => touched[a] # "no" /\ mem'[a] = mem[a]
  PROVE  RegionInv'
  <1>1. \A a \in Addrs : touched'[a] # "no" => mem'[a] > 0
    BY Zenon DEF RegionInv
  <1>2. SUFFICES ASSUME NEW a \in Addrs, NEW g \in Gpus, NEW d \in Domains,
                        local_mr_map'[g][d][a] # NoMr
                 PROVE  RegionOk(a, g, local_mr_map[g][d][a])'
    BY <1>1, Zenon DEF RegionInv
  <1>3. /\ local_mr_map'[g][d][a] = local_mr_map[g][d][a]
        /\ touched'[a] = touched[a] /\ era'[a] = era[a] /\ mem'[a] = mem[a]
    BY <1>2, Zenon
  <1>4. RegionOk(a, g, local_mr_map[g][d][a])
    BY <1>2, <1>3, Zenon DEF RegionInv
  <1>5. QED
    BY <1>3, <1>4, Zenon DEF RegionOk, WorkerOf

\* Handles: kept as long as nothing happens to what they stand for.
LEMMA HeldInvOther ==
  ASSUME HeldInv, UNCHANGED device,
         \A a \in Places : held'[a] # "no" =>
             /\ held'[a] = held[a] /\ touched'[a] = touched[a]
             /\ mr_device_map'[a] = mr_device_map[a] /\ descriptor'[a] = descriptor[a]
             /\ \A d \in Domains : MrOf(a, d) # NoMr => MrOf(a, d)' = MrOf(a, d)
  PROVE  HeldInv'
  <1>1. SUFFICES ASSUME NEW a \in Places, held'[a] # "no"
                 PROVE  /\ a \in Addrs /\ touched'[a] = held'[a]
                        /\ mr_device_map'[a] = device[a]
                        /\ \A d \in Domains :
                            /\ MrOf(a, d)' # NoMr
                            /\ held'[a] = "remote" => descriptor'[a][d] = MrOf(a, d)'
    BY Zenon DEF HeldInv
  <1>2. /\ held'[a] = held[a] /\ touched'[a] = touched[a]
        /\ mr_device_map'[a] = mr_device_map[a] /\ descriptor'[a] = descriptor[a]
        /\ \A d \in Domains : MrOf(a, d) # NoMr => MrOf(a, d)' = MrOf(a, d)
    BY <1>1, Zenon
  <1>3. /\ a \in Addrs /\ touched[a] = held[a] /\ mr_device_map[a] = device[a]
        /\ \A d \in Domains : /\ MrOf(a, d) # NoMr
                              /\ held[a] = "remote" => descriptor[a][d] = MrOf(a, d)
    BY <1>1, <1>2, Zenon DEF HeldInv
  <1>4. QED
    BY <1>2, <1>3, Zenon

\* FabricEngine's main worker, of the smallest GPU, exists: GPUs are numbers and
\* there is one.
LEMMA MainInGpus == Main \in Gpus /\ \A g \in Gpus : Main <= g
  <1>1. IsWellFoundedOn(OpToRel(<, Nat), Nat)
    BY NatLessThanWellFounded, Zenon
  <1>2. Gpus \subseteq Nat /\ Gpus # {}
    BY MemoryRegionsAssumption
  <1>3. PICK g \in Gpus : \A h \in Gpus : <<h, g>> \notin OpToRel(<, Nat)
    BY <1>1, <1>2, WFMin, Zenon
  <1>4. \A h \in Gpus : g <= h
    <2>1. ASSUME NEW h \in Gpus, h < g PROVE FALSE
      <3>1. <<h, g>> \in Nat \X Nat
        BY <1>2
      <3>2. <<h, g>> \in OpToRel(<, Nat)
        BY <2>1, <3>1 DEF OpToRel
      <3>3. QED
        BY <1>3, <3>2, Zenon
    <2>2. QED
      BY <1>2, <2>1
  <1>5. QED
    BY <1>4 DEF Main

\* get_worker finds a worker for every device memory can be on.
LEMMA WorkerInGpus ==
  ASSUME HeapType, NEW a \in Places
  PROVE  WorkerOf(device[a]) \in Gpus
  BY MainInGpus, MemoryRegionsAssumption, Zenon DEF HeapType, WorkerOf

\* A call a thread sends to a worker waits there once: the thread was in no call.
LEMMA SendFacts ==
  ASSUME CallType, QueueInv, UNCHANGED device,
         NEW t \in Threads, NEW g, NEW call, Send(t, g, call),
         call.op \in Addressed \cup {"group"}, call.ok = "sent", Serves(g, call)
  PROVE  /\ QueueInv' /\ CallType' /\ pending'[t] = call
         /\ \A u \in Threads : u # t => pending'[u] = pending[u]
  <1>1. /\ DOMAIN pending' = Threads /\ pending'[t] = call /\ pending[t].op = "none"
        /\ \A u \in Threads : u # t => pending'[u] = pending[u]
    BY DEF Send, CallType, Idle
  <1>2. call.op # "none"
    BY DEF Addressed, Access
  <1>3. \A h \in Gpus : calls[h] \in Seq(Threads)
    BY DEF CallType
  <1>4. \A h \in Gpus : calls'[h] = IF h = g THEN Append(calls[h], t) ELSE calls[h]
    BY DEF Send, CallType
  <1>5. ASSUME NEW h \in Gpus, h = g
        PROVE  /\ calls'[h] \in Seq(Threads) /\ Len(calls[h]) \in Nat
               /\ Len(calls'[h]) = Len(calls[h]) + 1
               /\ \A i \in 1..Len(calls[h]) : calls'[h][i] = calls[h][i]
               /\ calls'[h][Len(calls[h]) + 1] = t
    <2>1. calls'[h] = Append(calls[h], t) /\ calls[h] \in Seq(Threads)
      BY <1>3, <1>4, <1>5, Zenon
    <2>2. QED
      BY <2>1, AppendFacts
  <1>6. CallType'
    <2>1. \A h \in Gpus : calls'[h] \in Seq(Threads)
      BY <1>3, <1>4, <1>5
    <2>2. calls' \in [Gpus -> Seq(Threads)]
      BY <2>1, Zenon DEF Send, CallType
    <2>3. \A u \in Threads : pending'[u].op \in Addressed \cup {"none", "group"}
      BY <1>1 DEF CallType
    <2>4. QED
      BY <1>1, <2>2, <2>3 DEF CallType
  <1>7. \A h \in Gpus : \A i \in 1..Len(calls[h]) : calls[h][i] \in Threads /\ calls[h][i] # t
    BY <1>1, <1>3 DEF QueueInv
  <1>8. QueueInv'
    <2>1. SUFFICES ASSUME NEW h \in Gpus, NEW i \in 1..Len(calls'[h])
                   PROVE  /\ pending'[calls'[h][i]].op # "none"
                          /\ pending'[calls'[h][i]].ok = "sent"
                          /\ Serves(h, pending'[calls'[h][i]])
                          /\ \A j \in 1..Len(calls'[h]) : calls'[h][i] = calls'[h][j] => i = j
      BY QueueIntro, Zenon
    <2>2. CASE h # g
      BY <1>1, <1>4, <1>7, <2>2 DEF QueueInv
    <2>3. CASE h = g
      <3>1. /\ Len(calls[h]) \in Nat
            /\ \A j \in 1..Len(calls'[h]) : j \in 1..Len(calls[h]) \/ j = Len(calls[h]) + 1
        BY <1>5, <2>3
      <3>2. /\ \A j \in 1..Len(calls[h]) : calls'[h][j] = calls[h][j] /\ calls'[h][j] # t
            /\ calls'[h][Len(calls[h]) + 1] = t
        BY <1>5, <1>7, <2>3, Zenon
      <3>3. \A j \in 1..Len(calls'[h]) : calls'[h][i] = calls'[h][j] => i = j
        <4>1. \A j, k \in 1..Len(calls[h]) : calls[h][j] = calls[h][k] => j = k
          BY Zenon DEF QueueInv
        <4>2. QED
          BY <3>1, <3>2, <4>1, Zenon
      <3>4. CASE i \in 1..Len(calls[h])
        <4>1. calls'[h][i] = calls[h][i] /\ pending'[calls[h][i]] = pending[calls[h][i]]
          BY <1>1, <1>7, <3>2, <3>4, Zenon
        <4>2. QED
          BY <3>3, <3>4, <4>1 DEF QueueInv
      <3>5. CASE i = Len(calls[h]) + 1
        BY <1>1, <1>2, <2>3, <3>2, <3>3, <3>5, Zenon
      <3>6. QED
        BY <3>1, <3>4, <3>5, Zenon
    <2>4. QED
      BY <2>2, <2>3, Zenon
  <1>9. QED
    BY <1>1, <1>6, <1>8

\* A worker that answers the first call of its channel leaves the others waiting:
\* the calling thread waits nowhere else.
LEMMA AnswerFacts ==
  ASSUME CallType, QueueInv, UNCHANGED device, NEW g \in Gpus, NEW t,
         calls[g] # <<>>, t = Head(calls[g]), calls' = [calls EXCEPT ![g] = Tail(@)],
         DOMAIN pending' = Threads, \A u \in Threads : u # t => pending'[u] = pending[u],
         t \in Threads => pending'[t].op = pending[t].op
  PROVE  /\ QueueInv' /\ CallType' /\ t \in Threads
         /\ pending[t].ok = "sent" /\ Serves(g, pending[t])
  <1>1. \A h \in Gpus : calls[h] \in Seq(Threads)
    BY DEF CallType
  <1>2. /\ t = calls[g][1] /\ t \in Threads /\ 1 \in 1..Len(calls[g])
        /\ Tail(calls[g]) \in Seq(Threads)
        /\ \A i \in 1..Len(Tail(calls[g])) :
            i + 1 \in 1..Len(calls[g]) /\ Tail(calls[g])[i] = calls[g][i + 1]
    BY <1>1, TailFacts
  <1>3. \A h \in Gpus : calls'[h] = IF h = g THEN Tail(calls[g]) ELSE calls[h]
    BY DEF CallType
  <1>4. pending[t].op # "none" /\ pending[t].ok = "sent" /\ Serves(g, pending[t])
    BY <1>2 DEF QueueInv
  <1>5. CallType'
    <2>1. \A h \in Gpus : calls'[h] \in Seq(Threads)
      BY <1>1, <1>2, <1>3
    <2>2. calls' \in [Gpus -> Seq(Threads)]
      BY <2>1 DEF CallType
    <2>3. QED
      BY <2>2, Zenon DEF CallType
  <1>6. \A h \in Gpus : h # g => \A i \in 1..Len(calls[h]) : calls[h][i] # t
    <2>1. pending[t].op \in Addressed \cup {"group"}
      BY <1>2, <1>4, Zenon DEF CallType
    <2>2. \A h \in Gpus : Serves(h, pending[t]) => h = g
      BY <1>4, <2>1, Zenon DEF Serves, Addressed
    <2>3. QED
      BY <2>2, Zenon DEF QueueInv
  <1>7. \A h \in Gpus : h # g =>
            \A i \in 1..Len(calls[h]) : pending'[calls[h][i]] = pending[calls[h][i]]
    BY <1>1, <1>6
  <1>8. ASSUME NEW i \in 1..Len(calls'[g])
        PROVE  /\ i + 1 \in 1..Len(calls[g]) /\ calls'[g][i] = calls[g][i + 1]
               /\ pending'[calls[g][i + 1]] = pending[calls[g][i + 1]]
    <2>1. i + 1 \in 1..Len(calls[g]) /\ calls'[g][i] = calls[g][i + 1] /\ i + 1 # 1
      <3>1. calls'[g] = Tail(calls[g])
        BY <1>3
      <3>2. i \in 1..Len(Tail(calls[g])) /\ i + 1 # 1
        <4>1. i \in 1..Len(Tail(calls[g]))
          BY <3>1, Zenon
        <4>2. Len(Tail(calls[g])) \in Nat
          BY <1>2
        <4>3. QED
          BY <4>1, <4>2
      <3>3. QED
        BY <1>2, <3>1, <3>2, Zenon
    <2>2. calls[g][i + 1] \in Threads
      BY <1>1, <2>1
    <2>3. calls[g][i + 1] # calls[g][1]
      BY <1>2, <2>1, Zenon DEF QueueInv
    <2>4. QED
      BY <1>2, <2>1, <2>2, <2>3, Zenon
  <1>9. QueueInv'
    <2>1. SUFFICES ASSUME NEW h \in Gpus, NEW i \in 1..Len(calls'[h])
                   PROVE  /\ pending'[calls'[h][i]].op # "none"
                          /\ pending'[calls'[h][i]].ok = "sent"
                          /\ Serves(h, pending'[calls'[h][i]])
                          /\ \A j \in 1..Len(calls'[h]) : calls'[h][i] = calls'[h][j] => i = j
      BY QueueIntro, ZenonT(40)
    <2>2. CASE h # g
      BY <1>3, <1>7, <2>2 DEF QueueInv
    <2>3. CASE h = g
      <3>1. \A j \in 1..Len(calls'[g]) :
                j + 1 \in 1..Len(calls[g]) /\ calls'[g][j] = calls[g][j + 1]
        BY <1>8, Zenon
      <3>2. \A j \in 1..Len(calls'[g]) : calls'[g][i] = calls'[g][j] => i = j
        <4>1. \A j, k \in 1..Len(calls[g]) : calls[g][j] = calls[g][k] => j = k
          BY Zenon DEF QueueInv
        <4>2. QED
          BY <2>3, <3>1, <4>1
      <3>3. i + 1 \in 1..Len(calls[g]) /\ pending'[calls'[g][i]] = pending[calls[g][i + 1]]
        BY <1>8, <2>3, Zenon
      <3>4. /\ pending[calls[g][i + 1]].op # "none" /\ pending[calls[g][i + 1]].ok = "sent"
            /\ Serves(g, pending[calls[g][i + 1]])
        BY <3>3, Zenon DEF QueueInv
      <3>5. QED
        BY <2>3, <3>2, <3>3, <3>4, Zenon
    <2>4. QED
      BY <2>2, <2>3, Zenon
  <1>10. QED
    BY <1>2, <1>4, <1>5, <1>9, Zenon

----------------------------------------------------------------------------
(* Steps that are not calls: allocation, transfers, receives that are lost.  *)

\* Allocation keeps the invariant: a tidy application left no region at an
\* address that is free.
LEMMA MallocStep ==
  ASSUME IInv, Tidy, NEW a \in Places, NEW len \in 1..MaxLen, Malloc(a, len)
  PROVE  IInv'
  <1>1. HeapType /\ MrType /\ AppType /\ CommandType /\ RegionInv /\ HeldInv /\ AccessInv
        /\ BounceInv /\ CommandInv /\ StorageInv
    BY DEF IInv
  <1>2. UNCHANGED <<provider, device, local_mr_map, orphans, mr_device_map, peer_groups,
                    domain_groups, group_handle, calls, pending, held, descriptor, touched,
                    cmds, answers, recvs, failures>>
    BY DEF Malloc, engine, groups, app
  <1>3. a \in Addrs /\ a \notin Storage /\ touched[a] = "no" /\ held[a] = "no"
    <2>1. a \in Addrs /\ mem[a] = 0
      BY DEF Malloc
    <2>2. QED
      BY <1>1, <2>1, MemoryRegionsAssumption DEF RegionInv, RegionOk, HeldInv, AppType
  <1>4. /\ mem' \in [Places -> 0..MaxLen] /\ era' \in [Places -> 0..MaxEras]
        /\ \A b \in Places : b # a => mem'[b] = mem[b] /\ era'[b] = era[b]
        /\ \A b \in Places : era[b] <= era'[b]
    BY <1>1, MemoryRegionsAssumption DEF Malloc, HeapType
  <1>5. HeapType'
    BY <1>1, <1>2, <1>4, Zenon DEF HeapType
  <1>6. MrType'
    <2>1. \A b \in Places : \A n \in 0..era[b] : n \in 0..era'[b]
      BY <1>1, <1>4, MemoryRegionsAssumption DEF HeapType
    <2>2. QED
      BY <1>1, <1>2, <2>1, Zenon DEF MrType
  <1>7. RegionInv'
    <2>1. \A b \in Addrs : touched[b] # "no" => mem'[b] = mem[b] /\ era'[b] = era[b]
      BY <1>3, <1>4, Zenon DEF Places
    <2>2. QED
      BY <1>1, <1>2, <2>1 DEF RegionInv, RegionOk, WorkerOf
  <1>8. AccessInv'
    <2>1. \A b \in Addrs : touched[b] # "no" => mem'[b] = mem[b]
      BY <1>3, <1>4 DEF Places
    <2>2. QED
      BY <1>1, <1>2, <2>1, Zenon DEF AccessInv, Access
  <1>9. \A b \in Storage : mem'[b] = mem[b] /\ era'[b] = era[b]
    BY <1>3, <1>4 DEF Places
  <1>10. BounceInv'
    BY <1>1, <1>2, <1>9, Zenon DEF BounceInv
  <1>11. CommandInv'
    <2>1. \A b \in Addrs : held[b] # "no" => era'[b] = era[b] /\ mem'[b] = mem[b]
      BY <1>3, <1>4, Zenon DEF Places
    <2>2. QED
      BY <1>1, <1>2, <2>1, CommandInvOther, Zenon
  <1>12. StorageInv'
    BY <1>1, <1>2, <1>9, Zenon DEF StorageInv
  <1>13. QED
    BY <1>2, <1>5, <1>6, <1>7, <1>8, <1>10, <1>11, <1>12, CountTypeKept, GroupTypeKept,
       AppTypeKept, CallTypeKept, CommandTypeKept, HeldInvKept, UnregisterInvKept,
       GroupCallInvKept, RegisterReplyKept, UnregisterReplyKept, BounceReplyKept,
       UniqueInvKept, QueueInvKept, GroupInvKept, Zenon DEF IInv

\* Freeing memory keeps the invariant: a tidy application has unregistered it.
LEMMA FreeStep ==
  ASSUME IInv, Tidy, NEW a \in Places, Free(a)
  PROVE  IInv'
  <1>1. HeapType /\ CommandType /\ RegionInv /\ AccessInv /\ BounceInv /\ CommandInv
        /\ StorageInv
    BY DEF IInv
  <1>2. UNCHANGED <<provider, device, era, local_mr_map, orphans, mr_device_map, peer_groups,
                    domain_groups, group_handle, calls, pending, held, descriptor, touched,
                    cmds, answers, recvs, failures>>
    BY Zenon DEF Free, engine, groups, app
  <1>3. /\ touched[a] = "no" /\ held[a] = "no" /\ recvs[a] = 0
        /\ \A t \in Threads : pending[t].op = "bounce" => pending[t].addr # a
    BY DEF Free, InCall
  <1>4. mem' \in [Places -> 0..MaxLen] /\ \A b \in Places : b # a => mem'[b] = mem[b]
    BY <1>1, MemoryRegionsAssumption DEF Free, HeapType
  <1>5. HeapType'
    BY <1>1, <1>2, <1>4 DEF HeapType
  <1>6. \A b \in Addrs : touched[b] # "no" => mem'[b] = mem[b]
    BY <1>3, <1>4 DEF Places
  <1>7. RegionInv'
    <2>1. \A b \in Addrs, g \in Gpus, d \in Domains :
            local_mr_map[g][d][b] # NoMr => touched[b] # "no"
      BY <1>1, Zenon DEF RegionInv, RegionOk
    <2>2. QED
      BY <1>1, <1>2, <1>6, <2>1, RegionInvOther, Zenon
  <1>8. AccessInv'
    BY <1>1, <1>2, <1>6, Zenon DEF AccessInv, Access
  <1>9. BounceInv'
    BY <1>1, <1>2, <1>3, <1>4, Zenon DEF BounceInv, Places
  <1>10. CommandInv'
    <2>1. \A b \in Addrs : held[b] # "no" => mem'[b] = mem[b]
      BY <1>3, <1>4, Zenon DEF Places
    <2>2. QED
      BY <1>1, <1>2, <2>1, CommandInvOther, Zenon
  <1>11. StorageInv'
    <2>1. \A b \in Storage : recvs[b] > 0 => mem'[b] = mem[b]
      BY <1>3, <1>4 DEF Places
    <2>2. QED
      BY <1>1, <1>2, <2>1, ZenonT(40) DEF StorageInv
  <1>12. QED
    BY <1>2, <1>5, <1>7, <1>8, <1>9, <1>10, <1>11, MrTypeKept, CountTypeKept, GroupTypeKept,
       AppTypeKept, CallTypeKept, CommandTypeKept, HeldInvKept, UnregisterInvKept,
       GroupCallInvKept, RegisterReplyKept, UnregisterReplyKept, BounceReplyKept,
       UniqueInvKept, QueueInvKept, GroupInvKept, Zenon DEF IInv

\* The failure of a bouncing receive keeps the invariant: the storage goes with
\* the last one.
LEMMA RecvFailsStep ==
  ASSUME IInv, Tidy, NEW a \in Places, RecvFails(a)
  PROVE  IInv'
  <1>1. HeapType /\ CountType /\ CommandType /\ RegionInv /\ AccessInv /\ BounceInv /\ CommandInv
        /\ StorageInv
    BY DEF IInv
  <1>2. UNCHANGED <<provider, device, era, local_mr_map, orphans, mr_device_map, peer_groups,
                    domain_groups, group_handle, calls, pending, held, descriptor, touched,
                    cmds, answers, failures>>
    BY DEF RecvFails, engine, groups, app
  <1>3. a \in Storage /\ a \notin Addrs /\ recvs[a] > 0
    BY <1>1, MemoryRegionsAssumption, Zenon DEF RecvFails, StorageInv
  <1>4. /\ mem' \in [Places -> 0..MaxLen] /\ recvs' \in [Places -> 0..Recvs]
        /\ \A b \in Places : b # a => mem'[b] = mem[b] /\ recvs'[b] = recvs[b]
        /\ recvs'[a] > 0 => mem'[a] = mem[a]
    BY <1>1, MemoryRegionsAssumption DEF RecvFails, HeapType, CountType
  <1>5. HeapType'
    BY <1>1, <1>2, <1>4, Zenon DEF HeapType
  <1>6. CountType'
    BY <1>1, <1>2, <1>4, Zenon DEF CountType
  <1>7. \A b \in Addrs : mem'[b] = mem[b]
    BY <1>3, <1>4, Zenon DEF Places
  <1>8. RegionInv'
    BY <1>1, <1>2, <1>7, RegionInvOther, Zenon
  <1>9. AccessInv'
    BY <1>1, <1>2, <1>7, Zenon DEF AccessInv
  <1>10. BounceInv'
    <2>1. \A b \in Storage : recvs[b] = 0 => mem'[b] = mem[b] /\ recvs'[b] = recvs[b]
      BY <1>3, <1>4 DEF Places
    <2>2. QED
      BY <1>1, <1>2, <2>1, Zenon DEF BounceInv
  <1>11. CommandInv'
    BY <1>1, <1>2, <1>7, CommandInvOther, Zenon
  <1>12. StorageInv'
    <2>1. \A b \in Places : recvs'[b] > 0 => recvs[b] > 0 /\ mem'[b] = mem[b]
      BY <1>3, <1>4, Zenon
    <2>2. QED
      BY <1>1, <1>2, <2>1, ZenonT(40) DEF StorageInv, Places
  <1>13. QED
    BY <1>2, <1>5, <1>6, <1>8, <1>9, <1>10, <1>11, <1>12, MrTypeKept, GroupTypeKept,
       AppTypeKept, CallTypeKept, CommandTypeKept, HeldInvKept, UnregisterInvKept,
       GroupCallInvKept, RegisterReplyKept, UnregisterReplyKept, BounceReplyKept,
       UniqueInvKept, QueueInvKept, GroupInvKept, Zenon DEF IInv

\* submit_transfer keeps the invariant: mr_device_map names the worker of the
\* memory's device, whose domains have the region.
LEMMA SubmitTransferStep ==
  ASSUME IInv, Tidy, NEW a \in Addrs, SubmitTransfer(a)
  PROVE  IInv'
  <1>1. HeapType /\ HeldInv /\ CommandType /\ CommandInv
    BY DEF IInv
  <1>2. UNCHANGED <<provider, device, mem, era, local_mr_map, orphans, mr_device_map,
                    peer_groups, domain_groups, group_handle, calls, pending, held, descriptor,
                    touched, answers, recvs, failures>>
    BY Zenon DEF SubmitTransfer, heap, engine, groups, app
  <1>3. held[a] # "no" /\ mr_device_map[a] = device[a]
    BY <1>1, Zenon DEF SubmitTransfer, HeldInv, Places
  <1> DEFINE cmd == [addr |-> a, era |-> era[a], len |-> mem[a]]
  <1>4. cmd \in Commands /\ cmd.addr = a /\ cmd.era = era[a] /\ cmd.len = mem[a]
    BY <1>1, MemoryRegionsAssumption DEF HeapType, Commands, Places
  <1>5. \A g \in Gpus :
          cmds'[g] = IF g = WorkerOf(device[a]) THEN Append(cmds[g], cmd) ELSE cmds[g]
    BY <1>1, <1>3, Zenon DEF SubmitTransfer, CommandType
  <1> HIDE DEF cmd
  <1>6. \A g \in Gpus : cmds[g] \in Seq(Commands)
    BY <1>1 DEF CommandType
  <1>7. CommandType'
    <2>1. \A g \in Gpus : cmds'[g] \in Seq(Commands)
      <3>1. \A g \in Gpus : Append(cmds[g], cmd) \in Seq(Commands)
        BY <1>4, <1>6, AppendFacts
      <3>2. QED
        BY <1>5, <1>6, <3>1, Zenon
    <2>2. QED
      BY <1>1, <2>1, Zenon DEF CommandType, SubmitTransfer
  <1>8. CommandInv'
    <2>1. SUFFICES ASSUME NEW g \in Gpus, NEW i \in 1..Len(cmds'[g])
                   PROVE  /\ held[cmds'[g][i].addr] # "no" /\ g = WorkerOf(device[cmds'[g][i].addr])
                          /\ cmds'[g][i].era = era[cmds'[g][i].addr]
                          /\ cmds'[g][i].len = mem[cmds'[g][i].addr]
      BY <1>1, <1>2, ZenonT(40) DEF CommandInv, WorkerOf
    <2>2. CASE i \in 1..Len(cmds[g]) /\ cmds'[g][i] = cmds[g][i]
      <3>1. /\ held[cmds[g][i].addr] # "no" /\ g = WorkerOf(device[cmds[g][i].addr])
            /\ cmds[g][i].era = era[cmds[g][i].addr] /\ cmds[g][i].len = mem[cmds[g][i].addr]
        BY <1>1, <2>2, Zenon DEF CommandInv
      <3>2. QED
        BY <2>2, <3>1, Zenon
    <2>3. CASE g = WorkerOf(device[a])
      <3>1. cmds'[g] = Append(cmds[g], cmd) /\ cmds[g] \in Seq(Commands)
        BY <1>5, <1>6, <2>3, Zenon
      <3>2. /\ Len(cmds[g]) \in Nat /\ Len(cmds'[g]) = Len(cmds[g]) + 1
            /\ \A j \in 1..Len(cmds[g]) : cmds'[g][j] = cmds[g][j]
            /\ cmds'[g][Len(cmds[g]) + 1] = cmd
        BY <1>4, <3>1, AppendFacts
      <3>3. i \in 1..Len(cmds[g]) \/ i = Len(cmds[g]) + 1
        BY <3>2
      <3>4. CASE i = Len(cmds[g]) + 1
        <4>1. cmds'[g][i] = cmd
          BY <3>2, <3>4, Zenon
        <4>2. QED
          BY <1>3, <1>4, <2>3, <4>1, Zenon
      <3>5. QED
        BY <2>2, <3>2, <3>3, <3>4, Zenon
    <2>4. QED
      BY <1>5, <2>2, <2>3, Zenon
  <1>9. QED
    BY <1>2, <1>7, <1>8, HeapTypeKept, MrTypeKept, CountTypeKept, GroupTypeKept, AppTypeKept,
       CallTypeKept, RegionInvKept, HeldInvKept, AccessInvKept, UnregisterInvKept,
       BounceInvKept, GroupCallInvKept, RegisterReplyKept, UnregisterReplyKept,
       BounceReplyKept, UniqueInvKept, QueueInvKept, GroupInvKept, StorageInvKept, Zenon
       DEF IInv

\* A worker that takes a transfer keeps the invariant: get_mem_desc finds the
\* region of this very memory on every domain.
LEMMA WorkerCommandStep ==
  ASSUME IInv, NEW g \in Gpus, WorkerCommand(g)
  PROVE  IInv'
  <1> DEFINE cmd == Head(cmds[g])
  <1>1. HeapType /\ CommandType /\ RegionInv /\ HeldInv /\ CommandInv
    BY DEF IInv
  <1>2. UNCHANGED <<provider, device, mem, era, local_mr_map, orphans, mr_device_map,
                    peer_groups, domain_groups, group_handle, calls, pending, held, descriptor,
                    touched, recvs, failures>>
    BY Zenon DEF WorkerCommand, heap, engine, groups, app
  <1>3. cmds[g] \in Seq(Commands) /\ cmds[g] # <<>>
    BY <1>1, Zenon DEF WorkerCommand, CommandType
  <1>4. /\ cmd = cmds[g][1] /\ 1 \in 1..Len(cmds[g]) /\ Tail(cmds[g]) \in Seq(Commands)
        /\ \A i \in 1..Len(Tail(cmds[g])) :
            i + 1 \in 1..Len(cmds[g]) /\ Tail(cmds[g])[i] = cmds[g][i + 1]
    BY <1>3, TailFacts
  <1>5. \A h \in Gpus : cmds'[h] = IF h = g THEN Tail(cmds[g]) ELSE cmds[h]
    BY <1>1, Zenon DEF WorkerCommand, CommandType
  <1>6. answers' = answers \cup {MemDesc({local_mr_map[g][d][cmd.addr] : d \in Domains}, cmd)}
    BY Zenon DEF WorkerCommand
  <1> HIDE DEF cmd
  <1>7. answers' \subseteq {"posted"}
    <2>1. cmd.addr \in Addrs
      BY <1>1, <1>4, CommandTyped, Zenon
    <2>2. /\ held[cmd.addr] # "no" /\ g = WorkerOf(device[cmd.addr])
          /\ cmd.era = era[cmd.addr] /\ cmd.len = mem[cmd.addr]
      BY <1>1, <1>4, Zenon DEF CommandInv
    <2>3. mem[cmd.addr] \in Nat
      BY <1>1, <2>1 DEF HeapType, Places
    <2>4. \A d \in Domains : local_mr_map[g][d][cmd.addr] # NoMr
      BY <1>1, <2>1, <2>2, Zenon DEF HeldInv, MrOf, Places
    <2>5. \A d \in Domains : /\ local_mr_map[g][d][cmd.addr].era = cmd.era
                             /\ local_mr_map[g][d][cmd.addr].len >= cmd.len
      <3>1. \A d \in Domains : RegionOk(cmd.addr, g, local_mr_map[g][d][cmd.addr])
        BY <1>1, <2>1, <2>4, Zenon DEF RegionInv
      <3>2. mem[cmd.addr] >= cmd.len
        BY <2>2, <2>3
      <3>3. QED
        BY <2>2, <3>1, <3>2, Zenon DEF RegionOk
    <2>6. MemDesc({local_mr_map[g][d][cmd.addr] : d \in Domains}, cmd) = "posted"
      BY <2>4, <2>5, Zenon DEF MemDesc
    <2>7. QED
      BY <1>1, <1>6, <2>6, Zenon DEF CommandInv
  <1>8. CommandType'
    <2>1. \A h \in Gpus : cmds'[h] \in Seq(Commands)
      BY <1>1, <1>4, <1>5, Zenon DEF CommandType
    <2>2. QED
      BY <1>1, <2>1, Zenon DEF CommandType, WorkerCommand
  <1>9. CommandInv'
    <2>1. \A h \in Gpus : \A i \in 1..Len(cmds'[h]) :
            \E j \in 1..Len(cmds[h]) : cmds'[h][i] = cmds[h][j]
      BY <1>4, <1>5, Zenon
    <2>2. ASSUME NEW h \in Gpus, NEW i \in 1..Len(cmds'[h])
          PROVE  /\ held[cmds'[h][i].addr] # "no" /\ h = WorkerOf(device[cmds'[h][i].addr])
                 /\ cmds'[h][i].era = era[cmds'[h][i].addr]
                 /\ cmds'[h][i].len = mem[cmds'[h][i].addr]
      <3>1. PICK j \in 1..Len(cmds[h]) : cmds'[h][i] = cmds[h][j]
        BY <2>1, Zenon
      <3>2. /\ held[cmds[h][j].addr] # "no" /\ h = WorkerOf(device[cmds[h][j].addr])
            /\ cmds[h][j].era = era[cmds[h][j].addr] /\ cmds[h][j].len = mem[cmds[h][j].addr]
        BY <1>1, Zenon DEF CommandInv
      <3>3. QED
        BY <3>1, <3>2, Zenon
    <2>3. QED
      BY <1>2, <1>7, <2>2, Zenon DEF CommandInv, WorkerOf
  <1>10. QED
    BY <1>2, <1>8, <1>9, HeapTypeKept, MrTypeKept, CountTypeKept, GroupTypeKept, AppTypeKept,
       CallTypeKept, RegionInvKept, HeldInvKept, AccessInvKept, UnregisterInvKept,
       BounceInvKept, GroupCallInvKept, RegisterReplyKept, UnregisterReplyKept,
       BounceReplyKept, UniqueInvKept, QueueInvKept, GroupInvKept, StorageInvKept, Zenon
       DEF IInv

----------------------------------------------------------------------------
(* The calls of the application.                                            *)

\* register_memory keeps the invariant up to the reply: what is cached already
\* has the access asked for.
LEMMA RegisterStep ==
  ASSUME IInv, Tidy, NEW t \in Threads, NEW a \in Places, NEW access \in Access,
         Register(t, a, access)
  PROVE  IInv'
  <1> DEFINE call == [op |-> access, addr |-> a, len |-> mem[a], ok |-> "sent"]
  <1>1. AppType /\ CallType /\ QueueInv /\ RegionInv /\ HeldInv /\ AccessInv /\ UnregisterInv
        /\ UniqueInv
    BY DEF IInv
  <1>2. UNCHANGED <<provider, device, mem, era, local_mr_map, orphans, mr_device_map,
                    peer_groups, domain_groups, group_handle, held, descriptor, cmds, answers,
                    recvs, failures>>
    BY DEF Register, heap, engine, groups
  <1>3. /\ a \in Addrs /\ mem[a] > 0 /\ touched[a] \in {"no", access}
        /\ \A u \in Threads : pending[u].op \in Addressed => pending[u].addr # a
    BY DEF Register, InCall, Addressed, Access
  <1>4. /\ QueueInv' /\ CallType' /\ pending'[t] = call
        /\ \A u \in Threads : u # t => pending'[u] = pending[u]
    <2>1. call.op \in Addressed \cup {"group"} /\ call.ok = "sent"
      BY DEF Addressed
    <2>2. Serves(WorkerOf(device[a]), call)
      BY DEF Serves, Access
    <2>3. Send(t, WorkerOf(device[a]), call)
      BY DEF Register
    <2>4. QED
      BY <1>1, <1>2, <2>1, <2>2, <2>3, SendFacts
  <1>5. /\ pending'[t].op = access /\ pending'[t].ok = "sent"
        /\ pending'[t].addr = a /\ pending'[t].len = mem[a]
    BY <1>4
  <1> HIDE DEF call
  <1>6. /\ touched' \in [Places -> Access \cup {"no"}] /\ touched'[a] = access
        /\ \A b \in Places : b # a => touched'[b] = touched[b]
    BY <1>1 DEF Register, AppType
  <1>7. AppType'
    BY <1>1, <1>2, <1>6 DEF AppType
  <1>8. RegionInv'
    <2>1. \A b \in Addrs : touched[b] # "no" => touched'[b] = touched[b]
      BY <1>3, <1>6 DEF Places
    <2>2. \A b \in Addrs : touched'[b] # "no" => mem[b] > 0
      BY <1>1, <1>3, <1>6, Zenon DEF RegionInv, RegionOk, Places
    <2>3. QED
      BY <1>1, <1>2, <2>1, <2>2 DEF RegionInv, RegionOk, WorkerOf
  <1>9. HeldInv'
    <2>1. \A b \in Places : held[b] # "no" => touched'[b] = touched[b]
      BY <1>1, <1>3, <1>6 DEF HeldInv
    <2>2. QED
      BY <1>1, <1>2, <2>1, Zenon DEF HeldInv, MrOf, WorkerOf
  <1>10. \A u \in Threads : u # t /\ pending[u].op \in Addressed /\ pending[u].addr \in Addrs =>
            touched'[pending[u].addr] = touched[pending[u].addr]
    BY <1>3, <1>6 DEF Places
  <1>11. AccessInv'
    <2>1. SUFFICES ASSUME NEW u \in Threads, pending'[u].op \in Access
                   PROVE  /\ pending'[u].addr \in Addrs
                          /\ touched'[pending'[u].addr] = pending'[u].op
                          /\ pending'[u].ok = "sent" => pending'[u].len = mem[pending'[u].addr]
      BY <1>2 DEF AccessInv
    <2>2. CASE u = t
      BY <1>3, <1>5, <1>6, <2>2
    <2>3. CASE u # t
      BY <1>1, <1>4, <1>10, <2>1, <2>3 DEF AccessInv, Addressed
    <2>4. QED
      BY <2>2, <2>3
  <1>12. UnregisterInv'
    <2>1. pending'[t].op # "unregister"
      BY <1>5 DEF Access
    <2>2. \A u \in Threads : pending'[u].op = "unregister" =>
            /\ pending'[u] = pending[u] /\ pending[u].addr \in Addrs
            /\ touched'[pending[u].addr] = touched[pending[u].addr]
      BY <1>1, <1>4, <1>10, <2>1, Zenon DEF UnregisterInv, Addressed
    <2>3. held' = held /\ device' = device /\ UnregisterInv
      BY <1>1, <1>2, Zenon
    <2>4. ASSUME NEW u \in Threads, pending'[u].op = "unregister"
          PROVE  /\ pending'[u].addr \in Addrs /\ touched'[pending'[u].addr] # "no"
                 /\ held'[pending'[u].addr] = "no"
                 /\ WorkerOf(device'[pending'[u].addr]) = Main
      <3>1. /\ pending'[u] = pending[u] /\ pending[u].op = "unregister"
            /\ touched'[pending[u].addr] = touched[pending[u].addr]
        BY <2>2, <2>4, Zenon
      <3>2. /\ pending[u].addr \in Addrs /\ touched[pending[u].addr] # "no"
            /\ held[pending[u].addr] = "no" /\ WorkerOf(device[pending[u].addr]) = Main
        BY <2>3, <3>1, Zenon DEF UnregisterInv
      <3>3. QED
        BY <2>3, <3>1, <3>2, Zenon
    <2>5. QED
      BY <2>4, Zenon DEF UnregisterInv
  <1>13. UniqueInv'
    BY <1>1, <1>3, <1>4, <1>5, UniqueOther, Zenon DEF Access
  <1>14. pending'[t].op # "bounce" /\ pending'[t].op # "group"
    BY <1>5 DEF Access
  <1>15. BounceInv' /\ GroupCallInv' /\ RegisterReply' /\ UnregisterReply' /\ BounceReply'
    BY <1>2, <1>4, <1>5, <1>14, BounceOther, GroupOther, RepliesOther, Zenon DEF IInv
  <1>16. QED
    BY <1>2, <1>4, <1>7, <1>8, <1>9, <1>11, <1>12, <1>13, <1>15, HeapTypeKept, MrTypeKept,
       CountTypeKept, GroupTypeKept, CommandTypeKept, GroupInvKept, CommandInvKept,
       StorageInvKept, Zenon DEF IInv

\* unregister_memory keeps the invariant up to the reply: no transfer or call of
\* that memory is under way.
LEMMA UnregisterStep ==
  ASSUME IInv, Tidy, NEW t \in Threads, NEW a \in Places, Unregister(t, a)
  PROVE  IInv'
  <1> DEFINE call == [op |-> "unregister", addr |-> a, ok |-> "sent"]
  <1>1. AppType /\ CallType /\ QueueInv /\ HeldInv /\ UnregisterInv /\ UniqueInv
        /\ CommandType /\ CommandInv
    BY DEF IInv
  <1>2. UNCHANGED <<provider, device, mem, era, local_mr_map, orphans, mr_device_map,
                    peer_groups, domain_groups, group_handle, touched, cmds, answers, recvs,
                    failures>>
    BY Zenon DEF Unregister, heap, engine, groups
  <1>3. /\ a \in Addrs /\ touched[a] # "no" /\ WorkerOf(device[a]) = Main
        /\ \A u \in Threads : pending[u].op \in Addressed => pending[u].addr # a
    BY Zenon DEF Unregister, InCall, Addressed, Access
  <1>4. \A g \in Gpus : \A i \in 1..Len(cmds[g]) : cmds[g][i].addr # a
    <2>1. \A g \in Gpus : DOMAIN cmds[g] = 1..Len(cmds[g])
      BY <1>1 DEF CommandType
    <2>2. QED
      BY <2>1, Zenon DEF Unregister, InTransfer
  <1>5. /\ QueueInv' /\ CallType' /\ pending'[t] = call
        /\ \A u \in Threads : u # t => pending'[u] = pending[u]
    <2>1. call.op \in Addressed \cup {"group"} /\ call.ok = "sent"
      BY DEF Addressed
    <2>2. Serves(Main, call)
      BY DEF Serves, Access
    <2>3. Send(t, Main, call)
      BY Zenon DEF Unregister
    <2>4. QED
      BY <1>1, <1>2, <2>1, <2>2, <2>3, SendFacts, Zenon
  <1>6. /\ pending'[t].op = "unregister" /\ pending'[t].ok = "sent"
        /\ pending'[t].addr = a
    BY <1>5
  <1> HIDE DEF call
  <1>7. /\ held' \in [Places -> Access \cup {"no"}] /\ held'[a] = "no"
        /\ \A b \in Places : b # a => held'[b] = held[b]
    BY <1>1 DEF Unregister, AppType
  <1>8. DOMAIN descriptor' = Places /\ \A b \in Places : b # a => descriptor'[b] = descriptor[b]
    BY <1>1 DEF Unregister, AppType
  <1>9. AppType'
    BY <1>1, <1>2, <1>7, <1>8, Zenon DEF AppType
  <1>10. HeldInv'
    <2>1. \A b \in Places : held'[b] # "no" =>
            held'[b] = held[b] /\ descriptor'[b] = descriptor[b]
      BY <1>7, <1>8
    <2>2. QED
      BY <1>1, <1>2, <2>1, HeldInvOther, Zenon DEF MrOf, WorkerOf
  <1>11. UnregisterInv'
    <2>1. SUFFICES ASSUME NEW u \in Threads, pending'[u].op = "unregister"
                   PROVE  /\ pending'[u].addr \in Addrs /\ touched[pending'[u].addr] # "no"
                          /\ held'[pending'[u].addr] = "no"
                          /\ WorkerOf(device[pending'[u].addr]) = Main
      BY <1>2, Zenon DEF UnregisterInv, WorkerOf
    <2>2. CASE u = t
      BY <1>3, <1>6, <1>7, <2>2, Zenon
    <2>3. CASE u # t
      BY <1>1, <1>3, <1>5, <1>7, <2>1, <2>3 DEF UnregisterInv, Addressed, Places
    <2>4. QED
      BY <2>2, <2>3, Zenon
  <1>12. CommandInv'
    <2>1. SUFFICES ASSUME NEW g \in Gpus, NEW i \in 1..Len(cmds[g])
                   PROVE  /\ held'[cmds[g][i].addr] # "no"
                          /\ g = WorkerOf(device[cmds[g][i].addr])
                          /\ cmds[g][i].era = era[cmds[g][i].addr]
                          /\ cmds[g][i].len = mem[cmds[g][i].addr]
      BY <1>1, <1>2, ZenonT(40) DEF CommandInv, WorkerOf
    <2>2. held'[cmds[g][i].addr] = held[cmds[g][i].addr]
      BY <1>1, <1>4, <1>7, CommandTyped, Zenon DEF Places
    <2>3. QED
      BY <1>1, <2>2, ZenonT(40) DEF CommandInv
  <1>13. UniqueInv'
    BY <1>1, <1>3, <1>5, <1>6, UniqueOther, Zenon
  <1>14. pending'[t].op \notin Access /\ pending'[t].op # "bounce" /\ pending'[t].op # "group"
    BY <1>6 DEF Access
  <1>15. /\ AccessInv' /\ BounceInv' /\ GroupCallInv'
         /\ RegisterReply' /\ UnregisterReply' /\ BounceReply'
    BY <1>2, <1>5, <1>6, <1>14, AccessOther, BounceOther, GroupOther, RepliesOther, Zenon
       DEF IInv
  <1>16. QED
    BY <1>2, <1>5, <1>9, <1>10, <1>11, <1>12, <1>13, <1>15, HeapTypeKept, MrTypeKept,
       CountTypeKept, GroupTypeKept, CommandTypeKept, RegionInvKept, GroupInvKept,
       StorageInvKept, Zenon DEF IInv

\* submit_bouncing_recvs keeps the invariant up to the reply: nothing was ever
\* registered at the address of new storage.
LEMMA BouncingRecvsStep ==
  ASSUME IInv, FreshStorage, NEW t \in Threads, NEW a \in Places, BouncingRecvs(t, a)
  PROVE  IInv'
  <1> DEFINE call == [op |-> "bounce", addr |-> a, len |-> MaxLen, ok |-> "sent"]
  <1>1. HeapType /\ MrType /\ CountType /\ CallType /\ CommandType /\ QueueInv /\ RegionInv
        /\ AccessInv /\ UnregisterInv /\ BounceInv /\ UniqueInv /\ CommandInv /\ StorageInv
    BY DEF IInv
  <1>2. UNCHANGED <<provider, device, local_mr_map, orphans, mr_device_map, peer_groups,
                    domain_groups, group_handle, held, descriptor, touched, cmds, answers,
                    recvs, failures>>
    BY DEF BouncingRecvs, engine, groups, app
  <1>3. a \in Storage /\ a \notin Addrs /\ mem[a] = 0 /\ era[a] = 0
    BY MemoryRegionsAssumption, Zenon DEF BouncingRecvs
  <1>4. /\ QueueInv' /\ CallType' /\ pending'[t] = call
        /\ \A u \in Threads : u # t => pending'[u] = pending[u]
    <2>1. call.op \in Addressed \cup {"group"} /\ call.ok = "sent"
      BY DEF Addressed
    <2>2. Serves(Main, call)
      BY DEF Serves, Access
    <2>3. Send(t, Main, call)
      BY DEF BouncingRecvs
    <2>4. QED
      BY <1>1, <1>2, <2>1, <2>2, <2>3, SendFacts, Zenon
  <1>5. /\ pending'[t].op = "bounce" /\ pending'[t].ok = "sent"
        /\ pending'[t].addr = a /\ pending'[t].len = MaxLen
    BY <1>4
  <1> HIDE DEF call
  <1>6. /\ mem' \in [Places -> 0..MaxLen] /\ mem'[a] = MaxLen
        /\ \A b \in Places : b # a => mem'[b] = mem[b]
    BY <1>1, MemoryRegionsAssumption DEF BouncingRecvs, HeapType
  <1>7. /\ era' \in [Places -> 0..MaxEras] /\ era'[a] = 1
        /\ \A b \in Places : b # a => era'[b] = era[b]
    BY <1>1, <1>3, MemoryRegionsAssumption DEF BouncingRecvs, HeapType
  <1>8. \A b \in Addrs : mem'[b] = mem[b] /\ era'[b] = era[b]
    BY <1>3, <1>6, <1>7, Zenon DEF Places
  <1>9. recvs[a] = 0
    BY <1>1, <1>3, MemoryRegionsAssumption DEF StorageInv, CountType
  <1>10. \A u \in Threads : pending[u].op \in Addressed => pending[u].addr # a
    BY <1>1, <1>3 DEF AccessInv, UnregisterInv, BounceInv, Addressed
  <1>11. HeapType'
    BY <1>1, <1>2, <1>6, <1>7, Zenon DEF HeapType
  <1>12. MrType'
    <2>1. \A b \in Places : \A n \in 0..era[b] : n \in 0..era'[b]
      BY <1>1, <1>3, <1>7, MemoryRegionsAssumption DEF HeapType
    <2>2. QED
      BY <1>1, <1>2, <2>1, Zenon DEF MrType
  <1>13. RegionInv'
    BY <1>1, <1>2, <1>8, RegionInvOther, Zenon
  <1>14. AccessInv'
    <2>1. pending'[t].op \notin Access
      BY <1>5 DEF Access
    <2>2. QED
      BY <1>1, <1>2, <1>4, <1>8, <2>1 DEF AccessInv
  <1>15. BounceInv'
    <2>1. SUFFICES ASSUME NEW u \in Threads, pending'[u].op = "bounce"
                   PROVE  /\ pending'[u].addr \in Storage /\ recvs[pending'[u].addr] = 0
                          /\ era'[pending'[u].addr] = 1 /\ mem'[pending'[u].addr] = MaxLen
                          /\ pending'[u].ok = "sent" => pending'[u].len = MaxLen
      BY <1>2, Zenon DEF BounceInv
    <2>2. CASE u = t
      BY <1>3, <1>5, <1>6, <1>7, <1>9, <2>2, Zenon
    <2>3. CASE u # t
      BY <1>1, <1>4, <1>6, <1>7, <1>10, <2>1, <2>3 DEF BounceInv, Addressed, Places
    <2>4. QED
      BY <2>2, <2>3, Zenon
  <1>16. UniqueInv'
    BY <1>1, <1>4, <1>5, <1>10, UniqueOther, Zenon
  <1>17. CommandInv'
    BY <1>1, <1>2, <1>8, CommandInvOther, Zenon
  <1>18. StorageInv'
    <2>1. \A b \in Storage : b # a => mem'[b] = mem[b] /\ era'[b] = era[b]
      BY <1>6, <1>7, Zenon DEF Places
    <2>2. \A g \in Gpus, d \in Domains : local_mr_map[g][d][a] = NoMr
      BY <1>1, <1>3 DEF StorageInv
    <2>3. QED
      BY <1>1, <1>2, <1>7, <1>9, <2>1, <2>2 DEF StorageInv
  <1>19. UnregisterInv' /\ GroupCallInv' /\ RegisterReply' /\ UnregisterReply' /\ BounceReply'
    <2>1. pending'[t].op # "unregister" /\ pending'[t].op # "group"
      BY <1>5, Zenon
    <2>2. QED
      BY <1>2, <1>4, <1>5, <2>1, UnregisterOther, GroupOther, RepliesOther, Zenon DEF IInv
  <1>20. QED
    BY <1>2, <1>4, <1>11, <1>12, <1>13, <1>14, <1>15, <1>16, <1>17, <1>18, <1>19,
       CountTypeKept, GroupTypeKept, AppTypeKept, CommandTypeKept, HeldInvKept, GroupInvKept,
       Zenon DEF IInv

\* add_peer_group keeps the invariant up to the reply: the worker does not know
\* the group yet.
LEMMA AddPeerGroupStep ==
  ASSUME IInv, Tidy, NEW t \in Threads, NEW g \in Gpus, AddPeerGroup(t, g)
  PROVE  IInv'
  <1> DEFINE call == [op |-> "group", worker |-> g, ok |-> "sent"]
  <1>1. CallType /\ QueueInv /\ GroupCallInv /\ UniqueInv
    BY DEF IInv
  <1>2. UNCHANGED <<provider, device, mem, era, local_mr_map, orphans, mr_device_map,
                    peer_groups, domain_groups, group_handle, held, descriptor, touched, cmds,
                    answers, recvs, failures>>
    BY Zenon DEF AddPeerGroup, heap, engine, groups, app
  <1>3. g \notin peer_groups /\ \A u \in Threads : pending[u].op # "group"
    BY Zenon DEF AddPeerGroup
  <1>4. /\ QueueInv' /\ CallType' /\ pending'[t] = call
        /\ \A u \in Threads : u # t => pending'[u] = pending[u]
    <2>1. call.op \in Addressed \cup {"group"} /\ call.ok = "sent" /\ Serves(g, call)
      BY Zenon DEF Serves, Access
    <2>2. Send(t, g, call)
      BY Zenon DEF AddPeerGroup
    <2>3. QED
      BY <1>1, <1>2, <2>1, <2>2, SendFacts, Zenon
  <1>5. pending'[t].op = "group" /\ pending'[t].ok = "sent" /\ pending'[t].worker = g
    BY <1>4
  <1> HIDE DEF call
  <1>6. GroupCallInv'
    <2>1. \A u \in Threads : pending'[u].op = "group" => u = t
      BY <1>3, <1>4
    <2>2. QED
      BY <1>2, <1>3, <1>5, <2>1, Zenon DEF GroupCallInv
  <1>7. pending'[t].op \notin Addressed
    BY <1>5 DEF Addressed, Access
  <1>8. UniqueInv'
    BY <1>1, <1>3, <1>4, <1>7, UniqueOther, Zenon
  <1>9. AccessInv' /\ UnregisterInv' /\ BounceInv'
    <2>1. pending'[t].op \notin Access /\ pending'[t].op # "unregister" /\ pending'[t].op # "bounce"
      BY <1>7, Zenon DEF Addressed
    <2>2. QED
      BY <1>2, <1>4, <2>1, AccessOther, UnregisterOther, BounceOther, Zenon DEF IInv
  <1>10. RegisterReply' /\ UnregisterReply' /\ BounceReply'
    BY <1>2, <1>4, <1>5, RepliesOther, Zenon DEF IInv
  <1>11. QED
    BY <1>2, <1>4, <1>6, <1>8, <1>9, <1>10, HeapTypeKept, MrTypeKept, CountTypeKept,
       GroupTypeKept, AppTypeKept, CommandTypeKept, RegionInvKept, HeldInvKept, GroupInvKept,
       CommandInvKept, StorageInvKept, Zenon DEF IInv

----------------------------------------------------------------------------
(* Peer groups, and the return of calls.                                    *)

\* add_peer_group on a worker keeps the invariant: the first call enters the
\* group, and its reply is good only if every domain took it.
LEMMA WorkerAddGroupStep ==
  ASSUME IInv, NEW g \in Gpus, WorkerAddGroup(g)
  PROVE  IInv'
  <1> DEFINE t == Head(calls[g])
  <1>1. CountType /\ GroupType /\ CallType /\ GroupCallInv /\ UniqueInv /\ QueueInv /\ GroupInv
    BY DEF IInv
  <1>2. UNCHANGED <<provider, device, mem, era, local_mr_map, orphans, mr_device_map,
                    group_handle, held, descriptor, touched, cmds, answers, recvs>>
    BY Zenon DEF WorkerAddGroup, heap, engine, app
  <1>3. /\ DOMAIN pending' = Threads /\ pending[t].op = "group"
        /\ \A u \in Threads : u # t => pending'[u] = pending[u]
        /\ t \in Threads => pending'[t].op = pending[t].op
    <2>1. \E r : pending' = [pending EXCEPT ![t] = [op |-> "group", worker |-> g, ok |-> r]]
      BY Zenon DEF WorkerAddGroup
    <2>2. pending[t].op = "group"
      BY Zenon DEF WorkerAddGroup
    <2>3. QED
      BY <1>1, <2>1, <2>2 DEF CallType
  <1>4. calls[g] # <<>> /\ calls' = [calls EXCEPT ![g] = Tail(@)]
    BY Zenon DEF WorkerAddGroup
  <1>5. /\ QueueInv' /\ CallType' /\ t \in Threads
        /\ Serves(g, pending[t]) /\ pending[t].ok = "sent"
    BY <1>1, <1>2, <1>3, <1>4, AnswerFacts, Zenon
  <1>6. g \notin peer_groups /\ peer_groups' = peer_groups \cup {g}
    BY <1>1, <1>3, <1>5, Zenon DEF WorkerAddGroup, GroupCallInv, Serves
  <1>7. PICK fails \in {0} \cup Domains :
          /\ fails # 0 => failures < MaxFailures
          /\ failures' = IF fails = 0 THEN failures ELSE failures + 1
          /\ domain_groups' = [domain_groups EXCEPT ![g] =
                @ \cup {d \in Domains : fails = 0 \/ d < fails}]
          /\ pending' = [pending EXCEPT ![t] =
                [op |-> "group", worker |-> g, ok |-> Reply(fails)]]
    BY <1>6, Zenon DEF WorkerAddGroup
  <1> HIDE DEF t
  <1>8. /\ pending'[t].op = "group" /\ pending'[t].worker = g /\ pending'[t].ok # "sent"
        /\ pending'[t].ok = "ok" => fails = 0
    BY <1>1, <1>5, <1>7, Zenon DEF CallType, Reply
  <1>9. /\ domain_groups' \in [Gpus -> SUBSET Domains]
        /\ \A h \in Gpus : h # g => domain_groups'[h] = domain_groups[h]
        /\ fails = 0 => domain_groups'[g] = Domains
    BY <1>1, <1>7, Zenon DEF GroupType
  <1>10. GroupType'
    BY <1>1, <1>2, <1>6, <1>9, Zenon DEF GroupType
  <1>11. CountType'
    <2>1. failures' \in 0..MaxFailures /\ orphans <= failures'
      BY <1>1, <1>7, MemoryRegionsAssumption DEF CountType
    <2>2. QED
      BY <1>1, <1>2, <2>1, Zenon DEF CountType
  <1>12. GroupCallInv'
    <2>1. \A u \in Threads : pending'[u].op = "group" => u = t
      BY <1>1, <1>3, <1>5, Zenon DEF UniqueInv
    <2>2. QED
      BY <1>6, <1>8, <1>9, <2>1, Zenon DEF GroupCallInv
  <1>13. GroupInv'
    <2>1. \A h \in group_handle : h \in Gpus /\ h # g
      BY <1>1, <1>6, Zenon DEF GroupInv, GroupType
    <2>2. QED
      BY <1>1, <1>2, <1>6, <1>9, <2>1, Zenon DEF GroupInv
  <1>14. /\ pending'[t].op \notin Addressed /\ pending'[t].op \notin Access
         /\ pending'[t].op # "unregister" /\ pending'[t].op # "bounce"
    BY <1>8, Zenon DEF Addressed, Access
  <1>15. UniqueInv'
    <2>1. \A u \in Threads : u # t => pending[u].op # "group"
      BY <1>1, <1>3, <1>5, Zenon DEF UniqueInv
    <2>2. QED
      BY <1>1, <1>3, <1>5, <1>14, <2>1, UniqueOther, Zenon
  <1>16. AccessInv' /\ UnregisterInv' /\ BounceInv'
    BY <1>2, <1>3, <1>5, <1>14, AccessOther, UnregisterOther, BounceOther, Zenon DEF IInv
  <1>17. RegisterReply' /\ UnregisterReply' /\ BounceReply'
    BY <1>2, <1>3, <1>5, <1>14, RepliesOther, Zenon DEF IInv
  <1>18. QED
    BY <1>2, <1>5, <1>10, <1>11, <1>12, <1>13, <1>15, <1>16, <1>17, HeapTypeKept, MrTypeKept,
       AppTypeKept, CommandTypeKept, RegionInvKept, HeldInvKept, CommandInvKept,
       StorageInvKept, Zenon DEF IInv

\* A call that returns leaves the channels, the caches and all other calls alone.
LEMMA ReturnFacts ==
  ASSUME IInv, NEW t \in Threads, Return(t)
  PROVE  /\ UNCHANGED <<provider, device, era, local_mr_map, orphans, peer_groups,
                        domain_groups, calls, cmds, answers, failures>>
         /\ \A u \in Threads : u # t => pending'[u] = pending[u]
         /\ pending'[t].op = "none" /\ pending[t].ok # "sent"
         /\ MrType' /\ CommandType' /\ CallType' /\ QueueInv' /\ UniqueInv' /\ GroupCallInv'
         /\ RegisterReply' /\ UnregisterReply' /\ BounceReply'
  <1>1. CallType /\ QueueInv /\ UniqueInv
    BY DEF IInv
  <1>2. UNCHANGED <<provider, device, era, local_mr_map, orphans, peer_groups,
                    domain_groups, calls, cmds, answers, failures>>
    BY Zenon DEF Return
  <1>3. /\ DOMAIN pending' = Threads /\ pending'[t].op = "none" /\ pending[t].ok # "sent"
        /\ \A u \in Threads : u # t => pending'[u] = pending[u]
    BY <1>1, Zenon DEF Return, CallType, Idle
  <1>4. CallType'
    BY <1>1, <1>2, <1>3, Zenon DEF CallType
  <1>5. QueueInv'
    <2>1. \A g \in Gpus : \A i \in 1..Len(calls[g]) : calls[g][i] \in Threads /\ calls[g][i] # t
      BY <1>1, <1>3 DEF QueueInv, CallType
    <2>2. \A g \in Gpus : \A i \in 1..Len(calls[g]) : pending'[calls[g][i]] = pending[calls[g][i]]
      BY <1>3, <2>1, Zenon
    <2>3. \A g \in Gpus : \A i \in 1..Len(calls'[g]) :
            /\ pending'[calls'[g][i]].op # "none" /\ pending'[calls'[g][i]].ok = "sent"
            /\ Serves(g, pending'[calls'[g][i]])
            /\ \A j \in 1..Len(calls'[g]) : calls'[g][i] = calls'[g][j] => i = j
      BY <1>1, <1>2, <2>2 DEF QueueInv
    <2>4. QED
      BY <1>2, <2>3, QueueIntro, Zenon
  <1>6. pending'[t].op \notin Addressed /\ pending'[t].op # "group"
    BY <1>3, Zenon DEF Addressed, Access
  <1>7. UniqueInv'
    BY <1>1, <1>3, <1>6, UniqueOther, Zenon
  <1>8. GroupCallInv' /\ RegisterReply' /\ UnregisterReply' /\ BounceReply'
    BY <1>2, <1>3, <1>6, GroupOther, RepliesOther, Zenon DEF IInv
  <1>9. MrType' /\ CommandType'
    BY <1>2, MrTypeKept, CommandTypeKept, Zenon DEF IInv
  <1>10. QED
    BY <1>2, <1>3, <1>4, <1>5, <1>7, <1>8, <1>9, Zenon

\* The return of a good registration keeps the invariant: the reply came with a
\* region on every domain, which mr_device_map, handle and descriptor now name.
LEMMA ReturnRegister ==
  ASSUME IInv, NEW t \in Threads, Return(t), pending[t].op \in Access, pending[t].ok = "ok"
  PROVE  IInv'
  <1> DEFINE a == pending[t].addr
  <1>1. AppType /\ CommandType /\ HeldInv /\ AccessInv /\ UnregisterInv /\ RegisterReply
        /\ UniqueInv /\ CommandInv /\ HeapType
    BY DEF IInv
  <1>2. /\ UNCHANGED <<provider, device, era, local_mr_map, orphans, peer_groups,
                       domain_groups, calls, cmds, answers, failures>>
        /\ \A u \in Threads : u # t => pending'[u] = pending[u]
        /\ pending'[t].op = "none"
    BY ReturnFacts, Zenon
  <1>3. UNCHANGED <<mem, recvs, touched, group_handle>>
    BY Zenon DEF Return, Access
  <1>4. a \in Addrs /\ a \in Places /\ touched[a] = pending[t].op /\ device[a] \in Devices \cup {0}
    BY <1>1, Zenon DEF AccessInv, HeapType, Places
  <1>5. /\ mr_device_map' = [mr_device_map EXCEPT ![a] = device[a]]
        /\ held' = [held EXCEPT ![a] = pending[t].op]
        /\ descriptor' = IF pending[t].op = "remote"
                         THEN [descriptor EXCEPT ![a] = pending[t].rkeys] ELSE descriptor
    BY Zenon DEF Return
  <1>6. \A d \in Domains : MrOf(a, d) # NoMr /\ pending[t].rkeys[d] = MrOf(a, d)
    BY <1>1, Zenon DEF RegisterReply
  <1> HIDE DEF a
  <1>7. AppType'
    BY <1>1, <1>3, <1>4, <1>5, Zenon DEF AppType
  <1>8. /\ held'[a] = pending[t].op /\ mr_device_map'[a] = device[a]
        /\ pending[t].op = "remote" => descriptor'[a] = pending[t].rkeys
        /\ \A b \in Places : b # a => /\ held'[b] = held[b] /\ descriptor'[b] = descriptor[b]
                                      /\ mr_device_map'[b] = mr_device_map[b]
    BY <1>1, <1>4, <1>5, Zenon DEF AppType
  <1>9. HeldInv'
    <2>1. SUFFICES ASSUME NEW b \in Places, held'[b] # "no"
                   PROVE  /\ b \in Addrs /\ touched[b] = held'[b]
                          /\ mr_device_map'[b] = device[b]
                          /\ \A d \in Domains :
                              /\ MrOf(b, d) # NoMr
                              /\ held'[b] = "remote" => descriptor'[b][d] = MrOf(b, d)
      BY <1>2, <1>3, Zenon DEF HeldInv, MrOf, WorkerOf
    <2>2. CASE b = a
      BY <1>4, <1>6, <1>8, <2>2, Zenon
    <2>3. CASE b # a
      BY <1>1, <1>8, <2>1, <2>3, Zenon DEF HeldInv
    <2>4. QED
      BY <2>2, <2>3, Zenon
  <1>10. UnregisterInv'
    <2>1. \A u \in Threads : pending'[u].op = "unregister" =>
            /\ pending'[u] = pending[u] /\ pending[u].addr \in Places /\ pending[u].addr # a
      BY <1>1, <1>2, Zenon DEF UnregisterInv, UniqueInv, Addressed, Places, a
    <2>2. \A u \in Threads : pending'[u].op = "unregister" =>
            pending'[u] = pending[u] /\ held'[pending[u].addr] = held[pending[u].addr]
      BY <1>8, <2>1, Zenon
    <2>3. QED
      BY <1>1, <1>2, <1>3, <2>2 DEF UnregisterInv, WorkerOf
  <1>11. CommandInv'
    <2>1. \A b \in Addrs : held[b] # "no" => held'[b] # "no"
      BY <1>8, Zenon DEF Places, Access
    <2>2. QED
      BY <1>1, <1>2, <1>3, <2>1, CommandInvOther, Zenon
  <1>12. AccessInv' /\ BounceInv'
    <2>1. pending'[t].op \notin Access /\ pending'[t].op # "bounce"
      BY <1>2, Zenon DEF Access
    <2>2. QED
      BY <1>2, <1>3, <2>1, AccessOther, BounceOther, Zenon DEF IInv
  <1>13. QED
    BY <1>2, <1>3, <1>7, <1>9, <1>10, <1>11, <1>12, ReturnFacts, HeapTypeKept, CountTypeKept,
       GroupTypeKept, RegionInvKept, GroupInvKept, StorageInvKept, Zenon DEF IInv

\* The return of an unregistration keeps the invariant: no domain has a region at
\* the address any more.
LEMMA ReturnUnregister ==
  ASSUME IInv, NEW t \in Threads, Return(t), pending[t].op = "unregister"
  PROVE  IInv'
  <1> DEFINE a == pending[t].addr
  <1>1. AppType /\ RegionInv /\ HeldInv /\ AccessInv /\ UnregisterInv /\ UnregisterReply
        /\ UniqueInv
    BY Zenon DEF IInv
  <1>2. /\ UNCHANGED <<provider, device, era, local_mr_map, orphans, peer_groups,
                       domain_groups, calls, cmds, answers, failures>>
        /\ \A u \in Threads : u # t => pending'[u] = pending[u]
        /\ pending'[t].op = "none" /\ pending[t].ok # "sent"
    BY ReturnFacts, Zenon
  <1>3. UNCHANGED <<mem, recvs, mr_device_map, held, descriptor, group_handle>>
    BY Zenon DEF Return, Access
  <1>4. a \in Addrs /\ a \in Places /\ held[a] = "no"
    BY <1>1, Zenon DEF UnregisterInv, Places
  <1>5. \A g \in Gpus, d \in Domains : local_mr_map[g][d][a] = NoMr
    BY <1>1, <1>2, Zenon DEF UnregisterReply
  <1>6. touched' = [touched EXCEPT ![a] = "no"]
    BY Zenon DEF Return
  <1>7. \A u \in Threads : u # t /\ pending[u].op \in Addressed => pending[u].addr # a
    BY <1>1, Zenon DEF UniqueInv, Addressed
  <1> HIDE DEF a
  <1>8. AppType'
    BY <1>1, <1>3, <1>6, Zenon DEF AppType
  <1>9. touched'[a] = "no" /\ \A b \in Places : b # a => touched'[b] = touched[b]
    BY <1>1, <1>4, <1>6, Zenon DEF AppType
  <1>10. RegionInv'
    <2>1. \A b \in Addrs : b # a => touched'[b] = touched[b]
      BY <1>9, Zenon DEF Places
    <2>2. QED
      BY <1>1, <1>2, <1>3, <1>5, <1>9, <2>1, RegionInvOther, ZenonT(40)
  <1>11. HeldInv'
    <2>1. \A b \in Places : held[b] # "no" => touched'[b] = touched[b]
      BY <1>4, <1>9, Zenon
    <2>2. QED
      BY <1>1, <1>2, <1>3, <2>1, HeldInvOther, Zenon DEF MrOf, WorkerOf
  <1>12. \A u \in Threads : pending'[u].op \in Addressed =>
           /\ u # t /\ pending'[u] = pending[u]
           /\ pending[u].addr \in Addrs => touched'[pending[u].addr] = touched[pending[u].addr]
    <2>1. "none" \notin Addressed
      BY Zenon DEF Addressed, Access
    <2>2. QED
      BY <1>2, <1>7, <1>9, <2>1, Zenon DEF Places
  <1>13. AccessInv'
    <2>1. \A u \in Threads : pending'[u].op \in Access =>
            /\ pending'[u] = pending[u] /\ pending[u].op \in Access
            /\ pending[u].addr \in Addrs => touched'[pending[u].addr] = touched[pending[u].addr]
      BY <1>12, Zenon DEF Addressed
    <2>2. SUFFICES ASSUME NEW u \in Threads, pending'[u].op \in Access
                   PROVE  /\ pending'[u].addr \in Addrs
                          /\ touched'[pending'[u].addr] = pending'[u].op
                          /\ pending'[u].ok = "sent" =>
                              pending'[u].len = mem'[pending'[u].addr]
      BY Zenon DEF AccessInv
    <2>3. /\ pending[u].addr \in Addrs /\ touched[pending[u].addr] = pending[u].op
          /\ pending[u].ok = "sent" => pending[u].len = mem[pending[u].addr]
      BY <1>1, <2>1, <2>2, Zenon DEF AccessInv
    <2>4. QED
      BY <1>3, <2>1, <2>2, <2>3, Zenon
  <1>14. UnregisterInv'
    <2>1. SUFFICES ASSUME NEW u \in Threads, pending'[u].op = "unregister"
                   PROVE  /\ pending'[u].addr \in Addrs /\ touched'[pending'[u].addr] # "no"
                          /\ held[pending'[u].addr] = "no"
                          /\ WorkerOf(device[pending'[u].addr]) = Main
      BY <1>2, <1>3, Zenon DEF UnregisterInv, WorkerOf
    <2>2. /\ pending'[u] = pending[u]
          /\ pending[u].addr \in Addrs => touched'[pending[u].addr] = touched[pending[u].addr]
      BY <1>12, <2>1, Zenon DEF Addressed
    <2>3. /\ pending[u].addr \in Addrs /\ touched[pending[u].addr] # "no"
          /\ held[pending[u].addr] = "no" /\ WorkerOf(device[pending[u].addr]) = Main
      BY <1>1, <2>1, <2>2, Zenon DEF UnregisterInv
    <2>4. QED
      BY <2>2, <2>3, Zenon
  <1>15. BounceInv'
    <2>1. pending'[t].op # "bounce"
      BY <1>2, Zenon
    <2>2. QED
      BY <1>2, <1>3, <2>1, BounceOther, Zenon DEF IInv
  <1>16. QED
    BY <1>2, <1>3, <1>8, <1>10, <1>11, <1>13, <1>14, <1>15, ReturnFacts, HeapTypeKept,
       CountTypeKept, GroupTypeKept, GroupInvKept, CommandInvKept, StorageInvKept, Zenon
       DEF IInv

\* The return of submit_bouncing_recvs keeps the invariant: receives are posted
\* only into storage registered on all domains, and after a failure it is dropped.
LEMMA ReturnBounce ==
  ASSUME IInv, NEW t \in Threads, Return(t), pending[t].op = "bounce"
  PROVE  IInv'
  <1> DEFINE a == pending[t].addr
  <1> DEFINE good == pending[t].ok = "ok"
  <1>1. HeapType /\ CountType /\ AppType /\ CommandType /\ RegionInv /\ HeldInv /\ AccessInv
        /\ BounceInv /\ BounceReply /\ UniqueInv /\ CommandInv /\ StorageInv
    BY Zenon DEF IInv
  <1>2. /\ UNCHANGED <<provider, device, era, local_mr_map, orphans, peer_groups,
                       domain_groups, calls, cmds, answers, failures>>
        /\ \A u \in Threads : u # t => pending'[u] = pending[u]
        /\ pending'[t].op = "none"
    BY ReturnFacts, Zenon
  <1>3. UNCHANGED <<held, descriptor, touched, group_handle>>
    BY Zenon DEF Return, Access
  <1>4. /\ recvs' = IF good THEN [recvs EXCEPT ![a] = Recvs] ELSE recvs
        /\ mem' = IF good THEN mem ELSE [mem EXCEPT ![a] = 0]
        /\ mr_device_map' = IF good THEN [mr_device_map EXCEPT ![a] = device[a]]
                            ELSE mr_device_map
    BY Zenon DEF Return
  <1>5. /\ a \in Storage /\ a \in Places /\ a \notin Addrs /\ recvs[a] = 0
        /\ era[a] = 1 /\ mem[a] = MaxLen
    BY <1>1, MemoryRegionsAssumption, Zenon DEF BounceInv, Places
  <1>6. good => \A d \in Domains : local_mr_map[Main][d][a] # NoMr
    BY <1>1, Zenon DEF BounceReply
  <1>7. \A u \in Threads : pending'[u].op = "bounce" =>
          pending'[u] = pending[u] /\ pending[u].op = "bounce" /\ pending[u].addr # a
    BY <1>1, <1>2, Zenon DEF UniqueInv, Addressed
  <1> HIDE DEF a, good
  <1>8. /\ recvs' \in [Places -> 0..Recvs]
        /\ recvs'[a] > 0 => good
        /\ \A b \in Places : b # a => recvs'[b] = recvs[b]
    BY <1>1, <1>4, <1>5, MemoryRegionsAssumption DEF CountType
  <1>9. /\ mem' \in [Places -> 0..MaxLen]
        /\ good => mem'[a] = MaxLen
        /\ \A b \in Places : b # a => mem'[b] = mem[b]
    BY <1>1, <1>4, <1>5, MemoryRegionsAssumption DEF HeapType
  <1>10. /\ mr_device_map' \in [Places -> Devices \cup {-1, 0}]
         /\ \A b \in Places : b # a => mr_device_map'[b] = mr_device_map[b]
    <2>1. device[a] \in Devices \cup {-1, 0}
      BY <1>1, <1>5, Zenon DEF HeapType
    <2>2. QED
      BY <1>1, <1>4, <2>1, Zenon DEF AppType
  <1>11. HeapType'
    BY <1>1, <1>2, <1>9, Zenon DEF HeapType
  <1>12. CountType'
    BY <1>1, <1>2, <1>8, Zenon DEF CountType
  <1>13. AppType'
    BY <1>1, <1>3, <1>10, Zenon DEF AppType
  <1>14. \A b \in Addrs : mem'[b] = mem[b] /\ mr_device_map'[b] = mr_device_map[b]
    BY <1>5, <1>9, <1>10, Zenon DEF Places
  <1>15. RegionInv'
    BY <1>1, <1>2, <1>3, <1>14, RegionInvOther, Zenon
  <1>16. HeldInv'
    BY <1>1, <1>2, <1>3, <1>14, Zenon DEF HeldInv, MrOf, WorkerOf
  <1>17. AccessInv'
    <2>1. pending'[t].op \notin Access
      BY <1>2, Zenon DEF Access
    <2>2. \A u \in Threads : pending'[u].op \in Access =>
            pending'[u] = pending[u] /\ pending[u].op \in Access
      BY <1>2, <2>1, Zenon
    <2>3. \A u \in Threads : pending[u].op \in Access =>
            pending[u].addr \in Addrs /\ mem'[pending[u].addr] = mem[pending[u].addr]
      BY <1>1, <1>14, Zenon DEF AccessInv
    <2>4. QED
      BY <1>1, <1>3, <2>2, <2>3 DEF AccessInv
  <1>18. BounceInv'
    <2>1. \A u \in Threads : pending'[u].op = "bounce" =>
            /\ pending'[u] = pending[u] /\ mem'[pending[u].addr] = mem[pending[u].addr]
            /\ recvs'[pending[u].addr] = recvs[pending[u].addr]
      BY <1>1, <1>7, <1>8, <1>9, Zenon DEF BounceInv, Places
    <2>2. QED
      <3>1. SUFFICES ASSUME NEW u \in Threads, pending'[u].op = "bounce"
                     PROVE  /\ pending'[u].addr \in Storage /\ recvs'[pending'[u].addr] = 0
                            /\ era'[pending'[u].addr] = 1 /\ mem'[pending'[u].addr] = MaxLen
                            /\ pending'[u].ok = "sent" => pending'[u].len = MaxLen
        BY Zenon DEF BounceInv
      <3>2. /\ pending'[u] = pending[u] /\ mem'[pending[u].addr] = mem[pending[u].addr]
            /\ recvs'[pending[u].addr] = recvs[pending[u].addr]
        BY <2>1, <3>1, Zenon
      <3>3. /\ pending[u].addr \in Storage /\ recvs[pending[u].addr] = 0
            /\ era[pending[u].addr] = 1 /\ mem[pending[u].addr] = MaxLen
            /\ pending[u].ok = "sent" => pending[u].len = MaxLen
        BY <1>1, <3>1, <3>2, Zenon DEF BounceInv
      <3>4. QED
        BY <1>2, <3>2, <3>3, Zenon
  <1>19. CommandInv'
    BY <1>1, <1>2, <1>3, <1>14, CommandInvOther, Zenon
  <1>20. StorageInv'
    <2>1. \A b \in Places : recvs'[b] > 0 => b \in Storage
      BY <1>1, <1>5, <1>8, Zenon DEF StorageInv
    <2>2. \A b \in Storage : recvs'[b] > 0 =>
            /\ mem'[b] = MaxLen /\ era[b] = 1
            /\ \A d \in Domains : local_mr_map[Main][d][b] # NoMr
      <3>1. \A b \in Storage : b # a => recvs'[b] = recvs[b] /\ mem'[b] = mem[b]
        BY <1>8, <1>9, Zenon DEF Places
      <3>2. QED
        BY <1>1, <1>5, <1>6, <1>8, <1>9, <3>1, Zenon DEF StorageInv
    <2>3. QED
      BY <1>1, <1>2, <2>1, <2>2, Zenon DEF StorageInv
  <1>21. UnregisterInv'
    <2>1. pending'[t].op # "unregister"
      BY <1>2, Zenon
    <2>2. QED
      BY <1>2, <1>3, <2>1, UnregisterOther, Zenon DEF IInv
  <1>22. QED
    BY <1>2, <1>3, <1>11, <1>12, <1>13, <1>15, <1>16, <1>17, <1>18, <1>19, <1>20, <1>21,
       ReturnFacts, GroupTypeKept, GroupInvKept, Zenon DEF IInv

\* Failed registrations and peer groups: a handle is given only for a group that
\* every domain took.
LEMMA ReturnOther ==
  ASSUME IInv, NEW t \in Threads, Return(t), pending[t].op \notin {"bounce", "unregister"},
         pending[t].ok = "ok" => pending[t].op \notin Access
  PROVE  IInv'
  <1>1. GroupType /\ GroupCallInv /\ GroupInv
    BY Zenon DEF IInv
  <1>2. /\ UNCHANGED <<provider, device, era, local_mr_map, orphans, peer_groups,
                       domain_groups, calls, cmds, answers, failures>>
        /\ \A u \in Threads : u # t => pending'[u] = pending[u]
        /\ pending'[t].op = "none"
    BY ReturnFacts, Zenon
  <1>3. UNCHANGED <<mem, recvs, mr_device_map, held, descriptor, touched>>
    BY Zenon DEF Return, Access
  <1>4. group_handle' = IF pending[t].ok = "ok" /\ pending[t].op = "group"
                        THEN group_handle \cup {pending[t].worker} ELSE group_handle
    BY Zenon DEF Return
  <1>5. pending[t].ok = "ok" /\ pending[t].op = "group" =>
          /\ pending[t].worker \in Gpus /\ pending[t].worker \in peer_groups
          /\ domain_groups[pending[t].worker] = Domains
    BY <1>1, Zenon DEF GroupCallInv
  <1>6. GroupType'
    BY <1>1, <1>2, <1>4, <1>5, Zenon DEF GroupType
  <1>7. GroupInv'
    BY <1>1, <1>2, <1>4, <1>5, Zenon DEF GroupInv
  <1>8. AccessInv' /\ UnregisterInv' /\ BounceInv'
    <2>1. pending'[t].op \notin Access /\ pending'[t].op # "unregister" /\ pending'[t].op # "bounce"
      BY <1>2, Zenon DEF Access
    <2>2. QED
      BY <1>2, <1>3, <2>1, AccessOther, UnregisterOther, BounceOther, Zenon DEF IInv
  <1>9. QED
    BY <1>2, <1>3, <1>6, <1>7, <1>8, ReturnFacts, HeapTypeKept, CountTypeKept, AppTypeKept,
       RegionInvKept, HeldInvKept, CommandInvKept, StorageInvKept, Zenon DEF IInv

\* The return of any call keeps the invariant.
LEMMA ReturnStep ==
  ASSUME IInv, NEW t \in Threads, Return(t)
  PROVE  IInv'
  BY ReturnRegister, ReturnUnregister, ReturnBounce, ReturnOther, Zenon

----------------------------------------------------------------------------
(* The worker threads.                                                      *)

\* A length covers itself.
LEMMA LongEnough == \A i \in Nat : i >= i
  OBVIOUS

\* unregister_mr on the main worker keeps the invariant: regions of this memory
\* are nowhere else.
LEMMA WorkerUnregisterStep ==
  ASSUME IInv, NEW g \in Gpus, WorkerUnregister(g)
  PROVE  IInv'
  <1> DEFINE t == Head(calls[g])
  <1> DEFINE a == pending[t].addr
  <1>1. HeapType /\ MrType /\ CallType /\ RegionInv /\ HeldInv /\ AccessInv /\ UnregisterInv
        /\ BounceInv /\ RegisterReply /\ UnregisterReply /\ BounceReply /\ UniqueInv
        /\ QueueInv /\ StorageInv
    BY DEF IInv
  <1>2. UNCHANGED <<provider, device, mem, era, orphans, mr_device_map, peer_groups,
                    domain_groups, group_handle, held, descriptor, touched, cmds, answers,
                    recvs, failures>>
    BY DEF WorkerUnregister, heap, groups, app
  <1>3. /\ DOMAIN pending' = Threads /\ pending[t].op = "unregister"
        /\ \A u \in Threads : u # t => pending'[u] = pending[u]
        /\ t \in Threads => pending'[t] = [op |-> "unregister", addr |-> a, ok |-> "ok"]
    BY <1>1 DEF WorkerUnregister, CallType
  <1>4. calls[g] # <<>> /\ calls' = [calls EXCEPT ![g] = Tail(@)]
    BY DEF WorkerUnregister
  <1>5. QueueInv' /\ CallType' /\ t \in Threads /\ Serves(g, pending[t])
    <2>1. t \in Threads => pending'[t].op = pending[t].op
      BY <1>3
    <2>2. QED
      BY <1>1, <1>2, <1>3, <1>4, <2>1, AnswerFacts, ZenonT(40)
  <1>6. local_mr_map' = [local_mr_map EXCEPT ![g] = [d \in Domains |-> [@[d] EXCEPT ![a] = NoMr]]]
    BY Zenon DEF WorkerUnregister, UnregisterDomains, Forget
  <1>7. pending'[t].op = "unregister" /\ pending'[t].addr = a /\ pending'[t].ok = "ok"
    BY <1>3, <1>5
  <1>8. /\ a \in Addrs /\ touched[a] # "no" /\ held[a] = "no" /\ WorkerOf(device[a]) = Main
        /\ g = Main
    BY <1>1, <1>3, <1>5, Zenon DEF UnregisterInv, Serves
  <1>9. \A u \in Threads : u # t /\ pending[u].op \in Addressed => pending[u].addr # a
    BY <1>1, <1>3, <1>5, Zenon DEF UniqueInv, Addressed
  <1> HIDE DEF a, t
  <1>10. \A h \in Gpus, d \in Domains, b \in Places :
           local_mr_map'[h][d][b] = IF h = g /\ b = a THEN NoMr ELSE local_mr_map[h][d][b]
    BY <1>1, <1>6 DEF MrType
  <1>11. \A h \in Gpus, d \in Domains : local_mr_map'[h][d][a] = NoMr
    BY <1>1, <1>8, <1>10 DEF RegionInv, RegionOk, Places
  <1>12. MrType'
    <2>1. NoMr \in Mrs /\ NoMr.era = 0 /\ NoMr.len = 0
      BY DEF NoMr, Mrs
    <2>2. local_mr_map' \in [Gpus -> [Domains -> [Places -> Mrs]]]
      BY <1>1, <1>6, <2>1, Zenon DEF MrType
    <2>3. \A b \in Places : 0 \in 0..era[b] /\ 0 \in 0..MaxLen
      BY <1>1, MemoryRegionsAssumption DEF HeapType
    <2>4. \A h \in Gpus, d \in Domains, b \in Places :
            /\ local_mr_map'[h][d][b].era \in 0..era[b]
            /\ local_mr_map'[h][d][b].len \in 0..MaxLen
      <3>1. SUFFICES ASSUME NEW h \in Gpus, NEW d \in Domains, NEW b \in Places
                     PROVE  /\ local_mr_map'[h][d][b].era \in 0..era[b]
                            /\ local_mr_map'[h][d][b].len \in 0..MaxLen
        BY Zenon
      <3>2. CASE local_mr_map'[h][d][b] = NoMr
        BY <2>1, <2>3, <3>2
      <3>3. CASE local_mr_map'[h][d][b] = local_mr_map[h][d][b]
        BY <1>1, <3>3, Zenon DEF MrType
      <3>4. QED
        BY <1>10, <3>2, <3>3, Zenon
    <2>5. QED
      BY <1>2, <2>2, <2>4, Zenon DEF MrType
  <1>13. RegionInv'
    <2>1. \A b \in Addrs, h \in Gpus, d \in Domains : local_mr_map'[h][d][b] # NoMr =>
            local_mr_map'[h][d][b] = local_mr_map[h][d][b]
      BY <1>10 DEF Places
    <2>2. QED
      BY <1>1, <1>2, <2>1, RegionInvOther, Zenon
  <1>14. \A b \in Places : b # a =>
           \A d \in Domains : local_mr_map'[WorkerOf(device[b])][d][b] = MrOf(b, d)
    <2>1. \A b \in Places : WorkerOf(device[b]) \in Gpus
      BY <1>1, WorkerInGpus
    <2>2. QED
      BY <1>10, <2>1, Zenon DEF MrOf
  <1>15. HeldInv'
    <2>1. \A b \in Places, d \in Domains : b # a => MrOf(b, d)' = MrOf(b, d)
      BY <1>2, <1>14, Zenon DEF MrOf, WorkerOf
    <2>2. QED
      BY <1>1, <1>2, <1>8, <2>1, Zenon DEF HeldInv
  <1>16. UnregisterInv'
    <2>1. SUFFICES ASSUME NEW u \in Threads, pending'[u].op = "unregister"
                   PROVE  /\ pending'[u].addr \in Addrs /\ touched[pending'[u].addr] # "no"
                          /\ held[pending'[u].addr] = "no"
                          /\ WorkerOf(device[pending'[u].addr]) = Main
      BY <1>2, Zenon DEF UnregisterInv, WorkerOf
    <2>2. CASE u = t
      BY <1>7, <1>8, <2>2
    <2>3. CASE u # t
      BY <1>1, <1>3, <2>1, <2>3, Zenon DEF UnregisterInv
    <2>4. QED
      BY <2>2, <2>3, Zenon
  <1>17. \A u \in Threads : pending'[u].op \in Access \cup {"bounce"} =>
           u # t /\ pending'[u] = pending[u] /\ pending[u].addr # a /\ pending[u].addr \in Places
    <2>1. "unregister" \notin Access \cup {"bounce"}
      BY DEF Access
    <2>2. SUFFICES ASSUME NEW u \in Threads, pending'[u].op \in Access \cup {"bounce"}
                   PROVE  /\ u # t /\ pending'[u] = pending[u]
                          /\ pending[u].addr # a /\ pending[u].addr \in Places
      BY Zenon
    <2>3. u # t
      BY <1>7, <2>1, <2>2, Zenon
    <2>4. pending'[u] = pending[u]
      BY <1>3, <2>3, Zenon
    <2>5. pending[u].op \in Access \cup {"bounce"}
      BY <2>2, <2>4, Zenon
    <2>6. pending[u].addr \in Places
      BY <1>1, <2>5, Zenon DEF AccessInv, BounceInv, Places
    <2>7. pending[u].addr # a
      BY <1>9, <2>3, <2>5, Zenon DEF Addressed
    <2>8. QED
      BY <2>3, <2>4, <2>6, <2>7, Zenon
  <1>18. RegisterReply'
    <2>1. \A u \in Threads : pending'[u].op \in Access => \A d \in Domains :
            /\ pending'[u] = pending[u]
            /\ local_mr_map'[WorkerOf(device[pending[u].addr])][d][pending[u].addr]
                = MrOf(pending[u].addr, d)
      BY <1>14, <1>17, Zenon
    <2>2. \A u \in Threads : pending'[u].op \in Access /\ pending'[u].ok = "ok" =>
            \A d \in Domains :
              /\ local_mr_map'[WorkerOf(device[pending'[u].addr])][d][pending'[u].addr] # NoMr
              /\ pending'[u].rkeys[d]
                  = local_mr_map'[WorkerOf(device[pending'[u].addr])][d][pending'[u].addr]
      <3>1. SUFFICES ASSUME NEW u \in Threads, pending'[u].op \in Access,
                            pending'[u].ok = "ok", NEW d \in Domains
                     PROVE  LET mr == local_mr_map'[WorkerOf(device[pending'[u].addr])][d]
                                          [pending'[u].addr]
                            IN  mr # NoMr /\ pending'[u].rkeys[d] = mr
        BY Zenon
      <3>2. /\ MrOf(pending[u].addr, d) # NoMr
            /\ pending[u].rkeys[d] = MrOf(pending[u].addr, d)
        BY <1>1, <2>1, <3>1, Zenon DEF RegisterReply
      <3>3. /\ pending'[u] = pending[u]
            /\ local_mr_map'[WorkerOf(device[pending[u].addr])][d][pending[u].addr]
                = MrOf(pending[u].addr, d)
        BY <2>1, <3>1, Zenon
      <3>4. QED
        BY <3>2, <3>3, Zenon
    <2>3. QED
      BY <1>2, <2>2, Zenon DEF RegisterReply, MrOf, WorkerOf
  <1>19. UnregisterReply'
    <2>1. SUFFICES ASSUME NEW u \in Threads, pending'[u].op = "unregister",
                          pending'[u].ok # "sent", NEW h \in Gpus, NEW d \in Domains
                   PROVE  local_mr_map'[h][d][pending'[u].addr] = NoMr
      BY DEF UnregisterReply
    <2>2. CASE u = t
      BY <1>7, <1>11, <2>2
    <2>3. CASE u # t
      <3>1. pending'[u] = pending[u] /\ pending[u].addr \in Places
        BY <1>1, <1>3, <2>1, <2>3, Zenon DEF UnregisterInv, Places
      <3>2. local_mr_map[h][d][pending[u].addr] = NoMr
        BY <1>1, <2>1, <3>1, Zenon DEF UnregisterReply
      <3>3. QED
        BY <1>10, <3>1, <3>2
    <2>4. QED
      BY <2>2, <2>3, Zenon
  <1>20. BounceReply'
    <2>1. \A u \in Threads : pending'[u].op = "bounce" => \A d \in Domains :
            /\ pending'[u] = pending[u]
            /\ local_mr_map'[Main][d][pending[u].addr] = local_mr_map[Main][d][pending[u].addr]
      BY <1>10, <1>17, MainInGpus
    <2>2. QED
      BY <1>1, <2>1 DEF BounceReply
  <1>21. UniqueInv'
    <2>1. \A u \in Threads : u # t => ~(pending'[t].op = "group" /\ pending[u].op = "group")
      BY <1>7
    <2>2. QED
      BY <1>1, <1>3, <1>5, <1>7, <1>9, <2>1, UniqueOther, Zenon
  <1>22. StorageInv'
    <2>1. \A h \in Gpus, d \in Domains, b \in Storage :
            local_mr_map'[h][d][b] = local_mr_map[h][d][b]
      <3>1. \A b \in Storage : b \in Places /\ b # a
        BY <1>8, MemoryRegionsAssumption, Zenon DEF Places
      <3>2. QED
        BY <1>10, <3>1, Zenon
    <2>2. \A d \in Domains, b \in Storage :
            local_mr_map'[Main][d][b] = local_mr_map[Main][d][b]
      BY <2>1, MainInGpus, Zenon
    <2>3. \A b \in Storage, h \in Gpus, d \in Domains : local_mr_map'[h][d][b] # NoMr =>
            /\ local_mr_map'[h][d][b].era = 1 /\ local_mr_map'[h][d][b].len = MaxLen
            /\ era[b] = 1
      <3>1. SUFFICES ASSUME NEW b \in Storage, NEW h \in Gpus, NEW d \in Domains,
                            local_mr_map'[h][d][b] # NoMr
                     PROVE  /\ local_mr_map'[h][d][b].era = 1
                            /\ local_mr_map'[h][d][b].len = MaxLen /\ era[b] = 1
        BY Zenon
      <3>2. local_mr_map'[h][d][b] = local_mr_map[h][d][b]
        BY <2>1, Zenon
      <3>3. local_mr_map[h][d][b] # NoMr =>
              /\ local_mr_map[h][d][b].era = 1 /\ local_mr_map[h][d][b].len = MaxLen
              /\ era[b] = 1
        BY <1>1, Zenon DEF StorageInv
      <3>4. QED
        BY <3>1, <3>2, <3>3, Zenon
    <2>4. \A b \in Storage : recvs[b] > 0 =>
            /\ mem[b] = MaxLen /\ era[b] = 1
            /\ \A d \in Domains : local_mr_map'[Main][d][b] # NoMr
      BY <1>1, <2>2, Zenon DEF StorageInv
    <2>5. (\A b \in Places : recvs[b] > 0 => b \in Storage) /\ (\A b \in Storage : era[b] \in {0, 1})
      BY <1>1, Zenon DEF StorageInv
    <2>6. QED
      BY <1>2, <2>3, <2>4, <2>5, Zenon DEF StorageInv
  <1>23. AccessInv' /\ BounceInv' /\ GroupCallInv'
    <2>1. pending'[t].op \notin Access /\ pending'[t].op # "bounce" /\ pending'[t].op # "group"
      BY <1>7 DEF Access
    <2>2. QED
      BY <1>2, <1>3, <1>5, <2>1, AccessOther, BounceOther, GroupOther, Zenon DEF IInv
  <1>24. QED
    BY <1>2, <1>5, <1>12, <1>13, <1>15, <1>16, <1>18, <1>19, <1>20, <1>21, <1>22, <1>23,
       HeapTypeKept, CountTypeKept, GroupTypeKept, AppTypeKept, CommandTypeKept, GroupInvKept,
       CommandInvKept, Zenon DEF IInv

\* The region register_mr enters for memory that is not empty is not mistaken for
\* the absence of one, and has the access of the call.
LEMMA NewMr ==
  ASSUME NEW e \in Nat, NEW n \in Nat \ {0}, NEW op, NEW new,
         new = [era |-> e, len |-> n, remote |-> op = "remote"]
  PROVE  /\ new \in Mrs /\ new # NoMr /\ new.era = e /\ new.len = n
         /\ new.remote <=> op = "remote"
  <1>1. (op = "remote") \in BOOLEAN
    OBVIOUS
  <1>2. new \in Mrs
    BY <1>1, Zenon DEF Mrs
  <1>3. new.era = e /\ new.len = n /\ new.remote = (op = "remote")
    OBVIOUS
  <1>4. new # NoMr
    BY <1>3, Zenon DEF NoMr
  <1>5. QED
    BY <1>1, <1>2, <1>3, <1>4, Zenon

\* register_mr over the domains keeps the invariant, wherever it fails: a cached
\* region is kept, a new one is of the memory that is there now.
LEMMA WorkerRegisterStep ==
  ASSUME IInv, NEW g \in Gpus, WorkerRegister(g)
  PROVE  IInv'
  <1> DEFINE t == Head(calls[g])
  <1> DEFINE call == pending[t]
  <1> DEFINE a == call.addr
  <1> DEFINE new == [era |-> era[a], len |-> call.len, remote |-> call.op = "remote"]
  <1>1. HeapType /\ MrType /\ CountType /\ CallType /\ RegionInv /\ HeldInv /\ AccessInv
        /\ UnregisterInv /\ BounceInv /\ RegisterReply /\ UnregisterReply /\ BounceReply
        /\ UniqueInv /\ QueueInv /\ StorageInv
    BY DEF IInv
  <1>2. UNCHANGED <<provider, device, mem, era, mr_device_map, peer_groups, domain_groups,
                    group_handle, held, descriptor, touched, cmds, answers, recvs>>
    BY Zenon DEF WorkerRegister, heap, groups, app
  <1>3. PICK fails \in {0} \cup MayFailAt(g, a) :
          /\ fails # 0 => failures < MaxFailures
          /\ failures' = IF fails = 0 THEN failures ELSE failures + 1
          /\ \E orphan \in LeavesOrphan(fails) : orphans' = IF orphan THEN orphans + 1 ELSE orphans
          /\ LET mrs == [d \in Domains |-> IF d \in {e \in Domains : fails = 0 \/ e < fails}
                             THEN RegisteredMr(local_mr_map[g][d][a], call)
                             ELSE local_mr_map[g][d][a]]
             IN  /\ local_mr_map' = [local_mr_map EXCEPT ![g] =
                        [d \in Domains |-> [@[d] EXCEPT ![a] = mrs[d]]]]
                 /\ pending' = [pending EXCEPT ![t] =
                        [op |-> call.op, addr |-> a, ok |-> Reply(fails), rkeys |-> mrs]]
    BY Zenon DEF WorkerRegister
  <1> DEFINE mrs == [d \in Domains |-> IF d \in {e \in Domains : fails = 0 \/ e < fails}
                        THEN RegisteredMr(local_mr_map[g][d][a], call)
                        ELSE local_mr_map[g][d][a]]
  <1>4. /\ local_mr_map' = [local_mr_map EXCEPT ![g] =
                        [d \in Domains |-> [@[d] EXCEPT ![a] = mrs[d]]]]
        /\ pending' = [pending EXCEPT ![t] =
                        [op |-> call.op, addr |-> a, ok |-> Reply(fails), rkeys |-> mrs]]
    BY <1>3, Zenon
  <1>5. \A d \in Domains :
          /\ local_mr_map[g][d][a] # NoMr => mrs[d] = local_mr_map[g][d][a]
          /\ local_mr_map[g][d][a] = NoMr => mrs[d] \in {NoMr, new}
          /\ local_mr_map[g][d][a] = NoMr /\ fails = 0 => mrs[d] = new
    BY Zenon DEF RegisteredMr, Cached
  <1>6. calls[g] # <<>> /\ calls' = [calls EXCEPT ![g] = Tail(@)]
        /\ call.op \in Access \cup {"bounce"}
    BY Zenon DEF WorkerRegister
  <1> HIDE DEF mrs, a, call, new
  <1>7. /\ DOMAIN pending' = Threads /\ \A u \in Threads : u # t => pending'[u] = pending[u]
        /\ t \in Threads => pending'[t] =
                [op |-> call.op, addr |-> a, ok |-> Reply(fails), rkeys |-> mrs]
    BY <1>1, <1>4, Zenon DEF CallType
  <1>8. QueueInv' /\ CallType' /\ t \in Threads /\ call.ok = "sent" /\ Serves(g, call)
    <2>1. t \in Threads => pending'[t].op = pending[t].op
      BY <1>7 DEF call
    <2>2. /\ QueueInv' /\ CallType' /\ t \in Threads
          /\ pending[t].ok = "sent" /\ Serves(g, pending[t])
      BY <1>1, <1>2, <1>6, <1>7, <2>1, AnswerFacts, Zenon
    <2>3. QED
      BY <2>2, Zenon DEF call
  <1>9. /\ pending'[t].op = call.op /\ pending'[t].addr = a /\ pending'[t].ok # "sent"
        /\ pending'[t].rkeys = mrs /\ (pending'[t].ok = "ok" => fails = 0)
    BY <1>7, <1>8 DEF Reply
  <1>10. /\ call.op \in Access => /\ a \in Addrs /\ touched[a] = call.op /\ call.len = mem[a]
                                  /\ mem[a] > 0 /\ g = WorkerOf(device[a])
         /\ call.op = "bounce" => /\ a \in Storage /\ recvs[a] = 0 /\ era[a] = 1 /\ g = Main
                                  /\ mem[a] = MaxLen /\ call.len = MaxLen
    <2>1. ASSUME call.op \in Access
          PROVE  /\ a \in Addrs /\ touched[a] = call.op /\ call.len = mem[a]
                 /\ mem[a] > 0 /\ g = WorkerOf(device[a])
      <3>1. a \in Addrs /\ touched[a] = call.op /\ call.len = mem[a]
        BY <1>1, <1>8, <2>1, Zenon DEF AccessInv, call, a
      <3>2. mem[a] > 0
        BY <1>1, <2>1, <3>1, Zenon DEF RegionInv, RegionOk, Access
      <3>3. g = WorkerOf(device[a])
        BY <1>8, <2>1, Zenon DEF Serves, a
      <3>4. QED
        BY <3>1, <3>2, <3>3, Zenon
    <2>2. ASSUME call.op = "bounce"
          PROVE  /\ a \in Storage /\ recvs[a] = 0 /\ era[a] = 1 /\ g = Main
                 /\ mem[a] = MaxLen /\ call.len = MaxLen
      <3>1. /\ a \in Storage /\ recvs[a] = 0 /\ era[a] = 1 /\ mem[a] = MaxLen
            /\ call.len = MaxLen
        BY <1>1, <1>8, <2>2, Zenon DEF BounceInv, call, a
      <3>2. QED
        BY <1>8, <2>2, <3>1, Zenon DEF Serves
    <2>3. QED
      BY <2>1, <2>2, Zenon
  <1>11. a \in Places /\ call.len \in 1..MaxLen /\ era[a] \in 0..MaxEras
    <2>1. a \in Places
      BY <1>6, <1>10, Zenon DEF Places
    <2>2. mem[a] \in 0..MaxLen /\ era[a] \in 0..MaxEras
      BY <1>1, <2>1 DEF HeapType
    <2>3. QED
      BY <1>6, <1>10, <2>1, <2>2, MemoryRegionsAssumption
  <1>12. /\ new \in Mrs /\ new # NoMr /\ new.era = era[a] /\ new.len = call.len
         /\ new.remote <=> call.op = "remote"
    <2>1. era[a] \in Nat /\ call.len \in Nat \ {0}
      BY <1>11, MemoryRegionsAssumption
    <2>2. new = [era |-> era[a], len |-> call.len, remote |-> call.op = "remote"]
      BY Zenon DEF new
    <2>3. QED
      BY <2>1, <2>2, NewMr
  <1>13. \A h \in Gpus, d \in Domains, b \in Places :
           local_mr_map'[h][d][b] = IF h = g /\ b = a THEN mrs[d] ELSE local_mr_map[h][d][b]
    BY <1>1, <1>4, Zenon DEF MrType
  <1>14. \A h \in Gpus, d \in Domains, b \in Places :
           \/ local_mr_map'[h][d][b] = local_mr_map[h][d][b]
           \/ /\ h = g /\ b = a /\ local_mr_map[h][d][b] = NoMr
              /\ local_mr_map'[h][d][b] = new
    BY <1>5, <1>13
  <1>15. fails = 0 => \A d \in Domains :
           local_mr_map'[g][d][a] # NoMr /\ mrs[d] = local_mr_map'[g][d][a]
    BY <1>5, <1>11, <1>12, <1>13
  <1>16. MrType'
    <2>1. \A d \in Domains : mrs[d] \in Mrs
      <3>1. \A d \in Domains : local_mr_map[g][d][a] \in Mrs
        BY <1>1, <1>11 DEF MrType
      <3>2. QED
        BY <1>5, <1>12, <3>1, Zenon
    <2>2. local_mr_map' \in [Gpus -> [Domains -> [Places -> Mrs]]]
      BY <1>1, <1>4, <2>1, Zenon DEF MrType
    <2>3. new.era \in 0..era[a] /\ new.len \in 0..MaxLen
      BY <1>11, <1>12, MemoryRegionsAssumption
    <2>4. \A h \in Gpus, d \in Domains, b \in Places :
            /\ local_mr_map'[h][d][b].era \in 0..era[b]
            /\ local_mr_map'[h][d][b].len \in 0..MaxLen
      <3>1. SUFFICES ASSUME NEW h \in Gpus, NEW d \in Domains, NEW b \in Places
                     PROVE  /\ local_mr_map'[h][d][b].era \in 0..era[b]
                            /\ local_mr_map'[h][d][b].len \in 0..MaxLen
        BY Zenon
      <3>2. CASE local_mr_map'[h][d][b] = local_mr_map[h][d][b]
        BY <1>1, <3>2, Zenon DEF MrType
      <3>3. CASE b = a /\ local_mr_map'[h][d][b] = new
        BY <2>3, <3>3, Zenon
      <3>4. QED
        BY <1>14, <3>2, <3>3, ZenonT(40)
    <2>5. QED
      BY <1>2, <2>2, <2>4, Zenon DEF MrType
  <1>17. CountType'
    <2>1. PICK orphan \in LeavesOrphan(fails) : orphans' = IF orphan THEN orphans + 1 ELSE orphans
      BY <1>3, Zenon
    <2>2. failures \in 0..MaxFailures /\ orphans \in 0..MaxFailures /\ orphans <= failures
      BY <1>1, Zenon DEF CountType
    <2>3. failures' \in 0..MaxFailures /\ orphans' \in 0..MaxFailures /\ orphans' <= failures'
      <3>1. CASE fails = 0
        BY <1>3, <2>1, <2>2, <3>1, Zenon DEF LeavesOrphan
      <3>2. CASE fails # 0
        BY <1>3, <2>1, <2>2, <3>2, MemoryRegionsAssumption
      <3>3. QED
        BY <3>1, <3>2
    <2>4. QED
      BY <1>1, <1>2, <2>3, Zenon DEF CountType
  <1>18. RegionInv'
    <2>1. SUFFICES ASSUME NEW b \in Addrs, NEW h \in Gpus, NEW d \in Domains,
                          local_mr_map'[h][d][b] # NoMr
                   PROVE  RegionOk(b, h, local_mr_map'[h][d][b])
      <3>1. \A b \in Addrs : touched'[b] # "no" => mem'[b] > 0
        BY <1>1, <1>2, Zenon DEF RegionInv
      <3>2. \A b \in Addrs, h \in Gpus, d \in Domains :
              RegionOk(b, h, local_mr_map'[h][d][b]) => RegionOk(b, h, local_mr_map[h][d][b])'
        BY <1>2, ZenonT(40) DEF RegionOk, WorkerOf
      <3>3. QED
        BY <3>1, <3>2, Zenon DEF RegionInv
    <2>2. CASE local_mr_map'[h][d][b] = local_mr_map[h][d][b]
      BY <1>1, <2>1, <2>2, Zenon DEF RegionInv
    <2>3. CASE h = g /\ b = a /\ local_mr_map'[h][d][b] = new
      <3>1. call.op \in Access
        BY <1>6, <1>10, <2>3, MemoryRegionsAssumption, Zenon
      <3>2. QED
        BY <1>10, <1>12, <2>3, <3>1, Zenon DEF Access, RegionOk
    <2>4. QED
      BY <1>14, <2>2, <2>3 DEF Places
  <1>19. \A b \in Places, d \in Domains :
           MrOf(b, d) # NoMr => local_mr_map'[WorkerOf(device[b])][d][b] = MrOf(b, d)
    <2>1. \A b \in Places : WorkerOf(device[b]) \in Gpus
      BY <1>1, WorkerInGpus, Zenon
    <2>2. QED
      BY <1>14, <2>1, Zenon DEF MrOf
  <1>20. HeldInv'
    BY <1>1, <1>2, <1>19, HeldInvOther, Zenon DEF MrOf, WorkerOf
  <1>21. \A u \in Threads : u # t /\ pending[u].op \in Addressed => pending[u].addr # a
    BY <1>1, <1>6, <1>8, Zenon DEF UniqueInv, Addressed, call, a
  <1>22. AccessInv'
    <2>1. SUFFICES ASSUME NEW u \in Threads, pending'[u].op \in Access
                   PROVE  /\ pending'[u].addr \in Addrs
                          /\ touched[pending'[u].addr] = pending'[u].op
                          /\ pending'[u].ok = "sent" => pending'[u].len = mem[pending'[u].addr]
      BY <1>2, Zenon DEF AccessInv
    <2>2. CASE u = t
      BY <1>9, <1>10, <2>1, <2>2, Zenon
    <2>3. CASE u # t
      BY <1>1, <1>7, <2>1, <2>3, Zenon DEF AccessInv
    <2>4. QED
      BY <2>2, <2>3, Zenon
  <1>23. BounceInv'
    <2>1. SUFFICES ASSUME NEW u \in Threads, pending'[u].op = "bounce"
                   PROVE  /\ pending'[u].addr \in Storage /\ recvs[pending'[u].addr] = 0
                          /\ era[pending'[u].addr] = 1 /\ mem[pending'[u].addr] = MaxLen
                          /\ pending'[u].ok = "sent" => pending'[u].len = MaxLen
      BY <1>2, Zenon DEF BounceInv
    <2>2. CASE u = t
      BY <1>9, <1>10, <2>1, <2>2, Zenon
    <2>3. CASE u # t
      BY <1>1, <1>7, <2>1, <2>3, ZenonT(40) DEF BounceInv
    <2>4. QED
      BY <2>2, <2>3, Zenon
  <1>24. RegisterReply'
    <2>1. SUFFICES ASSUME NEW u \in Threads, pending'[u].op \in Access, pending'[u].ok = "ok",
                          NEW d \in Domains
                   PROVE  LET mr == local_mr_map'[WorkerOf(device[pending'[u].addr])][d]
                                        [pending'[u].addr]
                          IN  mr # NoMr /\ pending'[u].rkeys[d] = mr
      BY <1>2, Zenon DEF RegisterReply, MrOf, WorkerOf
    <2>2. CASE u = t
      BY <1>9, <1>10, <1>15, <2>1, <2>2, Zenon
    <2>3. CASE u # t
      <3>1. pending'[u] = pending[u] /\ pending[u].addr \in Places
        BY <1>1, <1>7, <2>1, <2>3, Zenon DEF AccessInv, Places
      <3>2. /\ MrOf(pending[u].addr, d) # NoMr
            /\ pending[u].rkeys[d] = MrOf(pending[u].addr, d)
        BY <1>1, <2>1, <3>1, Zenon DEF RegisterReply
      <3>3. QED
        BY <1>19, <3>1, <3>2, Zenon
    <2>4. QED
      BY <2>2, <2>3, Zenon
  <1>25. UnregisterReply'
    <2>1. pending'[t].op # "unregister"
      BY <1>6, <1>9, Zenon DEF Access
    <2>2. SUFFICES ASSUME NEW u \in Threads, pending'[u].op = "unregister",
                          pending'[u].ok # "sent", NEW h \in Gpus, NEW d \in Domains
                   PROVE  local_mr_map'[h][d][pending'[u].addr] = NoMr
      BY Zenon DEF UnregisterReply
    <2>3. u # t /\ pending'[u] = pending[u]
      BY <1>7, <2>1, <2>2, Zenon
    <2>4. pending[u].addr \in Places /\ local_mr_map[h][d][pending[u].addr] = NoMr
      BY <1>1, <2>2, <2>3, Zenon DEF UnregisterReply, UnregisterInv, Places
    <2>5. pending[u].addr # a
      BY <1>21, <2>2, <2>3, Zenon DEF Addressed
    <2>6. QED
      BY <1>14, <2>3, <2>4, <2>5
  <1>26. BounceReply'
    <2>1. SUFFICES ASSUME NEW u \in Threads, pending'[u].op = "bounce", pending'[u].ok = "ok",
                          NEW d \in Domains
                   PROVE  local_mr_map'[Main][d][pending'[u].addr] # NoMr
      BY Zenon DEF BounceReply
    <2>2. CASE u = t
      BY <1>9, <1>10, <1>15, <2>1, <2>2, Zenon
    <2>3. CASE u # t
      <3>1. pending'[u] = pending[u] /\ pending[u].addr \in Places
        BY <1>1, <1>7, <2>1, <2>3, Zenon DEF BounceInv, Places
      <3>2. local_mr_map[Main][d][pending[u].addr] # NoMr
        BY <1>1, <2>1, <3>1, Zenon DEF BounceReply
      <3>3. QED
        BY <1>14, <3>1, <3>2, MainInGpus
    <2>4. QED
      BY <2>2, <2>3, Zenon
  <1>27. pending'[t].op # "group" /\ pending'[t].op # "unregister"
    BY <1>6, <1>9, Zenon DEF Access
  <1>28. UniqueInv'
    <2>1. \A u \in Threads : u # t =>
            /\ pending[u].op \in Addressed => pending[u].addr # pending'[t].addr
            /\ ~(pending'[t].op = "group" /\ pending[u].op = "group")
      BY <1>9, <1>21, <1>27, Zenon
    <2>2. QED
      BY <1>1, <1>7, <1>8, <2>1, UniqueOther, Zenon
  <1>29. StorageInv'
    <2>1. \A b \in Storage, d \in Domains :
            local_mr_map[Main][d][b] # NoMr => local_mr_map'[Main][d][b] # NoMr
      BY <1>14, MainInGpus, ZenonT(40) DEF Places
    <2>2. ASSUME NEW b \in Storage, NEW h \in Gpus, NEW d \in Domains,
                 local_mr_map'[h][d][b] # NoMr
          PROVE  /\ local_mr_map'[h][d][b].era = 1 /\ local_mr_map'[h][d][b].len = MaxLen
                 /\ era[b] = 1
      <3>1. CASE local_mr_map'[h][d][b] = local_mr_map[h][d][b]
        <4>1. local_mr_map[h][d][b] # NoMr =>
                /\ local_mr_map[h][d][b].era = 1 /\ local_mr_map[h][d][b].len = MaxLen
                /\ era[b] = 1
          BY <1>1, Zenon DEF StorageInv
        <4>2. QED
          BY <2>2, <3>1, <4>1, Zenon
      <3>2. CASE b = a /\ local_mr_map'[h][d][b] = new
        <4>1. call.op = "bounce"
          BY <1>6, <1>10, <3>2, MemoryRegionsAssumption, Zenon
        <4>2. QED
          BY <1>10, <1>12, <3>2, <4>1, Zenon
      <3>3. QED
        BY <1>14, <3>1, <3>2, Zenon DEF Places
    <2>3. \A b \in Storage : recvs[b] > 0 => \A d \in Domains : local_mr_map'[Main][d][b] # NoMr
      BY <1>1, <2>1, Zenon DEF StorageInv
    <2>4. QED
      BY <1>1, <1>2, <2>2, <2>3, ZenonT(40) DEF StorageInv
  <1>30. UnregisterInv' /\ GroupCallInv'
    BY <1>2, <1>7, <1>8, <1>27, UnregisterOther, GroupOther, Zenon DEF IInv
  <1>31. QED
    BY <1>2, <1>8, <1>16, <1>17, <1>18, <1>20, <1>22, <1>23, <1>24, <1>25, <1>26, <1>28,
       <1>29, <1>30, HeapTypeKept, GroupTypeKept, AppTypeKept, CommandTypeKept, GroupInvKept,
       CommandInvKept, Zenon DEF IInv

----------------------------------------------------------------------------
(* The invariant holds, and what follows from it.                           *)

\* At the start of the engine nothing is allocated, registered or called.
LEMMA InitInv == Init => IInv
  <1>1. SUFFICES ASSUME Init PROVE IInv
    OBVIOUS
  <1>2. HeapType /\ CountType
    BY <1>1, MemoryRegionsAssumption DEF Init, HeapType, CountType
  <1>3. MrType
    <2>1. NoMr \in Mrs /\ NoMr.era = 0 /\ NoMr.len = 0
      BY DEF NoMr, Mrs
    <2>2. local_mr_map \in [Gpus -> [Domains -> [Places -> Mrs]]]
      BY <1>1, <2>1, Zenon DEF Init
    <2>3. \A g \in Gpus, d \in Domains, a \in Places : local_mr_map[g][d][a] = NoMr
      BY <1>1, Zenon DEF Init
    <2>4. \A a \in Places : 0 \in 0..era[a] /\ 0 \in 0..MaxLen
      BY <1>1, MemoryRegionsAssumption DEF Init
    <2>5. QED
      BY <2>1, <2>2, <2>3, <2>4, Zenon DEF MrType
  <1>4. GroupType /\ AppType
    BY <1>1, Zenon DEF Init, GroupType, AppType
  <1>5. CallType /\ CommandType
    BY <1>1 DEF Init, CallType, CommandType, Idle
  <1>6. RegionInv /\ HeldInv
    BY <1>1, Zenon DEF Init, RegionInv, HeldInv, Places
  <1>7. \A t \in Threads : pending[t].op = "none" /\ "none" \notin Addressed
    BY <1>1, Zenon DEF Init, Idle, Addressed, Access
  <1>8. AccessInv /\ UnregisterInv /\ BounceInv /\ GroupCallInv
    BY <1>7, Zenon DEF AccessInv, UnregisterInv, BounceInv, GroupCallInv, Addressed
  <1>9. RegisterReply /\ UnregisterReply /\ BounceReply /\ UniqueInv
    BY <1>7, Zenon DEF RegisterReply, UnregisterReply, BounceReply, UniqueInv, Addressed
  <1>10. QueueInv /\ GroupInv /\ CommandInv
    <2>1. QueueInv
      BY <1>1 DEF Init, QueueInv
    <2>2. GroupInv
      BY <1>1 DEF Init, GroupInv
    <2>3. CommandInv
      BY <1>1 DEF Init, CommandInv
    <2>4. QED
      BY <2>1, <2>2, <2>3, Zenon
  <1>11. StorageInv
    BY <1>1 DEF Init, StorageInv, Places
  <1>12. QED
    BY <1>2, <1>3, <1>4, <1>5, <1>6, <1>8, <1>9, <1>10, <1>11 DEF IInv

\* For a tidy application, and storage of bouncing receives at fresh addresses, the
\* invariant holds in every reachable state, whatever
\* registrations fail and however calls of several threads meet in the workers.
LEMMA Invariance == ASSUME Tidy, FreshStorage PROVE Spec => []IInv
  <1>1. IInv /\ [Next]_vars => IInv'
    <2>1. SUFFICES ASSUME IInv, [Next]_vars PROVE IInv'
      OBVIOUS
    <2>2. ASSUME NEW a \in Places, NEW len \in 1..MaxLen, Malloc(a, len) PROVE IInv'
      BY <2>1, <2>2, MallocStep
    <2>3. ASSUME NEW a \in Places, Free(a) PROVE IInv'
      BY <2>1, <2>3, FreeStep
    <2>4. ASSUME NEW t \in Threads, NEW a \in Places, NEW access \in Access, Register(t, a, access)
          PROVE  IInv'
      BY <2>1, <2>4, RegisterStep
    <2>5. ASSUME NEW t \in Threads, NEW a \in Places, Unregister(t, a) PROVE IInv'
      BY <2>1, <2>5, UnregisterStep
    <2>6. ASSUME NEW t \in Threads, NEW a \in Places, BouncingRecvs(t, a) PROVE IInv'
      BY <2>1, <2>6, BouncingRecvsStep
    <2>7. ASSUME NEW t \in Threads, NEW g \in Gpus, AddPeerGroup(t, g) PROVE IInv'
      BY <2>1, <2>7, AddPeerGroupStep
    <2>8. ASSUME NEW t \in Threads, Return(t) PROVE IInv'
      BY <2>1, <2>8, ReturnStep
    <2>9. ASSUME NEW a \in Addrs, SubmitTransfer(a) PROVE IInv'
      BY <2>1, <2>9, SubmitTransferStep
    <2>10. ASSUME NEW g \in Gpus, Worker(g) PROVE IInv'
      BY <2>1, <2>10, WorkerRegisterStep, WorkerUnregisterStep, WorkerAddGroupStep,
         WorkerCommandStep, Zenon DEF Worker
    <2>11. ASSUME NEW a \in Places, RecvFails(a) PROVE IInv'
      BY <2>1, <2>11, RecvFailsStep
    <2>12. CASE UNCHANGED vars
      <3>1. UNCHANGED <<provider, device, mem, era, local_mr_map, orphans, mr_device_map,
                        peer_groups, domain_groups, group_handle, calls, pending, held,
                        descriptor, touched, cmds, answers, recvs, failures>>
        BY <2>12, Zenon DEF vars, heap, engine, groups, app
      <3>2. QED
        BY <2>1, <3>1, HeapTypeKept, MrTypeKept, CountTypeKept, GroupTypeKept, AppTypeKept,
           CallTypeKept, CommandTypeKept, RegionInvKept, HeldInvKept, AccessInvKept,
           UnregisterInvKept, BounceInvKept, GroupCallInvKept, RegisterReplyKept,
           UnregisterReplyKept, BounceReplyKept, UniqueInvKept, QueueInvKept, GroupInvKept,
           CommandInvKept, StorageInvKept, Zenon DEF IInv
    <2>13. QED
      BY <2>1, <2>2, <2>3, <2>4, <2>5, <2>6, <2>7, <2>8, <2>9,
         <2>10, <2>11, <2>12, Zenon DEF Next, App
  <1>2. QED
    BY <1>1, InitInv, PTL DEF Spec

\* What register_memory and add_peer_group handed out is good for transfers: every
\* domain that submit_transfer uses has a region of the memory as it is now, and
\* descriptors name these regions.
THEOREM HandlesUsableHolds == ASSUME Tidy, FreshStorage PROVE Spec => []HandlesUsable
  <1>1. IInv => HandlesUsable
    <2>1. SUFFICES ASSUME IInv PROVE HandlesUsable
      OBVIOUS
    <2>2. HeapType /\ MrType /\ CountType /\ GroupType /\ AppType /\ CallType /\ RegionInv
          /\ HeldInv /\ GroupInv /\ CommandInv
      BY <2>1 DEF IInv
    <2>3. TypeOK
      <3>1. answers \subseteq {"posted", "refused", "stale"}
        BY <2>2, Zenon DEF CommandInv
      <3>2. QED
        BY <2>2, <3>1, Zenon DEF HeapType, MrType, CountType, GroupType, AppType, CallType, TypeOK
    <2>4. ASSUME NEW a \in Addrs, NEW d \in Domains, held[a] # "no"
          PROVE  /\ mr_device_map[a] = device[a] /\ Covers(MrOf(a, d), a)
                 /\ held[a] = "remote" => descriptor[a][d] = MrOf(a, d) /\ MrOf(a, d).remote
      <3>1. a \in Places /\ WorkerOf(device[a]) \in Gpus
        BY <2>2, WorkerInGpus, Zenon DEF Places
      <3>2. /\ touched[a] = held[a] /\ mr_device_map[a] = device[a] /\ MrOf(a, d) # NoMr
            /\ held[a] = "remote" => descriptor[a][d] = MrOf(a, d)
        BY <2>2, <2>4, <3>1, Zenon DEF HeldInv
      <3>3. /\ MrOf(a, d).era = era[a] /\ MrOf(a, d).len = mem[a]
            /\ MrOf(a, d).remote <=> touched[a] = "remote"
        <4>1. RegionOk(a, WorkerOf(device[a]), MrOf(a, d))
          BY <2>2, <3>1, <3>2, Zenon DEF RegionInv, MrOf
        <4>2. QED
          BY <4>1, Zenon DEF RegionOk
      <3>4. mem[a] \in Nat
        BY <2>2, <3>1 DEF HeapType
      <3>5. QED
        <4>1. MrOf(a, d).len >= mem[a]
          BY <3>3, <3>4, LongEnough, Zenon
        <4>2. QED
          BY <2>4, <3>2, <3>3, <4>1, Zenon DEF Covers
    <2>5. QED
      BY <2>2, <2>3, <2>4, Zenon DEF HandlesUsable, GroupInv
  <1>2. QED
    BY <1>1, Invariance, PTL

\* No domain's local_mr_map keeps a region of memory that was freed, not even
\* after registrations that failed half way.
THEOREM NoStaleMrHolds == ASSUME Tidy, FreshStorage PROVE Spec => []NoStaleMr
  <1>1. IInv => NoStaleMr
    <2>1. SUFFICES ASSUME IInv PROVE NoStaleMr
      OBVIOUS
    <2>2. RegionInv /\ HeapType
      BY <2>1 DEF IInv
    <2>3. \A a \in Addrs : mem[a] \in Nat
      BY <2>2 DEF HeapType, Places
    <2>4. QED
      BY <2>2, <2>3 DEF RegionInv, RegionOk, NoStaleMr, Covers
  <1>2. QED
    BY <1>1, Invariance, PTL

\* Transfers are never refused or posted with a region of something else, and
\* posted bouncing receives have their storage and its region.
THEOREM BuffersInUseHolds == ASSUME Tidy, FreshStorage PROVE Spec => []BuffersInUse
  <1>1. IInv => BuffersInUse
    <2>1. SUFFICES ASSUME IInv PROVE BuffersInUse
      OBVIOUS
    <2>2. HeapType /\ CommandInv /\ StorageInv
      BY <2>1 DEF IInv
    <2>3. ASSUME NEW a \in Storage, recvs[a] > 0
          PROVE  mem[a] > 0 /\ Covers(MrOf(a, 1), a)
      <3>1. mem[a] = MaxLen /\ era[a] = 1 /\ local_mr_map[Main][1][a] # NoMr
        BY <2>2, <2>3, MemoryRegionsAssumption, Zenon DEF StorageInv
      <3>2. local_mr_map[Main][1][a].era = 1 /\ local_mr_map[Main][1][a].len = MaxLen
        <4>1. \A g \in Gpus, d \in Domains : local_mr_map[g][d][a] # NoMr =>
                local_mr_map[g][d][a].era = 1 /\ local_mr_map[g][d][a].len = MaxLen
          BY <2>2, Zenon DEF StorageInv
        <4>2. QED
          BY <3>1, <4>1, MainInGpus, MemoryRegionsAssumption, Zenon
      <3>3. MrOf(a, 1) = local_mr_map[Main][1][a]
        BY <2>2, Zenon DEF HeapType, MrOf, WorkerOf
      <3>4. MaxLen > 0 /\ MaxLen >= MaxLen
        BY MemoryRegionsAssumption
      <3>5. QED
        BY <3>1, <3>2, <3>3, <3>4, Zenon DEF Covers
    <2>4. QED
      BY <2>2, <2>3, Zenon DEF BuffersInUse, CommandInv
  <1>2. QED
    BY <1>1, Invariance, PTL
============================================================================
