----------------------------- MODULE VerbsPeers -----------------------------
(***************************************************************************)
(* Connection set-up of the Verbs provider (verbs/verbs_domain.rs): the     *)
(* handshake over unreliable datagrams (UD) that connects the queue pairs   *)
(* of two domains, and the operations that wait for it: writes and sends    *)
(* to one peer (outbound), group writes with a peer group's handle          *)
(* (handle) and group writes that name their peers (scatter).               *)
(*                                                                         *)
(* Each domain is run by one worker thread, so its methods are atomic.     *)
(* What a queue pair does with a posted operation is not modelled here.     *)
(***************************************************************************)
EXTENDS Integers, Sequences, FiniteSets, SequencesExt

CONSTANTS
    Domains,        \* the domains, each a peer of the others
    Ops,            \* operations: [from, kind, to] or [from, kind, group]
    Groups,         \* peer groups: [from, to]
    MaxSubmits,     \* bound: operations submitted in one behaviour
    Buffers,        \* UD send buffers of a domain (MAX_UD_SENDS)
    MaxFaults       \* bound: verbs calls that fail, datagrams lost or repeated

ASSUME VerbsPeersAssumption ==
    /\ MaxSubmits \in Nat /\ Buffers \in Nat
    /\ MaxFaults \in Nat
    /\ \A o \in Ops : o.from \in Domains /\ o.kind \in {"outbound", "handle", "scatter"}

VARIABLES
    peer,       \* peers[p].state of each domain, "none" when there is no entry
    pending,    \* pending_submits of a connecting peer
    waiting,    \* its pending_group_write_ops
    left,       \* pending_peers of a PendingGroupWriteOp, Raw before it is written
    group,      \* connecting_peer_groups and peer_groups
    used,       \* UD buffers taken from ud_mempool
    sends,      \* UD sends whose completion has not been read
    net,        \* handshake datagrams under way, <<from, to>>
    submitted,  \* operations in the order of submission
    posted,     \* per domain: operations that reached their queue pairs, in order
    failed,     \* operations reported as DomainCompletionEntry::Error
    crashed,    \* domains whose worker thread has panicked
    failures, losses

conns == <<peer, pending, waiting, left, group>>
uds   == <<used, sends, net>>
vars  == <<conns, uds, submitted, posted, failed, crashed, failures, losses>>

Raw == {"raw"}

\* The peers an operation is posted to.
Targets(o) == IF o.kind = "handle" THEN ToSet(o.group.to) ELSE ToSet(o.to)

TypeOK ==
    /\ peer \in [Domains -> [Domains -> {"none", "connecting", "established"}]]
    /\ \A d, p \in Domains : /\ pending[d][p] \in Seq(Ops)
                             /\ waiting[d][p] \subseteq Ops
    /\ left \in [Ops -> (SUBSET Domains) \cup {Raw}]
    /\ \A g \in Groups : /\ group[g].state \in {"none", "connecting", "ready"}
                         /\ group[g].left \subseteq Domains /\ group[g].ops \in Seq(Ops)
    /\ used \in [Domains -> 0..Buffers] /\ sends \in [Domains -> 0..Buffers]
    /\ net \subseteq Domains \X Domains
    /\ submitted \in Seq(Ops) /\ failed \subseteq Ops /\ crashed \subseteq Domains
    /\ \A d \in Domains : \A i \in 1..Len(posted[d]) :
           posted[d][i].op \in Ops /\ posted[d][i].early \subseteq Domains
    /\ failures \in 0..MaxFaults /\ losses \in 0..MaxFaults

Init ==
    /\ peer = [d \in Domains |-> [p \in Domains |-> "none"]]
    /\ pending = [d \in Domains |-> [p \in Domains |-> <<>>]]
    /\ waiting = [d \in Domains |-> [p \in Domains |-> {}]]
    /\ left = [o \in Ops |-> Raw]
    /\ group = [g \in Groups |-> [state |-> "none", left |-> {}, ops |-> <<>>]]
    /\ used = [d \in Domains |-> 0] /\ sends = [d \in Domains |-> 0] /\ net = {}
    /\ submitted = <<>> /\ posted = [d \in Domains |-> <<>>]
    /\ failed = {} /\ crashed = {} /\ failures = 0 /\ losses = 0

----------------------------------------------------------------------------
(* create_peer, ud_mempool.alloc and connect_peer, for each of a sequence   *)
(* of new peers until one fails.                                            *)

\* n peers are connected; the next one fails in create_peer, for want of a buffer
\* or in ibv_post_send, or there is no next one.
Attempts(d, new) ==
    {a \in [n : 0..Len(new), fails : {"no", "create", "alloc", "post"}] :
        LET free == Buffers - used[d]
        IN  /\ a.n <= free
            /\ a.fails = "no" <=> a.n = Len(new)
            /\ a.fails = "alloc" => a.n = free
            /\ a.fails = "post" => a.n < free
            /\ a.fails \in {"create", "post"} => failures + losses < MaxFaults}

\* The peers that are in the map afterwards: a peer is inserted before its
\* handshake is sent.
Inserted(new, a) ==
    {new[i] : i \in 1..(a.n + (IF a.fails \in {"alloc", "post"} THEN 1 ELSE 0))}

\* A buffer whose send failed is not given back.
SendHandshakes(d, new, a) ==
    /\ used' = [used EXCEPT ![d] = @ + a.n + (IF a.fails = "post" THEN 1 ELSE 0)]
    /\ sends' = [sends EXCEPT ![d] = @ + a.n]
    /\ net' = net \cup {<<d, new[i]>> : i \in 1..a.n}
    /\ failures' = failures + (IF a.fails \in {"create", "post"} THEN 1 ELSE 0)

Connecting(d, ps) == [peer EXCEPT ![d] = [p \in Domains |->
                                          IF p \in ps THEN "connecting" ELSE @[p]]]

\* The members of a sequence of addresses that are no peers yet.
Unknown(d, addrs) == SelectSeq(addrs, LAMBDA p : peer[d][p] = "none")

\* do_submit_outbound_op and do_submit_group_write, with the peers whose queue
\* pairs are not ready.
Posted(o, peers) ==
    [op |-> o, early |-> {p \in Targets(o) : peers[o.from][p] # "established"}]

----------------------------------------------------------------------------
(* The worker thread calls the domain.                                      *)

Submits(o, kind) ==
    /\ o.kind = kind /\ o.from \notin crashed
    /\ o \notin ToSet(submitted) /\ Len(submitted) < MaxSubmits
    /\ submitted' = Append(submitted, o)

Post(o) == posted' = [posted EXCEPT ![o.from] = Append(@, Posted(o, peer))]

\* Mutant: the operation goes to the front.
SubmitOutboundFront(o) ==
    /\ Submits(o, "outbound")
    /\ LET d == o.from  p == o.to[1]
       IN  \/ peer[d][p] = "established" /\ Post(o) /\ UNCHANGED pending
           \/ /\ peer[d][p] = "connecting"
              /\ pending' = [pending EXCEPT ![d][p] = <<o>> \o @]
              /\ UNCHANGED posted
    /\ UNCHANGED <<peer, waiting, left, group, uds, failed, crashed, failures, losses>>

\* submit_outbound_op to a peer that is known.
SubmitOutbound(o) ==
    /\ Submits(o, "outbound")
    /\ LET d == o.from  p == o.to[1]
       IN  \/ peer[d][p] = "established" /\ Post(o) /\ UNCHANGED pending
           \/ /\ peer[d][p] = "connecting"
              /\ pending' = [pending EXCEPT ![d][p] = Append(@, o)]
              /\ UNCHANGED posted
    /\ UNCHANGED <<peer, waiting, left, group, uds, failed, crashed, failures, losses>>

\* submit_outbound_op to a new peer.
SubmitConnect(o) ==
    /\ Submits(o, "outbound")
    /\ peer[o.from][o.to[1]] = "none"
    /\ \E a \in Attempts(o.from, o.to) :
          /\ peer' = Connecting(o.from, Inserted(o.to, a))
          /\ pending' = [pending EXCEPT ![o.from] = [p \in Domains |->
                           IF p \in Inserted(o.to, a) THEN <<o>> ELSE @[p]]]
          /\ SendHandshakes(o.from, o.to, a)
          /\ failed' = IF a.fails = "no" THEN failed ELSE failed \cup {o}
    /\ UNCHANGED <<waiting, left, group, posted, crashed, losses>>

\* Mutant: connected peers are waited for too.
AddPeerGroupAll(g) ==
    /\ g.from \notin crashed
    /\ group[g].state = "none"
    /\ LET new == Unknown(g.from, g.to)
       IN  \E a \in Attempts(g.from, new) :
             /\ peer' = Connecting(g.from, Inserted(new, a))
             /\ SendHandshakes(g.from, new, a)
             /\ group' = IF a.fails # "no" THEN group
                         ELSE [group EXCEPT ![g].left = ToSet(g.to),
                                            ![g].state = IF new = <<>> THEN "ready"
                                                         ELSE "connecting"]
    /\ UNCHANGED <<pending, waiting, left, submitted, posted, failed, crashed, losses>>

\* add_peer_group: only the peers it creates are waited for.
AddPeerGroup(g) ==
    /\ g.from \notin crashed
    /\ group[g].state = "none"
    /\ LET new == Unknown(g.from, g.to)
       IN  \E a \in Attempts(g.from, new) :
             /\ peer' = Connecting(g.from, Inserted(new, a))
             /\ SendHandshakes(g.from, new, a)
             /\ group' = IF a.fails # "no" THEN group
                         ELSE [group EXCEPT ![g].left = ToSet(new),
                                            ![g].state = IF new = <<>> THEN "ready"
                                                         ELSE "connecting"]
    /\ UNCHANGED <<pending, waiting, left, submitted, posted, failed, crashed, losses>>

\* submit_group_write with a handle.
SubmitHandle(o) ==
    /\ Submits(o, "handle")
    /\ \/ /\ group[o.group].state = "connecting"
          /\ group' = [group EXCEPT ![o.group].ops = Append(@, o)]
          /\ UNCHANGED <<posted, failed>>
       \/ /\ group[o.group].state = "ready"
          /\ Post(o)
          /\ UNCHANGED <<group, failed>>
       \/ /\ group[o.group].state = "none"
          /\ failed' = failed \cup {o}
          /\ UNCHANGED <<group, posted>>
    /\ UNCHANGED <<peer, pending, waiting, left, uds, crashed, failures, losses>>

\* submit_group_write without a handle: again only the peers it creates are waited
\* for.  Each of them keeps a pointer to the PendingGroupWriteOp, which is written
\* once all of them were created.
SubmitScatter(o) ==
    /\ Submits(o, "scatter")
    /\ LET d == o.from  new == Unknown(d, o.to)
       IN  \E a \in Attempts(d, new) :
             /\ peer' = Connecting(d, Inserted(new, a))
             /\ waiting' = [waiting EXCEPT ![d] = [p \in Domains |->
                              IF p \in Inserted(new, a) THEN {o} ELSE @[p]]]
             /\ SendHandshakes(d, new, a)
             /\ \/ /\ a.fails # "no"
                   /\ failed' = failed \cup {o}
                   /\ UNCHANGED <<left, posted>>
                \/ /\ a.fails = "no" /\ new # <<>>
                   /\ left' = [left EXCEPT ![o] = ToSet(new)]
                   /\ UNCHANGED <<failed, posted>>
                \/ /\ new = <<>>
                   /\ Post(o)
                   /\ UNCHANGED <<failed, left>>
    /\ UNCHANGED <<pending, group, crashed, losses>>

----------------------------------------------------------------------------
(* poll_cq: completions of the UD queue pair.                               *)

\* IBV_WC_SEND: the buffer goes back to the pool.
UdSendDone(d) ==
    /\ d \notin crashed /\ sends[d] > 0
    /\ sends' = [sends EXCEPT ![d] = @ - 1]
    /\ used' = [used EXCEPT ![d] = @ - 1]
    /\ UNCHANGED <<conns, net, submitted, posted, failed, crashed, failures, losses>>

Received(d, p) == d \notin crashed /\ <<p, d>> \in net

\* handle_peer_handshake for an established peer: nothing to do.
HandshakeAgain(d, p) ==
    /\ Received(d, p) /\ peer[d][p] = "established"
    /\ net' = net \ {<<p, d>>}
    /\ UNCHANGED <<conns, used, sends, submitted, posted, failed, crashed, failures, losses>>

\* The groups, and the group writes without a handle, that have waited for p only.
GroupsDone(d, p) == {g \in Groups : /\ g.from = d /\ group[g].state = "connecting"
                                    /\ group[g].left = {p}}
WaitersDone(d, p) == {o \in waiting[d][p] : left[o] = {p}}

\* The rest of handle_peer_handshake: the queue pairs are activated and whatever
\* waited for them is posted.
Establish(d, p) ==
    LET peers == [peer EXCEPT ![d][p] = "established"]
        ready == pending[d][p]
                 \o FlattenSeq(SetToSeq({group[g].ops : g \in GroupsDone(d, p)}))
                 \o SetToSeq(WaitersDone(d, p))
    IN  /\ peer' = peers
        /\ posted' = [posted EXCEPT ![d] = @ \o
                        [i \in 1..Len(ready) |-> Posted(ready[i], peers)]]
        /\ pending' = [pending EXCEPT ![d][p] = <<>>]
        /\ waiting' = [waiting EXCEPT ![d][p] = {}]
        /\ left' = [o \in Ops |-> IF o \in waiting[d][p] /\ left[o] # Raw
                                  THEN left[o] \ {p} ELSE left[o]]
        /\ group' = [g \in Groups |->
              IF g \in GroupsDone(d, p) THEN [state |-> "ready", left |-> {}, ops |-> <<>>]
              ELSE IF g.from = d THEN [group[g] EXCEPT !.left = @ \ {p}]
              ELSE group[g]]

\* A handshake from a peer this domain is connecting to: its own is under way.
HandshakeConnecting(d, p) ==
    /\ Received(d, p) /\ peer[d][p] = "connecting"
    /\ Establish(d, p)
    /\ net' = net \ {<<p, d>>}
    /\ UNCHANGED <<used, sends, submitted, failed, crashed, failures, losses>>

\* Mutant: a new peer is not answered.
HandshakeNewSilent(d, p) ==
    /\ Received(d, p) /\ peer[d][p] = "none" /\ used[d] < Buffers
    /\ Establish(d, p)
    /\ net' = net \ {<<p, d>>}
    /\ UNCHANGED <<used, sends, submitted, failed, crashed, failures, losses>>

\* A handshake from a new peer is answered first.
HandshakeNew(d, p) ==
    /\ Received(d, p) /\ peer[d][p] = "none" /\ used[d] < Buffers
    /\ Establish(d, p)
    /\ used' = [used EXCEPT ![d] = @ + 1] /\ sends' = [sends EXCEPT ![d] = @ + 1]
    /\ net' = (net \ {<<p, d>>}) \cup {<<d, p>>}
    /\ UNCHANGED <<submitted, failed, crashed, failures, losses>>

\* expect("TODO: handle UD error"): an error in handle_peer_handshake ends the
\* thread.  So may the use of a PendingGroupWriteOp that was never written.
HandshakePanics(d, p) ==
    /\ Received(d, p) /\ peer[d][p] # "established"
    /\ \/ failures + losses < MaxFaults /\ failures' = failures + 1
       \/ peer[d][p] = "none" /\ used[d] = Buffers /\ UNCHANGED failures
       \/ (\E o \in waiting[d][p] : left[o] = Raw) /\ UNCHANGED failures
    /\ crashed' = crashed \cup {d}
    /\ net' = net \ {<<p, d>>}
    /\ UNCHANGED <<conns, used, sends, submitted, posted, failed, losses>>

\* UD is unreliable.
Lose(m) ==
    /\ m \in net /\ failures + losses < MaxFaults
    /\ net' = net \ {m}
    /\ losses' = losses + 1
    /\ UNCHANGED <<conns, used, sends, submitted, posted, failed, crashed, failures>>

\* The network may deliver a handshake again that d has already acted on.
Duplicate(d, p) ==
    /\ peer[d][p] = "established" /\ failures + losses < MaxFaults
    /\ net' = net \cup {<<p, d>>}
    /\ losses' = losses + 1
    /\ UNCHANGED <<conns, used, sends, submitted, posted, failed, crashed, failures>>

----------------------------------------------------------------------------
Submit(o) == SubmitOutbound(o) \/ SubmitConnect(o) \/ SubmitHandle(o) \/ SubmitScatter(o)

Handshake(d, p) == HandshakeAgain(d, p) \/ HandshakeConnecting(d, p)
                   \/ HandshakeNew(d, p) \/ HandshakePanics(d, p)

\* Nothing is left to do.
Idle ==
    /\ \/ Len(submitted) = MaxSubmits
       \/ \A o \in Ops : o \in ToSet(submitted) \/ o.from \in crashed
    /\ \A m \in net : m[2] \in crashed
    /\ \A d \in Domains \ crashed : sends[d] = 0
    /\ UNCHANGED vars

Next ==
    \/ \E o \in Ops : Submit(o)
    \/ \E g \in Groups : AddPeerGroup(g)
    \/ \E d \in Domains : UdSendDone(d) \/ \E p \in Domains : Handshake(d, p) \/ Duplicate(d, p)
    \/ \E m \in net : Lose(m)
    \/ Idle

Spec == Init /\ [][Next]_vars

----------------------------------------------------------------------------
(* Properties.                                                              *)

PostedOps(d) == [i \in 1..Len(posted[d]) |-> posted[d][i].op]

\* No operation is posted twice, though a group write is remembered by every peer
\* it waits for.
PostedOnce == \A d \in Domains : IsInjective(PostedOps(d))

\* ... and writes and sends to one peer reach its queue pairs in the order of their
\* submission, whether they were queued for the connection or not.
PostedInOrder ==
    /\ PostedOnce
    /\ \A i, j \in 1..Len(submitted) :
        LET x == submitted[i]  y == submitted[j]  q == PostedOps(x.from)
        IN  /\ i < j /\ x.kind = "outbound" /\ y.kind = "outbound"
            /\ x.from = y.from /\ x.to = y.to /\ y \in ToSet(q)
            => \/ x \in failed
               \/ \E k, l \in 1..Len(q) : k < l /\ q[k] = x /\ q[l] = y

\* An operation that was neither posted nor failed is known to a connection that
\* is still being set up: its handshake will post it.
WaitsForHandshake ==
    \A o \in ToSet(submitted) \ failed :
        LET d == o.from
            Open(ps) == ps # {} /\ \A p \in ps : peer[d][p] = "connecting"
        IN  d \in crashed \/ o \in ToSet(PostedOps(d))
            \/ CASE o.kind = "outbound" -> /\ Open({o.to[1]})
                                           /\ o \in ToSet(pending[d][o.to[1]])
                 [] o.kind = "handle"   -> /\ Open(group[o.group].left)
                                           /\ o \in ToSet(group[o.group].ops)
                 [] o.kind = "scatter"  -> /\ Open(left[o])
                                           /\ \A p \in left[o] : o \in waiting[d][p]

\* A write or send is only posted on a connected queue pair; a group write misses
\* that only for a peer that was already connecting when the group was made.
OutboundOnConnected ==
    \A d \in Domains : \A i \in 1..Len(posted[d]) :
        posted[d][i].op.kind = "outbound" => posted[d][i].early = {}

\* Both: what is posted is posted once, in order, on a connected queue pair
\* (do_submit_outbound_op and handle_peer_handshake).
PostedProperly == PostedInOrder /\ OutboundOnConnected

\* "waiting for all peers to connect": so is every group write.
GroupOnConnected ==
    \A d \in Domains : \A i \in 1..Len(posted[d]) : posted[d][i].early = {}

\* "It's always Some": a PendingGroupWriteOp a connecting peer points to has
\* been written.
PendingWritten ==
    \A d, p \in Domains : \A o \in waiting[d][p] : left[o] # Raw

\* Every buffer that is out of the pool belongs to a send under way, but for those
\* of sends that failed.
BuffersReturn ==
    /\ TypeOK
    /\ \A d \in Domains : used[d] - sends[d] \in 0..failures

\* When no datagram is lost and no call fails, then once the handshakes have been
\* dealt with every connection is set up at both ends, whichever of them began, or
\* both, and every submitted operation is posted.
Untroubled == failures = 0 /\ losses = 0 /\ failed = {} /\ crashed = {}
ConnectedAtRest ==
    Untroubled /\ net = {} =>
        /\ \A d, p \in Domains : peer[d][p] # "none" =>
               peer[d][p] = "established" /\ peer[p][d] = "established"
        /\ \A o \in ToSet(submitted) : o \in ToSet(PostedOps(o.from))

\* Both: a domain at rest is connected, and owes its pool no buffer.
CleanAtRest == BuffersReturn /\ ConnectedAtRest
============================================================================
