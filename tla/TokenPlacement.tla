--------------------------- MODULE TokenPlacement ---------------------------
(***************************************************************************)
(* Where the tokens of one round lie: the positions the dispatch and        *)
(* combine kernels of the senders write, the ranges the host worker ships,  *)
(* and the positions process_routing_info hands to the kernels of the       *)
(* receivers (p2p-all-to-all/src/a2a_worker.rs and a2a-kernels/src/a2a).    *)
(*                                                                         *)
(* A shape c has, besides the fields of RoutingPlan: experts, per_token     *)
(* (experts per token), private (max_private_tokens), tokens                *)
(* (max_num_tokens), padding (expert_padding) and fixed (the kernels are the *)
(* QUICK ones for a Fixed token size).  n[g][e] is num_routed.              *)
(*                                                                         *)
(* Slot <<g, e, k>> is the k-th place among those of group g for expert e.  *)
(* All ranks of a group have the same tokens, but each gives them their     *)
(* offsets by atomicAdd, in an order of its own: o[r][e] is the sequence of  *)
(* the tokens for expert e in the order of rank r.  A buffer is a set of    *)
(* pairs <<position, token>>; a position with two tokens holds either one,  *)
(* or a mixture.                                                           *)
(***************************************************************************)
EXTENDS RoutingPlan, SequencesExt

DivCeil(a, b) == (a + b - 1) \div b
Smaller(a, b) == IF a < b THEN a ELSE b
Larger(a, b)  == IF a < b THEN b ELSE a

Experts(c)        == 0..(c.experts - 1)
ExpertsPerRank(c) == DivCeil(c.experts, c.world)
FirstExpert(c, r) == r * ExpertsPerRank(c)
LocalExperts(c, r) ==
    FirstExpert(c, r)..(Smaller(FirstExpert(c, r) + ExpertsPerRank(c), c.experts) - 1)

\* Tokens a group routes to a set of experts.
Routed(n, g, es) == MapThenSumSet(LAMBDA e : n[g][e], es)

\* tokens_to_rank and tokens_from_group.
TokensTo(c, n, g, r) == Routed(n, g, LocalExperts(c, r))

\* rank_offset, dispatch_src_offset and dst_group_offset: where the tokens for
\* rank r begin among those of group g.
RankOffset(c, n, g, r) == Routed(n, g, 0..(FirstExpert(c, r) - 1))

\* src_group_offset: where the tokens of group g begin among those for rank r.
GroupOffset(c, n, g, r) == MapThenSumSet(LAMBDA h : TokensTo(c, n, h, r), 0..(g - 1))

Slots(n, g, es) == UNION {{<<g, e, k>> : k \in 0..(n[g][e] - 1)} : e \in es}

\* The token that rank r has in slot t.
TokenAt(o, r, t) == <<t[1], t[2], o[r][t[2]][t[3] + 1]>>

\* The part of a buffer that a scatter target moves.
Moved(buffer, range) ==
    {<<x[1] - range.src + range.dst, x[2]>> :
        x \in {y \in buffer : y[1] \in range.src..(range.src + range.len - 1)}}

----------------------------------------------------------------------------
(* Dispatch, the sending side.                                              *)

\* ExpertIterator: position and offset of a slot.
DstRank(c, t)       == t[2] \div ExpertsPerRank(c)
Position(n, t)      == Routed(n, t[1], 0..(t[2] - 1)) + t[3]
Offset(c, n, t)     == Position(n, t) - RankOffset(c, n, t[1], DstRank(c, t))

\* The dispatch_send kernel writes this slot straight to a peer on its node ...
OverNvlink(c, n, r, t) ==
    /\ NodeOf(c, DstRank(c, t)) = NodeOf(c, r) /\ DstRank(c, t) # r
    /\ Offset(c, n, t) < c.private

\* ... and all others into its send buffer.
SendBuffer(c, n, o, r) ==
    {<<Position(n, t), TokenAt(o, r, t)>> :
        t \in {u \in Slots(n, DpGroup(c, r), Experts(c)) : ~OverNvlink(c, n, r, u)}}

\* What the kernel of rank p writes into the private buffer on rank r.  The QUICK
\* one for fixed sizes does so on every rank of p's group, each in its own order;
\* the others only on the one at r's position in the group.
NvlinkWrites(c, n, o, p, r) ==
    {<<DpGroup(c, p) * c.private + Offset(c, n, t), TokenAt(o, p, t)>> :
        t \in {u \in Slots(n, DpGroup(c, p), LocalExperts(c, r)) :
                  OverNvlink(c, n, p, u) /\ (c.fixed \/ DpRank(c, r) = DpRank(c, p))}}

\* dispatch_initial_routes.
PrivateRange(c, n, p, r) ==
    LET g == DpGroup(c, p) IN
    [src |-> RankOffset(c, n, g, r), dst |-> g * c.private,
     len |-> Smaller(TokensTo(c, n, g, r), c.private)]

BaseOffset(c) == c.private * (c.world \div c.dp)

\* Mutant: the offset in the send buffer is that of the private part.
OverflowRangeAtStart(c, n, p, r) ==
    LET g == DpGroup(c, p) IN
    [src |-> RankOffset(c, n, g, r), dst |-> BaseOffset(c) + GroupOffset(c, n, g, r),
     len |-> TokensTo(c, n, g, r) - c.private]

\* dispatch_ranges.
OverflowRange(c, n, p, r) ==
    LET g == DpGroup(c, p) IN
    [src |-> c.private + RankOffset(c, n, g, r),
     dst |-> BaseOffset(c) + GroupOffset(c, n, g, r),
     len |-> TokensTo(c, n, g, r) - c.private]

\* The groups' overflows, as RoutingPlan has them.
Over(c, n) == [g \in Groups(c) |-> {r \in Ranks(c) : TokensTo(c, n, g, r) > c.private}]

\* The receive buffer when the dispatch kernel reads it, from the send buffers.
RecvBuffer(c, n, o, send, r) ==
    UNION ({NvlinkWrites(c, n, o, p, r) : p \in Ranks(c) \ RemoteRanks(c, r)}
      \cup {Moved(send[p], PrivateRange(c, n, p, r)) :
               p \in {q \in Ranks(c) : r \in PrivateTargets(c, q)}}
      \cup {Moved(send[p], OverflowRange(c, n, p, r)) :
               p \in {q \in Ranks(c) : r \in OverflowTargets(c, q, Over(c, n))}})

----------------------------------------------------------------------------
(* Dispatch, the receiving side: process_routing_info.                      *)

NumNodes(c)      == c.world \div c.node
GroupsPerNode(c) == c.node \div c.dp

\* The groups of the other nodes, in the order of the first loop.
RemoteOrder(c, r) ==
    [i \in 1..((NumNodes(c) - 1) * GroupsPerNode(c)) |->
        ((NodeOf(c, r) + 1 + (i - 1) \div GroupsPerNode(c)) % NumNodes(c)) * GroupsPerNode(c)
            + ((i - 1) % GroupsPerNode(c))]

\* Those of the same node, the rank's own group last.
LocalOrder(c, r) ==
    [i \in 1..GroupsPerNode(c) |->
        NodeOf(c, r) * GroupsPerNode(c) + ((DpGroup(c, r) + i) % GroupsPerNode(c))]

\* The slots of a list of groups, in the order route_group visits them.
RouteGroups(c, n, r, groups) ==
    FlattenSeq([i \in 1..Len(groups) |->
        FlattenSeq([j \in 1..Cardinality(LocalExperts(c, r)) |->
            LET e == FirstExpert(c, r) + j - 1 IN
            [k \in 1..n[groups[i]][e] |-> <<groups[i], e, k - 1>>]])])

EfaSlots(c, n, r)  == RouteGroups(c, n, r, RemoteOrder(c, r))
RecvSlots(c, n, r) == EfaSlots(c, n, r) \o RouteGroups(c, n, r, LocalOrder(c, r))

\* source_rank.
SourceRank(c, r, t) == t[1] * c.dp + DpRank(c, r)

\* src_dispatch_count and src_combine_count when the slot is visited.
IndexOnRank(c, n, r, t) == Routed(n, t[1], FirstExpert(c, r)..(t[2] - 1)) + t[3]

\* source_expert_offset, of the rank's own slots.
LocalOffset(c, n, r, t) == Routed(n, DpGroup(c, r), 0..(t[2] - 1)) + t[3]

OnNode(c, r, t) == NodeOf(c, SourceRank(c, r, t)) = NodeOf(c, r)

\* source_dispatch_offset; nvlink is its bit 31.
SourceOffset(c, n, r, t) ==
    LET index == IndexOnRank(c, n, r, t)  g == t[1]
        At(nvlink, pos) == [nvlink |-> nvlink, pos |-> pos]
    IN  CASE SourceRank(c, r, t) = r -> At(FALSE, LocalOffset(c, n, r, t))
          [] SourceRank(c, r, t) # r /\ index < c.private -> At(FALSE, c.private * g + index)
          [] SourceRank(c, r, t) # r /\ index >= c.private /\ OnNode(c, r, t) ->
                At(TRUE, RankOffset(c, n, g, r) + index)
          [] OTHER -> At(FALSE, GroupOffset(c, n, g, r) + index + BaseOffset(c) - c.private)

\* The buffer that the dispatch_recv kernel reads the i-th slot from.
SourceBuffer(c, n, send, recv, r, i, t) ==
    IF i <= Len(EfaSlots(c, n, r)) THEN recv[r]
    ELSE IF SourceRank(c, r, t) = r THEN send[r]
    ELSE IF SourceOffset(c, n, r, t).nvlink THEN send[SourceRank(c, r, t)] ELSE recv[r]

\* What the buffer has at a position.
At(buffer, pos) == {x[2] : x \in {y \in buffer : y[1] = pos}}

\* What the kernel of rank r reads, slot by slot.
Read(c, n, send, recv, r) ==
    LET slots == RecvSlots(c, n, r) IN
    [i \in 1..Len(slots) |-> At(SourceBuffer(c, n, send, recv, r, i, slots[i]),
                                SourceOffset(c, n, r, slots[i]).pos)]

\* tokens_per_expert, and the padded_offset of an expert.
TokensPerExpert(c, n, e) == MapThenSumSet(LAMBDA g : n[g][e], Groups(c))

PaddedOffset(c, n, r, e) ==
    MapThenSumSet(LAMBDA d : DivCeil(TokensPerExpert(c, n, d), c.padding) * c.padding,
                  FirstExpert(c, r)..(e - 1))

\* padded_index of the i-th slot: after those of its expert visited before.
PaddedIndex(c, n, r, slots, i) ==
    PaddedOffset(c, n, r, slots[i][2])
      + Cardinality({j \in 1..(i - 1) : slots[j][2] = slots[i][2]})

----------------------------------------------------------------------------
(* Combine: the results go back the way the tokens came.                    *)

\* Mutant: results for the same node are placed as those for other nodes.
CombineOffsetRemote(c, n, r, t) ==
    IF SourceRank(c, r, t) = r /\ c.dp = 1
    THEN LocalOffset(c, n, r, t)
    ELSE GroupOffset(c, n, t[1], r) + IndexOnRank(c, n, r, t)

\* combine_send_offset.
CombineOffset(c, n, r, t) ==
    IF SourceRank(c, r, t) = r /\ c.dp = 1
    THEN LocalOffset(c, n, r, t)
    ELSE IndexOnRank(c, n, r, t) + (IF OnNode(c, r, t) THEN RankOffset(c, n, t[1], r)
                                                       ELSE GroupOffset(c, n, t[1], r))

\* The results of the slots I: read has the tokens that were in them.
Results(c, n, read, r, I) ==
    LET slots == RecvSlots(c, n, r) IN
    UNION {{CombineOffset(c, n, r, slots[i])} \X read[i] : i \in I}

\* What the combine_send kernel of rank r leaves in its send buffer ...
CombineBuffer(c, n, read, r) == Results(c, n, read, r, 1..Len(EfaSlots(c, n, r)))

\* ... and writes to rank p of its node: the slots of p's group.
CombineWrites(c, n, read, r, p) ==
    LET slots == RecvSlots(c, n, r) IN
    Results(c, n, read, r, {i \in 1..Len(slots) :
        OnNode(c, r, slots[i]) /\ DpGroup(c, SourceRank(c, r, slots[i])) = DpGroup(c, p)})

\* combine_ranges, of rank r to rank p.
CombineRange(c, n, r, p) ==
    LET g == DpGroup(c, p) IN
    [src |-> GroupOffset(c, n, g, r), dst |-> RankOffset(c, n, g, r),
     len |-> TokensTo(c, n, g, r)]

\* The receive buffer of rank p when the combine kernel reads it; read is what
\* each rank read.
ResultBuffer(c, n, read, p) ==
    UNION ({CombineWrites(c, n, read[r], r, p) : r \in Ranks(c) \ RemoteRanks(c, p)}
      \cup {Moved(CombineBuffer(c, n, read[r], r), CombineRange(c, n, r, p)) :
               r \in {q \in Ranks(c) : p \in CombineTargets(c, q)}})

----------------------------------------------------------------------------

\* Mutant: no room for the private parts.
MaxRecvTokensShared(c) ==
    LET groups == c.world \div c.dp
        all    == c.tokens * groups
        local  == ExpertsPerRank(c)
    IN  DivCeil(Smaller(all * c.per_token, all * local), c.padding) * c.padding

\* max_recv_tokens of P2PAllToAll (python/pplx_garden/kernels/p2p_all_to_all.py):
\* the size of both buffers and of the tables of received tokens.
MaxRecvTokens(c) ==
    LET groups == c.world \div c.dp
        all    == c.tokens * groups
        local  == ExpertsPerRank(c)
        most   == Larger(Smaller(all * c.per_token + local * (c.padding - 1), all * local),
                         local * c.padding)
    IN  c.private * groups + DivCeil(most, c.padding) * c.padding
============================================================================
