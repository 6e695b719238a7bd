--------------------------- MODULE MCRoutingPlan ---------------------------
(* RoutingPlan and TokenPlacement on all small shapes: each step routes one  *)
(* more token of some group to some experts, so the states are the routing   *)
(* tables that a batch can have.  The first rank of a group gives its        *)
(* tokens their names; the others have them in any order.                   *)
EXTENDS TokenPlacement

CONSTANTS MaxWorld, MaxNets, DpSizes, MaxExperts, PerToken, Private, Padding,
          MaxTokens,    \* bound: tokens of a group
          MaxRouted     \* bound: routed tokens in all

VARIABLES shape, num_routed,
          order     \* order[r][e]: the tokens for e, by their token_offset on r

vars == <<shape, num_routed, order>>

\* Every rank's first expert exists, or is the first one too many.  The
\* kernels for fixed token sizes differ in groups of several with private parts.
Shapes == {c \in [world: 2..MaxWorld, node: 1..MaxWorld, dp: DpSizes, nets: {1},
                  experts: 2..MaxExperts, per_token: PerToken, private: Private,
                  tokens: {MaxTokens}, padding: {Padding}, fixed: BOOLEAN] :
              /\ c.world % c.node = 0 /\ c.node % c.dp = 0 /\ (c.dp = 1 \/ c.private = 0 => ~c.fixed)
              /\ c.experts >= c.world /\ FirstExpert(c, c.world - 1) <= c.experts}

NoToken(c) == [g \in Groups(c) |-> [e \in Experts(c) |-> 0]]
NoOrder(c) == [r \in Ranks(c) |-> [e \in Experts(c) |-> << >>]]

Init == shape \in Shapes /\ num_routed = NoToken(shape) /\ order = NoOrder(shape)

\* The largest worlds have the most routing tables: one token fewer for them.
RoutedBound == IF shape.world < MaxWorld THEN MaxRouted ELSE MaxRouted - 1

\* The ranks of group g other than its first.
Others(g) == {r \in Ranks(shape) : DpGroup(shape, r) = g /\ DpRank(shape, r) # 0}

\* A token of group g for the experts es: at the end on the first rank, at any
\* place on the others.
RouteToken(g, es, place) ==
    /\ Routed(num_routed, g, Experts(shape)) < MaxTokens * shape.per_token
    /\ MapThenSumSet(LAMBDA h : Routed(num_routed, h, Experts(shape)), Groups(shape)) < RoutedBound
    /\ \A x \in DOMAIN place : place[x] <= num_routed[g][x[2]]
    /\ num_routed' = [num_routed EXCEPT ![g] =
                        [e \in Experts(shape) |-> @[e] + (IF e \in es THEN 1 ELSE 0)]]
    /\ order' = [r \in Ranks(shape) |-> [e \in Experts(shape) |->
                    IF DpGroup(shape, r) # g \/ e \notin es THEN order[r][e]
                    ELSE InsertAt(order[r][e],
                                  (IF r \in Others(g) THEN place[<<r, e>>] ELSE num_routed[g][e]) + 1,
                                  num_routed[g][e])]]
    /\ UNCHANGED shape

NextRound == num_routed' = NoToken(shape) /\ order' = NoOrder(shape) /\ UNCHANGED shape

Next == \/ \E g \in Groups(shape), es \in kSubset(shape.per_token, Experts(shape)) :
               \E place \in [Others(g) \X es -> 0..(MaxTokens - 1)] : RouteToken(g, es, place)
        \/ NextRound

Spec == Init /\ [][Next]_vars

----------------------------------------------------------------------------

Send == [r \in Ranks(shape) |-> SendBuffer(shape, num_routed, order, r)]
Recv(send) == [r \in Ranks(shape) |-> RecvBuffer(shape, num_routed, order, send, r)]
AllRead == LET send == Send  recv == Recv(send) IN
           [r \in Ranks(shape) |-> Read(shape, num_routed, send, recv, r)]

WithNets == {[shape EXCEPT !.nets = k] : k \in 1..MaxNets}

RouteAndCombineAgree ==
    \A c \in WithNets, r \in Ranks(shape) :
        /\ RouteExpected(c) = RouteImms(c, r)
        /\ CombineExpected(c) = CombineImms(c, r)

DispatchAgrees ==
    LET over == Over(shape, num_routed) IN
    \A c \in WithNets, r \in Ranks(shape) : NumRecvTx(c, r, over) = DispatchImms(c, r, over)

\* Each rank waits for exactly the immediates that its peers send it, for the
\* routing, the combine and the dispatch: one more and the round hangs, one
\* fewer and an immediate is left over that releases the next round early.  For
\* the dispatch, when every rank is a data-parallel group of its own or there is
\* one node.
ImmediatesExpected ==
    /\ RouteAndCombineAgree
    /\ shape.dp = 1 \/ shape.world = shape.node => DispatchAgrees

\* "Register a callback to wait for the expected number of immediates": the
\* same for data-parallel groups of any size.
DispatchExpectedDp == DispatchAgrees

\* One rank of each group writes a given part of a buffer: the groups have one
\* rank, or no private parts, or write them only over NVLink and not with the
\* kernels for fixed token sizes.
OneWriter ==
    \/ shape.dp = 1 \/ shape.private = 0
    \/ shape.world = shape.node /\ ~shape.fixed

ReadAsSent ==
    LET read == AllRead IN
    \A r \in Ranks(shape) :
        LET slots == RecvSlots(shape, num_routed, r) IN
        \A i \in 1..Len(slots) :
            read[r][i] = {TokenAt(order, SourceRank(shape, r, slots[i]), slots[i])}

\* The dispatch kernel finds each token where the receiver's tables say, in the
\* private part, in the overflow part, in its own send buffer or in that of a
\* peer on the node, in the order of the rank it takes them from, and finds
\* nothing else there: sender and receiver compute the same layout from the
\* routing table, each on its own.  For shapes where a part has one writer.
TokensRead == OneWriter => ReadAsSent

\* "Missing {num_missing} tokens on rank {dp_rank}" (test_p2p_all_to_all.py:231):
\* the same for groups all of whose ranks write the private parts.
TokensFoundDp == ReadAsSent

ResultsAt(Here(_, _)) ==
    LET read == AllRead IN
    \A p \in Ranks(shape) :
        LET results == ResultBuffer(shape, num_routed, read, p) IN
        \A t \in {u \in Slots(num_routed, DpGroup(shape, p), Experts(shape)) : Here(p, u)} :
            At(results, Position(num_routed, t)) = {TokenAt(order, p, t)}

SameColumn(p, t) == DpRank(shape, DstRank(shape, t)) = DpRank(shape, p)

\* The combine kernel of a rank finds the result of each of its tokens, and
\* nothing else, at the position it sent the token from: dispatch, experts and
\* combine together are the identity on the slots.  For shapes where a part has
\* one writer, and for the experts on ranks at its own position in their group
\* (all of them when groups have one rank).
ResultsReturn == OneWriter => ResultsAt(SameColumn)

\* "Verify the combine output." (test_p2p_all_to_all.py:233): the same for the
\* experts of all ranks.
ResultsReturnDp == OneWriter => ResultsAt(LAMBDA p, t : TRUE)

\* The tokens of a local expert fill a run of rows of the output, one row each,
\* which starts at a multiple of the padding and does not reach the next one.
RowsByExpert ==
    \A r \in Ranks(shape) :
        LET slots == RecvSlots(shape, num_routed, r)
            Rows(e) == {PaddedIndex(shape, num_routed, r, slots, i) :
                           i \in {j \in 1..Len(slots) : slots[j][2] = e}}
        IN  \A e \in LocalExperts(shape, r) :
                LET start == PaddedOffset(shape, num_routed, r, e)
                    count == TokensPerExpert(shape, num_routed, e)
                IN  /\ Rows(e) = start..(start + count - 1)
                    /\ start % Padding = 0
                    /\ \A d \in LocalExperts(shape, r) : d # e => Rows(d) \cap Rows(e) = {}

\* Both: the tokens are where the tables of the receiver say, and end up in rows
\* by expert (process_routing_info, a2a_worker.rs:696).
TokensFound == TokensRead /\ RowsByExpert

Positions(buffer) == {x[1] : x \in buffer}

Fits ==
    LET send == Send  recv == Recv(send)  read == AllRead IN
    \A r \in Ranks(shape) :
        /\ Len(RecvSlots(shape, num_routed, r)) <= MaxRecvTokens(shape)
        /\ \A buffer \in {send[r], recv[r], CombineBuffer(shape, num_routed, read[r], r),
                          ResultBuffer(shape, num_routed, read, r)} :
               \A pos \in Positions(buffer) : pos < MaxRecvTokens(shape)

\* Buffers of max_recv_tokens rows hold whatever a batch can put there, when a
\* group has no more experts to choose for a token than there are in its column
\* of ranks: per_token <= num_dp_groups * experts per rank.
BuffersSuffice ==
    shape.per_token <= (shape.world \div shape.dp) * ExpertsPerRank(shape) => Fits

\* "Determine the size of the recv buffers": the same for any number of experts
\* per token.
BuffersAlwaysSuffice == Fits
============================================================================
