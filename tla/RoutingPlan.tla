---------------------------- MODULE RoutingPlan ----------------------------
(***************************************************************************)
(* Who writes to whom in one round of the all-to-all, and how many         *)
(* immediates each rank waits for (p2p-all-to-all/src/a2a_worker.rs).       *)
(*                                                                         *)
(* A shape c is [world, node, dp, nets]: world_size, node_size, dp_size     *)
(* and the NICs per GPU; world is a multiple of node, node of dp.  Routing  *)
(* is known by data-parallel group: over[g] is the set of ranks to which    *)
(* group g routes more tokens than fit in a private buffer.                 *)
(***************************************************************************)
EXTENDS Integers, FiniteSets

Ranks(c)      == 0..(c.world - 1)
Groups(c)     == 0..(c.world \div c.dp - 1)
DpRank(c, r)  == r % c.dp
DpGroup(c, r) == r \div c.dp
NodeOf(c, r)  == r \div c.node

\* group_node of process_routing_info.
NodeOfGroup(c, g) == g \div (c.node \div c.dp)

\* Targets of route_write_op: the other groups, same position in the group.
RouteTargets(c, r) ==
    {p \in Ranks(c) : DpGroup(c, p) # DpGroup(c, r) /\ DpRank(c, p) = DpRank(c, r)}

\* Ranks on other nodes: targets of the private scatter and of the combine.
RemoteRanks(c, r) == {p \in Ranks(c) : NodeOf(c, p) # NodeOf(c, r)}

\* Targets of dispatch_initial_routes.
PrivateTargets(c, r) == RemoteRanks(c, r)

\* dispatch_ranges: the remote ranks at the same position in their group that
\* get more tokens than their private buffer holds.
OverflowTargets(c, r, over) ==
    {p \in RemoteRanks(c, r) : DpRank(c, p) = DpRank(c, r) /\ p \in over[DpGroup(c, r)]}

\* combine_ranges.
CombineTargets(c, r) == RemoteRanks(c, r)

\* num_dp_groups - 1
RouteExpected(c) == c.world \div c.dp - 1

RemoteGroups(c, r) ==
    {g \in Groups(c) : g # DpGroup(c, r) /\ NodeOfGroup(c, g) # NodeOf(c, r)}

\* Mutant: the overflow is counted once, not once per NIC.
NumRecvTxOneNic(c, r, over) ==
    Cardinality(RemoteGroups(c, r)) + Cardinality({g \in RemoteGroups(c, r) : r \in over[g]})

\* num_recv_tx: one immediate per remote group for the private buffer, and one
\* per NIC for each remote group that overflows it.
NumRecvTx(c, r, over) ==
    Cardinality(RemoteGroups(c, r))
      + c.nets * Cardinality({g \in RemoteGroups(c, r) : r \in over[g]})

\* num_combine_imm
CombineExpected(c) == (c.world - c.node) * c.nets

----------------------------------------------------------------------------

\* Immediates that reach r in a round: a scatter sharded by peers sends one per
\* target, one sharded by bytes one per target and NIC.
RouteImms(c, r) == Cardinality({p \in Ranks(c) : r \in RouteTargets(c, p)})

DispatchImms(c, r, over) ==
    Cardinality({p \in Ranks(c) : r \in PrivateTargets(c, p)})
      + c.nets * Cardinality({p \in Ranks(c) : r \in OverflowTargets(c, p, over)})

CombineImms(c, r) == c.nets * Cardinality({p \in Ranks(c) : r \in CombineTargets(c, p)})
============================================================================
