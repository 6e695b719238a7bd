---------------------------- MODULE MCVerbsPeers ----------------------------
(* VerbsPeers with three domains: a writes to b twice, to b and c as a group   *)
(* with and without a handle, while b writes to a.                             *)
EXTENDS VerbsPeers

CONSTANTS a, b, c

AllThree == {a, b, c}
Both == [from |-> a, to |-> <<b, c>>]
OneGroup == {Both}
Outbound(from, to, n) == [from |-> from, kind |-> "outbound", to |-> <<to>>, n |-> n]
FiveOps ==
    {Outbound(a, b, 1), Outbound(a, b, 2), Outbound(b, a, 1),
     [from |-> a, kind |-> "scatter", to |-> <<b, c>>],
     [from |-> a, kind |-> "handle", group |-> Both]}
=============================================================================
