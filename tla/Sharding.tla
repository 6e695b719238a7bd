------------------------------ MODULE Sharding ------------------------------
(***************************************************************************)
(* How a transfer is split over the domains of a group.  Three loops do it: *)
(*   "evenly"  - divide_evenly, for the pages or the peers of a request;   *)
(*   "single"  - shard_single_transfer, for the bytes of a single write;   *)
(*   "scatter" - the iterators of ScatterWriteOpIter on each domain, for a *)
(*               target sharded by bytes.                                  *)
(* (fabric-lib/src/domain_group.rs and efa/efa_rdma_op.rs.)  The state     *)
(* machine is the loop; ranges holds <<offset, length>> of each shard.     *)
(***************************************************************************)
EXTENDS Integers, Sequences

CONSTANTS
    MaxSize,    \* bound on the size that is split
    MaxShards,  \* bound on the number of shards
    MinSize     \* MIN_SIZE (8192 in the code)

ASSUME ShardingAssumption ==
    MaxSize \in Nat /\ MaxShards \in Nat \ {0} /\ MinSize \in Nat \ {0}

VARIABLES
    alg,        \* which of the loops runs
    size,       \* n or total_size
    shards,     \* k, num_shards or byte_shards
    offset,     \* beg or offset: what has been handed out
    ranges,     \* the shards so far
    done        \* the loop has been left

vars == <<alg, size, shards, offset, ranges, done>>

DivCeil(a, b) == (a + b - 1) \div b

Lesser(a, b) == IF a < b THEN a ELSE b

\* round_up
RoundUp(value, multiple) == DivCeil(value, multiple) * multiple

\* Mutant: a division without remainder is rounded up as well.
StepAbove(n, k) == n \div k + 1

\* step of divide_evenly
Step(n, k) == DivCeil(n, k)

\* base of shard_single_transfer
base == RoundUp(size \div shards, MinSize)

TypeOK ==
    /\ alg \in {"evenly", "single", "scatter"}
    /\ size \in 0..MaxSize /\ shards \in 1..MaxShards
    /\ offset \in 0..size
    /\ ranges \in Seq((0..MaxSize) \X (0..MaxSize)) /\ Len(ranges) <= shards
    /\ done \in BOOLEAN

Init ==
    /\ alg \in {"evenly", "single", "scatter"}
    /\ size \in 0..MaxSize /\ shards \in 1..MaxShards
    /\ offset = 0 /\ ranges = <<>> /\ done = FALSE

Push(range, len) ==
    /\ ranges' = Append(ranges, range)
    /\ offset' = offset + len
    /\ UNCHANGED <<alg, size, shards, done>>

Iterating(a) == alg = a /\ ~done /\ Len(ranges) < shards

\* An iteration of divide_evenly that finds something left to hand out.
EvenChunk ==
    /\ Iterating("evenly")
    /\ LET chunk == Lesser(size - offset, Step(size, shards)) IN
        chunk # 0 /\ Push(<<offset, chunk>>, chunk)

\* One iteration of shard_single_transfer: a shard of base bytes or what is
\* left; a zero-length shard always gets offset 0.
SingleShard ==
    /\ Iterating("single")
    /\ LET len == Lesser(base, size - offset) IN
        Push(IF len > 0 THEN <<offset, len>> ELSE <<0, 0>>, len)

\* The scatter iterator of the next domain: byte_shard_idx = Len(ranges), the
\* shard length rounded down.
ScatterShard ==
    /\ Iterating("scatter")
    /\ LET len == size \div shards IN Push(<<len * Len(ranges), len>>, len)

\* The loop ends after its last iteration, and that of divide_evenly by the
\* break on an empty chunk.
Leave ==
    /\ ~done
    /\ \/ Len(ranges) = shards
       \/ alg = "evenly" /\ Lesser(size - offset, Step(size, shards)) = 0
    /\ done' = TRUE
    /\ UNCHANGED <<alg, size, shards, offset, ranges>>

Returned == done /\ UNCHANGED vars

Next == EvenChunk \/ SingleShard \/ ScatterShard \/ Leave \/ Returned

Spec == Init /\ [][Next]_vars

\* The number of ranges divide_evenly returns, as its callers book it.
NumChunks(n, k) == IF n = 0 THEN 0 ELSE DivCeil(n, DivCeil(n, k))

----------------------------------------------------------------------------

\* No shard reaches outside the transfer, not even a zero-length one, and each
\* begins after the ones before it: no page or byte is written by two domains.
ShardsDisjoint ==
    /\ TypeOK
    /\ \A i \in 1..Len(ranges) :
        /\ ranges[i][1] + ranges[i][2] <= size
        /\ size > 0 => ranges[i][1] < size
    /\ \A i, j \in 1..Len(ranges) :
        i < j /\ ranges[j][2] > 0 => ranges[i][1] + ranges[i][2] <= ranges[j][1]

\* divide_evenly returns no empty chunk, none above the even share rounded up,
\* and as many as the DomainGroup waits for completions.
EvenChunks ==
    alg = "evenly" =>
        /\ \A i \in 1..Len(ranges) : ranges[i][2] \in 1..DivCeil(size, shards)
        /\ done => Len(ranges) = NumChunks(size, shards)

\* Both: what is handed out is inside the request, once, in the promised chunks
\* (divide_evenly and divide_single, domain_group.rs:554).
ShardsExact == ShardsDisjoint /\ EvenChunks

\* "Shard the transfer across `num_shards` domains", "Each domain handles all
\* peers but a subset of bytes": the shards together write every byte.
EveryByteWritten == done => offset = size
============================================================================
