------------------------------ MODULE WriteOps ------------------------------
(***************************************************************************)
(* From a request to the operations a NIC carries out.  Sharding splits    *)
(* the request into the parts given to the domains; here each part is made *)
(* into an operation iterator and its operations are posted                *)
(* (fabric-lib/src/efa/efa_rdma_op.rs and verbs/verbs_rdma_op.rs).         *)
(*                                                                         *)
(* The EFA iterators rewrite one message buffer.  The paged iterator of    *)
(* Verbs keeps a ring of ChainLen work requests linked by `next` pointers: *)
(* ibv_post_send follows the links from the head, and takes all of the     *)
(* chain or, when the send queue is full, a first piece of it.             *)
(***************************************************************************)
EXTENDS Sharding

CONSTANTS
    ChainLen,   \* WR_CHAIN_LEN (4 in the code)
    U32,        \* 2^32, the width of a length, scaled down
    Targets,    \* bound: targets of a scatter sharded by bytes
    SrcPtr, DstPtr,     \* where the two memory regions begin
    Stride, PageLen     \* of a paged request; PageLen also of a scatter by peers

ASSUME WriteOpsAssumption ==
    /\ ChainLen \in Nat \ {0} /\ U32 \in Nat \ {0} /\ Targets \in Nat \ {0}
    /\ SrcPtr \in Nat /\ DstPtr \in Nat /\ Stride \in Nat /\ PageLen \in 1..Stride

VARIABLES
    provider,   \* "efa" or "verbs"
    kind,       \* of the request: "single", "pages", "peers", "bytes", "imms"
    dst_offset, \* of the request
    part,       \* the part whose iterator is being posted, 0 before the first
    iter,       \* that iterator
    posted      \* the operations posted, in order

opVars == <<provider, kind, dst_offset, part, iter, posted>>

KindsOf(a) == CASE a = "evenly"  -> {"pages", "peers", "imms"}
                [] a = "single"  -> {"single"}
                [] a = "scatter" -> {"bytes"}

\* A link to no work request, and one that was never written.
Null == -1
Raw  == -2

----------------------------------------------------------------------------
(* The operations of a part.                                                *)

Beg == ranges[part][1]

\* total_ops of the iterator: one for a single write, and for each of the
\* immediates, which are writes of their own.
TotalOps(p) == CASE kind = "single" -> 1
                 [] kind = "bytes"  -> Targets
                 [] OTHER           -> ranges[p][2]

\* Lengths are cut to 32 bits in a Verbs sge and in every scatter.
Cut(len) == len % U32

\* The address put into an operation for the byte `off` of the destination
\* region: EFA counts from the start of the region, Verbs is absolute.
RemoteAddr(off) == IF provider = "efa" THEN off ELSE DstPtr + off

\* Where the NIC of the destination takes that address to.
Lands(addr) == IF provider = "efa" THEN DstPtr + addr ELSE addr

\* The j-th of a request's page indices.  The destination's run backwards.
SrcPage(j) == j
DstPage(j) == size - 1 - j

\* new_single
SingleOp == LET len == ranges[part][2] IN
    [peer |-> 0, src |-> SrcPtr + Beg, addr |-> RemoteAddr(dst_offset + Beg),
     len |-> IF provider = "efa" THEN len ELSE Cut(len)]

\* Mutant: the first page of the part is not added.
PagedOpFromZero(j) ==
    [peer |-> 0, src |-> SrcPtr + Stride * SrcPage(j),
     addr |-> RemoteAddr(dst_offset + Stride * DstPage(j)), len |-> PageLen]

\* PagedWriteOpIter, i_page = Beg + j.  EFA leaves dst_offset out.
PagedOp(j) ==
    [peer |-> 0, src |-> SrcPtr + Stride * SrcPage(Beg + j),
     addr |-> RemoteAddr((IF provider = "efa" THEN 0 ELSE dst_offset)
                            + Stride * DstPage(Beg + j)),
     len |-> IF provider = "efa" THEN PageLen ELSE Cut(PageLen)]

\* ScatterWriteOpIter: target t, shard byte_shard_idx of byte_shards.
ScatterOp(t, length, byte_shards, byte_shard_idx) ==
    LET len == Cut(length) \div byte_shards
        off == Cut(len * byte_shard_idx)
    IN  [peer |-> t, src |-> SrcPtr + t * length + off,
         addr |-> RemoteAddr(dst_offset + t * length + off), len |-> len]

\* new_imm
ImmOp(t) == [peer |-> t, src |-> 0, addr |-> IF provider = "efa" THEN 0 ELSE DstPtr,
             len |-> 0]

\* The j-th operation of the current part, from 0.
Operation(j) == CASE kind = "single" -> SingleOp
                  [] kind = "pages"  -> PagedOp(j)
                  [] kind = "peers"  -> ScatterOp(Beg + j, PageLen, 1, 0)
                  [] kind = "bytes"  -> ScatterOp(j, size, shards, part - 1)
                  [] kind = "imms"   -> ImmOp(Beg + j)

----------------------------------------------------------------------------
(* The iterators.  op[s] is the operation in slot s of the buffer.          *)

\* Only the paged iterator of Verbs chains work requests.
Slots(k) == IF provider = "verbs" /\ k = "pages" THEN ChainLen ELSE 1

\* Mutant: the last work request keeps its old link.
FillWrOpen(it) ==
    LET prev == (it.tail + Slots(kind) - 1) % Slots(kind) IN
    [it EXCEPT !.next = [@ EXCEPT ![prev] = it.tail],
               !.op   = [@ EXCEPT ![it.tail] = it.filled],
               !.tail = (@ + 1) % Slots(kind), !.wr_len = @ + 1, !.filled = @ + 1]

\* fill_wr, and fill_msg with its single slot: link the slot behind the
\* previous one, end the chain, and write the next operation into it.
FillWr(it) ==
    LET prev == (it.tail + Slots(kind) - 1) % Slots(kind) IN
    [it EXCEPT !.next = [@ EXCEPT ![prev] = it.tail, ![it.tail] = Null],
               !.op   = [@ EXCEPT ![it.tail] = it.filled],
               !.tail = (@ + 1) % Slots(kind), !.wr_len = @ + 1, !.filled = @ + 1]

\* Fill while operations are left and slots are free.
FillAll(it, total) ==
    LET n == Lesser(total - it.filled, Slots(kind) - it.wr_len)
        after[m \in 0..n] == IF m = 0 THEN it ELSE FillWr(after[m - 1])
    IN  after[n]

\* `new` of an iterator: the template is written to as many slots as there
\* are operations, the others stay as the pool left them.
NewIter(total) ==
    FillAll([head |-> 0, tail |-> 0, wr_len |-> 0, filled |-> 0,
             op   |-> [s \in 0..Slots(kind) - 1 |-> Raw],
             next |-> [s \in 0..Slots(kind) - 1 |-> IF s < total THEN Null ELSE Raw]],
            total)

\* advance
Advance(it, n, total) ==
    FillAll([it EXCEPT !.head = (@ + n) % Slots(kind), !.wr_len = @ - n], total)

\* The slot n links behind the head, as the NIC finds it.
Linked(it, n) ==
    LET at[m \in 0..n] ==
            IF m = 0 THEN it.head
            ELSE IF at[m - 1] \in DOMAIN it.next THEN it.next[at[m - 1]] ELSE Null
    IN  at[n]

\* The number of work requests up to the end of the chain.  A chain that does
\* not end within the buffer is cut one past it.
ChainLength(it) ==
    LET ends == {n \in 0..Slots(kind) : Linked(it, n) \notin DOMAIN it.next}
    IN  IF ends = {} THEN Slots(kind) + 1 ELSE CHOOSE n \in ends : \A m \in ends : n <= m

----------------------------------------------------------------------------

NoIter == [wr_len |-> 0]

OpsTypeOK ==
    /\ TypeOK
    /\ provider \in {"efa", "verbs"} /\ kind \in KindsOf(alg)
    /\ dst_offset \in {0, 1}
    /\ part \in 0..Len(ranges) /\ iter.wr_len \in 0..ChainLen
    /\ \A i \in DOMAIN posted : DOMAIN posted[i] = {"peer", "src", "addr", "len"}

OpsInit ==
    /\ Init
    /\ provider \in {"efa", "verbs"} /\ kind \in KindsOf(alg) /\ dst_offset \in {0, 1}
    /\ part = 0 /\ iter = NoIter /\ posted = <<>>

\* The request is split before any of its parts is submitted.
Shard ==
    /\ EvenChunk \/ SingleShard \/ ScatterShard \/ Leave
    /\ UNCHANGED opVars

\* do_submit_write for the next part.
StartPart ==
    /\ done /\ part < Len(ranges) /\ iter.wr_len = 0
    /\ part' = part + 1
    /\ iter' = NewIter(TotalOps(part + 1))
    /\ UNCHANGED <<vars, provider, kind, dst_offset, posted>>

\* progress_rdma_write_op_context: n work requests of the chain are accepted.
\* The caller counts those of the chain up to bad_wr, or wr_len of them.
Take(n, counted) ==
    /\ posted' = posted \o
            [i \in 1..n |-> Operation(iter.op[Linked(iter, i - 1)])]
    /\ iter' = Advance(iter, counted, TotalOps(part))
    /\ UNCHANGED <<vars, provider, kind, dst_offset, part>>

PostAll == iter.wr_len > 0 /\ Take(ChainLength(iter), iter.wr_len)

\* The send queue has room for some of the chain only (ENOMEM).
PostSome ==
    /\ iter.wr_len > 0
    /\ \E n \in 1..ChainLength(iter) - 1 : n < iter.wr_len /\ Take(n, n)

Finished == done /\ part = Len(ranges) /\ iter.wr_len = 0

OpsDone == Finished /\ UNCHANGED <<vars, opVars>>

OpsNext == Shard \/ StartPart \/ PostAll \/ PostSome \/ OpsDone

OpsSpec == OpsInit /\ [][OpsNext]_<<vars, opVars>>

----------------------------------------------------------------------------
(* Properties.                                                              *)

\* The bytes an operation copies: <<target, source address, destination>>.
BytesOf(o) == {<<o.peer, o.src + b, Lands(o.addr) + b>> : b \in 0..o.len - 1}

\* The bytes the request asks to copy.
Wanted ==
    CASE kind = "single" ->
            {<<0, SrcPtr + b, DstPtr + dst_offset + b>> : b \in 0..size - 1}
      [] kind = "pages" ->
            UNION {{<<0, SrcPtr + Stride * SrcPage(j) + b,
                      DstPtr + dst_offset + Stride * DstPage(j) + b>> :
                    b \in 0..PageLen - 1} : j \in 0..size - 1}
      [] kind \in {"peers", "bytes"} ->
            LET length == IF kind = "peers" THEN PageLen ELSE size
                last   == (IF kind = "peers" THEN size ELSE Targets) - 1
            IN  UNION {{<<t, SrcPtr + t * length + b, DstPtr + dst_offset + t * length + b>> :
                        b \in 0..length - 1} : t \in 0..last}
      [] kind = "imms" -> {}

\* What the callers keep to: lengths that fit into 32 bits, byte shards without
\* remainder (the all-to-all's token rows are multiples of 16 bytes, over 1, 2,
\* 4 or 8 NICs), and no offset into the region of a paged write over EFA.
InReach ==
    /\ kind \in {"single", "bytes"} => size < U32 /\ size % shards = 0
    /\ ~(kind = "pages" /\ provider = "efa" /\ dst_offset # 0)

\* The operations posted for all parts of a request, on either provider and
\* however often the send queue is full in between, copy no byte that was not
\* asked for and no byte twice, and at the end every byte that was.  Whatever is
\* asked, an iterator hands out as many operations as its total_ops, at which
\* the write counts as posted.
RequestWritten ==
    /\ OpsTypeOK
    /\ Finished => Len(posted) = (CASE kind = "single" -> Len(ranges)
                                    [] kind = "bytes"  -> Targets * Len(ranges)
                                    [] OTHER           -> size)
    /\ InReach =>
        /\ \A i \in DOMAIN posted : BytesOf(posted[i]) \subseteq Wanted
        /\ \A i, j \in DOMAIN posted : i < j => BytesOf(posted[i]) \cap BytesOf(posted[j]) = {}
        /\ Finished => Wanted = UNION {BytesOf(posted[i]) : i \in DOMAIN posted}

\* The chain that ibv_post_send follows from the head of the ring consists of
\* the wr_len operations behind those posted, in order: it neither ends early
\* nor runs on into work requests of an earlier round or into memory the
\* iterator never wrote.
ChainIsPending ==
    iter.wr_len > 0 =>
        /\ ChainLength(iter) = iter.wr_len
        /\ \A i \in 1..iter.wr_len :
            iter.op[Linked(iter, i - 1)] = iter.filled - iter.wr_len + i - 1

\* PagedTransferRequest has a dst_offset (api.rs), and the paged iterator stores
\* dst_ptr + dst_offset for the addresses it computes.
PagesLandAtOffset ==
    kind = "pages" => \A i \in DOMAIN posted : BytesOf(posted[i]) \subseteq Wanted
============================================================================
