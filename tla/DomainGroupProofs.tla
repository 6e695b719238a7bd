-------------------------- MODULE DomainGroupProofs --------------------------
(***************************************************************************)
(* Proofs about DomainGroup, for any number of domains and any requests:   *)
(* the outcome told of a transfer is the right one and is told once, its   *)
(* bookkeeping is not left behind, and every step is one of TransferOutcome.*)
(***************************************************************************)
EXTENDS DomainGroup, FiniteSetTheorems, TLAPS

----------------------------------------------------------------------------
(* The invariant.                                                           *)

PartRecords == [via: Domains, built: Domains]

\* The queues c hold the entry e; a report on part i of t.
Queued(c, e) == \E d \in Domains : \E k \in DOMAIN c[d] : c[d][k] = e
QueuedOn(c, t, i) == \E kind \in {"Transfer", "Error"} : Queued(c, Report(t, i, kind))

\* Each queued report is on a part posted through that domain, which is over
\* unless it has failed and may still complete.
ReportOk(d, e) ==
    /\ posted[e.id].state = "accepted"
    /\ e.part \in DOMAIN posted[e.id].parts
    /\ posted[e.id].parts[e.part].via = d
    /\ e.part \notin active[e.id]
    /\ e.kind = "Transfer" => e.part \notin failed[e.id]

ReportsInv ==
    \A d \in Domains : \A k \in DOMAIN completions[d] : ReportOk(d, completions[d][k])

\* Of two reports on one part in a queue the first is the error.
ErrorFirst(q) ==
    \A j, k \in DOMAIN q :
        j < k /\ q[j].id = q[k].id /\ q[j].part = q[k].part
            => q[j].kind = "Error" /\ q[k].kind = "Transfer"

OrderInv == \A d \in Domains : ErrorFirst(completions[d])

PartsInv ==
    \A t \in Ids :
        /\ active[t] \subseteq DOMAIN posted[t].parts
        /\ failed[t] \subseteq DOMAIN posted[t].parts
        /\ active[t] \cap failed[t] = {}
        /\ posted[t].state # "accepted" => posted[t].parts = <<>>

\* The parts of t whose reports have been read.
Settled(t) ==
    {i \in DOMAIN posted[t].parts : i \notin active[t] /\ ~QueuedOn(completions, t, i)}

\* A tracked transfer has counted its settled parts, is waiting for another,
\* and has not yet read of a failure.
Counts(t) ==
    /\ returned[t] = <<>> /\ counted[t] = <<>>
    /\ write_ops[t].atomic = posted[t].atomic
    /\ write_ops[t].num_used = Len(posted[t].parts)
    /\ write_ops[t].cnt = Cardinality(Settled(t))
    /\ posted[t].parts # <<>> => write_ops[t].cnt < write_ops[t].num_used
    /\ \A i \in failed[t] : Queued(completions, Report(t, i, "Error"))

Success(t) ==
    /\ active[t] = {} /\ failed[t] = {}
    /\ \A i \in DOMAIN posted[t].parts : ~QueuedOn(completions, t, i)
    /\ \/ posted[t].atomic /\ counted[t] = <<"done">> /\ returned[t] = <<>>
       \/ ~posted[t].atomic /\ counted[t] = <<>> /\ returned[t] = <<"Transfer">>

Failure(t) ==
    /\ returned[t] # <<>>
    /\ \A i \in DOMAIN returned[t] : returned[t][i] = "Error"
    /\ counted[t] = IF posted[t].atomic THEN <<"error">> ELSE <<>>

TransferInv(t) ==
    \/ /\ posted[t].state = "no"
       /\ ~write_ops[t].tracked /\ returned[t] = <<>> /\ counted[t] = <<>>
    \/ posted[t].state = "refused" /\ returned[t] = <<"Error">> /\ counted[t] = <<>>
    \/ posted[t].state = "accepted" /\ write_ops[t].tracked /\ Counts(t)
    \/ posted[t].state = "accepted" /\ ~write_ops[t].tracked /\ (Success(t) \/ Failure(t))

Inv == TypeOK /\ ReportsInv /\ OrderInv /\ PartsInv /\ \A t \in Ids : TransferInv(t)

----------------------------------------------------------------------------
(* Lemmas on the numbers and the queues.                                    *)

\* Division rounds down.
LEMMA DivBelow ==
  ASSUME NEW x \in Nat, NEW b \in Nat, b > 0, NEW m \in Nat, x < b * m
  PROVE  x \div b \in Nat /\ x \div b < m
OBVIOUS

\* div_ceil: parts of this size cover the whole.
LEMMA DivCeilCovers ==
  ASSUME NEW n \in Nat, NEW k \in Nat, k > 0
  PROVE  /\ DivCeil(n, k) \in Nat
         /\ n <= k * DivCeil(n, k)
         /\ n > 0 => DivCeil(n, k) > 0
<1>1. DivCeil(n, k) \in Nat
  BY DEF DivCeil
<1>2. n <= k * DivCeil(n, k)
  BY DEF DivCeil
<1>3. ASSUME n > 0 PROVE DivCeil(n, k) > 0
  BY <1>3 DEF DivCeil
<1> QED BY <1>1, <1>2, <1>3

\* divide_evenly makes at most one chunk for each domain.
LEMMA ChunksFit ==
  ASSUME NEW n \in Nat
  PROVE  NumChunks(n, N) \in Nat /\ NumChunks(n, N) <= N
<1>1. CASE n = 0
  BY <1>1, DomainGroupAssumption DEF NumChunks
<1>2. CASE n > 0
  <2> DEFINE step == DivCeil(n, N)
  <2>1. step \in Nat \ {0} /\ n <= N * step
    BY <1>2, DomainGroupAssumption, DivCeilCovers
  <2> HIDE DEF step
  <2>2. n + step - 1 \in Nat /\ n + step - 1 < step * (N + 1)
    <3>1. step * (N + 1) = N * step + step
      BY <2>1, DomainGroupAssumption
    <3>2. N * step \in Nat
      BY <2>1, DomainGroupAssumption
    <3> QED BY <2>1, <3>1, <3>2
  <2>3. /\ (n + step - 1) \div step \in Nat
        /\ (n + step - 1) \div step < N + 1
    BY <2>1, <2>2, DomainGroupAssumption, DivBelow
  <2> QED BY <1>2, <2>1, <2>3, DomainGroupAssumption DEF NumChunks, DivCeil, step
<1> QED BY <1>1, <1>2

\* The round robin stays on the domains.
LEMMA RoundRobin ==
  ASSUME NEW x \in Nat PROVE x % N \in Domains
BY DomainGroupAssumption DEF Domains

\* A queue that grows by a report holds that report and what it held.
LEMMA AppendQueued ==
  ASSUME NEW c \in [Domains -> Seq(Reports)], NEW d \in Domains,
         NEW e \in Reports, NEW cc, cc = [c EXCEPT ![d] = Append(@, e)]
  PROVE  /\ cc \in [Domains -> Seq(Reports)]
         /\ \A x : Queued(cc, x) <=> Queued(c, x) \/ x = e
<1>1. /\ cc \in [Domains -> Seq(Reports)]
      /\ cc[d] = Append(c[d], e)
      /\ \A f \in Domains \ {d} : cc[f] = c[f]
  OBVIOUS
<1>2. /\ DOMAIN c[d] = 1..Len(c[d]) /\ Len(c[d]) \in Nat
      /\ DOMAIN cc[d] = 1..(Len(c[d]) + 1)
      /\ \A k \in DOMAIN c[d] : cc[d][k] = c[d][k]
      /\ cc[d][Len(c[d]) + 1] = e
  BY <1>1
<1>3. ASSUME NEW x, Queued(cc, x) PROVE Queued(c, x) \/ x = e
  <2>1. PICK f \in Domains : \E k \in DOMAIN cc[f] : cc[f][k] = x
    BY <1>3 DEF Queued
  <2>2. PICK k \in DOMAIN cc[f] : cc[f][k] = x
    BY <2>1
  <2>3. CASE f = d
    <3>1. k \in DOMAIN c[d] \/ k = Len(c[d]) + 1
      BY <1>2, <2>2, <2>3
    <3> QED BY <1>2, <2>2, <2>3, <3>1, Zenon DEF Queued
  <2>4. CASE f # d
    BY <1>1, <2>2, <2>4 DEF Queued
  <2> QED BY <2>3, <2>4
<1>4. ASSUME NEW x, Queued(c, x) PROVE Queued(cc, x)
  <2>1. PICK f \in Domains : \E k \in DOMAIN c[f] : c[f][k] = x
    BY <1>4 DEF Queued
  <2>2. DOMAIN c[f] \subseteq DOMAIN cc[f] /\ \A k \in DOMAIN c[f] : cc[f][k] = c[f][k]
    <3>1. CASE f = d
      BY <1>2, <3>1
    <3>2. CASE f # d
      BY <1>1, <3>2
    <3> QED BY <3>1, <3>2
  <2> QED BY <2>1, <2>2 DEF Queued
<1>5. Queued(cc, e)
  <2>1. Len(c[d]) + 1 \in DOMAIN cc[d]
    BY <1>2
  <2> QED BY <1>2, <2>1 DEF Queued
<1> QED BY <1>1, <1>3, <1>4, <1>5, Zenon

\* A queue whose head is read keeps everything else.
LEMMA TailQueued ==
  ASSUME NEW c \in [Domains -> Seq(Reports)], NEW d \in Domains, c[d] # <<>>,
         NEW cc, cc = [c EXCEPT ![d] = Tail(@)]
  PROVE  /\ cc \in [Domains -> Seq(Reports)]
         /\ Head(c[d]) \in Reports /\ Queued(c, Head(c[d]))
         /\ \A x : Queued(cc, x) => Queued(c, x)
         /\ \A x : Queued(c, x) /\ x # Head(c[d]) => Queued(cc, x)
         /\ \A f \in Domains \ {d} : cc[f] = c[f]
         /\ \A k \in DOMAIN cc[d] : /\ k + 1 \in DOMAIN c[d] /\ k \in Nat \ {0}
                                     /\ cc[d][k] = c[d][k + 1]
         /\ Head(c[d]) = c[d][1] /\ 1 \in DOMAIN c[d]
<1>1. /\ cc \in [Domains -> Seq(Reports)]
      /\ cc[d] = Tail(c[d])
      /\ \A f \in Domains \ {d} : cc[f] = c[f]
  OBVIOUS
<1>2. /\ Len(c[d]) \in Nat \ {0} /\ DOMAIN c[d] = 1..Len(c[d])
      /\ DOMAIN cc[d] = 1..(Len(c[d]) - 1)
      /\ \A k \in DOMAIN cc[d] : cc[d][k] = c[d][k + 1]
      /\ Head(c[d]) = c[d][1] /\ Head(c[d]) \in Reports
  BY <1>1
<1>3. ASSUME NEW x, NEW f \in Domains, NEW k \in DOMAIN cc[f], cc[f][k] = x
      PROVE  Queued(c, x)
  <2>1. CASE f = d
    <3>1. k + 1 \in DOMAIN c[d] /\ c[d][k + 1] = x
      BY <1>2, <1>3, <2>1
    <3> QED BY <3>1 DEF Queued
  <2>2. CASE f # d
    BY <1>1, <1>3, <2>2 DEF Queued
  <2> QED BY <2>1, <2>2
<1>4. ASSUME NEW x, NEW f \in Domains, NEW k \in DOMAIN c[f], c[f][k] = x, x # Head(c[d])
      PROVE  Queued(cc, x)
  <2>1. CASE f = d
    <3>1. k # 1 /\ k \in 1..Len(c[d])
      BY <1>2, <1>4, <2>1
    <3>2. k - 1 \in DOMAIN cc[d] /\ cc[d][k - 1] = x
      BY <1>2, <1>4, <2>1, <3>1
    <3> QED BY <3>2 DEF Queued
  <2>2. CASE f # d
    BY <1>1, <1>4, <2>2 DEF Queued
  <2> QED BY <2>1, <2>2
<1>5. 1 \in DOMAIN c[d] /\ \A k \in DOMAIN cc[d] : k + 1 \in DOMAIN c[d] /\ k \in Nat \ {0}
  BY <1>2
<1>6. Queued(c, Head(c[d]))
  BY <1>2, <1>5 DEF Queued
<1>7. /\ \A x : Queued(cc, x) => Queued(c, x)
      /\ \A x : Queued(c, x) /\ x # Head(c[d]) => Queued(cc, x)
  BY <1>3, <1>4, Zenon DEF Queued
<1> QED BY <1>1, <1>2, <1>5, <1>6, <1>7, Zenon

\* The requests are split into parts that name domains of the group.
LEMMA PartsTyped ==
  ASSUME NEW t \in Ids, NEW req \in Requests[t], rr_next \in Domains, RoutingOk(req)
  PROVE  PartsOf(req) \in Seq(PartRecords)
<1>1. N \in Nat /\ N > 0 /\ rr_next \in Nat /\ Domains = 0..(N - 1)
  BY DomainGroupAssumption DEF Domains
<1>2. Submittable(req)
  BY RequestsAssumption
<1>3. /\ req.kind \in {"imm", "single", "paged", "scatter"}
      /\ req.routing \in {"rr", "pinned", "peers", "bytes"}
      /\ req.domain \in Nat /\ req.shards \in Nat /\ req.targets \in Nat /\ req.pages \in Nat
  BY <1>2 DEF Submittable, RequestRecords
<1>4. \A via, built \in Domains : Part(via, built) \in PartRecords
  BY DEF Part, PartRecords
<1>5. CASE req.kind = "imm"
  <2>1. req.targets > 0 /\ req.routing \in {"rr", "pinned"}
    BY <1>2, <1>5 DEF Submittable
  <2>2. ASSUME NEW first \in Nat, NEW per \in Nat, per > 0, req.targets <= per * N
        PROVE  ImmParts(req.targets, first, per) \in Seq(PartRecords)
    <3>1. ASSUME NEW i \in 1..req.targets
          PROVE  Part((first + (i - 1) \div per) % N, (i - 1) \div per) \in PartRecords
      <4>1. i - 1 \in Nat /\ i - 1 < per * N
        BY <1>1, <1>3, <2>2
      <4>2. (i - 1) \div per \in Nat /\ (i - 1) \div per < N
        BY <1>1, <2>2, <4>1, DivBelow
      <4>3. (first + (i - 1) \div per) % N \in Domains
        BY <2>2, <4>2, RoundRobin
      <4> QED BY <1>1, <1>4, <4>2, <4>3
    <3> QED BY <1>3, <3>1 DEF ImmParts
  <2>3. CASE req.routing = "pinned"
    <3>1. req.targets <= req.targets * N
      <4>1. \A m, k \in Nat : k > 0 => m <= m * k
        OBVIOUS
      <4> QED BY <1>1, <1>3, <4>1, Zenon
    <3>2. ImmParts(req.targets, req.domain, req.targets) \in Seq(PartRecords)
      BY <1>3, <2>1, <2>2, <3>1, Zenon
    <3> QED BY <1>5, <2>3, <3>2 DEF PartsOf
  <2>4. CASE req.routing = "rr"
    <3> DEFINE per == DivCeil(req.targets, N)
    <3>1. per \in Nat /\ per > 0 /\ req.targets <= N * per
      BY <1>1, <1>3, <2>1, DivCeilCovers, Zenon
    <3> HIDE DEF per
    <3>2. N * per = per * N
      BY <1>1, <3>1
    <3>3. ImmParts(req.targets, rr_next, per) \in Seq(PartRecords)
      BY <1>1, <2>2, <3>1, <3>2
    <3> QED BY <1>5, <2>4, <3>3 DEF PartsOf, per
  <2> QED BY <2>1, <2>3, <2>4
<1>6. CASE req.kind = "single"
  <2>1. req.routing \in {"rr", "pinned"}
    BY <1>2, <1>6 DEF Submittable
  <2>2. CASE req.routing = "pinned"
    <3>1. 0 \in Domains /\ req.domain \in Domains
      BY <1>1, <1>3, <1>6, <2>2 DEF RoutingOk
    <3>2. <<Part(0, req.domain)>> \in Seq(PartRecords)
      BY <1>4, <3>1
    <3> QED BY <1>6, <2>2, <3>2 DEF PartsOf, SingleParts
  <2>3. CASE req.routing = "rr"
    <3>1. req.shards <= N
      BY <1>6, <2>3 DEF RoutingOk
    <3>2. ASSUME NEW i \in 1..req.shards
          PROVE  Part(i - 1, (rr_next + i - 1) % N) \in PartRecords
      <4>1. i - 1 \in Domains /\ rr_next + i - 1 \in Nat
        BY <1>1, <1>3, <3>1
      <4> QED BY <1>4, <4>1, RoundRobin
    <3>3. [i \in 1..req.shards |-> Part(i - 1, (rr_next + i - 1) % N)] \in Seq(PartRecords)
      BY <1>3, <3>2
    <3> QED BY <1>6, <2>3, <3>3 DEF PartsOf, SingleParts
  <2> QED BY <2>1, <2>2, <2>3
<1>7. CASE req.kind = "paged"
  <2>1. NumChunks(req.pages, N) \in Nat
    BY <1>3, ChunksFit
  <2>2. ASSUME NEW i \in 1..NumChunks(req.pages, N)
        PROVE  Part((rr_next + i - 1) % N, (rr_next + i - 1) % N) \in PartRecords
    BY <1>1, <1>4, <2>1, RoundRobin
  <2>3. PagedParts(req) \in Seq(PartRecords)
    BY <2>1, <2>2 DEF PagedParts
  <2> QED BY <1>7, <2>3 DEF PartsOf
<1>8. CASE req.kind = "scatter"
  <2>1. req.routing \in {"peers", "bytes", "pinned"}
    BY <1>2, <1>8 DEF Submittable
  <2>2. ASSUME NEW m \in Nat, m <= N
        PROVE  [i \in 1..m |-> Part(i - 1, i - 1)] \in Seq(PartRecords)
    <3>1. \A i \in 1..m : i - 1 \in Domains
      BY <1>1, <2>2
    <3> QED BY <1>4, <3>1
  <2>3. CASE req.routing = "peers"
    BY <1>3, <1>8, <2>2, <2>3, ChunksFit DEF PartsOf, ScatterParts
  <2>4. CASE req.routing = "bytes"
    BY <1>1, <1>8, <2>2, <2>4 DEF PartsOf, ScatterParts
  <2>5. CASE req.routing = "pinned"
    <3>1. req.domain \in Domains
      BY <1>1, <1>2, <1>3, <1>8, <2>5 DEF Submittable
    <3>2. <<Part(req.domain, req.domain)>> \in Seq(PartRecords)
      BY <1>4, <3>1
    <3> QED BY <1>8, <2>5, <3>2 DEF PartsOf, ScatterParts
  <2> QED BY <2>1, <2>3, <2>4, <2>5
<1> QED BY <1>3, <1>5, <1>6, <1>7, <1>8

\* Reports on different parts differ.
LEMMA ReportParts ==
  ASSUME NEW t, NEW i, NEW kind, NEW u, NEW j, NEW k
  PROVE  /\ Report(t, i, kind).id = t /\ Report(t, i, kind).part = i
         /\ Report(t, i, kind).kind = kind
         /\ Report(t, i, kind) = Report(u, j, k) => t = u /\ i = j /\ kind = k
BY DEF Report

\* A report is made of its fields.
LEMMA ReportWhole ==
  ASSUME NEW e \in Reports
  PROVE  /\ e.id \in Ids /\ e.part \in Nat /\ e.kind \in {"Transfer", "Error"}
         /\ e = Report(e.id, e.part, e.kind)
BY DEF Report, Reports

\* What the queues hold are reports.
LEMMA EntriesTyped ==
  ASSUME TypeOK, NEW d \in Domains, NEW k \in DOMAIN completions[d]
  PROVE  /\ completions[d][k] \in Reports /\ completions[d][k].id \in Ids
         /\ completions[d][k].kind \in {"Transfer", "Error"}
<1>1. completions[d] \in Seq(Reports)
  BY DEF TypeOK
<1>2. completions[d][k] \in Reports
  BY <1>1
<1> QED BY <1>2, ReportWhole

\* An error may follow nothing on its part, a transfer only an error.
LEMMA AppendOrder ==
  ASSUME NEW q \in Seq(Reports), NEW e \in Reports, ErrorFirst(q),
         \A k \in DOMAIN q : q[k].id = e.id /\ q[k].part = e.part
                                => q[k].kind = "Error" /\ e.kind = "Transfer"
  PROVE  ErrorFirst(Append(q, e))
<1> DEFINE qq == Append(q, e)
<1>1. /\ DOMAIN q = 1..Len(q) /\ Len(q) \in Nat
      /\ DOMAIN qq = 1..(Len(q) + 1)
      /\ \A k \in DOMAIN q : qq[k] = q[k]
      /\ qq[Len(q) + 1] = e
  OBVIOUS
<1> HIDE DEF qq
<1>2. SUFFICES ASSUME NEW j \in DOMAIN qq, NEW k \in DOMAIN qq, j < k,
                      qq[j].id = qq[k].id, qq[j].part = qq[k].part
               PROVE  qq[j].kind = "Error" /\ qq[k].kind = "Transfer"
  BY DEF ErrorFirst, qq
<1>3. j \in DOMAIN q /\ (k \in DOMAIN q \/ k = Len(q) + 1)
  BY <1>1, <1>2
<1>4. CASE k \in DOMAIN q
  BY <1>1, <1>2, <1>3, <1>4 DEF ErrorFirst
<1>5. CASE k = Len(q) + 1
  BY <1>1, <1>2, <1>3, <1>5
<1> QED BY <1>3, <1>4, <1>5

\* What is queued on a part after a report on it was appended.
LEMMA AppendReport ==
  ASSUME TypeOK, NEW d \in Domains, NEW t \in Ids, NEW i \in Nat,
         NEW kind \in {"Transfer", "Error"},
         completions' = [completions EXCEPT ![d] = Append(@, Report(t, i, kind))]
  PROVE  /\ completions' \in [Domains -> Seq(Reports)]
         /\ Queued(completions', Report(t, i, kind))
         /\ \A u, j : QueuedOn(completions', u, j) <=>
                         QueuedOn(completions, u, j) \/ (u = t /\ j = i)
         /\ \A x : Queued(completions, x) => Queued(completions', x)
         /\ \A u, j : u # t \/ j # i =>
               (Queued(completions', Report(u, j, "Error")) <=>
                Queued(completions, Report(u, j, "Error")))
<1> DEFINE e == Report(t, i, kind)
<1>1. e \in Reports
  BY DEF Report, Reports
<1> HIDE DEF e
<1>2. /\ completions \in [Domains -> Seq(Reports)]
      /\ completions' = [completions EXCEPT ![d] = Append(completions[d], e)]
  BY DEF TypeOK, e
<1>3. /\ completions' \in [Domains -> Seq(Reports)]
      /\ \A x : Queued(completions', x) <=> Queued(completions, x) \/ x = e
  BY <1>1, <1>2, AppendQueued, Zenon
<1>4. \A u, j, k : Report(u, j, k) = e <=> u = t /\ j = i /\ k = kind
  BY ReportParts DEF e
<1>5. \A u, j : QueuedOn(completions', u, j) <=>
                   QueuedOn(completions, u, j) \/ (u = t /\ j = i)
  <2> SUFFICES ASSUME NEW u, NEW j
               PROVE  QueuedOn(completions', u, j) <=>
                         QueuedOn(completions, u, j) \/ (u = t /\ j = i)
    BY Zenon
  <2>1. \A k : Queued(completions', Report(u, j, k)) <=>
                 Queued(completions, Report(u, j, k)) \/ (u = t /\ j = i /\ k = kind)
    BY <1>3, <1>4, Zenon
  <2> QED BY <2>1, Zenon DEF QueuedOn
<1>6. ASSUME NEW u, NEW j, u # t \/ j # i
      PROVE  Queued(completions', Report(u, j, "Error")) <=>
             Queued(completions, Report(u, j, "Error"))
  <2>1. Report(u, j, "Error") # e
    BY <1>4, <1>6
  <2> QED BY <1>3, <2>1, Zenon
<1>7. Queued(completions', Report(t, i, kind))
  BY <1>3, Zenon DEF e
<1> QED BY <1>3, <1>5, <1>6, <1>7, Zenon

\* Reading the head of a queue: the report is on a part that is over, and with
\* a Transfer nothing more is queued on that part.
LEMMA ReadHead ==
  ASSUME TypeOK, ReportsInv, OrderInv, NEW t \in Ids,
         NEW kind \in {"Transfer", "Error"}, Scanning(t, kind)
  PROVE  LET h == Head(completions[scan]).part IN
         /\ completions' \in [Domains -> Seq(Reports)]
         /\ posted[t].state = "accepted"
         /\ h \in DOMAIN posted[t].parts /\ h \notin active[t]
         /\ QueuedOn(completions, t, h)
         /\ kind = "Transfer" => h \notin failed[t] /\ ~QueuedOn(completions', t, h)
         /\ \A x : Queued(completions', x) => Queued(completions, x)
         /\ \A u, j : u # t \/ j # h =>
               /\ QueuedOn(completions', u, j) <=> QueuedOn(completions, u, j)
               /\ Queued(completions', Report(u, j, "Error")) <=>
                     Queued(completions, Report(u, j, "Error"))
<1> DEFINE e == Head(completions[scan])
           h == e.part
<1>1. /\ completions \in [Domains -> Seq(Reports)] /\ scan \in Domains
      /\ completions[scan] # <<>> /\ e.id = t /\ e.kind = kind
      /\ completions' = [completions EXCEPT ![scan] = Tail(@)]
  BY DomainGroupAssumption DEF TypeOK, Scanning, Domains
<1> HIDE DEF e
<1>2. /\ completions' \in [Domains -> Seq(Reports)]
      /\ e \in Reports /\ Queued(completions, e)
      /\ \A x : Queued(completions', x) => Queued(completions, x)
      /\ \A x : Queued(completions, x) /\ x # e => Queued(completions', x)
      /\ \A f \in Domains \ {scan} : completions'[f] = completions[f]
      /\ \A k \in DOMAIN completions'[scan] :
            /\ k + 1 \in DOMAIN completions[scan] /\ k \in Nat \ {0}
            /\ completions'[scan][k] = completions[scan][k + 1]
      /\ e = completions[scan][1] /\ 1 \in DOMAIN completions[scan]
  <2>1. completions' = [completions EXCEPT ![scan] = Tail(completions[scan])]
    BY <1>1
  <2> QED BY <1>1, <2>1, TailQueued, Zenon DEF e
<1>3. e = Report(t, h, kind)
  BY <1>1, <1>2, ReportWhole, Zenon
<1>4. /\ posted[t].state = "accepted"
      /\ h \in DOMAIN posted[t].parts /\ h \notin active[t]
      /\ posted[t].parts[h].via = scan
      /\ kind = "Transfer" => h \notin failed[t]
  <2>1. ReportOk(scan, e)
    BY <1>1, <1>2, Zenon DEF ReportsInv
  <2> QED BY <1>1, <2>1, Zenon DEF ReportOk
<1>5. QueuedOn(completions, t, h)
  BY <1>2, <1>3 DEF QueuedOn
<1>6. ASSUME kind = "Transfer", NEW k \in {"Transfer", "Error"},
             Queued(completions', Report(t, h, k))
      PROVE  FALSE
  <2>1. PICK f \in Domains : \E n \in DOMAIN completions'[f] :
                                completions'[f][n] = Report(t, h, k)
    BY <1>6 DEF Queued
  <2>2. PICK n \in DOMAIN completions'[f] : completions'[f][n] = Report(t, h, k)
    BY <2>1
  <2>3. CASE f = scan
    <3>1. /\ n + 1 \in DOMAIN completions[scan] /\ 1 < n + 1
          /\ completions[scan][n + 1] = Report(t, h, k)
      BY <1>2, <2>2, <2>3
    <3>2. /\ completions[scan][1].id = completions[scan][n + 1].id
          /\ completions[scan][1].part = completions[scan][n + 1].part
      BY <1>1, <1>2, <3>1, ReportParts
    <3>3. completions[scan][1].kind = "Error"
      BY <1>1, <1>2, <3>1, <3>2, Zenon DEF OrderInv, ErrorFirst
    <3> QED BY <1>1, <1>2, <1>6, <3>3
  <2>4. CASE f # scan
    <3>1. n \in DOMAIN completions[f] /\ completions[f][n] = Report(t, h, k)
      BY <1>2, <2>2, <2>4, Zenon
    <3>2. posted[t].parts[h].via = f
      <4>1. ReportOk(f, Report(t, h, k))
        BY <3>1, Zenon DEF ReportsInv
      <4>2. Report(t, h, k).id = t /\ Report(t, h, k).part = h
        BY ReportParts
      <4> QED BY <4>1, <4>2, Zenon DEF ReportOk
    <3> QED BY <1>4, <2>4, <3>2, Zenon
  <2> QED BY <2>3, <2>4
<1>7. ASSUME NEW u, NEW j, u # t \/ j # h, NEW k
      PROVE  Queued(completions', Report(u, j, k)) <=> Queued(completions, Report(u, j, k))
  BY <1>2, <1>3, <1>7, ReportParts
<1>8. \A u, j : u # t \/ j # h =>
         /\ QueuedOn(completions', u, j) <=> QueuedOn(completions, u, j)
         /\ Queued(completions', Report(u, j, "Error")) <=>
               Queued(completions, Report(u, j, "Error"))
  BY <1>7 DEF QueuedOn
<1>9. kind = "Transfer" => ~QueuedOn(completions', t, h)
  BY <1>6 DEF QueuedOn
<1> QED BY <1>2, <1>4, <1>5, <1>8, <1>9, Zenon DEF e

----------------------------------------------------------------------------
(* Types.                                                                   *)

OpRecords == [tracked: BOOLEAN, atomic: BOOLEAN, num_used: Nat, cnt: Nat]

\* A refused request is booked for a number of parts.
LEMMA BookedTyped ==
  ASSUME NEW t \in Ids, NEW req \in Requests[t]
  PROVE  BookedWhenRefused(req) \in Nat
<1>1. Submittable(req)
  BY RequestsAssumption
<1>2. req.targets \in Nat /\ req.pages \in Nat
  BY <1>1 DEF Submittable, RequestRecords
<1>3. NumChunks(req.pages, N) \in Nat
  BY <1>2, ChunksFit
<1> QED BY <1>2, <1>3 DEF BookedWhenRefused

\* A request moves the round robin on to a domain.
LEMMA AdvanceTyped ==
  ASSUME NEW t \in Ids, NEW req \in Requests[t], rr_next \in Domains
  PROVE  /\ Advance(RoundRobinSteps(req)) => rr_next' \in Domains
         /\ Advance(RoundRobinWhenRefused(req)) => rr_next' \in Domains
<1>1. Submittable(req)
  BY RequestsAssumption
<1>2. req.targets \in Nat /\ req.pages \in Nat /\ req.shards \in Nat
  BY <1>1 DEF Submittable, RequestRecords
<1>3. NumChunks(req.pages, N) \in Nat
  BY <1>2, ChunksFit
<1>4. RoundRobinSteps(req) \in Nat
  BY <1>2, <1>3, DomainGroupAssumption DEF RoundRobinSteps, Lesser
<1>5. RoundRobinWhenRefused(req) \in Nat
  BY DEF RoundRobinWhenRefused
<1>6. \A k \in Nat : (rr_next + k) % N \in Domains
  <2>1. rr_next \in Nat
    BY DEF Domains
  <2> QED BY <2>1, RoundRobin
<1> QED BY <1>4, <1>5, <1>6 DEF Advance

\* Every step keeps the types, for the parts of any request.
LEMMA TypeStep ==
  ASSUME TypeOK, [Next]_vars
  PROVE  TypeOK'
<1> USE DEF PartRecords, OpRecords
<1>0. 0 \in 0..N
  BY DomainGroupAssumption
<1>1. ASSUME NEW t \in Ids, NEW atomic \in BOOLEAN, NEW req \in Requests[t],
             Submit(t, req, atomic)
      PROVE  TypeOK'
  <2> DEFINE parts == PartsOf(req)
  <2>1. rr_next \in Domains /\ RoutingOk(req)
    BY <1>1, Zenon DEF TypeOK, Submit, Refused
  <2>2. parts \in Seq([via: Domains, built: Domains])
    BY <2>1, PartsTyped, Zenon
  <2>3. rr_next' \in Domains
    BY <1>1, <2>1, AdvanceTyped, Zenon DEF Submit
  <2> HIDE DEF parts
  <2>4. Len(parts) \in Nat /\ DOMAIN parts \in SUBSET Nat
    BY <2>2
  <2>5. /\ write_ops' = [write_ops EXCEPT ![t] =
                [tracked |-> TRUE, num_used |-> Len(parts), cnt |-> 0, atomic |-> atomic]]
        /\ active' = [active EXCEPT ![t] = DOMAIN parts]
        /\ posted' = [posted EXCEPT ![t] =
                [state |-> "accepted", atomic |-> atomic, parts |-> parts]]
        /\ phase' = "poll"
        /\ UNCHANGED <<failed, completions, returned, counted, scan>>
    BY <1>1, Zenon DEF Submit, Track, parts
  <2>6. write_ops' \in [Ids -> OpRecords]
    BY <2>4, <2>5, Zenon DEF TypeOK
  <2>7. active' \in [Ids -> SUBSET Nat]
    BY <2>4, <2>5, Zenon DEF TypeOK
  <2>8. posted' \in [Ids -> [state: {"no", "accepted", "refused"},
                             atomic: BOOLEAN, parts: Seq([via: Domains, built: Domains])]]
    BY <2>2, <2>5, Zenon DEF TypeOK
  <2> QED BY <2>3, <2>5, <2>6, <2>7, <2>8, Zenon DEF TypeOK
<1>2. ASSUME NEW t \in Ids, NEW atomic \in BOOLEAN, NEW req \in Requests[t],
             SubmitRefused(t, req, atomic)
      PROVE  TypeOK'
  <2>1. rr_next' \in Domains
    BY <1>2, AdvanceTyped DEF TypeOK, SubmitRefused
  <2>2. write_ops' \in [Ids -> OpRecords]
    <3>1. [tracked |-> TRUE, num_used |-> BookedWhenRefused(req), cnt |-> 0,
           atomic |-> atomic] \in OpRecords
      BY BookedTyped
    <3>2. write_ops \in [Ids -> OpRecords]
      BY DEF TypeOK
    <3> HIDE DEF OpRecords
    <3>3. CASE UNCHANGED write_ops
      BY <3>2, <3>3
    <3>4. CASE Track(t, BookedWhenRefused(req), atomic)
      BY <3>1, <3>2, <3>4 DEF Track
    <3> QED BY <1>2, <3>3, <3>4 DEF SubmitRefused
  <2>3. posted' \in [Ids -> [state: {"no", "accepted", "refused"},
                             atomic: BOOLEAN, parts: Seq([via: Domains, built: Domains])]]
    <3>1. posted \in [Ids -> [state: {"no", "accepted", "refused"},
                             atomic: BOOLEAN, parts: Seq([via: Domains, built: Domains])]]
      BY Zenon DEF TypeOK
    <3>2. posted' = [posted EXCEPT ![t].state = "refused", ![t].atomic = atomic]
      BY <1>2, Zenon DEF SubmitRefused
    <3> QED BY <1>2, <3>1, <3>2, Zenon
  <2>4. returned' \in [Ids -> Seq({"Transfer", "Error"})]
    BY <1>2 DEF TypeOK, SubmitRefused
  <2> QED BY <1>2, <2>1, <2>2, <2>3, <2>4, Zenon DEF TypeOK, SubmitRefused
<1>3. ASSUME NEW d \in Domains, NEW t \in Ids, NEW i \in active[t] \cup failed[t],
             \/ PartCompletes(d, t, i) \/ PartFails(d, t, i) \/ FailedPartCompletes(d, t, i)
      PROVE  TypeOK'
  <2>1. i \in Nat
    BY Zenon DEF TypeOK
  <2>2. PICK kind \in {"Transfer", "Error"} :
            completions' = [completions EXCEPT ![d] = Append(@, Report(t, i, kind))]
    BY <1>3, Zenon DEF PartCompletes, PartFails, FailedPartCompletes
  <2>3. completions' \in [Domains -> Seq(Reports)]
    BY <2>1, <2>2, AppendReport, Zenon
  <2>4. active' \in [Ids -> SUBSET Nat] /\ failed' \in [Ids -> SUBSET Nat]
    <3>1. active \in [Ids -> SUBSET Nat] /\ failed \in [Ids -> SUBSET Nat]
      BY Zenon DEF TypeOK
    <3>2. CASE PartCompletes(d, t, i)
      BY <3>1, <3>2, Zenon DEF PartCompletes
    <3>3. CASE PartFails(d, t, i)
      <4>1. PICK late \in {{}, {i}} : failed' = [failed EXCEPT ![t] = @ \cup late]
        BY <3>3, Zenon DEF PartFails
      <4>2. failed[t] \cup late \in SUBSET Nat
        BY <2>1, <3>1
      <4> QED BY <3>1, <3>3, <4>1, <4>2, Zenon DEF PartFails
    <3>4. CASE FailedPartCompletes(d, t, i)
      BY <3>1, <3>4 DEF FailedPartCompletes
    <3> QED BY <1>3, <3>2, <3>3, <3>4, Zenon
  <2> QED BY <1>3, <2>3, <2>4, Zenon DEF TypeOK, PartCompletes, PartFails, FailedPartCompletes
<1>4. ASSUME NEW t \in Ids, NEW kind \in {"Transfer", "Error"}, Scanning(t, kind)
      PROVE  completions' \in [Domains -> Seq(Reports)] /\ scan + 1 \in 0..N
  <2>1. scan \in Domains /\ scan + 1 \in 0..N
    BY <1>4, DomainGroupAssumption DEF TypeOK, Scanning, Domains
  <2> QED BY <1>4, <2>1 DEF TypeOK, Scanning
<1>5. ASSUME NEW t \in Ids, ScanError(t) PROVE TypeOK'
  <2>1. completions' \in [Domains -> Seq(Reports)]
    BY <1>4, <1>5, Zenon DEF ScanError
  <2>2. write_ops' \in [Ids -> OpRecords]
    BY <1>5, Zenon DEF TypeOK, ScanError, Untrack, None
  <2>3. counted' \in [Ids -> Seq({"done", "error"})]
    BY <1>5 DEF TypeOK, ScanError
  <2>4. returned' \in [Ids -> Seq({"Transfer", "Error"})]
    BY <1>5 DEF TypeOK, ScanError
  <2> QED BY <1>5, <2>1, <2>2, <2>3, <2>4, <1>0, Zenon DEF TypeOK, ScanError
<1>6. ASSUME NEW t \in Ids, ScanStray(t) PROVE TypeOK'
  BY <1>4, <1>6, Zenon DEF TypeOK, ScanStray
<1>7. ASSUME NEW t \in Ids, ScanPart(t) PROVE TypeOK'
  <2>1. completions' \in [Domains -> Seq(Reports)] /\ scan' \in 0..N
    BY <1>4, <1>7 DEF ScanPart
  <2>2. write_ops' \in [Ids -> OpRecords]
    <3>1. write_ops \in [Ids -> OpRecords] /\ write_ops' = [write_ops EXCEPT ![t].cnt = @ + 1]
      BY <1>7 DEF TypeOK, ScanPart
    <3>2. [write_ops[t] EXCEPT !.cnt = @ + 1] \in OpRecords
      BY <3>1
    <3> HIDE DEF OpRecords
    <3> QED BY <3>1, <3>2
  <2> QED BY <1>7, <2>1, <2>2, Zenon DEF TypeOK, ScanPart
<1>8. ASSUME NEW t \in Ids, ScanLastCounted(t) PROVE TypeOK'
  <2>1. completions' \in [Domains -> Seq(Reports)]
    BY <1>4, <1>8 DEF ScanLastCounted
  <2>2. write_ops' \in [Ids -> OpRecords]
    BY <1>8, Zenon DEF TypeOK, ScanLastCounted, Untrack, None
  <2>3. counted' \in [Ids -> Seq({"done", "error"})]
    BY <1>8 DEF TypeOK, ScanLastCounted
  <2> QED BY <1>8, <2>1, <2>2, <2>3, Zenon DEF TypeOK, ScanLastCounted
<1>9. ASSUME NEW t \in Ids, ScanLastReturned(t) PROVE TypeOK'
  <2>1. completions' \in [Domains -> Seq(Reports)]
    BY <1>4, <1>9 DEF ScanLastReturned
  <2>2. write_ops' \in [Ids -> OpRecords]
    BY <1>9, Zenon DEF TypeOK, ScanLastReturned, Untrack, None
  <2>3. returned' \in [Ids -> Seq({"Transfer", "Error"})]
    BY <1>9 DEF TypeOK, ScanLastReturned
  <2> QED BY <1>9, <2>1, <2>2, <2>3, <1>0, Zenon DEF TypeOK, ScanLastReturned
<1>10. CASE NoCommand \/ PollDone \/ ScanEmpty \/ ScanEnd
  <2>1. scan' \in 0..N
    BY <1>0, <1>10, DomainGroupAssumption DEF TypeOK, NoCommand, PollDone, ScanEmpty, ScanEnd
  <2> QED BY <1>10, <2>1, Zenon DEF TypeOK, NoCommand, PollDone, ScanEmpty, ScanEnd
<1>11. CASE UNCHANGED vars
  BY <1>11, Zenon DEF TypeOK, vars
<1> QED
  BY <1>1, <1>2, <1>3, <1>5, <1>6, <1>7, <1>8, <1>9, <1>10, <1>11, Zenon
  DEF Next, Worker, PartReports, LateReport

----------------------------------------------------------------------------
(* Reports and parts.                                                       *)

PartsState == ReportsInv /\ OrderInv /\ PartsInv

\* A submission hands parts to the domains under an id nothing is queued for.
LEMMA SubmitParts ==
  ASSUME TypeOK, PartsState, NEW t \in Ids, NEW req, NEW atomic \in BOOLEAN,
         Submit(t, req, atomic) \/ SubmitRefused(t, req, atomic)
  PROVE  PartsState'
<1>1. /\ posted[t].state = "no"
      /\ completions' = completions /\ failed' = failed
      /\ \A u \in Ids \ {t} : posted'[u] = posted[u] /\ active'[u] = active[u]
  BY Zenon DEF Submit, SubmitRefused, TypeOK
<1>2. posted[t].parts = <<>> /\ active[t] = {} /\ failed[t] = {}
  BY <1>1 DEF PartsState, PartsInv
<1>3. \/ posted'[t].state = "accepted" /\ active'[t] = DOMAIN posted'[t].parts
      \/ posted'[t].state = "refused" /\ posted'[t].parts = <<>> /\ active'[t] = {}
  <2>1. CASE Submit(t, req, atomic)
    BY <2>1, Zenon DEF Submit, TypeOK
  <2>2. CASE SubmitRefused(t, req, atomic)
    BY <1>2, <2>2 DEF SubmitRefused, TypeOK
  <2> QED BY <2>1, <2>2, Zenon
<1>4. ReportsInv'
  <2> SUFFICES ASSUME NEW d \in Domains, NEW k \in DOMAIN completions[d]
               PROVE  ReportOk(d, completions[d][k])'
    BY <1>1, Zenon DEF ReportsInv
  <2> DEFINE e == completions[d][k]
  <2>1. e.id \in Ids
    BY EntriesTyped, Zenon
  <2>2. ReportOk(d, e)
    BY DEF PartsState, ReportsInv
  <2>3. SUFFICES /\ posted'[e.id].state = "accepted"
                 /\ e.part \in DOMAIN posted'[e.id].parts
                 /\ posted'[e.id].parts[e.part].via = d
                 /\ e.part \notin active'[e.id]
                 /\ e.kind = "Transfer" => e.part \notin failed'[e.id]
    BY <1>1, Zenon DEF ReportOk
  <2> HIDE DEF e
  <2>4. e.id # t
    BY <1>1, <2>2, Zenon DEF ReportOk
  <2>5. posted'[e.id] = posted[e.id] /\ active'[e.id] = active[e.id]
    BY <1>1, <2>1, <2>4
  <2> QED BY <1>1, <2>2, <2>5, Zenon DEF ReportOk
<1>5. OrderInv'
  BY <1>1 DEF PartsState, OrderInv
<1>6. PartsInv'
  <2> SUFFICES ASSUME NEW u \in Ids
               PROVE  /\ active'[u] \subseteq DOMAIN posted'[u].parts
                      /\ failed'[u] \subseteq DOMAIN posted'[u].parts
                      /\ active'[u] \cap failed'[u] = {}
                      /\ posted'[u].state # "accepted" => posted'[u].parts = <<>>
    BY Zenon DEF PartsInv
  <2>1. CASE u = t
    BY <1>1, <1>2, <1>3, <2>1, Zenon
  <2>2. CASE u # t
    BY <1>1, <2>2, Zenon DEF PartsState, PartsInv
  <2> QED BY <2>1, <2>2, Zenon
<1> QED BY <1>4, <1>5, <1>6 DEF PartsState

\* A domain reports on a part it works on, or completes one it has failed.
LEMMA ReportKeepsParts ==
  ASSUME TypeOK, PartsState, NEW d \in Domains, NEW t \in Ids, NEW i,
         \/ PartCompletes(d, t, i) \/ PartFails(d, t, i) \/ FailedPartCompletes(d, t, i)
  PROVE  PartsState'
<1>1. /\ i \in active[t] \cup failed[t] /\ i \in Nat
      /\ posted[t].parts[i].via = d /\ posted' = posted
      /\ active \in [Ids -> SUBSET Nat] /\ failed \in [Ids -> SUBSET Nat]
  BY Zenon DEF TypeOK, PartCompletes, PartFails, FailedPartCompletes
<1>2. /\ i \in DOMAIN posted[t].parts /\ posted[t].state = "accepted"
      /\ active[t] \cap failed[t] = {}
  BY <1>1 DEF PartsState, PartsInv
<1>3. PICK kind \in {"Transfer", "Error"} :
        /\ completions' = [completions EXCEPT ![d] = Append(@, Report(t, i, kind))]
        /\ i \in failed[t] => kind = "Transfer"
  <2>1. ASSUME PartCompletes(d, t, i) \/ PartFails(d, t, i) PROVE i \notin failed[t]
    BY <1>2, <2>1, Zenon DEF PartCompletes, PartFails
  <2> QED BY <2>1, Zenon DEF PartCompletes, PartFails, FailedPartCompletes
<1>4. /\ \A u \in Ids : active'[u] \subseteq active[u] /\ failed'[u] \subseteq failed[u] \cup active[u]
      /\ \A u \in Ids : active'[u] \cap failed'[u] = {}
      /\ \A u \in Ids \ {t} : active'[u] = active[u] /\ failed'[u] = failed[u]
      /\ i \notin active'[t]
      /\ kind = "Transfer" => i \notin failed'[t]
      /\ \A j : j # i => (j \in failed'[t] => j \in failed[t])
  <2>1. CASE PartCompletes(d, t, i)
    BY <1>1, <1>2, <2>1, Zenon DEF PartCompletes, PartsState, PartsInv
  <2>2. CASE PartFails(d, t, i)
    <3>1. PICK late \in {{}, {i}} : failed' = [failed EXCEPT ![t] = @ \cup late]
      BY <2>2, Zenon DEF PartFails
    <3>2. i \in active[t] /\ active' = [active EXCEPT ![t] = @ \ {i}]
      BY <2>2, Zenon DEF PartFails
    <3>3. completions'[d][Len(completions[d]) + 1] = Report(t, i, kind)
      BY <1>3 DEF TypeOK
    <3>4. completions'[d][Len(completions[d]) + 1] = Report(t, i, "Error")
      BY <2>2 DEF TypeOK, PartFails
    <3>5. kind = "Error"
      BY <3>3, <3>4 DEF Report
    <3> QED BY <1>1, <1>2, <3>1, <3>2, <3>5, Zenon DEF PartsState, PartsInv
  <2>3. CASE FailedPartCompletes(d, t, i)
    BY <1>1, <1>2, <2>3, Zenon DEF FailedPartCompletes, PartsState, PartsInv
  <2> QED BY <2>1, <2>2, <2>3, Zenon
<1>5. /\ completions \in [Domains -> Seq(Reports)] /\ Report(t, i, kind) \in Reports
      /\ completions'[d] = Append(completions[d], Report(t, i, kind))
      /\ \A f \in Domains \ {d} : completions'[f] = completions[f]
  BY <1>1, <1>3, Zenon DEF TypeOK, Report, Reports
<1>6. ASSUME NEW f \in Domains, NEW k \in DOMAIN completions'[f]
      PROVE  \/ k \in DOMAIN completions[f] /\ completions'[f][k] = completions[f][k]
             \/ f = d /\ completions'[f][k] = Report(t, i, kind)
  <2>1. CASE f = d
    BY <1>5, <2>1
  <2>2. CASE f # d
    BY <1>5, <2>2, Zenon
  <2> QED BY <2>1, <2>2, Zenon
<1>7. ReportsInv'
  <2> SUFFICES ASSUME NEW f \in Domains, NEW k \in DOMAIN completions'[f]
               PROVE  ReportOk(f, completions[f][k])'
    BY DEF ReportsInv
  <2> DEFINE e == completions'[f][k]
  <2>1. SUFFICES /\ posted[e.id].state = "accepted"
                 /\ e.part \in DOMAIN posted[e.id].parts
                 /\ posted[e.id].parts[e.part].via = f
                 /\ e.part \notin active'[e.id]
                 /\ e.kind = "Transfer" => e.part \notin failed'[e.id]
    BY <1>1, Zenon DEF ReportOk
  <2>2. CASE f = d /\ e = Report(t, i, kind)
    <3>1. e.id = t /\ e.part = i /\ e.kind = kind
      <4>1. /\ Report(t, i, kind).id = t /\ Report(t, i, kind).part = i
            /\ Report(t, i, kind).kind = kind
        BY ReportParts
      <4> QED BY <2>2, <4>1, Zenon
    <3> HIDE DEF e
    <3> QED BY <1>1, <1>2, <1>4, <2>2, <3>1, Zenon
  <2>3. CASE k \in DOMAIN completions[f] /\ e = completions[f][k]
    <3>1. ReportOk(f, e) /\ e.id \in Ids
      BY <2>3, EntriesTyped, Zenon DEF PartsState, ReportsInv
    <3> HIDE DEF e
    <3>2. e.part \notin active'[e.id]
      BY <1>4, <3>1, Zenon DEF ReportOk
    <3>3. e.kind = "Transfer" => e.part \notin failed'[e.id]
      BY <1>4, <3>1, Zenon DEF ReportOk
    <3> QED BY <3>1, <3>2, <3>3, Zenon DEF ReportOk
  <2> QED BY <1>6, <2>2, <2>3, Zenon
<1>8. OrderInv'
  <2>1. ASSUME NEW k \in DOMAIN completions[d], completions[d][k].id = t,
               completions[d][k].part = i
        PROVE  completions[d][k].kind = "Error" /\ kind = "Transfer"
    <3>1. /\ i \notin active[t]
          /\ completions[d][k].kind = "Transfer" => i \notin failed[t]
      BY <2>1, Zenon DEF PartsState, ReportsInv, ReportOk
    <3>2. completions[d][k].kind \in {"Transfer", "Error"}
      BY EntriesTyped, Zenon
    <3> QED BY <1>1, <1>3, <3>1, <3>2, Zenon
  <2>2. ErrorFirst(completions[d])
    BY DEF PartsState, OrderInv
  <2>3. ErrorFirst(Append(completions[d], Report(t, i, kind)))
    BY <1>5, <2>1, <2>2, ReportParts, AppendOrder
  <2> QED BY <1>5, <2>3, Zenon DEF PartsState, OrderInv
<1>9. PartsInv'
  BY <1>1, <1>4, Zenon DEF PartsState, PartsInv
<1> QED BY <1>7, <1>8, <1>9 DEF PartsState

\* Reading a report changes no part.
LEMMA ScanKeepsParts ==
  ASSUME TypeOK, PartsState, NEW t \in Ids, NEW kind \in {"Transfer", "Error"},
         Scanning(t, kind), UNCHANGED <<active, failed, posted>>
  PROVE  PartsState'
<1>1. /\ completions \in [Domains -> Seq(Reports)] /\ scan \in Domains
      /\ completions[scan] # <<>>
      /\ completions' = [completions EXCEPT ![scan] = Tail(completions[scan])]
  BY DomainGroupAssumption DEF TypeOK, Scanning, Domains
<1>2. /\ \A f \in Domains \ {scan} : completions'[f] = completions[f]
      /\ \A k \in DOMAIN completions'[scan] :
            /\ k + 1 \in DOMAIN completions[scan] /\ k \in Nat \ {0}
            /\ completions'[scan][k] = completions[scan][k + 1]
  <2>1. /\ completions'[scan] = Tail(completions[scan])
        /\ \A f \in Domains \ {scan} : completions'[f] = completions[f]
    BY <1>1
  <2>2. /\ completions[scan] \in Seq(Reports) /\ completions[scan] # <<>>
    BY <1>1
  <2>3. \A k \in DOMAIN Tail(completions[scan]) :
            /\ k + 1 \in DOMAIN completions[scan] /\ k \in Nat \ {0}
            /\ Tail(completions[scan])[k] = completions[scan][k + 1]
    BY <2>2
  <2> QED BY <2>1, <2>3, Zenon
<1>3. ASSUME NEW f \in Domains, NEW k \in DOMAIN completions'[f]
      PROVE  \E n \in DOMAIN completions[f] : completions'[f][k] = completions[f][n]
  BY <1>2
<1>4. ReportsInv'
  <2> SUFFICES ASSUME NEW f \in Domains, NEW k \in DOMAIN completions'[f]
               PROVE  ReportOk(f, completions[f][k])'
    BY DEF ReportsInv
  <2>1. PICK n \in DOMAIN completions[f] : completions'[f][k] = completions[f][n]
    BY <1>3
  <2>2. ReportOk(f, completions[f][n])
    BY Zenon DEF PartsState, ReportsInv
  <2> QED BY <2>1, <2>2, Zenon DEF ReportOk
<1>5. OrderInv'
  <2> SUFFICES ASSUME NEW f \in Domains, NEW j \in DOMAIN completions'[f],
                      NEW k \in DOMAIN completions'[f], j < k,
                      completions'[f][j].id = completions'[f][k].id,
                      completions'[f][j].part = completions'[f][k].part
               PROVE  completions'[f][j].kind = "Error" /\ completions'[f][k].kind = "Transfer"
    BY Zenon DEF OrderInv, ErrorFirst
  <2>1. CASE f = scan
    <3>1. /\ j + 1 \in DOMAIN completions[f] /\ k + 1 \in DOMAIN completions[f]
          /\ j + 1 < k + 1
          /\ completions'[f][j] = completions[f][j + 1]
          /\ completions'[f][k] = completions[f][k + 1]
      BY <1>2, <2>1
    <3> QED BY <3>1 DEF PartsState, OrderInv, ErrorFirst
  <2>2. CASE f # scan
    BY <1>2, <2>2 DEF PartsState, OrderInv, ErrorFirst
  <2> QED BY <2>1, <2>2, Zenon
<1>6. PartsInv'
  BY Zenon DEF PartsState, PartsInv
<1> QED BY <1>4, <1>5, <1>6 DEF PartsState

----------------------------------------------------------------------------
(* Outcomes.                                                                *)

\* OutcomeOf of a transfer in state s that has returned r and counted c.
OutcomeIn(s, r, c) ==
    IF s = "no" THEN "idle"
    ELSE IF r = <<"Transfer">> \/ c = <<"done">> THEN "succeeded"
    ELSE IF r # <<>> \/ c # <<>> THEN "failed"
    ELSE "running"

\* What the entries returned and counted say of the outcome.
LEMMA OutcomeFailed ==
  ASSUME NEW s \in {"accepted", "refused"}, NEW r, NEW c,
         r # <<>>, \A i \in DOMAIN r : r[i] = "Error", c = <<>> \/ c = <<"error">>
  PROVE  OutcomeIn(s, r, c) = "failed"
<1>1. r # <<"Transfer">>
  <2>1. 1 \in DOMAIN <<"Transfer">> /\ <<"Transfer">>[1] # "Error"
    OBVIOUS
  <2> QED BY <2>1
<1>2. c # <<"done">>
  <2>1. <<>> # <<"done">> /\ <<"error">> # <<"done">>
    OBVIOUS
  <2> QED BY <2>1
<1> QED BY <1>1, <1>2 DEF OutcomeIn

\* A transfer's outcome stays or moves forward.
Moves(t) ==
    \/ OutcomeOf(t)' = OutcomeOf(t)
    \/ OutcomeOf(t) = "idle" /\ OutcomeOf(t)' \in {"running", "failed"}
    \/ OutcomeOf(t) = "running" /\ OutcomeOf(t)' \in {"succeeded", "failed"}

\* What a transfer's user knows is read off its state and what was returned or counted.
LEMMA OutcomeOfIs ==
  ASSUME NEW t
  PROVE  /\ OutcomeOf(t) = OutcomeIn(posted[t].state, returned[t], counted[t])
         /\ OutcomeOf(t)' = OutcomeIn(posted'[t].state, returned'[t], counted'[t])
BY Zenon DEF OutcomeOf, OutcomeIn, Succeeded

\* A step that has nothing to do with transfer u.
Same(u) ==
    /\ posted'[u] = posted[u] /\ active'[u] = active[u] /\ failed'[u] = failed[u]
    /\ write_ops'[u] = write_ops[u]
    /\ returned'[u] = returned[u] /\ counted'[u] = counted[u]
    /\ \A j : QueuedOn(completions', u, j) <=> QueuedOn(completions, u, j)
    /\ \A j : Queued(completions', Report(u, j, "Error")) <=>
              Queued(completions, Report(u, j, "Error"))

\* What is known of a transfer stands when a step does not touch it.
LEMMA TransferKept ==
  ASSUME NEW u, TransferInv(u), Same(u)
  PROVE  TransferInv(u)' /\ Moves(u)
<1>1. Settled(u)' = Settled(u)
  BY Zenon DEF Settled, Same
<1>2. ASSUME Counts(u) PROVE Counts(u)'
  BY <1>1, <1>2, Zenon DEF Counts, Same
<1>3. ASSUME Success(u) PROVE Success(u)'
  BY <1>3, Zenon DEF Success, Same
<1>4. ASSUME Failure(u) PROVE Failure(u)'
  BY <1>4, Zenon DEF Failure, Same
<1>5. TransferInv(u)'
  <2>1. posted'[u] = posted[u] /\ write_ops'[u] = write_ops[u]
        /\ returned'[u] = returned[u] /\ counted'[u] = counted[u]
    BY Zenon DEF Same
  <2> QED BY <1>2, <1>3, <1>4, <2>1, Zenon DEF TransferInv
<1>6. OutcomeOf(u)' = OutcomeOf(u)
  BY OutcomeOfIs, Zenon DEF Same
<1> QED BY <1>5, <1>6 DEF Moves

\* Counting some of the parts.
LEMMA PartsCounted ==
  ASSUME NEW n \in Nat, NEW S \in SUBSET (1..n)
  PROVE  /\ Cardinality(S) \in 0..n
         /\ Cardinality(S) = n => S = 1..n
         /\ \A x : x \notin S => Cardinality(S \cup {x}) = Cardinality(S) + 1
<1>1. IsFiniteSet(1..n) /\ Cardinality(1..n) = n
  BY FS_Interval
<1>2. /\ IsFiniteSet(S) /\ Cardinality(S) <= n
      /\ Cardinality(S) = n => S = 1..n
  BY <1>1, FS_Subset, Zenon
<1>3. Cardinality(S) \in Nat
  BY <1>2, FS_CardinalityType
<1>4. \A x : x \notin S => Cardinality(S \cup {x}) = Cardinality(S) + 1
  BY <1>2, FS_AddElement, Zenon
<1> QED BY <1>2, <1>3, <1>4

\* An accepted request starts counting from no part, all of them active.
LEMMA SubmitOutcome ==
  ASSUME Inv, NEW t \in Ids, NEW req \in Requests[t], NEW atomic \in BOOLEAN,
         Submit(t, req, atomic)
  PROVE  TransferInv(t)' /\ Moves(t)
<1> DEFINE parts == PartsOf(req)
<1>1. parts \in Seq(PartRecords)
  BY PartsTyped, Zenon DEF Inv, TypeOK, Submit, Refused
<1>2. Len(parts) \in Nat /\ (parts # <<>> => 0 < Len(parts))
  BY <1>1
<1>3. /\ posted[t].state = "no"
      /\ write_ops'[t] = [tracked |-> TRUE, num_used |-> Len(parts), cnt |-> 0, atomic |-> atomic]
      /\ active'[t] = DOMAIN parts /\ failed' = failed
      /\ posted'[t] = [state |-> "accepted", atomic |-> atomic, parts |-> parts]
      /\ returned' = returned /\ counted' = counted
  BY Zenon DEF Inv, TypeOK, Submit, Track
<1> HIDE DEF parts
<1>4. returned[t] = <<>> /\ counted[t] = <<>> /\ failed[t] = {}
  BY <1>3 DEF Inv, TransferInv, PartsInv
<1>5. Settled(t)' = {}
  BY <1>3 DEF Settled
<1>6. Cardinality(Settled(t)') = 0
  BY <1>5, FS_EmptySet, Zenon
<1>7. Counts(t)'
  <2>1. /\ write_ops'[t].num_used = Len(parts) /\ write_ops'[t].cnt = 0
        /\ write_ops'[t].atomic = atomic
        /\ posted'[t].atomic = atomic /\ posted'[t].parts = parts
    BY <1>3
  <2> QED BY <1>2, <1>3, <1>4, <1>6, <2>1, Zenon DEF Counts
<1>8. TransferInv(t)' /\ posted'[t].state = "accepted"
  <2>1. write_ops'[t].tracked /\ posted'[t].state = "accepted"
    BY <1>3
  <2> QED BY <1>7, <2>1, Zenon DEF TransferInv
<1>9. OutcomeOf(t) = "idle" /\ OutcomeOf(t)' = "running"
  <2>1. /\ OutcomeOf(t) = OutcomeIn("no", <<>>, <<>>)
        /\ OutcomeOf(t)' = OutcomeIn("accepted", <<>>, <<>>)
    BY <1>3, <1>4, <1>8, OutcomeOfIs, Zenon
  <2> QED BY <2>1, Zenon DEF OutcomeIn
<1> QED BY <1>8, <1>9, Zenon DEF Moves

\* A refused request has failed, and nothing was posted for it.
LEMMA RefusedOutcome ==
  ASSUME Inv, NEW t \in Ids, NEW req, NEW atomic \in BOOLEAN,
         SubmitRefused(t, req, atomic)
  PROVE  TransferInv(t)' /\ Moves(t)
<1>1. /\ posted[t].state = "no" /\ posted'[t].state = "refused"
      /\ returned'[t] = Append(returned[t], "Error") /\ counted' = counted
  BY DEF Inv, TypeOK, SubmitRefused
<1>2. returned[t] = <<>> /\ counted[t] = <<>>
  BY <1>1, Zenon DEF Inv, TransferInv
<1>3. returned'[t] = <<"Error">>
  BY <1>1, <1>2
<1>4. TransferInv(t)'
  BY <1>1, <1>2, <1>3, Zenon DEF TransferInv
<1>5. OutcomeOf(t) = "idle" /\ OutcomeOf(t)' = "failed"
  <2>1. /\ OutcomeOf(t) = OutcomeIn("no", <<>>, <<>>)
        /\ OutcomeOf(t)' = OutcomeIn("refused", <<"Error">>, <<>>)
    BY <1>1, <1>2, <1>3, OutcomeOfIs, Zenon
  <2>2. OutcomeIn("refused", <<"Error">>, <<>>) = "failed"
    <3>1. <<"Error">> # <<>> /\ \A i \in DOMAIN <<"Error">> : <<"Error">>[i] = "Error"
      OBVIOUS
    <3> QED BY <3>1, OutcomeFailed, Zenon
  <2> QED BY <2>1, <2>2, Zenon DEF OutcomeIn
<1> QED BY <1>4, <1>5, Zenon DEF Moves

\* A report settles nothing until it is read.
LEMMA ReportOutcome ==
  ASSUME Inv, NEW d \in Domains, NEW t \in Ids, NEW i,
         \/ PartCompletes(d, t, i) \/ PartFails(d, t, i) \/ FailedPartCompletes(d, t, i)
  PROVE  TransferInv(t)' /\ Moves(t)
<1>1. /\ UNCHANGED <<write_ops, posted, returned, counted>>
      /\ i \in active[t] \cup failed[t] /\ i \in Nat
      /\ active \in [Ids -> SUBSET Nat] /\ failed \in [Ids -> SUBSET Nat]
  BY Zenon DEF Inv, TypeOK, PartCompletes, PartFails, FailedPartCompletes
<1>2. PICK kind \in {"Transfer", "Error"} :
        completions' = [completions EXCEPT ![d] = Append(@, Report(t, i, kind))]
  BY Zenon DEF PartCompletes, PartFails, FailedPartCompletes
<1>3. /\ Queued(completions', Report(t, i, kind))
      /\ \A j : QueuedOn(completions', t, j) <=> QueuedOn(completions, t, j) \/ j = i
      /\ \A x : Queued(completions, x) => Queued(completions', x)
  BY <1>1, <1>2, AppendReport, Zenon DEF Inv
<1>4. /\ posted[t].state = "accepted" /\ i \in DOMAIN posted[t].parts
  BY <1>1 DEF Inv, PartsInv
<1>5. /\ \A j : j # i => (j \in active'[t] <=> j \in active[t])
      /\ \A j \in failed'[t] : j \in failed[t] \/ (j = i /\ Queued(completions', Report(t, i, "Error")))
  <2>1. CASE PartCompletes(d, t, i) \/ FailedPartCompletes(d, t, i)
    BY <1>1, <2>1, Zenon DEF PartCompletes, FailedPartCompletes
  <2>2. CASE PartFails(d, t, i)
    <3>1. completions' = [completions EXCEPT ![d] = Append(@, Report(t, i, "Error"))]
      BY <2>2, Zenon DEF PartFails
    <3>2. Queued(completions', Report(t, i, "Error"))
      BY <1>1, <3>1, AppendReport, Zenon DEF Inv
    <3>3. PICK late \in {{}, {i}} : failed' = [failed EXCEPT ![t] = @ \cup late]
      BY <2>2, Zenon DEF PartFails
    <3>4. active' = [active EXCEPT ![t] = @ \ {i}]
      BY <2>2, Zenon DEF PartFails
    <3> QED BY <1>1, <3>2, <3>3, <3>4, Zenon
  <2> QED BY <2>1, <2>2, Zenon
<1>6. CASE write_ops[t].tracked
  <2>1. Counts(t)
    BY <1>4, <1>6, Zenon DEF Inv, TransferInv
  <2>2. i \in active[t] \/ QueuedOn(completions, t, i)
    BY <1>1, <2>1, Zenon DEF Counts, QueuedOn
  <2>3. Settled(t)' = Settled(t)
    BY <1>1, <1>3, <1>5, <2>2, Zenon DEF Settled
  <2>4. \A j \in failed'[t] : Queued(completions', Report(t, j, "Error"))
    BY <1>3, <1>5, <2>1, Zenon DEF Counts
  <2>5. Counts(t)'
    BY <1>1, <2>1, <2>3, <2>4, Zenon DEF Counts
  <2> QED BY <1>1, <1>4, <1>6, <2>5, OutcomeOfIs, Zenon DEF TransferInv, Moves
<1>7. CASE ~write_ops[t].tracked
  <2>1. Failure(t)
    <3>1. ~Success(t)
      BY <1>1, Zenon DEF Success
    <3> QED BY <1>4, <1>7, <3>1, Zenon DEF Inv, TransferInv
  <2>2. Failure(t)'
    BY <1>1, <2>1, Zenon DEF Failure
  <2> QED BY <1>1, <1>4, <1>7, <2>2, OutcomeOfIs, Zenon DEF TransferInv, Moves
<1> QED BY <1>6, <1>7

\* Reading an error ends the tracking: the transfer fails, or has failed.
LEMMA ScanErrorOutcome ==
  ASSUME Inv, NEW t \in Ids, ScanError(t)
  PROVE  TransferInv(t)' /\ Moves(t)
<1>1. /\ posted' = posted
      /\ write_ops'[t] = None /\ ~write_ops'[t].tracked
      /\ returned'[t] = Append(returned[t], "Error")
      /\ returned[t] \in Seq({"Transfer", "Error"}) /\ counted[t] \in Seq({"done", "error"})
      /\ counted'[t] = IF write_ops[t].tracked /\ write_ops[t].atomic
                       THEN Append(counted[t], "error") ELSE counted[t]
  BY Zenon DEF Inv, TypeOK, ScanError, Untrack, None
<1>2. \E h : /\ posted[t].state = "accepted" /\ h \in DOMAIN posted[t].parts
             /\ QueuedOn(completions, t, h)
  BY ReadHead, Zenon DEF Inv, ScanError
<1>3. Failure(t)'
  <2>1. CASE write_ops[t].tracked
    <3>1. returned[t] = <<>> /\ counted[t] = <<>> /\ write_ops[t].atomic = posted[t].atomic
      BY <1>2, <2>1, Zenon DEF Inv, TransferInv, Counts
    <3>2. returned'[t] = <<"Error">>
      BY <1>1, <3>1
    <3>3. counted'[t] = IF posted[t].atomic THEN <<"error">> ELSE <<>>
      BY <1>1, <2>1, <3>1
    <3> QED BY <1>1, <3>2, <3>3 DEF Failure
  <2>2. CASE ~write_ops[t].tracked
    <3>1. ~Success(t)
      BY <1>2, Zenon DEF Success
    <3>2. Failure(t)
      BY <1>2, <2>2, <3>1, Zenon DEF Inv, TransferInv
    <3>3. /\ returned'[t] # <<>>
          /\ \A j \in DOMAIN returned'[t] : returned'[t][j] = "Error"
      BY <1>1, <3>2 DEF Failure
    <3> QED BY <1>1, <2>2, <3>2, <3>3, Zenon DEF Failure
  <2> QED BY <2>1, <2>2
<1>4. TransferInv(t)'
  BY <1>1, <1>2, <1>3, Zenon DEF TransferInv
<1>5. OutcomeOf(t)' = "failed"
  <2>1. counted'[t] = <<>> \/ counted'[t] = <<"error">>
    BY <1>3, Zenon DEF Failure
  <2>2. returned'[t] # <<>> /\ \A j \in DOMAIN returned'[t] : returned'[t][j] = "Error"
    BY <1>3, Zenon DEF Failure
  <2>3. OutcomeIn("accepted", returned'[t], counted'[t]) = "failed"
    BY <2>1, <2>2, OutcomeFailed, Zenon
  <2> QED BY <1>1, <1>2, <2>3, OutcomeOfIs, Zenon
<1>6. OutcomeOf(t) \in {"running", "failed"}
  <2>1. CASE write_ops[t].tracked
    <3>1. returned[t] = <<>> /\ counted[t] = <<>>
      BY <1>2, <2>1, Zenon DEF Inv, TransferInv, Counts
    <3> QED BY <1>2, <3>1, OutcomeOfIs DEF OutcomeIn
  <2>2. CASE ~write_ops[t].tracked
    <3>1. ~Success(t)
      BY <1>2 DEF Success
    <3>2. Failure(t)
      BY <1>2, <2>2, <3>1 DEF Inv, TransferInv
    <3>3. counted[t] = <<>> \/ counted[t] = <<"error">>
      BY <3>2, Zenon DEF Failure
    <3>4. OutcomeIn("accepted", returned[t], counted[t]) = "failed"
      BY <3>2, <3>3, OutcomeFailed, Zenon DEF Failure
    <3> QED BY <1>2, <3>4, OutcomeOfIs, Zenon
  <2> QED BY <2>1, <2>2, Zenon
<1> QED BY <1>4, <1>5, <1>6 DEF Moves

\* A transfer that is no longer tracked ignores a report.
LEMMA ScanStrayOutcome ==
  ASSUME Inv, NEW t \in Ids, ScanStray(t)
  PROVE  TransferInv(t)' /\ Moves(t)
<1>1. /\ UNCHANGED <<write_ops, active, failed, posted, returned, counted>>
      /\ ~write_ops[t].tracked
  BY Zenon DEF ScanStray
<1>2. \E h : /\ posted[t].state = "accepted" /\ h \in DOMAIN posted[t].parts
             /\ QueuedOn(completions, t, h)
  BY ReadHead, Zenon DEF Inv, ScanStray
<1>3. ~Success(t)
  BY <1>2 DEF Success
<1>4. Failure(t)
  BY <1>1, <1>2, <1>3, Zenon DEF Inv, TransferInv
<1>5. Failure(t)'
  BY <1>1, <1>4, Zenon DEF Failure
<1> QED BY <1>1, <1>2, <1>5, OutcomeOfIs, Zenon DEF TransferInv, Moves

\* Reading a Transfer settles one more part: the one it reports on.
LEMMA ReadSettles ==
  ASSUME Inv, NEW t \in Ids, Scanning(t, "Transfer"), write_ops[t].tracked,
         UNCHANGED <<active, failed, posted>>
  PROVE  /\ posted[t].state = "accepted" /\ posted[t].parts # <<>> /\ Counts(t)
         /\ Len(posted[t].parts) \in Nat /\ DOMAIN posted[t].parts = 1..Len(posted[t].parts)
         /\ Settled(t)' \in SUBSET DOMAIN posted[t].parts
         /\ Cardinality(Settled(t)') = write_ops[t].cnt + 1
         /\ \A i \in failed[t] : Queued(completions', Report(t, i, "Error"))
<1> DEFINE h == Head(completions[scan]).part
<1>1. /\ posted[t].state = "accepted"
      /\ h \in DOMAIN posted[t].parts /\ h \notin active[t] /\ h \notin failed[t]
      /\ QueuedOn(completions, t, h) /\ ~QueuedOn(completions', t, h)
      /\ \A j : j # h =>
            /\ QueuedOn(completions', t, j) <=> QueuedOn(completions, t, j)
            /\ Queued(completions', Report(t, j, "Error")) <=>
                  Queued(completions, Report(t, j, "Error"))
  BY ReadHead, Zenon DEF Inv
<1> HIDE DEF h
<1>2. Counts(t)
  BY <1>1, Zenon DEF Inv, TransferInv
<1>3. Len(posted[t].parts) \in Nat /\ DOMAIN posted[t].parts = 1..Len(posted[t].parts)
  BY DEF Inv, TypeOK
<1>4. posted[t].parts # <<>>
  BY <1>1
<1>5. Settled(t)' = Settled(t) \cup {h} /\ h \notin Settled(t)
  BY <1>1, Zenon DEF Settled
<1>6. Settled(t) \in SUBSET DOMAIN posted[t].parts
  BY Zenon DEF Settled
<1>7. Cardinality(Settled(t)') = Cardinality(Settled(t)) + 1
  BY <1>3, <1>5, <1>6, PartsCounted, Zenon
<1>8. \A i \in failed[t] : Queued(completions', Report(t, i, "Error"))
  BY <1>1, <1>2, Zenon DEF Counts
<1> QED BY <1>1, <1>2, <1>3, <1>4, <1>5, <1>6, <1>7, <1>8, Zenon DEF Counts

\* One part of several: the count goes up and another part is awaited.
LEMMA ScanPartOutcome ==
  ASSUME Inv, NEW t \in Ids, ScanPart(t)
  PROVE  TransferInv(t)' /\ Moves(t)
<1>1. /\ Scanning(t, "Transfer") /\ write_ops[t].tracked
      /\ UNCHANGED <<active, failed, posted, returned, counted>>
      /\ write_ops[t].cnt + 1 # write_ops[t].num_used
      /\ write_ops[t].cnt \in Nat /\ write_ops[t].num_used \in Nat
      /\ write_ops'[t].cnt = write_ops[t].cnt + 1
      /\ write_ops'[t].tracked /\ write_ops'[t].num_used = write_ops[t].num_used
      /\ write_ops'[t].atomic = write_ops[t].atomic
  BY DEF Inv, TypeOK, ScanPart
<1>2. /\ posted[t].state = "accepted" /\ posted[t].parts # <<>> /\ Counts(t)
      /\ Cardinality(Settled(t)') = write_ops[t].cnt + 1
      /\ \A i \in failed[t] : Queued(completions', Report(t, i, "Error"))
  BY <1>1, ReadSettles, Zenon
<1>3. Counts(t)'
  <2>1. write_ops'[t].cnt < write_ops'[t].num_used
    BY <1>1, <1>2 DEF Counts
  <2> QED BY <1>1, <1>2, <2>1, Zenon DEF Counts
<1> QED BY <1>1, <1>2, <1>3, OutcomeOfIs, Zenon DEF TransferInv, Moves

\* The last part: every part is settled, so the transfer has succeeded.
LEMMA ScanLastOutcome ==
  ASSUME Inv, NEW t \in Ids, ScanLastCounted(t) \/ ScanLastReturned(t)
  PROVE  TransferInv(t)' /\ Moves(t)
<1>1. /\ Scanning(t, "Transfer") /\ write_ops[t].tracked
      /\ UNCHANGED <<active, failed, posted>>
      /\ write_ops[t].cnt + 1 = write_ops[t].num_used
      /\ ~write_ops'[t].tracked
  BY DEF Inv, TypeOK, ScanLastCounted, ScanLastReturned, IsLast, Untrack, None
<1>2. /\ posted[t].state = "accepted" /\ Counts(t)
      /\ Len(posted[t].parts) \in Nat /\ DOMAIN posted[t].parts = 1..Len(posted[t].parts)
      /\ Settled(t)' \in SUBSET DOMAIN posted[t].parts
      /\ Cardinality(Settled(t)') = write_ops[t].cnt + 1
      /\ \A i \in failed[t] : Queued(completions', Report(t, i, "Error"))
  BY <1>1, ReadSettles, Zenon
<1>3. Cardinality(Settled(t)') = Len(posted[t].parts)
  BY <1>1, <1>2, Zenon DEF Counts
<1>4. Settled(t)' = DOMAIN posted[t].parts
  BY <1>2, <1>3, PartsCounted, Zenon
<1>5. \A i \in DOMAIN posted[t].parts : i \notin active[t] /\ ~QueuedOn(completions', t, i)
  BY <1>1, <1>4, Zenon DEF Settled
<1>6. active[t] = {} /\ failed[t] = {}
  <2>1. /\ active[t] \subseteq DOMAIN posted[t].parts
        /\ failed[t] \subseteq DOMAIN posted[t].parts
    BY Zenon DEF Inv, PartsInv
  <2>2. \A i \in failed[t] : QueuedOn(completions', t, i)
    BY <1>2, Zenon DEF QueuedOn
  <2> QED BY <1>5, <2>1, <2>2, Zenon
<1>7. returned[t] = <<>> /\ counted[t] = <<>> /\ write_ops[t].atomic = posted[t].atomic
  BY <1>2, Zenon DEF Counts
<1>8. \/ posted[t].atomic /\ counted'[t] = <<"done">> /\ returned'[t] = <<>>
      \/ ~posted[t].atomic /\ counted'[t] = <<>> /\ returned'[t] = <<"Transfer">>
  <2>1. CASE ScanLastCounted(t)
    BY <1>7, <2>1 DEF Inv, TypeOK, ScanLastCounted
  <2>2. CASE ScanLastReturned(t)
    BY <1>7, <2>2 DEF Inv, TypeOK, ScanLastReturned
  <2> QED BY <2>1, <2>2, Zenon
<1>9. Success(t)'
  BY <1>1, <1>5, <1>6, <1>8, Zenon DEF Success
<1>10. OutcomeOf(t)' = "succeeded"
  <2>1. OutcomeIn("accepted", returned'[t], counted'[t]) = "succeeded"
    BY <1>8, Zenon DEF OutcomeIn
  <2> QED BY <1>1, <1>2, <2>1, OutcomeOfIs, Zenon
<1>11. OutcomeOf(t) = "running"
  <2>1. OutcomeIn("accepted", <<>>, <<>>) = "running"
    BY DEF OutcomeIn
  <2>2. OutcomeOf(t) = OutcomeIn(posted[t].state, returned[t], counted[t])
    BY OutcomeOfIs, Zenon
  <2> QED BY <1>2, <1>7, <2>1, <2>2, Zenon
<1> QED BY <1>1, <1>2, <1>9, <1>10, <1>11, Zenon DEF TransferInv, Moves

----------------------------------------------------------------------------
(* The theorems.                                                            *)

\* What a step does: at most one transfer's outcome moves.
StepFor(t) ==
    /\ PartsState'
    /\ TransferInv(t)' /\ Moves(t)
    /\ \A u \in Ids \ {t} : Same(u)

\* Every step of the group is one of these, by the lemmas above.
LEMMA StepCases ==
  ASSUME Inv, [Next]_vars
  PROVE  (\E t \in Ids : StepFor(t)) \/ (PartsState' /\ \A u \in Ids : Same(u))
<1>1. TypeOK /\ PartsState
  BY DEF Inv, PartsState
<1>2. ASSUME NEW t \in Ids, NEW atomic \in BOOLEAN, NEW req \in Requests[t],
             Submit(t, req, atomic) \/ SubmitRefused(t, req, atomic)
      PROVE  StepFor(t)
  <2>1. PartsState'
    BY <1>1, <1>2, SubmitParts, Zenon
  <2>2. TransferInv(t)' /\ Moves(t)
    BY <1>2, SubmitOutcome, RefusedOutcome, Zenon
  <2>3. ASSUME NEW u \in Ids \ {t} PROVE Same(u)
    <3>1. /\ completions' = completions /\ failed' = failed /\ counted' = counted
          /\ posted'[u] = posted[u] /\ active'[u] = active[u]
          /\ write_ops'[u] = write_ops[u] /\ returned'[u] = returned[u]
      BY <1>1, <1>2, Zenon DEF TypeOK, Submit, SubmitRefused, Track
    <3> QED BY <3>1, Zenon DEF Same
  <2> QED BY <2>1, <2>2, <2>3, Zenon DEF StepFor
<1>3. ASSUME NEW d \in Domains, NEW t \in Ids, NEW i,
             \/ PartCompletes(d, t, i) \/ PartFails(d, t, i) \/ FailedPartCompletes(d, t, i)
      PROVE  StepFor(t)
  <2>1. PartsState'
    BY <1>1, <1>3, ReportKeepsParts, Zenon
  <2>2. TransferInv(t)' /\ Moves(t)
    BY <1>3, ReportOutcome, Zenon
  <2>3. ASSUME NEW u \in Ids \ {t} PROVE Same(u)
    <3>1. /\ UNCHANGED <<posted, write_ops, returned, counted>>
          /\ active'[u] = active[u] /\ failed'[u] = failed[u] /\ i \in Nat
      BY <1>1, <1>3, Zenon DEF TypeOK, PartCompletes, PartFails, FailedPartCompletes
    <3>2. PICK kind \in {"Transfer", "Error"} :
            completions' = [completions EXCEPT ![d] = Append(@, Report(t, i, kind))]
      BY <1>3, Zenon DEF PartCompletes, PartFails, FailedPartCompletes
    <3>3. /\ \A j : QueuedOn(completions', u, j) <=> QueuedOn(completions, u, j)
          /\ \A j : Queued(completions', Report(u, j, "Error")) <=>
                    Queued(completions, Report(u, j, "Error"))
      BY <1>1, <3>1, <3>2, AppendReport, ZenonT(40)
    <3> QED BY <3>1, <3>3, Zenon DEF Same
  <2> QED BY <2>1, <2>2, <2>3 DEF StepFor
<1>4. ASSUME NEW t \in Ids,
             \/ ScanError(t) \/ ScanStray(t) \/ ScanPart(t)
             \/ ScanLastCounted(t) \/ ScanLastReturned(t)
      PROVE  StepFor(t)
  <2>1. PICK kind \in {"Transfer", "Error"} : Scanning(t, kind)
    BY <1>4, Zenon DEF ScanError, ScanStray, ScanPart, ScanLastCounted, ScanLastReturned
  <2>2. UNCHANGED <<active, failed, posted>>
    BY <1>4, Zenon DEF ScanError, ScanStray, ScanPart, ScanLastCounted, ScanLastReturned
  <2>3. PartsState'
    BY <1>1, <2>1, <2>2, ScanKeepsParts, Zenon
  <2>4. TransferInv(t)' /\ Moves(t)
    BY <1>4, ScanErrorOutcome, ScanStrayOutcome, ScanPartOutcome, ScanLastOutcome, Zenon
  <2>5. ASSUME NEW u \in Ids \ {t} PROVE Same(u)
    <3>1. write_ops'[u] = write_ops[u]
      BY <1>1, <1>4, Zenon DEF TypeOK, ScanError, ScanStray, ScanPart, ScanLastCounted,
                        ScanLastReturned, Untrack
    <3>2. returned'[u] = returned[u] /\ counted'[u] = counted[u]
      BY <1>1, <1>4, Zenon DEF TypeOK, ScanError, ScanStray, ScanPart, ScanLastCounted,
                        ScanLastReturned
    <3>3. /\ \A j : QueuedOn(completions', u, j) <=> QueuedOn(completions, u, j)
          /\ \A j : Queued(completions', Report(u, j, "Error")) <=>
                    Queued(completions, Report(u, j, "Error"))
      BY <1>1, <2>1, ReadHead, Zenon DEF PartsState
    <3> QED BY <2>2, <3>1, <3>2, <3>3, Zenon DEF Same
  <2> QED BY <2>3, <2>4, <2>5 DEF StepFor
<1>5. ASSUME UNCHANGED <<write_ops, active, failed, completions, posted, returned, counted>>
      PROVE  PartsState' /\ \A u \in Ids : Same(u)
  <2>1. PartsState'
    <3>1. ReportsInv'
      <4>1. ASSUME NEW d \in Domains, NEW k \in DOMAIN completions[d]
            PROVE  ReportOk(d, completions[d][k])'
        <5>1. ReportOk(d, completions[d][k])
          BY <1>1, Zenon DEF PartsState, ReportsInv
        <5> QED BY <1>5, <5>1, Zenon DEF ReportOk
      <4> QED BY <1>5, <4>1, Zenon DEF ReportsInv
    <3>2. OrderInv' /\ PartsInv'
      BY <1>1, <1>5, Zenon DEF PartsState, OrderInv, PartsInv
    <3> QED BY <3>1, <3>2 DEF PartsState
  <2> QED BY <1>5, <2>1, Zenon DEF Same
<1>6. CASE NoCommand \/ PollDone \/ ScanEmpty \/ ScanEnd \/ UNCHANGED vars
  BY <1>5, <1>6, Zenon DEF NoCommand, PollDone, ScanEmpty, ScanEnd, vars
<1> QED
  BY <1>2, <1>3, <1>4, <1>6, Zenon DEF Next, Worker, PartReports, LateReport

\* The invariant holds in the new group.
LEMMA InvInit ==
  ASSUME Init PROVE Inv
<1>1. 0 \in Domains /\ 0 \in 0..N
  BY DomainGroupAssumption DEF Domains
<1>2. TypeOK
  BY <1>1 DEF Init, TypeOK, None
<1>3. ReportsInv /\ OrderInv
  BY DEF Init, ReportsInv, OrderInv, ErrorFirst
<1>4. PartsInv
  BY Zenon DEF Init, PartsInv
<1>5. \A t \in Ids : TransferInv(t)
  BY Zenon DEF Init, TransferInv, None
<1> QED BY <1>2, <1>3, <1>4, <1>5 DEF Inv

\* Every step of the group keeps the invariant.
LEMMA InvStep ==
  ASSUME Inv, [Next]_vars PROVE Inv'
<1>1. TypeOK'
  BY TypeStep DEF Inv
<1>2. ASSUME NEW t \in Ids, StepFor(t) PROVE PartsState' /\ \A u \in Ids : TransferInv(u)'
  <2>1. ASSUME NEW u \in Ids PROVE TransferInv(u)'
    <3>1. CASE u = t
      BY <1>2, <3>1, Zenon DEF StepFor
    <3>2. CASE u # t
      BY <1>2, <3>2, TransferKept DEF StepFor, Inv
    <3> QED BY <3>1, <3>2
  <2> QED BY <1>2, <2>1, Zenon DEF StepFor
<1>3. ASSUME PartsState', \A u \in Ids : Same(u)
      PROVE  PartsState' /\ \A u \in Ids : TransferInv(u)'
  BY <1>3, TransferKept DEF Inv
<1>4. PartsState' /\ \A u \in Ids : TransferInv(u)'
  BY <1>2, <1>3, StepCases, Zenon
<1> QED BY <1>1, <1>4 DEF Inv, PartsState

\* The bookkeeping, the queues and the parts agree in every reachable state.
THEOREM InvHolds == Spec => []Inv
<1>1. Init => Inv
  BY InvInit
<1>2. Inv /\ [Next]_vars => Inv'
  BY InvStep
<1> QED BY <1>1, <1>2, PTL DEF Spec

\* get_completion tells each transfer's outcome once, and a success only when
\* every part has completed, for any number of domains and any requests.
THEOREM OutcomeSoundHolds == Spec => []OutcomeSound
<1>1. ASSUME Inv PROVE OutcomeSound
  <2>1. ASSUME NEW t \in Ids
        PROVE  /\ Len(counted[t]) <= 1
               /\ \A i \in 1..Len(returned[t]) : returned[t][i] = "Transfer" =>
                     Len(returned[t]) = 1 /\ ~posted[t].atomic
    <3>1. TransferInv(t) /\ returned[t] \in Seq({"Transfer", "Error"})
      BY <1>1, Zenon DEF Inv, TypeOK
    <3>2. CASE returned[t] = <<>> /\ counted[t] = <<>>
      BY <3>2
    <3>3. CASE returned[t] = <<"Error">> /\ counted[t] = <<>>
      BY <3>3
    <3>4. CASE Success(t)
      <4>1. CASE counted[t] = <<"done">> /\ returned[t] = <<>>
        BY <4>1
      <4>2. CASE counted[t] = <<>> /\ returned[t] = <<"Transfer">> /\ ~posted[t].atomic
        BY <4>2
      <4> QED BY <3>4, <4>1, <4>2, Zenon DEF Success
    <3>5. CASE Failure(t)
      BY <3>1, <3>5 DEF Failure
    <3> QED BY <3>1, <3>2, <3>3, <3>4, <3>5, Zenon DEF TransferInv, Counts
  <2>2. ASSUME NEW t \in Ids, Succeeded(t)
        PROVE  /\ active[t] = {} /\ failed[t] = {}
               /\ \A i \in DOMAIN posted[t].parts : ~Unread(t, i)
    <3>1. returned[t] = <<"Transfer">> \/ counted[t] = <<"done">>
      BY <2>2 DEF Succeeded
    <3>2. ~Failure(t)
      <4>1. <<"error">> # <<"done">> /\ <<>> # <<"done">>
        OBVIOUS
      <4>2. returned[t] = <<"Transfer">> => 1 \in DOMAIN returned[t] /\ returned[t][1] # "Error"
        OBVIOUS
      <4> QED BY <3>1, <4>1, <4>2, Zenon DEF Failure
    <3>3. ~(returned[t] = <<>> /\ counted[t] = <<>>)
      <4>1. <<>> # <<"Transfer">> /\ <<>> # <<"done">>
        OBVIOUS
      <4> QED BY <3>1, <4>1, Zenon
    <3>4. ~(returned[t] = <<"Error">> /\ counted[t] = <<>>)
      <4>1. <<"Error">> # <<"Transfer">> /\ <<>> # <<"done">>
        OBVIOUS
      <4> QED BY <3>1, <4>1, Zenon
    <3>5. Success(t)
      BY <1>1, <3>2, <3>3, <3>4, Zenon DEF Inv, TransferInv, Counts
    <3> QED BY <3>5, Zenon DEF Success, Unread, QueuedOn, Queued
  <2>3. TypeOK
    BY <1>1 DEF Inv
  <2> QED BY <2>1, <2>2, <2>3, Zenon DEF OutcomeSound, OneOutcome, SuccessMeansAllParts
<1> QED BY <1>1, InvHolds, PTL

\* A tracked transfer has a part that a domain works on or has reported, so the
\* bookkeeping of get_completion always has something to wait for.
THEOREM TrackedIsPendingHolds == Spec => []TrackedIsPending
<1>1. ASSUME Inv PROVE TrackedIsPending
  <2> SUFFICES ASSUME NEW t \in Ids, write_ops[t].tracked, posted[t].state = "accepted",
                      posted[t].parts # <<>>
               PROVE  \E i \in DOMAIN posted[t].parts : i \in active[t] \/ Unread(t, i)
    BY Zenon DEF TrackedIsPending
  <2>1. Counts(t)
    BY <1>1, Zenon DEF Inv, TransferInv
  <2>2. Len(posted[t].parts) \in Nat /\ DOMAIN posted[t].parts = 1..Len(posted[t].parts)
    BY <1>1 DEF Inv, TypeOK
  <2>3. Cardinality(Settled(t)) # Len(posted[t].parts)
    <3>1. Cardinality(Settled(t)) < Len(posted[t].parts)
      BY <2>1, Zenon DEF Counts
    <3> QED BY <2>2, <3>1
  <2>4. Settled(t) # DOMAIN posted[t].parts
    <3>1. Cardinality(1..Len(posted[t].parts)) = Len(posted[t].parts)
      BY <2>2, FS_Interval
    <3> QED BY <2>2, <2>3, <3>1, Zenon
  <2>5. PICK i \in DOMAIN posted[t].parts : i \notin Settled(t)
    BY <2>4, Zenon DEF Settled
  <2>6. i \in active[t] \/ QueuedOn(completions, t, i)
    BY <2>5, Zenon DEF Settled
  <2> QED BY <2>6, Zenon DEF Unread, QueuedOn, Queued
<1> QED BY <1>1, InvHolds, PTL

\* The group implements TransferOutcome, as far as safety goes: an outcome moves
\* from running to success or failure and never changes again.
THEOREM OutcomeRefined == Spec => Abstract!Safety
<1> DEFINE outcome == [t \in Ids |-> OutcomeOf(t)]
<1>1. Init => Abstract!Init
  <2> SUFFICES ASSUME Init PROVE outcome = [t \in Ids |-> "idle"]
    BY DEF Abstract!Init
  <2>1. ASSUME NEW t \in Ids PROVE OutcomeOf(t) = "idle"
    BY <2>1, Zenon DEF Init, OutcomeOf
  <2> QED BY <2>1
<1>2. ASSUME Inv, [Next]_vars PROVE [Abstract!Next]_outcome
  <2>1. ASSUME NEW u, Same(u) PROVE OutcomeOf(u)' = OutcomeOf(u)
    BY <2>1, OutcomeOfIs, Zenon DEF Same
  <2>2. CASE \A u \in Ids : Same(u)
    BY <2>1, <2>2
  <2>3. ASSUME NEW t \in Ids, StepFor(t) PROVE [Abstract!Next]_outcome
    <3>1. outcome[t] = OutcomeOf(t) /\ outcome' = [outcome EXCEPT ![t] = OutcomeOf(t)']
      BY <2>1, <2>3, Zenon DEF StepFor
    <3>2. CASE OutcomeOf(t)' = OutcomeOf(t)
      BY <3>1, <3>2, Zenon
    <3>3. CASE OutcomeOf(t) = "idle" /\ OutcomeOf(t)' \in {"running", "failed"}
      BY <3>1, <3>3, Zenon DEF Abstract!Next, Abstract!Start
    <3>4. CASE OutcomeOf(t) = "running" /\ OutcomeOf(t)' \in {"succeeded", "failed"}
      BY <3>1, <3>4, Zenon DEF Abstract!Next, Abstract!Resolve
    <3> QED BY <2>3, <3>2, <3>3, <3>4, Zenon DEF StepFor, Moves
  <2> QED BY <1>2, <2>2, <2>3, StepCases, Zenon
<1> QED BY <1>1, <1>2, InvHolds, PTL DEF Spec, Abstract!Safety
=============================================================================
