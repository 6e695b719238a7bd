--------------------------- MODULE AllToAllProofs ---------------------------
(***************************************************************************)
(* How many writes a rank is owed, and that every step of the all-to-all   *)
(* keeps the invariant of AllToAllInvariant, for any number of ranks,      *)
(* nodes, NICs and rounds; so it holds always, and gives the safety        *)
(* properties of AllToAll.                                                 *)
(***************************************************************************)
EXTENDS AllToAllLinks, FiniteSetTheorems

----------------------------------------------------------------------------
(* Counting writes.                                                         *)

\* A bijection keeps the number of elements.
LEMMA SameCount ==
    ASSUME NEW S, NEW T, IsFiniteSet(S), NEW f \in [S -> T],
           \A x, y \in S : f[x] = f[y] => x = y,
           \A z \in T : \E x \in S : f[x] = z
    PROVE  IsFiniteSet(T) /\ Cardinality(T) = Cardinality(S)
  <1>1. f \in Bijection(S, T)
    BY Zenon DEF Bijection, Injection, IsInjective, Surjection
  <1>2. ExistsBijection(S, T)
    BY <1>1, Zenon DEF ExistsBijection
  <1>3. QED
    BY <1>2, FS_Bijection

\* One write per sender and shard.
Grid(k, P, n, r, i) ==
    {[kind |-> k, from |-> p, to |-> r, shard |-> s, round |-> i] : p \in P, s \in 1..n}

\* There are as many as senders times shards.
LEMMA GridCount ==
    ASSUME NEW k, NEW P, IsFiniteSet(P), NEW n \in Nat, NEW r, NEW i
    PROVE  /\ IsFiniteSet(Grid(k, P, n, r, i))
           /\ Cardinality(Grid(k, P, n, r, i)) = Cardinality(P) * n
  <1> USE Zenon
  <1> DEFINE S == P \X (1..n)
             T == Grid(k, P, n, r, i)
             f == [x \in S |-> [kind |-> k, from |-> x[1], to |-> r, shard |-> x[2], round |-> i]]
  <1>1. IsFiniteSet(1..n) /\ Cardinality(1..n) = n
    BY FS_Interval, SMT
  <1>2. IsFiniteSet(S) /\ Cardinality(S) = Cardinality(P) * n
    BY <1>1, FS_Product
  <1>3. \A x \in S : f[x] = [kind |-> k, from |-> x[1], to |-> r, shard |-> x[2], round |-> i]
    OBVIOUS
  <1>4. f \in [S -> T]
    BY SMT DEF Grid
  <1>5. ASSUME NEW x \in S, NEW y \in S, f[x] = f[y] PROVE x = y
    <2>1. f[x].from = x[1] /\ f[x].shard = x[2] /\ f[y].from = y[1] /\ f[y].shard = y[2]
      OBVIOUS
    <2>2. x = <<x[1], x[2]>> /\ y = <<y[1], y[2]>>
      BY SMT
    <2>3. QED
      BY <1>5, <2>1, <2>2
  <1>6. ASSUME NEW z \in T PROVE \E x \in S : f[x] = z
    <2>1. PICK p \in P, s \in 1..n :
            z = [kind |-> k, from |-> p, to |-> r, shard |-> s, round |-> i]
      BY SMT DEF Grid
    <2>2. <<p, s>> \in S
      OBVIOUS
    <2>3. f[<<p, s>>] = z
      BY <2>1, <2>2, <1>3
    <2>4. QED
      BY <2>2, <2>3
  <1> HIDE DEF S, T, f
  <1>7. IsFiniteSet(T) /\ Cardinality(T) = Cardinality(S)
    BY <1>2, <1>4, <1>5, <1>6, SameCount
  <1>8. QED
    BY <1>2, <1>7 DEF T

\* There are finitely many writes.
LEMMA WritesFinite == IsFiniteSet(Writes)
  <1> USE Zenon
  <1> DEFINE S == (((Kinds \X Rank) \X Rank) \X (1..Nets)) \X (1..MaxRounds)
             f == [x \in S |-> [kind |-> x[1][1][1][1], from |-> x[1][1][1][2], to |-> x[1][1][2],
                                shard |-> x[1][2], round |-> x[2]]]
  <1>1. IsFiniteSet(Kinds)
    <2>1. IsFiniteSet({"route", "private", "overflow"})
      <3>1. IsFiniteSet((({} \cup {"route"}) \cup {"private"}) \cup {"overflow"})
        BY FS_EmptySet, FS_AddElement
      <3>2. {"route", "private", "overflow"} = (({} \cup {"route"}) \cup {"private"}) \cup {"overflow"}
        OBVIOUS
      <3>3. QED
        BY <3>1, <3>2
    <2>2. IsFiniteSet(((({"route", "private", "overflow"} \cup {"combine"})
                          \cup {"dispatch_barrier"}) \cup {"combine_barrier"}))
      BY <2>1, FS_AddElement
    <2>3. Kinds = (({"route", "private", "overflow"} \cup {"combine"})
                          \cup {"dispatch_barrier"}) \cup {"combine_barrier"}
      BY DEF Kinds
    <2>4. QED
      BY <2>2, <2>3
  <1>2. IsFiniteSet(Rank) /\ IsFiniteSet(1..Nets) /\ IsFiniteSet(1..MaxRounds)
    BY FS_Interval, AllToAllAssumption, SMT DEF Rank
  <1>3. IsFiniteSet(S)
    BY <1>1, <1>2, FS_Product
  <1>4. ASSUME NEW w \in Writes PROVE \E x \in S : f[x] = w
    <2>1. /\ w.kind \in Kinds /\ w.from \in Rank /\ w.to \in Rank /\ w.shard \in 1..Nets
          /\ w.round \in 1..MaxRounds
          /\ w = [kind |-> w.kind, from |-> w.from, to |-> w.to, shard |-> w.shard,
                  round |-> w.round]
      BY SMT DEF Writes
    <2>2. <<<<<<<<w.kind, w.from>>, w.to>>, w.shard>>, w.round>> \in S
      BY <2>1
    <2>3. f[<<<<<<<<w.kind, w.from>>, w.to>>, w.shard>>, w.round>>] = w
      BY <2>1, <2>2
    <2>4. QED
      BY <2>2, <2>3
  <1>5. f \in [S -> Writes]
    <2>1. ASSUME NEW x \in S PROVE f[x] \in Writes
      <3>1. /\ x[1][1][1][1] \in Kinds /\ x[1][1][1][2] \in Rank /\ x[1][1][2] \in Rank
            /\ x[1][2] \in 1..Nets /\ x[2] \in 1..MaxRounds
        OBVIOUS
      <3>2. QED
        BY <3>1 DEF Writes
    <2>2. QED
      BY <2>1
  <1> HIDE DEF S, f
  <1>6. f \in Surjection(S, Writes)
    BY <1>4, <1>5, SMT DEF Surjection
  <1>7. QED
    BY <1>3, <1>6, FS_Surjection

\* All peers of a rank.
LEMMA OthersCount ==
    ASSUME NEW r \in Rank
    PROVE  IsFiniteSet(Others(r)) /\ Cardinality(Others(r)) = World - 1
  <1>1. IsFiniteSet(Rank) /\ Cardinality(Rank) = World
    BY FS_Interval, AllToAllAssumption DEF Rank
  <1>2. QED
    BY <1>1, FS_RemoveElement, AllToAllAssumption, Zenon DEF Others

\* Multiples of n.
LEMMA Multiples ==
    ASSUME NEW n \in Nat \ {0}
    PROVE  /\ \A x, y \in Nat : n * x \in Nat /\ (x < y => n * x + n <= n * y)
                               /\ (~(x < y) => n * y <= n * x)
           /\ \A x \in Nat : x = n * (x \div n) + (x % n) /\ x \div n \in Nat
  <1>1. \A x, y \in Nat : n * x \in Nat
    OBVIOUS
  <1>2. \A x, y \in Nat : x < y => n * x + n <= n * y
    OBVIOUS
  <1>3. \A x, y \in Nat : ~(x < y) => n * y <= n * x
    OBVIOUS
  <1>4. \A x \in Nat : x = n * (x \div n) + (x % n) /\ x \div n \in Nat
    OBVIOUS
  <1>5. QED
    BY <1>1, <1>2, <1>3, <1>4, Zenon

\* Ranks are numbered node by node.
LEMMA SameQuotient ==
    ASSUME NEW n \in Nat \ {0}, NEW p \in Nat, NEW q \in Nat
    PROVE  p \div n = q <=> p \in (n * q)..(n * q + n - 1)
  <1>1. (p \div n) \in Nat /\ n * (p \div n) <= p /\ p < n * (p \div n) + n
    OBVIOUS
  <1>2. \A x, y \in Nat : n * x \in Nat /\ (x < y => n * x + n <= n * y)
    OBVIOUS
  <1>3. n * q \in Nat /\ n * (p \div n) \in Nat
    BY <1>1, <1>2, Zenon
  <1>4. ASSUME n * q <= p, p < n * q + n PROVE p \div n = q
    BY <1>1, <1>2, <1>3, <1>4
  <1>5. QED
    BY <1>1, <1>3, <1>4

\* The ranks on other nodes.
LEMMA RemoteCount ==
    ASSUME Types, NEW r \in Rank
    PROVE  /\ IsFiniteSet(Remote(r)) /\ Cardinality(Remote(r)) = World - node_size
           /\ Cardinality(Remote(r)) \in Nat
  <1> DEFINE n == node_size
             q == r \div n
             Own == (n * q)..(n * q + n - 1)
  <1>1. n \in Nat \ {0} /\ n <= World /\ World % n = 0 /\ r \in Nat /\ r < World /\ World \in Nat
    BY AllToAllAssumption DEF Types, Rank
  <1>2. q \in Nat /\ n * q \in Nat /\ n * q <= r
    BY <1>1
  <1>3. PICK w \in Nat : World = n * w
    <2>1. World = n * (World \div n) + (World % n) /\ World \div n \in Nat
      BY <1>1, Multiples, Zenon
    <2>2. QED
      BY <2>1, <1>1
  <1>4. n * q + n <= World
    <2>1. \A x, y \in Nat : n * x \in Nat /\ (x < y => n * x + n <= n * y)
                            /\ (~(x < y) => n * y <= n * x)
      BY <1>1, Multiples, Zenon
    <2>2. q < w \/ n * w <= n * q
      BY <2>1, <1>2, Zenon
    <2>3. q < w
      <3>1. ~(World <= n * q)
        BY <1>1, <1>2
      <3>2. QED
        BY <2>2, <3>1, <1>3, Zenon
    <2>4. QED
      BY <2>1, <2>3, <1>2, <1>3, Zenon
  <1>5. Own \subseteq Rank
    BY <1>1, <1>2, <1>4 DEF Rank
  <1>6. Remote(r) = Rank \ Own
    <2>1. \A p \in Rank : NodeOf(Shape, p) = p \div n
      BY ShapeIs, Zenon DEF NodeOf
    <2>2. ASSUME NEW p \in Rank PROVE p \div n = q <=> p \in Own
      <3>1. p \in Nat
        BY AllToAllAssumption DEF Rank
      <3> HIDE DEF n, q
      <3>2. QED
        BY <1>1, <1>2, <3>1, SameQuotient, Zenon
    <2>3. QED
      BY <2>1, <2>2, ShapeIs DEF Remote, RemoteRanks
  <1>7. IsFiniteSet(Own) /\ Cardinality(Own) = n
    <2>1. n * q \in Int /\ n * q + n - 1 \in Int
      BY <1>1, <1>2
    <2>2. QED
      BY <2>1, <1>1, <1>2, FS_Interval
  <1>8. IsFiniteSet(Rank) /\ Cardinality(Rank) = World
    BY FS_Interval, AllToAllAssumption DEF Rank
  <1>9. Rank \cap Own = Own
    BY <1>5, Zenon
  <1> HIDE DEF Own, n, q
  <1>10. IsFiniteSet(Rank \ Own) /\ Cardinality(Rank \ Own) = World - n
    BY <1>7, <1>8, <1>9, FS_Difference
  <1>11. QED
    BY <1>1, <1>6, <1>10 DEF n

\* num_recv_tx counts what the rank is owed, once it has everybody's table.
LEMMA DispatchOwedCount ==
    ASSUME Types, NEW r \in Rank, NEW k
    PROVE  /\ IsFiniteSet(DispatchOwed(r, k))
           /\ (\A p \in Remote(r) : num_routed[r][p] = num_routed[p][p])
                => Cardinality(DispatchOwed(r, k)) = NumRecvTx(Shape, r, num_routed[r])
  <1> DEFINE Q == {q \in Remote(r) : r \in num_routed[q][q]}
             A == Grid("private", Remote(r), 1, r, k)
             B == Grid("overflow", Q, Nets, r, k)
  <1>1. IsFiniteSet(Remote(r)) /\ Cardinality(Remote(r)) \in Nat
    BY RemoteCount, Zenon
  <1>2. IsFiniteSet(Q) /\ Cardinality(Q) \in Nat
    BY <1>1, FS_Subset, FS_CardinalityType, Zenon
  <1>3. DispatchOwed(r, k) = A \cup B
    <2>1. A = {[kind |-> "private", from |-> p, to |-> r, shard |-> 1, round |-> k] :
                   p \in Remote(r)}
      BY DEF Grid
    <2>2. QED
      BY <2>1 DEF DispatchOwed, Grid, Remote
  <1>4. A \cap B = {}
    BY DEF Grid
  <1>5. IsFiniteSet(A) /\ Cardinality(A) = Cardinality(Remote(r)) * 1
    BY <1>1, GridCount
  <1>6. IsFiniteSet(B) /\ Cardinality(B) = Cardinality(Q) * Nets
    BY <1>2, GridCount, AllToAllAssumption
  <1>7. ASSUME \A p \in Remote(r) : num_routed[r][p] = num_routed[p][p]
        PROVE  NumRecvTx(Shape, r, num_routed[r]) = Cardinality(Remote(r)) + Nets * Cardinality(Q)
    <2>1. {g \in Remote(r) : r \in num_routed[r][g]} = Q
      BY <1>7, Zenon
    <2>2. QED
      BY <2>1, GroupsAre, ShapeIs, Zenon DEF NumRecvTx
  <1> HIDE DEF A, B, Q
  <1>8. IsFiniteSet(A \cup B) /\ Cardinality(A \cup B) = Cardinality(A) + Cardinality(B) - 0
    BY <1>4, <1>5, <1>6, FS_Union, FS_EmptySet
  <1>9. Cardinality(A \cup B) = Cardinality(Remote(r)) + Nets * Cardinality(Q)
    <2>1. \A a, b \in Nat : a * b = b * a /\ a * b \in Nat /\ a * 1 = a
      OBVIOUS
    <2>2. Cardinality(A) = Cardinality(Remote(r)) /\ Cardinality(B) = Nets * Cardinality(Q)
          /\ Nets * Cardinality(Q) \in Nat
      BY <2>1, <1>1, <1>2, <1>5, <1>6, AllToAllAssumption, Zenon
    <2>3. QED
      BY <1>1, <1>8, <2>2
  <1>10. QED
    BY <1>3, <1>7, <1>8, <1>9, Zenon

\* num_combine_imm counts what the rank is owed.
LEMMA CombineOwedCount ==
    ASSUME Types, NEW r \in Rank, NEW k
    PROVE  /\ IsFiniteSet(CombineOwed(r, k))
           /\ Cardinality(CombineOwed(r, k)) = CombineExpected(Shape)
           /\ CombineExpected(Shape) \in Nat
  <1>1. CombineOwed(r, k) = Grid("combine", Remote(r), Nets, r, k)
    BY DEF CombineOwed, Grid, Remote
  <1>2. IsFiniteSet(Remote(r)) /\ Cardinality(Remote(r)) = World - node_size
        /\ Cardinality(Remote(r)) \in Nat
    BY RemoteCount, Zenon
  <1>3. /\ IsFiniteSet(CombineOwed(r, k))
        /\ Cardinality(CombineOwed(r, k)) = Cardinality(Remote(r)) * Nets
    BY <1>1, <1>2, GridCount, AllToAllAssumption
  <1>4. CombineExpected(Shape) = Cardinality(Remote(r)) * Nets
    BY <1>2, ShapeIs, Zenon DEF CombineExpected
  <1>5. \A a, b \in Nat : a * b \in Nat
    OBVIOUS
  <1>6. QED
    BY <1>2, <1>3, <1>4, <1>5, AllToAllAssumption, Zenon

\* The sizes the steps rely on are those the code waits for.
LEMMA SizesHold == SetSizes /\ (Types => OwedSizes)
  <1> USE Zenon
  <1>1. SetSizes
    <2>1. Cardinality({}) = 0
      BY FS_EmptySet
    <2>2. ASSUME NEW T, IsFiniteSet(T) PROVE Cardinality(T) \in Nat
      BY <2>2, FS_CardinalityType
    <2>3. ASSUME NEW S, NEW T, IsFiniteSet(T), S \subseteq T
          PROVE  /\ IsFiniteSet(S) /\ Cardinality(S) <= Cardinality(T)
                 /\ Cardinality(T) = Cardinality(S) => T = S
      BY <2>3, FS_Subset
    <2>4. ASSUME NEW T, NEW x, IsFiniteSet(T), x \notin T
          PROVE  Cardinality(T \cup {x}) = Cardinality(T) + 1
      BY <2>4, FS_AddElement
    <2>5. QED
      BY <2>1, <2>2, <2>3, <2>4, WritesFinite, OthersCount DEF SetSizes
  <1>2. ASSUME Types PROVE OwedSizes
    BY <1>2, DispatchOwedCount, CombineOwedCount DEF OwedSizes
  <1>3. QED
    BY <1>1, <1>2

----------------------------------------------------------------------------
(* The invariant, action by action.                                         *)

\* route_write_op goes to every other rank, and each waits for all the others.
LEMMA RouteIs ==
    ASSUME NEW r \in Rank
    PROVE  RouteTargets(Shape, r) = Others(r) /\ RouteExpected(Shape) = World - 1
  <1>1. \A p \in Rank : DpGroup(Shape, p) = p /\ DpRank(Shape, p) = 0
    BY ByOne, ShapeIs DEF DpGroup, DpRank, Rank
  <1>2. RouteExpected(Shape) = World - 1
    BY ByOne, ShapeIs, AllToAllAssumption, Zenon DEF RouteExpected
  <1>3. QED
    BY <1>1, <1>2, ShapeIs, Zenon DEF RouteTargets, Others

\* dispatch_ranges: the remote ranks that overflow their private buffers.
LEMMA OverflowIs ==
    ASSUME NEW r \in Rank
    PROVE  Overflow(r) = {p \in Remote(r) : p \in num_routed[r][r]}
  <1>1. \A p \in Rank : DpGroup(Shape, p) = p /\ DpRank(Shape, p) = 0
    BY ByOne, ShapeIs DEF DpGroup, DpRank, Rank
  <1>2. QED
    BY <1>1, RemoteIs, Zenon DEF Overflow, OverflowTargets, Remote

\* A host worker sends writes of a kind and goes on to the next step.
LEMMA HostSends ==
    ASSUME Inv, node_size' = node_size, NEW r \in Rank, NEW kind \in Kinds,
           NEW from \in HostNames, NEW to \in HostNames, Goto(r, from, to),
           HostNo(from) = SentBy(kind), HostNo(to) = SentBy(kind) + 1,
           NEW C, NEW S, Flip(r, C, S), HostDoes(r, SentBy(kind), C, S),
           NEW s \in 1..Nets, Submit(kind, r, TargetsOf(kind, r), s),
           kind \in Signals \cup {"private"} => s = 1,
           UNCHANGED <<round, gpu, gpu_round, counter, num_routed, send_buffer, landed, stopped>>
    PROVE  Inv'
  <1> USE Zenon
  <1>1. Types /\ Ranked /\ Paired /\ Posted /\ Landed /\ Counted
    BY DEF Inv, Linked
  <1> DEFINE n == SentBy(kind)
  <1>2. /\ n \in 1..13 /\ n # 13 /\ n # 5 /\ (n = 1 <=> kind = "route") /\ (n = 2 <=> kind = "private")
        /\ (n = 4 <=> kind = "overflow") /\ (n = 6 <=> kind = "dispatch_barrier")
        /\ (n = 9 <=> kind = "combine") /\ (n = 11 <=> kind = "combine_barrier")
    BY SMT DEF SentBy, Kinds
  <1>3. HostStep(r, n) /\ GpuStays /\ HostNo(host[r]) = n
    <2>1. HostStep(r, HostNo(from))
      BY <1>1, HostAdvances
    <2>2. QED
      BY <2>1, Stays DEF Goto
  <1>4. S \in SUBSET Flags /\ "dispatch_recv_flag" \notin S
    <2>1. S \in SUBSET Flags
      BY DEF HostDoes, Flags
    <2>2. "dispatch_recv_flag" \notin S
      BY <1>2 DEF HostDoes
    <2>3. QED
      BY <2>1, <2>2
  <1>5. /\ flags' \in [Rank -> SUBSET Flags]
        /\ NoneReleased
    BY <1>1, <1>4, FlipFlags DEF NoneReleased
  <1>6. Ranked'
    <2>1. round' = IF n = 13 THEN [round EXCEPT ![r] = @ + 1] ELSE round
      BY <1>2
    <2>2. HostDoes(r, n, C, S)
      OBVIOUS
    <2> HIDE DEF n
    <2>3. QED
      BY <1>1, <1>2, <1>3, <2>1, <2>2, HostRanked
  <1>7. wire' \in SUBSET Writes /\ open' \in [Rank -> Nat]
    <2>1. TargetsOf(kind, r) \subseteq Rank
      BY RemoteIs DEF TargetsOf, Others
    <2>2. round[r] <= MaxRounds
      BY <1>1, <1>2, <1>3, WorkingRound DEF HostDoes
    <2>3. QED
      BY <1>1, <2>1, <2>2, SubmitTypes
  <1>8. Types'
    <2>1. counter' \in [Rank -> [Counters -> Int]]
      BY <1>1 DEF Types
    <2>2. QED
      BY <1>1, <1>2, <1>5, <1>7, <2>1, HostTypes
  <1>9. Linked'
    <2>1. wire' = wire \cup WritesTo(kind, r, TargetsOf(kind, r), s)
      BY DEF Submit
    <2>2. QED
      BY <1>3, <1>5, <2>1, Submitting
  <1>10. QED
    BY <1>6, <1>8, <1>9 DEF Inv

\* The worker ends before a round.
LEMMA RouteExits ==
    ASSUME Inv, node_size' = node_size, NEW r \in Rank, Route(r), r \in stopped
    PROVE  Inv'
  <1> USE Zenon
  <1>1. Types /\ Ranked /\ Paired /\ Posted /\ Landed /\ Counted
    BY DEF Inv, Linked
  <1>2. Goto(r, "route", "exited") /\ "exited" \in HostNames /\ "route" \in HostNames
    BY DEF Route, HostNames
  <1>3. /\ Flip(r, {"dispatch_route_done"}, {}) /\ {} \in SUBSET Flags
        /\ UNCHANGED <<wire, open>>
        /\ UNCHANGED <<round, gpu, gpu_round, counter, num_routed, send_buffer, landed, stopped>>
    BY DEF Route
  <1>4. HostStays /\ GpuStays
    <2>1. \A q \in Rank : HostNo(host'[q]) = HostNo(host[q])
      BY <1>1, <1>2, HostNumbers DEF Goto, Types
    <2>2. QED
      BY <1>3, <2>1, Stays DEF HostStays, HostDone
  <1>5. /\ flags' \in [Rank -> SUBSET Flags]
        /\ \A q \in Rank : flags'[q] \subseteq flags[q]
    BY <1>1, <1>3, FlipFlags, SMT
  <1>6. Types'
    <2>1. counter' \in [Rank -> [Counters -> Int]] /\ wire' \in SUBSET Writes
          /\ open' \in [Rank -> Nat] /\ HostNo("route") # 13
      BY <1>1, <1>3, HostNumbers, SMT DEF Types
    <2>2. QED
      BY <1>1, <1>2, <1>3, <1>5, <2>1, HostTypes
  <1>7. Ranked'
    <2>1. ASSUME NEW q \in Rank PROVE InRank(q)'
      <3>1. InRank(q)
        BY <1>1, SMT DEF Ranked, InRank
      <3>2. QED
        BY <1>3, <1>4, <1>5, <3>1, RankFrame DEF HostStays, GpuStays
    <2>2. QED
      BY <2>1 DEF Ranked, InRank
  <1>8. Linked'
    <2>1. LinksStay
      BY <1>4, QuietSteps
    <2>2. QED
      BY <1>3, <1>5, <2>1, Quiet DEF NoneReleased
  <1>9. QED
    BY <1>6, <1>7, <1>8 DEF Inv

\* Route: the tables are exchanged.
LEMMA RouteKeeps ==
    ASSUME Inv, node_size' = node_size, NEW r \in Rank, Route(r)
    PROVE  Inv'
  <1>1. CASE r \in stopped
    BY <1>1, RouteExits
  <1>2. CASE r \notin stopped
    <2>1. /\ Goto(r, "route", "send") /\ Flip(r, {"dispatch_route_done"}, {})
          /\ Submit("route", r, RouteTargets(Shape, r), 1) /\ "dispatch_route_done" \in flags[r]
          /\ UNCHANGED <<round, gpu, gpu_round, counter, num_routed, send_buffer, landed, stopped>>
      BY <1>2, Zenon DEF Route
    <2>2. RouteTargets(Shape, r) = TargetsOf("route", r)
      BY RouteIs, Zenon DEF TargetsOf, Signals
    <2>3. Submit("route", r, TargetsOf("route", r), 1)
      BY <2>1, <2>2, Zenon
    <2>4. HostDoes(r, SentBy("route"), {"dispatch_route_done"}, {})
      BY <1>2, <2>1, FlagTells DEF HostDoes, SentBy
    <2>5. /\ "route" \in HostNames /\ "send" \in HostNames /\ "route" \in Kinds
          /\ SentBy("route") = 1 /\ 1 \in 1..Nets
      BY AllToAllAssumption DEF HostNames, Kinds, SentBy
    <2>6. QED
      BY <2>1, <2>3, <2>4, <2>5, SendNumbers, HostSends, Zenon
  <1>3. QED
    BY <1>1, <1>2

\* SendPrivate: the first tokens for the ranks on other nodes.
LEMMA SendPrivateKeeps ==
    ASSUME Inv, node_size' = node_size, NEW r \in Rank, SendPrivate(r)
    PROVE  Inv'
  <1>1. r \notin stopped
    BY StoppedWhere, Zenon DEF SendPrivate, Goto
  <1>2. /\ Goto(r, "send", "route_count") /\ Flip(r, {"dispatch_send_done", "tx_ready"}, {})
        /\ Submit("private", r, PrivateTargets(Shape, r), 1) /\ "dispatch_send_done" \in flags[r]
        /\ UNCHANGED <<round, gpu, gpu_round, counter, num_routed, send_buffer, landed, stopped>>
    BY <1>1, Zenon DEF SendPrivate
  <1>3. PrivateTargets(Shape, r) = TargetsOf("private", r)
    BY Zenon DEF TargetsOf, Signals, PrivateTargets, Remote
  <1>4. Submit("private", r, TargetsOf("private", r), 1)
    BY <1>2, <1>3, Zenon
  <1>5. HostDoes(r, SentBy("private"), {"dispatch_send_done", "tx_ready"}, {})
    BY <1>1, <1>2, FlagTells DEF HostDoes, SentBy
  <1>6. /\ "send" \in HostNames /\ "route_count" \in HostNames /\ "private" \in Kinds
        /\ SentBy("private") = 2 /\ 1 \in 1..Nets
    BY AllToAllAssumption DEF HostNames, Kinds, SentBy
  <1>7. QED
    BY <1>2, <1>4, <1>5, <1>6, SendNumbers, HostSends, Zenon

\* Dispatch: the tokens that overflow the private buffers.
LEMMA DispatchKeeps ==
    ASSUME Inv, node_size' = node_size, NEW r \in Rank, Dispatch(r)
    PROVE  Inv'
  <1>1. /\ Goto(r, "dispatch", "dispatch_wait") /\ Flip(r, {}, {"num_recv_tokens_flag"})
        /\ Submit("overflow", r, Overflow(r), Nets)
        /\ UNCHANGED <<round, gpu, gpu_round, counter, num_routed, send_buffer, landed, stopped>>
    BY Zenon DEF Dispatch
  <1>2. Overflow(r) = TargetsOf("overflow", r)
    BY OverflowIs, Zenon DEF TargetsOf, Signals
  <1>3. Submit("overflow", r, TargetsOf("overflow", r), Nets)
    BY <1>1, <1>2, Zenon
  <1>4. /\ "dispatch" \in HostNames /\ "dispatch_wait" \in HostNames /\ "overflow" \in Kinds
        /\ SentBy("overflow") = 4 /\ Nets \in 1..Nets /\ "overflow" \notin Signals \cup {"private"}
    BY AllToAllAssumption DEF HostNames, Kinds, SentBy, Signals
  <1>5. HostDoes(r, SentBy("overflow"), {}, {"num_recv_tokens_flag"})
    BY DEF HostDoes, SentBy
  <1>6. QED
    BY <1>1, <1>3, <1>4, <1>5, SendNumbers, HostSends, Zenon

\* DispatchRecv: the first barrier, once the kernel has read its tokens.
LEMMA DispatchRecvKeeps ==
    ASSUME Inv, node_size' = node_size, NEW r \in Rank, DispatchRecv(r)
    PROVE  Inv'
  <1>1. /\ Goto(r, "dispatch_recv", "dispatch_barrier") /\ Flip(r, {"dispatch_recv_done"}, {})
        /\ Submit("dispatch_barrier", r, Others(r), 1) /\ "dispatch_recv_done" \in flags[r]
        /\ UNCHANGED <<round, gpu, gpu_round, counter, num_routed, send_buffer, landed, stopped>>
    BY Zenon DEF DispatchRecv
  <1>2. r \notin stopped
    BY <1>1, StoppedWhere, Zenon DEF Goto
  <1>3. Others(r) = TargetsOf("dispatch_barrier", r)
    BY Zenon DEF TargetsOf, Signals
  <1>4. Submit("dispatch_barrier", r, TargetsOf("dispatch_barrier", r), 1)
    BY <1>1, <1>3, Zenon
  <1>5. HostDoes(r, SentBy("dispatch_barrier"), {"dispatch_recv_done"}, {})
    BY <1>1, <1>2, FlagTells DEF HostDoes, SentBy
  <1>6. /\ "dispatch_recv" \in HostNames /\ "dispatch_barrier" \in HostNames
        /\ "dispatch_barrier" \in Kinds /\ SentBy("dispatch_barrier") = 6 /\ 1 \in 1..Nets
    BY AllToAllAssumption DEF HostNames, Kinds, SentBy
  <1>7. QED
    BY <1>1, <1>4, <1>5, <1>6, SendNumbers, HostSends, Zenon

\* CombineScatter: the combined tokens go back.
LEMMA CombineScatterKeeps ==
    ASSUME Inv, node_size' = node_size, NEW r \in Rank, CombineScatter(r)
    PROVE  Inv'
  <1>1. r \notin stopped
    BY StoppedWhere, Zenon DEF CombineScatter, Goto
  <1>2. /\ Goto(r, "combine_send", "combine_count") /\ Flip(r, {"combine_send_done"}, {})
        /\ Submit("combine", r, CombineTargets(Shape, r), Nets)
        /\ "combine_send_done" \in flags[r]
        /\ UNCHANGED <<round, gpu, gpu_round, counter, num_routed, send_buffer, landed, stopped>>
    BY <1>1, Zenon DEF CombineScatter
  <1>3. CombineTargets(Shape, r) = TargetsOf("combine", r)
    BY Zenon DEF TargetsOf, Signals, CombineTargets, Remote
  <1>4. Submit("combine", r, TargetsOf("combine", r), Nets)
    BY <1>2, <1>3, Zenon
  <1>5. HostDoes(r, SentBy("combine"), {"combine_send_done"}, {})
    BY <1>1, <1>2, FlagTells DEF HostDoes, SentBy
  <1>6. /\ "combine_send" \in HostNames /\ "combine_count" \in HostNames /\ "combine" \in Kinds
        /\ SentBy("combine") = 9 /\ Nets \in 1..Nets /\ "combine" \notin Signals \cup {"private"}
    BY AllToAllAssumption DEF HostNames, Kinds, SentBy, Signals
  <1>7. QED
    BY <1>2, <1>4, <1>5, <1>6, SendNumbers, HostSends, Zenon

\* CombineDone: the second barrier, once the kernel has read its tokens.
LEMMA CombineDoneKeeps ==
    ASSUME Inv, node_size' = node_size, NEW r \in Rank, CombineDone(r)
    PROVE  Inv'
  <1> USE Zenon
  <1>1. /\ Goto(r, "combine_recv", "combine_barrier") /\ Flip(r, {"combine_recv_done"}, {})
        /\ Submit("combine_barrier", r, Others(r), 1) /\ "combine_recv_done" \in flags[r]
        /\ UNCHANGED <<round, gpu, gpu_round, counter, num_routed, send_buffer, landed, stopped>>
    BY DEF CombineDone
  <1>2. HostNo(host[r]) = 11
    BY <1>1, HostNumbers DEF Goto
  <1>3. HostDone(r, 11) < GpuDone(r, 7)
    <2>1. CASE r \in stopped
      <3>1. GpuDone(r, 7) = MaxRounds /\ HostDone(r, 10) = MaxRounds
        BY <2>1, StoppedWhere
      <3>2. HostDone(r, 11) + 1 = round[r] /\ HostDone(r, 10) = round[r]
        BY <1>2, HostAt, Counting DEF Inv
      <3>3. HostDone(r, 10) \in Nat /\ HostDone(r, 11) \in Nat
        BY CountsHold DEF Inv, Counts, CountsType
      <3>4. QED
        BY <3>1, <3>2, <3>3, SMT
    <2>2. CASE r \notin stopped
      BY <1>1, <2>2, FlagTells
    <2>3. QED
      BY <2>1, <2>2
  <1>4. Others(r) = TargetsOf("combine_barrier", r)
    BY DEF TargetsOf, Signals
  <1>5. Submit("combine_barrier", r, TargetsOf("combine_barrier", r), 1)
    BY <1>1, <1>4
  <1>6. /\ "combine_recv" \in HostNames /\ "combine_barrier" \in HostNames
        /\ "combine_barrier" \in Kinds /\ SentBy("combine_barrier") = 11 /\ 1 \in 1..Nets
    BY AllToAllAssumption, SMT DEF HostNames, Kinds, SentBy
  <1>7. HostDoes(r, SentBy("combine_barrier"), {"combine_recv_done"}, {})
    BY <1>3, SMT DEF HostDoes, SentBy
  <1>8. QED
    BY <1>1, <1>5, <1>6, <1>7, SendNumbers, HostSends

\* DispatchTx and CombineTx: the send buffer is handed back.
LEMMA TxKeeps ==
    ASSUME Inv, node_size' = node_size, NEW r \in Rank, DispatchTx(r) \/ CombineTx(r)
    PROVE  Inv'
  <1> USE Zenon
  <1>1. Types /\ Ranked /\ Paired /\ Posted /\ Landed /\ Counted
    BY DEF Inv, Linked
  <1>2. /\ Flip(r, {}, {"tx_ready"}) /\ counter' = counter
        /\ UNCHANGED <<gpu, gpu_round, num_routed, send_buffer, landed, wire, open, stopped>>
    BY DEF DispatchTx, CombineTx
  <1>3. counter' \in [Rank -> [Counters -> Int]]
    BY <1>1, <1>2 DEF Types
  <1>4. /\ "dispatch_tx" \in HostNames /\ "combine_send" \in HostNames
        /\ "combine_tx" \in HostNames /\ "route" \in HostNames /\ "exited" \in HostNames
    BY DEF HostNames
  <1>5. \E n \in {8, 13} : /\ HostStep(r, n) /\ GpuStays /\ Types' /\ Ranked' /\ NoneReleased
    <2>1. PICK n \in {8, 13}, from \in HostNames, to \in HostNames :
            /\ Goto(r, from, to) /\ HostNo(from) = n /\ n \in {3, 4, 5, 7, 8, 10, 12, 13}
            /\ \/ n # 13 /\ HostNo(to) = n + 1 /\ round' = round
               \/ n = 13 /\ HostNo(to) = 1 /\ BeginsRound(r)
            /\ HostDoes(r, n, {}, {"tx_ready"})
      <3>1. CASE DispatchTx(r)
        <4>1. Goto(r, "dispatch_tx", "combine_send") /\ round' = round
          BY <3>1 DEF DispatchTx
        <4>2. /\ HostNo("dispatch_tx") = 8 /\ HostNo("combine_send") = 8 + 1 /\ 8 # 13
              /\ 8 \in {3, 4, 5, 7, 8, 10, 12, 13}
          BY HostNumbers, Counting
        <4>3. HostDoes(r, 8, {}, {"tx_ready"})
          BY HostDoing
        <4>4. QED
          BY <1>4, <4>1, <4>2, <4>3
      <3>2. CASE CombineTx(r)
        <4>1. /\ Goto(r, "combine_tx", "route") \/ Goto(r, "combine_tx", "exited")
              /\ BeginsRound(r)
          BY <3>2 DEF CombineTx, BeginsRound
        <4>2. PICK to \in HostNames : Goto(r, "combine_tx", to) /\ HostNo(to) = 1
          BY <1>4, <4>1, HostNumbers
        <4>3. HostNo("combine_tx") = 13 /\ 13 \in {3, 4, 5, 7, 8, 10, 12, 13}
          BY HostNumbers
        <4>4. HostDoes(r, 13, {}, {"tx_ready"})
          BY HostDoing
        <4>5. QED
          BY <1>4, <4>1, <4>2, <4>3, <4>4
      <3>3. QED
        BY <3>1, <3>2
    <2>2. /\ HostStep(r, n) /\ GpuStays /\ Types' /\ Ranked'
          /\ \A q \in Rank : "dispatch_recv_flag" \in flags'[q] =>
                "dispatch_recv_flag" \in flags[q]
                  \/ (q = r /\ "dispatch_recv_flag" \in {"tx_ready"})
      BY <1>2, <1>3, <2>1, HostGoesOn
    <2>3. NoneReleased
      BY <2>2 DEF NoneReleased
    <2>4. QED
      BY <2>2, <2>3
  <1>6. LinksStay
    BY <1>5, QuietSteps
  <1>7. Linked'
    BY <1>2, <1>5, <1>6, Quiet
  <1>8. QED
    BY <1>5, <1>7 DEF Inv

\* a2a_dispatch_send, the table.
LEMMA DispatchSendRouteKeeps ==
    ASSUME Inv, node_size' = node_size, NEW r \in Rank, DispatchSendRoute(r)
    PROVE  Inv'
  <1> USE Zenon
  <1>1. Types /\ Ranked /\ Paired /\ Posted /\ Landed /\ Counted
    BY DEF Inv, Linked
  <1>2. PICK S \in SUBSET Remote(r) : num_routed' = [num_routed EXCEPT ![r][r] = S]
    BY DEF DispatchSendRoute, Remote
  <1>3. S \in SUBSET Rank
    BY RemoteIs
  <1>4. /\ Kernel(r, "dispatch_send", "dispatch_copy") /\ Flip(r, {}, {"dispatch_route_done"})
        /\ UNCHANGED <<host, round, gpu_round, counter, send_buffer, landed, wire, open, stopped>>
    BY DEF DispatchSendRoute
  <1>5. num_routed' \in [Rank -> [Rank -> SUBSET Rank]]
    BY <1>1, <1>2, <1>3 DEF Types
  <1>6. landed' \in [Rank -> SUBSET Writes] /\ \A q \in Rank : landed'[q] \subseteq landed[q]
    BY <1>1, <1>4, KernelFrame
  <1>7. /\ "dispatch_send" \in GpuNames \ {"finished"} /\ "dispatch_copy" \in GpuNames
        /\ "dispatch_copy" # "finished" /\ {"dispatch_route_done"} \subseteq DoneFlags
        /\ GpuNo("dispatch_send") = 1 /\ GpuNo("dispatch_copy") = 1 + 1 /\ 1 # 7
    BY GpuNumbers, Counting DEF GpuNames, DoneFlags
  <1>8. /\ HostStays /\ GpuStep(r, 1) /\ GpuNo(gpu[r]) = 1 /\ Types' /\ Ranked'
        /\ NoneReleased
    <2>1. KernelDoes(r, 1, {}, {"dispatch_route_done"})
      BY <1>4, KernelDoing
    <2>2. QED
      BY <1>4, <1>5, <1>6, <1>7, <2>1, KernelStep
  <1>9. Linked'
    BY <1>2, <1>3, <1>4, <1>8, NewTable
  <1>10. QED
    BY <1>8, <1>9 DEF Inv

\* a2a_dispatch_send, the copy; a2a_dispatch_recv, its start; a2a_combine_send.
LEMMA QuietKernels ==
    ASSUME Inv, node_size' = node_size, NEW r \in Rank,
           \/ DispatchSendCopy(r) \/ DispatchRecvStart(r) \/ CombineSend(r) \/ CombineSendEnd(r)
    PROVE  Inv'
  <1> USE Zenon
  <1>1. Types /\ Ranked /\ Paired /\ Posted /\ Landed /\ Counted
    BY DEF Inv, Linked
  <1>2. UNCHANGED <<host, round, gpu_round, counter, num_routed, landed, wire, open, stopped>>
    BY DEF DispatchSendCopy, DispatchRecvStart, CombineSend, CombineSendEnd
  <1>3. /\ landed' \in [Rank -> SUBSET Writes] /\ \A q \in Rank : landed'[q] \subseteq landed[q]
        /\ num_routed' \in [Rank -> [Rank -> SUBSET Rank]]
    BY <1>1, <1>2, KernelFrame
  <1>4. /\ "dispatch_copy" \in GpuNames \ {"finished"} /\ "dispatch_recv" \in GpuNames \ {"finished"}
        /\ "dispatch_read" \in GpuNames \ {"finished"} /\ "combine_send" \in GpuNames \ {"finished"}
        /\ "combine_end" \in GpuNames \ {"finished"} /\ "combine_recv" \in GpuNames \ {"finished"}
        /\ {"dispatch_send_done"} \subseteq DoneFlags /\ {"combine_send_done"} \subseteq DoneFlags
    BY DEF GpuNames, DoneFlags
  <1>5. /\ HostStays /\ \E n \in {2, 3, 5, 6} : GpuStep(r, n)
        /\ Types' /\ Ranked'
        /\ NoneReleased
    <2>1. CASE DispatchSendCopy(r)
      <3>1. /\ Kernel(r, "dispatch_copy", "dispatch_recv") /\ Flip(r, {}, {"dispatch_send_done"})
            /\ "tx_ready" \in flags[r]
            /\ send_buffer' = [send_buffer EXCEPT ![r] = <<"dispatch", gpu_round[r]>>]
        BY <2>1 DEF DispatchSendCopy
      <3>2. /\ HostStays /\ GpuStep(r, 2) /\ Types' /\ Ranked'
            /\ NoneReleased
        <4>1. KernelDoes(r, 2, {}, {"dispatch_send_done"})
          BY <3>1, KernelDoing
        <4>2. GpuNo("dispatch_copy") = 2 /\ GpuNo("dispatch_recv") = 2 + 1 /\ 2 # 7
          BY GpuNumbers, Counting
        <4>3. QED
          BY <1>2, <1>3, <1>4, <3>1, <4>1, <4>2, KernelStep
      <3>3. QED
        BY <3>2
    <2>2. CASE DispatchRecvStart(r)
      <3>1. /\ Kernel(r, "dispatch_recv", "dispatch_read") /\ flags' = flags
            /\ "num_recv_tokens_flag" \in flags[r] /\ send_buffer' = send_buffer
        BY <2>2 DEF DispatchRecvStart
      <3>2. Flip(r, {}, {})
        BY <1>1, <3>1, FlipNothing
      <3>3. /\ HostStays /\ GpuStep(r, 3) /\ Types' /\ Ranked'
            /\ NoneReleased
        <4>1. KernelDoes(r, 3, {}, {})
          BY <3>1, KernelDoing
        <4>2. GpuNo("dispatch_recv") = 3 /\ GpuNo("dispatch_read") = 3 + 1 /\ 3 # 7
          BY GpuNumbers, Counting
        <4>3. QED
          BY <1>2, <1>3, <1>4, <3>1, <3>2, <4>1, <4>2, KernelStep
      <3>4. QED
        BY <3>3
    <2>3. CASE CombineSend(r)
      <3>1. /\ Kernel(r, "combine_send", "combine_end") /\ Flip(r, {}, {"combine_send_done"})
            /\ "tx_ready" \in flags[r]
            /\ send_buffer' = [send_buffer EXCEPT ![r] = <<"combine", gpu_round[r]>>]
        BY <2>3 DEF CombineSend
      <3>2. /\ HostStays /\ GpuStep(r, 5) /\ Types' /\ Ranked'
            /\ NoneReleased
        <4>1. KernelDoes(r, 5, {}, {"combine_send_done"})
          BY <3>1, KernelDoing
        <4>2. GpuNo("combine_send") = 5 /\ GpuNo("combine_end") = 5 + 1 /\ 5 # 7
          BY GpuNumbers, Counting
        <4>3. QED
          BY <1>2, <1>3, <1>4, <3>1, <4>1, <4>2, KernelStep
      <3>3. QED
        BY <3>2
    <2>4. CASE CombineSendEnd(r)
      <3>1. /\ Kernel(r, "combine_end", "combine_recv") /\ Flip(r, {"tx_ready"}, {})
            /\ send_buffer' = send_buffer
        BY <2>4 DEF CombineSendEnd
      <3>2. /\ HostStays /\ GpuStep(r, 6) /\ Types' /\ Ranked'
            /\ NoneReleased
        <4>1. KernelDoes(r, 6, {"tx_ready"}, {})
          BY <3>1, KernelDoing
        <4>2. GpuNo("combine_end") = 6 /\ GpuNo("combine_recv") = 6 + 1 /\ 6 # 7
          BY GpuNumbers, Counting
        <4>3. QED
          BY <1>2, <1>3, <1>4, <3>1, <4>1, <4>2, KernelStep
      <3>3. QED
        BY <3>2
    <2>5. QED
      BY <2>1, <2>2, <2>3, <2>4
  <1>6. LinksStay
    BY <1>5, QuietSteps
  <1>7. Linked'
    BY <1>2, <1>5, <1>6, Quiet
  <1>8. QED
    BY <1>5, <1>7 DEF Inv

\* The application stops a rank after its last round.
LEMMA StopKeeps ==
    ASSUME Inv, NEW r \in Rank, Stop(r)
    PROVE  Inv'
  <1> USE Zenon
  <1>1. Types /\ Ranked /\ Paired /\ Posted /\ Landed /\ Counted
    BY SMT DEF Inv, Linked
  <1>2. /\ gpu[r] = "finished" /\ stopped' = stopped \cup {r} /\ Flip(r, {}, DoneFlags)
        /\ UNCHANGED <<node_size, host, round, gpu, gpu_round, counter, num_routed, send_buffer,
                       landed, wire, open>>
    BY DEF Stop
  <1>3. HostStays /\ GpuStays /\ LinksStay
    BY <1>2, Stays, QuietSteps
  <1>4. DoneFlags \in SUBSET Flags /\ "dispatch_recv_flag" \notin DoneFlags
    BY SMT DEF Flags, DoneFlags
  <1>5. /\ flags' \in [Rank -> SUBSET Flags]
        /\ NoneReleased
    BY <1>1, <1>2, <1>4, FlipFlags, SMT DEF NoneReleased
  <1>6. Types'
    <2>1. /\ counter' \in [Rank -> [Counters -> Int]]
          /\ num_routed' \in [Rank -> [Rank -> SUBSET Rank]]
          /\ landed' \in [Rank -> SUBSET Writes] /\ wire' \in SUBSET Writes
          /\ open' \in [Rank -> Nat] /\ stopped' \in SUBSET Rank
      BY <1>1, <1>2 DEF Types, Writes, Rank
    <2>2. QED
      BY <1>1, <1>2, <1>5, <2>1, OtherTypes
  <1>7. Ranked'
    <2>1. flags' = [flags EXCEPT ![r] = @ \cup DoneFlags]
      BY <1>1, <1>2 DEF Flip, Types
    <2>2. \A q \in stopped' : gpu[q] = "finished"
      BY <1>1, <1>2 DEF Types, Ranked, InStep
    <2>3. QED
      BY <1>1, <1>2, <1>3, <2>1, <2>2, OtherRanked
  <1>8. Linked'
    BY <1>2, <1>3, <1>5, Quiet
  <1>9. QED
    BY <1>6, <1>7, <1>8 DEF Inv

\* The counts say the same after a step in which nothing changes.
LEMMA StutterKeeps ==
    ASSUME Inv, UNCHANGED vars
    PROVE  Inv'
  <1>1. Types /\ Ranked /\ Paired /\ Posted /\ Landed /\ Counted
    BY DEF Inv, Linked
  <1>2. /\ UNCHANGED <<node_size, host, round, gpu, gpu_round>>
        /\ UNCHANGED <<flags, counter, num_routed, send_buffer, landed, wire, open, stopped>>
    BY Zenon DEF vars
  <1>3. 0 \in Rank
    BY AllToAllAssumption DEF Rank
  <1>4. HostStays /\ GpuStays /\ LinksStay
    BY <1>2, <1>3, Stays, QuietSteps, Zenon
  <1>5. Types'
    BY <1>1, <1>2, Zenon DEF Types, Writes, Rank
  <1>6. Ranked'
    BY <1>1, <1>2, <1>4, StillRanked, Zenon
  <1>7. Linked'
    BY <1>2, <1>4, Quiet, Zenon DEF NoneReleased
  <1>8. QED
    BY <1>5, <1>6, <1>7, Zenon DEF Inv

\* num_recv_tx and num_dispatch_tx are numbers.
LEMMA TxTypes ==
    ASSUME Types, NEW r \in Rank
    PROVE  /\ NumRecvTx(Shape, r, num_routed[r]) \in Int
           /\ NumDispatchTx(r) \in Int /\ NumCombineTx \in Int
           /\ RouteExpected(Shape) = World - 1 /\ World - 1 \in Int
           /\ CombineExpected(Shape) \in Int
  <1> DEFINE G == RemoteGroups(Shape, r)
             H == {g \in G : r \in num_routed[r][g]}
  <1>1. IsFiniteSet(G) /\ H \subseteq G
    BY GroupsAre, RemoteCount, Zenon
  <1>2. IsFiniteSet(H)
    BY <1>1, FS_Subset, Zenon
  <1>3. Cardinality(G) \in Nat /\ Cardinality(H) \in Nat
    BY <1>1, <1>2, FS_CardinalityType, Zenon
  <1>4. NumRecvTx(Shape, r, num_routed[r]) = Cardinality(G) + Nets * Cardinality(H)
    BY ShapeIs, Zenon DEF NumRecvTx
  <1> HIDE DEF G, H
  <1>5. Nets * Cardinality(H) \in Int
    BY <1>3, AllToAllAssumption
  <1>6. NumRecvTx(Shape, r, num_routed[r]) \in Int
    BY <1>3, <1>4, <1>5
  <1>7. NumDispatchTx(r) \in Int /\ NumCombineTx \in Int
    BY DEF NumDispatchTx, NumCombineTx
  <1>8. RouteExpected(Shape) = World - 1 /\ World - 1 \in Int
    BY RouteIs, AllToAllAssumption
  <1>9. QED
    BY <1>6, <1>7, <1>8, CombineOwedCount

\* RouteCount: all routing tables are in.
LEMMA RouteCountKeeps ==
    ASSUME Inv, node_size' = node_size, NEW r \in Rank, RouteCount(r)
    PROVE  Inv'
  <1> USE Zenon
  <1>1. Types /\ Ranked /\ Paired /\ Posted /\ Landed /\ Counted
    BY DEF Inv, Linked
  <1>2. /\ Goto(r, "route_count", "dispatch") /\ flags' = flags /\ round' = round
        /\ counter[r]["route"] >= RouteExpected(Shape)
        /\ counter' = [counter EXCEPT ![r]["route"] = @ - RouteExpected(Shape)]
        /\ UNCHANGED <<gpu, gpu_round, num_routed, send_buffer, landed, wire, open, stopped>>
    BY DEF RouteCount, WaitFor
  <1>3. RouteExpected(Shape) = World - 1 /\ World - 1 \in Int
    BY <1>1, TxTypes
  <1>4. counter' \in [Rank -> [Counters -> Int]] /\ "route" \in Counters
    BY <1>1, <1>2, <1>3, CounterTypes DEF Counters
  <1>5. /\ HostNo("route_count") = 3 /\ HostNo("dispatch") = 3 + 1 /\ 3 # 13
        /\ 3 \in {3, 4, 5, 7, 8, 10, 12, 13}
        /\ "route_count" \in HostNames /\ "dispatch" \in HostNames
    BY HostNumbers, Counting DEF HostNames
  <1>6. Flip(r, {}, {}) /\ HostDoes(r, 3, {}, {})
    BY <1>1, <1>2, FlipNothing, HostDoing
  <1>7. HostStep(r, 3) /\ GpuStays /\ Types' /\ Ranked'
    BY <1>2, <1>4, <1>5, <1>6, HostGoesOn
  <1>8. /\ "route" \in Signals /\ TakenBy("route") = 3
        /\ counter'[r]["route"] = counter[r]["route"] - (World - 1)
        /\ \A q \in Rank, k \in Counters \ {"tx"} :
                ~(q = r /\ k = "route") => counter'[q][k] = counter[q][k]
    BY <1>1, <1>2, <1>3, <1>4, SMT DEF Signals, TakenBy, Types
  <1>9. Linked'
    BY <1>2, <1>3, <1>7, <1>8, TakingSignals, SizesHold, SMT DEF NoneReleased
  <1>10. QED
    BY <1>7, <1>9 DEF Inv

\* A barrier: all peers have sent their immediate.
LEMMA BarrierKeeps ==
    ASSUME Inv, node_size' = node_size, NEW r \in Rank,
           NEW kind \in {"dispatch_barrier", "combine_barrier"}, NEW to \in HostNames,
           HostNo(to) = HostNo(kind) + 1, NEW num_tx \in Int, BarrierPass(r, kind, to, num_tx)
    PROVE  Inv'
  <1> USE Zenon
  <1>1. Types /\ Ranked
    BY DEF Inv
  <1>2. /\ Goto(r, kind, to) /\ flags' = flags /\ round' = round
        /\ counter[r][kind] >= World - 1
        /\ counter' = [counter EXCEPT ![r][kind] = @ - (World - 1), ![r]["tx"] = @ - num_tx]
        /\ UNCHANGED <<gpu, gpu_round, num_routed, send_buffer, landed, wire, open, stopped>>
    BY DEF BarrierPass
  <1>3. kind \in Signals /\ kind \in Counters \ {"tx"}
    BY DEF Counters, Signals
  <1>4. World - 1 \in Int
    BY <1>1, TxTypes
  <1>5. /\ counter' \in [Rank -> [Counters -> Int]]
        /\ counter'[r][kind] = counter[r][kind] - (World - 1)
        /\ \A q \in Rank, k \in Counters \ {"tx"} :
                ~(q = r /\ k = kind) => counter'[q][k] = counter[q][k]
    BY <1>1, <1>2, <1>3, <1>4, CounterPassed
  <1>6. /\ HostNo(kind) = TakenBy(kind) /\ TakenBy(kind) \in {7, 12} /\ kind \in HostNames
        /\ TakenBy(kind) # 13 /\ TakenBy(kind) \in {3, 4, 5, 7, 8, 10, 12, 13}
        /\ HostNo(to) = TakenBy(kind) + 1
    BY HostNumbers, Counting DEF HostNames, TakenBy
  <1>7. Flip(r, {}, {}) /\ HostDoes(r, TakenBy(kind), {}, {})
    BY <1>1, <1>2, <1>6, FlipNothing, HostDoing
  <1>8. HostStep(r, TakenBy(kind)) /\ GpuStays /\ Types' /\ Ranked'
    BY <1>2, <1>6, <1>7, <1>5, HostGoesOn, SMT
  <1>9. Linked'
    BY <1>2, <1>3, <1>8, <1>5, TakingSignals, SizesHold, SMT DEF NoneReleased
  <1>10. QED
    BY <1>8, <1>9 DEF Inv

\* DispatchWait: the kernel may read once all tokens are in.
LEMMA DispatchWaitKeeps ==
    ASSUME Inv, node_size' = node_size, NEW r \in Rank, DispatchWait(r)
    PROVE  Inv'
  <1> USE Zenon
  <1>1. Types /\ Ranked /\ Paired /\ Posted /\ Landed /\ Counted
    BY SMT DEF Inv, Linked
  <1> DEFINE N == NumRecvTx(Shape, r, num_routed[r])
             S == IF counter[r]["dispatch"] >= N THEN {"dispatch_recv_flag"} ELSE {}
  <1>2. /\ Goto(r, "dispatch_wait", "dispatch_recv") /\ round' = round
        /\ counter' = [counter EXCEPT ![r]["dispatch"] = @ - N]
        /\ Flip(r, {}, S)
        /\ UNCHANGED <<gpu, gpu_round, num_routed, send_buffer, landed, wire, open, stopped>>
    BY DEF DispatchWait
  <1>3. N \in Int
    BY <1>1, TxTypes
  <1>4. counter' \in [Rank -> [Counters -> Int]]
    BY <1>1, <1>2, <1>3, CounterTypes DEF Counters
  <1>5. /\ HostNo("dispatch_wait") = 5 /\ HostNo("dispatch_recv") = 5 + 1 /\ 5 # 13
        /\ 5 \in {3, 4, 5, 7, 8, 10, 12, 13}
        /\ "dispatch_wait" \in HostNames /\ "dispatch_recv" \in HostNames
    BY HostNumbers, Counting DEF HostNames
  <1>6. S \subseteq {"dispatch_recv_flag"}
    OBVIOUS
  <1>7. /\ HostStep(r, 5) /\ GpuStays /\ HostNo(host[r]) = 5 /\ Types' /\ Ranked'
        /\ \A q \in Rank : "dispatch_recv_flag" \in flags'[q] =>
                "dispatch_recv_flag" \in flags[q] \/ (q = r /\ "dispatch_recv_flag" \in S)
    <2> HIDE DEF S, N
    <2>1. HostDoes(r, 5, {}, S)
      BY <1>6, HostDoing
    <2>2. QED
      BY <1>2, <1>4, <1>5, <2>1, HostGoesOn, SMT
  <1>8. Linked'
    BY <1>1, <1>2, <1>7, TakingTokens, SizesHold
  <1>9. QED
    BY <1>7, <1>8 DEF Inv

\* CombineCount: all combined tokens are in.
LEMMA CombineCountKeeps ==
    ASSUME Inv, node_size' = node_size, NEW r \in Rank, CombineCount(r)
    PROVE  Inv'
  <1> USE Zenon
  <1>1. Types /\ Ranked /\ Paired /\ Posted /\ Landed /\ Counted
    BY SMT DEF Inv, Linked
  <1>2. /\ Goto(r, "combine_count", "combine_recv") /\ round' = round
        /\ counter[r]["combine"] >= CombineExpected(Shape)
        /\ counter' = [counter EXCEPT ![r]["combine"] = @ - CombineExpected(Shape)]
        /\ Flip(r, {}, {"combine_recv_flag"})
        /\ UNCHANGED <<gpu, gpu_round, num_routed, send_buffer, landed, wire, open, stopped>>
    BY DEF CombineCount, WaitFor
  <1>3. CombineExpected(Shape) \in Int
    BY <1>1, TxTypes
  <1>4. counter' \in [Rank -> [Counters -> Int]]
    BY <1>1, <1>2, <1>3, CounterTypes DEF Counters
  <1>5. /\ HostNo("combine_count") = 10 /\ HostNo("combine_recv") = 10 + 1 /\ 10 # 13
        /\ 10 \in {3, 4, 5, 7, 8, 10, 12, 13}
        /\ "combine_count" \in HostNames /\ "combine_recv" \in HostNames
    BY HostNumbers, Counting DEF HostNames
  <1>6. /\ HostStep(r, 10) /\ GpuStays /\ HostNo(host[r]) = 10 /\ Types' /\ Ranked'
        /\ NoneReleased
    <2>1. HostDoes(r, 10, {}, {"combine_recv_flag"})
      BY HostDoing
    <2>2. /\ HostStep(r, 10) /\ GpuStays /\ HostNo(host[r]) = 10 /\ Types' /\ Ranked'
          /\ \A q \in Rank : "dispatch_recv_flag" \in flags'[q] =>
                "dispatch_recv_flag" \in flags[q]
                  \/ (q = r /\ "dispatch_recv_flag" \in {"combine_recv_flag"})
      BY <1>2, <1>4, <1>5, <2>1, HostGoesOn, SMT
    <2>3. QED
      BY <2>2 DEF NoneReleased
  <1>7. Linked'
    BY <1>1, <1>2, <1>6, TakingCombined, SizesHold
  <1>8. QED
    BY <1>6, <1>7 DEF Inv

\* WorkerState::step.
LEMMA HostKeeps ==
    ASSUME Inv, NEW r \in Rank, Host(r)
    PROVE  Inv'
  <1>1. node_size' = node_size
    BY Zenon DEF Host
  <1>2. CASE BarrierPass(r, "dispatch_barrier", "dispatch_tx", NumDispatchTx(r))
    <2>1. NumDispatchTx(r) \in Int /\ "dispatch_tx" \in HostNames
      BY TxTypes, Zenon DEF Inv, HostNames
    <2>2. QED
      BY <1>1, <1>2, <2>1, HostNumbers, BarrierKeeps
  <1>3. CASE BarrierPass(r, "combine_barrier", "combine_tx", NumCombineTx)
    <2>1. NumCombineTx \in Int /\ "combine_tx" \in HostNames
      BY TxTypes, Zenon DEF Inv, HostNames
    <2>2. QED
      BY <1>1, <1>3, <2>1, HostNumbers, BarrierKeeps
  <1>4. QED
    BY <1>1, <1>2, <1>3, RouteKeeps, SendPrivateKeeps, RouteCountKeeps, DispatchKeeps,
       DispatchWaitKeeps, DispatchRecvKeeps, TxKeeps, CombineScatterKeeps, CombineCountKeeps,
       CombineDoneKeeps, Zenon DEF Host

\* a2a_dispatch_recv reads the tokens.
LEMMA DispatchRecvReadKeeps ==
    ASSUME Inv, node_size' = node_size, NEW r \in Rank, DispatchRecvRead(r)
    PROVE  Inv'
  <1> USE Zenon
  <1>1. Types /\ Ranked /\ Paired /\ Posted /\ Landed /\ Counted
    BY SMT DEF Inv, Linked
  <1>2. /\ Kernel(r, "dispatch_read", "combine_send") /\ "dispatch_recv_flag" \in flags[r]
        /\ Flip(r, {"num_recv_tokens_flag", "dispatch_recv_flag"}, {"dispatch_recv_done"})
        /\ landed' = [landed EXCEPT ![r] = {m \in @ : m.kind = "combine"}]
        /\ UNCHANGED <<host, round, gpu_round, counter, num_routed, send_buffer, wire, open, stopped>>
    BY DEF DispatchRecvRead
  <1>3. landed' \in [Rank -> SUBSET Writes] /\ \A q \in Rank : landed'[q] \subseteq landed[q]
    BY <1>1, <1>2 DEF Types
  <1>4. num_routed' \in [Rank -> [Rank -> SUBSET Rank]]
    BY <1>1, <1>2, KernelFrame
  <1>5. /\ "dispatch_read" \in GpuNames \ {"finished"} /\ "combine_send" \in GpuNames \ {"finished"}
        /\ {"dispatch_recv_done"} \subseteq DoneFlags
    BY DEF GpuNames, DoneFlags
  <1>6. /\ HostStays /\ GpuStep(r, 4) /\ Types' /\ Ranked'
        /\ NoneReleased
        /\ "dispatch_recv_flag" \notin flags'[r]
    <2>1. KernelDoes(r, 4, {"num_recv_tokens_flag", "dispatch_recv_flag"}, {"dispatch_recv_done"})
      BY <1>2, KernelDoing
    <2>2. GpuNo("dispatch_read") = 4 /\ GpuNo("combine_send") = 4 + 1 /\ 4 # 7
      BY GpuNumbers, Counting
    <2>3. /\ Kernel(r, "dispatch_read", "combine_send")
          /\ Flip(r, {"num_recv_tokens_flag", "dispatch_recv_flag"}, {"dispatch_recv_done"})
          /\ UNCHANGED <<host, round, gpu_round, counter, wire, open, stopped>>
      BY <1>2
    <2>4. /\ HostStays /\ GpuStep(r, 4) /\ Types' /\ Ranked' /\ NoneReleased
          /\ "dispatch_recv_flag" \in {"num_recv_tokens_flag", "dispatch_recv_flag"}
                => "dispatch_recv_flag" \notin flags'[r]
      BY <1>3, <1>4, <1>5, <2>1, <2>2, <2>3, KernelStep
    <2>5. QED
      BY <2>4
  <1>7. Linked'
    BY <1>2, <1>6, ReadingTokens, SizesHold
  <1>8. QED
    BY <1>6, <1>7 DEF Inv

\* a2a_combine_recv reads the combined tokens.
LEMMA CombineRecvKeeps ==
    ASSUME Inv, node_size' = node_size, NEW r \in Rank, CombineRecv(r)
    PROVE  Inv'
  <1> USE Zenon
  <1>1. Types /\ Ranked /\ Paired /\ Posted /\ Landed /\ Counted
    BY SMT DEF Inv, Linked
  <1> DEFINE to == IF gpu_round[r] = MaxRounds THEN "finished" ELSE "dispatch_send"
  <1>2. /\ Kernel(r, "combine_recv", to) /\ "combine_recv_flag" \in flags[r]
        /\ Flip(r, {"combine_recv_flag"}, {"combine_recv_done"})
        /\ gpu_round' = [gpu_round EXCEPT ![r] = @ + 1]
        /\ landed' = [landed EXCEPT ![r] = {m \in @ : m.kind # "combine"}]
        /\ UNCHANGED <<host, round, counter, num_routed, send_buffer, wire, open, stopped>>
    BY DEF CombineRecv
  <1>3. landed' \in [Rank -> SUBSET Writes] /\ \A q \in Rank : landed'[q] \subseteq landed[q]
    BY <1>1, <1>2 DEF Types
  <1>4. num_routed' \in [Rank -> [Rank -> SUBSET Rank]]
    BY <1>1, <1>2, KernelFrame
  <1>5. /\ "combine_recv" \in GpuNames \ {"finished"} /\ to \in GpuNames
        /\ {"combine_recv_done"} \subseteq DoneFlags /\ GpuNo("combine_recv") = 7
    BY GpuNumbers DEF GpuNames, DoneFlags
  <1>6. to = (IF gpu_round[r] = MaxRounds THEN "finished" ELSE "dispatch_send")
    OBVIOUS
  <1>7. /\ HostStays /\ GpuStep(r, 7) /\ Types' /\ Ranked'
        /\ NoneReleased
    <2>1. KernelDoes(r, 7, {"combine_recv_flag"}, {"combine_recv_done"})
      BY <1>2, KernelDoing
    <2>2. /\ Kernel(r, "combine_recv", to) /\ Flip(r, {"combine_recv_flag"}, {"combine_recv_done"})
          /\ gpu_round' = [gpu_round EXCEPT ![r] = @ + 1]
          /\ UNCHANGED <<host, round, counter, wire, open, stopped>>
      BY <1>2
    <2> HIDE DEF to
    <2>3. QED
      BY <1>3, <1>4, <1>5, <1>6, <2>1, <2>2, KernelStep
  <1>8. Linked'
    BY <1>2, <1>7, ReadingCombined, SizesHold
  <1>9. QED
    BY <1>7, <1>8 DEF Inv

\* The kernels.
LEMMA GpuKeeps ==
    ASSUME Inv, NEW r \in Rank, Gpu(r)
    PROVE  Inv'
  BY DispatchSendRouteKeeps, QuietKernels, DispatchRecvReadKeeps, CombineRecvKeeps, Zenon DEF Gpu

\* A write is delivered.
LEMMA DeliverKeeps ==
    ASSUME Inv, node_size' = node_size, NEW m \in wire, Deliver(m)
    PROVE  Inv'
  <1> USE Zenon
  <1>1. Types /\ Ranked /\ Paired /\ Posted /\ Landed /\ Counted
    BY DEF Inv, Linked
  <1> DEFINE r == m.to
             c == IF m.kind \in {"private", "overflow"} THEN "dispatch" ELSE m.kind
             Last == c = "dispatch" /\ counter[r][c] + 1 = 0
  <1>2. m \in Writes /\ r \in Rank /\ m.from \in Rank /\ m.kind \in Kinds
    BY <1>1 DEF Types, Writes
  <1>3. c \in Counters /\ (m.kind \in Signals => c = m.kind) /\ ~(m.kind \in Signals /\ c = "dispatch")
        /\ (m.kind \in Signals \/ m.kind \in Payloads)
        /\ (m.kind \in Payloads => c = IF m.kind = "combine" THEN "combine" ELSE "dispatch")
        /\ ~(m.kind \in Signals /\ m.kind \in Payloads)
    BY <1>2 DEF Kinds, Counters, Signals, Payloads
  <1>4. /\ wire' = wire \ {m}
        /\ counter' = [counter EXCEPT ![r][c] = @ + 1]
        /\ flags' = IF Last THEN [flags EXCEPT ![r] = @ \cup {"dispatch_recv_flag"}] ELSE flags
        /\ landed' = IF m.kind \in Payloads
                     THEN [landed EXCEPT ![r] = @ \cup {m}] ELSE landed
        /\ num_routed' = IF m.kind = "route"
                         THEN [num_routed EXCEPT ![r][m.from] = num_routed[m.from][m.from]]
                         ELSE num_routed
        /\ UNCHANGED <<host, round, gpu, gpu_round, send_buffer, open, stopped>>
    BY DEF Deliver
  <1>5. HostStays /\ GpuStays /\ LinksStay
    BY <1>2, <1>4, Stays, QuietSteps
  <1> HIDE DEF c
  <1>6. Types'
    <2>1. counter' \in [Rank -> [Counters -> Int]]
      <3>1. counter \in [Rank -> [Counters -> Int]]
        BY <1>1 DEF Types
      <3>2. QED
        BY <1>2, <1>3, <1>4, <3>1, SMT
    <2>2. flags' \in [Rank -> SUBSET Flags]
      <3>1. "dispatch_recv_flag" \in Flags /\ flags \in [Rank -> SUBSET Flags]
        BY <1>1 DEF Flags, Types
      <3>2. QED
        BY <1>2, <1>4, <3>1
    <2>3. landed' \in [Rank -> SUBSET Writes] /\ wire' \in SUBSET Writes
      BY <1>1, <1>2, <1>4 DEF Types
    <2>4. num_routed' \in [Rank -> [Rank -> SUBSET Rank]]
      <3>1. num_routed[m.from][m.from] \in SUBSET Rank
        BY <1>1, <1>2, SMT DEF Types
      <3>2. QED
        BY <1>1, <1>2, <1>4, <3>1 DEF Types
    <2>5. open' \in [Rank -> Nat] /\ stopped' \in SUBSET Rank
      BY <1>1, <1>4 DEF Types
    <2>6. QED
      BY <1>1, <1>4, <2>1, <2>2, <2>3, <2>4, <2>5, OtherTypes
  <1>7. Ranked'
    <2>1. CASE Last
      <3>1. GpuDone(r, 4) < HostDone(r, 5)
        <4>1. Cardinality(Tokens(r)) \in Nat /\ CountersCount(r)
          BY <1>1, <1>2, LandedOwed, SizesHold DEF Counted
        <4>2. counter[r]["dispatch"] + 1 = 0
          BY <2>1
        <4>3. counter[r]["dispatch"] # Cardinality(Tokens(r))
          BY <4>1, <4>2, SMT
        <4>4. QED
          BY <4>1, <4>3, SMT DEF CountersCount
      <3>2. \A q \in stopped' : gpu[q] = "finished"
        BY <1>1, <1>4 DEF Types, Ranked, InStep
      <3>3. QED
        BY <1>1, <1>2, <1>4, <1>5, <2>1, <3>1, <3>2, OtherRanked
    <2>2. CASE ~Last
      BY <1>1, <1>4, <1>5, <2>2, StillRanked
    <2>3. QED
      BY <2>1, <2>2
  <1>8. Linked'
    <2>1. CASE m.kind \in Signals
      <3>1. c = m.kind /\ ~Last /\ m.kind \notin Payloads
        BY <1>3, <2>1
      <3>2. counter' = [counter EXCEPT ![m.to][m.kind] = @ + 1] /\ flags' = flags /\ landed' = landed
        BY <1>4, <3>1
      <3>3. QED
        BY <1>4, <1>5, <2>1, <3>2, DeliveringSignal, SizesHold
    <2>2. CASE m.kind \in Payloads
      <3>1. c = (IF m.kind = "combine" THEN "combine" ELSE "dispatch") /\ m.kind # "route"
        BY <1>3, <2>2 DEF Payloads
      <3>2. /\ landed' = [landed EXCEPT ![m.to] = @ \cup {m}] /\ num_routed' = num_routed
            /\ counter' = [counter EXCEPT ![m.to][c] = @ + 1] /\ wire' = wire \ {m}
        BY <1>4, <2>2, <3>1
      <3>3. \A q \in Rank : "dispatch_recv_flag" \in flags'[q] =>
                \/ "dispatch_recv_flag" \in flags[q]
                \/ q = m.to /\ c = "dispatch" /\ counter[q][c] + 1 = 0
        <4>1. CASE Last
          <5>1. flags' = [flags EXCEPT ![r] = @ \cup {"dispatch_recv_flag"}]
                /\ flags \in [Rank -> SUBSET Flags]
            BY <1>1, <1>4, <4>1 DEF Types
          <5>2. \A q \in Rank : q # r => flags'[q] = flags[q]
            BY <5>1
          <5>3. QED
            BY <4>1, <5>2
        <4>2. CASE ~Last
          BY <1>4, <4>2
        <4>3. QED
          BY <4>1, <4>2
      <3>4. QED
        BY <1>1, <1>5, <2>2, <3>1, <3>2, <3>3, DeliveringPayload, SizesHold
    <2>3. QED
      BY <1>3, <2>1, <2>2
  <1>9. QED
    BY <1>6, <1>7, <1>8 DEF Inv

\* The transfers under way are finitely many.
LEMMA UndeliveredCount ==
    ASSUME Types, NEW r \in Rank
    PROVE  Cardinality(Undelivered(r)) \in Nat
  <1> USE Zenon
  <1> DEFINE W == {w \in wire : w.from = r}
             f == [w \in W |-> <<w.kind, w.round>>]
  <1>1. W \subseteq Writes
    BY DEF Types
  <1>2. IsFiniteSet(W)
    BY <1>1, WritesFinite, FS_Subset
  <1>3. f \in Surjection(W, Undelivered(r))
    <2>1. f \in [W -> Undelivered(r)]
      BY DEF Undelivered
    <2>2. \A z \in Undelivered(r) : \E w \in W : f[w] = z
      BY DEF Undelivered
    <2>3. QED
      BY <2>1, <2>2 DEF Surjection
  <1>4. IsFiniteSet(Undelivered(r))
    BY <1>2, <1>3, FS_Surjection
  <1>5. QED
    BY <1>4, FS_CardinalityType

\* A transfer is counted as complete.
LEMMA TransferDoneKeeps ==
    ASSUME Inv, node_size' = node_size, NEW r \in Rank, TransferDone(r)
    PROVE  Inv'
  <1> USE Zenon
  <1>1. Types /\ Ranked /\ Paired /\ Posted /\ Landed /\ Counted
    BY SMT DEF Inv, Linked
  <1>2. /\ open[r] > Cardinality(Undelivered(r))
        /\ open' = [open EXCEPT ![r] = @ - 1]
        /\ counter' = [counter EXCEPT ![r]["tx"] = @ + 1]
        /\ UNCHANGED <<host, round, gpu, gpu_round, flags, num_routed, send_buffer,
                       landed, wire, stopped>>
    BY DEF TransferDone
  <1>3. HostStays /\ GpuStays /\ LinksStay
    BY <1>2, Stays, QuietSteps
  <1>4. Types'
    <2>1. counter' \in [Rank -> [Counters -> Int]]
      <3>1. "tx" \in Counters /\ 1 \in Int
        BY SMT DEF Counters
      <3>2. QED
        BY <1>1, <1>2, <3>1, CounterTypes
    <2>2. open' \in [Rank -> Nat]
      <3>1. open \in [Rank -> Nat] /\ open[r] \in Nat /\ Cardinality(Undelivered(r)) \in Nat
        BY <1>1, UndeliveredCount DEF Types
      <3>2. open[r] - 1 \in Nat
        BY <1>2, <3>1, SMT
      <3>3. QED
        BY <1>2, <3>1, <3>2
    <2>3. /\ flags' \in [Rank -> SUBSET Flags] /\ num_routed' \in [Rank -> [Rank -> SUBSET Rank]]
          /\ landed' \in [Rank -> SUBSET Writes] /\ wire' \in SUBSET Writes
          /\ stopped' \in SUBSET Rank
      BY <1>1, <1>2 DEF Types, Writes, Rank
    <2>4. QED
      BY <1>1, <1>2, <2>1, <2>2, <2>3, OtherTypes
  <1>5. Ranked'
    BY <1>1, <1>2, <1>3, StillRanked
  <1>6. \A q \in Rank, k \in Counters \ {"tx"} : counter'[q][k] = counter[q][k]
    BY <1>1, <1>2 DEF Types
  <1>7. Linked'
    BY <1>2, <1>3, <1>6, Quiet DEF NoneReleased
  <1>8. QED
    BY <1>4, <1>5, <1>7 DEF Inv

\* Every step keeps the invariant.
LEMMA NextKeeps ==
    ASSUME Inv, [Next]_vars
    PROVE  Inv'
  <1>1. CASE Network
    BY <1>1, DeliverKeeps, TransferDoneKeeps, Zenon DEF Network
  <1>2. CASE \E r \in Rank : Host(r) \/ Gpu(r) \/ Stop(r)
    BY <1>2, HostKeeps, GpuKeeps, StopKeeps, Zenon
  <1>3. CASE Terminated \/ UNCHANGED vars
    BY <1>3, StutterKeeps, Zenon DEF Terminated
  <1>4. QED
    BY <1>1, <1>2, <1>3, Zenon DEF Next

\* The invariant holds in every reachable state.
LEMMA InvHolds == Spec => []Inv
  <1>1. Init => Inv
    BY InitInv, SizesHold
  <1>2. QED
    BY <1>1, NextKeeps, PTL DEF Spec

----------------------------------------------------------------------------
(* The theorems.                                                            *)

\* No buffer is written while somebody still needs what is in it, for any number of
\* ranks, nodes, NICs and rounds: what a write under way reads stays in the send
\* buffer, and no write lands on tokens that are yet to be read (a2a_worker.rs:445, :855).
THEOREM BuffersKeptHolds == Spec => []BuffersKept
  BY InvHolds, InvBuffers, PTL

\* A kernel is released only when all writes it reads have landed, none of another
\* round among them (num_recv_tx, num_combine_imm and the immediate counters).
THEOREM KernelsReadAllHolds == Spec => []KernelsReadAll
  <1>1. Inv => KernelsReadAll
    BY InvReads, SizesHold
  <1>2. QED
    BY <1>1, InvHolds, PTL

==============================================================================
