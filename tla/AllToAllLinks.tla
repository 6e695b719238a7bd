--------------------------- MODULE AllToAllLinks ----------------------------
(***************************************************************************)
(* What the invariant of the all-to-all says of two ranks and of the       *)
(* writes between them, step by step: sends, waits, reads and deliveries.  *)
(***************************************************************************)
EXTENDS AllToAllInvariant

----------------------------------------------------------------------------
(* What the counters need to know of the sizes of sets.                     *)

\* Of finite sets in general, of the writes and of the peers of a rank.
SetSizes ==
    /\ Cardinality({}) = 0
    /\ \A T : IsFiniteSet(T) => Cardinality(T) \in Nat
    /\ \A S, T : IsFiniteSet(T) /\ S \subseteq T =>
            /\ IsFiniteSet(S) /\ Cardinality(S) <= Cardinality(T)
            /\ Cardinality(T) = Cardinality(S) => T = S
    /\ \A T, x : IsFiniteSet(T) /\ x \notin T => Cardinality(T \cup {x}) = Cardinality(T) + 1
    /\ IsFiniteSet(Writes)
    /\ \A r \in Rank : IsFiniteSet(Others(r)) /\ Cardinality(Others(r)) = World - 1

\* num_recv_tx and num_combine_imm count what a rank is owed, the former once it has
\* everybody's table.
OwedSizes ==
    \A r \in Rank : \A k :
        /\ IsFiniteSet(DispatchOwed(r, k)) /\ IsFiniteSet(CombineOwed(r, k))
        /\ (\A p \in Remote(r) : num_routed[r][p] = num_routed[p][p])
              => Cardinality(DispatchOwed(r, k)) = NumRecvTx(Shape, r, num_routed[r])
        /\ Cardinality(CombineOwed(r, k)) = CombineExpected(Shape)
        /\ CombineExpected(Shape) \in Nat

\* A part of a finite set.
LEMMA PartSize ==
    ASSUME SetSizes, NEW S, NEW T, IsFiniteSet(T), S \subseteq T
    PROVE  /\ IsFiniteSet(S) /\ Cardinality(S) <= Cardinality(T) /\ Cardinality(S) \in Nat
           /\ Cardinality(T) = Cardinality(S) => T = S
  BY Zenon DEF SetSizes

\* A finite set and one more.
LEMMA OneMoreSize ==
    ASSUME SetSizes, NEW T, IsFiniteSet(T), NEW x, x \notin T
    PROVE  Cardinality(T \cup {x}) = Cardinality(T) + 1
  BY Zenon DEF SetSizes

----------------------------------------------------------------------------
(* The invariant at the start.                                              *)

\* Nothing has been done yet.
LEMMA InitInv ==
    ASSUME SetSizes, Init
    PROVE  Inv
  <1>1. NodeSizes \subseteq Nat /\ MaxRounds \in Nat /\ MaxRounds # 0
    BY AllToAllAssumption
  <1>2. Types
    <2>1. "route" \in HostNames /\ "dispatch_send" \in GpuNames /\ {"tx_ready"} \in SUBSET Flags
      BY Zenon DEF HostNames, GpuNames, Flags
    <2>2. 1 \in 1..(MaxRounds + 1) /\ 1 # MaxRounds + 1 /\ 0 \in 0..MaxRounds
      BY <1>1
    <2>3. \A r \in Rank : gpu[r] = "finished" <=> gpu_round[r] = MaxRounds + 1
      BY <2>2, Zenon DEF Init
    <2>4. [r \in Rank |-> <<"none", 0>>] \in [Rank -> {"dispatch", "combine", "none"} \X (0..MaxRounds)]
      BY <2>2, Zenon
    <2>5. QED
      BY <2>1, <2>2, <2>3, <2>4 DEF Types, Init
  <1>3. ASSUME NEW r \in Rank
        PROVE  /\ \A i \in 1..13 : HostDone(r, i) = 0
               /\ \A i \in 1..7 : GpuDone(r, i) = 0
               /\ \A k \in Kinds : Sent(r, k) = 0 /\ Taken(r, k) = 0
    <2>1. HostNo(host[r]) = 1 /\ round[r] = 1 /\ GpuNo(gpu[r]) = 1 /\ gpu_round[r] = 1
      BY HostNumbers, GpuNumbers, Zenon DEF Init
    <2>2. \A i \in 1..13 : HostDone(r, i) = 0
      BY <2>1 DEF HostDone, Done
    <2>3. \A i \in 1..7 : GpuDone(r, i) = 0
      BY <2>1 DEF GpuDone, Done
    <2>4. \A k \in Kinds : Sent(r, k) = 0 /\ Taken(r, k) = 0
      BY <2>2, <2>3, SentIs DEF Kinds
    <2>5. QED
      BY <2>2, <2>3, <2>4, Zenon
  <1>4. Ranked
    <2> SUFFICES ASSUME NEW r \in Rank PROVE InStep(r) /\ FlagsSay(r) /\ BufferHolds(r)
      BY Zenon DEF Ranked
    <2>1. round[r] = 1 /\ flags[r] = {"tx_ready"} /\ send_buffer[r] = <<"none", 0>> /\ r \notin stopped
      BY Zenon DEF Init
    <2>2. InStep(r)
      BY <1>3, <2>1 DEF InStep
    <2>3. FlagsSay(r)
      BY <1>3, <2>1 DEF FlagsSay
    <2>4. BufferHolds(r)
      BY <1>3, <2>1 DEF BufferHolds, Holds
    <2>5. QED
      BY <2>2, <2>3, <2>4, Zenon
  <1>5. ASSUME NEW r \in Rank, NEW k \in Signals PROVE Heard(r, k) = {}
    BY <1>3 DEF Heard, Others, Signals, Kinds
  <1>6. Paired
    <2> SUFFICES ASSUME NEW p \in Rank, NEW r \in Rank PROVE Waited(p, r) /\ TableCopied(p, r)
      BY Zenon DEF Paired
    <2>1. Signals \subseteq Kinds /\ {"combine", "private", "overflow"} \subseteq Kinds /\ "route" \in Signals
      BY Zenon DEF Signals, Kinds
    <2>2. Waited(p, r)
      BY <1>3, <2>1 DEF Waited
    <2>3. TableCopied(p, r)
      BY <1>3, <1>5, <2>1 DEF TableCopied
    <2>4. QED
      BY <2>2, <2>3, Zenon
  <1>7. Posted /\ Landed
    BY Zenon DEF Init, Posted, Landed
  <1>8. Counted
    <2> SUFFICES ASSUME NEW r \in Rank PROVE CountersCount(r) /\ Complete(r)
      BY Zenon DEF Counted
    <2>1. Tokens(r) = {} /\ Combined(r) = {} /\ "dispatch_recv_flag" \notin flags[r]
          /\ \A c \in Counters : counter[r][c] = 0
      BY Zenon DEF Init, Tokens, Combined
    <2>2. Cardinality({}) = 0 /\ Signals \subseteq Counters /\ "dispatch" \in Counters
          /\ "combine" \in Counters
      BY Zenon DEF Signals, Counters, SetSizes
    <2>3. ~(GpuDone(r, 4) < HostDone(r, 5)) /\ ~(GpuDone(r, 7) < HostDone(r, 10))
      BY <1>3
    <2>4. CountersCount(r)
      BY <1>5, <2>1, <2>2, <2>3 DEF CountersCount
    <2>5. Complete(r)
      BY <2>1, <2>3, Zenon DEF Complete
    <2>6. QED
      BY <2>4, <2>5, Zenon
  <1>9. QED
    BY <1>2, <1>4, <1>6, <1>7, <1>8, Zenon DEF Inv, Linked

----------------------------------------------------------------------------
(* Steps that only one rank knows of.                                       *)

\* The steps that only one rank knows of.
LEMMA QuietSteps ==
    ASSUME NEW r \in Rank,
           \/ HostStep(r, 8) /\ GpuStays
           \/ HostStep(r, 13) /\ GpuStays
           \/ HostStays /\ GpuStays
           \/ \E n \in {2, 3, 5, 6} : HostStays /\ GpuStep(r, n)
    PROVE  LinksStay
  <1> SUFFICES ASSUME NEW q \in Rank
               PROVE  /\ \A k \in Kinds : /\ Sent(q, k)' = Sent(q, k)
                                          /\ Taken(q, k)' = Taken(q, k)
                                          /\ Read(q, k)' = Read(q, k)
                      /\ GpuDone(q, 1)' = GpuDone(q, 1) /\ GpuDone(q, 4)' = GpuDone(q, 4)
                      /\ GpuDone(q, 7)' = GpuDone(q, 7) /\ HostDone(q, 3)' = HostDone(q, 3)
                      /\ HostDone(q, 5)' = HostDone(q, 5) /\ HostDone(q, 10)' = HostDone(q, 10)
    BY Zenon DEF LinksStay
  <1>1. /\ \A i \in 1..13 : i \notin {8, 13} => HostDone(q, i)' = HostDone(q, i)
        /\ \A i \in {1, 4, 7} : GpuDone(q, i)' = GpuDone(q, i)
    BY DEF HostStep, GpuStep, HostStays, GpuStays
  <1>2. ASSUME NEW k \in Kinds
        PROVE  /\ Sent(q, k)' = Sent(q, k) /\ Taken(q, k)' = Taken(q, k)
               /\ Read(q, k)' = Read(q, k)
    <2>1. \/ k = "route" \/ k = "private" \/ k = "overflow" \/ k = "combine"
          \/ k = "dispatch_barrier" \/ k = "combine_barrier"
      BY DEF Kinds
    <2>2. Sent(q, k)' = Sent(q, k) /\ Taken(q, k)' = Taken(q, k)
      BY <1>1, <2>1, SentIs, SentIsPrimed
    <2>3. Read(q, k)' = Read(q, k)
      BY <1>1, Zenon DEF Read
    <2>4. QED
      BY <2>2, <2>3
  <1>3. QED
    BY <1>1, <1>2

\* A step that only one rank knows of preserves what is said of two.
LEMMA Quiet ==
    ASSUME Inv, LinksStay,
           UNCHANGED <<node_size, num_routed, wire, landed>>,
           \A q \in Rank, c \in Counters \ {"tx"} : counter'[q][c] = counter[q][c],
           NoneReleased
    PROVE  Linked'
  <1> USE Zenon
  <1> SUFFICES ASSUME Types, Ranked, Paired, Posted, Landed, Counted,
                      \A q \in Rank : "dispatch_recv_flag" \in flags'[q] => "dispatch_recv_flag" \in flags[q]
               PROVE  Paired' /\ Posted' /\ Landed' /\ Counted'
    BY DEF Inv, Linked, NoneReleased
  <1>1. \A r : Remote(r)' = Remote(r)
    BY RemoteStays
  <1>2. ASSUME NEW r \in Rank, NEW c \in Signals
        PROVE  Heard(r, c)' = Heard(r, c)
    <2>1. c \in Kinds /\ Others(r) \subseteq Rank
      BY DEF Signals, Kinds, Others
    <2>2. Taken(r, c)' = Taken(r, c) /\ \A p \in Others(r) : Sent(p, c)' = Sent(p, c)
      BY <2>1 DEF LinksStay
    <2>3. QED
      BY <2>2 DEF Heard
  <1>3. ASSUME NEW p \in Rank, NEW r \in Rank PROVE Waited(p, r)'
    <2>1. Waited(p, r)
      BY DEF Paired
    <2>2. Signals \cup {"combine", "private", "overflow"} \subseteq Kinds
      BY DEF Signals, Kinds
    <2>3. QED
      BY <1>1, <2>1, <2>2 DEF Waited, LinksStay
  <1>4. ASSUME NEW p \in Rank, NEW r \in Rank PROVE TableCopied(p, r)'
    <2>1. TableCopied(p, r)
      BY DEF Paired
    <2>2. Heard(r, "route")' = Heard(r, "route")
      BY <1>2 DEF Signals
    <2>3. QED
      BY <2>1, <2>2 DEF TableCopied, LinksStay
  <1>5. ASSUME NEW m \in wire PROVE OnWire(m)'
    <2>1. OnWire(m) /\ m \in Writes
      BY DEF Posted, Types
    <2>2. m.kind \in Kinds /\ m.from \in Rank /\ m.to \in Rank
      BY <2>1 DEF Writes
    <2>3. Sent(m.from, m.kind)' = Sent(m.from, m.kind) /\ Taken(m.to, m.kind)' = Taken(m.to, m.kind)
      BY <2>2 DEF LinksStay
    <2>4. QED
      BY <1>1, <2>1, <2>3 DEF OnWire
  <1>6. ASSUME NEW r \in Rank, NEW m \in landed[r] PROVE IsLanded(r, m)'
    <2>1. IsLanded(r, m) /\ m \in Writes
      BY DEF Landed, Types
    <2>2. m.kind \in Kinds /\ m.from \in Rank
      BY <2>1 DEF Writes
    <2>3. Sent(m.from, m.kind)' = Sent(m.from, m.kind) /\ Read(r, m.kind)' = Read(r, m.kind)
      BY <2>2 DEF LinksStay
    <2>4. QED
      BY <1>1, <2>1, <2>3 DEF IsLanded
  <1>7. ASSUME NEW r \in Rank PROVE CountersCount(r)' /\ Complete(r)'
    <2>1. CountersCount(r) /\ Complete(r)
      BY DEF Counted
    <2>2. /\ HostDone(r, 5)' = HostDone(r, 5) /\ HostDone(r, 10)' = HostDone(r, 10)
          /\ GpuDone(r, 4)' = GpuDone(r, 4) /\ GpuDone(r, 7)' = GpuDone(r, 7)
      BY DEF LinksStay
    <2>3. /\ DispatchOwed(r, HostDone(r, 5))' = DispatchOwed(r, HostDone(r, 5))
          /\ CombineOwed(r, HostDone(r, 10))' = CombineOwed(r, HostDone(r, 10))
      BY <2>2, OwedStays, SMT
    <2>4. Tokens(r)' = Tokens(r) /\ Combined(r)' = Combined(r)
      BY DEF Tokens, Combined
    <2>5. Signals \cup {"dispatch", "combine"} \subseteq Counters \ {"tx"}
      BY DEF Signals, Counters
    <2>6. CountersCount(r)'
      BY <1>2, <2>1, <2>2, <2>3, <2>4, <2>5 DEF CountersCount
    <2>7. Complete(r)'
      BY <2>1, <2>2, <2>3, <2>4 DEF Complete
    <2>8. QED
      BY <2>6, <2>7
  <1>8. QED
    BY <1>3, <1>4, <1>5, <1>6, <1>7 DEF Paired, Posted, Landed, Counted

----------------------------------------------------------------------------
(* Steps that send.                                                         *)

TargetsOf(kind, r) ==
    IF kind \in Signals THEN Others(r)
    ELSE IF kind = "overflow" THEN {p \in Remote(r) : p \in num_routed[r][r]} ELSE Remote(r)

\* A host worker sends only when its last writes have been taken by everyone,
\* and nobody takes the new ones before.
LEMMA ReadyToSend ==
    ASSUME Inv, NEW r \in Rank, NEW kind \in Kinds,
           HostNo(host[r]) = SentBy(kind), NEW t \in Others(r)
    PROVE  /\ Sent(r, kind) + 1 = round[r]
           /\ Sent(r, kind) <= Taken(t, kind)
           /\ kind \in Payloads => Sent(r, kind) <= Read(t, kind)
           /\ t \in TargetsOf(kind, r) => Taken(t, kind) < round[r]
  <1> USE Zenon
  <1> Types /\ Ranked /\ Paired
    BY DEF Inv, Linked
  <1>1. t \in Rank /\ t # r
    BY DEF Others
  <1>2. \/ kind = "route" \/ kind = "private" \/ kind = "overflow" \/ kind = "combine"
        \/ kind = "dispatch_barrier" \/ kind = "combine_barrier"
    BY DEF Kinds
  <1>3. /\ SentBy("route") = 1 /\ SentBy("private") = 2 /\ SentBy("overflow") = 4
        /\ SentBy("dispatch_barrier") = 6 /\ SentBy("combine") = 9
        /\ SentBy("combine_barrier") = 11
    BY SMT DEF SentBy
  <1>4. SentBy(kind) \in 1..13
    BY <1>2, <1>3, SMT
  <1>5. /\ HostDone(r, SentBy(kind)) + 1 = round[r]
        /\ \A i \in 1..13 : i < SentBy(kind) => HostDone(r, i) = round[r]
    BY HostAt
  <1>6. Sent(r, kind) + 1 = round[r]
    BY <1>5 DEF Sent
  <1>7. Sent(r, kind) = HostDone(r, 13)
    <2>1. HostDone(r, 13) + 1 = round[r] /\ HostDone(r, 13) \in Nat
      BY HostOrder
    <2>2. Sent(r, kind) \in Nat
      BY <1>4, HostOrder, SMT DEF Sent
    <2>3. QED
      BY <1>6, <2>1, <2>2, SMT
  <1>8. /\ Counts(r) /\ Counts(t) /\ InStep(r) /\ InStep(t)
        /\ HostDone(r, 12) <= HostDone(t, 11) /\ HostDone(r, 7) <= HostDone(t, 6)
        /\ HostDone(t, 3) <= HostDone(r, 1) /\ HostDone(t, 7) <= HostDone(r, 6)
        /\ HostDone(t, 12) <= HostDone(r, 11)
    BY <1>1, Between
  <1>9. Sent(r, kind) \in Nat /\ Taken(t, kind) \in Nat
    BY <1>1, AtMostOneAhead
  <1>10. Sent(r, kind) <= HostDone(t, 11)
    <2>1. HostDone(r, 13) <= HostDone(r, 12) /\ HostDone(r, 12) <= HostDone(t, 11)
      BY <1>8, RankOrder
    <2>2. HostDone(r, 13) \in Nat /\ HostDone(r, 12) \in Nat /\ HostDone(t, 11) \in Nat
      BY <1>1, RankOrder DEF CountsType
    <2>3. QED
      BY <1>7, <2>1, <2>2, SMT
  <1>11. Sent(r, kind) <= Taken(t, kind)
    <2>1. CASE kind = "combine_barrier"
      <3>1. HostDone(r, 7) = round[r]
        BY <2>1, <1>3, <1>5, SMT
      <3>2. QED
        <4>1. /\ HostDone(t, 6) <= HostDone(t, 12) + 1
              /\ HostDone(t, 6) \in Nat /\ HostDone(t, 12) \in Nat /\ round[r] \in Nat
          BY <1>1, RankOrder DEF CountsType
        <4>2. HostDone(r, 7) <= HostDone(t, 6)
          BY <1>8
        <4>3. Sent(r, kind) + 1 = round[r] /\ Sent(r, kind) \in Nat
          BY <1>6, <1>9
        <4>4. Taken(t, kind) = HostDone(t, 12)
          BY <2>1, SentIs
        <4>5. QED
          BY <3>1, <4>1, <4>2, <4>3, <4>4, SMT
    <2>2. CASE kind # "combine_barrier"
      <3>1. HostDone(t, 11) <= Taken(t, kind)
        <4>1. /\ HostDone(t, 11) <= HostDone(t, 3) /\ HostDone(t, 11) <= HostDone(t, 7)
              /\ HostDone(t, 11) <= HostDone(t, 10) /\ HostDone(t, 11) <= GpuDone(t, 4)
          BY <1>1, RankOrder
        <4>2. QED
          BY <2>2, <1>2, <4>1, SentIs
      <3>2. Sent(r, kind) \in Nat /\ Taken(t, kind) \in Nat /\ HostDone(t, 11) \in Nat
        BY <1>1, <1>9, RankOrder DEF CountsType
      <3>3. QED
        BY <1>10, <3>1, <3>2, SMT
    <2>3. QED
      BY <2>1, <2>2
  <1>12. kind \in Payloads => Sent(r, kind) <= Read(t, kind)
    <2>1. HostDone(t, 11) <= GpuDone(t, 7) /\ GpuDone(t, 7) <= GpuDone(t, 4)
      BY <1>1, RankOrder
    <2>2. /\ Sent(r, kind) \in Nat /\ HostDone(t, 11) \in Nat
          /\ GpuDone(t, 4) \in Nat /\ GpuDone(t, 7) \in Nat
      BY <1>1, <1>9, RankOrder DEF CountsType
    <2>3. Sent(r, kind) <= GpuDone(t, 7) /\ Sent(r, kind) <= GpuDone(t, 4)
      BY <1>10, <2>1, <2>2, SMT
    <2>4. QED
      BY <2>3 DEF Read
  <1>13. ASSUME t \in TargetsOf(kind, r) PROVE Taken(t, kind) < round[r]
    <2>1. t \in Remote(r) => r \in Remote(t)
      BY <1>1, RemoteIs, SMT
    <2>2. CASE kind \in Signals
      <3>1. Taken(t, kind) <= Sent(r, kind)
        BY <1>1, <2>2 DEF Paired, Waited
      <3>2. Taken(t, kind) \in Nat /\ Sent(r, kind) \in Nat
        BY <1>9
      <3>3. QED
        BY <3>1, <3>2, <1>6, SMT
    <2>3. CASE kind = "private" \/ kind = "combine"
      <3>1. r \in Remote(t)
        BY <2>1, <2>3, <1>13 DEF TargetsOf, Signals
      <3>2. Taken(t, kind) <= Sent(r, kind)
        BY <1>1, <3>1, <2>3 DEF Paired, Waited
      <3>3. Taken(t, kind) \in Nat /\ Sent(r, kind) \in Nat
        BY <1>9
      <3>4. QED
        BY <3>2, <3>3, <1>6, SMT
    <2>4. CASE kind = "overflow"
      <3>1. r \in Remote(t) /\ t \in num_routed[r][r]
        BY <2>1, <2>4, <1>13 DEF TargetsOf, Signals
      <3>2. GpuDone(r, 1) <= GpuDone(t, 4) => GpuDone(r, 1) <= HostDone(r, 4)
        BY <1>1, <3>1, Apart
      <3>3. HostDone(r, 4) + 1 = round[r] /\ HostDone(r, 1) = round[r]
        BY <2>4, <1>3, <1>5, SMT
      <3>4. GpuDone(t, 4) < round[r]
        <4>1. /\ HostDone(r, 1) <= GpuDone(r, 1) /\ GpuDone(r, 1) <= GpuDone(r, 7) + 1
              /\ GpuDone(r, 7) <= HostDone(r, 10) /\ HostDone(r, 10) <= HostDone(r, 4)
          BY RankOrder
        <4>2. /\ HostDone(r, 1) \in Nat /\ HostDone(r, 4) \in Nat /\ HostDone(r, 10) \in Nat
              /\ GpuDone(r, 1) \in Nat /\ GpuDone(r, 7) \in Nat /\ round[r] \in Nat
              /\ GpuDone(t, 4) \in Nat
          BY <1>1, RankOrder DEF CountsType
        <4>3. QED
          BY <3>2, <3>3, <4>1, <4>2, SMT
      <3>5. QED
        BY <2>4, <3>4, SentIs
    <2>5. QED
      BY <1>2, <2>2, <2>3, <2>4 DEF Signals
  <1>14. QED
    BY <1>6, <1>11, <1>12, <1>13

\* submit_transfer_atomic: the new writes are the only ones of their kind under way.
LEMMA Submitting ==
    ASSUME Inv,
           NEW r \in Rank, NEW kind \in Kinds, NEW s \in 1..Nets,
           HostNo(host[r]) = SentBy(kind), HostStep(r, SentBy(kind)), GpuStays,
           wire' = wire \cup WritesTo(kind, r, TargetsOf(kind, r), s),
           kind \in Signals \cup {"private"} => s = 1,
           UNCHANGED <<node_size, num_routed, landed, counter>>,
           NoneReleased
    PROVE  Linked'
  <1> USE Zenon
  <1> SUFFICES ASSUME Types, Ranked, Paired, Posted, Landed, Counted,
                      \A q \in Rank : "dispatch_recv_flag" \in flags'[q] => "dispatch_recv_flag" \in flags[q]
               PROVE  Paired' /\ Posted' /\ Landed' /\ Counted'
    BY DEF Inv, Linked, NoneReleased
  <1> DEFINE n == SentBy(kind)
             W == WritesTo(kind, r, TargetsOf(kind, r), s)
  <1>1. \A q : Remote(q)' = Remote(q)
    BY RemoteStays
  <1>2. \/ kind = "route" \/ kind = "private" \/ kind = "overflow" \/ kind = "combine"
        \/ kind = "dispatch_barrier" \/ kind = "combine_barrier"
    BY DEF Kinds
  <1>3. n \in {1, 2, 4, 6, 9, 11} /\ n \in 1..13
    BY <1>2, SMT DEF SentBy
  <1> HIDE DEF n
  <1>4. ASSUME NEW q \in Rank, NEW k \in Kinds
        PROVE  /\ Sent(q, k)' = IF q = r /\ k = kind THEN Sent(q, k) + 1 ELSE Sent(q, k)
               /\ Taken(q, k)' = Taken(q, k) /\ Read(q, k)' = Read(q, k)
               /\ Sent(q, k) \in Nat
    <2>1. /\ Sent(q, k)' = IF q = r /\ n = SentBy(k) THEN Sent(q, k) + 1 ELSE Sent(q, k)
          /\ Taken(q, k)' = IF q = r /\ n = TakenBy(k) THEN Taken(q, k) + 1 ELSE Taken(q, k)
          /\ Read(q, k)' = Read(q, k)
      BY <1>3, HostLinks DEF n
    <2>2. \/ k = "route" \/ k = "private" \/ k = "overflow" \/ k = "combine"
          \/ k = "dispatch_barrier" \/ k = "combine_barrier"
      BY DEF Kinds
    <2>3. TakenBy(k) \in {0, 3, 7, 10, 12}
      BY <2>2, SMT DEF TakenBy
    <2>4. n = SentBy(k) <=> k = kind
      BY <1>2, <2>2, SMT DEF n, SentBy
    <2>5. SentBy(k) \in 1..13
      BY <2>2, SMT DEF SentBy
    <2>6. Sent(q, k) \in Nat
      <3>1. \A i \in 1..13 : HostDone(q, i) \in Nat
        BY HostOrder, SMT
      <3>2. QED
        BY <2>5, <3>1 DEF Sent
    <2>7. n # TakenBy(k)
      BY <2>3, <1>3, SMT
    <2>8. QED
      BY <2>1, <2>4, <2>6, <2>7
  <1>5. ASSUME NEW q \in Rank
        PROVE  /\ HostDone(q, 3)' = HostDone(q, 3) /\ HostDone(q, 5)' = HostDone(q, 5)
               /\ HostDone(q, 10)' = HostDone(q, 10) /\ GpuDone(q, 4)' = GpuDone(q, 4)
               /\ GpuDone(q, 7)' = GpuDone(q, 7) /\ GpuDone(q, 1)' = GpuDone(q, 1)
    BY <1>3, SMT DEF n, HostStep, GpuStays
  <1>6. /\ \A t \in Others(r) :
              /\ Sent(r, kind) + 1 = round[r] /\ Sent(r, kind) <= Taken(t, kind)
              /\ kind \in Payloads => Sent(r, kind) <= Read(t, kind)
              /\ t \in TargetsOf(kind, r) => Taken(t, kind) < round[r]
    BY ReadyToSend
  <1>7. /\ TargetsOf(kind, r) \subseteq Others(r)
        /\ kind \notin Signals => \A t \in TargetsOf(kind, r) : r \in Remote(t)
        /\ kind = "overflow" => TargetsOf(kind, r) \subseteq num_routed[r][r]
    BY RemoteIs DEF TargetsOf, Others, Signals
  <1>8. ASSUME NEW m \in W
        PROVE  /\ m.kind = kind /\ m.from = r /\ m.to \in TargetsOf(kind, r)
               /\ m.shard \in 1..s /\ m.round = round[r]
    BY SMT DEF WritesTo
  <1>9. ASSUME NEW m \in wire PROVE ~(m.kind = kind /\ m.from = r)
    <2>1. OnWire(m) /\ m \in Writes
      BY DEF Posted, Types
    <2>2. m.to \in Rank /\ m.round \in Nat
      BY <2>1, AllToAllAssumption, SMT DEF Writes
    <2>3. m.to # m.from
      <3>1. m.kind \in Signals \/ m.kind \in Payloads
        BY <2>1 DEF Writes, Kinds, Signals, Payloads
      <3>2. QED
        BY <3>1, <2>1, <2>2, RemoteIs DEF OnWire
    <2>4. SUFFICES ASSUME m.kind = kind, m.from = r PROVE FALSE
      OBVIOUS
    <2>5. m.to \in Others(r) /\ m.round = Sent(r, kind) /\ Taken(m.to, kind) < m.round
      BY <2>1, <2>2, <2>3, <2>4 DEF OnWire, Others
    <2>6. Taken(m.to, kind) \in Nat
      BY <2>5, AtMostOneAhead DEF Others
    <2>7. QED
      BY <1>6, <2>2, <2>5, <2>6, SMT
  <1>10. ASSUME NEW q \in Rank, NEW m \in landed[q] PROVE ~(m.kind = kind /\ m.from = r)
    <2>1. IsLanded(q, m) /\ m \in Writes
      BY DEF Landed, Types
    <2>2. SUFFICES ASSUME m.kind = kind, m.from = r PROVE FALSE
      OBVIOUS
    <2>3. q \in Others(r) /\ m.round = Sent(r, kind) /\ Read(q, kind) < m.round /\ kind \in Payloads
      BY <2>1, <2>2, RemoteIs DEF IsLanded, Others
    <2>4. m.round \in Nat
      BY <2>1, AllToAllAssumption, SMT DEF Writes
    <2>5. Read(q, kind) \in Nat
      BY <2>3, AtMostOneAhead DEF Others
    <2>6. QED
      BY <1>6, <2>3, <2>4, <2>5, SMT
  <1> HIDE DEF W
  <1>11. wire' = wire \cup W
    BY DEF W
  <1>12. ASSUME NEW q \in Rank, NEW c \in Signals PROVE Heard(q, c)' = Heard(q, c)
    <2>1. c \in Kinds /\ Others(q) \subseteq Rank
      BY DEF Signals, Kinds, Others
    <2>2. Taken(q, c)' = Taken(q, c)
      BY <1>4, <2>1
    <2>3. ASSUME NEW p \in Others(q) PROVE p \in Heard(q, c)' <=> p \in Heard(q, c)
      <3>1. CASE c = kind /\ p = r
        <4>1. q \in Others(r) /\ q \in TargetsOf(kind, r)
          BY <3>1 DEF Others, TargetsOf
        <4>2. Sent(r, kind) <= Taken(q, kind) /\ Sent(r, kind) \in Nat /\ Taken(q, kind) \in Nat
          BY <1>6, <4>1, AtMostOneAhead DEF Others
        <4>3. p \notin Heard(q, c)
          BY <3>1, <4>2, SMT DEF Heard
        <4>4. \E m \in W : m.kind = c /\ m.from = p /\ m.to = q
          <5>1. 1 \in 1..s
            BY SMT
          <5>2. [kind |-> kind, from |-> r, to |-> q, shard |-> 1, round |-> round[r]] \in W
            BY <5>1, <4>1, SMT DEF W, WritesTo
          <5>3. QED
            BY <5>2, <3>1
        <4>5. p \notin Heard(q, c)'
          BY <4>4, <1>11 DEF Heard
        <4>6. QED
          BY <4>3, <4>5
      <3>2. CASE ~(c = kind /\ p = r)
        <4>1. Sent(p, c)' = Sent(p, c)
          BY <1>4, <2>1, <3>2
        <4>2. \A m \in W : ~(m.kind = c /\ m.from = p /\ m.to = q)
          BY <1>8, <3>2
        <4>3. QED
          BY <2>2, <4>1, <4>2, <1>11 DEF Heard
      <3>3. QED
        BY <3>1, <3>2
    <2>4. Heard(q, c) \subseteq Others(q) /\ Heard(q, c)' \subseteq Others(q)
      BY DEF Heard, Others, Rank
    <2>5. QED
      BY <2>3, <2>4
  <1>13. ASSUME NEW p \in Rank, NEW q \in Rank PROVE Waited(p, q)'
    <2>1. Waited(p, q)
      BY DEF Paired
    <2>2. Signals \cup {"combine", "private", "overflow"} \subseteq Kinds
      BY DEF Signals, Kinds
    <2>3. ASSUME NEW k \in Kinds, Taken(q, k) <= Sent(p, k), p # q
          PROVE  Taken(q, k)' <= Sent(p, k)'
      <3>1. Taken(q, k) \in Nat /\ Sent(p, k) \in Nat
        BY <2>3, AtMostOneAhead
      <3>2. QED
        BY <2>3, <3>1, <1>4, SMT
    <2>4. p \in Remote(q) => p # q
      BY RemoteIs
    <2>5. p # q => \A c \in Signals : Taken(q, c)' <= Sent(p, c)'
      BY <2>1, <2>2, <2>3 DEF Waited
    <2>6. p \in Remote(q) => /\ Taken(q, "combine")' <= Sent(p, "combine")'
                             /\ Taken(q, "private")' <= Sent(p, "private")'
      BY <2>1, <2>2, <2>3, <2>4 DEF Waited
    <2>7. p \in Remote(q) /\ q \in num_routed[p][p] /\ GpuDone(p, 1)' <= Taken(q, "overflow")'
            => GpuDone(p, 1)' <= Sent(p, "overflow")'
      <3>1. /\ GpuDone(p, 1)' = GpuDone(p, 1) /\ Taken(q, "overflow")' = Taken(q, "overflow")
            /\ GpuDone(p, 1) \in Nat
        <4>1. GpuDone(p, 1) \in Nat
          BY RankOrder DEF CountsType
        <4>2. QED
          BY <1>4, <1>5, <2>2, <4>1
      <3>2. Sent(p, "overflow")' \in Nat /\ Sent(p, "overflow") \in Nat
            /\ Sent(p, "overflow") <= Sent(p, "overflow")'
        <4>1. /\ Sent(p, "overflow")' = Sent(p, "overflow") + 1
                   \/ Sent(p, "overflow")' = Sent(p, "overflow")
              /\ Sent(p, "overflow") \in Nat
          BY <1>4, <2>2
        <4>2. QED
          BY <4>1, SMT
      <3>3. p \in Remote(q) /\ q \in num_routed[p][p] /\ GpuDone(p, 1) <= Taken(q, "overflow")
              => GpuDone(p, 1) <= Sent(p, "overflow")
        BY <2>1 DEF Waited
      <3>4. QED
        BY <3>1, <3>2, <3>3, SMT
    <2>8. QED
      BY <1>1, <2>5, <2>6, <2>7 DEF Waited
  <1>14. ASSUME NEW p \in Rank, NEW q \in Rank PROVE TableCopied(p, q)'
    <2>1. TableCopied(p, q)
      BY DEF Paired
    <2>2. Heard(q, "route")' = Heard(q, "route")
      BY <1>12 DEF Signals
    <2>3. QED
      BY <2>1, <2>2, <1>5 DEF TableCopied
  <1>15. ASSUME NEW m \in wire' PROVE OnWire(m)'
    <2>1. CASE m \in wire
      <3>1. OnWire(m) /\ m \in Writes
        BY <2>1 DEF Posted, Types
      <3>2. m.kind \in Kinds /\ m.from \in Rank /\ m.to \in Rank
        BY <3>1 DEF Writes
      <3>3. ~(m.kind = kind /\ m.from = r)
        BY <2>1, <1>9
      <3>4. Sent(m.from, m.kind)' = Sent(m.from, m.kind)
            /\ Taken(m.to, m.kind)' = Taken(m.to, m.kind)
        BY <1>4, <3>2, <3>3
      <3>5. QED
        BY <1>1, <3>1, <3>4 DEF OnWire
    <2>2. CASE m \in W
      <3>1. /\ m.kind = kind /\ m.from = r /\ m.to \in TargetsOf(kind, r)
            /\ m.shard \in 1..s /\ m.round = round[r]
        BY <2>2, <1>8
      <3>2. m.to \in Others(r) /\ m.to \in Rank /\ m.to # r
        BY <3>1, <1>7 DEF Others
      <3>3. m.round = Sent(r, kind)'
        BY <1>4, <1>6, <3>1, <3>2
      <3>4. Taken(m.to, kind)' < m.round
        BY <1>4, <1>6, <3>1, <3>2
      <3>5. kind \in Payloads => r \in Remote(m.to)
        BY <1>7, <3>1 DEF Payloads, Signals
      <3>6. kind = "overflow" => m.to \in num_routed[r][r]
        BY <1>7, <3>1
      <3>7. kind \in Signals \cup {"private"} => m.shard = 1
        BY <3>1, SMT
      <3>8. QED
        BY <1>1, <3>1, <3>2, <3>3, <3>4, <3>5, <3>6, <3>7 DEF OnWire
    <2>3. QED
      BY <2>1, <2>2, <1>11
  <1>16. ASSUME NEW q \in Rank, NEW m \in landed[q] PROVE IsLanded(q, m)'
    <2>1. IsLanded(q, m) /\ m \in Writes
      BY DEF Landed, Types
    <2>2. m.kind \in Kinds /\ m.from \in Rank
      BY <2>1 DEF Writes
    <2>3. ~(m.kind = kind /\ m.from = r)
      BY <1>10
    <2>4. Sent(m.from, m.kind)' = Sent(m.from, m.kind) /\ Read(q, m.kind)' = Read(q, m.kind)
      BY <1>4, <2>2, <2>3
    <2>5. m \notin wire'
      BY <2>1, <2>3, <1>8, <1>11 DEF IsLanded
    <2>6. QED
      BY <1>1, <2>1, <2>4, <2>5 DEF IsLanded
  <1>17. ASSUME NEW q \in Rank PROVE CountersCount(q)' /\ Complete(q)'
    <2>1. CountersCount(q) /\ Complete(q)
      BY DEF Counted
    <2>2. /\ HostDone(q, 5)' = HostDone(q, 5) /\ HostDone(q, 10)' = HostDone(q, 10)
          /\ GpuDone(q, 4)' = GpuDone(q, 4) /\ GpuDone(q, 7)' = GpuDone(q, 7)
      BY <1>5
    <2>3. /\ DispatchOwed(q, HostDone(q, 5))' = DispatchOwed(q, HostDone(q, 5))
          /\ CombineOwed(q, HostDone(q, 10))' = CombineOwed(q, HostDone(q, 10))
      BY <2>2, OwedStays
    <2>4. Tokens(q)' = Tokens(q) /\ Combined(q)' = Combined(q)
      BY DEF Tokens, Combined
    <2>5. CountersCount(q)'
      BY <1>12, <2>1, <2>2, <2>3, <2>4 DEF CountersCount
    <2>6. Complete(q)'
      BY <2>1, <2>2, <2>3, <2>4 DEF Complete
    <2>7. QED
      BY <2>5, <2>6
  <1>18. Paired' /\ Posted' /\ Landed' /\ Counted'
    BY <1>13, <1>14, <1>15, <1>16, <1>17 DEF Paired, Posted, Landed, Counted
  <1>19. QED
    BY <1>18

----------------------------------------------------------------------------
(* A new routing table.                                                     *)

\* a2a_dispatch_send overwrites the routing table: nobody needs the last one.
LEMMA NewTable ==
    ASSUME Inv,
           NEW r \in Rank, HostStays, GpuStep(r, 1), GpuNo(gpu[r]) = 1,
           NEW S \in SUBSET Rank, num_routed' = [num_routed EXCEPT ![r][r] = S],
           UNCHANGED <<node_size, counter, landed, wire>>,
           NoneReleased
    PROVE  Linked'
  <1> USE Zenon
  <1> SUFFICES ASSUME Types, Ranked, Paired, Posted, Landed, Counted,
                      \A q \in Rank : "dispatch_recv_flag" \in flags'[q] => "dispatch_recv_flag" \in flags[q]
               PROVE  Paired' /\ Posted' /\ Landed' /\ Counted'
    BY DEF Inv, Linked, NoneReleased
  <1>1. \A q : Remote(q)' = Remote(q)
    BY RemoteStays
  <1>2. ASSUME NEW q \in Rank, NEW k \in Kinds
        PROVE  /\ Taken(q, k)' = Taken(q, k) /\ Sent(q, k)' = Sent(q, k)
               /\ Read(q, k)' = Read(q, k)
    BY GpuLinks, SMT
  <1>3. ASSUME NEW q \in Rank
        PROVE  /\ GpuDone(q, 1)' = IF q = r THEN GpuDone(q, 1) + 1 ELSE GpuDone(q, 1)
               /\ HostDone(q, 3)' = HostDone(q, 3) /\ HostDone(q, 5)' = HostDone(q, 5)
               /\ HostDone(q, 10)' = HostDone(q, 10)
               /\ GpuDone(q, 4)' = GpuDone(q, 4) /\ GpuDone(q, 7)' = GpuDone(q, 7)
    BY SMT DEF GpuStep, HostStays
  <1>4. \A p, q \in Rank : num_routed'[p][q] = IF p = r /\ q = r THEN S ELSE num_routed[p][q]
    BY DEF Types
  <1>5. ASSUME NEW q \in Rank, NEW c \in Signals PROVE Heard(q, c)' = Heard(q, c)
    <2>1. c \in Kinds /\ Others(q) \subseteq Rank
      BY DEF Signals, Kinds, Others
    <2>2. Taken(q, c)' = Taken(q, c) /\ \A p \in Others(q) : Sent(p, c)' = Sent(p, c)
      BY <1>2, <2>1
    <2>3. QED
      BY <2>2 DEF Heard
  <1>6. /\ HostDone(r, 1) <= HostDone(r, 7) /\ HostDone(r, 1) <= HostDone(r, 10)
        /\ HostDone(r, 4) <= HostDone(r, 1) /\ HostDone(r, 2) <= GpuDone(r, 1)
        /\ CountsType(r)
    <2>1. CountsType(r)
      BY RankOrder
    <2>2. GpuDone(r, 1) + 1 = gpu_round[r] /\ GpuDone(r, 7) + 1 = gpu_round[r]
      BY GpuAt, CountsHold DEF Counts
    <2>3. /\ HostDone(r, 1) <= GpuDone(r, 1) /\ HostDone(r, 2) <= GpuDone(r, 1)
          /\ GpuDone(r, 7) <= HostDone(r, 10) /\ HostDone(r, 10) <= HostDone(r, 7)
          /\ HostDone(r, 4) <= HostDone(r, 1)
      BY RankOrder
    <2>4. /\ HostDone(r, 1) \in Nat /\ HostDone(r, 10) \in Nat /\ HostDone(r, 7) \in Nat
          /\ GpuDone(r, 1) \in Nat /\ GpuDone(r, 7) \in Nat
      BY <2>1 DEF CountsType
    <2>5. HostDone(r, 1) <= HostDone(r, 7) /\ HostDone(r, 1) <= HostDone(r, 10)
      BY <2>2, <2>3, <2>4, SMT
    <2>6. QED
      BY <2>1, <2>3, <2>5
  \* Every other rank has done with the last table.
  <1>7. ASSUME NEW q \in Others(r)
        PROVE  /\ CountsType(q) /\ HostDone(r, 1) <= HostDone(q, 5)
               /\ HostDone(q, 5) <= HostDone(q, 3) /\ HostDone(q, 3) <= HostDone(r, 1)
    <2>1. q \in Rank /\ q # r
      BY DEF Others
    <2>2. HostDone(q, 3) <= HostDone(r, 1) /\ HostDone(r, 7) <= HostDone(q, 6) /\ Counts(q)
      BY <2>1, Between
    <2>3. CountsType(q) /\ HostDone(q, 6) <= HostDone(q, 5) /\ HostDone(q, 5) <= HostDone(q, 3)
      BY <2>1, RankOrder
    <2>4. /\ HostDone(q, 6) \in Nat /\ HostDone(q, 5) \in Nat
          /\ HostDone(r, 1) \in Nat /\ HostDone(r, 7) \in Nat
      BY <1>6, <2>3 DEF CountsType
    <2>5. HostDone(r, 1) <= HostDone(q, 5)
      BY <1>6, <2>2, <2>3, <2>4, SMT
    <2>6. QED
      BY <2>2, <2>3, <2>5
  <1>8. ASSUME NEW q \in Rank, r \in Remote(q)
        PROVE  /\ q \in Others(r) /\ GpuDone(q, 4) \in Nat
               /\ HostDone(r, 4) <= GpuDone(q, 4) /\ GpuDone(q, 4) <= GpuDone(r, 1)
               /\ HostDone(q, 5) <= GpuDone(q, 4)
    <2>1. q \in Others(r) /\ q \in Remote(r)
      BY <1>8, RemoteIs DEF Others
    <2>2. HostDone(r, 10) <= HostDone(q, 9) /\ GpuDone(q, 4) <= HostDone(r, 2)
      BY <1>8, <2>1, Apart
    <2>3. /\ HostDone(q, 9) <= GpuDone(q, 4) /\ HostDone(r, 1) <= HostDone(r, 10)
          /\ HostDone(r, 4) <= HostDone(r, 1) /\ HostDone(r, 2) <= GpuDone(r, 1)
          /\ HostDone(q, 5) <= HostDone(q, 3) /\ HostDone(q, 3) <= HostDone(r, 1)
      BY <1>6, <1>7, <2>1, RankOrder
    <2>4. /\ HostDone(q, 3) \in Nat /\ HostDone(q, 5) \in Nat /\ HostDone(q, 9) \in Nat
          /\ GpuDone(q, 4) \in Nat
      BY RankOrder DEF CountsType
    <2>5. /\ HostDone(r, 1) \in Nat /\ HostDone(r, 2) \in Nat /\ HostDone(r, 4) \in Nat
          /\ HostDone(r, 10) \in Nat /\ GpuDone(r, 1) \in Nat
      BY <1>6 DEF CountsType
    <2>6. HostDone(r, 1) <= GpuDone(q, 4)
      BY <2>2, <2>3, <2>4, <2>5, SMT
    <2>7. QED
      BY <2>1, <2>2, <2>3, <2>4, <2>5, <2>6, SMT
  <1>9. ASSUME NEW p \in Rank, NEW q \in Rank PROVE Waited(p, q)'
    <2>1. Waited(p, q)
      BY DEF Paired
    <2>2. Signals \cup {"combine", "private", "overflow"} \subseteq Kinds
      BY DEF Signals, Kinds
    <2>3. \A k \in Signals \cup {"combine", "private", "overflow"} :
              Taken(q, k)' = Taken(q, k) /\ Sent(p, k)' = Sent(p, k)
      BY <1>2, <2>2
    <2>4. CASE p # r
      <3>1. GpuDone(p, 1)' = GpuDone(p, 1) /\ num_routed'[p][p] = num_routed[p][p]
        BY <1>3, <1>4, <2>4, SMT
      <3>2. QED
        BY <1>1, <2>1, <2>3, <3>1 DEF Waited
    <2>5. CASE p = r
      <3>1. p \in Remote(q) => ~(GpuDone(p, 1)' <= Taken(q, "overflow")')
        <4>1. ASSUME p \in Remote(q) PROVE ~(GpuDone(p, 1)' <= Taken(q, "overflow")')
          <5>1. GpuDone(q, 4) <= GpuDone(r, 1) /\ GpuDone(q, 4) \in Nat
            BY <1>8, <2>5, <4>1
          <5>2. GpuDone(r, 1) \in Nat
            BY <1>6 DEF CountsType
          <5>3. GpuDone(p, 1)' = GpuDone(r, 1) + 1 /\ Taken(q, "overflow")' = GpuDone(q, 4)
            BY <1>3, <2>3, <2>5, SentIs
          <5>4. QED
            BY <5>2, <5>1, <5>3, SMT
        <4>2. QED
          BY <4>1
      <3>2. QED
        BY <1>1, <2>1, <2>3, <3>1 DEF Waited
    <2>6. QED
      BY <2>4, <2>5
  <1>10. ASSUME NEW p \in Rank, NEW q \in Rank PROVE TableCopied(p, q)'
    <2>1. TableCopied(p, q)
      BY DEF Paired
    <2>2. Heard(q, "route")' = Heard(q, "route")
      BY <1>5 DEF Signals
    <2>3. CASE p = q
      <3>1. p \notin Heard(q, "route")
        BY <2>3 DEF Heard, Others
      <3>2. QED
        BY <2>2, <2>3, <3>1 DEF TableCopied
    <2>4. CASE p # q /\ p # r
      <3>1. num_routed'[q][p] = num_routed[q][p] /\ num_routed'[p][p] = num_routed[p][p]
        BY <1>4, <2>4, SMT
      <3>2. QED
        BY <1>3, <2>1, <2>2, <3>1 DEF TableCopied
    <2>5. CASE p # q /\ p = r
      <3>1. q \in Others(r)
        BY <2>5 DEF Others
      <3>2. ~(HostDone(q, 5)' < HostDone(q, 3)')
        <4>1. HostDone(q, 3) <= HostDone(r, 1) /\ HostDone(r, 1) <= HostDone(q, 5)
          BY <1>7, <3>1
        <4>2. HostDone(q, 3) \in Nat /\ HostDone(r, 1) \in Nat /\ HostDone(q, 5) \in Nat
          BY <1>6, <1>7, <3>1 DEF CountsType
        <4>3. HostDone(q, 5)' = HostDone(q, 5) /\ HostDone(q, 3)' = HostDone(q, 3)
          BY <1>3
        <4>4. QED
          BY <4>1, <4>2, <4>3, SMT
      <3>3. ~(Sent(p, "route") > Taken(q, "route"))
        <4>1. HostDone(r, 1) <= HostDone(q, 5) /\ HostDone(q, 5) <= HostDone(q, 3)
          BY <1>7, <3>1
        <4>2. HostDone(q, 3) \in Nat /\ HostDone(r, 1) \in Nat /\ HostDone(q, 5) \in Nat
          BY <1>6, <1>7, <3>1 DEF CountsType
        <4>3. Sent(p, "route") = HostDone(r, 1) /\ Taken(q, "route") = HostDone(q, 3)
          BY <2>5, SentIs
        <4>4. QED
          BY <4>1, <4>2, <4>3, SMT
      <3>4. p \notin Heard(q, "route")
        BY <3>3 DEF Heard
      <3>5. QED
        BY <2>2, <3>2, <3>4 DEF TableCopied
    <2>6. QED
      BY <2>3, <2>4, <2>5
  <1>11. ASSUME NEW m \in wire PROVE OnWire(m)'
    <2>1. OnWire(m) /\ m \in Writes
      BY DEF Posted, Types
    <2>2. m.kind \in Kinds /\ m.from \in Rank /\ m.to \in Rank
      BY <2>1 DEF Writes
    <2>3. Sent(m.from, m.kind)' = Sent(m.from, m.kind) /\ Taken(m.to, m.kind)' = Taken(m.to, m.kind)
      BY <1>2, <2>2
    <2>4. m.kind = "overflow" => m.from # r
      <3>1. ASSUME m.kind = "overflow", m.from = r PROVE FALSE
        <4>1. r \in Remote(m.to) /\ m.round = HostDone(r, 4) /\ GpuDone(m.to, 4) < m.round
          BY <2>1, <3>1, SentIs DEF OnWire, Payloads
        <4>2. QED
          <5>1. HostDone(r, 4) <= GpuDone(m.to, 4) /\ GpuDone(m.to, 4) \in Nat
            BY <1>8, <2>2, <4>1
          <5>2. HostDone(r, 4) \in Nat
            BY <1>6 DEF CountsType
          <5>3. QED
            BY <4>1, <5>1, <5>2, SMT
      <3>2. QED
        BY <3>1
    <2>5. m.kind = "overflow" => num_routed'[m.from][m.from] = num_routed[m.from][m.from]
      BY <1>4, <2>2, <2>4, SMT
    <2>6. QED
      BY <1>1, <2>1, <2>3, <2>5 DEF OnWire
  <1>12. ASSUME NEW q \in Rank, NEW m \in landed[q] PROVE IsLanded(q, m)'
    <2>1. IsLanded(q, m) /\ m \in Writes
      BY DEF Landed, Types
    <2>2. m.kind \in Kinds /\ m.from \in Rank
      BY <2>1 DEF Writes
    <2>3. Sent(m.from, m.kind)' = Sent(m.from, m.kind) /\ Read(q, m.kind)' = Read(q, m.kind)
      BY <1>2, <2>2
    <2>4. m.kind = "overflow" => m.from # r
      <3>1. ASSUME m.kind = "overflow", m.from = r PROVE FALSE
        <4>1. r \in Remote(q) /\ m.round = HostDone(r, 4) /\ GpuDone(q, 4) < m.round
          BY <2>1, <3>1, SentIs DEF IsLanded, Read
        <4>2. QED
          <5>1. HostDone(r, 4) <= GpuDone(q, 4) /\ GpuDone(q, 4) \in Nat
            BY <1>8, <4>1
          <5>2. HostDone(r, 4) \in Nat
            BY <1>6 DEF CountsType
          <5>3. QED
            BY <4>1, <5>1, <5>2, SMT
      <3>2. QED
        BY <3>1
    <2>5. m.kind = "overflow" => num_routed'[m.from][m.from] = num_routed[m.from][m.from]
      BY <1>4, <2>2, <2>4, SMT
    <2>6. QED
      BY <1>1, <2>1, <2>3, <2>5 DEF IsLanded
  <1>13. ASSUME NEW q \in Rank PROVE CountersCount(q)' /\ Complete(q)'
    <2>1. CountersCount(q) /\ Complete(q) /\ FlagsSay(q)
      BY DEF Counted, Ranked
    <2>2. Tokens(q)' = Tokens(q) /\ Combined(q)' = Combined(q)
      BY DEF Tokens, Combined
    <2>3. /\ HostDone(q, 5)' = HostDone(q, 5) /\ HostDone(q, 10)' = HostDone(q, 10)
          /\ GpuDone(q, 4)' = GpuDone(q, 4) /\ GpuDone(q, 7)' = GpuDone(q, 7)
          /\ GpuDone(q, 4) \in Nat /\ HostDone(q, 5) \in Nat
      BY <1>3, CountsHold DEF Counts, CountsType
    <2>4. CombineOwed(q, HostDone(q, 10))' = CombineOwed(q, HostDone(q, 10))
      <3>1. RemoteRanks(Shape, q)' = RemoteRanks(Shape, q)
        BY <1>1 DEF Remote
      <3>2. QED
        BY <2>3, <3>1, SMT DEF CombineOwed
    <2>5. CASE r \notin Remote(q)
      <3>1. DispatchOwed(q, HostDone(q, 5))' = DispatchOwed(q, HostDone(q, 5))
        <4>1. \A p \in Remote(q) : num_routed'[p][p] = num_routed[p][p]
          BY <1>4, <2>5, RemoteIs, SMT
        <4>2. QED
          BY <2>3, <4>1, OwedStays, SMT
      <3>2. CountersCount(q)'
        BY <1>5, <2>1, <2>2, <2>3, <3>1 DEF CountersCount
      <3>3. Complete(q)'
        BY <2>1, <2>2, <2>3, <2>4, <3>1 DEF Complete
      <3>4. QED
        BY <3>2, <3>3
    <2>6. CASE r \in Remote(q)
      <3>1. ~(GpuDone(q, 4) < HostDone(q, 5))
        BY <1>8, <2>3, <2>6, SMT
      <3>2. CountersCount(q)'
        BY <1>5, <2>1, <2>2, <2>3, <3>1 DEF CountersCount
      <3>3. Complete(q)'
        BY <2>1, <2>2, <2>3, <2>4, <3>1 DEF Complete, FlagsSay
      <3>4. QED
        BY <3>2, <3>3, SMT
    <2>7. QED
      BY <2>5, <2>6
  <1>14. QED
    BY <1>9, <1>10, <1>11, <1>12, <1>13 DEF Paired, Posted, Landed, Counted

----------------------------------------------------------------------------
(* What a rank is owed.                                                     *)

\* A write of dispatched tokens that was not read is one the rank is owed next.
LEMMA TokenOwed ==
    ASSUME Inv, NEW r \in Rank, NEW m \in Writes,
           m.kind \in {"private", "overflow"}, m.to = r, m.from \in Remote(r),
           m.kind = "private" => m.shard = 1,
           m.kind = "overflow" => r \in num_routed[m.from][m.from],
           m.round = Sent(m.from, m.kind), GpuDone(r, 4) < m.round
    PROVE  m \in DispatchOwed(r, GpuDone(r, 4) + 1)
  <1> USE Zenon
  <1> Types /\ Ranked /\ Paired
    BY DEF Inv, Linked
  <1>1. /\ m.from \in Rank /\ m.from # r /\ m.kind \in Kinds /\ m.shard \in 1..Nets
        /\ m = [kind |-> m.kind, from |-> m.from, to |-> m.to, shard |-> m.shard,
                round |-> m.round]
    BY RemoteIs DEF Writes
  <1>2. Read(r, m.kind) = GpuDone(r, 4) /\ m.kind \in Payloads
    BY DEF Read, Payloads
  <1>3. m.round <= GpuDone(r, 4) + 1 /\ m.round \in Nat /\ GpuDone(r, 4) \in Nat
    BY <1>1, <1>2, AtMostOneAhead
  <1>4. m.round = GpuDone(r, 4) + 1
    BY <1>3, SMT
  <1>5. CASE m.kind = "private"
    <2>1. m = [kind |-> "private", from |-> m.from, to |-> r, shard |-> 1,
               round |-> GpuDone(r, 4) + 1]
      BY <1>1, <1>4, <1>5
    <2>2. QED
      BY <2>1, SMT DEF DispatchOwed, Remote
  <1>6. CASE m.kind = "overflow"
    <2>1. m = [kind |-> "overflow", from |-> m.from, to |-> r, shard |-> m.shard,
               round |-> GpuDone(r, 4) + 1]
      BY <1>1, <1>4, <1>6
    <2>2. m.from \in {q \in RemoteRanks(Shape, r) : r \in num_routed[q][q]}
      BY <1>6 DEF Remote
    <2>3. QED
      BY <1>1, <2>1, <2>2, SMT DEF DispatchOwed
  <1>7. QED
    BY <1>5, <1>6

\* And one of combined tokens.
LEMMA CombinedOwed ==
    ASSUME Inv, NEW r \in Rank, NEW m \in Writes,
           m.kind = "combine", m.to = r, m.from \in Remote(r),
           m.round = Sent(m.from, m.kind), GpuDone(r, 7) < m.round
    PROVE  m \in CombineOwed(r, GpuDone(r, 7) + 1)
  <1> Types /\ Ranked /\ Paired
    BY Zenon DEF Inv, Linked
  <1>1. /\ m.from \in Rank /\ m.from # r /\ m.kind \in Kinds /\ m.shard \in 1..Nets
        /\ m = [kind |-> m.kind, from |-> m.from, to |-> m.to, shard |-> m.shard,
                round |-> m.round]
    BY RemoteIs, Zenon DEF Writes
  <1>2. Read(r, m.kind) = GpuDone(r, 7) /\ m.kind \in Payloads
    BY Zenon DEF Read, Payloads
  <1>3. m.round <= GpuDone(r, 7) + 1 /\ m.round \in Nat /\ GpuDone(r, 7) \in Nat
    BY <1>1, <1>2, AtMostOneAhead, Zenon
  <1>4. m = [kind |-> "combine", from |-> m.from, to |-> r, shard |-> m.shard,
             round |-> GpuDone(r, 7) + 1]
    BY <1>1, <1>3
  <1>5. QED
    BY <1>1, <1>4 DEF CombineOwed, Remote

\* What has landed is owed, and there is finitely much of it.
LEMMA LandedOwed ==
    ASSUME SetSizes, Inv, NEW r \in Rank
    PROVE  /\ Tokens(r) \subseteq DispatchOwed(r, GpuDone(r, 4) + 1)
           /\ Combined(r) \subseteq CombineOwed(r, GpuDone(r, 7) + 1)
           /\ IsFiniteSet(Tokens(r)) /\ Cardinality(Tokens(r)) \in Nat
           /\ IsFiniteSet(Combined(r)) /\ Cardinality(Combined(r)) \in Nat
  <1> USE Zenon
  <1> Types /\ Ranked /\ Paired /\ Landed
    BY DEF Inv, Linked
  <1>1. ASSUME NEW m \in landed[r] PROVE m \in Writes /\ IsLanded(r, m)
    BY DEF Landed, Types
  <1>2. ASSUME NEW m \in Tokens(r) PROVE m \in DispatchOwed(r, GpuDone(r, 4) + 1)
    <2>1. m \in Writes /\ IsLanded(r, m) /\ m.kind # "combine"
      BY <1>1 DEF Tokens
    <2>2. m.kind \in {"private", "overflow"} /\ Read(r, m.kind) = GpuDone(r, 4)
      BY <2>1 DEF IsLanded, Payloads, Read
    <2>3. QED
      BY <2>1, <2>2, TokenOwed DEF IsLanded
  <1>3. ASSUME NEW m \in Combined(r) PROVE m \in CombineOwed(r, GpuDone(r, 7) + 1)
    <2>1. m \in Writes /\ IsLanded(r, m) /\ m.kind = "combine"
      BY <1>1 DEF Combined
    <2>2. Read(r, m.kind) = GpuDone(r, 7)
      BY <2>1 DEF Read
    <2>3. QED
      BY <2>1, <2>2, CombinedOwed DEF IsLanded
  <1>4. Tokens(r) \subseteq Writes /\ Combined(r) \subseteq Writes
    BY <1>1 DEF Tokens, Combined
  <1>5. /\ IsFiniteSet(Tokens(r)) /\ Cardinality(Tokens(r)) \in Nat
        /\ IsFiniteSet(Combined(r)) /\ Cardinality(Combined(r)) \in Nat
    BY <1>4 DEF SetSizes
  <1>6. QED
    BY <1>2, <1>3, <1>5

\* The signals heard are those of peers.
LEMMA HeardCount ==
    ASSUME SetSizes, NEW r \in Rank, NEW c
    PROVE  /\ Heard(r, c) \subseteq Others(r) /\ IsFiniteSet(Heard(r, c))
           /\ Cardinality(Heard(r, c)) \in Nat /\ Cardinality(Heard(r, c)) <= World - 1
           /\ Cardinality(Heard(r, c)) >= World - 1 => Heard(r, c) = Others(r)
  <1>1. Heard(r, c) \subseteq Others(r)
    BY Zenon DEF Heard
  <1>2. IsFiniteSet(Others(r)) /\ Cardinality(Others(r)) = World - 1
    BY Zenon DEF SetSizes
  <1>3. /\ IsFiniteSet(Heard(r, c)) /\ Cardinality(Heard(r, c)) <= World - 1
        /\ Cardinality(Others(r)) = Cardinality(Heard(r, c)) => Others(r) = Heard(r, c)
    BY <1>1, <1>2, PartSize, Zenon
  <1>4. Cardinality(Heard(r, c)) \in Nat
    BY <1>1, <1>2, PartSize, Zenon
  <1>5. QED
    BY <1>1, <1>2, <1>3, <1>4, AllToAllAssumption

----------------------------------------------------------------------------
(* Steps that take.                                                         *)

\* ImmCounter::wait for the signals of all peers: each of them has been heard.
LEMMA TakingSignals ==
    ASSUME SetSizes, Inv,
           NEW r \in Rank, NEW c \in Signals, HostStep(r, TakenBy(c)), GpuStays,
           counter[r][c] >= World - 1, counter'[r][c] = counter[r][c] - (World - 1),
           \A q \in Rank, k \in Counters \ {"tx"} :
                ~(q = r /\ k = c) => counter'[q][k] = counter[q][k],
           UNCHANGED <<node_size, num_routed, landed, wire>>,
           NoneReleased
    PROVE  Linked'
  <1> USE Zenon
  <1> SUFFICES ASSUME Types, Ranked, Paired, Posted, Landed, Counted,
                      \A q \in Rank : "dispatch_recv_flag" \in flags'[q] => "dispatch_recv_flag" \in flags[q]
               PROVE  Paired' /\ Posted' /\ Landed' /\ Counted'
    BY DEF Inv, Linked, NoneReleased
  <1> DEFINE n == TakenBy(c)
  <1>1. \A q : Remote(q)' = Remote(q)
    BY RemoteStays
  <1>2. c = "route" \/ c = "dispatch_barrier" \/ c = "combine_barrier"
    BY DEF Signals
  <1>3. n \in {3, 7, 12} /\ n \in 1..13 /\ (n = 3 <=> c = "route") /\ c \in Kinds /\ c \in Counters
    BY <1>2, SMT DEF TakenBy, Kinds, Counters
  <1> HIDE DEF n
  <1>4. ASSUME NEW q \in Rank, NEW k \in Kinds
        PROVE  /\ Taken(q, k)' = IF q = r /\ k = c THEN Taken(q, k) + 1 ELSE Taken(q, k)
               /\ Sent(q, k)' = Sent(q, k) /\ Read(q, k)' = Read(q, k)
    <2>1. /\ Sent(q, k)' = IF q = r /\ n = SentBy(k) THEN Sent(q, k) + 1 ELSE Sent(q, k)
          /\ Taken(q, k)' = IF q = r /\ n = TakenBy(k) THEN Taken(q, k) + 1 ELSE Taken(q, k)
          /\ Read(q, k)' = Read(q, k)
      BY <1>3, HostLinks, SMT DEF n
    <2>2. \/ k = "route" \/ k = "private" \/ k = "overflow" \/ k = "combine"
          \/ k = "dispatch_barrier" \/ k = "combine_barrier"
      BY DEF Kinds
    <2>3. SentBy(k) \in {1, 2, 4, 6, 9, 11}
      BY <2>2 DEF SentBy
    <2>4. n = TakenBy(k) <=> k = c
      BY <1>2, <2>2, SMT DEF n, TakenBy
    <2>5. QED
      BY <2>1, <2>3, <2>4, <1>3, SMT
  <1>5. ASSUME NEW q \in Rank
        PROVE  /\ HostDone(q, 3)' = IF q = r /\ c = "route" THEN HostDone(q, 3) + 1 ELSE HostDone(q, 3)
               /\ HostDone(q, 5)' = HostDone(q, 5)
               /\ HostDone(q, 10)' = HostDone(q, 10) /\ GpuDone(q, 4)' = GpuDone(q, 4)
               /\ GpuDone(q, 7)' = GpuDone(q, 7) /\ GpuDone(q, 1)' = GpuDone(q, 1)
    BY <1>3, SMT DEF n, HostStep, GpuStays
  <1>6. Heard(r, c) = Others(r)
    BY HeardCount DEF Counted, CountersCount
  <1>7. ASSUME NEW p \in Others(r)
        PROVE  /\ Sent(p, c) = Taken(r, c) + 1 /\ Taken(r, c) \in Nat
               /\ \A m \in wire : ~(m.kind = c /\ m.from = p /\ m.to = r)
    <2>1. p \in Rank /\ p # r /\ p \in Heard(r, c)
      BY <1>6 DEF Others
    <2>2. Sent(p, c) > Taken(r, c) /\ \A m \in wire : ~(m.kind = c /\ m.from = p /\ m.to = r)
      BY <2>1 DEF Heard
    <2>3. Sent(p, c) \in Nat /\ Taken(r, c) \in Nat /\ Sent(p, c) <= Taken(r, c) + 1
      BY <2>1, <1>3, AtMostOneAhead
    <2>4. QED
      BY <2>2, <2>3, SMT
  <1>8. Heard(r, c)' = {}
    <2>1. ASSUME NEW p \in Others(r) PROVE ~(Sent(p, c)' > Taken(r, c)')
      <3>1. Sent(p, c)' = Sent(p, c) /\ Taken(r, c)' = Taken(r, c) + 1
        BY <1>3, <1>4 DEF Others
      <3>2. QED
        BY <3>1, <1>7, SMT
    <2>2. QED
      BY <2>1 DEF Heard, Others, Rank
  <1>9. ASSUME NEW q \in Rank, NEW k \in Signals, ~(q = r /\ k = c)
        PROVE  Heard(q, k)' = Heard(q, k)
    <2>1. k \in Kinds /\ Others(q) \subseteq Rank
      BY DEF Signals, Kinds, Others
    <2>2. Taken(q, k)' = Taken(q, k) /\ \A p \in Others(q) : Sent(p, k)' = Sent(p, k)
      BY <1>4, <1>9, <2>1
    <2>3. QED
      BY <2>2 DEF Heard
  <1>10. ASSUME NEW p \in Rank, NEW q \in Rank PROVE Waited(p, q)'
    <2>1. Waited(p, q)
      BY DEF Paired
    <2>2. /\ Signals \cup {"combine", "private", "overflow"} \subseteq Kinds
          /\ c \notin {"combine", "private", "overflow"}
      BY DEF Signals, Kinds
    <2>3. ASSUME p # q, NEW k \in Signals PROVE Taken(q, k)' <= Sent(p, k)'
      <3>1. CASE q = r /\ k = c
        <4>1. Sent(p, c) = Taken(r, c) + 1 /\ Taken(r, c) \in Nat
          BY <1>7, <2>3, <3>1 DEF Others
        <4>2. QED
          BY <4>1, <3>1, <1>3, <1>4, SMT
      <3>2. CASE ~(q = r /\ k = c)
        BY <3>2, <1>4, <2>1, <2>2, <2>3 DEF Waited
      <3>3. QED
        BY <3>1, <3>2
    <2>4. \A k \in {"combine", "private", "overflow"} :
              Taken(q, k)' = Taken(q, k) /\ Sent(p, k)' = Sent(p, k)
      BY <1>4, <2>2
    <2>5. GpuDone(p, 1)' = GpuDone(p, 1)
      BY <1>5
    <2>6. QED
      BY <1>1, <2>1, <2>3, <2>4, <2>5 DEF Waited
  <1>11. ASSUME NEW p \in Rank, NEW q \in Rank PROVE TableCopied(p, q)'
    <2>1. TableCopied(p, q)
      BY DEF Paired
    <2>2. CASE q = r /\ c = "route"
      <3>1. p # r => num_routed[r][p] = num_routed[p][p]
        BY <2>1, <2>2, <1>6 DEF TableCopied, Others
      <3>2. QED
        BY <2>2, <3>1, <1>8 DEF TableCopied
    <2>3. CASE ~(q = r /\ c = "route")
      <3>1. Heard(q, "route")' = Heard(q, "route")
        BY <2>3, <1>9 DEF Signals
      <3>2. QED
        BY <2>1, <2>3, <3>1, <1>5 DEF TableCopied
    <2>4. QED
      BY <2>2, <2>3
  <1>12. ASSUME NEW m \in wire PROVE OnWire(m)'
    <2>1. OnWire(m) /\ m \in Writes
      BY DEF Posted, Types
    <2>2. m.kind \in Kinds /\ m.from \in Rank /\ m.to \in Rank
      BY <2>1 DEF Writes
    <2>3. ~(m.to = r /\ m.kind = c)
      BY <1>7, <2>1, <2>2 DEF OnWire, Others
    <2>4. Sent(m.from, m.kind)' = Sent(m.from, m.kind) /\ Taken(m.to, m.kind)' = Taken(m.to, m.kind)
      BY <1>4, <2>2, <2>3
    <2>5. QED
      BY <1>1, <2>1, <2>4 DEF OnWire
  <1>13. ASSUME NEW q \in Rank, NEW m \in landed[q] PROVE IsLanded(q, m)'
    <2>1. IsLanded(q, m) /\ m \in Writes
      BY DEF Landed, Types
    <2>2. m.kind \in Kinds /\ m.from \in Rank
      BY <2>1 DEF Writes
    <2>3. Sent(m.from, m.kind)' = Sent(m.from, m.kind) /\ Read(q, m.kind)' = Read(q, m.kind)
      BY <1>4, <2>2
    <2>4. QED
      BY <1>1, <2>1, <2>3 DEF IsLanded
  <1>14. ASSUME NEW q \in Rank PROVE CountersCount(q)' /\ Complete(q)'
    <2>1. CountersCount(q) /\ Complete(q)
      BY DEF Counted
    <2>2. /\ HostDone(q, 5)' = HostDone(q, 5) /\ HostDone(q, 10)' = HostDone(q, 10)
          /\ GpuDone(q, 4)' = GpuDone(q, 4) /\ GpuDone(q, 7)' = GpuDone(q, 7)
      BY <1>5
    <2>3. /\ DispatchOwed(q, HostDone(q, 5))' = DispatchOwed(q, HostDone(q, 5))
          /\ CombineOwed(q, HostDone(q, 10))' = CombineOwed(q, HostDone(q, 10))
      BY <2>2, OwedStays, SMT
    <2>4. Tokens(q)' = Tokens(q) /\ Combined(q)' = Combined(q)
      BY DEF Tokens, Combined
    <2>5. Signals \cup {"dispatch", "combine"} \subseteq Counters \ {"tx"}
          /\ {"dispatch", "combine"} \cap Signals = {}
      BY DEF Signals, Counters
    <2>6. ASSUME NEW k \in Signals PROVE counter'[q][k] = Cardinality(Heard(q, k)')
      <3>1. CASE q = r /\ k = c
        <4>1. Cardinality(Others(r)) = World - 1 /\ Cardinality({}) = 0
          BY DEF SetSizes
        <4>2. counter[r][c] = World - 1
          BY <1>6, <2>1, <3>1, <4>1 DEF CountersCount
        <4>3. counter'[r][c] = 0
          BY <4>2, AllToAllAssumption, SMT
        <4>4. QED
          BY <3>1, <4>1, <4>3, <1>8
      <3>2. CASE ~(q = r /\ k = c)
        BY <3>2, <1>9, <2>1, <2>5 DEF CountersCount
      <3>3. QED
        BY <3>1, <3>2
    <2>7. counter'[q]["dispatch"] = counter[q]["dispatch"]
          /\ counter'[q]["combine"] = counter[q]["combine"]
      BY <2>5
    <2>8. CountersCount(q)'
      BY <2>1, <2>2, <2>3, <2>4, <2>6, <2>7 DEF CountersCount
    <2>9. Complete(q)'
      BY <2>1, <2>2, <2>3, <2>4 DEF Complete
    <2>10. QED
      BY <2>8, <2>9
  <1>15. QED
    BY <1>10, <1>11, <1>12, <1>13, <1>14 DEF Paired, Posted, Landed, Counted

\* GdrCounter::wait(num_recv_tx): the kernel is released at once when all tokens are in.
LEMMA TakingTokens ==
    ASSUME SetSizes, OwedSizes, Inv,
           NEW r \in Rank, HostNo(host[r]) = 5, HostStep(r, 5), GpuStays,
           counter' = [counter EXCEPT ![r]["dispatch"] = @ - NumRecvTx(Shape, r, num_routed[r])],
           UNCHANGED <<node_size, num_routed, landed, wire>>,
           \A q \in Rank : "dispatch_recv_flag" \in flags'[q] =>
                \/ "dispatch_recv_flag" \in flags[q]
                \/ q = r /\ counter[r]["dispatch"] >= NumRecvTx(Shape, r, num_routed[r])
    PROVE  Linked'
  <1> USE Zenon
  <1> SUFFICES ASSUME Types, Ranked, Paired, Posted, Landed, Counted
               PROVE  Paired' /\ Posted' /\ Landed' /\ Counted'
    BY DEF Inv, Linked
  <1>1. \A q : Remote(q)' = Remote(q)
    BY RemoteStays
  <1>2. ASSUME NEW q \in Rank, NEW k \in Kinds
        PROVE  /\ Taken(q, k)' = Taken(q, k) /\ Sent(q, k)' = Sent(q, k)
               /\ Read(q, k)' = Read(q, k)
    <2>1. \/ k = "route" \/ k = "private" \/ k = "overflow" \/ k = "combine"
          \/ k = "dispatch_barrier" \/ k = "combine_barrier"
      BY DEF Kinds
    <2>2. SentBy(k) # 5 /\ TakenBy(k) # 5
      BY <2>1, SMT DEF SentBy, TakenBy
    <2>3. QED
      BY <2>2, HostLinks, SMT
  <1>3. ASSUME NEW q \in Rank
        PROVE  /\ HostDone(q, 5)' = IF q = r THEN HostDone(q, 5) + 1 ELSE HostDone(q, 5)
               /\ HostDone(q, 3)' = HostDone(q, 3)
               /\ HostDone(q, 10)' = HostDone(q, 10) /\ GpuDone(q, 4)' = GpuDone(q, 4)
               /\ GpuDone(q, 7)' = GpuDone(q, 7) /\ GpuDone(q, 1)' = GpuDone(q, 1)
    BY SMT DEF HostStep, GpuStays
  <1>4. ASSUME NEW q \in Rank, NEW c \in Signals PROVE Heard(q, c)' = Heard(q, c)
    <2>1. c \in Kinds /\ Others(q) \subseteq Rank
      BY DEF Signals, Kinds, Others
    <2>2. Taken(q, c)' = Taken(q, c) /\ \A p \in Others(q) : Sent(p, c)' = Sent(p, c)
      BY <1>2, <2>1
    <2>3. QED
      BY <2>2 DEF Heard
  <1>5. ASSUME NEW p \in Rank, NEW q \in Rank PROVE Waited(p, q)'
    <2>1. Waited(p, q)
      BY DEF Paired
    <2>2. Signals \cup {"combine", "private", "overflow"} \subseteq Kinds
      BY DEF Signals, Kinds
    <2>3. QED
      BY <1>1, <1>2, <1>3, <2>1, <2>2 DEF Waited
  <1>6. GpuDone(r, 4) = HostDone(r, 5) /\ HostDone(r, 5) \in Nat /\ HostDone(r, 5) < HostDone(r, 3)
    <2>1. HostDone(r, 5) + 1 = round[r] /\ HostDone(r, 3) = round[r]
      BY HostAt, SMT
    <2>2. /\ HostDone(r, 13) <= HostDone(r, 12) /\ HostDone(r, 12) <= HostDone(r, 11)
          /\ HostDone(r, 11) <= GpuDone(r, 4) /\ GpuDone(r, 4) <= HostDone(r, 5)
      BY RankOrder
    <2>3. /\ HostDone(r, 5) \in Nat /\ GpuDone(r, 4) \in Nat
          /\ HostDone(r, 11) \in Nat /\ HostDone(r, 12) \in Nat
      BY RankOrder DEF CountsType
    <2>4. HostDone(r, 13) + 1 = round[r] /\ HostDone(r, 13) \in Nat
      BY HostOrder
    <2>5. QED
      BY <2>4, <2>1, <2>2, <2>3, SMT
  <1>7. ASSUME NEW p \in Rank, NEW q \in Rank PROVE TableCopied(p, q)'
    <2>1. TableCopied(p, q)
      BY DEF Paired
    <2>2. Heard(q, "route")' = Heard(q, "route")
      BY <1>4 DEF Signals
    <2>3. HostDone(q, 5)' < HostDone(q, 3)' => HostDone(q, 5) < HostDone(q, 3)
      BY <1>3, <1>6
    <2>4. QED
      BY <2>1, <2>2, <2>3 DEF TableCopied
  <1>8. ASSUME NEW m \in wire PROVE OnWire(m)'
    <2>1. OnWire(m) /\ m \in Writes
      BY DEF Posted, Types
    <2>2. m.kind \in Kinds /\ m.from \in Rank /\ m.to \in Rank
      BY <2>1 DEF Writes
    <2>3. Sent(m.from, m.kind)' = Sent(m.from, m.kind) /\ Taken(m.to, m.kind)' = Taken(m.to, m.kind)
      BY <1>2, <2>2
    <2>4. QED
      BY <1>1, <2>1, <2>3 DEF OnWire
  <1>9. ASSUME NEW q \in Rank, NEW m \in landed[q] PROVE IsLanded(q, m)'
    <2>1. IsLanded(q, m) /\ m \in Writes
      BY DEF Landed, Types
    <2>2. m.kind \in Kinds /\ m.from \in Rank
      BY <2>1 DEF Writes
    <2>3. Sent(m.from, m.kind)' = Sent(m.from, m.kind) /\ Read(q, m.kind)' = Read(q, m.kind)
      BY <1>2, <2>2
    <2>4. QED
      BY <1>1, <2>1, <2>3 DEF IsLanded
  <1> DEFINE Owed == DispatchOwed(r, HostDone(r, 5) + 1)
  <1>10. /\ IsFiniteSet(Owed) /\ Cardinality(Owed) \in Nat
         /\ Cardinality(Owed) = NumRecvTx(Shape, r, num_routed[r])
    <2>1. \A p \in Remote(r) : num_routed[r][p] = num_routed[p][p]
      BY <1>6, RemoteIs DEF Paired, TableCopied
    <2>2. QED
      BY <2>1 DEF OwedSizes, SetSizes
  <1>11. Tokens(r) \subseteq Owed /\ Cardinality(Tokens(r)) \in Nat
    BY <1>6, LandedOwed
  <1> HIDE DEF Owed
  <1>12. Cardinality(Tokens(r)) >= Cardinality(Owed) => Tokens(r) = Owed
    <2>1. Cardinality(Tokens(r)) <= Cardinality(Owed)
          /\ (Cardinality(Owed) = Cardinality(Tokens(r)) => Owed = Tokens(r))
      BY <1>10, <1>11 DEF SetSizes
    <2>2. QED
      BY <2>1, <1>10, <1>11, SMT
  <1>13. counter[r]["dispatch"] = Cardinality(Tokens(r)) /\ "dispatch_recv_flag" \notin flags[r]
    <2>1. CountersCount(r) /\ FlagsSay(r)
      BY DEF Counted, Ranked
    <2>2. ~(GpuDone(r, 4) < HostDone(r, 5))
      BY <1>6, SMT
    <2>3. QED
      BY <1>11, <2>1, <2>2, SMT DEF CountersCount, FlagsSay
  <1>14. ASSUME NEW q \in Rank PROVE CountersCount(q)' /\ Complete(q)'
    <2>1. CountersCount(q) /\ Complete(q)
      BY DEF Counted
    <2>2. Tokens(q)' = Tokens(q) /\ Combined(q)' = Combined(q)
      BY DEF Tokens, Combined
    <2>3. /\ HostDone(q, 10)' = HostDone(q, 10)
          /\ GpuDone(q, 4)' = GpuDone(q, 4) /\ GpuDone(q, 7)' = GpuDone(q, 7)
      BY <1>3
    <2>4. CombineOwed(q, HostDone(q, 10))' = CombineOwed(q, HostDone(q, 10))
      BY <2>3, OwedStays
    <2>5. \A c \in Signals : counter'[q][c] = counter[q][c]
      BY SMT DEF Types, Signals, Counters
    <2>6. counter'[q]["combine"] = counter[q]["combine"]
      BY SMT DEF Types, Counters
    <2>7. CASE q # r
      <3>1. HostDone(q, 5)' = HostDone(q, 5) /\ counter'[q]["dispatch"] = counter[q]["dispatch"]
        BY <2>7, <1>3 DEF Types, Counters
      <3>2. DispatchOwed(q, HostDone(q, 5))' = DispatchOwed(q, HostDone(q, 5))
        BY <3>1, OwedStays
      <3>3. CountersCount(q)'
        BY <1>4, <2>1, <2>2, <2>3, <2>5, <2>6, <3>1, <3>2 DEF CountersCount
      <3>4. Complete(q)'
        BY <2>1, <2>2, <2>3, <2>4, <2>7, <3>1, <3>2 DEF Complete
      <3>5. QED
        BY <3>3, <3>4
    <2>8. CASE q = r
      <3>1. HostDone(r, 5)' = HostDone(r, 5) + 1
        BY <1>3
      <3>2. DispatchOwed(r, HostDone(r, 5))' = Owed
        BY <3>1, OwedStays DEF Owed
      <3>3. counter'[r]["dispatch"] = Cardinality(Tokens(r)) - Cardinality(Owed)
        BY <1>10, <1>13, SMT DEF Types, Counters
      <3>4. GpuDone(r, 4)' < HostDone(r, 5)'
        BY <1>6, <2>3, <2>8, <3>1, SMT
      <3>5. CountersCount(q)'
        BY <1>4, <2>1, <2>2, <2>3, <2>5, <2>6, <2>8, <3>2, <3>3, <3>4 DEF CountersCount
      <3>6. "dispatch_recv_flag" \in flags'[r] => Tokens(r) = Owed
        BY <1>10, <1>12, <1>13
      <3>7. Complete(q)'
        BY <2>1, <2>2, <2>3, <2>4, <2>8, <3>2, <3>6 DEF Complete
      <3>8. QED
        BY <3>5, <3>7, SMT
    <2>9. QED
      BY <2>7, <2>8
  <1>15. QED
    BY <1>5, <1>7, <1>8, <1>9, <1>14 DEF Paired, Posted, Landed, Counted

\* combine_counter.wait(num_combine_imm): all combined tokens are in.
LEMMA TakingCombined ==
    ASSUME SetSizes, OwedSizes, Inv,
           NEW r \in Rank, HostNo(host[r]) = 10, HostStep(r, 10), GpuStays,
           counter[r]["combine"] >= CombineExpected(Shape),
           counter' = [counter EXCEPT ![r]["combine"] = @ - CombineExpected(Shape)],
           UNCHANGED <<node_size, num_routed, landed, wire>>,
           NoneReleased
    PROVE  Linked'
  <1> USE Zenon
  <1> SUFFICES ASSUME Types, Ranked, Paired, Posted, Landed, Counted,
                      \A q \in Rank : "dispatch_recv_flag" \in flags'[q] => "dispatch_recv_flag" \in flags[q]
               PROVE  Paired' /\ Posted' /\ Landed' /\ Counted'
    BY DEF Inv, Linked, NoneReleased
  <1>1. \A q : Remote(q)' = Remote(q)
    BY RemoteStays
  <1>2. ASSUME NEW q \in Rank, NEW k \in Kinds
        PROVE  /\ Taken(q, k)' = IF q = r /\ k = "combine" THEN Taken(q, k) + 1 ELSE Taken(q, k)
               /\ Sent(q, k)' = Sent(q, k) /\ Read(q, k)' = Read(q, k)
    <2>1. \/ k = "route" \/ k = "private" \/ k = "overflow" \/ k = "combine"
          \/ k = "dispatch_barrier" \/ k = "combine_barrier"
      BY DEF Kinds
    <2>2. SentBy(k) # 10 /\ (TakenBy(k) = 10 <=> k = "combine")
      BY <2>1, SMT DEF SentBy, TakenBy
    <2>3. QED
      BY <2>2, HostLinks, SMT
  <1>3. ASSUME NEW q \in Rank
        PROVE  /\ HostDone(q, 10)' = IF q = r THEN HostDone(q, 10) + 1 ELSE HostDone(q, 10)
               /\ HostDone(q, 3)' = HostDone(q, 3)
               /\ HostDone(q, 5)' = HostDone(q, 5) /\ GpuDone(q, 4)' = GpuDone(q, 4)
               /\ GpuDone(q, 7)' = GpuDone(q, 7) /\ GpuDone(q, 1)' = GpuDone(q, 1)
    BY SMT DEF HostStep, GpuStays
  <1>4. ASSUME NEW q \in Rank, NEW c \in Signals PROVE Heard(q, c)' = Heard(q, c)
    <2>1. c \in Kinds /\ c # "combine" /\ Others(q) \subseteq Rank
      BY DEF Signals, Kinds, Others
    <2>2. Taken(q, c)' = Taken(q, c) /\ \A p \in Others(q) : Sent(p, c)' = Sent(p, c)
      BY <1>2, <2>1
    <2>3. QED
      BY <2>2 DEF Heard
  <1>5. GpuDone(r, 7) = HostDone(r, 10) /\ HostDone(r, 10) \in Nat
    <2>1. HostDone(r, 10) + 1 = round[r] /\ HostDone(r, 1) = round[r]
      BY HostAt, SMT
    <2>2. /\ HostDone(r, 1) <= GpuDone(r, 1) /\ GpuDone(r, 1) <= GpuDone(r, 7) + 1
          /\ GpuDone(r, 7) <= HostDone(r, 10)
      BY RankOrder
    <2>3. /\ HostDone(r, 1) \in Nat /\ HostDone(r, 10) \in Nat
          /\ GpuDone(r, 1) \in Nat /\ GpuDone(r, 7) \in Nat
      BY RankOrder DEF CountsType
    <2>4. QED
      BY <2>1, <2>2, <2>3, SMT
  <1> DEFINE Owed == CombineOwed(r, HostDone(r, 10) + 1)
  <1>6. /\ IsFiniteSet(Owed) /\ Cardinality(Owed) \in Nat
        /\ Cardinality(Owed) = CombineExpected(Shape)
    BY DEF OwedSizes
  <1>7. Combined(r) \subseteq Owed /\ Cardinality(Combined(r)) \in Nat
    BY <1>5, LandedOwed
  <1>8. ASSUME NEW p \in Remote(r)
        PROVE  [kind |-> "combine", from |-> p, to |-> r, shard |-> 1,
                round |-> HostDone(r, 10) + 1] \in Owed
    BY AllToAllAssumption, SMT DEF CombineOwed, Remote
  <1> HIDE DEF Owed
  <1>9. Cardinality(Combined(r)) >= Cardinality(Owed) => Combined(r) = Owed
    <2>1. Cardinality(Combined(r)) <= Cardinality(Owed)
          /\ (Cardinality(Owed) = Cardinality(Combined(r)) => Owed = Combined(r))
      BY <1>6, <1>7 DEF SetSizes
    <2>2. QED
      BY <2>1, <1>6, <1>7, SMT
  <1>10. counter[r]["combine"] = Cardinality(Combined(r))
    <2>1. CountersCount(r) /\ ~(GpuDone(r, 7) < HostDone(r, 10))
      BY <1>5, SMT DEF Counted
    <2>2. QED
      BY <2>1 DEF CountersCount
  <1>11. Combined(r) = Owed /\ counter[r]["combine"] = CombineExpected(Shape)
    BY <1>6, <1>9, <1>10
  <1>12. ASSUME NEW p \in Remote(r)
         PROVE  Sent(p, "combine") = Taken(r, "combine") + 1 /\ Taken(r, "combine") \in Nat
    <2>1. PICK m \in landed[r] : m.from = p /\ m.kind = "combine" /\ m.round = HostDone(r, 10) + 1
      BY <1>8, <1>11 DEF Combined
    <2>2. m.round = Sent(p, "combine")
      BY <2>1, SMT DEF Landed, IsLanded
    <2>3. QED
      BY <1>5, <2>1, <2>2, SentIs
  <1>13. ASSUME NEW m \in wire PROVE ~(m.to = r /\ m.kind = "combine")
    <2>1. OnWire(m) /\ m \in Writes
      BY DEF Posted, Types
    <2>2. SUFFICES ASSUME m.to = r, m.kind = "combine" PROVE FALSE
      OBVIOUS
    <2>3. GpuDone(r, 7) < m.round /\ m.from \in Remote(r) /\ m.round = Sent(m.from, m.kind)
      BY <2>1, <2>2, <1>5, SentIs DEF OnWire, Payloads
    <2>4. m \in Owed
      BY <2>1, <2>2, <2>3, <1>5, CombinedOwed DEF Owed
    <2>5. m \in landed[r]
      BY <2>4, <1>11 DEF Combined
    <2>6. QED
      BY <2>5 DEF Landed, IsLanded
  <1>14. ASSUME NEW p \in Rank, NEW q \in Rank PROVE Waited(p, q)'
    <2>1. Waited(p, q)
      BY DEF Paired
    <2>2. Signals \cup {"combine", "private", "overflow"} \subseteq Kinds /\ "combine" \notin Signals
      BY DEF Signals, Kinds
    <2>3. \A k \in Signals \cup {"private", "overflow"} :
              Taken(q, k)' = Taken(q, k) /\ Sent(p, k)' = Sent(p, k)
      BY <1>2, <2>2
    <2>4. p \in Remote(q) => Taken(q, "combine")' <= Sent(p, "combine")'
      <3>1. /\ Sent(p, "combine")' = Sent(p, "combine")
            /\ Taken(q, "combine")' = IF q = r THEN Taken(q, "combine") + 1 ELSE Taken(q, "combine")
        BY <1>2, <2>2
      <3>2. CASE q = r
        BY <3>1, <3>2, <1>12, SMT
      <3>3. CASE q # r
        BY <3>1, <3>3, <2>1 DEF Waited
      <3>4. QED
        BY <3>2, <3>3
    <2>5. GpuDone(p, 1)' = GpuDone(p, 1)
      BY <1>3
    <2>6. QED
      BY <1>1, <2>1, <2>3, <2>4, <2>5 DEF Waited
  <1>15. ASSUME NEW p \in Rank, NEW q \in Rank PROVE TableCopied(p, q)'
    <2>1. TableCopied(p, q)
      BY DEF Paired
    <2>2. Heard(q, "route")' = Heard(q, "route")
      BY <1>4 DEF Signals
    <2>3. QED
      BY <2>1, <2>2, <1>3 DEF TableCopied
  <1>16. ASSUME NEW m \in wire PROVE OnWire(m)'
    <2>1. OnWire(m) /\ m \in Writes
      BY SMT DEF Posted, Types
    <2>2. m.kind \in Kinds /\ m.from \in Rank /\ m.to \in Rank
      BY <2>1 DEF Writes
    <2>3. Sent(m.from, m.kind)' = Sent(m.from, m.kind) /\ Taken(m.to, m.kind)' = Taken(m.to, m.kind)
      BY <1>2, <1>13, <2>2
    <2>4. QED
      BY <1>1, <2>1, <2>3 DEF OnWire
  <1>17. ASSUME NEW q \in Rank, NEW m \in landed[q] PROVE IsLanded(q, m)'
    <2>1. IsLanded(q, m) /\ m \in Writes
      BY DEF Landed, Types
    <2>2. m.kind \in Kinds /\ m.from \in Rank
      BY <2>1 DEF Writes
    <2>3. Sent(m.from, m.kind)' = Sent(m.from, m.kind) /\ Read(q, m.kind)' = Read(q, m.kind)
      BY <1>2, <2>2
    <2>4. QED
      BY <1>1, <2>1, <2>3 DEF IsLanded
  <1>18. ASSUME NEW q \in Rank PROVE CountersCount(q)' /\ Complete(q)'
    <2>1. CountersCount(q) /\ Complete(q)
      BY DEF Counted
    <2>2. Tokens(q)' = Tokens(q) /\ Combined(q)' = Combined(q)
      BY DEF Tokens, Combined
    <2>3. /\ HostDone(q, 5)' = HostDone(q, 5)
          /\ GpuDone(q, 4)' = GpuDone(q, 4) /\ GpuDone(q, 7)' = GpuDone(q, 7)
      BY <1>3
    <2>4. DispatchOwed(q, HostDone(q, 5))' = DispatchOwed(q, HostDone(q, 5))
      BY <2>3, OwedStays
    <2>5. \A c \in Signals \cup {"dispatch"} : counter'[q][c] = counter[q][c]
      BY SMT DEF Types, Signals, Counters
    <2>6. CASE q # r
      <3>1. HostDone(q, 10)' = HostDone(q, 10) /\ counter'[q]["combine"] = counter[q]["combine"]
        BY <2>6, <1>3 DEF Types, Counters
      <3>2. CombineOwed(q, HostDone(q, 10))' = CombineOwed(q, HostDone(q, 10))
        BY <3>1, OwedStays
      <3>3. CountersCount(q)'
        BY <1>4, <2>1, <2>2, <2>3, <2>4, <2>5, <3>1 DEF CountersCount
      <3>4. Complete(q)'
        BY <2>1, <2>2, <2>3, <2>4, <3>1, <3>2 DEF Complete
      <3>5. QED
        BY <3>3, <3>4
    <2>7. CASE q = r
      <3>1. HostDone(r, 10)' = HostDone(r, 10) + 1
        BY <1>3
      <3>2. CombineOwed(r, HostDone(r, 10))' = Owed
        BY <3>1, OwedStays DEF Owed
      <3>3. counter'[r]["combine"] = 0
        BY <1>6, <1>11, SMT DEF Types, Counters
      <3>4. GpuDone(r, 7)' < HostDone(r, 10)'
        BY <1>5, <2>3, <2>7, <3>1, SMT
      <3>5. CountersCount(q)'
        BY <1>4, <2>1, <2>2, <2>3, <2>4, <2>5, <2>7, <3>3, <3>4, SMT DEF CountersCount
      <3>6. Complete(q)'
        BY <2>1, <2>2, <2>3, <2>4, <2>7, <3>2, <1>11 DEF Complete
      <3>7. QED
        BY <3>5, <3>6, SMT
    <2>8. QED
      BY <2>6, <2>7
  <1>19. QED
    BY <1>14, <1>15, <1>16, <1>17, <1>18 DEF Paired, Posted, Landed, Counted

----------------------------------------------------------------------------
(* Kernels that read.                                                       *)

\* a2a_dispatch_recv: the tokens read are those of the round, none is on its way.
LEMMA ReadingTokens ==
    ASSUME SetSizes, Inv,
           NEW r \in Rank, HostStays, GpuStep(r, 4), "dispatch_recv_flag" \in flags[r],
           landed' = [landed EXCEPT ![r] = {m \in @ : m.kind = "combine"}],
           UNCHANGED <<node_size, num_routed, counter, wire>>,
           "dispatch_recv_flag" \notin flags'[r],
           NoneReleased
    PROVE  Linked'
  <1> USE Zenon
  <1> SUFFICES ASSUME Types, Ranked, Paired, Posted, Landed, Counted,
                      \A q \in Rank : "dispatch_recv_flag" \in flags'[q] => "dispatch_recv_flag" \in flags[q]
               PROVE  Paired' /\ Posted' /\ Landed' /\ Counted'
    BY DEF Inv, Linked, NoneReleased
  <1>1. \A q : Remote(q)' = Remote(q)
    BY RemoteStays
  <1>2. ASSUME NEW q \in Rank, NEW k \in Kinds
        PROVE  /\ Taken(q, k)' = IF q = r /\ k \in {"private", "overflow"}
                                 THEN Taken(q, k) + 1 ELSE Taken(q, k)
               /\ Sent(q, k)' = Sent(q, k)
               /\ q # r \/ k = "combine" => Read(q, k)' = Read(q, k)
    BY TokensLinks
  <1>3. ASSUME NEW q \in Rank
        PROVE  /\ GpuDone(q, 4)' = IF q = r THEN GpuDone(q, 4) + 1 ELSE GpuDone(q, 4)
               /\ HostDone(q, 3)' = HostDone(q, 3) /\ HostDone(q, 5)' = HostDone(q, 5)
               /\ HostDone(q, 10)' = HostDone(q, 10)
               /\ GpuDone(q, 7)' = GpuDone(q, 7) /\ GpuDone(q, 1)' = GpuDone(q, 1)
    BY TokensLinks
  <1>4. ASSUME NEW q \in Rank, NEW c \in Signals PROVE Heard(q, c)' = Heard(q, c)
    <2>1. c \in Kinds /\ c \notin {"private", "overflow"} /\ Others(q) \subseteq Rank
      BY DEF Signals, Kinds, Others
    <2>2. Taken(q, c)' = Taken(q, c) /\ \A p \in Others(q) : Sent(p, c)' = Sent(p, c)
      BY <1>2, <2>1
    <2>3. QED
      BY <2>2 DEF Heard
  <1>5. GpuDone(r, 4) + 1 = HostDone(r, 5) /\ GpuDone(r, 4) \in Nat
    <2>1. Counts(r) /\ InStep(r) /\ FlagsSay(r)
      BY CountsHold DEF Ranked
    <2>2. GpuDone(r, 4) < HostDone(r, 5)
      BY <2>1 DEF FlagsSay
    <2>3. /\ HostDone(r, 5) <= HostDone(r, 6) + 1 /\ HostDone(r, 6) <= GpuDone(r, 4)
          /\ HostDone(r, 5) \in Nat /\ HostDone(r, 6) \in Nat /\ GpuDone(r, 4) \in Nat
      BY RankOrder DEF CountsType
    <2>4. QED
      BY <2>2, <2>3, SMT
  <1>6. Tokens(r) = DispatchOwed(r, HostDone(r, 5))
    BY DEF Counted, Complete
  <1>7. ASSUME NEW p \in Remote(r)
        PROVE  /\ Sent(p, "private") = Taken(r, "private") + 1
               /\ r \in num_routed[p][p] => Sent(p, "overflow") = Taken(r, "overflow") + 1
               /\ Taken(r, "private") \in Nat /\ Taken(r, "overflow") = Taken(r, "private")
    <2>1. [kind |-> "private", from |-> p, to |-> r, shard |-> 1, round |-> HostDone(r, 5)]
            \in landed[r]
      <3>1. [kind |-> "private", from |-> p, to |-> r, shard |-> 1, round |-> HostDone(r, 5)]
              \in DispatchOwed(r, HostDone(r, 5))
        BY SMT DEF DispatchOwed, Remote
      <3>2. QED
        BY <3>1, <1>6 DEF Tokens
    <2>2. Sent(p, "private") = HostDone(r, 5)
      BY <2>1, SMT DEF Landed, IsLanded
    <2>3. ASSUME r \in num_routed[p][p] PROVE Sent(p, "overflow") = HostDone(r, 5)
      <3>1. [kind |-> "overflow", from |-> p, to |-> r, shard |-> 1, round |-> HostDone(r, 5)]
              \in DispatchOwed(r, HostDone(r, 5))
        BY <2>3, AllToAllAssumption, SMT DEF DispatchOwed, Remote
      <3>2. [kind |-> "overflow", from |-> p, to |-> r, shard |-> 1, round |-> HostDone(r, 5)]
              \in landed[r]
        BY <3>1, <1>6 DEF Tokens
      <3>3. QED
        BY <3>2, SMT DEF Landed, IsLanded
    <2>4. QED
      BY <1>5, <2>2, <2>3, SentIs
  <1>8. ASSUME NEW m \in wire PROVE ~(m.to = r /\ m.kind \in {"private", "overflow"})
    <2>1. OnWire(m) /\ m \in Writes
      BY DEF Posted, Types
    <2>2. SUFFICES ASSUME m.to = r, m.kind \in {"private", "overflow"} PROVE FALSE
      OBVIOUS
    <2>3. /\ GpuDone(r, 4) < m.round /\ m.from \in Remote(r) /\ m.round = Sent(m.from, m.kind)
          /\ m.kind = "private" => m.shard = 1
          /\ m.kind = "overflow" => r \in num_routed[m.from][m.from]
      BY <2>1, <2>2, SentIs DEF OnWire, Payloads
    <2>4. m \in DispatchOwed(r, HostDone(r, 5))
      BY <2>1, <2>2, <2>3, <1>5, TokenOwed
    <2>5. m \in landed[r]
      BY <2>4, <1>6 DEF Tokens
    <2>6. QED
      BY <2>5 DEF Landed, IsLanded
  <1>9. ASSUME NEW p \in Rank, NEW q \in Rank PROVE Waited(p, q)'
    <2>1. Waited(p, q)
      BY DEF Paired
    <2>2. Signals \cup {"combine", "private", "overflow"} \subseteq Kinds
          /\ Signals \cap {"private", "overflow"} = {}
      BY DEF Signals, Kinds
    <2>3. /\ \A k \in Signals \cup {"combine"} : Taken(q, k)' = Taken(q, k)
          /\ \A k \in Signals \cup {"combine", "private", "overflow"} : Sent(p, k)' = Sent(p, k)
      BY <1>2, <2>2
    <2>4. \A k \in {"private", "overflow"} :
              Taken(q, k)' = IF q = r THEN Taken(q, k) + 1 ELSE Taken(q, k)
      BY <1>2, <2>2
    <2>5. GpuDone(p, 1)' = GpuDone(p, 1) /\ GpuDone(p, 1) \in Nat
      BY <1>3, RankOrder DEF CountsType
    <2>6. p \in Remote(q) =>
            /\ Taken(q, "private")' <= Sent(p, "private")'
            /\ q \in num_routed[p][p] /\ GpuDone(p, 1)' <= Taken(q, "overflow")'
                 => GpuDone(p, 1)' <= Sent(p, "overflow")'
      <3>1. CASE q = r
        BY <3>1, <1>7, <2>3, <2>4, <2>5, SMT
      <3>2. CASE q # r
        BY <3>2, <2>1, <2>3, <2>4, <2>5 DEF Waited
      <3>3. QED
        BY <3>1, <3>2
    <2>7. QED
      BY <1>1, <2>1, <2>3, <2>6 DEF Waited
  <1>10. ASSUME NEW p \in Rank, NEW q \in Rank PROVE TableCopied(p, q)'
    <2>1. TableCopied(p, q)
      BY DEF Paired
    <2>2. Heard(q, "route")' = Heard(q, "route")
      BY <1>4 DEF Signals
    <2>3. QED
      BY <2>1, <2>2, <1>3 DEF TableCopied
  <1>11. ASSUME NEW m \in wire PROVE OnWire(m)'
    <2>1. OnWire(m) /\ m \in Writes
      BY DEF Posted, Types
    <2>2. m.kind \in Kinds /\ m.from \in Rank /\ m.to \in Rank
      BY <2>1 DEF Writes
    <2>3. Sent(m.from, m.kind)' = Sent(m.from, m.kind) /\ Taken(m.to, m.kind)' = Taken(m.to, m.kind)
      BY <1>2, <1>8, <2>2
    <2>4. QED
      BY <1>1, <2>1, <2>3 DEF OnWire
  <1>12. ASSUME NEW q \in Rank, NEW m \in landed'[q] PROVE IsLanded(q, m)'
    <2>1. m \in landed[q] /\ (q = r => m.kind = "combine")
      BY DEF Types
    <2>2. IsLanded(q, m) /\ m \in Writes
      BY <2>1 DEF Landed, Types
    <2>3. m.kind \in Kinds /\ m.from \in Rank
      BY <2>2 DEF Writes
    <2>4. Sent(m.from, m.kind)' = Sent(m.from, m.kind) /\ Read(q, m.kind)' = Read(q, m.kind)
      BY <1>2, <2>1, <2>3
    <2>5. QED
      BY <1>1, <2>2, <2>4 DEF IsLanded
  <1>13. ASSUME NEW q \in Rank PROVE CountersCount(q)' /\ Complete(q)'
    <2>1. CountersCount(q) /\ Complete(q)
      BY DEF Counted
    <2>2. Combined(q)' = Combined(q)
      BY DEF Combined, Types
    <2>3. /\ HostDone(q, 5)' = HostDone(q, 5) /\ HostDone(q, 10)' = HostDone(q, 10)
          /\ GpuDone(q, 7)' = GpuDone(q, 7)
      BY <1>3
    <2>4. /\ DispatchOwed(q, HostDone(q, 5))' = DispatchOwed(q, HostDone(q, 5))
          /\ CombineOwed(q, HostDone(q, 10))' = CombineOwed(q, HostDone(q, 10))
      BY <2>3, OwedStays
    <2>5. CASE q # r
      <3>1. Tokens(q)' = Tokens(q) /\ GpuDone(q, 4)' = GpuDone(q, 4)
        BY <2>5, <1>3 DEF Types, Tokens
      <3>2. CountersCount(q)'
        BY <1>4, <2>1, <2>2, <2>3, <2>4, <3>1 DEF CountersCount
      <3>3. Complete(q)'
        BY <2>1, <2>2, <2>3, <2>4, <3>1 DEF Complete
      <3>4. QED
        BY <3>2, <3>3
    <2>6. CASE q = r
      <3>1. Tokens(r)' = {}
        BY DEF Types, Tokens
      <3>2. ~(GpuDone(r, 4)' < HostDone(r, 5)')
        BY <1>3, <1>5, SMT
      <3>3. counter[r]["dispatch"] = 0
        <4>1. GpuDone(r, 4) < HostDone(r, 5)
          BY <1>5, SMT
        <4>2. Cardinality(Tokens(r)) \in Nat
          BY LandedOwed
        <4>3. QED
          BY <1>6, <2>1, <2>6, <4>1, <4>2, SMT DEF CountersCount
      <3>4. Cardinality({}) = 0
        BY DEF SetSizes
      <3>5. counter'[r]["dispatch"] = Cardinality(Tokens(r)') - 0
        BY <3>1, <3>3, <3>4, SMT
      <3>6. counter'[r]["dispatch"] = Cardinality(Tokens(r)')
               - (IF GpuDone(r, 4)' < HostDone(r, 5)'
                  THEN Cardinality(DispatchOwed(r, HostDone(r, 5))') ELSE 0)
        BY <3>2, <3>5
      <3>7. \A c \in Signals : counter'[r][c] = Cardinality(Heard(r, c)')
        BY <1>4, <2>1, <2>6 DEF CountersCount
      <3>8. counter'[r]["combine"] =
               IF GpuDone(r, 7)' < HostDone(r, 10)' THEN 0 ELSE Cardinality(Combined(r)')
        BY <2>1, <2>2, <2>3, <2>6 DEF CountersCount
      <3>9. CountersCount(q)'
        BY <2>6, <3>6, <3>7, <3>8 DEF CountersCount
      <3>10. Complete(q)'
        BY <2>1, <2>2, <2>3, <2>4, <2>6 DEF Complete
      <3>11. QED
        BY <3>9, <3>10
    <2>7. QED
      BY <2>5, <2>6
  <1>14. QED
    BY <1>9, <1>10, <1>11, <1>12, <1>13 DEF Paired, Posted, Landed, Counted

\* a2a_combine_recv: the combined tokens of the round are read.
LEMMA ReadingCombined ==
    ASSUME SetSizes, Inv,
           NEW r \in Rank, HostStays, GpuStep(r, 7), "combine_recv_flag" \in flags[r],
           landed' = [landed EXCEPT ![r] = {m \in @ : m.kind # "combine"}],
           UNCHANGED <<node_size, num_routed, counter, wire>>,
           NoneReleased
    PROVE  Linked'
  <1> USE Zenon
  <1> SUFFICES ASSUME Types, Ranked, Paired, Posted, Landed, Counted,
                      \A q \in Rank : "dispatch_recv_flag" \in flags'[q] => "dispatch_recv_flag" \in flags[q]
               PROVE  Paired' /\ Posted' /\ Landed' /\ Counted'
    BY DEF Inv, Linked, NoneReleased
  <1>1. \A q : Remote(q)' = Remote(q)
    BY RemoteStays
  <1>2. ASSUME NEW q \in Rank, NEW k \in Kinds
        PROVE  /\ Taken(q, k)' = Taken(q, k) /\ Sent(q, k)' = Sent(q, k)
               /\ q # r \/ k # "combine" => Read(q, k)' = Read(q, k)
    BY CombinedLinks
  <1>3. ASSUME NEW q \in Rank
        PROVE  /\ GpuDone(q, 7)' = IF q = r THEN GpuDone(q, 7) + 1 ELSE GpuDone(q, 7)
               /\ HostDone(q, 3)' = HostDone(q, 3) /\ HostDone(q, 5)' = HostDone(q, 5)
               /\ HostDone(q, 10)' = HostDone(q, 10)
               /\ GpuDone(q, 4)' = GpuDone(q, 4) /\ GpuDone(q, 1)' = GpuDone(q, 1)
    BY CombinedLinks
  <1>4. ASSUME NEW q \in Rank, NEW c \in Signals PROVE Heard(q, c)' = Heard(q, c)
    <2>1. c \in Kinds /\ Others(q) \subseteq Rank
      BY DEF Signals, Kinds, Others
    <2>2. Taken(q, c)' = Taken(q, c) /\ \A p \in Others(q) : Sent(p, c)' = Sent(p, c)
      BY <1>2, <2>1
    <2>3. QED
      BY <2>2 DEF Heard
  <1>5. GpuDone(r, 7) + 1 = HostDone(r, 10) /\ GpuDone(r, 7) \in Nat
    <2>1. Counts(r) /\ InStep(r) /\ FlagsSay(r)
      BY CountsHold DEF Ranked
    <2>2. GpuDone(r, 7) < HostDone(r, 10)
      BY <2>1 DEF FlagsSay
    <2>3. /\ HostDone(r, 10) <= HostDone(r, 11) + 1 /\ HostDone(r, 11) <= GpuDone(r, 7)
          /\ HostDone(r, 10) \in Nat /\ HostDone(r, 11) \in Nat /\ GpuDone(r, 7) \in Nat
      BY RankOrder DEF CountsType
    <2>4. QED
      BY <2>2, <2>3, SMT
  <1>6. ASSUME NEW p \in Rank, NEW q \in Rank PROVE Waited(p, q)'
    <2>1. Waited(p, q)
      BY DEF Paired
    <2>2. Signals \cup {"combine", "private", "overflow"} \subseteq Kinds
      BY DEF Signals, Kinds
    <2>3. QED
      BY <1>1, <1>2, <1>3, <2>1, <2>2 DEF Waited
  <1>7. ASSUME NEW p \in Rank, NEW q \in Rank PROVE TableCopied(p, q)'
    <2>1. TableCopied(p, q)
      BY DEF Paired
    <2>2. Heard(q, "route")' = Heard(q, "route")
      BY <1>4 DEF Signals
    <2>3. QED
      BY <2>1, <2>2, <1>3 DEF TableCopied
  <1>8. ASSUME NEW m \in wire PROVE OnWire(m)'
    <2>1. OnWire(m) /\ m \in Writes
      BY DEF Posted, Types
    <2>2. m.kind \in Kinds /\ m.from \in Rank /\ m.to \in Rank
      BY <2>1 DEF Writes
    <2>3. Sent(m.from, m.kind)' = Sent(m.from, m.kind) /\ Taken(m.to, m.kind)' = Taken(m.to, m.kind)
      BY <1>2, <2>2
    <2>4. QED
      BY <1>1, <2>1, <2>3 DEF OnWire
  <1>9. ASSUME NEW q \in Rank, NEW m \in landed'[q] PROVE IsLanded(q, m)'
    <2>1. m \in landed[q] /\ (q = r => m.kind # "combine")
      BY DEF Types
    <2>2. IsLanded(q, m) /\ m \in Writes
      BY <2>1 DEF Landed, Types
    <2>3. m.kind \in Kinds /\ m.from \in Rank
      BY <2>2 DEF Writes
    <2>4. Sent(m.from, m.kind)' = Sent(m.from, m.kind) /\ Read(q, m.kind)' = Read(q, m.kind)
      BY <1>2, <2>1, <2>3
    <2>5. QED
      BY <1>1, <2>2, <2>4 DEF IsLanded
  <1>10. ASSUME NEW q \in Rank PROVE CountersCount(q)' /\ Complete(q)'
    <2>1. CountersCount(q) /\ Complete(q)
      BY DEF Counted
    <2>2. Tokens(q)' = Tokens(q)
      BY DEF Tokens, Types
    <2>3. /\ HostDone(q, 5)' = HostDone(q, 5) /\ HostDone(q, 10)' = HostDone(q, 10)
          /\ GpuDone(q, 4)' = GpuDone(q, 4)
      BY <1>3
    <2>4. /\ DispatchOwed(q, HostDone(q, 5))' = DispatchOwed(q, HostDone(q, 5))
          /\ CombineOwed(q, HostDone(q, 10))' = CombineOwed(q, HostDone(q, 10))
      BY <2>3, OwedStays
    <2>5. CASE q # r
      <3>1. Combined(q)' = Combined(q) /\ GpuDone(q, 7)' = GpuDone(q, 7)
        BY <2>5, <1>3 DEF Types, Combined
      <3>2. CountersCount(q)'
        BY <1>4, <2>1, <2>2, <2>3, <2>4, <3>1 DEF CountersCount
      <3>3. Complete(q)'
        BY <2>1, <2>2, <2>3, <2>4, <3>1 DEF Complete
      <3>4. QED
        BY <3>2, <3>3
    <2>6. CASE q = r
      <3>1. Combined(r)' = {}
        BY DEF Types, Combined
      <3>2. ~(GpuDone(r, 7)' < HostDone(r, 10)') /\ GpuDone(r, 7) < HostDone(r, 10)
        BY <1>3, <1>5, SMT
      <3>3. counter[r]["combine"] = 0
        BY <2>1, <2>6, <3>2 DEF CountersCount
      <3>4. Cardinality({}) = 0
        BY DEF SetSizes
      <3>5. CountersCount(q)'
        BY <1>4, <2>1, <2>2, <2>3, <2>4, <2>6, <3>1, <3>2, <3>3, <3>4 DEF CountersCount
      <3>6. Complete(q)'
        BY <2>1, <2>2, <2>3, <2>4, <2>6, <3>2 DEF Complete
      <3>7. QED
        BY <3>5, <3>6, SMT
    <2>7. QED
      BY <2>5, <2>6
  <1>11. QED
    BY <1>6, <1>7, <1>8, <1>9, <1>10 DEF Paired, Posted, Landed, Counted

----------------------------------------------------------------------------
(* Deliveries.                                                              *)

\* A write that leaves the wire takes nothing from what is known of the others.
LEMMA OffWire ==
    ASSUME Types, Posted, LinksStay, NEW w, wire' = wire \ {w}, node_size' = node_size,
           \A q \in Rank : num_routed'[q][q] = num_routed[q][q]
    PROVE  Posted'
  <1> USE Zenon
  <1> SUFFICES ASSUME NEW m \in wire' PROVE OnWire(m)'
    BY DEF Posted
  <1>1. OnWire(m) /\ m \in Writes /\ (\A q : Remote(q)' = Remote(q))
    BY RemoteStays DEF Posted, Types
  <1>2. m.kind \in Kinds /\ m.from \in Rank /\ m.to \in Rank
    BY <1>1 DEF Writes
  <1>3. Sent(m.from, m.kind)' = Sent(m.from, m.kind) /\ Taken(m.to, m.kind)' = Taken(m.to, m.kind)
    BY <1>2 DEF LinksStay
  <1>4. num_routed'[m.from][m.from] = num_routed[m.from][m.from]
    BY <1>2
  <1>5. QED
    BY <1>1, <1>3, <1>4 DEF OnWire

\* Nobody takes or sends: who waited has waited.
LEMMA WaitedStays ==
    ASSUME Paired, LinksStay, node_size' = node_size,
           \A q \in Rank : num_routed'[q][q] = num_routed[q][q],
           NEW p \in Rank, NEW q \in Rank
    PROVE  Waited(p, q)'
  <1>1. Waited(p, q) /\ (\A r : Remote(r)' = Remote(r))
    BY RemoteStays, Zenon DEF Paired
  <1>2. Signals \cup {"combine", "private", "overflow"} \subseteq Kinds
    BY Zenon DEF Signals, Kinds
  <1>3. QED
    BY <1>1, <1>2, Zenon DEF Waited, LinksStay

\* A signal arrives: one more peer has been heard, and its table is copied.
LEMMA DeliveringSignal ==
    ASSUME SetSizes, Inv,
           NEW m \in wire, m.kind \in Signals, LinksStay, wire' = wire \ {m},
           counter' = [counter EXCEPT ![m.to][m.kind] = @ + 1],
           num_routed' = IF m.kind = "route"
                         THEN [num_routed EXCEPT ![m.to][m.from] = num_routed[m.from][m.from]]
                         ELSE num_routed,
           UNCHANGED <<node_size, landed, flags>>
    PROVE  Linked'
  <1> USE Zenon
  <1> SUFFICES ASSUME Types, Ranked, Paired, Posted, Landed, Counted
               PROVE  Paired' /\ Posted' /\ Landed' /\ Counted'
    BY DEF Inv, Linked
  <1> DEFINE r == m.to
             p == m.from
             c == m.kind
  <1>1. \A q : Remote(q)' = Remote(q)
    BY RemoteStays
  <1>2. OnWire(m) /\ m \in Writes
    BY DEF Posted, Types
  <1>3. r \in Rank /\ p \in Rank /\ c \in Kinds /\ c \in Counters /\ p # r
    BY <1>2 DEF Writes, OnWire, Signals, Counters
  <1>4. \A q \in Rank : num_routed'[q][q] = num_routed[q][q]
    BY <1>3 DEF Types
  <1>5. ASSUME NEW q \in Rank, NEW k \in Signals
        PROVE  Heard(q, k)' = IF q = r /\ k = c THEN Heard(q, k) \cup {p} ELSE Heard(q, k)
    <2>1. k \in Kinds /\ Others(q) \subseteq Rank
      BY DEF Signals, Kinds, Others
    <2>2. Taken(q, k)' = Taken(q, k) /\ \A x \in Others(q) : Sent(x, k)' = Sent(x, k)
      BY <2>1 DEF LinksStay
    <2>3. CASE ~(q = r /\ k = c)
      <3>1. \A x : (\A w \in wire' : ~(w.kind = k /\ w.from = x /\ w.to = q))
                     <=> (\A w \in wire : ~(w.kind = k /\ w.from = x /\ w.to = q))
        BY <2>3
      <3>2. QED
        BY <2>2, <2>3, <3>1 DEF Heard
    <2>4. CASE q = r /\ k = c
      <3>1. ASSUME NEW x \in Others(q), x # p PROVE x \in Heard(q, k)' <=> x \in Heard(q, k)
        <4>1. (\A w \in wire' : ~(w.kind = k /\ w.from = x /\ w.to = q))
                     <=> (\A w \in wire : ~(w.kind = k /\ w.from = x /\ w.to = q))
          BY <3>1
        <4>2. QED
          BY <2>2, <4>1 DEF Heard
      <3>2. p \in Heard(q, k)'
        <4>1. p \in Others(q) /\ Sent(p, k) > Taken(q, k)
          <5>1. p \in Others(q) /\ p \in Rank
            BY <1>3, <2>4 DEF Others
          <5>2. m.round = Sent(p, k) /\ Taken(q, k) < m.round
            BY <1>2, <2>4 DEF OnWire
          <5>3. Sent(p, k) \in Nat /\ Taken(q, k) \in Nat
            BY <5>1, <2>1, AtMostOneAhead DEF Others
          <5>4. QED
            BY <5>1, <5>2, <5>3
        <4>2. ASSUME NEW w \in wire', w.kind = k, w.from = p, w.to = q PROVE FALSE
          <5>1. OnWire(w) /\ w \in Writes /\ w # m
            BY DEF Posted, Types
          <5>2. w.shard = m.shard /\ w.round = m.round /\ w.kind = m.kind /\ w.from = m.from
                /\ w.to = m.to
            BY <1>2, <2>4, <4>2, <5>1 DEF OnWire
          <5>3. w = m
            BY <1>2, <5>1, <5>2, SMT DEF Writes
          <5>4. QED
            BY <5>1, <5>3
        <4>3. QED
          BY <2>2, <4>1, <4>2 DEF Heard
      <3>3. Heard(q, k) \subseteq Others(q) /\ Heard(q, k)' \subseteq Others(q)
        BY DEF Heard, Others, Rank
      <3>4. QED
        BY <2>4, <3>1, <3>2, <3>3
    <2>5. QED
      BY <2>3, <2>4
  <1>6. p \notin Heard(r, c)
    BY DEF Heard
  <1>7. ASSUME NEW x \in Rank, NEW q \in Rank PROVE TableCopied(x, q)'
    <2>1. TableCopied(x, q)
      BY DEF Paired
    <2>2. HostDone(q, 5)' = HostDone(q, 5) /\ HostDone(q, 3)' = HostDone(q, 3)
      BY DEF LinksStay
    <2>3. CASE q = r /\ x = p /\ c = "route"
      <3>1. num_routed'[q][x] = num_routed'[x][x]
        BY <1>3, <1>4, <2>3, SMT DEF Types
      <3>2. QED
        BY <3>1 DEF TableCopied
    <2>4. CASE ~(q = r /\ x = p /\ c = "route")
      <3>1. x \in Heard(q, "route")' <=> x \in Heard(q, "route")
        BY <1>5, <2>4, SMT DEF Signals
      <3>2. num_routed'[q][x] = num_routed[q][x] /\ num_routed'[x][x] = num_routed[x][x]
        BY <1>3, <1>4, <2>4 DEF Types
      <3>3. QED
        BY <2>1, <2>2, <3>1, <3>2 DEF TableCopied
    <2>5. QED
      BY <2>3, <2>4
  <1>8. ASSUME NEW q \in Rank, NEW w \in landed[q] PROVE IsLanded(q, w)'
    <2>1. IsLanded(q, w) /\ w \in Writes
      BY DEF Landed, Types
    <2>2. w.kind \in Kinds /\ w.from \in Rank
      BY <2>1 DEF Writes
    <2>3. Sent(w.from, w.kind)' = Sent(w.from, w.kind) /\ Read(q, w.kind)' = Read(q, w.kind)
      BY <2>2 DEF LinksStay
    <2>4. num_routed'[w.from][w.from] = num_routed[w.from][w.from] /\ w \notin wire'
      BY <1>4, <2>1, <2>2 DEF IsLanded
    <2>5. QED
      BY <1>1, <2>1, <2>3, <2>4 DEF IsLanded
  <1>9. ASSUME NEW q \in Rank PROVE CountersCount(q)' /\ Complete(q)'
    <2>1. CountersCount(q) /\ Complete(q)
      BY DEF Counted
    <2>2. /\ HostDone(q, 5)' = HostDone(q, 5) /\ HostDone(q, 10)' = HostDone(q, 10)
          /\ GpuDone(q, 4)' = GpuDone(q, 4) /\ GpuDone(q, 7)' = GpuDone(q, 7)
      BY DEF LinksStay
    <2>3. /\ DispatchOwed(q, HostDone(q, 5))' = DispatchOwed(q, HostDone(q, 5))
          /\ CombineOwed(q, HostDone(q, 10))' = CombineOwed(q, HostDone(q, 10))
      <3>1. \A x \in Remote(q) : num_routed'[x][x] = num_routed[x][x]
        BY <1>4, RemoteIs
      <3>2. QED
        BY <2>2, <3>1, OwedStays, SMT
    <2>4. Tokens(q)' = Tokens(q) /\ Combined(q)' = Combined(q)
      BY DEF Tokens, Combined
    <2>5. counter'[q]["dispatch"] = counter[q]["dispatch"]
          /\ counter'[q]["combine"] = counter[q]["combine"]
      BY SMT DEF Types, Counters, Signals
    <2>6. ASSUME NEW k \in Signals PROVE counter'[q][k] = Cardinality(Heard(q, k)')
      <3>1. CASE q = r /\ k = c
        <4>1. Cardinality(Heard(r, c) \cup {p}) = Cardinality(Heard(r, c)) + 1
          BY <1>3, <1>6, HeardCount DEF SetSizes
        <4>2. counter'[r][c] = counter[r][c] + 1
          BY <1>3 DEF Types
        <4>3. QED
          BY <1>5, <2>1, <3>1, <4>1, <4>2 DEF CountersCount
      <3>2. CASE ~(q = r /\ k = c)
        <4>1. counter'[q][k] = counter[q][k]
          BY <3>2, <1>3, SMT DEF Types, Signals, Counters
        <4>2. QED
          BY <1>5, <2>1, <3>2, <4>1 DEF CountersCount
      <3>3. QED
        BY <3>1, <3>2
    <2>7. CountersCount(q)'
      BY <2>1, <2>2, <2>3, <2>4, <2>5, <2>6 DEF CountersCount
    <2>8. Complete(q)'
      BY <2>1, <2>2, <2>3, <2>4 DEF Complete
    <2>9. QED
      BY <2>7, <2>8
  <1>10. Posted'
    BY <1>4, OffWire
  <1>11. \A x, q \in Rank : Waited(x, q)'
    BY <1>4, WaitedStays
  <1>12. QED
    BY <1>7, <1>8, <1>9, <1>10, <1>11 DEF Paired, Landed, Counted

\* A payload arrives, and with the last token the kernel is released.
LEMMA DeliveringPayload ==
    ASSUME SetSizes, OwedSizes, Inv,
           NEW m \in wire, m.kind \in Payloads, LinksStay, wire' = wire \ {m},
           NEW c, c = (IF m.kind = "combine" THEN "combine" ELSE "dispatch"),
           counter' = [counter EXCEPT ![m.to][c] = @ + 1],
           landed' = [landed EXCEPT ![m.to] = @ \cup {m}],
           UNCHANGED <<node_size, num_routed>>,
           \A q \in Rank : "dispatch_recv_flag" \in flags'[q] =>
                \/ "dispatch_recv_flag" \in flags[q]
                \/ q = m.to /\ c = "dispatch" /\ counter[q][c] + 1 = 0
    PROVE  Linked'
  <1> USE Zenon
  <1> SUFFICES ASSUME Types, Ranked, Paired, Posted, Landed, Counted
               PROVE  Paired' /\ Posted' /\ Landed' /\ Counted'
    BY DEF Inv, Linked
  <1> DEFINE r == m.to
             p == m.from
  <1>1. \A q : Remote(q)' = Remote(q)
    BY RemoteStays
  <1>2. OnWire(m) /\ m \in Writes
    BY DEF Posted, Types
  <1>3. r \in Rank /\ p \in Rank /\ m.kind \in Kinds /\ p # r /\ p \in Remote(r) /\ c \in Counters
    BY <1>2, RemoteIs DEF Writes, OnWire, Counters
  <1>4. m \notin landed[r]
    BY <1>3 DEF Landed, IsLanded
  <1>5. ASSUME NEW q \in Rank, NEW k \in Signals PROVE Heard(q, k)' = Heard(q, k)
    <2>1. k \in Kinds /\ Others(q) \subseteq Rank /\ m.kind # k
      BY DEF Signals, Kinds, Others, Payloads
    <2>2. Taken(q, k)' = Taken(q, k) /\ \A x \in Others(q) : Sent(x, k)' = Sent(x, k)
      BY <2>1 DEF LinksStay
    <2>3. \A x : (\A w \in wire' : ~(w.kind = k /\ w.from = x /\ w.to = q))
                     <=> (\A w \in wire : ~(w.kind = k /\ w.from = x /\ w.to = q))
      BY <2>1
    <2>4. QED
      BY <2>2, <2>3 DEF Heard
  <1>6. ASSUME NEW x \in Rank, NEW q \in Rank PROVE TableCopied(x, q)'
    <2>1. TableCopied(x, q)
      BY DEF Paired
    <2>2. Heard(q, "route")' = Heard(q, "route")
      BY <1>5 DEF Signals
    <2>3. QED
      BY <2>1, <2>2 DEF TableCopied, LinksStay
  <1>7. Read(r, m.kind) < m.round /\ m.round = Sent(p, m.kind)
    <2>1. Read(r, m.kind) <= Taken(r, m.kind) /\ Read(r, m.kind) \in Nat /\ Taken(r, m.kind) \in Nat
      BY <1>3, AtMostOneAhead
    <2>2. Taken(r, m.kind) < m.round /\ m.round = Sent(p, m.kind) /\ m.round \in Nat
      BY <1>2, AllToAllAssumption, SMT DEF OnWire, Writes
    <2>3. QED
      BY <2>1, <2>2, SMT
  <1>8. ASSUME NEW q \in Rank, NEW w \in landed'[q] PROVE IsLanded(q, w)'
    <2>1. w \in landed[q] \/ (q = r /\ w = m)
      BY <1>3 DEF Types
    <2>2. CASE w \in landed[q]
      <3>1. IsLanded(q, w) /\ w \in Writes
        BY <2>2 DEF Landed, Types
      <3>2. w.kind \in Kinds /\ w.from \in Rank
        BY <3>1 DEF Writes
      <3>3. Sent(w.from, w.kind)' = Sent(w.from, w.kind) /\ Read(q, w.kind)' = Read(q, w.kind)
        BY <3>2 DEF LinksStay
      <3>4. QED
        BY <1>1, <3>1, <3>3 DEF IsLanded
    <2>3. CASE q = r /\ w = m
      <3>1. Sent(p, m.kind)' = Sent(p, m.kind) /\ Read(r, m.kind)' = Read(r, m.kind)
        BY <1>3 DEF LinksStay
      <3>2. QED
        BY <1>1, <1>2, <1>3, <1>7, <2>3, <3>1 DEF IsLanded, OnWire
    <2>4. QED
      BY <2>1, <2>2, <2>3
  <1>9. ASSUME NEW q \in Rank, q # r PROVE CountersCount(q)' /\ Complete(q)'
    <2>1. CountersCount(q) /\ Complete(q)
      BY DEF Counted
    <2>2. /\ HostDone(q, 5)' = HostDone(q, 5) /\ HostDone(q, 10)' = HostDone(q, 10)
          /\ GpuDone(q, 4)' = GpuDone(q, 4) /\ GpuDone(q, 7)' = GpuDone(q, 7)
      BY DEF LinksStay
    <2>3. /\ DispatchOwed(q, HostDone(q, 5))' = DispatchOwed(q, HostDone(q, 5))
          /\ CombineOwed(q, HostDone(q, 10))' = CombineOwed(q, HostDone(q, 10))
      BY <2>2, OwedStays
    <2>4. counter'[q] = counter[q] /\ landed'[q] = landed[q]
      BY <1>9 DEF Types
    <2>5. Tokens(q)' = Tokens(q) /\ Combined(q)' = Combined(q)
      BY <2>4 DEF Tokens, Combined
    <2>6. CountersCount(q)'
      BY <1>5, <2>1, <2>2, <2>3, <2>4, <2>5 DEF CountersCount
    <2>7. Complete(q)'
      BY <1>9, <2>1, <2>2, <2>3, <2>5 DEF Complete
    <2>8. QED
      BY <2>6, <2>7
  <1>10. CountersCount(r)' /\ Complete(r)'
    <2>1. CountersCount(r) /\ Complete(r) /\ FlagsSay(r)
      BY <1>3 DEF Counted, Ranked
    <2>2. /\ HostDone(r, 5)' = HostDone(r, 5) /\ HostDone(r, 10)' = HostDone(r, 10)
          /\ GpuDone(r, 4)' = GpuDone(r, 4) /\ GpuDone(r, 7)' = GpuDone(r, 7)
      BY <1>3 DEF LinksStay
    <2>3. /\ DispatchOwed(r, HostDone(r, 5))' = DispatchOwed(r, HostDone(r, 5))
          /\ CombineOwed(r, HostDone(r, 10))' = CombineOwed(r, HostDone(r, 10))
      BY <1>3, <2>2, OwedStays
    <2>4. landed'[r] = landed[r] \cup {m}
      BY <1>3 DEF Types
    <2>5. \A k \in Counters : counter'[r][k] = IF k = c THEN counter[r][k] + 1 ELSE counter[r][k]
      BY <1>3 DEF Types
    <2>6. /\ Signals \cup {"dispatch", "combine"} \subseteq Counters /\ c \notin Signals
      BY DEF Signals, Counters
    <2>7. \A k \in Signals : counter'[r][k] = Cardinality(Heard(r, k)')
      BY <1>3, <1>5, <2>1, <2>5, <2>6 DEF CountersCount
    <2>8. /\ IsFiniteSet(Tokens(r)) /\ Cardinality(Tokens(r)) \in Nat
          /\ IsFiniteSet(Combined(r)) /\ Cardinality(Combined(r)) \in Nat
          /\ Tokens(r) \subseteq DispatchOwed(r, GpuDone(r, 4) + 1)
      BY <1>3, LandedOwed
    <2>9. CountsType(r)
      BY <1>3, RankOrder
    <2>10. CASE m.kind = "combine"
      <3>1. Tokens(r)' = Tokens(r) /\ Combined(r)' = Combined(r) \cup {m} /\ m \notin Combined(r)
        BY <1>4, <2>4, <2>10 DEF Tokens, Combined
      <3>2. Cardinality(Combined(r)') = Cardinality(Combined(r)) + 1
        BY <2>8, <3>1, OneMoreSize
      <3>3. ~(GpuDone(r, 7) < HostDone(r, 10))
        <4>1. HostDone(r, 10) < m.round
          BY <1>2, <2>10, SentIs DEF OnWire
        <4>2. m.round <= GpuDone(r, 7) + 1 /\ m.round \in Nat
          BY <1>3, <1>7, <2>10, AtMostOneAhead DEF Read
        <4>3. GpuDone(r, 7) \in Nat /\ HostDone(r, 10) \in Nat
          BY <2>9 DEF CountsType
        <4>4. QED
          BY <4>1, <4>2, <4>3, SMT
      <3>4. counter'[r]["combine"] = counter[r]["combine"] + 1
            /\ counter'[r]["dispatch"] = counter[r]["dispatch"]
        BY <2>5, <2>6, <2>10
      <3>5. CountersCount(r)'
        BY <2>1, <2>2, <2>3, <2>7, <3>1, <3>2, <3>3, <3>4 DEF CountersCount
      <3>6. "dispatch_recv_flag" \in flags'[r] => "dispatch_recv_flag" \in flags[r]
        BY <1>3, <2>10
      <3>7. Complete(r)'
        BY <2>1, <2>2, <2>3, <3>1, <3>3, <3>6 DEF Complete
      <3>8. QED
        BY <3>5, <3>7
    <2>11. CASE m.kind # "combine"
      <3>1. Combined(r)' = Combined(r) /\ Tokens(r)' = Tokens(r) \cup {m} /\ m \notin Tokens(r)
        BY <1>4, <2>4, <2>11 DEF Tokens, Combined
      <3>2. Cardinality(Tokens(r)') = Cardinality(Tokens(r)) + 1
        BY <2>8, <3>1, OneMoreSize
      <3>3. counter'[r]["dispatch"] = counter[r]["dispatch"] + 1
            /\ counter'[r]["combine"] = counter[r]["combine"] /\ counter[r]["dispatch"] \in Int
        BY <1>3, <2>5, <2>6, <2>11, SMT DEF Types
      <3>4. m \in DispatchOwed(r, GpuDone(r, 4) + 1)
        <4>1. m.kind \in {"private", "overflow"} /\ Read(r, m.kind) = GpuDone(r, 4)
          BY <2>11 DEF Payloads, Read
        <4>2. QED
          BY <1>2, <1>3, <1>7, <4>1, TokenOwed DEF OnWire
      <3>5. GpuDone(r, 4) < HostDone(r, 5) => HostDone(r, 5) = GpuDone(r, 4) + 1
        <4>1. HostDone(r, 5) <= HostDone(r, 6) + 1 /\ HostDone(r, 6) <= GpuDone(r, 4)
          BY <1>3, RankOrder
        <4>2. HostDone(r, 5) \in Nat /\ HostDone(r, 6) \in Nat /\ GpuDone(r, 4) \in Nat
          BY <2>9 DEF CountsType
        <4>3. QED
          BY <4>1, <4>2, SMT
      <3>6. "dispatch_recv_flag" \notin flags[r]
        <4>1. ASSUME "dispatch_recv_flag" \in flags[r] PROVE FALSE
          <5>1. Tokens(r) = DispatchOwed(r, GpuDone(r, 4) + 1)
            BY <2>1, <3>5, <4>1 DEF Complete, FlagsSay
          <5>2. QED
            BY <3>1, <3>4, <5>1
        <4>2. QED
          BY <4>1
      <3>7. CountersCount(r)'
        <4>1. ASSUME GpuDone(r, 4) < HostDone(r, 5)
              PROVE  Cardinality(DispatchOwed(r, HostDone(r, 5))) \in Nat
          BY <1>3 DEF OwedSizes, SetSizes
        <4>2. counter'[r]["dispatch"] = Cardinality(Tokens(r)')
                - (IF GpuDone(r, 4)' < HostDone(r, 5)'
                   THEN Cardinality(DispatchOwed(r, HostDone(r, 5))') ELSE 0)
          BY <2>1, <2>2, <2>3, <2>8, <3>2, <3>3, <4>1, SMT DEF CountersCount
        <4>3. QED
          BY <2>1, <2>2, <2>3, <2>7, <3>1, <3>3, <4>2 DEF CountersCount
      <3>8. ASSUME "dispatch_recv_flag" \in flags'[r]
            PROVE  Tokens(r)' = DispatchOwed(r, HostDone(r, 5))'
        <4> DEFINE Owed == DispatchOwed(r, GpuDone(r, 4) + 1)
        <4>1. counter[r]["dispatch"] + 1 = 0
          BY <1>3, <2>11, <3>6, <3>8
        <4>2. IsFiniteSet(Owed) /\ Cardinality(Owed) \in Nat
          BY <1>3 DEF OwedSizes, SetSizes
        <4>3. Tokens(r) \cup {m} \subseteq Owed
          BY <2>8, <3>4
        <4>4. GpuDone(r, 4) < HostDone(r, 5)
          <5>1. counter[r]["dispatch"] # Cardinality(Tokens(r))
            BY <2>8, <4>1, SMT
          <5>2. QED
            BY <2>1, <2>8, <5>1, SMT DEF CountersCount
        <4>5. HostDone(r, 5) = GpuDone(r, 4) + 1
          BY <3>5, <4>4
        <4>6. DispatchOwed(r, HostDone(r, 5)) = Owed
          BY <4>5
        <4> HIDE DEF Owed
        <4>7. Cardinality(Tokens(r) \cup {m}) = Cardinality(Owed)
          BY <2>1, <2>8, <3>1, <3>2, <4>1, <4>2, <4>4, <4>6, SMT DEF CountersCount
        <4>8. Tokens(r) \cup {m} = Owed
          BY <4>2, <4>3, <4>7 DEF SetSizes
        <4>9. QED
          BY <2>3, <3>1, <4>6, <4>8
      <3>9. Complete(r)'
        BY <2>1, <2>2, <2>3, <3>1, <3>8 DEF Complete
      <3>10. QED
        BY <3>7, <3>9, SMT
    <2>12. QED
      BY <2>10, <2>11
  <1>11. Posted'
    BY OffWire
  <1>12. \A x, q \in Rank : Waited(x, q)'
    BY WaitedStays
  <1>13. QED
    BY <1>6, <1>8, <1>9, <1>10, <1>11, <1>12 DEF Paired, Landed, Counted

----------------------------------------------------------------------------
(* What the kernels read.                                                   *)

\* The tokens that have landed when the kernel is released are all of its round.
LEMMA InvReads ==
    ASSUME SetSizes, Inv
    PROVE  KernelsReadAll
  <1> USE Zenon
  <1>1. Types /\ Ranked /\ Paired /\ Posted /\ Landed /\ Counted
    BY DEF Inv, Linked
  <1>2. TypeOK
    <2>1. \A r \in Rank, c \in {"route", "dispatch_barrier", "combine_barrier"} :
                counter[r][c] \in 0..(World - 1)
      <3> SUFFICES ASSUME NEW r \in Rank, NEW c \in Signals PROVE counter[r][c] \in 0..(World - 1)
        BY DEF Signals
      <3>1. counter[r][c] = Cardinality(Heard(r, c))
        BY <1>1 DEF Counted, CountersCount
      <3>2. Cardinality(Heard(r, c)) \in Nat /\ Cardinality(Heard(r, c)) <= World - 1
        BY HeardCount
      <3>3. QED
        BY <3>1, <3>2, AllToAllAssumption, SMT
    <2>2. QED
      BY <1>1, <2>1, StepNames DEF Types, TypeOK
  <1>3. ASSUME NEW r \in Rank, "dispatch_recv_flag" \in flags[r]
        PROVE  Payload({"private", "overflow"}, r, gpu_round[r]) = DispatchOwed(r, gpu_round[r])
    <2>1. /\ HostDone(r, 5) \in Nat /\ HostDone(r, 1) \in Nat
          /\ GpuDone(r, 1) \in Nat /\ GpuDone(r, 4) \in Nat /\ GpuDone(r, 7) \in Nat
      BY <1>1, RankOrder DEF CountsType
    <2>2. GpuDone(r, 4) < HostDone(r, 5)
      BY <1>1, <1>3 DEF Ranked, FlagsSay
    <2>3. GpuDone(r, 7) + 1 = gpu_round[r]
      BY <1>1, CountsHold DEF Ranked, Counts
    <2>4. /\ HostDone(r, 5) <= HostDone(r, 1) /\ HostDone(r, 1) <= GpuDone(r, 1)
          /\ GpuDone(r, 1) <= GpuDone(r, 7) + 1 /\ GpuDone(r, 7) <= GpuDone(r, 4)
      BY <1>1, RankOrder
    <2>5. HostDone(r, 5) = gpu_round[r]
      BY <2>1, <2>2, <2>4, <2>3, SMT
    <2>6. Tokens(r) = DispatchOwed(r, gpu_round[r])
      BY <1>1, <1>3, <2>5 DEF Counted, Complete
    <2>7. \A m \in Tokens(r) : m.round = gpu_round[r]
      BY <2>6, SMT DEF DispatchOwed
    <2>8. \A m \in landed[r] : m.kind \in {"private", "overflow"} <=> m.kind # "combine"
      BY <1>1 DEF Landed, IsLanded, Payloads
    <2>9. Payload({"private", "overflow"}, r, gpu_round[r]) = Tokens(r)
      BY <2>7, <2>8 DEF Payload, Tokens
    <2>10. QED
      BY <2>6, <2>9
  <1>4. ASSUME NEW r \in Rank, "combine_recv_flag" \in flags[r]
        PROVE  Payload({"combine"}, r, gpu_round[r]) = CombineOwed(r, gpu_round[r])
    <2>1. /\ HostDone(r, 10) \in Nat /\ HostDone(r, 1) \in Nat
          /\ GpuDone(r, 1) \in Nat /\ GpuDone(r, 7) \in Nat
      BY <1>1, RankOrder DEF CountsType
    <2>2. GpuDone(r, 7) < HostDone(r, 10)
      BY <1>1, <1>4 DEF Ranked, FlagsSay
    <2>3. GpuDone(r, 7) + 1 = gpu_round[r]
      BY <1>1, CountsHold DEF Ranked, Counts
    <2>4. /\ HostDone(r, 10) <= HostDone(r, 1) /\ HostDone(r, 1) <= GpuDone(r, 1)
          /\ GpuDone(r, 1) <= GpuDone(r, 7) + 1
      BY <1>1, RankOrder
    <2>5. HostDone(r, 10) = gpu_round[r]
      BY <2>1, <2>2, <2>4, <2>3, SMT
    <2>6. Combined(r) = CombineOwed(r, gpu_round[r])
      BY <1>1, <2>2, <2>5 DEF Counted, Complete
    <2>7. \A m \in Combined(r) : m.round = gpu_round[r]
      BY <2>6, SMT DEF CombineOwed
    <2>8. Payload({"combine"}, r, gpu_round[r]) = Combined(r)
      BY <2>7 DEF Payload, Combined
    <2>9. QED
      BY <2>6, <2>8
  <1>5. QED
    BY <1>2, <1>3, <1>4 DEF KernelsReadAll

==============================================================================
