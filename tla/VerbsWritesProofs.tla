------------------------- MODULE VerbsWritesProofs -------------------------
(***************************************************************************)
(* Safety of the Verbs write path, for any number of writes, of queue      *)
(* pairs, of operations per write and any depth of the send queues.  IInv  *)
(* is the inductive invariant; that the pool never hands out a slot that   *)
(* is pointed to, what a report means, and the refinement of               *)
(* WriteReporting follow from it.                                          *)
(***************************************************************************)
EXTENDS VerbsWrites, FiniteSetTheorems, SequenceTheorems, WellFoundedInduction, TLAPS

Distinct(q) == \A i, j \in 1..Len(q) : q[i] = q[j] => i = j

In(q, x) == \E i \in 1..Len(q) : q[i] = x

\* The places of a queue that hold one of E.
Idx(q, E) == {i \in DOMAIN q : q[i] \in E}

\* The places of the send queues that hold one of E.
Refs(f, E) == {r \in Peers \X Nat : r[2] \in DOMAIN f[r[1]] /\ f[r[1]][r[2]] \in E}

----------------------------------------------------------------------------
(* The invariant.                                                           *)

Completion == [slot : Slots, of : Writes, qp : Peers, ok : BOOLEAN]

Reports == {<<>>, <<"Transfer">>, <<"Error">>, <<"Error", "Transfer">>}

Types ==
    /\ next_slot \in 1..Cardinality(Writes) + 1
    /\ ctx \in [1..next_slot - 1 -> Context]
    /\ free_list \in Seq(1..next_slot - 1) /\ Distinct(free_list)
    /\ write_ops \in Seq(1..next_slot - 1) /\ Distinct(write_ops)
    /\ sq \in [Peers -> Seq(Operation)] /\ broken \subseteq Peers
    /\ cq \in Seq(Completion)
    /\ completions \in [Writes -> Reports]
    /\ phase \in {"command", "poll", "progress"}

\* The operations and the completions that point to slot s.
OpsOf(s)  == {e \in Operation : e.slot = s}
CqesOf(s) == {e \in Completion : e.slot = s}

\* How many pointers to slot s are out: on the NIC, or in unread completions.
Out(s) == Cardinality(Refs(sq, OpsOf(s))) + Cardinality(Idx(cq, CqesOf(s)))

Queued(s) == In(write_ops, s)
Freed(s)  == In(free_list, s)

\* What was reported of the write of a context matches it.
Reported(c) ==
    \/ completions[c.write] = <<>> /\ ~c.bad /\ c.finished < Total(c)
    \/ completions[c.write] = <<"Transfer">> /\ ~c.bad /\ c.finished = Total(c)
    \/ completions[c.write] = <<"Error">> /\ c.bad
    \/ completions[c.write] = <<"Error", "Transfer">> /\ c.bad /\ c.finished = Total(c)

\* The books of one slot: what is out was posted and is not finished; a queued
\* context has more to post; a freed one has nothing out, is not in the queue
\* and was reported.
SlotInv(s) ==
    /\ ctx[s].finished + Out(s) <= ctx[s].posted /\ ctx[s].posted <= Total(ctx[s])
    /\ Queued(s) => ctx[s].in_queue /\ ctx[s].posted < Total(ctx[s])
    /\ Freed(s) => /\ ctx[s].finished = ctx[s].posted /\ ~ctx[s].in_queue
                   /\ completions[ctx[s].write] # <<>>
    /\ Reported(ctx[s])

\* An operation of w on the NIC, or its completion, points to slot s.
PointsTo(s, w) ==
    \/ \E q \in Peers : \E i \in DOMAIN sq[q] : sq[q][i].slot = s /\ sq[q][i].of = w
    \/ \E i \in DOMAIN cq : cq[i].slot = s /\ cq[i].of = w

\* Each pointer meets a context of its write.
Owned == \A s \in Slots, w \in Writes :
            PointsTo(s, w) => s \in 1..next_slot - 1 /\ ctx[s].write = w

\* A write has one context.
OneContext == \A s, t \in 1..next_slot - 1 : ctx[s].write = ctx[t].write => s = t

\* No send queue is overfull.
Room == \A q \in Peers : Used(q) <= Depth

FiniteOut == \A s \in Slots : IsFiniteSet(Refs(sq, OpsOf(s)))

\* The inductive invariant.
IInv == /\ Types /\ Owned /\ OneContext /\ Room /\ FiniteOut
        /\ \A s \in 1..next_slot - 1 : SlotInv(s)

----------------------------------------------------------------------------
(* Queues.                                                                  *)

\* r holds what the queue q of elements of S holds, and x.
Pushed(q, x, S, r) ==
    /\ r \in Seq(S)
    /\ \A v : In(r, v) <=> In(q, v) \/ v = x
    /\ Distinct(q) /\ ~In(q, x) => Distinct(r)

\* Members of a queue after push_back.
LEMMA AppendMembers ==
    ASSUME NEW S, NEW q \in Seq(S), NEW x \in S
    PROVE  Pushed(q, x, S, Append(q, x))
  <1>1. /\ Append(q, x) \in Seq(S) /\ Len(q) \in Nat /\ Len(Append(q, x)) = Len(q) + 1
        /\ Append(q, x)[Len(q) + 1] = x
    OBVIOUS
  <1>2. \A i \in 1..Len(q) : Append(q, x)[i] = q[i]
    OBVIOUS
  <1>3. ASSUME NEW v PROVE In(Append(q, x), v) <=> In(q, v) \/ v = x
    BY <1>1, <1>2 DEF In
  <1>4. ASSUME Distinct(q), ~In(q, x) PROVE Distinct(Append(q, x))
    BY <1>1, <1>2, <1>4 DEF In, Distinct
  <1>5. QED
    BY <1>1, <1>3, <1>4, Zenon DEF Pushed

\* Members of a queue after pop_front.
LEMMA TailMembers ==
    ASSUME NEW S, NEW q \in Seq(S), q # <<>>
    PROVE  /\ Tail(q) \in Seq(S) /\ Head(q) \in S /\ In(q, Head(q))
           /\ \A v : In(Tail(q), v) => In(q, v)
           /\ Distinct(q) => Distinct(Tail(q)) /\ ~In(Tail(q), Head(q))
  <1>1. /\ Tail(q) \in Seq(S) /\ Len(q) \in Nat /\ Len(q) > 0 /\ Len(Tail(q)) = Len(q) - 1
        /\ Head(q) = q[1] /\ q[1] \in S
    OBVIOUS
  <1>2. \A i \in 1..Len(Tail(q)) : Tail(q)[i] = q[i + 1]
    BY <1>1
  <1>3. QED
    BY <1>1, <1>2 DEF Distinct, In

\* Members of the free list after its last slot is taken.
LEMMA PopMembers ==
    ASSUME NEW S, NEW q \in Seq(S), q # <<>>, Distinct(q)
    PROVE  LET r == SubSeq(q, 1, Len(q) - 1)
               x == q[Len(q)]
           IN  /\ r \in Seq(S) /\ Distinct(r) /\ x \in S /\ In(q, x)
               /\ \A v : In(r, v) <=> In(q, v) /\ v # x
  <1> DEFINE r == SubSeq(q, 1, Len(q) - 1)
             x == q[Len(q)]
  <1>1. Len(q) \in Nat /\ Len(q) > 0 /\ x \in S
    OBVIOUS
  <1>2. r \in Seq(S) /\ Len(r) = Len(q) - 1 /\ \A i \in 1..Len(q) - 1 : r[i] = q[i]
    <2>1. \A i \in 1..Len(q) - 1 : q[i] \in S
      BY <1>1
    <2>2. Len(q) - 1 \in Int /\ 1 \in Int
      BY <1>1
    <2>3. /\ r \in Seq(S)
          /\ Len(r) = IF 1 <= Len(q) - 1 THEN (Len(q) - 1) - 1 + 1 ELSE 0
          /\ \A i \in 1..(Len(q) - 1) - 1 + 1 : r[i] = q[1 + i - 1]
      BY <2>1, <2>2, SubSeqProperties
    <2> HIDE DEF r
    <2>4. ASSUME NEW n \in Nat, n > 0
          PROVE  (n - 1) - 1 + 1 = n - 1 /\ (~(1 <= n - 1) => n - 1 = 0)
      BY <2>4
    <2>5. (Len(q) - 1) - 1 + 1 = Len(q) - 1 /\ (~(1 <= Len(q) - 1) => Len(q) - 1 = 0)
      BY <1>1, <2>4, Zenon
    <2>6. ASSUME NEW i \in 1..Len(q) - 1 PROVE 1 + i - 1 = i
      BY <1>1
    <2>7. QED
      BY <2>3, <2>5, <2>6, Zenon
  <1> HIDE DEF r
  <1>3. Distinct(r)
    BY <1>1, <1>2 DEF Distinct
  <1>4. ASSUME NEW v PROVE In(r, v) <=> In(q, v) /\ v # x
    <2>1. ASSUME NEW i \in 1..Len(q), i # Len(q) PROVE i \in 1..Len(q) - 1 /\ q[i] # x
      BY <1>1, <2>1 DEF Distinct
    <2>2. ASSUME NEW i \in 1..Len(q) - 1 PROVE i \in 1..Len(q) /\ i # Len(q)
      BY <1>1, <2>2
    <2>3. QED
      BY <1>2, <2>1, <2>2, Zenon DEF In
  <1>5. In(q, x)
    BY <1>1 DEF In
  <1>6. QED
    BY <1>1, <1>2, <1>3, <1>4, <1>5 DEF r

\* The reports of a write after one more.
LEMMA AppendReport ==
    /\ Append(<<>>, "Transfer") = <<"Transfer">>
    /\ Append(<<>>, "Error") = <<"Error">>
    /\ Append(<<"Error">>, "Transfer") = <<"Error", "Transfer">>
  <1> DEFINE R == {"Transfer", "Error"}
  <1>1. ASSUME NEW r \in R PROVE Append(<<>>, r) = <<r>>
    <2>1. <<>> \in Seq(R) /\ Len(<<>>) = 0
      OBVIOUS
    <2>2. /\ Append(<<>>, r) \in Seq(R) /\ Len(Append(<<>>, r)) = 1
          /\ Append(<<>>, r)[1] = r
      BY <2>1
    <2>3. <<r>> \in Seq(R) /\ Len(<<r>>) = 1 /\ <<r>>[1] = r
      OBVIOUS
    <2>4. QED
      BY <2>2, <2>3, SeqEqual
  <1>2. Append(<<"Error">>, "Transfer") = <<"Error", "Transfer">>
    <2> DEFINE s == Append(<<"Error">>, "Transfer")
               t == <<"Error", "Transfer">>
    <2>1. <<"Error">> \in Seq(R) /\ Len(<<"Error">>) = 1 /\ <<"Error">>[1] = "Error"
      OBVIOUS
    <2>2. s \in Seq(R) /\ Len(s) = 2 /\ s[1] = "Error" /\ s[2] = "Transfer"
      BY <2>1
    <2>3. t \in Seq(R) /\ Len(t) = 2 /\ t[1] = "Error" /\ t[2] = "Transfer"
      OBVIOUS
    <2> HIDE DEF s, t
    <2>4. \A i \in 1..Len(s) : s[i] = t[i]
      BY <2>2, <2>3
    <2>5. s = t
      BY <2>2, <2>3, <2>4, SeqEqual
    <2>6. QED
      BY <2>5 DEF s, t
  <1>3. QED
    BY <1>1, <1>2

\* A queue holds finitely many entries.
LEMMA IdxFinite ==
    ASSUME NEW S, NEW q \in Seq(S), NEW E
    PROVE  IsFiniteSet(Idx(q, E)) /\ Cardinality(Idx(q, E)) \in Nat
  <1>1. IsFiniteSet(1..Len(q)) /\ Idx(q, E) \subseteq 1..Len(q)
    BY FS_Interval DEF Idx
  <1>2. IsFiniteSet(Idx(q, E))
    BY <1>1, FS_Subset, Zenon
  <1>3. QED
    BY <1>2, FS_CardinalityType, Zenon

\* One more entry.
LEMMA IdxAppend ==
    ASSUME NEW S, NEW q \in Seq(S), NEW x \in S, NEW E
    PROVE  /\ x \in E => Cardinality(Idx(Append(q, x), E)) = Cardinality(Idx(q, E)) + 1
           /\ x \notin E => Cardinality(Idx(Append(q, x), E)) = Cardinality(Idx(q, E))
  <1> DEFINE n == Len(q) + 1
  <1>1. n \notin Idx(q, E)
    BY DEF Idx
  <1>2. Idx(Append(q, x), E) = IF x \in E THEN Idx(q, E) \cup {n} ELSE Idx(q, E)
    BY DEF Idx
  <1>3. IsFiniteSet(Idx(q, E))
    BY IdxFinite, Zenon
  <1>4. Cardinality(Idx(q, E) \cup {n}) = Cardinality(Idx(q, E)) + 1
    BY <1>1, <1>3, FS_AddElement, Zenon
  <1>5. QED
    BY <1>2, <1>4, Zenon

\* The oldest entry is taken.
LEMMA IdxTail ==
    ASSUME NEW S, NEW q \in Seq(S), q # <<>>, NEW E
    PROVE  /\ Head(q) \in E => Cardinality(Idx(q, E)) = Cardinality(Idx(Tail(q), E)) + 1
           /\ Head(q) \notin E => Cardinality(Idx(q, E)) = Cardinality(Idx(Tail(q), E))
  <1> DEFINE A == Idx(q, E)
             T == Idx(Tail(q), E)
             U == {i \in A : i # 1}
             f == [i \in T |-> i + 1]
  <1>1. Tail(q) \in Seq(S) /\ Len(Tail(q)) = Len(q) - 1 /\ Len(q) \in Nat \ {0} /\ Head(q) = q[1]
    OBVIOUS
  <1>2. \A i \in 1..(Len(q) - 1) : Tail(q)[i] = q[i + 1]
    OBVIOUS
  <1>3. f \in Bijection(T, U)
    <2>1. \A i \in T : i + 1 \in U
      BY <1>1, <1>2 DEF Idx
    <2>2. \A j \in U : j - 1 \in T /\ (j - 1) + 1 = j
      BY <1>1, <1>2 DEF Idx
    <2>3. T \subseteq Int
      BY <1>1 DEF Idx
    <2> HIDE DEF T, U
    <2>4. f \in [T -> U]
      BY <2>1
    <2>5. \A i, j \in T : f[i] = f[j] => i = j
      BY <2>3
    <2>6. \A j \in U : \E i \in T : f[i] = j
      BY <2>2
    <2>7. QED
      BY <2>4, <2>5, <2>6, Zenon DEF Bijection, Injection, Surjection, IsInjective
  <1>4. IsFiniteSet(T) /\ IsFiniteSet(A)
    BY <1>1, IdxFinite, Zenon
  <1>5. Cardinality(T) = Cardinality(U)
    <2>1. ExistsBijection(T, U)
      BY <1>3, Zenon DEF ExistsBijection
    <2>2. QED
      BY <2>1, <1>4, FS_Bijection, Zenon
  <1>6. Cardinality(A) \in Nat
    BY IdxFinite, Zenon
  <1>7. CASE Head(q) \in E
    <2>1. 1 \in A /\ U = A \ {1}
      BY <1>1, <1>7 DEF Idx
    <2> HIDE DEF A, T, U
    <2>2. Cardinality(U) = Cardinality(A) - 1
      BY <2>1, <1>4, FS_RemoveElement, Zenon
    <2>3. QED
      BY <2>2, <1>5, <1>6, <1>7 DEF A, T
  <1>8. CASE Head(q) \notin E
    <2>1. U = A
      BY <1>1, <1>8 DEF Idx
    <2>2. QED
      BY <2>1, <1>5, <1>8, Zenon
  <1>9. QED
    BY <1>7, <1>8

----------------------------------------------------------------------------
(* Pointers on the NIC.                                                     *)

\* The NIC completes the first operation of a queue pair.
LEMMA RefsTake ==
    ASSUME NEW S, NEW f \in [Peers -> Seq(S)], NEW q \in Peers, f[q] # <<>>, NEW E,
           IsFiniteSet(Refs(f, E)), NEW g, g = [f EXCEPT ![q] = Tail(@)]
    PROVE  /\ IsFiniteSet(Refs(g, E))
           /\ Head(f[q]) \in E => Cardinality(Refs(g, E)) <= Cardinality(Refs(f, E)) - 1
           /\ Head(f[q]) \notin E => Cardinality(Refs(g, E)) <= Cardinality(Refs(f, E))
  <1> DEFINE T == Refs(f, E) \ {<<q, 1>>}
             h == [r \in Refs(g, E) |-> IF r[1] = q THEN <<q, r[2] + 1>> ELSE r]
  <1>1. /\ f[q] \in Seq(S) /\ Len(f[q]) \in Nat \ {0} /\ Len(Tail(f[q])) = Len(f[q]) - 1
        /\ Head(f[q]) = f[q][1]
        /\ \A i \in 1..Len(f[q]) - 1 : Tail(f[q])[i] = f[q][i + 1]
    OBVIOUS
  <1>2. g[q] = Tail(f[q]) /\ \A p \in Peers : p # q => g[p] = f[p]
    OBVIOUS
  <1>3. ASSUME NEW r \in Refs(g, E)
        PROVE  /\ r[1] \in Peers /\ r[2] \in Nat /\ r = <<r[1], r[2]>>
               /\ (IF r[1] = q THEN <<q, r[2] + 1>> ELSE r) \in T
    <2>1. /\ r[1] \in Peers /\ r[2] \in Nat /\ r = <<r[1], r[2]>>
          /\ r[2] \in DOMAIN g[r[1]] /\ g[r[1]][r[2]] \in E
      BY DEF Refs
    <2>2. CASE r[1] = q
      <3>1. r[2] \in 1..Len(f[q]) - 1 /\ f[q][r[2] + 1] \in E
        BY <1>1, <1>2, <2>1, <2>2
      <3>2. r[2] + 1 \in DOMAIN f[q] /\ r[2] + 1 \in Nat /\ r[2] + 1 # 1
        BY <1>1, <3>1
      <3>3. <<q, r[2] + 1>> \in Refs(f, E) /\ <<q, r[2] + 1>> # <<q, 1>>
        BY <3>1, <3>2 DEF Refs
      <3>4. QED
        BY <2>1, <2>2, <3>3
    <2>3. CASE r[1] # q
      <3>1. r \in Refs(f, E)
        BY <1>2, <2>1, <2>3 DEF Refs
      <3>2. QED
        BY <2>1, <2>3, <3>1
    <2>4. QED
      BY <2>2, <2>3
  <1>4. h \in Injection(Refs(g, E), T)
    <2>1. h \in [Refs(g, E) -> T]
      BY <1>3, Zenon
    <2>2. ASSUME NEW r \in Refs(g, E), NEW s \in Refs(g, E), h[r] = h[s] PROVE r = s
      <3>1. h[r] = IF r[1] = q THEN <<q, r[2] + 1>> ELSE r
        OBVIOUS
      <3>2. h[s] = IF s[1] = q THEN <<q, s[2] + 1>> ELSE s
        OBVIOUS
      <3>3. /\ r[2] \in Nat /\ r = <<r[1], r[2]>>
            /\ s[2] \in Nat /\ s = <<s[1], s[2]>>
        BY <1>3, Zenon
      <3> HIDE DEF h
      <3>4. CASE r[1] = q /\ s[1] = q
        <4>1. <<q, r[2] + 1>> = <<q, s[2] + 1>>
          BY <2>2, <3>1, <3>2, <3>4, Zenon
        <4>2. r[2] = s[2]
          BY <4>1, <3>3
        <4>3. QED
          BY <4>2, <3>3, <3>4, Zenon
      <3>5. CASE r[1] # q /\ s[1] # q
        BY <2>2, <3>1, <3>2, <3>5, Zenon
      <3>6. CASE r[1] = q /\ s[1] # q
        <4>1. <<q, r[2] + 1>> = <<s[1], s[2]>>
          BY <2>2, <3>1, <3>2, <3>3, <3>6, Zenon
        <4>2. QED
          BY <4>1, <3>6
      <3>7. CASE r[1] # q /\ s[1] = q
        <4>1. <<r[1], r[2]>> = <<q, s[2] + 1>>
          BY <2>2, <3>1, <3>2, <3>3, <3>7, Zenon
        <4>2. QED
          BY <4>1, <3>7
      <3>8. QED
        BY <3>4, <3>5, <3>6, <3>7, Zenon
    <2> HIDE DEF h, T
    <2>3. QED
      BY <2>1, <2>2, Zenon DEF Injection, IsInjective
  <1>5. IsFiniteSet(T) /\ Cardinality(T) = IF <<q, 1>> \in Refs(f, E)
                                           THEN Cardinality(Refs(f, E)) - 1
                                           ELSE Cardinality(Refs(f, E))
    BY FS_RemoveElement, Zenon
  <1>6. IsFiniteSet(Refs(g, E)) /\ Cardinality(Refs(g, E)) <= Cardinality(T)
    <2> HIDE DEF h, T
    <2>1. QED
      BY <1>4, <1>5, FS_Injection
  <1>7. Head(f[q]) \in E <=> <<q, 1>> \in Refs(f, E)
    BY <1>1 DEF Refs
  <1>8. QED
    BY <1>5, <1>6, <1>7, Zenon

\* The send queues with N[p] more operations e for each queue pair p.
PostedTo(f, e, N) == [p \in Peers |-> f[p] \o [i \in 1..N[p] |-> e]]

\* What place i of a send queue holds after operations e were posted to it.
EntryAt(q, e, i) == IF i <= Len(q) THEN q[i] ELSE e

Extended(f, e, N, g, S) ==
    /\ g \in [Peers -> Seq(S)]
    /\ \A p \in Peers :
        /\ Len(g[p]) = Len(f[p]) + N[p]
        /\ \A i \in 1..Len(f[p]) + N[p] : g[p][i] = EntryAt(f[p], e, i)

\* n copies of one operation.
LEMMA Copies ==
    ASSUME NEW S, NEW e \in S, NEW n \in Nat
    PROVE  /\ [i \in 1..n |-> e] \in Seq(S) /\ Len([i \in 1..n |-> e]) = n
           /\ \A j \in 1..n : [i \in 1..n |-> e][j] = e
  OBVIOUS

\* Where the operations are after they are posted.
LEMMA PostedToEntries ==
    ASSUME NEW S, NEW f \in [Peers -> Seq(S)], NEW e \in S, NEW N \in [Peers -> Nat]
    PROVE  Extended(f, e, N, PostedTo(f, e, N), S)
  <1>1. ASSUME NEW p \in Peers
        PROVE  /\ PostedTo(f, e, N)[p] \in Seq(S)
               /\ Len(PostedTo(f, e, N)[p]) = Len(f[p]) + N[p]
               /\ \A i \in 1..Len(f[p]) + N[p] :
                      PostedTo(f, e, N)[p][i] = EntryAt(f[p], e, i)
    <2> DEFINE u == [i \in 1..N[p] |-> e]
    <2>1. PostedTo(f, e, N)[p] = f[p] \o u
      BY DEF PostedTo
    <2>2. N[p] \in Nat /\ u \in Seq(S) /\ Len(u) = N[p] /\ \A i \in 1..N[p] : u[i] = e
      BY Copies, Zenon
    <2>3. f[p] \in Seq(S) /\ Len(f[p]) \in Nat
      OBVIOUS
    <2> HIDE DEF u
    <2>4. /\ f[p] \o u \in Seq(S) /\ Len(f[p] \o u) = Len(f[p]) + Len(u)
          /\ \A i \in 1..Len(f[p]) + Len(u) :
                (f[p] \o u)[i] = IF i <= Len(f[p]) THEN f[p][i] ELSE u[i - Len(f[p])]
      BY <2>2, <2>3, ConcatProperties, Zenon
    <2>5. ASSUME NEW i \in 1..Len(f[p]) + N[p], ~(i <= Len(f[p]))
          PROVE  u[i - Len(f[p])] = e
      BY <2>2, <2>3, <2>5
    <2>6. QED
      BY <2>1, <2>2, <2>4, <2>5, Zenon DEF EntryAt
  <1>2. PostedTo(f, e, N) \in [Peers -> Seq(S)]
    BY <1>1 DEF PostedTo
  <1>3. QED
    BY <1>1, <1>2, Zenon DEF Extended

\* H shares out some of B, N[p] of them to each p.
Shares(H, N, B) ==
    /\ H \in [Peers -> SUBSET B]
    /\ \A p \in Peers : N[p] = Cardinality(H[p])
    /\ \A p, r \in Peers : \A x \in B : x \in H[p] /\ x \in H[r] => p = r

\* Posting the operations of H[p] to each p, of B in all, adds at most as many
\* pointers as B has.
LEMMA PostedToRefs ==
    ASSUME NEW S, NEW f \in [Peers -> Seq(S)], NEW e \in S, NEW N \in [Peers -> Nat],
           NEW B, IsFiniteSet(B), NEW H, Shares(H, N, B), NEW E, IsFiniteSet(Refs(f, E))
    PROVE  /\ IsFiniteSet(Refs(PostedTo(f, e, N), E))
           /\ e \in E => Cardinality(Refs(PostedTo(f, e, N), E)) <=
                            Cardinality(Refs(f, E)) + Cardinality(B)
           /\ e \notin E => Cardinality(Refs(PostedTo(f, e, N), E)) <= Cardinality(Refs(f, E))
  <1> DEFINE g   == PostedTo(f, e, N)
             New == {r \in Peers \X Nat : /\ Len(f[r[1]]) < r[2]
                                          /\ r[2] <= Len(f[r[1]]) + N[r[1]]}
             G   == [p \in Peers |-> CHOOSE b : b \in Bijection(1..N[p], H[p])]
             F   == [r \in New |-> G[r[1]][r[2] - Len(f[r[1]])]]
  <1>1. /\ g \in [Peers -> Seq(S)]
        /\ \A p \in Peers :
             /\ Len(g[p]) = Len(f[p]) + N[p]
             /\ \A i \in 1..Len(f[p]) + N[p] : g[p][i] = EntryAt(f[p], e, i)
    <2>1. Extended(f, e, N, g, S)
      BY PostedToEntries, Zenon
    <2> HIDE DEF g
    <2>2. QED
      BY <2>1, Zenon DEF Extended
  <1>2. ASSUME NEW p \in Peers PROVE G[p] \in Bijection(1..N[p], H[p])
    <2>1. H[p] \in SUBSET B /\ N[p] = Cardinality(H[p])
      BY Zenon DEF Shares
    <2>2. IsFiniteSet(H[p])
      BY <2>1, FS_Subset, Zenon
    <2>3. ExistsBijection(1..N[p], H[p])
      BY <2>1, <2>2, FS_CardinalityType, Zenon
    <2>4. QED
      BY <2>3, Zenon DEF ExistsBijection
  <1>3. \A p, r \in Peers : \A x \in B : x \in H[p] /\ x \in H[r] => p = r
    BY Zenon DEF Shares
  <1> HIDE DEF g, G
  <1>4. ASSUME NEW r \in New
        PROVE  /\ r[1] \in Peers /\ r[2] \in Nat /\ r = <<r[1], r[2]>>
               /\ Len(f[r[1]]) \in Nat /\ r[2] - Len(f[r[1]]) \in 1..N[r[1]]
    OBVIOUS
  <1> HIDE DEF New
  <1>5. ASSUME NEW r \in New
        PROVE  F[r] \in H[r[1]] /\ F[r] \in B
    <2>1. H[r[1]] \in SUBSET B
      BY <1>4, Zenon DEF Shares
    <2>2. F[r] \in H[r[1]]
      BY <1>2, <1>4 DEF Bijection, Injection
    <2>3. QED
      BY <2>1, <2>2, Zenon
  <1>6. F \in Injection(New, B)
    <2>1. F \in [New -> B]
      BY <1>5
    <2>2. ASSUME NEW r \in New, NEW s \in New, F[r] = F[s] PROVE r = s
      <3>1. r[1] = s[1]
        BY <1>3, <1>4, <1>5, <2>2, Zenon
      <3>2. G[r[1]][r[2] - Len(f[r[1]])] = G[r[1]][s[2] - Len(f[r[1]])]
        BY <2>2, <3>1
      <3>3. /\ r[2] - Len(f[r[1]]) \in 1..N[r[1]] /\ s[2] - Len(f[r[1]]) \in 1..N[r[1]]
            /\ Len(f[r[1]]) \in Nat /\ r[2] \in Nat /\ s[2] \in Nat
        BY <1>4, <3>1, Zenon
      <3>4. G[r[1]] \in Bijection(1..N[r[1]], H[r[1]])
        BY <1>2, <1>4, Zenon
      <3>5. r[2] - Len(f[r[1]]) = s[2] - Len(f[r[1]])
        BY <3>2, <3>3, <3>4, Zenon DEF Bijection, Injection, IsInjective
      <3>6. r[2] = s[2]
        BY <3>3, <3>5
      <3>7. QED
        BY <1>4, <3>1, <3>6, Zenon
    <2> HIDE DEF F
    <2>3. QED
      BY <2>1, <2>2, Zenon DEF Injection, IsInjective
  <1>7. IsFiniteSet(New) /\ Cardinality(New) <= Cardinality(B)
    <2> HIDE DEF F
    <2>1. QED
      BY <1>6, FS_Injection
  <1>8. ASSUME NEW r \in Refs(g, E) PROVE r \in Refs(f, E) \/ (e \in E /\ r \in New)
    <2>1. /\ r \in Peers \X Nat /\ r[1] \in Peers /\ r[2] \in Nat
          /\ r[2] \in DOMAIN g[r[1]] /\ g[r[1]][r[2]] \in E
      BY DEF Refs
    <2>2. /\ Len(f[r[1]]) \in Nat /\ N[r[1]] \in Nat /\ g[r[1]] \in Seq(S)
          /\ Len(g[r[1]]) = Len(f[r[1]]) + N[r[1]]
      BY <1>1, <2>1
    <2>3. r[2] \in 1..Len(f[r[1]]) + N[r[1]]
      BY <2>1, <2>2
    <2>4. g[r[1]][r[2]] = IF r[2] <= Len(f[r[1]]) THEN f[r[1]][r[2]] ELSE e
      BY <1>1, <2>1, <2>3, Zenon DEF EntryAt
    <2>5. CASE r[2] <= Len(f[r[1]])
      <3>1. f[r[1]] \in Seq(S) /\ r[2] \in DOMAIN f[r[1]]
        BY <2>1, <2>2, <2>3, <2>5
      <3>2. QED
        BY <2>1, <2>4, <2>5, <3>1, Zenon DEF Refs
    <2>6. CASE ~(r[2] <= Len(f[r[1]]))
      <3>1. r \in New
        BY <2>1, <2>2, <2>3, <2>6 DEF New
      <3>2. QED
        BY <2>1, <2>4, <2>6, <3>1, Zenon
    <2>7. QED
      BY <2>5, <2>6
  <1>9. CASE e \in E
    <2>1. /\ IsFiniteSet(Refs(f, E) \cup New)
          /\ Cardinality(Refs(f, E) \cup New) =
                Cardinality(Refs(f, E)) + Cardinality(New) - Cardinality(Refs(f, E) \cap New)
      BY <1>7, FS_Union, Zenon
    <2>2. IsFiniteSet(Refs(f, E) \cap New)
      BY <1>7, FS_Intersection, Zenon
    <2>3. /\ Cardinality(Refs(f, E)) \in Nat /\ Cardinality(New) \in Nat
          /\ Cardinality(Refs(f, E) \cap New) \in Nat /\ Cardinality(B) \in Nat
      BY <1>7, <2>2, FS_CardinalityType, Zenon
    <2>4. Cardinality(Refs(f, E) \cup New) <= Cardinality(Refs(f, E)) + Cardinality(B)
      BY <1>7, <2>1, <2>3
    <2>5. Refs(g, E) \in SUBSET (Refs(f, E) \cup New)
      BY <1>8, Zenon
    <2>6. IsFiniteSet(Refs(g, E)) /\ Cardinality(Refs(g, E)) <= Cardinality(Refs(f, E) \cup New)
      BY <2>1, <2>5, FS_Subset, Zenon
    <2>7. Cardinality(Refs(g, E)) \in Nat /\ Cardinality(Refs(f, E) \cup New) \in Nat
      BY <2>1, <2>6, FS_CardinalityType, Zenon
    <2>8. Cardinality(Refs(g, E)) <= Cardinality(Refs(f, E)) + Cardinality(B)
      BY <2>3, <2>4, <2>6, <2>7
    <2>9. QED
      BY <1>9, <2>6, <2>8, Zenon DEF g
  <1>10. CASE e \notin E
    <2>1. Refs(g, E) \in SUBSET Refs(f, E)
      BY <1>8, <1>10, Zenon
    <2>2. QED
      BY <1>10, <2>1, FS_Subset, Zenon DEF g
  <1>11. QED
    BY <1>9, <1>10, Zenon

----------------------------------------------------------------------------
(* Posting.                                                                 *)

\* A bounded set of numbers has a largest one.
LEMMA HasMax ==
    ASSUME NEW n \in Nat, NEW S \in SUBSET (0..n), S # {}
    PROVE  \E k \in S : \A j \in S : j <= k
  <1> DEFINE M == {n - k : k \in S}
  <1>1. IsWellFoundedOn(OpToRel(<, Nat), Nat)
    BY NatLessThanWellFounded, Zenon
  <1>2. ASSUME NEW k \in S PROVE k \in Nat /\ n - k \in Nat
    <2>1. k \in 0..n
      BY Zenon
    <2>2. QED
      BY <2>1
  <1>3. M \subseteq Nat /\ M # {}
    BY <1>2, Zenon
  <1>4. PICK m \in M : \A x \in M : <<x, m>> \notin OpToRel(<, Nat)
    BY <1>1, <1>3, WFMin, Zenon
  <1>5. PICK k \in S : m = n - k
    BY Zenon
  <1>6. \A j \in S : n - j \in M
    BY Zenon
  <1> HIDE DEF M
  <1>7. \A x \in M : m <= x
    <2>1. ASSUME NEW x \in M, x < m PROVE FALSE
      <3>1. <<x, m>> \in Nat \X Nat
        BY <1>3
      <3>2. <<x, m>> \in OpToRel(<, Nat)
        BY <2>1, <3>1 DEF OpToRel
      <3>3. QED
        BY <1>4, <3>2, Zenon
    <2>2. QED
      <3>1. ASSUME NEW x \in M PROVE m <= x
        <4>1. x \in Nat /\ m \in Nat /\ ~(x < m)
          BY <1>3, <2>1, Zenon
        <4>2. QED
          BY <4>1
      <3>2. QED
        BY <3>1, Zenon
  <1>8. ASSUME NEW j \in S PROVE j <= k
    <2>1. n - k <= n - j
      BY <1>7, <1>5, <1>6, Zenon
    <2>2. k \in Nat /\ j \in Nat
      BY <1>2, Zenon
    <2>3. QED
      BY <2>1, <2>2
  <1>9. QED
    BY <1>8, Zenon

\* A write has an operation, and a queue pair for each.
LEMMA ShapeFacts ==
    ASSUME NEW qps \in Shapes
    PROVE  /\ Len(qps) \in Nat /\ 1 <= Len(qps) /\ Len(qps) <= MaxOps
           /\ qps \in [1..Len(qps) -> Peers]
  <1>1. PICK n \in 1..MaxOps : qps \in [1..n -> Peers]
    BY DEF Shapes
  <1>2. n \in Nat /\ 1 <= n /\ n <= MaxOps
    BY VerbsWritesAssumption
  <1>3. Len(qps) = n
    BY <1>1, <1>2
  <1>4. QED
    BY <1>1, <1>2, <1>3, Zenon

\* The numbers of a context.
LEMMA ContextFacts ==
    ASSUME NEW c \in Context
    PROVE  /\ c.write \in Writes /\ c.qps \in Shapes /\ c.in_queue \in BOOLEAN /\ c.bad \in BOOLEAN
           /\ c.posted \in Nat /\ c.posted <= MaxOps /\ c.finished \in Nat /\ c.finished <= MaxOps
           /\ Total(c) \in Nat /\ 1 <= Total(c) /\ Total(c) <= MaxOps
  <1>1. /\ c.write \in Writes /\ c.qps \in Shapes /\ c.in_queue \in BOOLEAN /\ c.bad \in BOOLEAN
        /\ c.posted \in 0..MaxOps /\ c.finished \in 0..MaxOps
    BY DEF Context
  <1>2. Total(c) \in Nat /\ 1 <= Total(c) /\ Total(c) <= MaxOps
    BY <1>1, ShapeFacts DEF Total
  <1>3. QED
    BY <1>1, <1>2, VerbsWritesAssumption

\* The unread completions of a queue pair.
CqesAt(q) == {e \in Completion : e.qp = q}

\* They are the completions whose qp is the pair, as entries of the queue.
LEMMA UsedSet ==
    ASSUME Types, NEW q \in Peers
    PROVE  {i \in DOMAIN cq : cq[i].qp = q} = Idx(cq, CqesAt(q))
  <1>1. \A i \in DOMAIN cq : cq[i] \in Completion
    BY DEF Types
  <1>2. QED
    BY <1>1 DEF Idx, CqesAt

\* The entries of a send queue that are taken.
LEMMA UsedFacts ==
    ASSUME Types, NEW q \in Peers
    PROVE  /\ Used(q) = Len(sq[q]) + Cardinality(Idx(cq, CqesAt(q)))
           /\ Cardinality(Idx(cq, CqesAt(q))) \in Nat /\ Len(sq[q]) \in Nat
  <1>1. cq \in Seq(Completion) /\ sq[q] \in Seq(Operation)
    BY Zenon DEF Types
  <1>2. {i \in DOMAIN cq : cq[i].qp = q} = Idx(cq, CqesAt(q))
    BY UsedSet, Zenon
  <1>3. Cardinality(Idx(cq, CqesAt(q))) \in Nat
    BY <1>1, IdxFinite, Zenon
  <1>4. QED
    <2>1. Len(sq[q]) \in Nat
      BY <1>1
    <2>2. QED
      BY <1>2, <1>3, <2>1, Zenon DEF Used

\* How many operations progress_rdma_write_op_context posts: no more than are
\* left, and no more for a queue pair than it has room for.
LEMMA NumPostedFacts ==
    ASSUME Types, Room, NEW c \in Context, c.posted <= Total(c)
    PROVE  /\ NumPosted(c) \in 0..Total(c) - c.posted
           /\ Fits(c, NumPosted(c))
  <1> DEFINE n == Total(c) - c.posted
             S == {k \in 0..n : Fits(c, k)}
  <1>1. n \in Nat /\ c.posted \in Nat
    BY ContextFacts
  <1>2. Fits(c, 0)
    <2> SUFFICES ASSUME NEW q \in Peers
                 PROVE  Cardinality({i \in c.posted + 1..c.posted + 0 : c.qps[i] = q})
                            <= Depth - Used(q)
      BY DEF Fits
    <2>1. {i \in c.posted + 1..c.posted + 0 : c.qps[i] = q} = {}
      BY <1>1
    <2>2. Cardinality({i \in c.posted + 1..c.posted + 0 : c.qps[i] = q}) = 0
      BY <2>1, FS_EmptySet, Zenon
    <2>3. Used(q) \in Nat
      BY UsedFacts
    <2>4. Used(q) <= Depth /\ Depth \in Nat
      BY VerbsWritesAssumption DEF Room
    <2>5. QED
      BY <2>2, <2>3, <2>4
  <1> HIDE DEF n
  <1>3. 0 \in S /\ S \in SUBSET (0..n)
    BY <1>1, <1>2
  <1>4. PICK k \in S : \A j \in S : j <= k
    BY <1>1, <1>3, HasMax, Zenon
  <1>5. k \in 0..n /\ Fits(c, k) /\ \A j \in 0..n : Fits(c, j) => j <= k
    BY <1>4, Zenon
  <1>6. QED
    BY <1>5, Zenon DEF NumPosted, n

\* Out counts.
LEMMA OutType ==
    ASSUME Types, FiniteOut, NEW s \in Slots
    PROVE  /\ Cardinality(Refs(sq, OpsOf(s))) \in Nat
           /\ Cardinality(Idx(cq, CqesOf(s))) \in Nat
           /\ Out(s) \in Nat
  <1>1. cq \in Seq(Completion) /\ IsFiniteSet(Refs(sq, OpsOf(s)))
    BY Zenon DEF Types, FiniteOut
  <1>2. Cardinality(Refs(sq, OpsOf(s))) \in Nat
    BY <1>1, FS_CardinalityType, Zenon
  <1>3. Cardinality(Idx(cq, CqesOf(s))) \in Nat
    BY <1>1, IdxFinite, Zenon
  <1>4. QED
    BY <1>2, <1>3 DEF Out

\* The operations of c that go to each queue pair when the first k left are
\* posted.
Here(c, k) == [q \in Peers |-> {i \in c.posted + 1..c.posted + k : c.qps[i] = q}]

\* SqAfter as PostedTo.
LEMMA SqAfterPosts ==
    ASSUME NEW s, NEW c, NEW k
    PROVE  SqAfter(s, c, k) = PostedTo(sq, [slot |-> s, of |-> c.write],
                                       [q \in Peers |-> Cardinality(Here(c, k)[q])])
  BY Zenon DEF SqAfter, PostedTo, Here

\* What posting the first k operations left of c, at slot s, does to the NIC.
LEMMA PostEffect ==
    ASSUME Types, Room, FiniteOut, NEW s \in Slots, NEW c \in Context,
           NEW k \in Nat, Fits(c, k), sq' = SqAfter(s, c, k), cq' = cq
    PROVE  /\ sq' \in [Peers -> Seq(Operation)] /\ Room' /\ FiniteOut'
           /\ \A t \in Slots : /\ Out(t)' \in Nat
                               /\ t # s => Out(t)' <= Out(t)
                               /\ t = s => Out(t)' <= Out(t) + k
           /\ \A q \in Peers : \A i \in DOMAIN sq'[q] :
                \/ i \in DOMAIN sq[q] /\ sq'[q][i] = sq[q][i]
                \/ sq'[q][i] = [slot |-> s, of |-> c.write]
  <1> DEFINE e == [slot |-> s, of |-> c.write]
             H == Here(c, k)
             N == [q \in Peers |-> Cardinality(H[q])]
             B == c.posted + 1..c.posted + k
  <1>1. c.posted \in Nat /\ c.write \in Writes
    BY ContextFacts, Zenon
  <1>2. e \in Operation /\ e.slot = s
    BY <1>1 DEF Operation
  <1>3. IsFiniteSet(B) /\ Cardinality(B) = k
    <2>1. c.posted + 1 \in Int /\ c.posted + k \in Int
      BY <1>1
    <2>2. IsFiniteSet(B) /\ Cardinality(B) = IF c.posted + 1 > c.posted + k THEN 0
                                             ELSE (c.posted + k) - (c.posted + 1) + 1
      BY <2>1, FS_Interval, Zenon
    <2> HIDE DEF B
    <2>3. QED
      BY <1>1, <2>2
  <1>4. /\ H \in [Peers -> SUBSET B]
        /\ \A q \in Peers : H[q] = {i \in B : c.qps[i] = q}
        /\ \A p, r \in Peers : \A x \in B : x \in H[p] /\ x \in H[r] => p = r
    BY DEF Here
  <1> HIDE DEF H, B
  <1>5. ASSUME NEW q \in Peers PROVE IsFiniteSet(H[q]) /\ Cardinality(H[q]) \in Nat
    <2>1. IsFiniteSet(H[q])
      BY <1>3, <1>4, FS_Subset, Zenon
    <2>2. QED
      BY <2>1, FS_CardinalityType, Zenon
  <1>6. N \in [Peers -> Nat] /\ \A q \in Peers : N[q] = Cardinality(H[q])
    BY <1>5, Zenon
  <1>7. sq' = PostedTo(sq, e, N) /\ sq \in [Peers -> Seq(Operation)]
    BY SqAfterPosts, Zenon DEF H, Types
  <1> HIDE DEF e, N
  <1>8. Extended(sq, e, N, sq', Operation)
    BY <1>2, <1>6, <1>7, PostedToEntries, Zenon
  <1>9. /\ sq' \in [Peers -> Seq(Operation)]
        /\ \A q \in Peers : Len(sq'[q]) = Len(sq[q]) + N[q]
        /\ \A q \in Peers : \A i \in 1..Len(sq[q]) + N[q] : sq'[q][i] = EntryAt(sq[q], e, i)
    BY <1>8, Zenon DEF Extended
  <1>10. ASSUME NEW t \in Slots
         PROVE  /\ IsFiniteSet(Refs(sq', OpsOf(t)))
                /\ e \in OpsOf(t) => Cardinality(Refs(sq', OpsOf(t))) <=
                                        Cardinality(Refs(sq, OpsOf(t))) + Cardinality(B)
                /\ e \notin OpsOf(t) => Cardinality(Refs(sq', OpsOf(t))) <=
                                           Cardinality(Refs(sq, OpsOf(t)))
    <2>1. IsFiniteSet(Refs(sq, OpsOf(t)))
      BY Zenon DEF FiniteOut
    <2>2. QED
      <3>1. Shares(H, N, B)
        BY <1>4, <1>6, Zenon DEF Shares
      <3>2. e \in Operation /\ N \in [Peers -> Nat] /\ IsFiniteSet(B)
        BY <1>2, <1>3, <1>6, Zenon
      <3>3. QED
        BY <1>7, <2>1, <3>1, <3>2, PostedToRefs, Zenon
  <1>11. FiniteOut'
    BY <1>10, Zenon DEF FiniteOut, OpsOf, Operation, Slots
  <1>12. ASSUME NEW t \in Slots
         PROVE  Out(t)' \in Nat /\ (t # s => Out(t)' <= Out(t)) /\ (t = s => Out(t)' <= Out(t) + k)
    <2> DEFINE a == Cardinality(Refs(sq, OpsOf(t)))
               b == Cardinality(Idx(cq, CqesOf(t)))
               d == Cardinality(Refs(sq', OpsOf(t)))
    <2>1. a \in Nat /\ b \in Nat
      BY OutType, Zenon
    <2>2. d \in Nat
      BY <1>10, FS_CardinalityType, Zenon
    <2>3. Out(t) = a + b
      BY DEF Out
    <2>4. Out(t)' = d + b
      BY DEF Out, OpsOf, CqesOf, Operation, Completion, Slots
    <2>5. e \in OpsOf(t) <=> t = s
      BY <1>2, Zenon DEF OpsOf
    <2>6. (t # s => d <= a) /\ (t = s => d <= a + k)
      BY <1>3, <1>10, <2>5, Zenon
    <2> HIDE DEF a, b, d
    <2>7. QED
      BY <2>1, <2>2, <2>3, <2>4, <2>6
  <1>13. ASSUME NEW q \in Peers PROVE Used(q)' <= Depth
    <2>1. /\ Used(q) = Len(sq[q]) + Cardinality(Idx(cq, CqesAt(q)))
          /\ Cardinality(Idx(cq, CqesAt(q))) \in Nat /\ Len(sq[q]) \in Nat
      BY UsedFacts, Zenon
    <2>2. N[q] <= Depth - Used(q)
      BY <1>4, <1>6, Zenon DEF Fits, B
    <2> DEFINE x == Cardinality({i \in DOMAIN cq : cq[i].qp = q})
    <2>3. Used(q)' = Len(sq'[q]) + x /\ Used(q) = Len(sq[q]) + x
      BY DEF Used
    <2>4. x = Cardinality(Idx(cq, CqesAt(q)))
      BY UsedSet, Zenon
    <2> HIDE DEF x
    <2>5. N[q] \in Nat /\ Len(sq'[q]) = Len(sq[q]) + N[q] /\ Depth \in Nat
      BY <1>6, <1>9, VerbsWritesAssumption, Zenon
    <2>6. x \in Nat /\ Len(sq[q]) \in Nat
      BY <2>1, <2>4, Zenon
    <2>7. QED
      BY <2>2, <2>3, <2>5, <2>6
  <1>14. ASSUME NEW q \in Peers, NEW i \in DOMAIN sq'[q]
         PROVE  \/ i \in DOMAIN sq[q] /\ sq'[q][i] = sq[q][i]
                \/ sq'[q][i] = e
    <2>1. Len(sq[q]) \in Nat /\ N[q] \in Nat /\ sq[q] \in Seq(Operation) /\ sq'[q] \in Seq(Operation)
      BY <1>6, <1>7, <1>9
    <2>2. i \in 1..Len(sq[q]) + N[q]
      BY <1>9, <2>1
    <2>3. sq'[q][i] = EntryAt(sq[q], e, i)
      BY <1>9, <2>2, Zenon
    <2>4. CASE i <= Len(sq[q])
      <3>1. i \in DOMAIN sq[q]
        BY <2>1, <2>2, <2>4
      <3>2. QED
        BY <2>3, <2>4, <3>1, Zenon DEF EntryAt
    <2>5. CASE ~(i <= Len(sq[q]))
      BY <2>3, <2>5, Zenon DEF EntryAt
    <2>6. QED
      BY <2>4, <2>5
  <1>15. QED
    BY <1>9, <1>11, <1>12, <1>13, <1>14, Zenon DEF Room, e

\* The pointers after posting: those that were there, and new ones of c's write
\* to its slot.
LEMMA PostPointers ==
    ASSUME Types, Room, FiniteOut, NEW s \in Slots, NEW c \in Context,
           NEW k \in Nat, Fits(c, k), sq' = SqAfter(s, c, k), cq' = cq,
           NEW t, NEW w, PointsTo(t, w)'
    PROVE  PointsTo(t, w) \/ (t = s /\ w = c.write)
  <1>1. \A q \in Peers : \A i \in DOMAIN sq'[q] :
            \/ i \in DOMAIN sq[q] /\ sq'[q][i] = sq[q][i]
            \/ sq'[q][i] = [slot |-> s, of |-> c.write]
    BY PostEffect, Zenon
  <1>2. \/ \E q \in Peers : \E i \in DOMAIN sq'[q] : sq'[q][i].slot = t /\ sq'[q][i].of = w
        \/ \E i \in DOMAIN cq : cq[i].slot = t /\ cq[i].of = w
    BY Zenon DEF PointsTo
  <1>3. ASSUME NEW q \in Peers, NEW i \in DOMAIN sq'[q],
               sq'[q][i].slot = t, sq'[q][i].of = w
        PROVE  PointsTo(t, w) \/ (t = s /\ w = c.write)
    <2>1. CASE i \in DOMAIN sq[q] /\ sq'[q][i] = sq[q][i]
      BY <1>3, <2>1, Zenon DEF PointsTo
    <2>2. CASE sq'[q][i] = [slot |-> s, of |-> c.write]
      BY <1>3, <2>2
    <2>3. QED
      BY <1>1, <2>1, <2>2, Zenon
  <1>4. QED
    BY <1>2, <1>3, Zenon DEF PointsTo

\* A pointer to a slot is counted.
LEMMA PointsOut ==
    ASSUME Types, FiniteOut, NEW s \in Slots, NEW w, PointsTo(s, w)
    PROVE  Out(s) \in Nat /\ Out(s) # 0
  <1> DEFINE a == Cardinality(Refs(sq, OpsOf(s)))
             b == Cardinality(Idx(cq, CqesOf(s)))
  <1>1. a \in Nat /\ b \in Nat /\ Out(s) = a + b
    BY OutType DEF Out
  <1>2. IsFiniteSet(Refs(sq, OpsOf(s))) /\ cq \in Seq(Completion)
    BY Zenon DEF FiniteOut, Types
  <1>3. IsFiniteSet(Idx(cq, CqesOf(s)))
    BY <1>2, IdxFinite, Zenon
  <1>4. ASSUME NEW q \in Peers, NEW i \in DOMAIN sq[q], sq[q][i].slot = s PROVE a # 0
    <2>1. sq[q] \in Seq(Operation)
      BY Zenon DEF Types
    <2>2. i \in Nat /\ sq[q][i] \in Operation
      BY <2>1
    <2>3. <<q, i>> \in Refs(sq, OpsOf(s))
      BY <1>4, <2>2 DEF Refs, OpsOf
    <2>4. QED
      BY <1>2, <2>3, FS_EmptySet, Zenon
  <1>5. ASSUME NEW i \in DOMAIN cq, cq[i].slot = s PROVE b # 0
    <2>1. cq[i] \in Completion
      BY <1>2
    <2>2. i \in Idx(cq, CqesOf(s))
      BY <1>5, <2>1, Zenon DEF Idx, CqesOf
    <2>3. QED
      BY <1>3, <2>2, FS_EmptySet, Zenon
  <1> HIDE DEF a, b
  <1>6. a # 0 \/ b # 0
    BY <1>4, <1>5, Zenon DEF PointsTo
  <1>7. QED
    BY <1>1, <1>6

\* A slot no pointer of any write points to has none out.
LEMMA NoneOut ==
    ASSUME Types, FiniteOut, NEW s \in Slots, \A w \in Writes : ~PointsTo(s, w)
    PROVE  Out(s) = 0
  <1>1. sq \in [Peers -> Seq(Operation)] /\ cq \in Seq(Completion)
    BY Zenon DEF Types
  <1>2. Refs(sq, OpsOf(s)) = {}
    <2>1. ASSUME NEW r \in Refs(sq, OpsOf(s)) PROVE FALSE
      <3>1. /\ r[1] \in Peers /\ r[2] \in DOMAIN sq[r[1]]
            /\ sq[r[1]][r[2]] \in Operation /\ sq[r[1]][r[2]].slot = s
        BY DEF Refs, OpsOf
      <3>2. sq[r[1]][r[2]].of \in Writes
        BY <3>1 DEF Operation
      <3>3. QED
        BY <3>1, <3>2, Zenon DEF PointsTo
    <2>2. QED
      BY <2>1, Zenon
  <1>3. Idx(cq, CqesOf(s)) = {}
    <2>1. ASSUME NEW i \in Idx(cq, CqesOf(s)) PROVE FALSE
      <3>1. i \in DOMAIN cq /\ cq[i] \in Completion /\ cq[i].slot = s
        BY Zenon DEF Idx, CqesOf
      <3>2. cq[i].of \in Writes
        BY <3>1 DEF Completion
      <3>3. QED
        BY <3>1, <3>2, Zenon DEF PointsTo
    <2>2. QED
      BY <2>1, Zenon
  <1>4. Cardinality({}) = 0 /\ 0 + 0 = 0
    BY FS_EmptySet
  <1>5. QED
    BY <1>2, <1>3, <1>4, Zenon DEF Out

\* What the completion of an operation of q does: a pointer moves from the send
\* queue to the completion queue.
LEMMA NicEffect ==
    ASSUME Types, Room, FiniteOut, NEW q \in Peers, NicComplete(q)
    PROVE  /\ sq' \in [Peers -> Seq(Operation)] /\ cq' \in Seq(Completion)
           /\ Room' /\ FiniteOut'
           /\ \A t \in Slots : Out(t)' \in Nat /\ Out(t)' <= Out(t)
           /\ \A t, w : PointsTo(t, w)' => PointsTo(t, w)
  <1>1. /\ sq \in [Peers -> Seq(Operation)] /\ cq \in Seq(Completion)
        /\ sq[q] \in Seq(Operation) /\ sq[q] # <<>> /\ sq' = [sq EXCEPT ![q] = Tail(@)]
    BY Zenon DEF Types, NicComplete
  <1>2. PICK ok \in BOOLEAN :
            cq' = Append(cq, [slot |-> Head(sq[q]).slot, of |-> Head(sq[q]).of,
                              qp |-> q, ok |-> ok])
    BY Zenon DEF NicComplete
  <1> DEFINE h == Head(sq[q])
             e == [slot |-> Head(sq[q]).slot, of |-> Head(sq[q]).of, qp |-> q, ok |-> ok]
  <1>3. h \in Operation /\ Tail(sq[q]) \in Seq(Operation) /\ h = sq[q][1] /\ 1 \in DOMAIN sq[q]
    BY <1>1
  <1>4. e \in Completion /\ e.slot = h.slot /\ e.of = h.of /\ e.qp = q
    BY <1>3 DEF Operation, Completion
  <1>5. cq' = Append(cq, e)
    BY <1>2
  <1> HIDE DEF e, h
  <1>6. sq'[q] = Tail(sq[q]) /\ \A p \in Peers : p # q => sq'[p] = sq[p]
    BY <1>1, Zenon
  <1>7. sq' \in [Peers -> Seq(Operation)]
    BY <1>1, <1>3, Zenon
  <1>8. cq' \in Seq(Completion)
    BY <1>1, <1>4, <1>5
  <1>9. ASSUME NEW t \in Slots
        PROVE  /\ IsFiniteSet(Refs(sq', OpsOf(t)))
               /\ h.slot = t => Cardinality(Refs(sq', OpsOf(t))) <= Cardinality(Refs(sq, OpsOf(t))) - 1
               /\ h.slot # t => Cardinality(Refs(sq', OpsOf(t))) <= Cardinality(Refs(sq, OpsOf(t)))
    <2>1. IsFiniteSet(Refs(sq, OpsOf(t)))
      BY Zenon DEF FiniteOut
    <2>2. Head(sq[q]) \in OpsOf(t) <=> h.slot = t
      BY <1>3, Zenon DEF h, OpsOf
    <2>3. /\ IsFiniteSet(Refs(sq', OpsOf(t)))
          /\ Head(sq[q]) \in OpsOf(t) =>
                Cardinality(Refs(sq', OpsOf(t))) <= Cardinality(Refs(sq, OpsOf(t))) - 1
          /\ Head(sq[q]) \notin OpsOf(t) =>
                Cardinality(Refs(sq', OpsOf(t))) <= Cardinality(Refs(sq, OpsOf(t)))
      BY <1>1, <2>1, RefsTake, Zenon
    <2>4. QED
      BY <2>2, <2>3, Zenon
  <1>10. ASSUME NEW E
         PROVE  /\ e \in E => Cardinality(Idx(cq', E)) = Cardinality(Idx(cq, E)) + 1
                /\ e \notin E => Cardinality(Idx(cq', E)) = Cardinality(Idx(cq, E))
    BY <1>1, <1>4, <1>5, IdxAppend, Zenon
  <1>11. FiniteOut'
    BY <1>9, Zenon DEF FiniteOut, OpsOf, Operation, Slots
  <1>12. ASSUME NEW t \in Slots PROVE Out(t)' \in Nat /\ Out(t)' <= Out(t)
    <2> DEFINE a == Cardinality(Refs(sq, OpsOf(t)))
               b == Cardinality(Idx(cq, CqesOf(t)))
               c == Cardinality(Refs(sq', OpsOf(t)))
               d == Cardinality(Idx(cq', CqesOf(t)))
    <2>1. a \in Nat /\ b \in Nat
      BY OutType, Zenon
    <2>2. c \in Nat
      BY <1>9, FS_CardinalityType, Zenon
    <2>3. Out(t) = a + b
      BY DEF Out
    <2>4. Out(t)' = c + d
      BY DEF Out, OpsOf, CqesOf, Operation, Completion, Slots
    <2>5. e \in CqesOf(t) <=> h.slot = t
      BY <1>4, Zenon DEF CqesOf
    <2>6. \/ c <= a - 1 /\ d = b + 1
          \/ c <= a /\ d = b
      BY <1>9, <1>10, <2>5, Zenon
    <2> HIDE DEF a, b, c, d
    <2>7. QED
      BY <2>1, <2>2, <2>3, <2>4, <2>6
  <1>13. ASSUME NEW p \in Peers PROVE Used(p)' <= Depth
    <2> DEFINE b == Cardinality(Idx(cq, CqesAt(p)))
               d == Cardinality(Idx(cq', CqesAt(p)))
    <2>1. Used(p) = Len(sq[p]) + b /\ b \in Nat /\ Len(sq[p]) \in Nat /\ Used(p) <= Depth
      BY UsedFacts, Zenon DEF Room
    <2>2. Used(p)' = Len(sq'[p]) + d
      <3>1. {i \in DOMAIN cq' : cq'[i].qp = p} = Idx(cq', CqesAt(p))
        <4>1. \A i \in DOMAIN cq' : cq'[i] \in Completion
          BY <1>8
        <4>2. QED
          BY <4>1 DEF Idx, CqesAt
      <3>2. QED
        BY <3>1, Zenon DEF Used
    <2>3. e \in CqesAt(p) <=> q = p
      BY <1>4, Zenon DEF CqesAt
    <2>4. (q = p => d = b + 1) /\ (q # p => d = b)
      BY <1>10, <2>3, Zenon
    <2>5. q = p => Len(sq'[p]) = Len(sq[p]) - 1
      BY <1>1, <1>6
    <2>6. q # p => Len(sq'[p]) = Len(sq[p])
      BY <1>6, Zenon
    <2> HIDE DEF b, d
    <2>7. Depth \in Nat
      BY VerbsWritesAssumption
    <2>8. QED
      BY <2>1, <2>2, <2>4, <2>5, <2>6, <2>7
  <1>14. ASSUME NEW t, NEW w, PointsTo(t, w)' PROVE PointsTo(t, w)
    <2>1. \/ \E p \in Peers : \E i \in DOMAIN sq'[p] : sq'[p][i].slot = t /\ sq'[p][i].of = w
          \/ \E i \in DOMAIN cq' : cq'[i].slot = t /\ cq'[i].of = w
      BY <1>14, Zenon DEF PointsTo
    <2>2. ASSUME NEW p \in Peers, NEW i \in DOMAIN sq'[p]
          PROVE  \E j \in DOMAIN sq[p] : sq[p][j] = sq'[p][i]
      <3>1. CASE p = q
        <4>1. i \in 1..Len(sq[q]) - 1 /\ Tail(sq[q])[i] = sq[q][i + 1] /\ i + 1 \in DOMAIN sq[q]
          BY <1>1, <1>6, <3>1
        <4>2. QED
          BY <1>6, <3>1, <4>1, Zenon
      <3>2. CASE p # q
        BY <1>6, <3>2, Zenon
      <3>3. QED
        BY <3>1, <3>2
    <2>3. ASSUME NEW i \in DOMAIN cq'
          PROVE  \/ i \in DOMAIN cq /\ cq'[i] = cq[i]
                 \/ cq'[i] = e
      BY <1>1, <1>4, <1>5
    <2>4. ASSUME NEW i \in DOMAIN cq', cq'[i].slot = t, cq'[i].of = w PROVE PointsTo(t, w)
      <3>1. CASE i \in DOMAIN cq /\ cq'[i] = cq[i]
        BY <2>4, <3>1, Zenon DEF PointsTo
      <3>2. CASE cq'[i] = e
        <4>1. sq[q][1].slot = t /\ sq[q][1].of = w
          BY <1>3, <1>4, <2>4, <3>2, Zenon
        <4>2. QED
          BY <1>3, <4>1, Zenon DEF PointsTo
      <3>3. QED
        BY <2>3, <3>1, <3>2, Zenon
    <2>5. ASSUME NEW p \in Peers, NEW i \in DOMAIN sq'[p], sq'[p][i].slot = t, sq'[p][i].of = w
          PROVE  PointsTo(t, w)
      <3>1. PICK j \in DOMAIN sq[p] : sq[p][j] = sq'[p][i]
        BY <2>2, Zenon
      <3>2. QED
        BY <2>5, <3>1, Zenon DEF PointsTo
    <2>6. QED
      BY <2>1, <2>4, <2>5, Zenon
  <1>15. QED
    BY <1>7, <1>8, <1>11, <1>12, <1>13, <1>14, Zenon DEF Room

\* What reading a completion does: the pointer is gone.
LEMMA ReadEffect ==
    ASSUME Types, Room, FiniteOut, cq # <<>>, cq' = Tail(cq), sq' = sq
    PROVE  /\ cq' \in Seq(Completion) /\ Head(cq) \in Completion
           /\ Room' /\ FiniteOut'
           /\ \A t \in Slots : /\ Out(t)' \in Nat /\ Out(t)' <= Out(t)
                               /\ t = Head(cq).slot => Out(t)' + 1 = Out(t)
           /\ \A t, w : PointsTo(t, w)' => PointsTo(t, w)
           /\ PointsTo(Head(cq).slot, Head(cq).of)
  <1>1. /\ cq \in Seq(Completion) /\ cq' \in Seq(Completion) /\ Head(cq) \in Completion
        /\ Head(cq) = cq[1] /\ 1 \in DOMAIN cq
    BY DEF Types
  <1>2. ASSUME NEW E
        PROVE  /\ Head(cq) \in E => Cardinality(Idx(cq, E)) = Cardinality(Idx(cq', E)) + 1
               /\ Head(cq) \notin E => Cardinality(Idx(cq, E)) = Cardinality(Idx(cq', E))
               /\ Cardinality(Idx(cq', E)) \in Nat
    BY <1>1, IdxTail, IdxFinite, Zenon
  <1>3. FiniteOut'
    BY DEF FiniteOut, Refs, OpsOf, Operation, Slots
  <1>4. ASSUME NEW t \in Slots
        PROVE  /\ Out(t)' \in Nat /\ Out(t)' <= Out(t)
               /\ t = Head(cq).slot => Out(t)' + 1 = Out(t)
    <2> DEFINE a == Cardinality(Refs(sq, OpsOf(t)))
               b == Cardinality(Idx(cq, CqesOf(t)))
               d == Cardinality(Idx(cq', CqesOf(t)))
    <2>1. a \in Nat /\ d \in Nat
      BY <1>2, OutType, Zenon
    <2>2. Out(t) = a + b
      BY DEF Out
    <2>3. Out(t)' = a + d
      BY DEF Out, Refs, OpsOf, CqesOf, Operation, Completion, Slots
    <2>4. Head(cq) \in CqesOf(t) <=> t = Head(cq).slot
      BY <1>1, Zenon DEF CqesOf
    <2>5. (t = Head(cq).slot => b = d + 1) /\ (t # Head(cq).slot => b = d)
      BY <1>2, <2>4, Zenon
    <2> HIDE DEF a, b, d
    <2>6. QED
      BY <2>1, <2>2, <2>3, <2>5
  <1>5. ASSUME NEW p \in Peers PROVE Used(p)' <= Depth
    <2> DEFINE b == Cardinality(Idx(cq, CqesAt(p)))
               d == Cardinality(Idx(cq', CqesAt(p)))
    <2>1. Used(p) = Len(sq[p]) + b /\ b \in Nat /\ Len(sq[p]) \in Nat /\ Used(p) <= Depth
      BY UsedFacts, Zenon DEF Room
    <2>2. Used(p)' = Len(sq[p]) + d
      <3>1. {i \in DOMAIN cq' : cq'[i].qp = p} = Idx(cq', CqesAt(p))
        <4>1. \A i \in DOMAIN cq' : cq'[i] \in Completion
          BY <1>1
        <4>2. QED
          BY <4>1 DEF Idx, CqesAt
      <3>2. QED
        BY <3>1, Zenon DEF Used
    <2>3. d \in Nat /\ (b = d + 1 \/ b = d)
      BY <1>2, Zenon
    <2> HIDE DEF b, d
    <2>4. Depth \in Nat
      BY VerbsWritesAssumption
    <2>5. QED
      BY <2>1, <2>2, <2>3, <2>4
  <1>6. ASSUME NEW t, NEW w, PointsTo(t, w)' PROVE PointsTo(t, w)
    <2>1. \/ \E p \in Peers : \E i \in DOMAIN sq[p] : sq[p][i].slot = t /\ sq[p][i].of = w
          \/ \E i \in DOMAIN cq' : cq'[i].slot = t /\ cq'[i].of = w
      BY <1>6, Zenon DEF PointsTo
    <2>2. ASSUME NEW i \in DOMAIN cq', cq'[i].slot = t, cq'[i].of = w PROVE PointsTo(t, w)
      <3>1. i + 1 \in DOMAIN cq /\ cq'[i] = cq[i + 1]
        BY <1>1
      <3>2. QED
        BY <2>2, <3>1, Zenon DEF PointsTo
    <2>3. QED
      BY <2>1, <2>2, Zenon DEF PointsTo
  <1>7. PointsTo(Head(cq).slot, Head(cq).of)
    BY <1>1, Zenon DEF PointsTo
  <1>8. QED
    BY <1>1, <1>3, <1>4, <1>5, <1>6, <1>7, Zenon DEF Room

----------------------------------------------------------------------------
(* Slots a step leaves alone, and the pool.                                 *)

\* A step that leaves a context alone, and neither queues nor frees it nor
\* points to it anew, keeps its books.
LEMMA Frame ==
    ASSUME NEW t, ctx[t] \in Context, SlotInv(t), ctx'[t] = ctx[t],
           completions'[ctx[t].write] = completions[ctx[t].write],
           Out(t) \in Nat, Out(t)' \in Nat, Out(t)' <= Out(t),
           Queued(t)' => Queued(t), Freed(t)' => Freed(t)
    PROVE  SlotInv(t)'
  <1>1. ctx[t].finished \in Nat /\ ctx[t].posted \in Nat
    BY ContextFacts, Zenon
  <1>2. ctx[t].finished + Out(t) <= ctx[t].posted /\ ctx[t].posted <= Total(ctx[t])
    BY Zenon DEF SlotInv
  <1>3. ctx[t].finished + Out(t)' <= ctx[t].posted
    BY <1>1, <1>2
  <1>4. Reported(ctx[t])' /\ Total(ctx[t])' = Total(ctx[t])
    BY DEF SlotInv, Reported, Total
  <1>5. QED
    BY <1>2, <1>3, <1>4, Zenon DEF SlotInv

\* Slots in use are slots of the pool.
LEMMA SlotFacts ==
    ASSUME Types
    PROVE  /\ \A s \in 1..next_slot - 1 : s \in Slots /\ ctx[s] \in Context
           /\ DOMAIN ctx = 1..next_slot - 1 /\ Cardinality(Writes) \in Nat
  <1>1. Cardinality(Writes) \in Nat
    BY VerbsWritesAssumption, FS_CardinalityType, Zenon
  <1>2. next_slot \in 1..Cardinality(Writes) + 1 /\ ctx \in [1..next_slot - 1 -> Context]
    BY Zenon DEF Types
  <1>3. ASSUME NEW s \in 1..next_slot - 1 PROVE s \in Slots
    BY <1>1, <1>2 DEF Slots
  <1>4. QED
    BY <1>1, <1>2, <1>3, Zenon

\* A sequence over a set is one over a larger set.
LEMMA SeqWiden ==
    ASSUME NEW A, NEW B, A \subseteq B, NEW q \in Seq(A)
    PROVE  q \in Seq(B)
  OBVIOUS

\* The entries of a sequence.
LEMMA Entries ==
    ASSUME NEW S, NEW q \in Seq(S)
    PROVE  \A i \in 1..Len(q) : q[i] \in S
  OBVIOUS

\* The first n numbers and the next.
LEMMA OneMore ==
    ASSUME NEW n \in Nat, 1 <= n
    PROVE  /\ 1..(n + 1) - 1 = (1..n - 1) \cup {n} /\ n \in 1..(n + 1) - 1
           /\ n \notin 1..n - 1 /\ n + 1 \in Nat /\ 1 <= n + 1
  OBVIOUS

\* The pool is not exhausted: as long as a write is not submitted, and no slot
\* is free, there is a slot that was never used.
LEMMA FreshSlot ==
    ASSUME IInv, NEW w \in Writes, ~Submitted(w)
    PROVE  next_slot \in Nat /\ 1 <= next_slot /\ next_slot <= Cardinality(Writes)
  <1> DEFINE T == Writes \ {w}
             f == [t \in 1..next_slot - 1 |-> ctx[t].write]
  <1>1. /\ Types /\ OneContext /\ DOMAIN ctx = 1..next_slot - 1 /\ Cardinality(Writes) \in Nat
        /\ \A t \in 1..next_slot - 1 : ctx[t] \in Context
    BY SlotFacts, Zenon DEF IInv
  <1>2. next_slot \in 1..Cardinality(Writes) + 1
    BY <1>1, Zenon DEF Types
  <1>3. next_slot \in Nat /\ 1 <= next_slot
    BY <1>1, <1>2
  <1>4. ASSUME NEW t \in 1..next_slot - 1 PROVE ctx[t].write \in T
    <2>1. ctx[t].write # w
      BY <1>1, Zenon DEF Submitted
    <2>2. ctx[t].write \in Writes
      BY <1>1, ContextFacts, Zenon
    <2>3. QED
      BY <2>1, <2>2, Zenon
  <1>5. f \in Injection(1..next_slot - 1, T)
    <2>1. f \in [1..next_slot - 1 -> T]
      BY <1>4, Zenon
    <2>2. \A s, t \in 1..next_slot - 1 : f[s] = f[t] => s = t
      BY <1>1, Zenon DEF OneContext
    <2> HIDE DEF f, T
    <2>3. QED
      BY <2>1, <2>2, Zenon DEF Injection, IsInjective
  <1>6. IsFiniteSet(T) /\ Cardinality(T) = Cardinality(Writes) - 1
    BY VerbsWritesAssumption, FS_RemoveElement, Zenon
  <1>7. Cardinality(1..next_slot - 1) <= Cardinality(T)
    <2> HIDE DEF f, T
    <2>1. QED
      BY <1>5, <1>6, FS_Injection
  <1>8. Cardinality(1..next_slot - 1) = IF 1 > next_slot - 1 THEN 0 ELSE (next_slot - 1) - 1 + 1
    <2>1. 1 \in Int /\ next_slot - 1 \in Int
      BY <1>3
    <2>2. QED
      BY <2>1, FS_Interval
  <1> HIDE DEF f, T
  <1>9. QED
    BY <1>1, <1>3, <1>6, <1>7, <1>8

\* alloc_uninit gives a slot that is not in use: nothing points to it, it is not
\* in the queue, and a write that had it was reported.
LEMMA AllocFacts ==
    ASSUME IInv, NEW w \in Writes, ~Submitted(w), Alloc
    PROVE  /\ AllocSlot \in Slots /\ AllocSlot \in 1..next_slot' - 1
           /\ next_slot' \in 1..Cardinality(Writes) + 1
           /\ 1..next_slot' - 1 = (1..next_slot - 1) \cup {AllocSlot}
           /\ free_list' \in Seq(1..next_slot' - 1) /\ Distinct(free_list')
           /\ \A t : Freed(t)' => Freed(t) /\ t # AllocSlot
           /\ ~Queued(AllocSlot) /\ Out(AllocSlot) = 0
           /\ \A v : ~PointsTo(AllocSlot, v)
           /\ AllocSlot \in 1..next_slot - 1 => completions[ctx[AllocSlot].write] # <<>>
  <1>1. /\ Types /\ Owned /\ FiniteOut /\ \A t \in 1..next_slot - 1 : SlotInv(t)
        /\ free_list \in Seq(1..next_slot - 1) /\ Distinct(free_list)
        /\ write_ops \in Seq(1..next_slot - 1) /\ next_slot \in 1..Cardinality(Writes) + 1
        /\ cq \in Seq(Completion) /\ sq \in [Peers -> Seq(Operation)]
    BY Zenon DEF IInv, Types
  <1>2. /\ \A t \in 1..next_slot - 1 : t \in Slots /\ ctx[t] \in Context
        /\ Cardinality(Writes) \in Nat
    BY <1>1, SlotFacts, Zenon
  <1>3. CASE free_list # <<>>
    <2> DEFINE s == free_list[Len(free_list)]
    <2>1. /\ AllocSlot = s /\ next_slot' = next_slot
          /\ free_list' = SubSeq(free_list, 1, Len(free_list) - 1)
      BY <1>3, Zenon DEF Alloc, AllocSlot
    <2> HIDE DEF s
    <2>2. /\ free_list' \in Seq(1..next_slot - 1) /\ Distinct(free_list')
          /\ s \in 1..next_slot - 1 /\ Freed(s)
          /\ \A t : Freed(t)' => Freed(t) /\ t # s
      BY <1>1, <1>3, <2>1, PopMembers, Zenon DEF s, Freed
    <2>3. /\ ctx[s].finished + Out(s) <= ctx[s].posted /\ ctx[s].finished = ctx[s].posted
          /\ ~ctx[s].in_queue /\ completions[ctx[s].write] # <<>>
          /\ Queued(s) => ctx[s].in_queue
      BY <1>1, <2>2, Zenon DEF SlotInv
    <2>4. s \in Slots /\ ctx[s].finished \in Nat /\ Out(s) \in Nat
      BY <1>1, <1>2, <2>2, ContextFacts, OutType, Zenon
    <2>5. Out(s) = 0
      BY <2>3, <2>4
    <2>6. \A v : ~PointsTo(s, v)
      BY <1>1, <2>4, <2>5, PointsOut, Zenon
    <2>7. QED
      BY <1>1, <2>1, <2>2, <2>3, <2>4, <2>5, <2>6, Zenon
  <1>4. CASE free_list = <<>>
    <2>1. AllocSlot = next_slot /\ next_slot' = next_slot + 1 /\ free_list' = free_list
      BY <1>4, Zenon DEF Alloc, AllocSlot
    <2>2. next_slot \in Nat /\ 1 <= next_slot /\ next_slot <= Cardinality(Writes)
      BY FreshSlot, Zenon
    <2>3. /\ 1..next_slot' - 1 = (1..next_slot - 1) \cup {next_slot}
          /\ next_slot \in 1..next_slot' - 1 /\ next_slot \notin 1..next_slot - 1
      BY <2>1, <2>2, OneMore, Zenon
    <2>4. next_slot \in Slots /\ next_slot' \in 1..Cardinality(Writes) + 1
      BY <1>2, <2>1, <2>2 DEF Slots
    <2>5. free_list' \in Seq(1..next_slot' - 1) /\ Distinct(free_list')
      <3>1. (1..next_slot - 1) \subseteq 1..next_slot' - 1
        BY <2>3, Zenon
      <3>2. free_list \in Seq(1..next_slot' - 1)
        <4>1. free_list \in Seq(1..next_slot - 1)
          BY <1>1, Zenon
        <4>2. QED
          BY <3>1, <4>1, SeqWiden, Zenon
      <3>3. QED
        BY <1>1, <2>1, <3>2, Zenon
    <2>6. \A t : ~Freed(t)'
      BY <1>4, <2>1 DEF Freed, In
    <2>7. ~Queued(next_slot)
      <3>1. \A i \in 1..Len(write_ops) : write_ops[i] \in 1..next_slot - 1
        BY <1>1
      <3>2. QED
        BY <2>3, <3>1, Zenon DEF Queued, In
    <2>8. \A v : ~PointsTo(next_slot, v)
      <3>1. ASSUME NEW v, PointsTo(next_slot, v) PROVE v \in Writes
        <4>1. ASSUME NEW q \in Peers, NEW i \in DOMAIN sq[q] PROVE sq[q][i].of \in Writes
          <5>1. sq[q] \in Seq(Operation)
            BY <1>1, Zenon
          <5>2. sq[q][i] \in Operation
            BY <5>1
          <5>3. QED
            BY <5>2 DEF Operation
        <4>2. ASSUME NEW i \in DOMAIN cq PROVE cq[i].of \in Writes
          <5>1. cq[i] \in Completion
            BY <1>1
          <5>2. QED
            BY <5>1 DEF Completion
        <4>3. QED
          BY <3>1, <4>1, <4>2, Zenon DEF PointsTo
      <3>2. QED
        BY <1>1, <2>3, <2>4, <3>1, Zenon DEF Owned
    <2>9. Out(next_slot) = 0
      BY <1>1, <2>4, <2>8, NoneOut, Zenon
    <2>10. QED
      BY <2>1, <2>3, <2>4, <2>5, <2>6, <2>7, <2>8, <2>9, Zenon
  <1>5. QED
    BY <1>3, <1>4, Zenon

----------------------------------------------------------------------------
(* One lemma per action.                                                    *)

\* A fresh context of w, nothing of it posted.
NewContext(w, qps) == [write |-> w, qps |-> qps, posted |-> 0, finished |-> 0,
                       in_queue |-> FALSE, bad |-> FALSE]

\* The context once k operations are posted.
AfterPost(w, qps, k) == [NewContext(w, qps) EXCEPT !.posted = k, !.in_queue = k # Len(qps)]

\* A new context has posted nothing.
LEMMA NewContextFacts ==
    ASSUME NEW w \in Writes, NEW qps \in Shapes
    PROVE  /\ NewContext(w, qps) \in Context /\ NewContext(w, qps).posted = 0
           /\ Total(NewContext(w, qps)) = Len(qps) /\ NewContext(w, qps).write = w
  <1>1. 0 \in 0..MaxOps
    BY VerbsWritesAssumption
  <1>2. NewContext(w, qps) \in Context
    BY <1>1 DEF NewContext, Context
  <1>3. QED
    BY <1>2, Zenon DEF NewContext, Total

\* Posting its first operations queues a new context unless they are all of them.
LEMMA AfterPostFacts ==
    ASSUME NEW w \in Writes, NEW qps \in Shapes, NEW k \in 0..Len(qps)
    PROVE  /\ AfterPost(w, qps, k) \in Context /\ AfterPost(w, qps, k).write = w
           /\ AfterPost(w, qps, k).posted = k /\ AfterPost(w, qps, k).finished = 0
           /\ AfterPost(w, qps, k).in_queue <=> k # Len(qps)
           /\ ~AfterPost(w, qps, k).bad /\ Total(AfterPost(w, qps, k)) = Len(qps)
  <1>1. Len(qps) \in Nat /\ Len(qps) <= MaxOps /\ MaxOps \in Nat
    BY ShapeFacts, VerbsWritesAssumption
  <1>2. k \in 0..MaxOps /\ 0 \in 0..MaxOps
    BY <1>1
  <1>3. AfterPost(w, qps, k) \in Context
    BY <1>2, Zenon DEF AfterPost, NewContext, Context
  <1>4. QED
    BY <1>3, Zenon DEF AfterPost, NewContext, Total

\* do_submit_write.
LEMMA SubmitWriteInv ==
    ASSUME IInv, NEW w \in Writes, NEW qps \in Shapes, SubmitWrite(w, qps)
    PROVE  IInv'
  <1>1. PICK s, k : s = AllocSlot /\ k = NumPosted(NewContext(w, qps))
    OBVIOUS
  <1> DEFINE c   == NewContext(w, qps)
             new == AfterPost(w, qps, k)
  <1>2. /\ Alloc /\ ~Submitted(w) /\ sq' = SqAfter(s, c, k)
        /\ ctx' = [t \in DOMAIN ctx \cup {s} |-> IF t = s THEN new ELSE ctx[t]]
        /\ write_ops' = IF k # Len(qps) THEN Append(write_ops, s) ELSE write_ops
        /\ phase' = "poll" /\ broken' = broken /\ cq' = cq /\ completions' = completions
    BY <1>1, Zenon DEF SubmitWrite, NewContext, AfterPost
  <1>3. /\ Types /\ Owned /\ OneContext /\ Room /\ FiniteOut
        /\ \A t \in 1..next_slot - 1 : SlotInv(t)
    BY Zenon DEF IInv
  <1>4. /\ \A t \in 1..next_slot - 1 : t \in Slots /\ ctx[t] \in Context
        /\ DOMAIN ctx = 1..next_slot - 1
    BY <1>3, SlotFacts, Zenon
  <1>5. Len(qps) \in Nat /\ 1 <= Len(qps) /\ 0 \in 0..Len(qps)
    BY ShapeFacts
  <1>6. c \in Context /\ c.posted = 0 /\ Total(c) = Len(qps) /\ c.write = w
    BY NewContextFacts, Zenon
  <1>7. k \in 0..Len(qps) /\ Fits(c, k)
    <2>1. c.posted <= Total(c)
      BY <1>5, <1>6
    <2> HIDE DEF c
    <2>2. NumPosted(c) \in 0..Total(c) - c.posted /\ Fits(c, NumPosted(c))
      BY <1>3, <1>6, <2>1, NumPostedFacts, Zenon
    <2>3. Total(c) - c.posted = Len(qps)
      BY <1>5, <1>6
    <2>4. QED
      BY <1>1, <2>2, <2>3, Zenon DEF c
  <1>8. k \in Nat /\ k <= Len(qps)
    BY <1>5, <1>7
  <1>9. /\ new \in Context /\ new.write = w /\ new.posted = k /\ new.finished = 0
        /\ new.in_queue <=> k # Len(qps)
        /\ ~new.bad /\ Total(new) = Len(qps)
    <2> HIDE DEF c, new
    <2>1. QED
      BY <1>7, AfterPostFacts DEF new
  <1> HIDE DEF c, new
  <1>10. /\ s \in Slots /\ s \in 1..next_slot' - 1
         /\ next_slot' \in 1..Cardinality(Writes) + 1
         /\ 1..next_slot' - 1 = (1..next_slot - 1) \cup {s}
         /\ free_list' \in Seq(1..next_slot' - 1) /\ Distinct(free_list')
    BY <1>1, <1>2, AllocFacts, Zenon
  <1>11. /\ \A t : Freed(t)' => Freed(t) /\ t # s
         /\ ~Queued(s) /\ Out(s) = 0
         /\ \A v : ~PointsTo(s, v)
    BY <1>1, <1>2, AllocFacts, Zenon
  <1>12. /\ ctx' \in [1..next_slot' - 1 -> Context] /\ ctx'[s] = new
         /\ \A t \in 1..next_slot - 1 : t # s => ctx'[t] = ctx[t]
    BY <1>2, <1>4, <1>9, <1>10, Zenon
  <1>13. /\ sq' \in [Peers -> Seq(Operation)] /\ Room' /\ FiniteOut'
         /\ \A t \in Slots : /\ Out(t)' \in Nat
                             /\ t # s => Out(t)' <= Out(t)
                             /\ t = s => Out(t)' <= Out(t) + k
    BY <1>2, <1>3, <1>6, <1>7, <1>8, <1>10, PostEffect, Zenon
  <1>14. /\ write_ops' \in Seq(1..next_slot' - 1) /\ Distinct(write_ops')
         /\ \A t : Queued(t)' => Queued(t) \/ (t = s /\ k # Len(qps))
    <2>1. write_ops \in Seq(1..next_slot - 1) /\ Distinct(write_ops)
      BY <1>3, Zenon DEF Types
    <2>2. write_ops \in Seq(1..next_slot' - 1)
      <3>1. (1..next_slot - 1) \subseteq 1..next_slot' - 1
        BY <1>10, Zenon
      <3>2. write_ops \in Seq(1..next_slot - 1)
        BY <2>1, Zenon
      <3>3. QED
        BY <3>1, <3>2, SeqWiden, Zenon
    <2>3. CASE k # Len(qps)
      <3>1. write_ops' = Append(write_ops, s)
        BY <1>2, <2>3, Zenon
      <3>2. s \in 1..next_slot' - 1 /\ ~In(write_ops, s)
        BY <1>10, <1>11, Zenon DEF Queued
      <3>3. Pushed(write_ops, s, 1..next_slot' - 1, write_ops')
        BY <2>2, <3>1, <3>2, AppendMembers, Zenon
      <3>4. QED
        BY <2>1, <2>3, <3>2, <3>3, Zenon DEF Queued, Pushed
    <2>4. CASE k = Len(qps)
      BY <1>2, <2>1, <2>2, <2>4, Zenon DEF Queued
    <2>5. QED
      BY <2>3, <2>4, Zenon
  <1>15. Types'
    <2>1. /\ broken \subseteq Peers /\ cq \in Seq(Completion)
          /\ completions \in [Writes -> Reports]
      BY <1>3, Zenon DEF Types
    <2>2. (Completion = Completion)' /\ (Operation = Operation)'
      OBVIOUS
    <2>3. QED
      BY <1>2, <1>10, <1>12, <1>13, <1>14, <2>1, Zenon
         DEF Types, Completion, Operation, Slots, Context, Shapes, Reports
  <1>16. Owned'
    <2> SUFFICES ASSUME NEW t \in Slots, NEW v \in Writes, PointsTo(t, v)'
                 PROVE  t \in 1..next_slot' - 1 /\ ctx'[t].write = v
      BY Zenon DEF Owned, Slots
    <2>1. PointsTo(t, v) \/ (t = s /\ v = c.write)
      BY <1>2, <1>3, <1>6, <1>7, <1>8, <1>10, PostPointers, Zenon
    <2>2. CASE PointsTo(t, v)
      <3>1. t # s /\ t \in 1..next_slot - 1 /\ ctx[t].write = v
        BY <1>3, <1>11, <2>2, Zenon DEF Owned
      <3>2. QED
        BY <1>10, <1>12, <3>1, Zenon
    <2>3. CASE t = s /\ v = c.write
      BY <1>6, <1>9, <1>10, <1>12, <2>3, Zenon
    <2>4. QED
      BY <2>1, <2>2, <2>3, Zenon
  <1>17. OneContext'
    <2>1. ASSUME NEW t \in 1..next_slot - 1 PROVE ctx[t].write # w
      BY <1>2, <1>4, Zenon DEF Submitted
    <2>2. ASSUME NEW t \in 1..next_slot' - 1, NEW u \in 1..next_slot' - 1,
                 ctx'[t].write = ctx'[u].write
          PROVE  t = u
      <3>1. t = s \/ t \in 1..next_slot - 1
        BY <1>10, Zenon
      <3>2. u = s \/ u \in 1..next_slot - 1
        BY <1>10, Zenon
      <3>3. CASE t = s
        BY <1>9, <1>12, <2>1, <2>2, <3>2, <3>3, Zenon
      <3>4. CASE u = s
        BY <1>9, <1>12, <2>1, <2>2, <3>1, <3>4, Zenon
      <3>5. CASE t # s /\ u # s
        BY <1>3, <1>12, <2>2, <3>1, <3>2, <3>5, Zenon DEF OneContext
      <3>6. QED
        BY <3>3, <3>4, <3>5, Zenon
    <2>3. QED
      BY <2>2, Zenon DEF OneContext
  <1>18. SlotInv(s)'
    <2>1. completions[w] = <<>>
      BY <1>2, Zenon DEF Submitted
    <2>2. /\ ctx'[s].write = w /\ ctx'[s].posted = k /\ ctx'[s].finished = 0
          /\ ctx'[s].in_queue <=> k # Len(qps)
          /\ ~ctx'[s].bad /\ Total(ctx'[s]) = Len(qps)
      BY <1>9, <1>12, Zenon
    <2>3. Out(s)' \in Nat /\ Out(s)' <= k
      BY <1>8, <1>10, <1>11, <1>13
    <2>4. /\ 0 + Out(s)' <= k /\ k <= Len(qps) /\ 0 < Len(qps)
          /\ (k # Len(qps) => k < Len(qps))
      BY <1>5, <1>8, <2>3
    <2>5. Reported(ctx[s])'
      BY <1>2, <2>1, <2>2, <2>4, Zenon DEF Reported, Total
    <2>6. ~Freed(s)' /\ (Queued(s)' => k # Len(qps))
      BY <1>11, <1>14, Zenon
    <2>7. QED
      BY <2>2, <2>4, <2>5, <2>6, Zenon DEF SlotInv, Total
  <1>19. ASSUME NEW t \in 1..next_slot - 1, t # s PROVE SlotInv(t)'
    <2>1. t \in Slots /\ ctx[t] \in Context /\ SlotInv(t) /\ Out(t) \in Nat /\ Out(t)' \in Nat
      BY <1>3, <1>4, <1>13, OutType, Zenon
    <2>2. Out(t)' <= Out(t) /\ (Queued(t)' => Queued(t)) /\ (Freed(t)' => Freed(t))
      BY <1>11, <1>13, <1>14, <1>19, <2>1, Zenon
    <2>3. ctx'[t] = ctx[t] /\ completions'[ctx[t].write] = completions[ctx[t].write]
      BY <1>2, <1>12, <1>19, Zenon
    <2>4. QED
      BY <2>1, <2>2, <2>3, Frame, Zenon
  <1>20. ASSUME NEW t \in 1..next_slot' - 1 PROVE SlotInv(t)'
    BY <1>10, <1>18, <1>19, Zenon
  <1>21. QED
    BY <1>13, <1>15, <1>16, <1>17, <1>20, Zenon DEF IInv

\* A step that changes one context, and points anew to it alone, and keeps its
\* books keeps the invariant.
LEMMA OneSlot ==
    ASSUME IInv, NEW s \in 1..next_slot - 1, NEW c \in Context, c.write = ctx[s].write,
           ctx' = [ctx EXCEPT ![s] = c], next_slot' = next_slot,
           free_list' \in Seq(1..next_slot - 1), Distinct(free_list'),
           write_ops' \in Seq(1..next_slot - 1), Distinct(write_ops'),
           sq' \in [Peers -> Seq(Operation)], broken' \subseteq Peers,
           cq' \in Seq(Completion), completions' \in [Writes -> Reports],
           phase' \in {"command", "poll", "progress"}, Room', FiniteOut',
           \A t, v : PointsTo(t, v)' => PointsTo(t, v) \/ (t = s /\ v = ctx[s].write),
           \A t \in Slots : Out(t)' \in Nat /\ (t # s => Out(t)' <= Out(t)),
           \A t : t # s => (Queued(t)' => Queued(t)) /\ (Freed(t)' => Freed(t)),
           \A v \in Writes : v # ctx[s].write => completions'[v] = completions[v],
           SlotInv(s)'
    PROVE  IInv'
  <1>1. /\ Types /\ Owned /\ OneContext /\ FiniteOut
        /\ \A t \in 1..next_slot - 1 : SlotInv(t)
        /\ ctx \in [1..next_slot - 1 -> Context] /\ next_slot \in 1..Cardinality(Writes) + 1
    BY Zenon DEF IInv, Types
  <1>2. \A t \in 1..next_slot - 1 : t \in Slots /\ ctx[t] \in Context
    BY <1>1, SlotFacts, Zenon
  <1>3. /\ ctx' \in [1..next_slot - 1 -> Context] /\ ctx'[s] = c
        /\ \A t \in 1..next_slot - 1 : t # s => ctx'[t] = ctx[t]
    BY <1>1
  <1>4. \A t \in 1..next_slot - 1 : ctx'[t].write = ctx[t].write
    BY <1>3, Zenon
  <1>5. Types'
    BY <1>1, <1>3, Zenon DEF Types, Completion, Operation, Slots, Context, Shapes, Reports
  <1>6. Owned'
    <2> SUFFICES ASSUME NEW t \in Slots, NEW v \in Writes, PointsTo(t, v)'
                 PROVE  t \in 1..next_slot - 1 /\ ctx'[t].write = v
      BY Zenon DEF Owned, Slots
    <2>1. t \in 1..next_slot - 1 /\ ctx[t].write = v
      BY <1>1, Zenon DEF Owned
    <2>2. QED
      BY <1>4, <2>1, Zenon
  <1>7. OneContext'
    <2>1. ASSUME NEW t \in 1..next_slot - 1, NEW u \in 1..next_slot - 1,
                 ctx'[t].write = ctx'[u].write
          PROVE  t = u
      <3>1. ctx[t].write = ctx[u].write
        BY <1>4, <2>1, Zenon
      <3>2. QED
        BY <1>1, <3>1, Zenon DEF OneContext
    <2>2. QED
      BY <2>1, Zenon DEF OneContext
  <1>8. ASSUME NEW t \in 1..next_slot - 1, t # s PROVE SlotInv(t)'
    <2>1. t \in Slots /\ ctx[t] \in Context /\ SlotInv(t) /\ Out(t) \in Nat /\ Out(t)' \in Nat
      BY <1>1, <1>2, OutType, Zenon
    <2>2. Out(t)' <= Out(t) /\ (Queued(t)' => Queued(t)) /\ (Freed(t)' => Freed(t))
      BY <1>8, <2>1, Zenon
    <2>3. ctx[t].write # ctx[s].write /\ ctx[t].write \in Writes
      BY <1>1, <1>8, <2>1, ContextFacts, Zenon DEF OneContext
    <2>4. ctx'[t] = ctx[t] /\ completions'[ctx[t].write] = completions[ctx[t].write]
      BY <1>3, <1>8, <2>3, Zenon
    <2>5. QED
      BY <2>1, <2>2, <2>4, Frame, Zenon
  <1>9. ASSUME NEW t \in 1..next_slot' - 1 PROVE SlotInv(t)'
    BY <1>8, Zenon
  <1>10. QED
    BY <1>5, <1>6, <1>7, <1>9, Zenon DEF IInv

\* maybe_drop_write_op_context frees only the slot of the context, and only one
\* that has nothing posted left and is not in the queue.
LEMMA DropFacts ==
    ASSUME Types, NEW s \in 1..next_slot - 1, NEW c, MaybeDrop(s, c), ~Freed(s)
    PROVE  /\ next_slot' = next_slot
           /\ free_list' \in Seq(1..next_slot - 1) /\ Distinct(free_list')
           /\ \A t : t # s => (Freed(t)' => Freed(t))
           /\ Freed(s)' => c.finished = c.posted /\ ~c.in_queue
  <1>1. free_list \in Seq(1..next_slot - 1) /\ Distinct(free_list) /\ ~In(free_list, s)
    BY Zenon DEF Types, Freed
  <1>2. next_slot' = next_slot
    BY Zenon DEF MaybeDrop
  <1>3. CASE c.finished = c.posted /\ ~c.in_queue
    <2>1. free_list' = Append(free_list, s)
      BY <1>3, Zenon DEF MaybeDrop
    <2>2. Pushed(free_list, s, 1..next_slot - 1, free_list')
      BY <1>1, <2>1, AppendMembers, Zenon
    <2>3. QED
      BY <1>1, <1>2, <1>3, <2>2, Zenon DEF Freed, Pushed
  <1>4. CASE ~(c.finished = c.posted /\ ~c.in_queue)
    <2>1. free_list' = free_list
      BY <1>4, Zenon DEF MaybeDrop
    <2>2. QED
      BY <1>1, <1>2, <2>1, Zenon DEF Freed
  <1>5. QED
    BY <1>3, <1>4, Zenon

\* A completion that is read is one of a context in use, with an operation that
\* is posted and not finished.
LEMMA ReadSlot ==
    ASSUME IInv, cq # <<>>, cq' = Tail(cq), sq' = sq, NEW s, s = Head(cq).slot
    PROVE  /\ s \in 1..next_slot - 1 /\ s \in Slots /\ ctx[s] \in Context /\ SlotInv(s)
           /\ Out(s)' \in Nat /\ ctx[s].finished + 1 + Out(s)' <= ctx[s].posted
           /\ ctx[s].finished < ctx[s].posted /\ ctx[s].posted <= Total(ctx[s])
           /\ ~Freed(s)
  <1>1. Types /\ Owned /\ Room /\ FiniteOut /\ \A t \in 1..next_slot - 1 : SlotInv(t)
    BY Zenon DEF IInv
  <1>2. /\ Head(cq) \in Completion /\ PointsTo(s, Head(cq).of)
        /\ \A t \in Slots : Out(t)' \in Nat /\ (t = s => Out(t)' + 1 = Out(t))
    BY <1>1, ReadEffect, Zenon
  <1>3. s \in Slots /\ Head(cq).of \in Writes
    BY <1>2 DEF Completion
  <1>4. s \in 1..next_slot - 1
    BY <1>1, <1>2, <1>3, Zenon DEF Owned
  <1>5. ctx[s] \in Context /\ SlotInv(s)
    BY <1>1, <1>4, SlotFacts, Zenon
  <1>6. /\ ctx[s].finished + Out(s) <= ctx[s].posted /\ ctx[s].posted <= Total(ctx[s])
        /\ Freed(s) => ctx[s].finished = ctx[s].posted
    BY <1>5, Zenon DEF SlotInv
  <1>7. /\ Out(s)' \in Nat /\ Out(s)' + 1 = Out(s)
        /\ ctx[s].finished \in Nat /\ ctx[s].posted \in Nat
    BY <1>2, <1>3, <1>5, ContextFacts, Zenon
  <1>8. ctx[s].finished + 1 + Out(s)' <= ctx[s].posted /\ ctx[s].finished < ctx[s].posted
    BY <1>6, <1>7
  <1>9. ctx[s].finished # ctx[s].posted
    BY <1>7, <1>8
  <1>10. QED
    BY <1>3, <1>4, <1>5, <1>6, <1>7, <1>8, <1>9, Zenon

\* A context with one more operation finished.
Counted(c, b) == [c EXCEPT !.finished = @ + 1, !.bad = b]

\* d is the context c with one more operation finished, and b its bad flag.
OneFinished(c, b, d) ==
    /\ d \in Context /\ d.write = c.write /\ d.posted = c.posted /\ Total(d) = Total(c)
    /\ d.finished = c.finished + 1 /\ d.in_queue = c.in_queue /\ d.bad = b

\* Counting a finished operation changes nothing else of a context.
LEMMA CountedFacts ==
    ASSUME NEW c \in Context, c.finished < c.posted, NEW b \in BOOLEAN, NEW d, d = Counted(c, b)
    PROVE  OneFinished(c, b, d)
  <1>1. c.finished + 1 \in 0..MaxOps
    BY ContextFacts, VerbsWritesAssumption
  <1>2. /\ d \in Context /\ d.write = c.write /\ d.posted = c.posted /\ d.qps = c.qps
        /\ d.finished = c.finished + 1 /\ d.in_queue = c.in_queue /\ d.bad = b
    BY <1>1, Zenon DEF Context, Counted
  <1>3. QED
    BY <1>2, Zenon DEF Total, OneFinished

\* What a completion that is read leaves of the invariant, when the context
\* becomes c, may be freed, and is reported as r.
LEMMA AfterRead ==
    ASSUME IInv, cq # <<>>, cq' = Tail(cq), sq' = sq, NEW s, s = Head(cq).slot,
           NEW b \in BOOLEAN, NEW c, c = Counted(ctx[s], b),
           ctx' = [ctx EXCEPT ![s] = c],
           MaybeDrop(s, c) \/ UNCHANGED pool,
           UNCHANGED <<write_ops, broken, phase>>,
           NEW r \in Reports, completions' = [completions EXCEPT ![c.write] = r],
           \/ r = <<>> /\ ~b /\ c.finished < Total(c) /\ UNCHANGED pool
           \/ r = <<"Transfer">> /\ ~b /\ c.finished = Total(c)
           \/ r = <<"Error">> /\ b
           \/ r = <<"Error", "Transfer">> /\ b /\ c.finished = Total(c)
    PROVE  IInv'
  <1>1. /\ s \in 1..next_slot - 1 /\ s \in Slots /\ ctx[s] \in Context /\ SlotInv(s)
        /\ Out(s)' \in Nat /\ ctx[s].finished + 1 + Out(s)' <= ctx[s].posted
        /\ ctx[s].finished < ctx[s].posted /\ ctx[s].posted <= Total(ctx[s])
        /\ ~Freed(s)
    BY ReadSlot, Zenon
  <1>2. /\ c \in Context /\ c.write = ctx[s].write /\ c.posted = ctx[s].posted
        /\ Total(c) = Total(ctx[s]) /\ c.finished = ctx[s].finished + 1
        /\ c.in_queue = ctx[s].in_queue /\ c.bad = b
    <2>1. OneFinished(ctx[s], b, c)
      BY <1>1, CountedFacts, Zenon
    <2>2. QED
      BY <2>1, Zenon DEF OneFinished
  <1>3. /\ Types /\ Room /\ FiniteOut
        /\ free_list \in Seq(1..next_slot - 1) /\ Distinct(free_list)
        /\ write_ops \in Seq(1..next_slot - 1) /\ Distinct(write_ops)
        /\ sq \in [Peers -> Seq(Operation)] /\ broken \subseteq Peers
        /\ completions \in [Writes -> Reports] /\ phase \in {"command", "poll", "progress"}
        /\ ctx \in [1..next_slot - 1 -> Context]
    BY Zenon DEF IInv, Types
  <1>4. /\ next_slot' = next_slot
        /\ free_list' \in Seq(1..next_slot - 1) /\ Distinct(free_list')
        /\ \A t : t # s => (Freed(t)' => Freed(t))
        /\ Freed(s)' => c.finished = c.posted /\ ~c.in_queue
        /\ UNCHANGED pool => ~Freed(s)'
    <2>1. CASE MaybeDrop(s, c)
      <3>1. UNCHANGED pool => ~Freed(s)'
        BY <1>1, Zenon DEF pool, Freed
      <3>2. QED
        BY <1>1, <1>3, <2>1, <3>1, DropFacts, Zenon
    <2>2. CASE UNCHANGED pool
      <3>1. free_list' = free_list /\ next_slot' = next_slot
        BY <2>2 DEF pool
      <3>2. QED
        BY <1>1, <1>3, <3>1, Zenon DEF Freed
    <2>3. QED
      BY <2>1, <2>2, Zenon
  <1>5. /\ cq' \in Seq(Completion) /\ Room' /\ FiniteOut'
        /\ \A t \in Slots : Out(t)' \in Nat /\ Out(t)' <= Out(t)
        /\ \A t, v : PointsTo(t, v)' => PointsTo(t, v)
    BY <1>3, ReadEffect, Zenon
  <1>6. c.write \in Writes
    BY <1>2, ContextFacts, Zenon
  <1>7. /\ completions' \in [Writes -> Reports] /\ completions'[c.write] = r
        /\ \A v \in Writes : v # c.write => completions'[v] = completions[v]
    BY <1>3, <1>6, Zenon
  <1>8. ctx'[s] = c
    BY <1>1, <1>3, Zenon
  <1>9. \A t : Queued(t)' <=> Queued(t)
    BY DEF Queued
  <1>10. SlotInv(s)'
    <2>1. c.finished + Out(s)' <= c.posted /\ c.posted <= Total(c)
      BY <1>1, <1>2, Zenon
    <2>2. Queued(s)' => c.in_queue /\ c.posted < Total(c)
      BY <1>1, <1>2, <1>9, Zenon DEF SlotInv
    <2>3. Freed(s)' => c.finished = c.posted /\ ~c.in_queue /\ r # <<>>
      <3>1. <<"Transfer">> # <<>> /\ <<"Error">> # <<>> /\ <<"Error", "Transfer">> # <<>>
        OBVIOUS
      <3>2. QED
        BY <1>4, <3>1, Zenon
    <2>4. \/ r = <<>> /\ ~b /\ c.finished < Total(c)
          \/ r = <<"Transfer">> /\ ~b /\ c.finished = Total(c)
          \/ r = <<"Error">> /\ b
          \/ r = <<"Error", "Transfer">> /\ b /\ c.finished = Total(c)
      BY Zenon
    <2>5. Reported(ctx[s])'
      BY <1>2, <1>7, <1>8, <2>4, Zenon DEF Reported, Total
    <2>6. QED
      BY <1>7, <1>8, <2>1, <2>2, <2>3, <2>5, Zenon DEF SlotInv, Total
  <1>11. /\ write_ops' \in Seq(1..next_slot - 1) /\ Distinct(write_ops')
         /\ sq' \in [Peers -> Seq(Operation)] /\ broken' \subseteq Peers
         /\ phase' \in {"command", "poll", "progress"}
    BY <1>3, Zenon
  <1>12. /\ \A t, v : PointsTo(t, v)' => PointsTo(t, v) \/ (t = s /\ v = ctx[s].write)
         /\ \A t \in Slots : Out(t)' \in Nat /\ (t # s => Out(t)' <= Out(t))
         /\ \A t : t # s => (Queued(t)' => Queued(t)) /\ (Freed(t)' => Freed(t))
         /\ \A v \in Writes : v # ctx[s].write => completions'[v] = completions[v]
    BY <1>2, <1>4, <1>5, <1>7, <1>9, Zenon
  <1>13. QED
    BY <1>1, <1>2, <1>4, <1>5, <1>7, <1>10, <1>11, <1>12, OneSlot, Zenon

\* handle_write_cqe.
LEMMA HandleWriteCqeInv ==
    ASSUME IInv, HandleWriteCqe
    PROVE  IInv'
  <1>1. PICK s : s = Head(cq).slot
    OBVIOUS
  <1> DEFINE c == [ctx[s] EXCEPT !.finished = @ + 1]
  <1>2. /\ cq # <<>> /\ cq' = Tail(cq) /\ sq' = sq /\ UNCHANGED <<write_ops, broken, phase>>
        /\ ctx' = [ctx EXCEPT ![s] = c]
        /\ IsLast(c) => MaybeDrop(s, c) /\ Report(c.write, "Transfer")
        /\ ~IsLast(c) => UNCHANGED <<pool, completions>>
    BY <1>1, Zenon DEF HandleWriteCqe
  <1>3. /\ s \in 1..next_slot - 1 /\ ctx[s] \in Context /\ SlotInv(s)
        /\ ctx[s].finished < ctx[s].posted /\ ctx[s].posted <= Total(ctx[s])
    BY <1>1, <1>2, ReadSlot, Zenon
  <1>4. c = Counted(ctx[s], ctx[s].bad)
    BY <1>3, Zenon DEF Counted, Context
  <1> HIDE DEF c
  <1>5. ctx[s].bad \in BOOLEAN
    BY <1>3, ContextFacts, Zenon
  <1>6. /\ c \in Context /\ c.write = ctx[s].write /\ Total(c) = Total(ctx[s])
        /\ c.finished = ctx[s].finished + 1
    <2>1. PICK b : b = ctx[s].bad
      OBVIOUS
    <2>2. c = Counted(ctx[s], b) /\ b \in BOOLEAN
      BY <1>4, <1>5, <2>1, Zenon
    <2>3. OneFinished(ctx[s], b, c)
      BY <1>3, <2>2, CountedFacts, Zenon
    <2>4. QED
      BY <2>3, Zenon DEF OneFinished
  <1>7. /\ ctx[s].finished \in Nat /\ ctx[s].posted \in Nat /\ Total(ctx[s]) \in Nat
        /\ c.write \in Writes /\ completions \in [Writes -> Reports]
    BY <1>3, <1>6, ContextFacts, Zenon DEF IInv, Types
  <1>8. /\ ctx[s].finished < Total(ctx[s]) /\ ctx[s].finished # Total(ctx[s])
        /\ IsLast(c) => c.finished = Total(c)
        /\ ~IsLast(c) => c.finished < Total(c)
    BY <1>3, <1>6, <1>7 DEF IsLast
  <1>9. \/ completions[c.write] = <<>> /\ ~ctx[s].bad
        \/ completions[c.write] = <<"Error">> /\ ctx[s].bad
    BY <1>3, <1>6, <1>8, Zenon DEF SlotInv, Reported
  <1> DEFINE r == IF IsLast(c) THEN Append(completions[c.write], "Transfer")
                  ELSE completions[c.write]
  <1>10. completions' = [completions EXCEPT ![c.write] = r]
    <2>1. CASE IsLast(c)
      BY <1>2, <2>1, Zenon DEF Report
    <2>2. CASE ~IsLast(c)
      <3>1. completions' = completions
        BY <1>2, <2>2
      <3>2. QED
        BY <1>7, <2>2, <3>1
    <2>3. QED
      BY <2>1, <2>2
  <1>11. /\ \/ r = <<>> /\ ~ctx[s].bad /\ c.finished < Total(c) /\ UNCHANGED pool
            \/ r = <<"Transfer">> /\ ~ctx[s].bad /\ c.finished = Total(c)
            \/ r = <<"Error">> /\ ctx[s].bad
            \/ r = <<"Error", "Transfer">> /\ ctx[s].bad /\ c.finished = Total(c)
         /\ r \in Reports
    <2>1. CASE IsLast(c)
      <3>1. \/ r = <<"Transfer">> /\ ~ctx[s].bad
            \/ r = <<"Error", "Transfer">> /\ ctx[s].bad
        BY <1>9, <2>1, AppendReport, Zenon
      <3>2. QED
        BY <1>8, <2>1, <3>1, Zenon DEF Reports
    <2>2. CASE ~IsLast(c)
      <3>1. UNCHANGED pool
        BY <1>2, <2>2
      <3>2. QED
        BY <1>8, <1>9, <2>2, <3>1, Zenon DEF Reports
    <2>3. QED
      BY <2>1, <2>2
  <1>12. MaybeDrop(s, c) \/ UNCHANGED pool
    BY <1>2
  <1> HIDE DEF r
  <1>13. QED
    BY <1>1, <1>2, <1>4, <1>5, <1>10, <1>11, <1>12, AfterRead, Zenon

\* handle_write_error.
LEMMA HandleWriteErrorInv ==
    ASSUME IInv, HandleWriteError
    PROVE  IInv'
  <1>1. PICK s : s = Head(cq).slot
    OBVIOUS
  <1> DEFINE c == [ctx[s] EXCEPT !.finished = @ + 1, !.bad = TRUE]
  <1>2. /\ cq # <<>> /\ cq' = Tail(cq) /\ sq' = sq /\ UNCHANGED <<write_ops, broken, phase>>
        /\ ctx' = [ctx EXCEPT ![s] = c] /\ MaybeDrop(s, c)
        /\ ctx[s].bad => completions' = completions
        /\ ~ctx[s].bad => Report(c.write, "Error")
    BY <1>1, Zenon DEF HandleWriteError
  <1>3. /\ s \in 1..next_slot - 1 /\ ctx[s] \in Context /\ SlotInv(s)
        /\ ctx[s].finished < ctx[s].posted /\ ctx[s].posted <= Total(ctx[s])
    BY <1>1, <1>2, ReadSlot, Zenon
  <1>4. c = Counted(ctx[s], TRUE) /\ TRUE \in BOOLEAN
    BY DEF Counted
  <1> HIDE DEF c
  <1>5. c \in Context /\ c.write = ctx[s].write
    <2>1. OneFinished(ctx[s], TRUE, c)
      BY <1>3, <1>4, CountedFacts, Zenon
    <2>2. QED
      BY <2>1, Zenon DEF OneFinished
  <1>6. /\ ctx[s].finished \in Nat /\ ctx[s].posted \in Nat /\ Total(ctx[s]) \in Nat
        /\ c.write \in Writes /\ completions \in [Writes -> Reports]
    BY <1>3, <1>5, ContextFacts, Zenon DEF IInv, Types
  <1>7. ctx[s].finished # Total(ctx[s])
    BY <1>3, <1>6
  <1>8. \/ completions[c.write] = <<>> /\ ~ctx[s].bad
        \/ completions[c.write] = <<"Error">> /\ ctx[s].bad
    BY <1>3, <1>5, <1>7, Zenon DEF SlotInv, Reported
  <1>9. completions' = [completions EXCEPT ![c.write] = <<"Error">>]
    <2>1. CASE ctx[s].bad
      <3>1. completions' = completions /\ completions[c.write] = <<"Error">>
        BY <1>2, <1>8, <2>1, Zenon
      <3>2. QED
        BY <1>6, <3>1
    <2>2. CASE ~ctx[s].bad
      BY <1>2, <1>8, <2>2, AppendReport, Zenon DEF Report
    <2>3. QED
      BY <2>1, <2>2
  <1>10. <<"Error">> \in Reports
    BY DEF Reports
  <1>11. QED
    BY <1>1, <1>2, <1>4, <1>9, <1>10, AfterRead, Zenon

\* A step that does not concern the NIC keeps what is counted of it.
LEMMA NicSame ==
    ASSUME Room, FiniteOut, sq' = sq, cq' = cq
    PROVE  /\ Room' /\ FiniteOut' /\ \A t : Out(t)' = Out(t)
           /\ \A t, v : PointsTo(t, v)' => PointsTo(t, v)
  <1>1. Room'
    BY DEF Room, Used
  <1>2. FiniteOut'
    BY DEF FiniteOut, Refs, OpsOf, Operation, Slots
  <1>3. ASSUME NEW t PROVE Out(t)' = Out(t)
    BY DEF Out, Refs, OpsOf, CqesOf, Operation, Completion, Slots
  <1>4. ASSUME NEW t, NEW v, PointsTo(t, v)' PROVE PointsTo(t, v)
    BY <1>4 DEF PointsTo
  <1>5. QED
    BY <1>1, <1>2, <1>3, <1>4, Zenon

\* progress_rdma_write_ops meets a bad context.
LEMMA UnqueueBadInv ==
    ASSUME IInv, UnqueueBad
    PROVE  IInv'
  <1>1. PICK s : s = Head(write_ops)
    OBVIOUS
  <1> DEFINE c == [ctx[s] EXCEPT !.in_queue = FALSE]
  <1>2. /\ write_ops # <<>> /\ write_ops' = Tail(write_ops) /\ ctx[s].bad
        /\ ctx' = [ctx EXCEPT ![s] = c] /\ MaybeDrop(s, c)
        /\ UNCHANGED <<nic, completions, phase>>
    BY <1>1, Zenon DEF UnqueueBad
  <1>3. /\ Types /\ Room /\ FiniteOut /\ \A t \in 1..next_slot - 1 : SlotInv(t)
        /\ write_ops \in Seq(1..next_slot - 1) /\ Distinct(write_ops)
        /\ sq \in [Peers -> Seq(Operation)] /\ broken \subseteq Peers /\ cq \in Seq(Completion)
        /\ completions \in [Writes -> Reports] /\ phase \in {"command", "poll", "progress"}
        /\ ctx \in [1..next_slot - 1 -> Context]
    BY Zenon DEF IInv, Types
  <1>4. /\ write_ops' \in Seq(1..next_slot - 1) /\ Distinct(write_ops')
        /\ s \in 1..next_slot - 1 /\ Queued(s) /\ ~Queued(s)'
        /\ \A t : Queued(t)' => Queued(t)
    BY <1>1, <1>2, <1>3, TailMembers, Zenon DEF Queued
  <1>5. /\ sq' = sq /\ broken' = broken /\ cq' = cq /\ completions' = completions
        /\ phase' = phase
    BY <1>2 DEF nic
  <1>6. s \in Slots /\ ctx[s] \in Context /\ SlotInv(s) /\ ctx[s].in_queue /\ ~Freed(s)
    BY <1>3, <1>4, SlotFacts, Zenon DEF SlotInv
  <1>7. /\ c \in Context /\ c.write = ctx[s].write /\ c.qps = ctx[s].qps
        /\ c.finished = ctx[s].finished /\ c.posted = ctx[s].posted /\ c.bad /\ ~c.in_queue
    BY <1>2, <1>6, Zenon DEF Context
  <1> HIDE DEF c
  <1>8. /\ next_slot' = next_slot
        /\ free_list' \in Seq(1..next_slot - 1) /\ Distinct(free_list')
        /\ \A t : t # s => (Freed(t)' => Freed(t))
        /\ Freed(s)' => c.finished = c.posted
    BY <1>2, <1>3, <1>4, <1>6, DropFacts, Zenon
  <1>9. /\ Room' /\ FiniteOut' /\ \A t : Out(t)' = Out(t)
        /\ \A t, v : PointsTo(t, v)' => PointsTo(t, v)
    BY <1>3, <1>5, NicSame, Zenon
  <1>10. ctx'[s] = c
    BY <1>2, <1>3, <1>4
  <1>11. SlotInv(s)'
    <2>1. /\ c.finished + Out(s)' <= c.posted /\ c.posted <= Total(c)
      BY <1>6, <1>7, <1>9, Zenon DEF SlotInv, Total
    <2>2. /\ Reported(ctx[s])' /\ completions[c.write] # <<>>
      <3>1. \/ completions[c.write] = <<"Error">>
            \/ completions[c.write] = <<"Error", "Transfer">> /\ c.finished = Total(c)
        BY <1>2, <1>6, <1>7, Zenon DEF SlotInv, Reported, Total
      <3>2. <<"Error">> # <<>> /\ <<"Error", "Transfer">> # <<>>
        OBVIOUS
      <3>3. QED
        BY <1>5, <1>7, <1>10, <3>1, <3>2, Zenon DEF Reported, Total
    <2>3. QED
      BY <1>4, <1>5, <1>7, <1>8, <1>10, <2>1, <2>2, Zenon DEF SlotInv, Total
  <1>12. ASSUME NEW t \in Slots PROVE Out(t)' \in Nat /\ (t # s => Out(t)' <= Out(t))
    <2>1. Out(t) \in Nat /\ Out(t)' = Out(t)
      BY <1>3, <1>9, OutType, Zenon
    <2>2. QED
      BY <2>1
  <1>13. /\ \A t, v : PointsTo(t, v)' => PointsTo(t, v) \/ (t = s /\ v = ctx[s].write)
         /\ \A t : t # s => (Queued(t)' => Queued(t)) /\ (Freed(t)' => Freed(t))
         /\ \A v \in Writes : v # ctx[s].write => completions'[v] = completions[v]
    BY <1>4, <1>5, <1>8, <1>9, Zenon
  <1>14. /\ sq' \in [Peers -> Seq(Operation)] /\ broken' \subseteq Peers /\ cq' \in Seq(Completion)
         /\ completions' \in [Writes -> Reports] /\ phase' \in {"command", "poll", "progress"}
    BY <1>3, <1>5, Zenon
  <1>15. QED
    BY <1>2, <1>4, <1>7, <1>8, <1>9, <1>11, <1>12, <1>13, <1>14, OneSlot, Zenon

\* progress_rdma_write_ops posts.
LEMMA PostQueuedInv ==
    ASSUME IInv, PostQueued
    PROVE  IInv'
  <1>1. PICK s, k : s = Head(write_ops) /\ k = NumPosted(ctx[s])
    OBVIOUS
  <1> DEFINE c == [ctx[s] EXCEPT !.posted = @ + k]
             all == ctx[s].posted + k = Total(ctx[s])
  <1>2. /\ write_ops # <<>> /\ ctx' = [ctx EXCEPT ![s].posted = @ + k]
        /\ sq' = SqAfter(s, ctx[s], k)
        /\ write_ops' = IF all THEN Tail(write_ops) ELSE write_ops
        /\ phase' = IF all THEN phase ELSE "command"
        /\ UNCHANGED <<pool, broken, cq, completions>>
    BY <1>1, Zenon DEF PostQueued
  <1>3. /\ Types /\ Room /\ FiniteOut /\ \A t \in 1..next_slot - 1 : SlotInv(t)
        /\ free_list \in Seq(1..next_slot - 1) /\ Distinct(free_list)
        /\ write_ops \in Seq(1..next_slot - 1) /\ Distinct(write_ops)
        /\ broken \subseteq Peers /\ cq \in Seq(Completion)
        /\ completions \in [Writes -> Reports] /\ phase \in {"command", "poll", "progress"}
        /\ ctx \in [1..next_slot - 1 -> Context]
    BY Zenon DEF IInv, Types
  <1>4. /\ Tail(write_ops) \in Seq(1..next_slot - 1) /\ Distinct(Tail(write_ops))
        /\ s \in 1..next_slot - 1 /\ In(write_ops, s) /\ ~In(Tail(write_ops), s)
        /\ \A t : In(Tail(write_ops), t) => In(write_ops, t)
    BY <1>1, <1>2, <1>3, TailMembers, Zenon
  <1>5. /\ next_slot' = next_slot /\ free_list' = free_list /\ broken' = broken
        /\ cq' = cq /\ completions' = completions
    BY <1>2 DEF pool
  <1>6. /\ s \in Slots /\ ctx[s] \in Context /\ SlotInv(s) /\ ctx[s].in_queue /\ ~Freed(s)
        /\ ctx[s].posted < Total(ctx[s])
    BY <1>3, <1>4, SlotFacts, Zenon DEF SlotInv, Queued
  <1>7. /\ ctx[s].posted \in Nat /\ ctx[s].finished \in Nat /\ Total(ctx[s]) \in Nat
        /\ Total(ctx[s]) <= MaxOps /\ MaxOps \in Nat /\ ctx[s].posted <= Total(ctx[s])
    BY <1>6, ContextFacts, VerbsWritesAssumption
  <1>8. k \in 0..Total(ctx[s]) - ctx[s].posted /\ Fits(ctx[s], k)
    BY <1>1, <1>3, <1>6, <1>7, NumPostedFacts, Zenon
  <1>9. k \in Nat /\ ctx[s].posted + k <= Total(ctx[s]) /\ ctx[s].posted + k \in 0..MaxOps
    BY <1>7, <1>8
  <1>10. /\ c \in Context /\ c.write = ctx[s].write /\ c.qps = ctx[s].qps
         /\ c.finished = ctx[s].finished /\ c.posted = ctx[s].posted + k
         /\ c.bad = ctx[s].bad /\ c.in_queue = ctx[s].in_queue
    BY <1>6, <1>9, Zenon DEF Context
  <1>11. ctx' = [ctx EXCEPT ![s] = c] /\ ctx'[s] = c
    BY <1>2, <1>3, <1>4
  <1> HIDE DEF c
  <1>12. /\ write_ops' \in Seq(1..next_slot - 1) /\ Distinct(write_ops')
         /\ phase' \in {"command", "poll", "progress"}
         /\ \A t : Queued(t)' => Queued(t)
         /\ Queued(s)' => ~all
    BY <1>2, <1>3, <1>4, Zenon DEF Queued
  <1>13. /\ sq' \in [Peers -> Seq(Operation)] /\ Room' /\ FiniteOut'
         /\ \A t \in Slots : /\ Out(t)' \in Nat
                             /\ t # s => Out(t)' <= Out(t)
                             /\ t = s => Out(t)' <= Out(t) + k
    BY <1>2, <1>3, <1>5, <1>6, <1>8, <1>9, PostEffect, Zenon
  <1>14. ASSUME NEW t, NEW v, PointsTo(t, v)'
         PROVE  PointsTo(t, v) \/ (t = s /\ v = ctx[s].write)
    BY <1>2, <1>3, <1>5, <1>6, <1>8, <1>9, <1>14, PostPointers, Zenon
  <1>15. SlotInv(s)'
    <2>1. ctx[s].finished + Out(s) <= ctx[s].posted /\ Out(s) \in Nat
      BY <1>3, <1>6, OutType, Zenon DEF SlotInv
    <2>2. Out(s)' \in Nat /\ Out(s)' <= Out(s) + k
      BY <1>6, <1>13, Zenon
    <2>3. c.finished + Out(s)' <= c.posted
      BY <1>7, <1>9, <1>10, <2>1, <2>2
    <2>4. c.posted <= Total(c) /\ (~all => c.posted < Total(c)) /\ Total(c) = Total(ctx[s])
      BY <1>7, <1>9, <1>10 DEF Total
    <2>5. Reported(ctx[s])'
      BY <1>5, <1>6, <1>10, <1>11, Zenon DEF SlotInv, Reported, Total
    <2>6. ~Freed(s)'
      BY <1>5, <1>6, Zenon DEF Freed
    <2>7. QED
      BY <1>6, <1>10, <1>11, <1>12, <2>3, <2>4, <2>5, <2>6, Zenon DEF SlotInv, Total
  <1>16. /\ free_list' \in Seq(1..next_slot - 1) /\ Distinct(free_list')
         /\ broken' \subseteq Peers /\ cq' \in Seq(Completion)
         /\ completions' \in [Writes -> Reports]
         /\ \A t : t # s => (Queued(t)' => Queued(t)) /\ (Freed(t)' => Freed(t))
         /\ \A v \in Writes : v # ctx[s].write => completions'[v] = completions[v]
    BY <1>3, <1>5, <1>12, Zenon DEF Freed
  <1>17. QED
    BY <1>4, <1>5, <1>10, <1>11, <1>12, <1>13, <1>14, <1>15, <1>16, OneSlot, Zenon

\* A step that leaves the contexts, the pool, the queue and the reports alone,
\* and makes no pointer, keeps the invariant.
LEMMA Elsewhere ==
    ASSUME IInv, UNCHANGED <<ctx, pool, write_ops, completions>>,
           phase' \in {"command", "poll", "progress"},
           sq' \in [Peers -> Seq(Operation)], broken' \subseteq Peers, cq' \in Seq(Completion),
           Room', FiniteOut', \A t \in Slots : Out(t)' \in Nat /\ Out(t)' <= Out(t),
           \A t, v : PointsTo(t, v)' => PointsTo(t, v)
    PROVE  IInv'
  <1>1. /\ Types /\ Owned /\ OneContext /\ FiniteOut
        /\ \A t \in 1..next_slot - 1 : SlotInv(t)
    BY Zenon DEF IInv
  <1>2. /\ ctx' = ctx /\ next_slot' = next_slot /\ free_list' = free_list
        /\ write_ops' = write_ops /\ completions' = completions
    BY DEF pool
  <1>3. Types'
    BY <1>1, <1>2, Zenon DEF Types, Completion, Operation, Slots, Context, Shapes, Reports
  <1>4. Owned'
    BY <1>1, <1>2, Zenon DEF Owned, Slots
  <1>5. OneContext'
    BY <1>1, <1>2, Zenon DEF OneContext
  <1>6. ASSUME NEW t \in 1..next_slot' - 1 PROVE SlotInv(t)'
    <2>1. t \in 1..next_slot - 1
      BY <1>2, Zenon
    <2>2. t \in Slots /\ ctx[t] \in Context /\ SlotInv(t) /\ Out(t) \in Nat
      BY <1>1, <2>1, SlotFacts, OutType, Zenon
    <2>3. (Queued(t)' => Queued(t)) /\ (Freed(t)' => Freed(t))
      BY <1>2, Zenon DEF Queued, Freed
    <2>4. QED
      BY <1>2, <2>2, <2>3, Frame, Zenon
  <1>7. QED
    BY <1>3, <1>4, <1>5, <1>6, Zenon DEF IInv

\* The NIC completes an operation.
LEMMA NicCompleteInv ==
    ASSUME IInv, NEW q \in Peers, NicComplete(q)
    PROVE  IInv'
  <1>1. Types /\ Room /\ FiniteOut /\ phase \in {"command", "poll", "progress"} /\ broken \subseteq Peers
    BY Zenon DEF IInv, Types
  <1>2. /\ UNCHANGED <<ctx, pool, write_ops, completions, phase>>
        /\ \E ok \in BOOLEAN : broken' = IF ok THEN broken ELSE broken \cup {q}
    BY Zenon DEF NicComplete
  <1>3. phase' \in {"command", "poll", "progress"} /\ broken' \subseteq Peers
    BY <1>1, <1>2
  <1>4. UNCHANGED <<ctx, pool, write_ops, completions>>
    BY <1>2
  <1>5. /\ sq' \in [Peers -> Seq(Operation)] /\ cq' \in Seq(Completion)
        /\ Room' /\ FiniteOut'
        /\ \A t \in Slots : Out(t)' \in Nat /\ Out(t)' <= Out(t)
        /\ \A t, w : PointsTo(t, w)' => PointsTo(t, w)
    BY <1>1, NicEffect, Zenon
  <1>6. QED
    BY <1>3, <1>4, <1>5, Elsewhere, Zenon

\* Steps of the worker thread that only move on.
LEMMA StayInv ==
    ASSUME IInv, UNCHANGED <<ctx, pool, write_ops, nic, completions>>,
           phase' \in {"command", "poll", "progress"}
    PROVE  IInv'
  <1>1. /\ Types /\ Room /\ FiniteOut /\ broken \subseteq Peers
        /\ sq \in [Peers -> Seq(Operation)] /\ cq \in Seq(Completion)
    BY Zenon DEF IInv, Types
  <1>2. sq' = sq /\ broken' = broken /\ cq' = cq
    BY DEF nic
  <1>3. UNCHANGED <<ctx, pool, write_ops, completions>>
    OBVIOUS
  <1>4. /\ Room' /\ FiniteOut' /\ \A t : Out(t)' = Out(t)
        /\ \A t, v : PointsTo(t, v)' => PointsTo(t, v)
    BY <1>1, <1>2, NicSame, Zenon
  <1>5. ASSUME NEW t \in Slots PROVE Out(t)' \in Nat /\ Out(t)' <= Out(t)
    <2>1. Out(t) \in Nat /\ Out(t)' = Out(t)
      BY <1>1, <1>4, OutType, Zenon
    <2>2. QED
      BY <2>1
  <1>6. /\ sq' \in [Peers -> Seq(Operation)] /\ broken' \subseteq Peers /\ cq' \in Seq(Completion)
    BY <1>1, <1>2, Zenon
  <1>7. QED
    BY <1>3, <1>4, <1>5, <1>6, Elsewhere, Zenon

----------------------------------------------------------------------------
(* The invariant holds.                                                     *)

\* Nothing has been submitted.
LEMMA InitIInv == Init => IInv
  <1> SUFFICES ASSUME Init PROVE IInv
    OBVIOUS
  <1>1. /\ ctx = <<>> /\ free_list = <<>> /\ next_slot = 1 /\ write_ops = <<>>
        /\ sq = [q \in Peers |-> <<>>] /\ broken = {} /\ cq = <<>>
        /\ completions = [w \in Writes |-> <<>>] /\ phase = "command"
    BY Zenon DEF Init
  <1>2. 1..next_slot - 1 = {} /\ Cardinality(Writes) \in Nat /\ Cardinality({}) = 0
    BY <1>1, VerbsWritesAssumption, FS_CardinalityType, FS_EmptySet
  <1>3. Types
    <2>1. next_slot \in 1..Cardinality(Writes) + 1 /\ broken \subseteq Peers
      BY <1>1, <1>2
    <2>2. ctx \in [1..next_slot - 1 -> Context]
      BY <1>1, <1>2
    <2>3. ASSUME NEW S PROVE <<>> \in Seq(S)
      OBVIOUS
    <2>4. Distinct(<<>>)
      BY DEF Distinct
    <2>5. sq \in [Peers -> Seq(Operation)] /\ completions \in [Writes -> Reports]
      BY <1>1, <2>3, Zenon DEF Reports
    <2>6. QED
      BY <1>1, <2>1, <2>2, <2>3, <2>4, <2>5, Zenon DEF Types
  <1>4. \A q \in Peers : sq[q] = <<>> /\ Len(sq[q]) = 0 /\ DOMAIN sq[q] = {}
    BY <1>1
  <1>5. DOMAIN cq = {}
    BY <1>1
  <1>6. \A s, w : ~PointsTo(s, w)
    BY <1>4, <1>5, Zenon DEF PointsTo
  <1>7. ASSUME NEW s \in Slots PROVE IsFiniteSet(Refs(sq, OpsOf(s)))
    <2>1. ASSUME NEW r \in Refs(sq, OpsOf(s)) PROVE FALSE
      <3>1. r[1] \in Peers /\ r[2] \in DOMAIN sq[r[1]]
        BY DEF Refs
      <3>2. QED
        BY <1>4, <3>1, Zenon
    <2>2. Refs(sq, OpsOf(s)) = {}
      BY <2>1, Zenon
    <2>3. QED
      BY <2>2, FS_EmptySet, Zenon
  <1>8. ASSUME NEW q \in Peers PROVE Used(q) <= Depth
    <2>1. {i \in DOMAIN cq : cq[i].qp = q} = {}
      BY <1>5, Zenon
    <2>2. Used(q) = 0 + 0
      BY <1>2, <1>4, <2>1, Zenon DEF Used
    <2>3. QED
      BY <2>2, VerbsWritesAssumption
  <1>9. QED
    BY <1>2, <1>3, <1>6, <1>7, <1>8, Zenon DEF IInv, Owned, OneContext, Room, FiniteOut

\* Every step keeps it.
LEMMA NextIInv == IInv /\ [Next]_vars => IInv'
  <1> SUFFICES ASSUME IInv, [Next]_vars PROVE IInv'
    OBVIOUS
  <1>1. phase \in {"command", "poll", "progress"}
    BY Zenon DEF IInv, Types
  <1>2. ASSUME NEW w \in Writes, NEW qps \in Shapes, SubmitWrite(w, qps) PROVE IInv'
    BY <1>2, SubmitWriteInv
  <1>3. ASSUME NEW q \in Peers, NicComplete(q) PROVE IInv'
    BY <1>3, NicCompleteInv
  <1>4. CASE NoCommand \/ PollDone \/ ProgressDone \/ UNCHANGED vars
    <2>1. UNCHANGED <<ctx, pool, write_ops, nic, completions>>
      BY <1>4 DEF NoCommand, PollDone, ProgressDone, vars
    <2>2. phase' \in {"command", "poll", "progress"}
      BY <1>1, <1>4 DEF NoCommand, PollDone, ProgressDone, vars
    <2>3. QED
      BY <2>1, <2>2, StayInv
  <1>5. CASE HandleWriteCqe
    BY <1>5, HandleWriteCqeInv
  <1>6. CASE HandleWriteError
    BY <1>6, HandleWriteErrorInv
  <1>7. CASE UnqueueBad
    BY <1>7, UnqueueBadInv
  <1>8. CASE PostQueued
    BY <1>8, PostQueuedInv
  <1>9. QED
    BY <1>2, <1>3, <1>4, <1>5, <1>6, <1>7, <1>8, Zenon DEF Next, Worker, Nic

\* The invariant holds in every state of every behaviour.
THEOREM Invariance == Spec => []IInv
  <1>1. QED
    BY InitIInv, NextIInv, PTL DEF Spec

\* A slot that is pointed to has an operation posted and not finished, so it is
\* not free and its write has not been reported as a transfer.
LEMMA PointedFacts ==
    ASSUME IInv, NEW s \in Slots, NEW w \in Writes, PointsTo(s, w)
    PROVE  /\ s \in 1..next_slot - 1 /\ ctx[s].write = w /\ ~Freed(s)
           /\ completions[w] = <<>> \/ completions[w] = <<"Error">>
  <1>1. Types /\ Owned /\ FiniteOut /\ \A t \in 1..next_slot - 1 : SlotInv(t)
    BY Zenon DEF IInv
  <1>2. s \in 1..next_slot - 1 /\ ctx[s].write = w
    BY <1>1, Zenon DEF Owned
  <1>3. ctx[s] \in Context /\ SlotInv(s) /\ Out(s) \in Nat /\ Out(s) # 0
    BY <1>1, <1>2, SlotFacts, PointsOut, Zenon
  <1>4. /\ ctx[s].finished + Out(s) <= ctx[s].posted /\ ctx[s].posted <= Total(ctx[s])
        /\ Freed(s) => ctx[s].finished = ctx[s].posted
    BY <1>3, Zenon DEF SlotInv
  <1>5. ctx[s].finished \in Nat /\ ctx[s].posted \in Nat /\ Total(ctx[s]) \in Nat
    BY <1>3, ContextFacts, Zenon
  <1>6. ctx[s].finished # ctx[s].posted /\ ctx[s].finished # Total(ctx[s])
    BY <1>3, <1>4, <1>5
  <1>7. completions[w] = <<>> \/ completions[w] = <<"Error">>
    BY <1>2, <1>3, <1>6, Zenon DEF SlotInv, Reported
  <1>8. QED
    BY <1>2, <1>4, <1>6, <1>7, Zenon

\* So does the slot of a context in the queue.
LEMMA QueuedFacts ==
    ASSUME IInv, NEW s, Queued(s)
    PROVE  /\ s \in 1..next_slot - 1 /\ ctx[s] \in Context /\ ~Freed(s)
           /\ \/ completions[ctx[s].write] = <<>>
              \/ completions[ctx[s].write] = <<"Error">> /\ ctx[s].bad
  <1>1. /\ Types /\ FiniteOut /\ \A t \in 1..next_slot - 1 : SlotInv(t)
        /\ write_ops \in Seq(1..next_slot - 1)
    BY Zenon DEF IInv, Types
  <1>2. s \in 1..next_slot - 1
    <2>1. \A i \in 1..Len(write_ops) : write_ops[i] \in 1..next_slot - 1
      BY <1>1, Entries, Zenon
    <2>2. QED
      BY <2>1, Zenon DEF Queued, In
  <1>3. s \in Slots /\ ctx[s] \in Context /\ SlotInv(s) /\ Out(s) \in Nat
    BY <1>1, <1>2, SlotFacts, OutType, Zenon
  <1>4. /\ ctx[s].finished + Out(s) <= ctx[s].posted /\ ctx[s].posted < Total(ctx[s])
        /\ ctx[s].in_queue /\ ~Freed(s)
    BY <1>3, Zenon DEF SlotInv
  <1>5. ctx[s].finished \in Nat /\ ctx[s].posted \in Nat /\ Total(ctx[s]) \in Nat
    BY <1>3, ContextFacts, Zenon
  <1>6. ctx[s].finished # Total(ctx[s])
    BY <1>3, <1>4, <1>5
  <1>7. QED
    BY <1>2, <1>3, <1>4, <1>6, Zenon DEF SlotInv, Reported

\* Every pointer to a context meets the context of the write it was made for:
\* ObjectPool never hands out a slot that the queue, a work request on the NIC
\* or an unread completion points to, and never gets one back twice.
THEOREM PointersOwnedHolds == Spec => []PointersOwned
  <1>1. ASSUME IInv PROVE PointersOwned
    <2>1. /\ Types /\ Owned
          /\ free_list \in Seq(1..next_slot - 1) /\ Distinct(free_list)
          /\ write_ops \in Seq(1..next_slot - 1)
          /\ sq \in [Peers -> Seq(Operation)] /\ cq \in Seq(Completion)
          /\ broken \subseteq Peers /\ next_slot \in 1..Cardinality(Writes) + 1
          /\ completions \in [Writes -> Reports] /\ phase \in {"command", "poll", "progress"}
      BY <1>1, Zenon DEF IInv, Types
    <2>2. /\ \A s \in 1..next_slot - 1 : s \in Slots /\ ctx[s] \in Context
          /\ DOMAIN ctx = 1..next_slot - 1
      BY <2>1, SlotFacts, Zenon
    <2>3. TypeOK
      <3>1. (1..next_slot - 1) \subseteq Slots
        BY <2>2, Zenon
      <3>2. free_list \in Seq(Slots) /\ write_ops \in Seq(Slots)
        BY <2>1, <3>1, SeqWiden, Zenon
      <3>3. ASSUME NEW i \in DOMAIN cq PROVE cq[i].of \in Writes
        <4>1. cq[i] \in Completion
          BY <2>1
        <4>2. QED
          BY <4>1 DEF Completion
      <3>4. Reports \subseteq Seq({"Transfer", "Error"})
        BY DEF Reports
      <3>5. completions \in [Writes -> Seq({"Transfer", "Error"})]
        BY <2>1, <3>4, Zenon
      <3>6. QED
        BY <2>1, <2>2, <3>2, <3>3, <3>5, Zenon DEF TypeOK
    <2>4. ASSUME NEW s \in 1..next_slot - 1, ~Freed(s) PROVE s \in Live
      <3>1. DOMAIN free_list = 1..Len(free_list)
        BY <2>1
      <3>2. QED
        BY <2>4, <3>1, Zenon DEF Live, Freed, In
    <2>5. ASSUME NEW i \in DOMAIN write_ops PROVE write_ops[i] \in Live
      <3>1. Queued(write_ops[i])
        BY <2>1 DEF Queued, In
      <3>2. QED
        BY <1>1, <2>4, <3>1, QueuedFacts, Zenon
    <2>6. ASSUME NEW q \in Peers, NEW i \in DOMAIN sq[q]
          PROVE  sq[q][i].slot \in Live /\ ctx[sq[q][i].slot].write = sq[q][i].of
      <3>1. sq[q] \in Seq(Operation)
        BY <2>1, Zenon
      <3>2. sq[q][i] \in Operation
        BY <3>1
      <3>3. sq[q][i].slot \in Slots /\ sq[q][i].of \in Writes
        BY <3>2 DEF Operation
      <3>4. PointsTo(sq[q][i].slot, sq[q][i].of)
        BY Zenon DEF PointsTo
      <3>5. QED
        BY <1>1, <2>4, <3>3, <3>4, PointedFacts, Zenon
    <2>7. ASSUME NEW i \in DOMAIN cq
          PROVE  cq[i].slot \in Live /\ ctx[cq[i].slot].write = cq[i].of
      <3>1. cq[i] \in Completion
        BY <2>1
      <3>2. cq[i].slot \in Slots /\ cq[i].of \in Writes
        BY <3>1 DEF Completion
      <3>3. PointsTo(cq[i].slot, cq[i].of)
        BY Zenon DEF PointsTo
      <3>4. QED
        BY <1>1, <2>4, <3>2, <3>3, PointedFacts, Zenon
    <2>8. \A i, j \in DOMAIN free_list : free_list[i] = free_list[j] => i = j
      <3>1. DOMAIN free_list = 1..Len(free_list)
        BY <2>1
      <3>2. QED
        BY <2>1, <3>1, Zenon DEF Distinct
    <2>9. QED
      BY <2>3, <2>5, <2>6, <2>7, <2>8, Zenon DEF PointersOwned
  <1>2. QED
    BY <1>1, Invariance, PTL

----------------------------------------------------------------------------
(* What a report means.                                                     *)

\* The operations of w.
OpsFor(w) == {e \in Operation : e.of = w}

\* The operations of a write on a queue pair, as entries of its queue.
LEMMA OnNicIs ==
    ASSUME Types, NEW q \in Peers, NEW w
    PROVE  /\ OnNic(w, q) = Idx(sq[q], OpsFor(w)) /\ IsFiniteSet(OnNic(w, q))
           /\ Cardinality(OnNic(w, q)) \in Nat
  <1>1. sq[q] \in Seq(Operation)
    BY Zenon DEF Types
  <1>2. \A i \in DOMAIN sq[q] : sq[q][i] \in Operation
    BY <1>1
  <1>3. OnNic(w, q) = Idx(sq[q], OpsFor(w))
    BY <1>2 DEF OnNic, Idx, OpsFor
  <1>4. QED
    BY <1>1, <1>3, IdxFinite, Zenon

\* Posting operations of one write adds none of another.
LEMMA PostsOthers ==
    ASSUME Types, Room, FiniteOut, NEW s \in Slots, NEW c \in Context,
           NEW k \in Nat, Fits(c, k), sq' = SqAfter(s, c, k), cq' = cq,
           NEW w, w # c.write, NEW q \in Peers
    PROVE  Cardinality(OnNic(w, q)') <= Cardinality(OnNic(w, q))
  <1>1. \A i \in DOMAIN sq'[q] :
            \/ i \in DOMAIN sq[q] /\ sq'[q][i] = sq[q][i]
            \/ sq'[q][i] = [slot |-> s, of |-> c.write]
    BY PostEffect, Zenon
  <1>2. ASSUME NEW i \in DOMAIN sq'[q], sq'[q][i].of = w PROVE i \in OnNic(w, q)
    <2>1. sq'[q][i] # [slot |-> s, of |-> c.write]
      BY <1>2
    <2>2. i \in DOMAIN sq[q] /\ sq'[q][i] = sq[q][i]
      BY <1>1, <2>1, Zenon
    <2>3. QED
      BY <1>2, <2>2, Zenon DEF OnNic
  <1>3. OnNic(w, q)' \in SUBSET OnNic(w, q)
    BY <1>2 DEF OnNic
  <1>4. IsFiniteSet(OnNic(w, q))
    BY OnNicIs, Zenon
  <1>5. QED
    BY <1>3, <1>4, FS_Subset, Zenon

\* No step adds an operation of a write that was reported.
LEMMA NothingAdded ==
    ASSUME IInv, Next, NEW w \in Writes, completions[w] # <<>>, NEW q \in Peers
    PROVE  Cardinality(OnNic(w, q)') <= Cardinality(OnNic(w, q))
  <1>1. Types /\ Room /\ FiniteOut /\ \A t \in 1..next_slot - 1 : SlotInv(t)
    BY Zenon DEF IInv
  <1>2. Cardinality(OnNic(w, q)) \in Nat
    BY <1>1, OnNicIs, Zenon
  <1>3. ASSUME sq' = sq PROVE Cardinality(OnNic(w, q)') <= Cardinality(OnNic(w, q))
    <2>1. OnNic(w, q)' = OnNic(w, q)
      BY <1>3 DEF OnNic
    <2>2. QED
      BY <1>2, <2>1
  <1>4. ASSUME NEW v \in Writes, NEW qps \in Shapes, SubmitWrite(v, qps)
        PROVE  Cardinality(OnNic(w, q)') <= Cardinality(OnNic(w, q))
    <2>1. PICK s, c, k : s = AllocSlot /\ c = NewContext(v, qps) /\ k = NumPosted(c)
      OBVIOUS
    <2>2. Alloc /\ ~Submitted(v) /\ sq' = SqAfter(s, c, k) /\ cq' = cq
      BY <1>4, <2>1, Zenon DEF SubmitWrite, NewContext
    <2>3. s \in Slots
      BY <2>1, <2>2, AllocFacts, Zenon
    <2>4. Len(qps) \in Nat /\ 0 \in 0..Len(qps)
      BY ShapeFacts
    <2>5. c \in Context /\ c.posted = 0 /\ Total(c) = Len(qps) /\ c.write = v
      BY <2>1, NewContextFacts, Zenon
    <2>6. c.posted <= Total(c) /\ Total(c) - c.posted = Len(qps)
      BY <2>4, <2>5
    <2>7. k \in 0..Len(qps) /\ Fits(c, k)
      BY <1>1, <2>1, <2>5, <2>6, NumPostedFacts, Zenon
    <2>8. k \in Nat
      BY <2>4, <2>7
    <2>9. w # v
      BY <2>2, Zenon DEF Submitted
    <2>10. QED
      BY <1>1, <2>2, <2>3, <2>5, <2>7, <2>8, <2>9, PostsOthers, Zenon
  <1>5. CASE PostQueued
    <2>1. PICK s, c, k : s = Head(write_ops) /\ c = ctx[s] /\ k = NumPosted(c)
      OBVIOUS
    <2>2. /\ write_ops # <<>> /\ ~c.bad /\ sq' = SqAfter(s, c, k) /\ cq' = cq
          /\ write_ops \in Seq(1..next_slot - 1)
      BY <1>1, <1>5, <2>1, Zenon DEF PostQueued, Types
    <2>3. Queued(s)
      BY <2>1, <2>2, TailMembers, Zenon DEF Queued
    <2>4. /\ s \in 1..next_slot - 1 /\ c \in Context
          /\ completions[c.write] = <<>>
      BY <2>1, <2>2, <2>3, QueuedFacts, Zenon
    <2>5. s \in Slots /\ c.posted <= Total(c)
      BY <1>1, <2>1, <2>4, SlotFacts, Zenon DEF SlotInv
    <2>6. k \in 0..Total(c) - c.posted /\ Fits(c, k)
      BY <1>1, <2>1, <2>4, <2>5, NumPostedFacts, Zenon
    <2>7. k \in Nat
      BY <2>4, <2>6, ContextFacts
    <2>8. QED
      BY <1>1, <2>2, <2>4, <2>5, <2>6, <2>7, PostsOthers, Zenon
  <1>6. ASSUME NEW p \in Peers, NicComplete(p)
        PROVE  Cardinality(OnNic(w, q)') <= Cardinality(OnNic(w, q))
    <2>1. sq[p] # <<>> /\ sq' = [sq EXCEPT ![p] = Tail(@)] /\ sq \in [Peers -> Seq(Operation)]
      BY <1>1, <1>6, Zenon DEF NicComplete, Types
    <2>2. CASE q = p
      <3>1. sq'[q] = Tail(sq[q]) /\ sq[q] \in Seq(Operation) /\ sq[q] # <<>>
        BY <2>1, <2>2, Zenon
      <3>2. /\ Tail(sq[q]) \in Seq(Operation)
            /\ \A i \in DOMAIN Tail(sq[q]) : Tail(sq[q])[i] \in Operation
        BY <3>1
      <3>3. OnNic(w, q)' = Idx(Tail(sq[q]), OpsFor(w))
        BY <3>1, <3>2 DEF OnNic, Idx, OpsFor
      <3>4. OnNic(w, q) = Idx(sq[q], OpsFor(w))
        BY <1>1, OnNicIs, Zenon
      <3>5. Cardinality(OnNic(w, q)') \in Nat
        BY <3>2, <3>3, IdxFinite, Zenon
      <3>6. \/ Cardinality(OnNic(w, q)) = Cardinality(OnNic(w, q)') + 1
            \/ Cardinality(OnNic(w, q)) = Cardinality(OnNic(w, q)')
        BY <3>1, <3>3, <3>4, IdxTail, Zenon
      <3>7. QED
        BY <3>5, <3>6
    <2>3. CASE q # p
      <3>1. sq'[q] = sq[q]
        BY <2>1, <2>3, Zenon
      <3>2. OnNic(w, q)' = OnNic(w, q)
        BY <3>1 DEF OnNic
      <3>3. QED
        BY <1>2, <3>2
    <2>4. QED
      BY <2>2, <2>3
  <1>7. CASE NoCommand \/ PollDone \/ ProgressDone \/ UnqueueBad \/ HandleWriteCqe \/ HandleWriteError
    <2>1. sq' = sq
      BY <1>7 DEF NoCommand, PollDone, ProgressDone, UnqueueBad, HandleWriteCqe,
                  HandleWriteError, nic
    <2>2. QED
      BY <1>3, <2>1
  <1>8. QED
    BY <1>4, <1>5, <1>6, <1>7, Zenon DEF Next, Worker, Nic

\* When a write is reported as a transfer, nothing of it is with the NIC or in
\* the queue; when it is reported as an error, nothing more of it is posted.
THEOREM ReportMeansOverHolds == Spec => ReportMeansOver
  <1> DEFINE Over(w) ==
        /\ "Transfer" \in {completions[w][i] : i \in DOMAIN completions[w]} =>
                /\ \A q \in Peers : OnNic(w, q) = {}
                /\ \A i \in DOMAIN write_ops : ctx[write_ops[i]].write # w
        /\ completions[w] # <<>> => \A q \in Peers :
                Cardinality(OnNic(w, q)') <= Cardinality(OnNic(w, q))
  <1>1. ASSUME IInv, Next, NEW w \in Writes PROVE Over(w)
    <2>1. sq \in [Peers -> Seq(Operation)] /\ write_ops \in Seq(1..next_slot - 1)
      BY <1>1, Zenon DEF IInv, Types
    <2>2. ASSUME completions[w] = <<>> \/ completions[w] = <<"Error">>
          PROVE  "Transfer" \notin {completions[w][i] : i \in DOMAIN completions[w]}
      BY <2>2
    <2>3. ASSUME NEW q \in Peers, NEW i \in OnNic(w, q)
          PROVE  completions[w] = <<>> \/ completions[w] = <<"Error">>
      <3>1. sq[q] \in Seq(Operation) /\ i \in DOMAIN sq[q] /\ sq[q][i].of = w
        BY <2>1, <2>3, Zenon DEF OnNic
      <3>2. sq[q][i] \in Operation
        BY <3>1
      <3>3. sq[q][i].slot \in Slots
        BY <3>2 DEF Operation
      <3>4. PointsTo(sq[q][i].slot, w)
        BY <3>1, Zenon DEF PointsTo
      <3>5. QED
        BY <1>1, <3>3, <3>4, PointedFacts, Zenon
    <2>4. ASSUME NEW i \in DOMAIN write_ops, ctx[write_ops[i]].write = w
          PROVE  completions[w] = <<>> \/ completions[w] = <<"Error">>
      <3>1. Queued(write_ops[i])
        BY <2>1 DEF Queued, In
      <3>2. QED
        BY <1>1, <2>4, <3>1, QueuedFacts, Zenon
    <2>5. ASSUME completions[w] # <<>>, NEW q \in Peers
          PROVE  Cardinality(OnNic(w, q)') <= Cardinality(OnNic(w, q))
      BY <1>1, <2>5, NothingAdded
    <2>6. QED
      BY <2>2, <2>3, <2>4, <2>5, Zenon
  <1>2. IInv /\ [Next]_vars => [\A w \in Writes : Over(w)]_vars
    BY <1>1, Zenon
  <1>3. QED
    BY <1>2, Invariance, PTL DEF Spec, ReportMeansOver

----------------------------------------------------------------------------
(* Refinement.                                                              *)

\* A write that stays submitted, or not, with the reports it has.
LEMMA ReportOfStays ==
    ASSUME NEW v, Submitted(v)' <=> Submitted(v), completions'[v] = completions[v]
    PROVE  ReportOf(v)' = ReportOf(v)
  BY Zenon DEF ReportOf

\* How a write is reported.
LEMMA ReportOfIs ==
    ASSUME NEW v
    PROVE  /\ ~Submitted(v) => ReportOf(v) = "idle"
           /\ Submitted(v) /\ completions[v] = <<>> => ReportOf(v) = "active"
           /\ completions[v] = <<"Transfer">> => ReportOf(v) = "done"
           /\ completions[v] = <<"Error">> => ReportOf(v) = "failed"
           /\ completions[v] = <<"Error", "Transfer">> => ReportOf(v) = "failed_done"
  <1>1. /\ <<"Transfer">> # <<>> /\ <<"Error">> # <<>> /\ <<"Error", "Transfer">> # <<>>
        /\ <<"Error">> # <<"Transfer">> /\ <<"Error", "Transfer">> # <<"Error">>
        /\ <<"Error", "Transfer">> # <<"Transfer">>
    OBVIOUS
  <1>2. completions[v] # <<>> => Submitted(v)
    BY Zenon DEF Submitted
  <1>3. QED
    BY <1>1, <1>2, Zenon DEF ReportOf

\* Contexts that keep their writes keep them submitted.
LEMMA SubmittedStays ==
    ASSUME NEW v, DOMAIN ctx' = DOMAIN ctx,
           \A t \in DOMAIN ctx : ctx'[t].write = ctx[t].write,
           completions'[v] = <<>> => completions[v] = <<>>,
           completions[v] # <<>> => completions'[v] # <<>>
    PROVE  (Submitted(v) => Submitted(v)') /\ (completions'[v] = completions[v] =>
                                                (Submitted(v)' <=> Submitted(v)))
  BY Zenon DEF Submitted

\* Submitting a write accepts it; the write whose slot it takes over was
\* reported, and stays so.
LEMMA SubmitAccepts ==
    ASSUME IInv, NEW w \in Writes, NEW qps \in Shapes, SubmitWrite(w, qps)
    PROVE  /\ ReportOf(w) = "idle" /\ ReportOf(w)' = "active"
           /\ \A v \in Writes : v # w => ReportOf(v)' = ReportOf(v)
  <1>1. PICK s, new : /\ s = AllocSlot /\ new.write = w
                      /\ ctx' = [t \in DOMAIN ctx \cup {s} |-> IF t = s THEN new ELSE ctx[t]]
    <2>1. PICK s, k : s = AllocSlot /\ k = NumPosted(NewContext(w, qps))
      OBVIOUS
    <2>2. ctx' = [t \in DOMAIN ctx \cup {s} |-> IF t = s THEN AfterPost(w, qps, k) ELSE ctx[t]]
      BY <2>1, Zenon DEF SubmitWrite, NewContext, AfterPost
    <2>3. AfterPost(w, qps, k).write = w
      BY DEF AfterPost, NewContext
    <2>4. QED
      BY <2>1, <2>2, <2>3, Zenon
  <1>2. Alloc /\ ~Submitted(w) /\ completions' = completions
    BY Zenon DEF SubmitWrite
  <1>3. DOMAIN ctx = 1..next_slot - 1
    BY SlotFacts, Zenon DEF IInv
  <1>4. s \in DOMAIN ctx => completions[ctx[s].write] # <<>>
    BY <1>1, <1>2, <1>3, AllocFacts, Zenon
  <1>5. /\ DOMAIN ctx' = DOMAIN ctx \cup {s} /\ ctx'[s] = new
        /\ \A t \in DOMAIN ctx : t # s => ctx'[t] = ctx[t]
    BY <1>1
  <1>6. Submitted(w)' /\ completions[w] = <<>>
    BY <1>1, <1>2, <1>5, Zenon DEF Submitted
  <1>7. ASSUME NEW v \in Writes, v # w PROVE Submitted(v)' <=> Submitted(v)
    <2>1. ASSUME Submitted(v) PROVE Submitted(v)'
      <3>1. CASE completions[v] # <<>>
        BY <1>2, <3>1, Zenon DEF Submitted
      <3>2. ASSUME NEW t \in DOMAIN ctx, ctx[t].write = v, completions[v] = <<>>
            PROVE  Submitted(v)'
        <4>1. t # s
          BY <1>4, <3>2, Zenon
        <4>2. t \in DOMAIN ctx' /\ ctx'[t].write = v
          BY <1>5, <3>2, <4>1, Zenon
        <4>3. QED
          BY <4>2, Zenon DEF Submitted
      <3>3. QED
        BY <2>1, <3>1, <3>2, Zenon DEF Submitted
    <2>2. ASSUME Submitted(v)' PROVE Submitted(v)
      <3>1. completions[v] # <<>> \/ \E t \in DOMAIN ctx' : ctx'[t].write = v
        BY <1>2, <2>2, Zenon DEF Submitted
      <3>2. ASSUME NEW t \in DOMAIN ctx', ctx'[t].write = v PROVE Submitted(v)
        BY <1>1, <1>5, <1>7, <3>2, Zenon DEF Submitted
      <3>3. QED
        BY <3>1, <3>2, Zenon DEF Submitted
    <2>3. QED
      BY <2>1, <2>2, Zenon
  <1>8. \A v \in Writes : v # w => ReportOf(v)' = ReportOf(v)
    BY <1>2, <1>7, ReportOfStays, Zenon
  <1>9. ReportOf(w) = "idle"
    BY <1>2, ReportOfIs, Zenon
  <1>10. ReportOf(w)' = "active"
    <2>1. /\ <<"Transfer">> # <<>> /\ <<"Error">> # <<>> /\ <<"Error", "Transfer">> # <<>>
      OBVIOUS
    <2>2. QED
      BY <1>2, <1>6, <2>1, Zenon DEF ReportOf
  <1>11. QED
    BY <1>8, <1>9, <1>10, Zenon

\* A completion leaves the reports of the other writes alone, and its own write
\* moves as WriteReporting allows, if at all.
LEMMA CompletionResolves ==
    ASSUME IInv, HandleWriteCqe \/ HandleWriteError
    PROVE  \E w \in Writes :
             /\ \A v \in Writes : v # w => ReportOf(v)' = ReportOf(v)
             /\ \/ ReportOf(w)' = ReportOf(w)
                \/ ReportOf(w) = "active" /\ ReportOf(w)' \in {"done", "failed"}
                \/ ReportOf(w) = "failed" /\ ReportOf(w)' = "failed_done"
  <1>1. PICK s, w : s = Head(cq).slot /\ w = ctx[s].write
    OBVIOUS
  <1>2. cq # <<>> /\ cq' = Tail(cq) /\ sq' = sq
    BY Zenon DEF HandleWriteCqe, HandleWriteError
  <1>3. /\ s \in 1..next_slot - 1 /\ ctx[s] \in Context /\ SlotInv(s)
        /\ ctx[s].finished < ctx[s].posted /\ ctx[s].posted <= Total(ctx[s])
    BY <1>1, <1>2, ReadSlot, Zenon
  <1>4. /\ ctx[s].finished \in Nat /\ ctx[s].posted \in Nat /\ Total(ctx[s]) \in Nat
        /\ w \in Writes /\ completions \in [Writes -> Reports]
        /\ ctx \in [1..next_slot - 1 -> Context]
    BY <1>1, <1>3, ContextFacts, Zenon DEF IInv, Types
  <1>5. ctx[s].finished # Total(ctx[s])
    BY <1>3, <1>4
  <1>6. \/ completions[w] = <<>> /\ ~ctx[s].bad
        \/ completions[w] = <<"Error">> /\ ctx[s].bad
    BY <1>1, <1>3, <1>5, Zenon DEF SlotInv, Reported
  <1>7. PICK c : c.write = w /\ ctx' = [ctx EXCEPT ![s] = c]
    <2>1. [ctx[s] EXCEPT !.finished = @ + 1].write = w
          /\ [ctx[s] EXCEPT !.finished = @ + 1, !.bad = TRUE].write = w
      BY <1>1, <1>3 DEF Context
    <2>2. \/ ctx' = [ctx EXCEPT ![s] = [ctx[s] EXCEPT !.finished = @ + 1]]
          \/ ctx' = [ctx EXCEPT ![s] = [ctx[s] EXCEPT !.finished = @ + 1, !.bad = TRUE]]
      BY <1>1, Zenon DEF HandleWriteCqe, HandleWriteError
    <2>3. QED
      BY <2>1, <2>2, Zenon
  <1>8. DOMAIN ctx' = DOMAIN ctx /\ \A t \in DOMAIN ctx : ctx'[t].write = ctx[t].write
    BY <1>1, <1>3, <1>4, <1>7
  <1>9. \/ completions' = completions
        \/ completions' = [completions EXCEPT ![w] = Append(@, "Transfer")]
        \/ completions' = [completions EXCEPT ![w] = Append(@, "Error")] /\ ~ctx[s].bad
    <2>1. CASE HandleWriteCqe
      <3> DEFINE d == [ctx[s] EXCEPT !.finished = @ + 1]
      <3>1. d.write = w
        BY <1>1, <1>3 DEF Context
      <3>2. Report(d.write, "Transfer") \/ UNCHANGED <<pool, completions>>
        BY <1>1, <2>1, Zenon DEF HandleWriteCqe
      <3> HIDE DEF d
      <3>3. QED
        BY <3>1, <3>2 DEF Report
    <2>2. CASE HandleWriteError
      <3> DEFINE d == [ctx[s] EXCEPT !.finished = @ + 1, !.bad = TRUE]
      <3>1. d.write = w
        BY <1>1, <1>3 DEF Context
      <3>2. completions' = completions \/ (~ctx[s].bad /\ Report(d.write, "Error"))
        BY <1>1, <2>2, Zenon DEF HandleWriteError
      <3> HIDE DEF d
      <3>3. QED
        BY <3>1, <3>2, Zenon DEF Report
    <2>3. QED
      BY <2>1, <2>2
  <1>10. \A v \in Writes : v # w => completions'[v] = completions[v]
    BY <1>4, <1>9, Zenon
  <1>11. \/ completions'[w] = completions[w]
         \/ completions[w] = <<>> /\ completions'[w] \in {<<"Transfer">>, <<"Error">>}
         \/ completions[w] = <<"Error">> /\ completions'[w] = <<"Error", "Transfer">>
    BY <1>4, <1>6, <1>9, AppendReport, Zenon
  <1>12. ASSUME NEW v \in Writes, completions'[v] = completions[v]
         PROVE  ReportOf(v)' = ReportOf(v)
    BY <1>8, <1>12, SubmittedStays, ReportOfStays, Zenon
  <1>13. Submitted(w)
    BY <1>1, <1>3, <1>4 DEF Submitted
  <1>14. /\ <<"Transfer">> # <<>> /\ <<"Error">> # <<>> /\ <<"Error", "Transfer">> # <<>>
         /\ <<"Error">> # <<"Transfer">> /\ <<"Error", "Transfer">> # <<"Error">>
         /\ <<"Error", "Transfer">> # <<"Transfer">>
    OBVIOUS
  <1>15. completions'[w] # <<>> => Submitted(w)'
    BY Zenon DEF Submitted
  <1>16. /\ completions'[w] = <<"Transfer">> => ReportOf(w)' = "done"
         /\ completions'[w] = <<"Error">> => ReportOf(w)' = "failed"
         /\ completions'[w] = <<"Error", "Transfer">> => ReportOf(w)' = "failed_done"
    BY <1>14, <1>15, Zenon DEF ReportOf
  <1>17. \/ ReportOf(w)' = ReportOf(w)
         \/ ReportOf(w) = "active" /\ ReportOf(w)' \in {"done", "failed"}
         \/ ReportOf(w) = "failed" /\ ReportOf(w)' = "failed_done"
    BY <1>4, <1>11, <1>12, <1>13, <1>16, ReportOfIs, Zenon
  <1>18. QED
    BY <1>4, <1>10, <1>12, <1>17, Zenon

\* Any other step leaves all reports as they are.
LEMMA OthersSilent ==
    ASSUME IInv,
           \/ NoCommand \/ UnqueueBad \/ PostQueued \/ ProgressDone \/ PollDone \/ Nic
           \/ UNCHANGED vars
    PROVE  \A v \in Writes : ReportOf(v)' = ReportOf(v)
  <1>1. completions' = completions
    BY DEF NoCommand, UnqueueBad, PostQueued, ProgressDone, PollDone, Nic, NicComplete, vars
  <1>2. DOMAIN ctx' = DOMAIN ctx /\ \A t \in DOMAIN ctx : ctx'[t].write = ctx[t].write
    <2>1. CASE UnqueueBad \/ PostQueued
      <3>1. PICK s, k : s = Head(write_ops) /\ k = NumPosted(ctx[s])
        OBVIOUS
      <3>2. \/ ctx' = [ctx EXCEPT ![s] = [ctx[s] EXCEPT !.in_queue = FALSE]]
            \/ ctx' = [ctx EXCEPT ![s].posted = @ + k]
        BY <2>1, <3>1, Zenon DEF UnqueueBad, PostQueued
      <3>3. /\ ctx \in [1..next_slot - 1 -> Context] /\ write_ops # <<>>
            /\ write_ops \in Seq(1..next_slot - 1)
        BY <2>1, Zenon DEF IInv, Types, UnqueueBad, PostQueued
      <3>4. s \in 1..next_slot - 1
        BY <3>1, <3>3, TailMembers, Zenon
      <3>5. ctx[s] \in Context
        BY <3>3, <3>4, Zenon
      <3>6. /\ [ctx[s] EXCEPT !.in_queue = FALSE].write = ctx[s].write
            /\ [ctx[s] EXCEPT !.posted = @ + k].write = ctx[s].write
        BY <3>5 DEF Context
      <3>7. PICK d : d.write = ctx[s].write /\ ctx' = [ctx EXCEPT ![s] = d]
        BY <3>2, <3>6, Zenon
      <3>8. QED
        BY <3>3, <3>4, <3>7
    <2>2. CASE \/ NoCommand \/ ProgressDone \/ PollDone \/ Nic \/ UNCHANGED vars
      <3>1. ctx' = ctx
        BY <2>2 DEF NoCommand, ProgressDone, PollDone, Nic, NicComplete, vars
      <3>2. QED
        BY <3>1, Zenon
    <2>3. QED
      BY <2>1, <2>2, Zenon
  <1>3. QED
    BY <1>1, <1>2, SubmittedStays, ReportOfStays, Zenon

\* The Verbs domain implements WriteReporting, as far as safety goes: the reports
\* of a write only ever move from accepted to one outcome, and from an error to
\* a late transfer, also once its slot is used by another write.
THEOREM ReportingRefined == Spec => Abstract!Safety
  <1> DEFINE report == [w \in Writes |-> ReportOf(w)]
  <1>1. Init => Abstract!Init
    <2> SUFFICES ASSUME Init PROVE report = [w \in Writes |-> "idle"]
      BY DEF Abstract!Init
    <2>1. ASSUME NEW w \in Writes PROVE ReportOf(w) = "idle"
      <3>1. ~Submitted(w)
        BY DEF Init, Submitted
      <3>2. QED
        BY <3>1, ReportOfIs, Zenon
    <2>2. QED
      BY <2>1, Zenon
  <1>2. ASSUME IInv, [Next]_vars
        PROVE  [Abstract!Next]_report
    <2>1. ASSUME NEW w \in Writes, NEW b,
                 ReportOf(w)' = b, \A v \in Writes : v # w => ReportOf(v)' = ReportOf(v)
          PROVE  report' = [report EXCEPT ![w] = b]
      BY <2>1, Zenon
    <2>2. ASSUME \A v \in Writes : ReportOf(v)' = ReportOf(v)
          PROVE  report' = report
      BY <2>2, Zenon
    <2>3. ASSUME NEW w \in Writes, NEW qps \in Shapes, SubmitWrite(w, qps)
          PROVE  Abstract!Next
      <3>1. /\ ReportOf(w) = "idle" /\ ReportOf(w)' = "active"
            /\ \A v \in Writes : v # w => ReportOf(v)' = ReportOf(v)
        BY <1>2, <2>3, SubmitAccepts, Zenon
      <3>2. report[w] = "idle" /\ report' = [report EXCEPT ![w] = "active"]
        BY <2>1, <3>1, Zenon
      <3>3. QED
        BY <3>2, Zenon DEF Abstract!Next, Abstract!Accept, Abstract!Moves
    <2>4. ASSUME HandleWriteCqe \/ HandleWriteError
          PROVE  [Abstract!Next]_report
      <3>1. PICK w \in Writes :
              /\ \A v \in Writes : v # w => ReportOf(v)' = ReportOf(v)
              /\ \/ ReportOf(w)' = ReportOf(w)
                 \/ ReportOf(w) = "active" /\ ReportOf(w)' \in {"done", "failed"}
                 \/ ReportOf(w) = "failed" /\ ReportOf(w)' = "failed_done"
        BY <1>2, <2>4, CompletionResolves, Zenon
      <3>2. report[w] = ReportOf(w) /\ report' = [report EXCEPT ![w] = ReportOf(w)']
        BY <2>1, <3>1, Zenon
      <3>3. CASE ReportOf(w)' = ReportOf(w)
        BY <2>2, <3>1, <3>3, Zenon
      <3>4. CASE ReportOf(w) = "active" /\ ReportOf(w)' \in {"done", "failed"}
        BY <3>2, <3>4, Zenon DEF Abstract!Next, Abstract!Resolve, Abstract!Moves
      <3>5. CASE ReportOf(w) = "failed" /\ ReportOf(w)' = "failed_done"
        BY <3>2, <3>5, Zenon DEF Abstract!Next, Abstract!LateTransfer, Abstract!Moves
      <3>6. QED
        BY <3>1, <3>3, <3>4, <3>5, Zenon
    <2>5. CASE \/ NoCommand \/ UnqueueBad \/ PostQueued \/ ProgressDone \/ PollDone \/ Nic
               \/ UNCHANGED vars
      BY <1>2, <2>2, <2>5, OthersSilent, Zenon
    <2>6. QED
      BY <1>2, <2>3, <2>4, <2>5, Zenon DEF Next, Worker
  <1>3. QED
    BY <1>1, <1>2, Invariance, PTL DEF Spec, Abstract!Safety

============================================================================
