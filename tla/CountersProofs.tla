--------------------------- MODULE CountersProofs ---------------------------
(***************************************************************************)
(* The safety of the counters of immediates: ImmCounter::wait and          *)
(* GdrCounter::wait against ImmCount::inc, for rounds of any number and any *)
(* targets; and ImmCount::Expected with the callback thread, for any number *)
(* of workers and any expected count.                                      *)
(***************************************************************************)
EXTENDS MCCounters, Sequences, FiniteSetTheorems, TLAPS

Rounds == user # "start"

\* What the counter is worth: before the subtraction the immediates that have
\* arrived, afterwards the negated number of those that have not.
CounterInv ==
    /\ due <= target
    /\ user = "start" => counter = target - due /\ worker = "idle" /\ ~flag
    /\ Rounds => counter + due = 0 /\ old \in 0..target

\* Who can be where: only the immediate that settles a Gdr counter takes the
\* worker out of "idle", and only if the wait had not found enough already.
PlaceInv ==
    /\ kind = "imm" => worker = "idle" /\ ~flag /\ user # "kernel"
    /\ kind = "gdr" => user # "spin"
    /\ worker # "idle" => due = 0 /\ Rounds /\ old < target
    /\ Rounds /\ old = target => due = 0

\* When the flag is up.
FlagInv ==
    /\ flag => due = 0
    /\ worker = "zero" => ~flag /\ user # "over"
    /\ user = "subtracted" /\ old = target => ~flag
    /\ user = "over" => due = 0 /\ ~flag
    /\ user \in {"subtracted", "kernel"} /\ kind = "gdr" /\ old < target /\ due = 0
        => worker = "zero" \/ flag
    /\ user = "kernel" /\ old = target => flag

\* The inductive invariant.
IInv == TypeOK /\ CounterInv /\ PlaceInv /\ FlagInv

----------------------------------------------------------------------------

\* The counters start at zero with the round's immediates still to come.
LEMMA InitIInv == Init => IInv
  <1> SUFFICES ASSUME Init PROVE IInv
    OBVIOUS
  <1>1. ~flag /\ flag \in BOOLEAN
    BY Zenon DEF Init
  <1>2. QED
    BY <1>1, WaitCounterAssumption
    DEF Init, IInv, TypeOK, CounterInv, PlaceInv, FlagInv, Rounds

\* inc, one atomic operation at a time.
LEMMA WorkerIInv == IInv /\ Worker => IInv'
  <1> SUFFICES ASSUME IInv, Worker PROVE IInv'
    OBVIOUS
  <1> USE WaitCounterAssumption
  <1>1. CASE IncAdd
    BY <1>1 DEF IncAdd, Fires, IInv, TypeOK, CounterInv, PlaceInv, FlagInv, Rounds
  <1>2. CASE IncSetFlag
    <2>1. flag' /\ flag' \in BOOLEAN
      BY <1>2 DEF IncSetFlag
    <2>2. QED
      BY <1>2, <2>1 DEF IncSetFlag, IInv, TypeOK, CounterInv, PlaceInv, FlagInv, Rounds
  <1>3. CASE IncStore
    <2>1. TypeOK'
      BY <1>3 DEF IncStore, IInv, TypeOK, CounterInv, FlagInv
    <2>2. CounterInv'
      <3>1. due = 0 /\ due' = due /\ counter' = 0 /\ user # "start"
        BY <1>3 DEF IncStore, IInv, PlaceInv, Rounds
      <3>2. target' = target /\ old' = old /\ user' = user
        BY <1>3 DEF IncStore
      <3>3. due <= target /\ old \in 0..target
        BY <3>1 DEF IInv, CounterInv, Rounds
      <3>4. QED
        BY <2>1, <3>1, <3>2, <3>3 DEF CounterInv, Rounds, TypeOK
    <2>3. PlaceInv'
      BY <1>3 DEF IncStore, IInv, TypeOK, CounterInv, PlaceInv, FlagInv, Rounds
    <2>4. FlagInv'
      BY <1>3 DEF IncStore, IInv, TypeOK, CounterInv, PlaceInv, FlagInv, Rounds
    <2>5. QED
      BY <2>1, <2>2, <2>3, <2>4 DEF IInv
  <1>4. QED
    BY <1>1, <1>2, <1>3 DEF Worker

\* wait, the kernel, and the next round.
LEMMA UserIInv == IInv /\ User => IInv'
  <1> SUFFICES ASSUME IInv, User PROVE IInv'
    OBVIOUS
  <1> USE WaitCounterAssumption
  <1>1. CASE WaitSub
    BY <1>1 DEF WaitSub, IInv, TypeOK, CounterInv, PlaceInv, FlagInv, Rounds
  <1>2. CASE WaitImm
    BY <1>2 DEF WaitImm, Enough, IInv, TypeOK, CounterInv, PlaceInv, FlagInv, Rounds
  <1>3. CASE SpinEnds
    BY <1>3 DEF SpinEnds, IInv, TypeOK, CounterInv, PlaceInv, FlagInv, Rounds
  <1>4. CASE WaitGdr
    <2>1. CASE Enough
      <3>1. flag' /\ flag' \in BOOLEAN
        BY <1>4, <2>1 DEF WaitGdr
      <3>2. QED
        BY <1>4, <2>1, <3>1
        DEF WaitGdr, Enough, IInv, TypeOK, CounterInv, PlaceInv, FlagInv, Rounds
    <2>2. CASE ~Enough
      <3>1. flag' = flag
        BY <1>4, <2>2 DEF WaitGdr
      <3>2. QED
        BY <1>4, <2>2, <3>1
        DEF WaitGdr, Enough, IInv, TypeOK, CounterInv, PlaceInv, FlagInv, Rounds
    <2>3. QED
      BY <2>1, <2>2
  <1>5. CASE KernelReads
    <2>1. ~flag' /\ flag' \in BOOLEAN
      BY <1>5, Zenon DEF KernelReads
    <2>2. QED
      BY <1>5, <2>1 DEF KernelReads, IInv, TypeOK, CounterInv, PlaceInv, FlagInv, Rounds
  <1>6. CASE NextRound
    <2>1. TypeOK'
      BY <1>6 DEF NextRound, IInv, TypeOK, CounterInv, FlagInv
    <2>2. CounterInv'
      <3>1. counter = 0 /\ worker = "idle" /\ ~flag
        BY <1>6 DEF NextRound, IInv, TypeOK, CounterInv, FlagInv, Rounds
      <3>2. counter' = counter /\ worker' = worker /\ flag' = flag /\ user' = "start"
        BY <1>6 DEF NextRound
      <3>3. PICK n \in 0..MaxTarget : target' = n /\ due' = n
        BY <1>6 DEF NextRound
      <3>4. due' <= target' /\ counter' = target' - due'
        BY <3>1, <3>2, <3>3
      <3>5. QED
        BY <2>1, <3>1, <3>2, <3>4, Zenon DEF CounterInv, Rounds, TypeOK
    <2>3. PlaceInv'
      BY <1>6 DEF NextRound, IInv, TypeOK, CounterInv, PlaceInv, FlagInv, Rounds
    <2>4. FlagInv'
      BY <1>6 DEF NextRound, IInv, TypeOK, CounterInv, PlaceInv, FlagInv, Rounds
    <2>5. QED
      BY <2>1, <2>2, <2>3, <2>4 DEF IInv
  <1>7. QED
    BY <1>1, <1>2, <1>3, <1>4, <1>5, <1>6 DEF User

\* Steps that change nothing.
LEMMA StutterIInv == IInv /\ UNCHANGED vars => IInv'
  BY DEF vars, IInv, TypeOK, CounterInv, PlaceInv, FlagInv, Rounds

\* The inductive invariant holds throughout.
LEMMA Invariance == Spec => []IInv
  <1>1. IInv /\ [Next]_vars => IInv'
    BY WorkerIInv, UserIInv, StutterIInv DEF Next, Spins, Finished
  <1>2. QED
    BY InitIInv, <1>1, PTL DEF Spec

\* wait and inc (api.rs:209, imm_count.rs:49): for any targets and any number of
\* rounds, no wait is over early, none leaves anything behind, and no release is
\* lost.
THEOREM WaitsSeparateHolds == Spec => []WaitsSeparate
  <1>1. IInv => WaitsSeparate
    BY WaitCounterAssumption
    DEF WaitsSeparate, NotReleasedEarly, RoundStartsClean, NothingLost,
        IInv, TypeOK, CounterInv, PlaceInv, FlagInv, Rounds
  <1>2. QED
    BY Invariance, <1>1, PTL

----------------------------------------------------------------------------
(* ImmCount::Expected.                                                      *)

\* How many entries e the callback thread has not read yet.
Count(q, e) == Cardinality({i \in DOMAIN q : q[i] = e})

EventKinds == {"ImmData", "ImmCountReached"}

\* The immediates accounted for: those of the c callbacks called, the i handed to
\* ImmData callbacks, those the entries in q stand for, and those in the counter.
Ledger(c, i, q, k) ==
    c * Expected + i + Count(q, "ImmData") + Expected * Count(q, "ImmCountReached") + k

ImmTypes ==
    /\ receivers \subseteq Workers
    /\ entry \in BOOLEAN /\ tally \in Nat
    /\ handler \in {"none", "once", "repeated"}
    /\ pc \in [Workers -> {"idle", "reached"}]
    /\ events \in Seq(EventKinds)
    /\ cb \in {"idle", "removing"}
    /\ installer \in {"start", "handler", "done"}
    /\ arrived \in 0..MaxImms /\ called \in Nat /\ immdata \in Nat

\* Between its fetch_add and its fetch_sub a worker is alone, and what it will
\* subtract is in the counter.
InsideInc ==
    /\ \A w \in Workers : pc[w] = "reached" => w \in receivers /\ tally >= Expected
    /\ \A v, w \in Workers : pc[v] = "reached" /\ pc[w] = "reached" => v = w

\* Before the map has its entry nothing is counted.
NotInstalled ==
    installer # "done" =>
        /\ ~entry /\ tally = 0 /\ cb = "idle" /\ called = 0
        /\ Count(events, "ImmCountReached") = 0
        /\ installer = "start" => handler = "none"

\* Nothing is accounted for twice; nothing is dropped while the handler wants more.
Accounted ==
    LET sum == Ledger(called, immdata, events, tally)
    IN  /\ sum <= arrived
        /\ installer # "done" \/ handler = "repeated" => sum = arrived

\* A single worker brings the counter to the expected value exactly.
SingleWorker ==
    \A w \in Workers : receivers = {w} =>
        /\ pc[w] = "idle" => tally < Expected
        /\ pc[w] = "reached" => tally = Expected

\* The inductive invariant.
ImmInv == ImmTypes /\ InsideInc /\ NotInstalled /\ Accounted /\ SingleWorker

----------------------------------------------------------------------------
(* Counting entries and immediates.                                         *)

\* The entries of a queue are finitely many.
LEMMA CountType ==
    ASSUME NEW q \in Seq(EventKinds), NEW e
    PROVE  Count(q, e) \in Nat /\ IsFiniteSet({i \in DOMAIN q : q[i] = e})
  <1>1. IsFiniteSet(1..Len(q))
    BY FS_Interval
  <1>2. {i \in DOMAIN q : q[i] = e} \subseteq 1..Len(q)
    OBVIOUS
  <1>3. IsFiniteSet({i \in DOMAIN q : q[i] = e})
    BY <1>1, <1>2, FS_Subset
  <1>4. QED
    BY <1>3, FS_CardinalityType DEF Count

\* A worker's send adds one entry (send of TransferCompletionEntry).
LEMMA CountAppend ==
    ASSUME NEW q \in Seq(EventKinds), NEW e \in EventKinds, NEW x
    PROVE  Count(Append(q, x), e) = IF x = e THEN Count(q, e) + 1 ELSE Count(q, e)
  <1> DEFINE S == {i \in DOMAIN q : q[i] = e}
             T == {i \in DOMAIN Append(q, x) : Append(q, x)[i] = e}
             n == Len(q) + 1
  <1>1. n \notin S
    OBVIOUS
  <1>2. x = e => T = S \cup {n}
    OBVIOUS
  <1>3. x # e => T = S
    OBVIOUS
  <1>4. IsFiniteSet(S)
    BY CountType, Zenon
  <1>5. Cardinality(S \cup {n}) = Cardinality(S) + 1
    BY <1>1, <1>4, FS_AddElement, Zenon
  <1>6. QED
    BY <1>2, <1>3, <1>5, Zenon DEF Count

\* The callback thread takes the oldest entry.
LEMMA CountTail ==
    ASSUME NEW q \in Seq(EventKinds), q # <<>>, NEW e \in EventKinds
    PROVE  Count(q, e) = IF Head(q) = e THEN Count(Tail(q), e) + 1 ELSE Count(Tail(q), e)
  <1> DEFINE S == {i \in DOMAIN q : q[i] = e}
             T == {i \in DOMAIN Tail(q) : Tail(q)[i] = e}
             U == {i \in S : i # 1}
             f == [i \in T |-> i + 1]
  <1>1. Tail(q) \in Seq(EventKinds) /\ Len(Tail(q)) = Len(q) - 1 /\ Len(q) \in Nat \ {0}
    OBVIOUS
  <1>2. \A i \in 1..(Len(q) - 1) : Tail(q)[i] = q[i + 1]
    OBVIOUS
  <1>3. f \in Bijection(T, U)
    <2>1. \A i \in T : i + 1 \in U
      BY <1>1, <1>2
    <2>2. \A j \in U : j - 1 \in T /\ f[j - 1] = j
      BY <1>1, <1>2
    <2>3. f \in [T -> U]
      BY <2>1
    <2>4. \A i, j \in T : f[i] = f[j] => i = j
      BY <1>1
    <2>5. \A j \in U : \E i \in T : f[i] = j
      BY <2>2, Zenon
    <2>6. QED
      BY <2>3, <2>4, <2>5, Zenon DEF Bijection, Injection, Surjection, IsInjective
  <1>4. IsFiniteSet(T) /\ IsFiniteSet(S)
    BY <1>1, CountType, Zenon
  <1>5. Cardinality(T) = Cardinality(U)
    <2>1. ExistsBijection(T, U)
      BY <1>3 DEF ExistsBijection
    <2>2. QED
      BY <2>1, <1>4, FS_Bijection, Zenon
  <1>0. Count(q, e) = Cardinality(S) /\ Count(Tail(q), e) = Cardinality(T)
    BY DEF Count
  <1> HIDE DEF S, T, U
  <1>6. CASE Head(q) = e
    <2>1. 1 \in S /\ U = S \ {1}
      BY <1>1, <1>6 DEF S, U
    <2>2. Cardinality(U) = Cardinality(S) - 1
      BY <2>1, <1>4, FS_RemoveElement, Zenon
    <2>3. Cardinality(S) \in Nat
      BY <1>4, FS_CardinalityType
    <2>4. QED
      BY <2>2, <2>3, <1>5, <1>6, <1>0
  <1>7. CASE Head(q) # e
    <2>1. U = S
      BY <1>1, <1>7 DEF S, U
    <2>2. QED
      BY <2>1, <1>5, <1>7, <1>0
  <1>8. QED
    BY <1>6, <1>7

\* An empty queue holds no entry.
LEMMA CountEmpty == \A e : Count(<<>>, e) = 0
  <1> SUFFICES ASSUME NEW e PROVE Count(<<>>, e) = 0
    OBVIOUS
  <1>1. {i \in DOMAIN <<>> : <<>>[i] = e} = {}
    OBVIOUS
  <1>2. QED
    BY <1>1, FS_EmptySet DEF Count

\* The sum is a natural number.
LEMMA LedgerType ==
    ASSUME NEW c \in Nat, NEW i \in Nat, NEW q \in Seq(EventKinds), NEW k \in Nat
    PROVE  /\ Ledger(c, i, q, k) \in Nat
           /\ c * Expected + i + k <= Ledger(c, i, q, k)
  <1>1. Count(q, "ImmData") \in Nat /\ Count(q, "ImmCountReached") \in Nat
    BY CountType, Zenon
  <1>2. \A a, b \in Nat : a * b \in Nat
    OBVIOUS
  <1>3. c * Expected \in Nat /\ Expected * Count(q, "ImmCountReached") \in Nat
    BY <1>1, <1>2, ExpectedAssumption
  <1>4. QED
    BY <1>1, <1>3, SMTT(30) DEF Ledger

\* Vacant: the immediate is passed on as an entry.
LEMMA LedgerData ==
    ASSUME NEW c \in Nat, NEW i \in Nat, NEW q \in Seq(EventKinds), NEW k \in Nat
    PROVE  Ledger(c, i, Append(q, "ImmData"), k) = Ledger(c, i, q, k) + 1
  <1>1. Count(q, "ImmData") \in Nat /\ Count(q, "ImmCountReached") \in Nat
    BY CountType, Zenon
  <1>2. Count(Append(q, "ImmData"), "ImmData") = Count(q, "ImmData") + 1
    BY CountAppend DEF EventKinds
  <1>3. Count(Append(q, "ImmData"), "ImmCountReached") = Count(q, "ImmCountReached")
    BY CountAppend DEF EventKinds
  <1>4. \A a, b \in Nat : a * b \in Nat
    OBVIOUS
  <1> DEFINE a == c * Expected
             b == Expected * Count(q, "ImmCountReached")
  <1>5. a \in Nat /\ b \in Nat
    BY <1>1, <1>4, ExpectedAssumption
  <1>6. /\ Ledger(c, i, q, k) = a + i + Count(q, "ImmData") + b + k
        /\ Ledger(c, i, Append(q, "ImmData"), k) = a + i + (Count(q, "ImmData") + 1) + b + k
    BY <1>2, <1>3 DEF Ledger
  <1> HIDE DEF a, b
  <1>7. QED
    BY <1>1, <1>5, <1>6, SMTT(30)

\* fetch_sub: a full count moves from the counter to an entry.
LEMMA LedgerReached ==
    ASSUME NEW c \in Nat, NEW i \in Nat, NEW q \in Seq(EventKinds), NEW k \in Nat
    PROVE  Ledger(c, i, Append(q, "ImmCountReached"), k - Expected) = Ledger(c, i, q, k)
  <1>1. Count(q, "ImmData") \in Nat /\ Count(q, "ImmCountReached") \in Nat
    BY CountType, Zenon
  <1>2. Count(Append(q, "ImmCountReached"), "ImmData") = Count(q, "ImmData")
    BY CountAppend DEF EventKinds
  <1>3. Count(Append(q, "ImmCountReached"), "ImmCountReached")
          = Count(q, "ImmCountReached") + 1
    BY CountAppend DEF EventKinds
  <1>4. \A a, b \in Nat : a * b \in Nat /\ a * (b + 1) = a * b + a
    OBVIOUS
  <1> DEFINE a == c * Expected
             b == Expected * Count(q, "ImmCountReached")
  <1>5. /\ a \in Nat /\ b \in Nat
        /\ Expected * (Count(q, "ImmCountReached") + 1) = b + Expected
    BY <1>1, <1>4, ExpectedAssumption
  <1>6. /\ Ledger(c, i, q, k) = a + i + Count(q, "ImmData") + b + k
        /\ Ledger(c, i, Append(q, "ImmCountReached"), k - Expected)
             = a + i + Count(q, "ImmData") + (b + Expected) + (k - Expected)
    BY <1>2, <1>3, <1>5 DEF Ledger
  <1> HIDE DEF a, b
  <1>7. Expected \in Nat
    BY ExpectedAssumption
  <1>8. QED
    BY <1>1, <1>5, <1>6, <1>7, SMTT(30)

\* An ImmData entry becomes a call of the ImmData callbacks.
LEMMA LedgerTakesData ==
    ASSUME NEW c \in Nat, NEW i \in Nat, NEW q \in Seq(EventKinds), NEW k \in Nat,
           q # <<>>, Head(q) = "ImmData"
    PROVE  Ledger(c, i + 1, Tail(q), k) = Ledger(c, i, q, k)
  <1>0. Tail(q) \in Seq(EventKinds)
    OBVIOUS
  <1>1. Count(Tail(q), "ImmData") \in Nat /\ Count(Tail(q), "ImmCountReached") \in Nat
    BY <1>0, CountType, Zenon
  <1>2. Count(q, "ImmData") = Count(Tail(q), "ImmData") + 1
    BY CountTail DEF EventKinds
  <1>3. Count(q, "ImmCountReached") = Count(Tail(q), "ImmCountReached")
    BY CountTail DEF EventKinds
  <1>4. \A a, b \in Nat : a * b \in Nat
    OBVIOUS
  <1> DEFINE a == c * Expected
             b == Expected * Count(Tail(q), "ImmCountReached")
             d == Count(Tail(q), "ImmData")
  <1>5. a \in Nat /\ b \in Nat /\ d \in Nat
    BY <1>1, <1>4, ExpectedAssumption
  <1>6. /\ Ledger(c, i + 1, Tail(q), k) = a + (i + 1) + d + b + k
        /\ Ledger(c, i, q, k) = a + i + (d + 1) + b + k
    BY <1>2, <1>3 DEF Ledger
  <1> HIDE DEF a, b, d
  <1>7. QED
    BY <1>5, <1>6

\* An ImmCountReached entry becomes a call of the callback, or is dropped.
LEMMA LedgerTakesReached ==
    ASSUME NEW c \in Nat, NEW i \in Nat, NEW q \in Seq(EventKinds), NEW k \in Nat,
           q # <<>>, Head(q) = "ImmCountReached"
    PROVE  /\ Ledger(c + 1, i, Tail(q), k) = Ledger(c, i, q, k)
           /\ Ledger(c, i, Tail(q), k) <= Ledger(c, i, q, k)
           /\ Count(q, "ImmCountReached") > 0
  <1>0. Tail(q) \in Seq(EventKinds)
    OBVIOUS
  <1>1. Count(Tail(q), "ImmData") \in Nat /\ Count(Tail(q), "ImmCountReached") \in Nat
    BY <1>0, CountType, Zenon
  <1>2. Count(q, "ImmData") = Count(Tail(q), "ImmData")
    BY CountTail DEF EventKinds
  <1>3. Count(q, "ImmCountReached") = Count(Tail(q), "ImmCountReached") + 1
    BY CountTail DEF EventKinds
  <1>4. \A a, b \in Nat : /\ a * b \in Nat /\ a * (b + 1) = a * b + a
                          /\ (a + 1) * b = a * b + b
    OBVIOUS
  <1> DEFINE a == c * Expected
             b == Expected * Count(Tail(q), "ImmCountReached")
             d == Count(Tail(q), "ImmData")
  <1>5. /\ a \in Nat /\ b \in Nat /\ d \in Nat
        /\ (c + 1) * Expected = a + Expected
        /\ Expected * (Count(Tail(q), "ImmCountReached") + 1) = b + Expected
    BY <1>1, <1>4, ExpectedAssumption, Zenon
  <1>6. /\ Ledger(c + 1, i, Tail(q), k) = (a + Expected) + i + d + b + k
        /\ Ledger(c, i, Tail(q), k) = a + i + d + b + k
        /\ Ledger(c, i, q, k) = a + i + d + (b + Expected) + k
    BY <1>2, <1>3, <1>5 DEF Ledger
  <1>7. Count(q, "ImmCountReached") > 0
    BY <1>1, <1>3
  <1> HIDE DEF a, b, d
  <1>8. QED
    BY <1>5, <1>6, <1>7, ExpectedAssumption

\* The counter's value adds to the sum.
LEMMA LedgerCounter ==
    ASSUME NEW c \in Nat, NEW i \in Nat, NEW q \in Seq(EventKinds), NEW k \in Nat,
           NEW m \in Nat
    PROVE  /\ Ledger(c, i, q, k + m) = Ledger(c, i, q, k) + m
           /\ Ledger(c, i + k, q, 0) = Ledger(c, i, q, k)
  <1>1. Count(q, "ImmData") \in Nat /\ Count(q, "ImmCountReached") \in Nat
    BY CountType, Zenon
  <1>2. \A a, b \in Nat : a * b \in Nat
    OBVIOUS
  <1> DEFINE a == c * Expected
             b == Expected * Count(q, "ImmCountReached")
             d == Count(q, "ImmData")
  <1>3. a \in Nat /\ b \in Nat /\ d \in Nat
    BY <1>1, <1>2, ExpectedAssumption
  <1>4. \A x, y : Ledger(c, x, q, y) = a + x + d + b + y
    BY DEF Ledger
  <1> HIDE DEF a, b, d
  <1>5. QED
    BY <1>3, <1>4, SMTT(30)

----------------------------------------------------------------------------
(* The steps.                                                               *)

\* Nothing is counted at first.
LEMMA ImmInit == E!Init => ImmInv
  <1> SUFFICES ASSUME E!Init PROVE ImmInv
    OBVIOUS
  <1>1. /\ called = 0 /\ immdata = 0 /\ tally = 0 /\ arrived = 0 /\ events = <<>>
        /\ installer = "start" /\ handler = "none" /\ cb = "idle" /\ ~entry
        /\ \A w \in Workers : pc[w] = "idle"
    BY DEF E!Init
  <1>2. <<>> \in Seq(EventKinds)
    OBVIOUS
  <1>3. ImmTypes
    <2>1. entry \in BOOLEAN
      BY Zenon DEF E!Init
    <2>2. receivers \subseteq Workers /\ pc \in [Workers -> {"idle", "reached"}]
      BY DEF E!Init
    <2>3. QED
      BY <1>1, <1>2, <2>1, <2>2, ExpectedAssumption DEF ImmTypes
  <1>4. Count(events, "ImmData") = 0 /\ Count(events, "ImmCountReached") = 0
    BY <1>1, CountEmpty
  <1>5. Ledger(called, immdata, events, tally) = 0
    BY <1>1, <1>4, ExpectedAssumption DEF Ledger
  <1>6. Accounted
    BY <1>1, <1>5 DEF Accounted
  <1>7. InsideInc /\ NotInstalled /\ SingleWorker
    BY <1>1, <1>4, ExpectedAssumption DEF InsideInc, NotInstalled, SingleWorker
  <1>8. QED
    BY <1>3, <1>6, <1>7 DEF ImmInv

\* wait_for_imm_count and set_imm_count_expected: the handler, then the entry.
LEMMA ImmInstall ==
    ASSUME ImmInv, (\E kd \in {"once", "repeated"} : E!InsertHandler(kd)) \/ E!SetExpected
    PROVE  ImmInv'
  <1>1. ASSUME NEW kd \in {"once", "repeated"}, E!InsertHandler(kd) PROVE ImmInv'
    <2>1. ImmTypes'
      BY <1>1 DEF E!InsertHandler, ImmInv, ImmTypes
    <2>2. InsideInc' /\ NotInstalled' /\ SingleWorker'
      BY <1>1 DEF E!InsertHandler, ImmInv, InsideInc, NotInstalled, SingleWorker
    <2>3. Accounted'
      BY <1>1 DEF E!InsertHandler, ImmInv, Accounted
    <2>4. QED
      BY <2>1, <2>2, <2>3 DEF ImmInv
  <1>2. CASE E!SetExpected
    <2>1. installer = "handler" /\ tally = 0 /\ tally' = 0
      BY <1>2 DEF E!SetExpected, ImmInv, NotInstalled
    <2>2. ImmTypes'
      BY <1>2 DEF E!SetExpected, ImmInv, ImmTypes
    <2>3. InsideInc' /\ NotInstalled' /\ SingleWorker'
      BY <1>2, <2>1, ExpectedAssumption, Zenon
      DEF E!SetExpected, ImmInv, InsideInc, NotInstalled, SingleWorker
    <2>4. Accounted'
      BY <1>2, <2>1 DEF E!SetExpected, ImmInv, Accounted
    <2>5. QED
      BY <2>2, <2>3, <2>4 DEF ImmInv
  <1>3. QED
    BY <1>1, <1>2

\* inc of a worker: Vacant, fetch_add, fetch_sub.
LEMMA ImmInc ==
    ASSUME ImmInv, NEW w \in Workers, E!IncVacant(w) \/ E!IncAdd(w) \/ E!IncSub(w)
    PROVE  ImmInv'
  <1>0. /\ events \in Seq(EventKinds) /\ tally \in Nat /\ called \in Nat /\ immdata \in Nat
        /\ arrived \in 0..MaxImms /\ pc \in [Workers -> {"idle", "reached"}]
    BY DEF ImmInv, ImmTypes
  <1>1. CASE E!IncVacant(w)
    <2>1. /\ events' = Append(events, "ImmData") /\ arrived' = arrived + 1
          /\ UNCHANGED <<receivers, entry, tally, handler, pc, cb, installer, called, immdata>>
          /\ arrived < MaxImms
      BY <1>1 DEF E!IncVacant, E!Receive
    <2>2. ImmTypes'
      <3>1. events' \in Seq(EventKinds)
        BY <1>0, <2>1 DEF EventKinds
      <3>2. arrived' \in 0..MaxImms
        BY <1>0, <2>1, ExpectedAssumption
      <3>3. QED
        BY <2>1, <3>1, <3>2 DEF ImmInv, ImmTypes
    <2>3. Ledger(called', immdata', events', tally')
            = Ledger(called, immdata, events, tally) + 1
      BY <1>0, <2>1, LedgerData
    <2>4. Ledger(called, immdata, events, tally) \in Nat
      BY <1>0, LedgerType, Zenon
    <2>5. Accounted'
      BY <1>0, <2>1, <2>3, <2>4 DEF ImmInv, Accounted
    <2>6. Count(events', "ImmCountReached") = Count(events, "ImmCountReached")
      BY <1>0, <2>1, CountAppend DEF EventKinds
    <2>7. InsideInc' /\ SingleWorker'
      BY <2>1 DEF ImmInv, InsideInc, SingleWorker
    <2>8. NotInstalled'
      BY <2>1, <2>6 DEF ImmInv, NotInstalled
    <2>9. QED
      BY <2>2, <2>5, <2>7, <2>8 DEF ImmInv
  <1>2. CASE E!IncAdd(w)
    <2>1. /\ tally' = tally + 1 /\ arrived' = arrived + 1
          /\ pc' = [pc EXCEPT ![w] = IF tally + 1 = Expected THEN "reached" ELSE "idle"]
          /\ UNCHANGED <<receivers, entry, handler, events, cb, installer, called, immdata>>
          /\ arrived < MaxImms /\ w \in receivers /\ pc[w] = "idle" /\ entry
      BY <1>2 DEF E!IncAdd, E!Receive, E!Reaches
    <2>2. ImmTypes'
      BY <1>0, <2>1, ExpectedAssumption DEF ImmInv, ImmTypes
    <2>3. Ledger(called', immdata', events', tally')
            = Ledger(called, immdata, events, tally) + 1
      BY <1>0, <2>1, LedgerCounter
    <2>4. Ledger(called, immdata, events, tally) \in Nat
      BY <1>0, LedgerType, Zenon
    <2>5. Accounted'
      BY <1>0, <2>1, <2>3, <2>4 DEF ImmInv, Accounted
    <2>6. InsideInc'
      <3>1. ASSUME NEW v \in Workers, pc'[v] = "reached"
            PROVE  v \in receivers' /\ tally' >= Expected
        BY <3>1, <1>0, <2>1, ExpectedAssumption DEF ImmInv, InsideInc
      <3>2. ASSUME NEW v \in Workers, NEW u \in Workers,
                   pc'[v] = "reached", pc'[u] = "reached"
            PROVE  v = u
        BY <3>2, <1>0, <2>1, ExpectedAssumption DEF ImmInv, InsideInc
      <3>3. QED
        BY <3>1, <3>2 DEF InsideInc
    <2>7. NotInstalled'
      BY <2>1 DEF ImmInv, NotInstalled
    <2>8. SingleWorker'
      <3> SUFFICES ASSUME NEW v \in Workers, receivers' = {v}
                   PROVE  /\ pc'[v] = "idle" => tally' < Expected
                          /\ pc'[v] = "reached" => tally' = Expected
        BY DEF SingleWorker
      <3>1. v = w /\ receivers = {w}
        BY <2>1
      <3>2. tally < Expected
        BY <2>1, <3>1 DEF ImmInv, SingleWorker
      <3>3. pc'[w] = IF tally + 1 = Expected THEN "reached" ELSE "idle"
        BY <1>0, <2>1
      <3>4. QED
        BY <1>0, <2>1, <3>1, <3>2, <3>3, ExpectedAssumption
    <2>9. QED
      BY <2>2, <2>5, <2>6, <2>7, <2>8 DEF ImmInv
  <1>3. CASE E!IncSub(w)
    <2>1. /\ tally' = tally - Expected /\ events' = Append(events, "ImmCountReached")
          /\ pc' = [pc EXCEPT ![w] = "idle"] /\ pc[w] = "reached"
          /\ UNCHANGED <<receivers, entry, handler, cb, installer, arrived, called, immdata>>
      BY <1>3 DEF E!IncSub
    <2>2. tally >= Expected /\ w \in receivers
      BY <2>1 DEF ImmInv, InsideInc
    <2>3. tally' \in Nat
      BY <1>0, <2>1, <2>2, ExpectedAssumption
    <2>4. ImmTypes'
      <3>1. events' \in Seq(EventKinds)
        BY <1>0, <2>1 DEF EventKinds
      <3>2. QED
        BY <1>0, <2>1, <2>3, <3>1 DEF ImmInv, ImmTypes
    <2>5. Ledger(called', immdata', events', tally') = Ledger(called, immdata, events, tally)
      BY <1>0, <2>1, LedgerReached
    <2>6. Accounted'
      BY <2>1, <2>5 DEF ImmInv, Accounted
    <2>7. \A v \in Workers : pc'[v] = "idle"
      BY <1>0, <2>1 DEF ImmInv, InsideInc
    <2>8. InsideInc'
      BY <2>7 DEF InsideInc
    <2>9. NotInstalled'
      <3>1. Expected > 0
        BY ExpectedAssumption
      <3>2. installer = "done"
        BY <1>0, <2>2, <3>1, ExpectedAssumption DEF ImmInv, ImmTypes, NotInstalled
      <3>3. QED
        BY <2>1, <3>2 DEF NotInstalled
    <2>10. SingleWorker'
      <3> SUFFICES ASSUME NEW v \in Workers, receivers' = {v}
                   PROVE  tally' < Expected
        BY <2>7 DEF SingleWorker
      <3>1. v = w /\ receivers = {w}
        BY <2>1, <2>2
      <3>2. tally = Expected
        BY <2>1, <3>1 DEF ImmInv, SingleWorker
      <3>3. QED
        BY <2>1, <3>2, ExpectedAssumption
    <2>11. QED
      BY <2>4, <2>6, <2>8, <2>9, <2>10 DEF ImmInv
  <1>4. QED
    BY <1>1, <1>2, <1>3

\* handle_transfer_completion and remove_imm_count.
LEMMA ImmHandle ==
    ASSUME ImmInv,
           \/ E!OnImmData \/ E!OnReachedUnhandled \/ E!OnReachedOnce
           \/ \E again \in BOOLEAN : E!OnReachedRepeated(again)
           \/ E!RemoveImmCount
    PROVE  ImmInv'
  <1>0. /\ events \in Seq(EventKinds) /\ tally \in Nat /\ called \in Nat /\ immdata \in Nat
        /\ arrived \in 0..MaxImms /\ pc \in [Workers -> {"idle", "reached"}]
    BY DEF ImmInv, ImmTypes
  <1>1. CASE E!OnImmData
    <2>1. /\ events # <<>> /\ Head(events) = "ImmData" /\ events' = Tail(events)
          /\ immdata' = immdata + 1
          /\ UNCHANGED <<receivers, entry, tally, handler, pc, cb, installer, arrived, called>>
      BY <1>1 DEF E!OnImmData, E!Event
    <2>2. Tail(events) \in Seq(EventKinds)
      BY <1>0, <2>1
    <2>3. ImmTypes'
      BY <1>0, <2>1, <2>2 DEF ImmInv, ImmTypes
    <2>4. Ledger(called', immdata', events', tally') = Ledger(called, immdata, events, tally)
      BY <1>0, <2>1, LedgerTakesData, Zenon
    <2>5. Accounted'
      BY <2>1, <2>4, Zenon DEF ImmInv, Accounted
    <2>6. Count(events', "ImmCountReached") = Count(events, "ImmCountReached")
      BY <1>0, <2>1, CountTail, Zenon DEF EventKinds
    <2>7. InsideInc' /\ SingleWorker'
      BY <2>1, Zenon DEF ImmInv, InsideInc, SingleWorker
    <2>8. NotInstalled'
      BY <2>1, <2>6 DEF ImmInv, NotInstalled
    <2>9. QED
      BY <2>3, <2>5, <2>7, <2>8 DEF ImmInv
  <1> DEFINE Taken ==
        /\ events # <<>> /\ Head(events) = "ImmCountReached" /\ events' = Tail(events)
        /\ called' = called + 1 \/ (called' = called /\ handler = "none")
        /\ handler' = handler \/ handler' = "none"
        /\ cb' \in {"idle", "removing"}
        /\ UNCHANGED <<receivers, entry, tally, pc, installer, arrived, immdata>>
  <1>2. CASE Taken
    <2>1. Tail(events) \in Seq(EventKinds)
      BY <1>0, <1>2
    <2>2. ImmTypes'
      BY <1>0, <1>2, <2>1 DEF ImmInv, ImmTypes
    <2>3. /\ Ledger(called + 1, immdata, events', tally)
               = Ledger(called, immdata, events, tally)
          /\ Ledger(called, immdata, events', tally) <= Ledger(called, immdata, events, tally)
          /\ Count(events, "ImmCountReached") > 0
      BY <1>0, <1>2, LedgerTakesReached, ZenonT(40)
    <2>4. installer = "done"
      BY <2>3 DEF ImmInv, NotInstalled
    <2>5. /\ Ledger(called, immdata, events, tally) \in Nat
          /\ Ledger(called, immdata, events', tally) \in Nat
      BY <1>0, <1>2, <2>1, LedgerType, Zenon
    <2>6. Accounted'
      <3>1. CASE called' = called + 1
        BY <1>0, <1>2, <2>3, <2>4, <3>1, Zenon DEF ImmInv, Accounted
      <3>2. CASE called' = called /\ handler = "none"
        BY <1>0, <1>2, <2>3, <2>4, <2>5, <3>2 DEF ImmInv, Accounted
      <3>3. QED
        BY <1>2, <3>1, <3>2
    <2>7. InsideInc' /\ SingleWorker'
      BY <1>2, Zenon DEF ImmInv, InsideInc, SingleWorker
    <2>8. NotInstalled'
      BY <1>2, <2>4 DEF NotInstalled
    <2>9. QED
      BY <2>2, <2>6, <2>7, <2>8 DEF ImmInv
  <1>3. CASE E!OnReachedUnhandled
    <2>1. Taken
      BY <1>3, Zenon DEF E!OnReachedUnhandled, E!Event, ImmInv, ImmTypes
    <2>2. QED
      BY <1>2, <2>1
  <1>4. CASE E!OnReachedOnce
    <2>1. Taken
      BY <1>4, Zenon DEF E!OnReachedOnce, E!Event, ImmInv, ImmTypes
    <2>2. QED
      BY <1>2, <2>1
  <1>5. ASSUME NEW again \in BOOLEAN, E!OnReachedRepeated(again) PROVE ImmInv'
    <2>1. Taken
      BY <1>5, Zenon DEF E!OnReachedRepeated, E!Event
    <2>2. QED
      BY <1>2, <2>1, Zenon
  <1>6. CASE E!RemoveImmCount
    <2>1. /\ tally' = 0 /\ immdata' = immdata + tally /\ cb' = "idle" /\ cb = "removing"
          /\ entry' = FALSE /\ \A w \in Workers : pc[w] = "idle"
          /\ UNCHANGED <<receivers, handler, pc, events, installer, arrived, called>>
      BY <1>6, Zenon DEF E!RemoveImmCount, E!Unlocked
    <2>2. ImmTypes'
      <3>1. entry' \in BOOLEAN
        BY <2>1, Zenon
      <3>2. QED
        BY <1>0, <2>1, <3>1 DEF ImmInv, ImmTypes
    <2>3. Ledger(called', immdata', events', tally') = Ledger(called, immdata, events, tally)
      BY <1>0, <2>1, LedgerCounter
    <2>4. Accounted'
      BY <2>1, <2>3, Zenon DEF ImmInv, Accounted
    <2>5. installer = "done"
      BY <2>1 DEF ImmInv, NotInstalled
    <2>6. InsideInc' /\ NotInstalled' /\ SingleWorker'
      BY <2>1, <2>5, ExpectedAssumption DEF InsideInc, NotInstalled, SingleWorker
    <2>7. QED
      BY <2>2, <2>4, <2>6 DEF ImmInv
  <1>7. QED
    BY <1>1, <1>3, <1>4, <1>5, <1>6

\* Steps that change nothing of the expected count.
LEMMA ImmStutter == ImmInv /\ UNCHANGED EVars => ImmInv'
  BY DEF EVars, ImmInv, ImmTypes, InsideInc, NotInstalled, Accounted, SingleWorker

\* The inductive invariant holds throughout.
LEMMA ImmInvariance == MCSpec => []ImmInv
  <1>1. MCInit => ImmInv
    BY ImmInit DEF MCInit
  <1>2. ImmInv /\ [MCNext]_MCVars => ImmInv'
    <2> SUFFICES ASSUME ImmInv, [MCNext]_MCVars PROVE ImmInv'
      OBVIOUS
    <2>1. E!Next \/ UNCHANGED EVars
      BY DEF MCNext, MCWorker, MCUser, MCRest, MCExpected, MCVars
    <2>2. CASE E!Next
      BY <2>2, ImmInstall, ImmInc, ImmHandle, ImmStutter, Zenon
      DEF E!Next, E!AllHandled, E!vars, EVars
    <2>3. QED
      BY <2>1, <2>2, ImmStutter
  <1>3. QED
    BY <1>1, <1>2, PTL DEF MCSpec

\* inc, handle_transfer_completion and remove_imm_count (imm_count.rs:37,
\* transfer_engine.rs:467): for any number of workers and any expected count, no
\* immediate is delivered twice, neither by two callbacks nor by a callback and as
\* an ImmData.
THEOREM EachImmOnceHolds == MCSpec => []EachImmOnce
  <1>1. ImmInv => EachImmOnce
    <2> SUFFICES ASSUME ImmInv PROVE EachImmOnce
      OBVIOUS
    <2>1. /\ events \in Seq(EventKinds) /\ tally \in Nat /\ called \in Nat
          /\ immdata \in Nat /\ arrived \in 0..MaxImms
      BY DEF ImmInv, ImmTypes
    <2>2. called * Expected + immdata + tally <= arrived
      <3>1. \A a, b \in Nat : a * b \in Nat
        OBVIOUS
      <3>2. called * Expected \in Nat
        BY <2>1, <3>1, ExpectedAssumption
      <3>3. /\ Ledger(called, immdata, events, tally) \in Nat
            /\ called * Expected + immdata + tally <= Ledger(called, immdata, events, tally)
        BY <2>1, LedgerType, Zenon
      <3>4. Ledger(called, immdata, events, tally) <= arrived
        BY DEF ImmInv, Accounted
      <3>5. QED
        BY <2>1, <3>2, <3>3, <3>4, ExpectedAssumption
    <2>3. \A a \in Nat, b \in Nat \ {0} : a * b \in Nat /\ a <= a * b
      OBVIOUS
    <2>4. called * Expected \in Nat /\ called <= called * Expected
      BY <2>1, <2>3, ExpectedAssumption
    <2>5. /\ tally \in 0..MaxImms /\ called \in 0..MaxImms /\ immdata \in 0..MaxImms
          /\ called * Expected + immdata <= arrived
      BY <2>1, <2>2, <2>4, ExpectedAssumption
    <2>6. E!TypeOK
      BY <2>5, Zenon DEF E!TypeOK, ImmInv, ImmTypes, EventKinds
    <2>7. QED
      BY <2>5, <2>6 DEF EachImmOnce, E!EachImmOnce
  <1>2. QED
    BY <1>1, ImmInvariance, PTL

\* inc with a repeated callback (imm_count.rs:40, transfer_engine.rs:487): when one
\* worker receives the immediate, then at rest the callback has been called for every
\* full count, for any expected count.
THEOREM CallbackPerCountHolds == MCSpec => []CallbackPerCount
  <1>1. ImmInv => CallbackPerCount
    <2> SUFFICES ASSUME ImmInv, E!Quiet, handler = "repeated",
                        NEW w \in Workers, receivers = {w}
                 PROVE  arrived - immdata - called * Expected \in 0..(Expected - 1)
      BY DEF CallbackPerCount, E!CallbackPerCount
    <2>1. /\ events = <<>> /\ tally \in Nat /\ called \in Nat
          /\ immdata \in Nat /\ arrived \in Nat /\ receivers \subseteq Workers
          /\ pc[w] = "idle"
      BY ExpectedAssumption DEF ImmInv, ImmTypes, E!Quiet, E!Unlocked
    <2>3. tally < Expected
      BY <2>1 DEF ImmInv, SingleWorker
    <2>4. Count(events, "ImmData") = 0 /\ Count(events, "ImmCountReached") = 0
      BY <2>1, CountEmpty
    <2>5. \A a, b \in Nat : a * b \in Nat
      OBVIOUS
    <2>6. called * Expected \in Nat
      BY <2>1, <2>5, ExpectedAssumption
    <2>7. Ledger(called, immdata, events, tally) = called * Expected + immdata + tally
      BY <2>1, <2>4, <2>6, ExpectedAssumption DEF Ledger
    <2>8. arrived = called * Expected + immdata + tally
      BY <2>7 DEF ImmInv, Accounted
    <2>9. QED
      BY <2>1, <2>3, <2>6, <2>8, ExpectedAssumption
  <1>2. QED
    BY <1>1, ImmInvariance, PTL
============================================================================
