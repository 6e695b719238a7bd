------------------------ MODULE WriteContextsProofs ------------------------
(***************************************************************************)
(* Safety of the EFA write path, for any number of writes, of operations   *)
(* per write and any posting batch.  IInv is the inductive invariant; the  *)
(* properties of WriteContexts follow from it.                             *)
(***************************************************************************)
EXTENDS WriteContexts, SequenceTheorems, TLAPS

\* The books of one write: what was posted is finished, on the NIC or waiting
\* to be read.
Balanced(w) ==
    /\ cnt_posted_ops[w] = cnt_finished_ops[w] + flight[w] + good[w] + failed[w]
    /\ cnt_posted_ops[w] <= total_ops[w]

\* A write not yet submitted has no context, and a context that was given back
\* has nothing outstanding and is not in the queue.
Allocated(w) ==
    /\ alloc[w] = "none" => total_ops[w] = 0 /\ w \notin bad /\ completions[w] = <<>>
    /\ alloc[w] = "freed" => cnt_finished_ops[w] = cnt_posted_ops[w]
    /\ Queued(w) => /\ alloc[w] = "live" /\ w \in in_queue
                    /\ cnt_posted_ops[w] < total_ops[w]

\* What was reported of a write matches its context.
Reported(w) ==
    \/ completions[w] = <<>> /\ w \notin bad
    \/ completions[w] = <<"Transfer">> /\ w \notin bad /\ cnt_finished_ops[w] = total_ops[w]
    \/ completions[w] = <<"Error">> /\ w \in bad
    \/ completions[w] = <<"Error", "Transfer">> /\ w \in bad
         /\ cnt_finished_ops[w] = total_ops[w]

WriteInv(w) == Balanced(w) /\ Allocated(w) /\ Reported(w)

Distinct(q) == \A i, j \in 1..Len(q) : q[i] = q[j] => i = j

\* The inductive invariant.
IInv == TypeOK /\ Distinct(write_ops) /\ \A w \in Writes : WriteInv(w)

----------------------------------------------------------------------------

\* Members of a queue after push_back.
LEMMA AppendMembers ==
    ASSUME NEW S, NEW q \in Seq(S), NEW x \in S
    PROVE  /\ Append(q, x) \in Seq(S)
           /\ \A v : (\E i \in 1..Len(Append(q, x)) : Append(q, x)[i] = v) <=>
                        (v = x \/ \E i \in 1..Len(q) : q[i] = v)
           /\ Distinct(q) /\ ~(\E i \in 1..Len(q) : q[i] = x) => Distinct(Append(q, x))
<1>1. Append(q, x) \in Seq(S) /\ Len(Append(q, x)) = Len(q) + 1 /\ Len(q) \in Nat
  OBVIOUS
<1>2. \A i \in 1..Len(q) : Append(q, x)[i] = q[i]
  OBVIOUS
<1>3. Append(q, x)[Len(q) + 1] = x
  OBVIOUS
<1> QED
  BY <1>1, <1>2, <1>3 DEF Distinct

\* Members of a queue after pop_front: the head is gone, nothing else is.
LEMMA TailMembers ==
    ASSUME NEW S, NEW q \in Seq(S), q # <<>>
    PROVE  /\ Head(q) \in S /\ Tail(q) \in Seq(S)
           /\ \E i \in 1..Len(q) : q[i] = Head(q)
           /\ \A v : (\E i \in 1..Len(Tail(q)) : Tail(q)[i] = v) => \E i \in 1..Len(q) : q[i] = v
           /\ Distinct(q) => /\ Distinct(Tail(q))
                             /\ ~\E i \in 1..Len(Tail(q)) : Tail(q)[i] = Head(q)
<1>1. /\ Tail(q) \in Seq(S) /\ Len(q) \in Nat /\ Len(q) > 0 /\ Len(Tail(q)) = Len(q) - 1
      /\ Head(q) = q[1] /\ q[1] \in S
  OBVIOUS
<1>2. \A i \in 1..Len(Tail(q)) : Tail(q)[i] = q[i + 1]
  BY <1>1
<1> QED
  BY <1>1, <1>2 DEF Distinct

\* The reports of a write after one more.
LEMMA AppendReport ==
    /\ Append(<<>>, "Transfer") = <<"Transfer">>
    /\ Append(<<>>, "Error") = <<"Error">>
    /\ Append(<<"Error">>, "Transfer") = <<"Error", "Transfer">>
<1>1. ASSUME NEW r \in Reports PROVE Append(<<>>, r) = <<r>>
  <2>1. <<>> \in Seq(Reports) /\ Len(<<>>) = 0
    OBVIOUS
  <2>2. /\ Append(<<>>, r) \in Seq(Reports) /\ Len(Append(<<>>, r)) = 1
        /\ Append(<<>>, r)[1] = r
    BY <2>1
  <2>3. <<r>> \in Seq(Reports) /\ Len(<<r>>) = 1 /\ <<r>>[1] = r
    OBVIOUS
  <2> QED
    BY <2>2, <2>3, SeqEqual
<1>2. Append(<<"Error">>, "Transfer") = <<"Error", "Transfer">>
  <2>1. <<"Error">> \in Seq(Reports) /\ Len(<<"Error">>) = 1 /\ <<"Error">>[1] = "Error"
    BY DEF Reports
  <2> DEFINE s == Append(<<"Error">>, "Transfer")
  <2>2. s \in Seq(Reports) /\ Len(s) = 2 /\ s[1] = "Error" /\ s[2] = "Transfer"
    BY <2>1 DEF Reports
  <2> DEFINE t == <<"Error", "Transfer">>
  <2>3. t \in Seq(Reports) /\ Len(t) = 2 /\ t[1] = "Error" /\ t[2] = "Transfer"
    BY DEF Reports
  <2>4. \A i \in 1..Len(s) : s[i] = t[i]
    BY <2>2, <2>3
  <2> HIDE DEF s, t
  <2>5. s = t
    BY <2>2, <2>3, <2>4, SeqEqual
  <2> QED
    BY <2>5 DEF s, t
<1> QED
  BY <1>1, <1>2 DEF Reports

\* A step that leaves the state of a write alone, and does not queue it, keeps
\* its invariant.
LEMMA Frame ==
    ASSUME NEW v, WriteInv(v),
           alloc'[v] = alloc[v], total_ops'[v] = total_ops[v],
           cnt_posted_ops'[v] = cnt_posted_ops[v],
           cnt_finished_ops'[v] = cnt_finished_ops[v],
           flight'[v] = flight[v], good'[v] = good[v], failed'[v] = failed[v],
           completions'[v] = completions[v],
           v \in bad <=> v \in bad', v \in in_queue <=> v \in in_queue',
           Queued(v)' => Queued(v)
    PROVE  WriteInv(v)'
BY DEF WriteInv, Balanced, Allocated, Reported

\* The counters of a write are numbers within the bound.
LEMMA CountsOfWrite ==
    ASSUME TypeOK, NEW w \in Writes
    PROVE  /\ MaxOps \in Nat
           /\ total_ops[w] \in Nat /\ total_ops[w] <= MaxOps
           /\ cnt_posted_ops[w] \in Nat /\ cnt_finished_ops[w] \in Nat
           /\ flight[w] \in Nat /\ good[w] \in Nat /\ failed[w] \in Nat
BY WriteContextsAssumption DEF TypeOK, Count

\* A write with a completion to read has a context, and is not finished.
LEMMA Unfinished ==
    ASSUME TypeOK, NEW w \in Writes, Balanced(w), Allocated(w), good[w] > 0 \/ failed[w] > 0
    PROVE  /\ alloc[w] = "live" /\ cnt_finished_ops[w] < cnt_posted_ops[w]
           /\ cnt_finished_ops[w] # total_ops[w]
<1>1. /\ total_ops[w] \in Nat /\ cnt_posted_ops[w] \in Nat /\ cnt_finished_ops[w] \in Nat
      /\ flight[w] \in Nat /\ good[w] \in Nat /\ failed[w] \in Nat
  BY CountsOfWrite, Zenon
<1>2. /\ cnt_posted_ops[w] = cnt_finished_ops[w] + flight[w] + good[w] + failed[w]
      /\ cnt_posted_ops[w] <= total_ops[w]
  BY Zenon DEF Balanced
<1>3. /\ cnt_finished_ops[w] < cnt_posted_ops[w] /\ cnt_finished_ops[w] # total_ops[w]
      /\ cnt_finished_ops[w] # cnt_posted_ops[w] /\ total_ops[w] # 0
  BY <1>1, <1>2
<1>4. alloc[w] \in {"none", "live", "freed"}
  BY Zenon DEF TypeOK
<1> QED
  BY <1>3, <1>4, Zenon DEF Allocated

\* What one call of progress_rdma_write_op_context may post.
LEMMA PostedByBounds ==
    ASSUME NEW left \in Nat, NEW m \in Nat, NEW k \in PostedBy(left, m)
    PROVE  k \in Nat /\ k <= left
BY DEF PostedBy

----------------------------------------------------------------------------
(* One lemma per action.                                                    *)

\* submit_write.
LEMMA SubmitWriteInv ==
    ASSUME IInv, NEW w \in Writes, NEW n \in 1..MaxOps, SubmitWrite(w, n)
    PROVE  IInv'
<1>1. PICK k \in PostedBy(n, 1) :
        /\ cnt_posted_ops' = [cnt_posted_ops EXCEPT ![w] = k]
        /\ flight' = [flight EXCEPT ![w] = k]
        /\ in_queue' = IF k # n THEN in_queue \cup {w} ELSE in_queue
        /\ write_ops' = IF k # n THEN Append(write_ops, w) ELSE write_ops
  BY Zenon DEF SubmitWrite
<1>2. k \in Nat /\ k <= n /\ n \in Nat /\ n > 0 /\ n <= MaxOps
  BY PostedByBounds, WriteContextsAssumption
<1>3. /\ alloc[w] = "none" /\ WriteInv(w) /\ ~Queued(w)
      /\ alloc' = [alloc EXCEPT ![w] = "live"] /\ total_ops' = [total_ops EXCEPT ![w] = n]
      /\ cnt_finished_ops' = cnt_finished_ops /\ bad' = bad /\ good' = good
      /\ failed' = failed /\ completions' = completions /\ phase' = "progress"
  BY DEF SubmitWrite, IInv, WriteInv, Allocated
<1>4. /\ write_ops' \in Seq(Writes) /\ Distinct(write_ops')
      /\ \A v \in Writes : Queued(v)' => Queued(v) \/ (v = w /\ k # n)
  <2>1. write_ops \in Seq(Writes) /\ Distinct(write_ops)
    BY DEF IInv, TypeOK
  <2>2. CASE k # n
    <3>1. write_ops' = Append(write_ops, w)
      BY <1>1, <2>2
    <3> QED
      BY <1>3, <2>1, <2>2, <3>1, AppendMembers DEF Queued
  <2>3. CASE k = n
    BY <1>1, <2>1, <2>3 DEF Queued
  <2> QED
    BY <2>2, <2>3
<1>5. TypeOK'
  <2>1. k \in Count /\ n \in Count
    BY <1>2, WriteContextsAssumption DEF Count
  <2>2. TypeOK /\ in_queue' \in SUBSET Writes
    BY <1>1, Zenon DEF IInv, TypeOK
  <2>3. /\ alloc' \in [Writes -> {"none", "live", "freed"}] /\ total_ops' \in [Writes -> Count]
        /\ cnt_posted_ops' \in [Writes -> Count] /\ flight' \in [Writes -> Count]
    BY <1>1, <1>3, <2>1, <2>2, Zenon DEF TypeOK
  <2> QED
    BY <1>3, <1>4, <2>2, <2>3, Zenon DEF TypeOK
<1>6. WriteInv(w)'
  <2>1. cnt_finished_ops[w] = 0 /\ good[w] = 0 /\ failed[w] = 0 /\ completions[w] = <<>>
    BY <1>3, WriteContextsAssumption DEF IInv, TypeOK, Count, WriteInv, Balanced, Allocated
  <2>2. /\ alloc'[w] = "live" /\ total_ops'[w] = n /\ cnt_posted_ops'[w] = k
        /\ flight'[w] = k
    BY <1>1, <1>3 DEF IInv, TypeOK
  <2>3. Balanced(w)' /\ Reported(w)'
    BY <1>2, <1>3, <2>1, <2>2 DEF WriteInv, Allocated, Balanced, Reported
  <2>4. Allocated(w)'
    BY <1>1, <1>2, <1>3, <1>4, <2>2 DEF Allocated
  <2> QED
    BY <2>3, <2>4 DEF WriteInv
<1>7. ASSUME NEW v \in Writes, v # w PROVE WriteInv(v)'
  BY <1>1, <1>3, <1>4, <1>7, Frame, Zenon DEF IInv, TypeOK
<1> QED
  BY <1>4, <1>5, <1>6, <1>7 DEF IInv

\* A queued write to an address that is not there.
LEMMA UnqueueBadInv ==
    ASSUME IInv, UnqueueBad
    PROVE  IInv'
<1>1. PICK w : w = Head(write_ops)
  OBVIOUS
<1>2. /\ write_ops \in Seq(Writes) /\ write_ops # <<>> /\ Distinct(write_ops)
      /\ write_ops' = Tail(write_ops)
  BY DEF UnqueueBad, IInv, TypeOK
<1>3. /\ w \in Writes /\ Queued(w) /\ ~Queued(w)'
      /\ write_ops' \in Seq(Writes) /\ Distinct(write_ops')
      /\ \A v \in Writes : Queued(v)' => Queued(v)
  BY <1>1, <1>2, TailMembers DEF Queued
<1>4. /\ w \in bad /\ in_queue' = in_queue \ {w}
      /\ alloc' = [alloc EXCEPT ![w] =
            IF cnt_finished_ops[w] = cnt_posted_ops[w] /\ w \notin in_queue \ {w}
            THEN "freed" ELSE @]
      /\ total_ops' = total_ops /\ cnt_posted_ops' = cnt_posted_ops
      /\ cnt_finished_ops' = cnt_finished_ops /\ bad' = bad /\ flight' = flight
      /\ good' = good /\ failed' = failed /\ completions' = completions /\ phase' = phase
  BY <1>1 DEF UnqueueBad, MaybeDrop, nic
<1>5. /\ alloc[w] = "live" /\ alloc' \in [Writes -> {"none", "live", "freed"}]
      /\ alloc'[w] \in {"live", "freed"}
      /\ alloc'[w] = "freed" => cnt_finished_ops[w] = cnt_posted_ops[w]
      /\ \A v \in Writes : v # w => alloc'[v] = alloc[v]
  BY <1>3, <1>4 DEF IInv, TypeOK, WriteInv, Allocated
<1>6. TypeOK'
  BY <1>3, <1>4, <1>5 DEF IInv, TypeOK
<1>7. WriteInv(w)'
  BY <1>3, <1>4, <1>5, Zenon DEF IInv, WriteInv, Balanced, Allocated, Reported
<1>8. ASSUME NEW v \in Writes, v # w PROVE WriteInv(v)'
  BY <1>3, <1>4, <1>5, <1>8, Frame, Zenon DEF IInv
<1> QED
  BY <1>3, <1>6, <1>7, <1>8 DEF IInv

\* Posting from the queue.
LEMMA PostQueuedInv ==
    ASSUME IInv, PostQueued
    PROVE  IInv'
<1>1. PICK w : w = Head(write_ops)
  OBVIOUS
<1>2. write_ops \in Seq(Writes) /\ write_ops # <<>> /\ Distinct(write_ops)
  BY DEF PostQueued, IInv, TypeOK
<1>3. w \in Writes /\ Queued(w) /\ WriteInv(w)
  BY <1>1, <1>2, TailMembers DEF Queued, IInv
<1>4. PICK k \in PostedBy(total_ops[w] - cnt_posted_ops[w], PostBatch) :
        /\ cnt_posted_ops' = [cnt_posted_ops EXCEPT ![w] = @ + k]
        /\ flight' = [flight EXCEPT ![w] = @ + k]
        /\ write_ops' = IF cnt_posted_ops[w] + k = total_ops[w]
                        THEN Tail(write_ops) ELSE write_ops
        /\ phase' = IF cnt_posted_ops[w] + k = total_ops[w] THEN phase ELSE "poll"
  BY <1>1, Zenon DEF PostQueued
<1>5. /\ alloc' = alloc /\ total_ops' = total_ops /\ cnt_finished_ops' = cnt_finished_ops
      /\ bad' = bad /\ in_queue' = in_queue /\ good' = good /\ failed' = failed
      /\ completions' = completions
  BY DEF PostQueued
<1>6. k \in Nat /\ cnt_posted_ops[w] + k <= total_ops[w]
  <2>1. total_ops[w] - cnt_posted_ops[w] \in Nat /\ cnt_posted_ops[w] \in Nat /\ total_ops[w] \in Nat
    <3>1. TypeOK /\ cnt_posted_ops[w] <= total_ops[w]
      BY <1>3, Zenon DEF IInv, WriteInv, Balanced
    <3>2. total_ops[w] \in Nat /\ cnt_posted_ops[w] \in Nat
      BY <1>3, <3>1, CountsOfWrite, Zenon
    <3> QED
      BY <3>1, <3>2
  <2>2. k \in Nat /\ k <= total_ops[w] - cnt_posted_ops[w]
    BY <2>1, PostedByBounds, WriteContextsAssumption
  <2> QED
    BY <2>1, <2>2
<1>7. /\ write_ops' \in Seq(Writes) /\ Distinct(write_ops')
      /\ \A v \in Writes : Queued(v)' => Queued(v)
      /\ Queued(w)' => cnt_posted_ops[w] + k # total_ops[w]
  <2>1. CASE cnt_posted_ops[w] + k = total_ops[w]
    <3>1. write_ops' = Tail(write_ops)
      BY <1>4, <2>1
    <3> QED
      BY <1>1, <1>2, <3>1, TailMembers DEF Queued
  <2>2. CASE cnt_posted_ops[w] + k # total_ops[w]
    BY <1>2, <1>4, <2>2 DEF Queued
  <2> QED
    BY <2>1, <2>2
<1>8. TypeOK'
  <2>1. cnt_posted_ops[w] + k \in Count /\ flight[w] + k \in Count
    <3>1. TypeOK /\ Balanced(w)
      BY <1>3 DEF IInv, WriteInv
    <3> QED
      BY <1>3, <1>6, <3>1, CountsOfWrite DEF Count, Balanced
  <2>2. cnt_posted_ops' \in [Writes -> Count] /\ flight' \in [Writes -> Count]
    BY <1>3, <1>4, <2>1 DEF IInv, TypeOK
  <2>3. phase' \in {"command", "progress", "poll"}
    BY <1>4 DEF IInv, TypeOK
  <2> QED
    BY <1>5, <1>7, <2>2, <2>3 DEF IInv, TypeOK
<1>9. WriteInv(w)'
  <2>1. cnt_posted_ops'[w] = cnt_posted_ops[w] + k /\ flight'[w] = flight[w] + k
    BY <1>3, <1>4 DEF IInv, TypeOK
  <2>2. Balanced(w)'
    <3>1. TypeOK /\ Balanced(w)
      BY <1>3 DEF IInv, WriteInv
    <3> QED
      BY <1>3, <1>5, <1>6, <2>1, <3>1, CountsOfWrite DEF Balanced
  <2>3. Allocated(w)'
    <3>1. TypeOK /\ alloc[w] = "live" /\ w \in in_queue
      BY <1>3 DEF IInv, WriteInv, Allocated
    <3>2. Queued(w)' => cnt_posted_ops'[w] < total_ops'[w]
      <4>1. total_ops[w] \in Nat /\ cnt_posted_ops[w] \in Nat
        BY <1>3, <3>1, CountsOfWrite, Zenon
      <4>2. cnt_posted_ops[w] + k # total_ops[w] => cnt_posted_ops[w] + k < total_ops[w]
        BY <1>6, <4>1
      <4> QED
        BY <1>5, <1>7, <2>1, <4>2, Zenon
    <3> QED
      BY <1>5, <3>1, <3>2, Zenon DEF Allocated
  <2>4. Reported(w)'
    BY <1>3, <1>5 DEF WriteInv, Reported
  <2> QED
    BY <2>2, <2>3, <2>4 DEF WriteInv
<1>10. ASSUME NEW v \in Writes, v # w PROVE WriteInv(v)'
  BY <1>4, <1>5, <1>7, <1>10, Frame DEF IInv, TypeOK
<1> QED
  BY <1>7, <1>8, <1>9, <1>10 DEF IInv

\* A write completion.
LEMMA HandleWriteCqeInv ==
    ASSUME IInv, NEW w \in Writes, HandleWriteCqe(w)
    PROVE  IInv'
<1>1. /\ good[w] > 0 /\ good' = [good EXCEPT ![w] = @ - 1]
      /\ cnt_finished_ops' = [cnt_finished_ops EXCEPT ![w] = @ + 1]
      /\ total_ops' = total_ops /\ cnt_posted_ops' = cnt_posted_ops /\ bad' = bad
      /\ in_queue' = in_queue /\ write_ops' = write_ops /\ flight' = flight
      /\ failed' = failed /\ phase' = phase
  BY DEF HandleWriteCqe
<1>2. TypeOK /\ Distinct(write_ops) /\ Balanced(w) /\ Allocated(w) /\ Reported(w)
  BY DEF IInv, WriteInv
<1>3. \A v \in Writes : Queued(v)' <=> Queued(v)
  BY <1>1 DEF Queued
<1>4. /\ alloc[w] = "live" /\ cnt_finished_ops[w] < cnt_posted_ops[w]
      /\ cnt_finished_ops[w] # total_ops[w]
  BY <1>1, <1>2, Unfinished, Zenon
<1>5. /\ alloc' \in [Writes -> {"none", "live", "freed"}] /\ alloc'[w] \in {"live", "freed"}
      /\ alloc'[w] = "freed" => cnt_finished_ops[w] + 1 = cnt_posted_ops[w] /\ w \notin in_queue
      /\ \A v \in Writes : v # w => alloc'[v] = alloc[v]
  <2>1. CASE IsLast(w)
    <3>1. alloc' = [alloc EXCEPT ![w] =
            IF cnt_finished_ops[w] + 1 = cnt_posted_ops[w] /\ w \notin in_queue
            THEN "freed" ELSE @]
      BY <2>1, Zenon DEF HandleWriteCqe, MaybeDrop
    <3> QED
      BY <1>2, <1>4, <3>1 DEF TypeOK
  <2>2. CASE ~IsLast(w)
    BY <1>2, <1>4, <2>2 DEF HandleWriteCqe, TypeOK
  <2> QED
    BY <2>1, <2>2
<1>6. /\ completions' \in [Writes -> Seq(Reports)]
      /\ \A v \in Writes : v # w => completions'[v] = completions[v]
      /\ completions'[w] = IF IsLast(w) THEN Append(completions[w], "Transfer")
                           ELSE completions[w]
  <2>1. CASE IsLast(w)
    <3>1. completions' = [completions EXCEPT ![w] = Append(@, "Transfer")]
      BY <2>1 DEF HandleWriteCqe
    <3>2. Append(completions[w], "Transfer") \in Seq(Reports)
      BY <1>2 DEF TypeOK, Reports
    <3> QED
      BY <1>2, <2>1, <3>1, <3>2 DEF TypeOK
  <2>2. CASE ~IsLast(w)
    BY <1>2, <2>2 DEF HandleWriteCqe, TypeOK
  <2> QED
    BY <2>1, <2>2
<1>7. /\ good'[w] = good[w] - 1 /\ cnt_finished_ops'[w] = cnt_finished_ops[w] + 1
      /\ \A v \in Writes : v # w =>
            good'[v] = good[v] /\ cnt_finished_ops'[v] = cnt_finished_ops[v]
      /\ good' \in [Writes -> Count] /\ cnt_finished_ops' \in [Writes -> Count]
  <2>1. good[w] - 1 \in Count /\ cnt_finished_ops[w] + 1 \in Count
    BY <1>1, <1>2, <1>4, CountsOfWrite DEF Count, Balanced
  <2> QED
    BY <1>1, <1>2, <2>1 DEF TypeOK
<1>8. TypeOK'
  BY <1>1, <1>2, <1>5, <1>6, <1>7, Zenon DEF TypeOK
<1>9. WriteInv(w)'
  <2>1. Balanced(w)'
    <3>1. good[w] \in Nat /\ cnt_finished_ops[w] \in Nat /\ flight[w] \in Nat
          /\ failed[w] \in Nat
      BY <1>2, CountsOfWrite, Zenon
    <3> QED
      BY <1>1, <1>2, <1>7, <3>1 DEF Balanced
  <2>2. Allocated(w)'
    BY <1>1, <1>2, <1>3, <1>5, <1>7, Zenon DEF Allocated
  <2>3. Reported(w)'
    <3>1. \/ completions[w] = <<>> /\ w \notin bad
          \/ completions[w] = <<"Error">> /\ w \in bad
      BY <1>2, <1>4, Zenon DEF Reported
    <3>2. IsLast(w) => cnt_finished_ops'[w] = total_ops'[w]
      BY <1>1, <1>2, <1>4, <1>7, CountsOfWrite DEF IsLast, Balanced
    <3>3. CASE IsLast(w)
      BY <1>1, <1>6, <3>1, <3>2, <3>3, AppendReport, Zenon DEF Reported
    <3>4. CASE ~IsLast(w)
      BY <1>1, <1>6, <3>1, <3>4 DEF Reported
    <3> QED
      BY <3>3, <3>4
  <2> QED
    BY <2>1, <2>2, <2>3 DEF WriteInv
<1>10. ASSUME NEW v \in Writes, v # w PROVE WriteInv(v)'
  BY <1>1, <1>3, <1>5, <1>6, <1>7, <1>10, Frame, Zenon DEF IInv
<1> QED
  BY <1>1, <1>2, <1>8, <1>9, <1>10 DEF IInv

\* A completion with an error.
LEMMA HandleWriteErrorInv ==
    ASSUME IInv, NEW w \in Writes, HandleWriteError(w)
    PROVE  IInv'
<1>1. /\ failed[w] > 0 /\ failed' = [failed EXCEPT ![w] = @ - 1]
      /\ cnt_finished_ops' = [cnt_finished_ops EXCEPT ![w] = @ + 1]
      /\ bad' = bad \cup {w} /\ total_ops' = total_ops /\ cnt_posted_ops' = cnt_posted_ops
      /\ in_queue' = in_queue /\ write_ops' = write_ops /\ flight' = flight
      /\ good' = good /\ phase' = "command"
  BY DEF HandleWriteError
<1>2. TypeOK /\ Distinct(write_ops) /\ Balanced(w) /\ Allocated(w) /\ Reported(w)
  BY DEF IInv, WriteInv
<1>3. \A v \in Writes : Queued(v)' <=> Queued(v)
  BY <1>1 DEF Queued
<1>4. /\ alloc[w] = "live" /\ cnt_finished_ops[w] < cnt_posted_ops[w]
      /\ cnt_finished_ops[w] # total_ops[w]
  BY <1>1, <1>2, Unfinished, Zenon
<1>5. /\ alloc' \in [Writes -> {"none", "live", "freed"}] /\ alloc'[w] \in {"live", "freed"}
      /\ alloc'[w] = "freed" => cnt_finished_ops[w] + 1 = cnt_posted_ops[w] /\ w \notin in_queue
      /\ \A v \in Writes : v # w => alloc'[v] = alloc[v]
  <2>1. alloc' = [alloc EXCEPT ![w] =
            IF cnt_finished_ops[w] + 1 = cnt_posted_ops[w] /\ w \notin in_queue
            THEN "freed" ELSE @]
    BY Zenon DEF HandleWriteError, MaybeDrop
  <2> QED
    BY <1>2, <1>4, <2>1 DEF TypeOK
<1>6. /\ completions' \in [Writes -> Seq(Reports)]
      /\ \A v \in Writes : v # w => completions'[v] = completions[v]
      /\ completions'[w] = IF w \in bad THEN completions[w]
                           ELSE Append(completions[w], "Error")
  <2>1. CASE w \notin bad
    <3>1. completions' = [completions EXCEPT ![w] = Append(@, "Error")]
      BY <2>1 DEF HandleWriteError
    <3>2. Append(completions[w], "Error") \in Seq(Reports)
      BY <1>2 DEF TypeOK, Reports
    <3> QED
      BY <1>2, <2>1, <3>1, <3>2 DEF TypeOK
  <2>2. CASE w \in bad
    BY <1>2, <2>2 DEF HandleWriteError, TypeOK
  <2> QED
    BY <2>1, <2>2
<1>7. /\ failed'[w] = failed[w] - 1 /\ cnt_finished_ops'[w] = cnt_finished_ops[w] + 1
      /\ \A v \in Writes : v # w =>
            failed'[v] = failed[v] /\ cnt_finished_ops'[v] = cnt_finished_ops[v]
      /\ failed' \in [Writes -> Count] /\ cnt_finished_ops' \in [Writes -> Count]
  <2>1. failed[w] - 1 \in Count /\ cnt_finished_ops[w] + 1 \in Count
    BY <1>1, <1>2, <1>4, CountsOfWrite DEF Count, Balanced
  <2> QED
    BY <1>1, <1>2, <2>1 DEF TypeOK
<1>8. TypeOK'
  BY <1>1, <1>2, <1>5, <1>6, <1>7 DEF TypeOK
<1>9. WriteInv(w)'
  <2>1. Balanced(w)'
    <3>1. good[w] \in Nat /\ cnt_finished_ops[w] \in Nat /\ flight[w] \in Nat
          /\ failed[w] \in Nat
      BY <1>2, CountsOfWrite
    <3> QED
      BY <1>1, <1>2, <1>7, <3>1 DEF Balanced
  <2>2. Allocated(w)'
    BY <1>1, <1>2, <1>3, <1>5, <1>7, Zenon DEF Allocated
  <2>3. Reported(w)'
    <3>1. \/ completions[w] = <<>> /\ w \notin bad
          \/ completions[w] = <<"Error">> /\ w \in bad
      BY <1>2, <1>4, Zenon DEF Reported
    <3> QED
      BY <1>1, <1>6, <3>1, AppendReport, Zenon DEF Reported
  <2> QED
    BY <2>1, <2>2, <2>3 DEF WriteInv
<1>10. ASSUME NEW v \in Writes, v # w PROVE WriteInv(v)'
  BY <1>1, <1>3, <1>5, <1>6, <1>7, <1>10, Frame, Zenon DEF IInv
<1> QED
  BY <1>1, <1>2, <1>8, <1>9, <1>10 DEF IInv

\* The NIC finishes a posted write.
LEMMA NicCompleteInv ==
    ASSUME IInv, NEW w \in Writes, NicComplete(w)
    PROVE  IInv'
<1>1. /\ flight[w] > 0 /\ flight' = [flight EXCEPT ![w] = @ - 1]
      /\ alloc' = alloc /\ total_ops' = total_ops /\ cnt_posted_ops' = cnt_posted_ops
      /\ cnt_finished_ops' = cnt_finished_ops /\ bad' = bad /\ in_queue' = in_queue
      /\ write_ops' = write_ops /\ completions' = completions /\ phase' = phase
      /\ \/ good' = [good EXCEPT ![w] = @ + 1] /\ failed' = failed
         \/ failed' = [failed EXCEPT ![w] = @ + 1] /\ good' = good
  BY DEF NicComplete
<1>2. TypeOK /\ Distinct(write_ops) /\ Balanced(w) /\ Allocated(w) /\ Reported(w)
  BY DEF IInv, WriteInv
<1>3. \A v \in Writes : Queued(v)' <=> Queued(v)
  BY <1>1 DEF Queued
<1>4. /\ flight[w] - 1 \in Count /\ good[w] + 1 \in Count /\ failed[w] + 1 \in Count
  BY <1>1, <1>2, CountsOfWrite DEF Count, Balanced
<1>5. /\ flight' \in [Writes -> Count] /\ good' \in [Writes -> Count]
      /\ failed' \in [Writes -> Count]
      /\ \A v \in Writes : v # w =>
            flight'[v] = flight[v] /\ good'[v] = good[v] /\ failed'[v] = failed[v]
      /\ flight'[w] = flight[w] - 1
      /\ \/ good'[w] = good[w] + 1 /\ failed'[w] = failed[w]
         \/ failed'[w] = failed[w] + 1 /\ good'[w] = good[w]
  <2>1. /\ flight' \in [Writes -> Count] /\ flight'[w] = flight[w] - 1
        /\ \A v \in Writes : v # w => flight'[v] = flight[v]
    BY <1>1, <1>2, <1>4, Zenon DEF TypeOK
  <2>2. CASE good' = [good EXCEPT ![w] = @ + 1] /\ failed' = failed
    BY <1>2, <1>4, <2>1, <2>2, Zenon DEF TypeOK
  <2>3. CASE failed' = [failed EXCEPT ![w] = @ + 1] /\ good' = good
    BY <1>2, <1>4, <2>1, <2>3, Zenon DEF TypeOK
  <2> QED
    BY <1>1, <2>2, <2>3, Zenon
<1>6. TypeOK'
  BY <1>1, <1>2, <1>5, Zenon DEF TypeOK
<1>7. WriteInv(w)'
  <2>1. good[w] \in Nat /\ cnt_finished_ops[w] \in Nat /\ flight[w] \in Nat
        /\ failed[w] \in Nat
    BY <1>2, CountsOfWrite
  <2>2. Balanced(w)'
    BY <1>1, <1>2, <1>5, <2>1 DEF Balanced
  <2>3. Allocated(w)' /\ Reported(w)'
    BY <1>1, <1>2, <1>3, Zenon DEF Allocated, Reported
  <2> QED
    BY <2>2, <2>3 DEF WriteInv
<1>8. ASSUME NEW v \in Writes, v # w PROVE WriteInv(v)'
  BY <1>1, <1>3, <1>5, <1>8, Frame, Zenon DEF IInv
<1> QED
  BY <1>1, <1>2, <1>6, <1>7, <1>8 DEF IInv

\* A step that only moves the worker on, or nothing.
LEMMA StayInv ==
    ASSUME IInv, phase' \in {"command", "progress", "poll"},
           UNCHANGED <<alloc, total_ops, cnt_posted_ops, cnt_finished_ops, bad, in_queue,
                       write_ops, nic, completions>>
    PROVE  IInv'
<1>1. \A v \in Writes : Queued(v)' <=> Queued(v)
  BY DEF Queued
<1>2. TypeOK'
  BY DEF IInv, TypeOK, nic
<1>3. ASSUME NEW v \in Writes PROVE WriteInv(v)'
  BY <1>1, <1>3, Frame, Zenon DEF IInv, nic
<1> QED
  BY <1>2, <1>3 DEF IInv

----------------------------------------------------------------------------
(* The theorems.                                                            *)

\* The invariant holds in the new domain.
LEMMA InitIInv == Init => IInv
<1> SUFFICES ASSUME Init PROVE IInv
  OBVIOUS
<1>1. /\ alloc = [w \in Writes |-> "none"] /\ total_ops = Zero /\ cnt_posted_ops = Zero
      /\ cnt_finished_ops = Zero /\ bad = {} /\ in_queue = {} /\ write_ops = <<>>
      /\ flight = Zero /\ good = Zero /\ failed = Zero
      /\ completions = [w \in Writes |-> <<>>] /\ phase = "command"
  BY DEF Init
<1>2. Zero \in [Writes -> Count]
  BY WriteContextsAssumption DEF Zero, Count
<1>3. completions \in [Writes -> Seq(Reports)] /\ write_ops \in Seq(Writes)
      /\ Len(write_ops) = 0
  BY <1>1
<1>4. TypeOK
  BY <1>1, <1>2, <1>3 DEF TypeOK
<1>5. Distinct(write_ops) /\ \A w \in Writes : ~Queued(w)
  BY <1>3 DEF Distinct, Queued
<1>6. ASSUME NEW w \in Writes PROVE WriteInv(w)
  BY <1>1, <1>5, <1>6 DEF Zero, WriteInv, Balanced, Allocated, Reported
<1> QED
  BY <1>4, <1>5, <1>6 DEF IInv

\* Every step keeps the invariant.
LEMMA NextIInv == IInv /\ [Next]_vars => IInv'
<1> SUFFICES ASSUME IInv, [Next]_vars PROVE IInv'
  OBVIOUS
<1>1. CASE UNCHANGED vars
  <2>1. phase' \in {"command", "progress", "poll"}
    BY <1>1 DEF vars, IInv, TypeOK
  <2> QED
    BY <1>1, <2>1, StayInv DEF vars
<1>2. ASSUME NEW w \in Writes, NEW n \in 1..MaxOps, SubmitWrite(w, n) PROVE IInv'
  BY <1>2, SubmitWriteInv
<1>3. CASE NoCommand \/ ProgressDone \/ PollDone
  BY <1>3, StayInv DEF NoCommand, ProgressDone, PollDone
<1>4. CASE UnqueueBad
  BY <1>4, UnqueueBadInv
<1>5. CASE PostQueued
  BY <1>5, PostQueuedInv
<1>6. ASSUME NEW w \in Writes, HandleWriteCqe(w) PROVE IInv'
  BY <1>6, HandleWriteCqeInv
<1>7. ASSUME NEW w \in Writes, HandleWriteError(w) PROVE IInv'
  BY <1>7, HandleWriteErrorInv
<1>8. ASSUME NEW w \in Writes, NicComplete(w) PROVE IInv'
  BY <1>8, NicCompleteInv
<1> QED
  BY <1>1, <1>2, <1>3, <1>4, <1>5, <1>6, <1>7, <1>8 DEF Next, Worker, Nic

\* IInv holds in every state of every behaviour of the EFA write path.
THEOREM Invariance == Spec => []IInv
BY InitIInv, NextIInv, PTL DEF Spec

\* Every variable of the write path keeps its type: in particular no counter of
\* a WriteOpContext ever runs past the operations of its write.
THEOREM TypeCorrect == Spec => []TypeOK
<1>1. IInv => TypeOK
  BY DEF IInv
<1> QED
  BY <1>1, Invariance, PTL

\* Neither the queue nor the NIC nor an unread completion refers to a context
\* that maybe_drop_write_op_context gave back.
THEOREM NoUseAfterFreeHolds == Spec => []NoUseAfterFree
<1>1. IInv => NoUseAfterFree
  <2> SUFFICES ASSUME IInv, NEW w \in Writes,
                      Queued(w) \/ flight[w] > 0 \/ good[w] + failed[w] > 0
               PROVE  alloc[w] = "live"
    BY DEF NoUseAfterFree
  <2>1. TypeOK /\ Balanced(w) /\ Allocated(w)
    BY DEF IInv, WriteInv
  <2>2. CASE Queued(w)
    BY <2>1, <2>2 DEF Allocated
  <2>3. CASE flight[w] > 0 \/ good[w] + failed[w] > 0
    <3>1. cnt_finished_ops[w] < cnt_posted_ops[w] /\ total_ops[w] > 0
      BY <2>1, <2>3, CountsOfWrite DEF Balanced
    <3> QED
      BY <2>1, <3>1, CountsOfWrite DEF Allocated, TypeOK
  <2> QED
    BY <2>2, <2>3
<1> QED
  BY <1>1, Invariance, PTL

\* The assertion of progress_rdma_write_ops never fails, and the context at the
\* head of the queue does have more operations to post.
THEOREM QueueHasMoreToPostHolds == Spec => []QueueHasMoreToPost
<1>1. IInv => QueueHasMoreToPost
  <2> SUFFICES ASSUME IInv PROVE QueueHasMoreToPost
    OBVIOUS
  <2>1. ASSUME NEW w \in Writes, Queued(w)
        PROVE  /\ w \in in_queue /\ cnt_finished_ops[w] <= cnt_posted_ops[w]
               /\ cnt_posted_ops[w] < total_ops[w]
    <3>1. TypeOK /\ Balanced(w) /\ Allocated(w)
      BY DEF IInv, WriteInv
    <3>2. cnt_finished_ops[w] <= cnt_posted_ops[w]
      BY <3>1, CountsOfWrite DEF Balanced
    <3> QED
      BY <2>1, <3>1, <3>2 DEF Allocated
  <2> QED
    BY <2>1 DEF QueueHasMoreToPost, IInv, Distinct
<1> QED
  BY <1>1, Invariance, PTL

\* "Return error to the caller only once": a write is reported at most once as
\* an error and at most once as a transfer, in this order.
THEOREM ReportedOnceHolds == Spec => []ReportedOnce
<1>1. IInv => ReportedOnce
  BY Zenon DEF IInv, WriteInv, Reported, ReportedOnce
<1> QED
  BY <1>1, Invariance, PTL

\* A write reported as a transfer has no operation left anywhere.
THEOREM TransferMeansFinishedHolds == Spec => []TransferMeansFinished
<1>1. IInv => TransferMeansFinished
  <2> SUFFICES ASSUME IInv, NEW w \in Writes,
                      NEW i \in 1..Len(completions[w]), completions[w][i] = "Transfer"
               PROVE  /\ cnt_finished_ops[w] = total_ops[w]
                      /\ flight[w] = 0 /\ good[w] + failed[w] = 0
    BY Zenon DEF TransferMeansFinished
  <2>1. TypeOK /\ Balanced(w) /\ Reported(w)
    BY DEF IInv, WriteInv
  <2>2. completions[w] # <<>> /\ completions[w] # <<"Error">>
    OBVIOUS
  <2>3. cnt_finished_ops[w] = total_ops[w]
    BY <2>1, <2>2 DEF Reported
  <2>4. /\ cnt_finished_ops[w] \in Nat /\ flight[w] \in Nat /\ good[w] \in Nat
        /\ failed[w] \in Nat
    BY <2>1, CountsOfWrite, Zenon
  <2>5. cnt_finished_ops[w] + flight[w] + good[w] + failed[w] <= cnt_finished_ops[w]
    BY <2>1, <2>3, Zenon DEF Balanced
  <2>6. flight[w] = 0 /\ good[w] + failed[w] = 0
    BY <2>4, <2>5
  <2> QED
    BY <2>3, <2>6, Zenon
<1> QED
  BY <1>1, Invariance, PTL

\* No operation of a write is posted once one of its completions failed.
THEOREM NoPostAfterErrorHolds == Spec => NoPostAfterError
<1>1. IInv /\ [Next]_vars => [\A w \in bad : cnt_posted_ops'[w] = cnt_posted_ops[w]]_vars
  <2> SUFFICES ASSUME IInv, Next, NEW v \in bad
               PROVE  cnt_posted_ops'[v] = cnt_posted_ops[v]
    OBVIOUS
  <2>1. v \in Writes /\ alloc[v] # "none" /\ cnt_posted_ops \in [Writes -> Count]
    BY DEF IInv, TypeOK, WriteInv, Allocated
  <2>2. ASSUME NEW w \in Writes, NEW n \in 1..MaxOps, SubmitWrite(w, n)
        PROVE  cnt_posted_ops'[v] = cnt_posted_ops[v]
    BY <2>1, <2>2 DEF SubmitWrite
  <2>3. CASE PostQueued
    <3>1. PICK w : w = Head(write_ops)
      OBVIOUS
    <3>2. v # w /\ \E k : cnt_posted_ops' = [cnt_posted_ops EXCEPT ![w] = @ + k]
      BY <2>3, <3>1, Zenon DEF PostQueued
    <3> QED
      BY <2>1, <3>2
  <2>4. CASE \/ NoCommand \/ UnqueueBad \/ ProgressDone \/ PollDone \/ Nic
             \/ \E w \in Writes : HandleWriteCqe(w) \/ HandleWriteError(w)
    BY <2>4, Zenon DEF NoCommand, UnqueueBad, ProgressDone, PollDone, Nic, NicComplete,
                HandleWriteCqe, HandleWriteError
  <2> QED
    BY <2>2, <2>3, <2>4 DEF Next, Worker
<1> QED
  BY <1>1, Invariance, PTL DEF Spec, NoPostAfterError

----------------------------------------------------------------------------
(* Refinement.                                                              *)

\* A write whose allocation and reports do not change is reported as before.
LEMMA ReportOfStays ==
    ASSUME NEW v, alloc'[v] = "none" <=> alloc[v] = "none",
           completions'[v] = completions[v]
    PROVE  ReportOf(v)' = ReportOf(v)
BY DEF ReportOf

\* Submitting a write accepts it.
LEMMA SubmitAccepts ==
    ASSUME IInv, NEW w \in Writes, NEW n \in 1..MaxOps, SubmitWrite(w, n)
    PROVE  /\ ReportOf(w) = "idle" /\ ReportOf(w)' = "active"
           /\ \A v \in Writes : v # w => ReportOf(v)' = ReportOf(v)
<1>1. /\ alloc[w] = "none" /\ alloc' = [alloc EXCEPT ![w] = "live"]
      /\ completions' = completions /\ completions[w] = <<>>
      /\ alloc \in [Writes -> {"none", "live", "freed"}]
  BY Zenon DEF SubmitWrite, IInv, TypeOK, WriteInv, Allocated
<1>2. alloc'[w] = "live" /\ \A v \in Writes : v # w => alloc'[v] = alloc[v]
  BY <1>1, Zenon
<1> QED
  BY <1>1, <1>2, ReportOfStays, Zenon DEF ReportOf

\* A completion leaves the reports of the other writes alone, and its own write
\* moves as WriteReporting allows, if at all.
LEMMA CompletionResolves ==
    ASSUME IInv, IInv', NEW w \in Writes, HandleWriteCqe(w) \/ HandleWriteError(w)
    PROVE  /\ \A v \in Writes : v # w => ReportOf(v)' = ReportOf(v)
           /\ \/ ReportOf(w)' = ReportOf(w)
              \/ ReportOf(w) = "active" /\ ReportOf(w)' \in {"done", "failed"}
              \/ ReportOf(w) = "failed" /\ ReportOf(w)' = "failed_done"
<1>1. TypeOK /\ Balanced(w) /\ Allocated(w) /\ Reported(w) /\ Reported(w)'
  BY DEF IInv, WriteInv
<1>2. good[w] > 0 \/ failed[w] > 0
  BY Zenon DEF HandleWriteCqe, HandleWriteError
<1>3. alloc[w] = "live" /\ cnt_finished_ops[w] # total_ops[w]
  BY <1>1, <1>2, Unfinished, Zenon
<1>4. \/ completions[w] = <<>> \/ completions[w] = <<"Error">>
  BY <1>1, <1>3, Zenon DEF Reported
<1>5. alloc'[w] # "none" /\ \A v \in Writes : v # w => alloc'[v] = alloc[v]
  <2>1. \/ alloc' = alloc
        \/ alloc' = [alloc EXCEPT ![w] =
              IF cnt_finished_ops[w] + 1 = cnt_posted_ops[w] /\ w \notin in_queue
              THEN "freed" ELSE @]
    BY Zenon DEF HandleWriteCqe, HandleWriteError, MaybeDrop
  <2> QED
    BY <1>1, <1>3, <2>1 DEF TypeOK
<1>6. /\ completions' = completions \/ \E r \in Reports :
            /\ completions' = [completions EXCEPT ![w] = Append(@, r)]
            /\ completions[w] = <<"Error">> => r = "Transfer"
  <2>1. CASE HandleWriteCqe(w)
    BY <2>1, Zenon DEF HandleWriteCqe, Reports
  <2>2. CASE HandleWriteError(w)
    <3>1. completions[w] = <<"Error">> => w \in bad
      BY <1>1, <1>3 DEF Reported
    <3> QED
      BY <2>2, <3>1, Zenon DEF HandleWriteError, Reports
  <2> QED
    BY <2>1, <2>2
<1>7. \A v \in Writes : v # w => completions'[v] = completions[v]
  BY <1>1, <1>6 DEF TypeOK
<1>8. \/ completions'[w] = completions[w]
      \/ completions[w] = <<>> /\ completions'[w] \in {<<"Transfer">>, <<"Error">>}
      \/ completions[w] = <<"Error">> /\ completions'[w] = <<"Error", "Transfer">>
  BY <1>1, <1>4, <1>6, AppendReport, Zenon DEF TypeOK, Reports
<1>9. \A v \in Writes : v # w => ReportOf(v)' = ReportOf(v)
  BY <1>5, <1>7, ReportOfStays, Zenon
<1>10. CASE completions'[w] = completions[w]
  BY <1>3, <1>5, <1>9, <1>10, ReportOfStays, Zenon
<1>11. CASE completions[w] = <<>> /\ completions'[w] \in {<<"Transfer">>, <<"Error">>}
  BY <1>3, <1>5, <1>9, <1>11, Zenon DEF ReportOf
<1>12. CASE completions[w] = <<"Error">> /\ completions'[w] = <<"Error", "Transfer">>
  <2>1. /\ <<"Error">> # <<>> /\ <<"Error">> # <<"Transfer">>
        /\ <<"Error", "Transfer">> # <<>> /\ <<"Error", "Transfer">> # <<"Error">>
        /\ <<"Error", "Transfer">> # <<"Transfer">>
    OBVIOUS
  <2>2. ReportOf(w) = "failed"
    BY <1>3, <1>12, <2>1, Zenon DEF ReportOf
  <2>3. ReportOf(w)' = "failed_done"
    BY <1>5, <1>12, <2>1, Zenon DEF ReportOf
  <2> QED
    BY <1>9, <2>2, <2>3, Zenon
<1> QED
  BY <1>8, <1>10, <1>11, <1>12, Zenon

\* Any other step leaves all reports as they are.
LEMMA OthersSilent ==
    ASSUME IInv,
           \/ NoCommand \/ UnqueueBad \/ PostQueued \/ ProgressDone \/ PollDone \/ Nic
           \/ UNCHANGED vars
    PROVE  \A v \in Writes : ReportOf(v)' = ReportOf(v)
<1>1. completions' = completions
  BY Zenon DEF NoCommand, UnqueueBad, PostQueued, ProgressDone, PollDone, Nic, NicComplete, vars
<1>2. CASE UnqueueBad
  <2>1. PICK w : w = Head(write_ops)
    OBVIOUS
  <2>2. /\ write_ops \in Seq(Writes) /\ write_ops # <<>>
        /\ alloc \in [Writes -> {"none", "live", "freed"}]
    BY <1>2, Zenon DEF UnqueueBad, IInv, TypeOK
  <2>3. w \in Writes /\ alloc[w] = "live"
    BY <2>1, <2>2, TailMembers, Zenon DEF Queued, IInv, WriteInv, Allocated
  <2>4. alloc' = [alloc EXCEPT ![w] =
            IF cnt_finished_ops[w] = cnt_posted_ops[w] /\ w \notin in_queue \ {w}
            THEN "freed" ELSE @]
    BY <1>2, <2>1, Zenon DEF UnqueueBad, MaybeDrop
  <2>5. \A v \in Writes : alloc'[v] = "none" <=> alloc[v] = "none"
    BY <2>2, <2>3, <2>4, Zenon
  <2> QED
    BY <1>1, <2>5, ReportOfStays, Zenon
<1>3. CASE \/ NoCommand \/ PostQueued \/ ProgressDone \/ PollDone \/ Nic \/ UNCHANGED vars
  <2>1. alloc' = alloc
    BY <1>3, Zenon DEF NoCommand, PostQueued, ProgressDone, PollDone, Nic, NicComplete, vars
  <2> QED
    BY <1>1, <2>1, ReportOfStays
<1> QED
  BY <1>2, <1>3

\* The EFA domain implements WriteReporting, as far as safety goes: the reports
\* of a write only ever move from accepted to one outcome, and from an error to
\* a late transfer.
THEOREM ReportingRefined == Spec => Abstract!Safety
<1> DEFINE report == [w \in Writes |-> ReportOf(w)]
<1>1. Init => Abstract!Init
  <2> SUFFICES ASSUME Init PROVE report = [w \in Writes |-> "idle"]
    BY DEF Abstract!Init
  <2>1. ASSUME NEW w \in Writes PROVE ReportOf(w) = "idle"
    BY <2>1 DEF Init, ReportOf
  <2> QED
    BY <2>1
<1>2. ASSUME IInv, IInv', [Next]_vars
      PROVE  [Abstract!Next]_report
  <2>1. ASSUME NEW w \in Writes, NEW b,
               ReportOf(w)' = b, \A v \in Writes : v # w => ReportOf(v)' = ReportOf(v)
        PROVE  report' = [report EXCEPT ![w] = b]
    BY <2>1, Zenon
  <2>2. ASSUME \A v \in Writes : ReportOf(v)' = ReportOf(v)
        PROVE  report' = report
    BY <2>2
  <2>3. ASSUME NEW w \in Writes, NEW n \in 1..MaxOps, SubmitWrite(w, n)
        PROVE  Abstract!Next
    <3>1. /\ ReportOf(w) = "idle" /\ ReportOf(w)' = "active"
          /\ \A v \in Writes : v # w => ReportOf(v)' = ReportOf(v)
      BY <1>2, <2>3, SubmitAccepts
    <3>2. report[w] = "idle" /\ report' = [report EXCEPT ![w] = "active"]
      BY <2>1, <3>1, Zenon
    <3> QED
      BY <3>2, Zenon DEF Abstract!Next, Abstract!Accept, Abstract!Moves
  <2>4. ASSUME NEW w \in Writes, HandleWriteCqe(w) \/ HandleWriteError(w)
        PROVE  [Abstract!Next]_report
    <3>1. /\ \A v \in Writes : v # w => ReportOf(v)' = ReportOf(v)
          /\ \/ ReportOf(w)' = ReportOf(w)
             \/ ReportOf(w) = "active" /\ ReportOf(w)' \in {"done", "failed"}
             \/ ReportOf(w) = "failed" /\ ReportOf(w)' = "failed_done"
      BY <1>2, <2>4, CompletionResolves
    <3>2. report[w] = ReportOf(w) /\ report' = [report EXCEPT ![w] = ReportOf(w)']
      BY <2>1, <3>1
    <3>3. CASE ReportOf(w)' = ReportOf(w)
      BY <2>2, <3>1, <3>3
    <3>4. CASE ReportOf(w) = "active" /\ ReportOf(w)' \in {"done", "failed"}
      BY <3>2, <3>4, Zenon DEF Abstract!Next, Abstract!Resolve, Abstract!Moves
    <3>5. CASE ReportOf(w) = "failed" /\ ReportOf(w)' = "failed_done"
      BY <3>2, <3>5, Zenon DEF Abstract!Next, Abstract!LateTransfer, Abstract!Moves
    <3> QED
      BY <3>1, <3>3, <3>4, <3>5
  <2>5. CASE \/ NoCommand \/ UnqueueBad \/ PostQueued \/ ProgressDone \/ PollDone \/ Nic
             \/ UNCHANGED vars
    BY <1>2, <2>2, <2>5, OthersSilent
  <2> QED
    BY <1>2, <2>3, <2>4, <2>5 DEF Next, Worker
<1> QED
  BY <1>1, <1>2, Invariance, PTL DEF Spec, Abstract!Safety
============================================================================
