-------------------------- MODULE AllToAllInvariant --------------------------
(***************************************************************************)
(* The inductive invariant of the all-to-all, for any number of ranks,     *)
(* nodes, NICs and rounds, and what a step of a host worker or of a kernel *)
(* stream does to the part of it that is about one rank at a time.         *)
(*                                                                         *)
(* The argument is about how often each rank has done what.  The steps of  *)
(* a host worker and of a kernel stream are numbered, and HostDone(r, i)   *)
(* and GpuDone(r, i) count the rounds in which rank r has done step i.  A   *)
(* flag or a barrier is then an inequality between two of these counts.     *)
(***************************************************************************)
EXTENDS AllToAll, TLAPS

HostNames ==
    {"route", "send", "route_count", "dispatch", "dispatch_wait", "dispatch_recv",
     "dispatch_barrier", "dispatch_tx", "combine_send", "combine_count", "combine_recv",
     "combine_barrier", "combine_tx", "exited"}

GpuNames ==
    {"dispatch_send", "dispatch_copy", "dispatch_recv", "dispatch_read", "combine_send",
     "combine_end", "combine_recv", "finished"}

HostNo(h) ==
    CASE h = "route" -> 1 [] h = "exited" -> 1
      [] h = "send" -> 2 [] h = "route_count" -> 3
      [] h = "dispatch" -> 4 [] h = "dispatch_wait" -> 5
      [] h = "dispatch_recv" -> 6 [] h = "dispatch_barrier" -> 7
      [] h = "dispatch_tx" -> 8 [] h = "combine_send" -> 9
      [] h = "combine_count" -> 10 [] h = "combine_recv" -> 11
      [] h = "combine_barrier" -> 12 [] h = "combine_tx" -> 13

GpuNo(g) ==
    CASE g = "dispatch_send" -> 1 [] g = "finished" -> 1
      [] g = "dispatch_copy" -> 2 [] g = "dispatch_recv" -> 3
      [] g = "dispatch_read" -> 4 [] g = "combine_send" -> 5
      [] g = "combine_end" -> 6 [] g = "combine_recv" -> 7

\* The rounds in which step number i is done, at step number n of round k.
Done(n, k, i) == IF n <= i THEN k - 1 ELSE k

HostDone(r, i) == Done(HostNo(host[r]), round[r], i)

GpuDone(r, i)  == Done(GpuNo(gpu[r]), gpu_round[r], i)

\* Rounds in which p has submitted its writes of a kind.
SentBy(kind) ==
    CASE kind = "route" -> 1 [] kind = "private" -> 2 [] kind = "overflow" -> 4
      [] kind = "dispatch_barrier" -> 6 [] kind = "combine" -> 9
      [] kind = "combine_barrier" -> 11

Sent(p, kind) == HostDone(p, SentBy(kind))

\* Rounds whose writes of a kind r has taken notice of.
Taken(r, kind) ==
    CASE kind = "route" -> HostDone(r, 3)
      [] kind = "dispatch_barrier" -> HostDone(r, 7)
      [] kind = "combine" -> HostDone(r, 10)
      [] kind = "combine_barrier" -> HostDone(r, 12)
      [] kind \in {"private", "overflow"} -> GpuDone(r, 4)

\* Rounds whose payloads of a kind the kernels of r have read.
Read(r, kind) == IF kind = "combine" THEN GpuDone(r, 7) ELSE GpuDone(r, 4)

Remote(r) == RemoteRanks(Shape, r)

Signals   == {"route", "dispatch_barrier", "combine_barrier"}

----------------------------------------------------------------------------
(* The invariant.                                                           *)

Types ==
    /\ node_size \in NodeSizes
    /\ host \in [Rank -> HostNames]
    /\ round \in [Rank -> 1..(MaxRounds + 1)]
    /\ gpu \in [Rank -> GpuNames]
    /\ gpu_round \in [Rank -> 1..(MaxRounds + 1)]
    /\ \A r \in Rank : gpu[r] = "finished" <=> gpu_round[r] = MaxRounds + 1
    /\ flags \in [Rank -> SUBSET Flags]
    /\ counter \in [Rank -> [Counters -> Int]]
    /\ num_routed \in [Rank -> [Rank -> SUBSET Rank]]
    /\ send_buffer \in [Rank -> {"dispatch", "combine", "none"} \X (0..MaxRounds)]
    /\ landed \in [Rank -> SUBSET Writes]
    /\ wire \in SUBSET Writes
    /\ open \in [Rank -> Nat]
    /\ stopped \in SUBSET Rank

\* Host worker and kernels of one rank wait for each other.
InStep(r) ==
    /\ HostDone(r, 1) <= GpuDone(r, 1) /\ HostDone(r, 2) <= GpuDone(r, 2)
    /\ GpuDone(r, 2) <= round[r]
    /\ GpuDone(r, 3) <= HostDone(r, 4) /\ GpuDone(r, 4) <= HostDone(r, 5)
    /\ HostDone(r, 6) <= GpuDone(r, 4)
    /\ GpuDone(r, 5) <= HostDone(r, 8) /\ HostDone(r, 9) <= GpuDone(r, 5)
    /\ GpuDone(r, 7) <= HostDone(r, 10) /\ HostDone(r, 11) <= GpuDone(r, 7)
    /\ r \in stopped => gpu[r] = "finished"

\* What a flag says.  (Stop raises the flags a worker may wait for.)
FlagsSay(r) ==
    /\ "dispatch_route_done" \in flags[r] => r \in stopped \/ HostDone(r, 1) < GpuDone(r, 1)
    /\ "dispatch_send_done" \in flags[r] => r \in stopped \/ HostDone(r, 2) < GpuDone(r, 2)
    /\ "num_recv_tokens_flag" \in flags[r] => GpuDone(r, 4) < HostDone(r, 4)
    /\ "dispatch_recv_flag" \in flags[r] => GpuDone(r, 4) < HostDone(r, 5)
    /\ "dispatch_recv_done" \in flags[r] => r \in stopped \/ HostDone(r, 6) < GpuDone(r, 4)
    /\ "tx_ready" \in flags[r] =>
            HostDone(r, 2) < round[r] \/ GpuDone(r, 6) < HostDone(r, 8)
    /\ "combine_send_done" \in flags[r] => r \in stopped \/ HostDone(r, 9) < GpuDone(r, 5)
    /\ "combine_recv_flag" \in flags[r] => GpuDone(r, 7) < HostDone(r, 10)
    /\ "combine_recv_done" \in flags[r] => r \in stopped \/ HostDone(r, 11) < GpuDone(r, 7)

\* What the send buffer holds, after the copies and the combines of so many rounds.
Holds(copies, combines) ==
    IF copies = 0 THEN <<"none", 0>>
    ELSE IF copies > combines THEN <<"dispatch", copies>> ELSE <<"combine", combines>>

BufferHolds(r) == send_buffer[r] = Holds(GpuDone(r, 2), GpuDone(r, 5))

\* Rank r does not take what p has not sent.
Waited(p, r) ==
    /\ p # r => \A c \in Signals : Taken(r, c) <= Sent(p, c)
    /\ p \in Remote(r) =>
        /\ Taken(r, "combine") <= Sent(p, "combine")
        /\ Taken(r, "private") <= Sent(p, "private")
        /\ r \in num_routed[p][p] /\ GpuDone(p, 1) <= Taken(r, "overflow")
             => GpuDone(p, 1) <= Sent(p, "overflow")

\* A write under way is the latest of its kind, and its target waits for it.
OnWire(m) ==
    /\ m.kind \in Payloads => m.from \in Remote(m.to)
    /\ m.kind \in Signals => m.from # m.to
    /\ m.kind \in Signals \cup {"private"} => m.shard = 1
    /\ m.kind = "overflow" => m.to \in num_routed[m.from][m.from]
    /\ m.round = Sent(m.from, m.kind)
    /\ Taken(m.to, m.kind) < m.round

\* A payload that has landed is the latest of its kind, and not yet read.
IsLanded(r, m) ==
    /\ m.kind \in Payloads /\ m.to = r /\ m.from \in Remote(r) /\ m \notin wire
    /\ m.kind = "private" => m.shard = 1
    /\ m.kind = "overflow" => r \in num_routed[m.from][m.from]
    /\ m.round = Sent(m.from, m.kind)
    /\ Read(r, m.kind) < m.round

\* The peers whose signal has arrived and was not taken.
Heard(r, c) ==
    {p \in Others(r) : /\ Sent(p, c) > Taken(r, c)
                       /\ \A m \in wire : ~(m.kind = c /\ m.from = p /\ m.to = r)}

Tokens(r)   == {m \in landed[r] : m.kind # "combine"}

Combined(r) == {m \in landed[r] : m.kind = "combine"}

\* What the counters count.
CountersCount(r) ==
    /\ \A c \in Signals : counter[r][c] = Cardinality(Heard(r, c))
    /\ counter[r]["dispatch"] = Cardinality(Tokens(r))
         - (IF GpuDone(r, 4) < HostDone(r, 5)
            THEN Cardinality(DispatchOwed(r, HostDone(r, 5))) ELSE 0)
    /\ counter[r]["combine"] =
         IF GpuDone(r, 7) < HostDone(r, 10) THEN 0 ELSE Cardinality(Combined(r))

\* What has landed when a kernel is released.
Complete(r) ==
    /\ "dispatch_recv_flag" \in flags[r] => Tokens(r) = DispatchOwed(r, HostDone(r, 5))
    /\ GpuDone(r, 7) < HostDone(r, 10) => Combined(r) = CombineOwed(r, HostDone(r, 10))

\* A routing table that has arrived is that of its sender.
TableCopied(p, r) ==
    /\ p \in Heard(r, "route") => num_routed[r][p] = num_routed[p][p]
    /\ p # r /\ HostDone(r, 5) < HostDone(r, 3)
         => num_routed[r][p] = num_routed[p][p]

Ranked == \A r \in Rank : InStep(r) /\ FlagsSay(r) /\ BufferHolds(r)

Paired == \A p, r \in Rank : Waited(p, r) /\ TableCopied(p, r)

Posted == \A m \in wire : OnWire(m)

Landed == \A r \in Rank : \A m \in landed[r] : IsLanded(r, m)

Counted == \A r \in Rank : CountersCount(r) /\ Complete(r)

Linked == Paired /\ Posted /\ Landed /\ Counted

\* The inductive invariant.
Inv == Types /\ Ranked /\ Linked

\* No kernel is told that its tokens are in.
NoneReleased ==
    \A q \in Rank : "dispatch_recv_flag" \in flags'[q] => "dispatch_recv_flag" \in flags[q]

----------------------------------------------------------------------------
(* Steps and rounds.                                                        *)

\* The names of the steps.
LEMMA StepNames ==
    /\ HostNames = {HostSteps[i] : i \in 1..Len(HostSteps)}
    /\ GpuNames = {GpuSteps[i] : i \in 1..Len(GpuSteps)}
  <1>1. Len(HostSteps) = 14 /\ Len(GpuSteps) = 8
    BY DEF HostSteps, GpuSteps
  <1>2. {HostSteps[i] : i \in 1..14} \subseteq HostNames
    BY DEF HostSteps, HostNames
  <1>3. HostNames \subseteq {HostSteps[i] : i \in 1..14}
    <2>1. /\ HostSteps[1] = "route" /\ HostSteps[2] = "send"
          /\ HostSteps[3] = "route_count" /\ HostSteps[4] = "dispatch"
          /\ HostSteps[5] = "dispatch_wait" /\ HostSteps[6] = "dispatch_recv"
          /\ HostSteps[7] = "dispatch_barrier" /\ HostSteps[8] = "dispatch_tx"
          /\ HostSteps[9] = "combine_send" /\ HostSteps[10] = "combine_count"
          /\ HostSteps[11] = "combine_recv" /\ HostSteps[12] = "combine_barrier"
          /\ HostSteps[13] = "combine_tx" /\ HostSteps[14] = "exited"
      BY DEF HostSteps
    <2>2. QED
      BY <2>1 DEF HostNames
  <1>4. {GpuSteps[i] : i \in 1..8} = GpuNames
    BY DEF GpuSteps, GpuNames
  <1>5. QED
    BY <1>1, <1>2, <1>3, <1>4, Zenon

\* The numbers of the steps.
LEMMA HostNumbers ==
    /\ HostNo("route") = 1 /\ HostNo("exited") = 1 /\ HostNo("send") = 2
    /\ HostNo("route_count") = 3 /\ HostNo("dispatch") = 4 /\ HostNo("dispatch_wait") = 5
    /\ HostNo("dispatch_recv") = 6 /\ HostNo("dispatch_barrier") = 7
    /\ HostNo("dispatch_tx") = 8 /\ HostNo("combine_send") = 9
    /\ HostNo("combine_count") = 10 /\ HostNo("combine_recv") = 11
    /\ HostNo("combine_barrier") = 12 /\ HostNo("combine_tx") = 13
  BY DEF HostNo

\* The numbers of the kernel steps.
LEMMA GpuNumbers ==
    /\ GpuNo("dispatch_send") = 1 /\ GpuNo("finished") = 1 /\ GpuNo("dispatch_copy") = 2
    /\ GpuNo("dispatch_recv") = 3 /\ GpuNo("dispatch_read") = 4
    /\ GpuNo("combine_send") = 5 /\ GpuNo("combine_end") = 6 /\ GpuNo("combine_recv") = 7
  BY DEF GpuNo

\* Every step has a number.
LEMMA NumbersType ==
    /\ \A h \in HostNames : HostNo(h) \in 1..13
    /\ \A g \in GpuNames : GpuNo(g) \in 1..7
  BY HostNumbers, GpuNumbers DEF HostNames, GpuNames

\* Within a round the steps of the host worker are done in order.
LEMMA HostOrder ==
    ASSUME Types, NEW r \in Rank
    PROVE  /\ HostDone(r, 13) + 1 = round[r] /\ HostDone(r, 13) \in Nat
           /\ \A i, j \in 1..13 : i <= j =>
                /\ HostDone(r, i) \in Nat
                /\ HostDone(r, j) <= HostDone(r, i) /\ HostDone(r, i) <= HostDone(r, j) + 1
           /\ \A i \in 1..13 : HostDone(r, i) <= round[r]
  <1>1. HostNo(host[r]) \in 1..13 /\ round[r] \in Nat \ {0}
    BY NumbersType, AllToAllAssumption DEF Types
  <1>2. HostDone(r, 13) + 1 = round[r] /\ HostDone(r, 13) \in Nat
    BY <1>1 DEF HostDone, Done
  <1>3. ASSUME NEW i \in 1..13
        PROVE  HostDone(r, i) \in Nat /\ HostDone(r, i) <= round[r]
    BY <1>1 DEF HostDone, Done
  <1>4. ASSUME NEW i \in 1..13, NEW j \in 1..13, i <= j
        PROVE  HostDone(r, j) <= HostDone(r, i) /\ HostDone(r, i) <= HostDone(r, j) + 1
    BY <1>1, <1>4 DEF HostDone, Done
  <1>5. QED
    BY <1>2, <1>3, <1>4, Zenon

\* And those of the kernels.
LEMMA GpuOrder ==
    ASSUME Types, NEW r \in Rank
    PROVE  /\ GpuDone(r, 7) + 1 = gpu_round[r] /\ GpuDone(r, 7) \in Nat
           /\ \A i, j \in 1..7 : i <= j =>
                /\ GpuDone(r, i) \in Nat
                /\ GpuDone(r, j) <= GpuDone(r, i) /\ GpuDone(r, i) <= GpuDone(r, j) + 1
           /\ \A i \in 1..7 : GpuDone(r, i) <= MaxRounds
           /\ gpu[r] = "finished" => GpuDone(r, 7) = MaxRounds
  <1>1. GpuNo(gpu[r]) \in 1..7 /\ gpu_round[r] \in Nat \ {0}
    BY NumbersType, AllToAllAssumption DEF Types
  <1>2. gpu_round[r] <= MaxRounds \/ (gpu_round[r] = MaxRounds + 1 /\ GpuNo(gpu[r]) = 1)
    BY GpuNumbers, AllToAllAssumption DEF Types
  <1>3. \A i \in 1..7 : GpuDone(r, i) <= MaxRounds
    BY <1>1, <1>2, AllToAllAssumption DEF GpuDone, Done
  <1>4. gpu[r] = "finished" => GpuDone(r, 7) = MaxRounds
    BY GpuNumbers, AllToAllAssumption DEF GpuDone, Done, Types
  <1>5. QED
    BY <1>1, <1>3, <1>4 DEF GpuDone, Done

\* A step n of the host worker of rank r, as seen in the counts.
HostStep(r, n) ==
    \A q \in Rank, i \in 1..13 :
        HostDone(q, i)' = IF q = r /\ i = n THEN HostDone(q, i) + 1 ELSE HostDone(q, i)

GpuStep(r, n) ==
    \A q \in Rank, i \in 1..7 :
        GpuDone(q, i)' = IF q = r /\ i = n THEN GpuDone(q, i) + 1 ELSE GpuDone(q, i)

HostStays == \A q \in Rank, i \in 1..13 : HostDone(q, i)' = HostDone(q, i)

GpuStays  == \A q \in Rank, i \in 1..7 : GpuDone(q, i)' = GpuDone(q, i)

\* The counts behind Sent and Taken.
LEMMA SentIs ==
    ASSUME NEW p
    PROVE  /\ Sent(p, "route") = HostDone(p, 1) /\ Sent(p, "private") = HostDone(p, 2)
           /\ Sent(p, "overflow") = HostDone(p, 4)
           /\ Sent(p, "dispatch_barrier") = HostDone(p, 6)
           /\ Sent(p, "combine") = HostDone(p, 9)
           /\ Sent(p, "combine_barrier") = HostDone(p, 11)
           /\ Taken(p, "route") = HostDone(p, 3) /\ Taken(p, "private") = GpuDone(p, 4)
           /\ Taken(p, "overflow") = GpuDone(p, 4)
           /\ Taken(p, "dispatch_barrier") = HostDone(p, 7)
           /\ Taken(p, "combine") = HostDone(p, 10)
           /\ Taken(p, "combine_barrier") = HostDone(p, 12)
  BY DEF Sent, SentBy, Taken

\* The same after a step.
LEMMA SentIsPrimed ==
    ASSUME NEW p
    PROVE  /\ Sent(p, "route")' = HostDone(p, 1)' /\ Sent(p, "private")' = HostDone(p, 2)'
           /\ Sent(p, "overflow")' = HostDone(p, 4)'
           /\ Sent(p, "dispatch_barrier")' = HostDone(p, 6)'
           /\ Sent(p, "combine")' = HostDone(p, 9)'
           /\ Sent(p, "combine_barrier")' = HostDone(p, 11)'
           /\ Taken(p, "route")' = HostDone(p, 3)' /\ Taken(p, "private")' = GpuDone(p, 4)'
           /\ Taken(p, "overflow")' = GpuDone(p, 4)'
           /\ Taken(p, "dispatch_barrier")' = HostDone(p, 7)'
           /\ Taken(p, "combine")' = HostDone(p, 10)'
           /\ Taken(p, "combine_barrier")' = HostDone(p, 12)'
  BY DEF Sent, SentBy, Taken

CountsType(r) ==
    /\ HostDone(r, 1) \in Nat /\ HostDone(r, 2) \in Nat /\ HostDone(r, 3) \in Nat
    /\ HostDone(r, 4) \in Nat /\ HostDone(r, 5) \in Nat /\ HostDone(r, 6) \in Nat
    /\ HostDone(r, 7) \in Nat /\ HostDone(r, 8) \in Nat /\ HostDone(r, 9) \in Nat
    /\ HostDone(r, 10) \in Nat /\ HostDone(r, 11) \in Nat /\ HostDone(r, 12) \in Nat
    /\ GpuDone(r, 1) \in Nat /\ GpuDone(r, 2) \in Nat /\ GpuDone(r, 3) \in Nat
    /\ GpuDone(r, 4) \in Nat /\ GpuDone(r, 5) \in Nat /\ GpuDone(r, 6) \in Nat
    /\ HostDone(r, 13) \in Nat /\ GpuDone(r, 7) \in Nat /\ round[r] \in Nat

\* All that is known of the counts of one rank.
Counts(r) ==
    /\ HostDone(r, 13) \in Nat /\ HostDone(r, 13) + 1 = round[r]
    /\ HostDone(r, 13) <= HostDone(r, 12) /\ HostDone(r, 12) <= HostDone(r, 11)
    /\ HostDone(r, 11) <= HostDone(r, 10) /\ HostDone(r, 10) <= HostDone(r, 9)
    /\ HostDone(r, 9) <= HostDone(r, 8) /\ HostDone(r, 8) <= HostDone(r, 7)
    /\ HostDone(r, 7) <= HostDone(r, 6) /\ HostDone(r, 6) <= HostDone(r, 5)
    /\ HostDone(r, 5) <= HostDone(r, 4) /\ HostDone(r, 4) <= HostDone(r, 3)
    /\ HostDone(r, 3) <= HostDone(r, 2) /\ HostDone(r, 2) <= HostDone(r, 1)
    /\ HostDone(r, 1) <= HostDone(r, 13) + 1
    /\ GpuDone(r, 7) \in Nat /\ GpuDone(r, 7) + 1 = gpu_round[r]
    /\ GpuDone(r, 7) <= GpuDone(r, 6) /\ GpuDone(r, 6) <= GpuDone(r, 5)
    /\ GpuDone(r, 5) <= GpuDone(r, 4) /\ GpuDone(r, 4) <= GpuDone(r, 3)
    /\ GpuDone(r, 3) <= GpuDone(r, 2) /\ GpuDone(r, 2) <= GpuDone(r, 1)
    /\ GpuDone(r, 1) <= GpuDone(r, 7) + 1 /\ GpuDone(r, 1) <= MaxRounds
    /\ CountsType(r)
    /\ gpu[r] = "finished" => GpuDone(r, 7) = MaxRounds

\* Steps are done in order, by host worker and kernels.
LEMMA CountsHold ==
    ASSUME Types, NEW r \in Rank
    PROVE  Counts(r)
  <1>1. CountsType(r)
    BY HostOrder, GpuOrder, AllToAllAssumption DEF CountsType, Types
  <1>2. QED
    BY <1>1, HostOrder, GpuOrder DEF Counts

\* Where a rank is, in counts: the host worker is at step n of its round.
LEMMA HostAt ==
    ASSUME Types, NEW r \in Rank
    PROVE  /\ HostDone(r, HostNo(host[r])) + 1 = round[r]
           /\ \A i \in 1..13 : i < HostNo(host[r]) => HostDone(r, i) = round[r]
  <1>1. HostNo(host[r]) \in 1..13 /\ round[r] \in Nat \ {0}
    BY NumbersType, AllToAllAssumption DEF Types
  <1>2. QED
    BY <1>1 DEF HostDone, Done

\* And the kernels.
LEMMA GpuAt ==
    ASSUME Types, NEW r \in Rank
    PROVE  /\ GpuDone(r, GpuNo(gpu[r])) + 1 = gpu_round[r]
           /\ \A i \in 1..7 : i < GpuNo(gpu[r]) => GpuDone(r, i) = gpu_round[r]
  <1>1. GpuNo(gpu[r]) \in 1..7 /\ gpu_round[r] \in Nat \ {0}
    BY NumbersType, AllToAllAssumption DEF Types
  <1>2. QED
    BY <1>1 DEF GpuDone, Done

\* The counts of one rank, in order.
LEMMA RankOrder ==
    ASSUME Types, Ranked, NEW r \in Rank
    PROVE  /\ CountsType(r)
           /\ HostDone(r, 13) <= HostDone(r, 12) /\ HostDone(r, 12) <= HostDone(r, 11)
           /\ HostDone(r, 11) <= HostDone(r, 10) /\ HostDone(r, 11) <= HostDone(r, 7)
           /\ HostDone(r, 11) <= HostDone(r, 3) /\ HostDone(r, 10) <= HostDone(r, 7)
           /\ HostDone(r, 10) <= HostDone(r, 4) /\ HostDone(r, 10) <= HostDone(r, 1)
           /\ HostDone(r, 6) <= HostDone(r, 5) /\ HostDone(r, 5) <= HostDone(r, 3)
           /\ HostDone(r, 5) <= HostDone(r, 1) /\ HostDone(r, 4) <= HostDone(r, 1)
           /\ HostDone(r, 6) <= HostDone(r, 12) + 1 /\ HostDone(r, 5) <= HostDone(r, 6) + 1
           /\ HostDone(r, 10) <= HostDone(r, 11) + 1
           /\ GpuDone(r, 7) <= GpuDone(r, 4) /\ GpuDone(r, 1) <= GpuDone(r, 7) + 1
           /\ HostDone(r, 1) <= GpuDone(r, 1) /\ HostDone(r, 2) <= GpuDone(r, 1)
           /\ HostDone(r, 6) <= GpuDone(r, 4) /\ GpuDone(r, 4) <= HostDone(r, 5)
           /\ HostDone(r, 9) <= GpuDone(r, 4) /\ HostDone(r, 11) <= GpuDone(r, 4)
           /\ HostDone(r, 11) <= GpuDone(r, 7) /\ GpuDone(r, 7) <= HostDone(r, 10)
  <1>1. Counts(r) /\ CountsType(r) /\ InStep(r)
    BY CountsHold, Zenon DEF Ranked, Counts
  <1>2. \A i, j \in 1..13 : i <= j => /\ HostDone(r, j) <= HostDone(r, i)
                                     /\ HostDone(r, i) <= HostDone(r, j) + 1
    BY HostOrder, Zenon
  <1>3. /\ HostDone(r, 13) <= HostDone(r, 12) /\ HostDone(r, 12) <= HostDone(r, 11)
        /\ HostDone(r, 11) <= HostDone(r, 10) /\ HostDone(r, 11) <= HostDone(r, 7)
        /\ HostDone(r, 11) <= HostDone(r, 3) /\ HostDone(r, 10) <= HostDone(r, 7)
        /\ HostDone(r, 10) <= HostDone(r, 4) /\ HostDone(r, 10) <= HostDone(r, 1)
        /\ HostDone(r, 6) <= HostDone(r, 5) /\ HostDone(r, 5) <= HostDone(r, 3)
        /\ HostDone(r, 5) <= HostDone(r, 1) /\ HostDone(r, 4) <= HostDone(r, 1)
    BY <1>2
  <1>4. /\ HostDone(r, 6) <= HostDone(r, 12) + 1 /\ HostDone(r, 5) <= HostDone(r, 6) + 1
        /\ HostDone(r, 10) <= HostDone(r, 11) + 1
    BY <1>2
  <1>5. /\ GpuDone(r, 7) <= GpuDone(r, 4) /\ GpuDone(r, 5) <= GpuDone(r, 4)
        /\ GpuDone(r, 2) <= GpuDone(r, 1) /\ GpuDone(r, 1) <= GpuDone(r, 7) + 1
    <2>1. \A i, j \in 1..7 : i <= j => /\ GpuDone(r, j) <= GpuDone(r, i)
                                      /\ GpuDone(r, i) <= GpuDone(r, j) + 1
      BY GpuOrder, Zenon
    <2>2. QED
      BY <2>1
  <1>6. /\ HostDone(r, 1) <= GpuDone(r, 1) /\ HostDone(r, 2) <= GpuDone(r, 2)
        /\ HostDone(r, 6) <= GpuDone(r, 4) /\ GpuDone(r, 4) <= HostDone(r, 5)
        /\ HostDone(r, 9) <= GpuDone(r, 5) /\ HostDone(r, 11) <= GpuDone(r, 7)
        /\ GpuDone(r, 7) <= HostDone(r, 10)
    BY <1>1, Zenon DEF InStep
  <1>7. /\ HostDone(r, 2) <= GpuDone(r, 1) /\ HostDone(r, 9) <= GpuDone(r, 4)
        /\ HostDone(r, 11) <= GpuDone(r, 4)
    <2>1. /\ HostDone(r, 2) \in Nat /\ HostDone(r, 9) \in Nat /\ HostDone(r, 11) \in Nat
          /\ GpuDone(r, 1) \in Nat /\ GpuDone(r, 2) \in Nat /\ GpuDone(r, 4) \in Nat
          /\ GpuDone(r, 5) \in Nat /\ GpuDone(r, 7) \in Nat
      BY <1>1, Zenon DEF CountsType
    <2>2. QED
      BY <1>5, <1>6, <2>1
  <1>8. QED
    BY <1>1, <1>3, <1>4, <1>5, <1>6, <1>7, Zenon

----------------------------------------------------------------------------
(* Who writes to whom, with one rank per data-parallel group.               *)

\* A group of one rank has the number of that rank.
LEMMA ByOne == \A x \in Nat : x \div 1 = x /\ x % 1 = 0
  OBVIOUS

\* The shape of the deployment.
LEMMA ShapeIs ==
    /\ Shape.world = World /\ Shape.node = node_size /\ Shape.dp = 1 /\ Shape.nets = Nets
    /\ Ranks(Shape) = Rank
  BY Zenon DEF Shape, Ranks, Rank

\* Being on different nodes is symmetric.
LEMMA RemoteIs ==
    ASSUME NEW r \in Rank, NEW p \in Remote(r)
    PROVE  p \in Rank /\ p # r /\ r \in Remote(p)
  BY ShapeIs, Zenon DEF Remote, RemoteRanks

\* The groups on other nodes are the ranks on other nodes.
LEMMA GroupsAre ==
    ASSUME Types, NEW r \in Rank
    PROVE  RemoteGroups(Shape, r) = Remote(r)
  <1>1. \A p \in Rank : DpGroup(Shape, p) = p
    BY ByOne, ShapeIs DEF DpGroup, Rank
  <1>2. Groups(Shape) = Rank
    BY ByOne, ShapeIs, AllToAllAssumption DEF Groups, Rank
  <1>3. node_size \in Nat /\ node_size \div 1 = node_size
    BY ByOne, AllToAllAssumption DEF Types
  <1>4. \A g \in Rank : NodeOfGroup(Shape, g) = NodeOf(Shape, g)
    BY <1>3, ShapeIs DEF NodeOfGroup, NodeOf
  <1>5. QED
    BY <1>1, <1>2, <1>4, ShapeIs, Zenon DEF RemoteGroups, Remote, RemoteRanks

----------------------------------------------------------------------------
(* Two ranks.                                                               *)

\* How far apart the counts of two ranks can be, from the three exchanges of
\* signals in a round.
LEMMA Between ==
    ASSUME Inv, NEW p \in Rank, NEW r \in Rank, p # r
    PROVE  /\ Counts(p) /\ Counts(r) /\ InStep(p) /\ InStep(r)
           /\ HostDone(p, 3) <= HostDone(r, 1)
           /\ HostDone(p, 7) <= HostDone(r, 6)
           /\ HostDone(p, 12) <= HostDone(r, 11)
  <1> Types /\ Ranked /\ Paired
    BY DEF Inv, Linked
  <1>1. \A c \in Signals : Taken(p, c) <= Sent(r, c)
    BY Zenon DEF Paired, Waited
  <1>2. /\ Taken(p, "route") <= Sent(r, "route")
        /\ Taken(p, "dispatch_barrier") <= Sent(r, "dispatch_barrier")
        /\ Taken(p, "combine_barrier") <= Sent(r, "combine_barrier")
    BY <1>1 DEF Signals
  <1>3. QED
    BY <1>2, CountsHold, SentIs, Zenon DEF Ranked

\* The exchanges with a rank on another node.
LEMMA Apart ==
    ASSUME Inv, NEW r \in Rank, NEW p \in Remote(r)
    PROVE  /\ HostDone(r, 10) <= HostDone(p, 9) /\ GpuDone(r, 4) <= HostDone(p, 2)
           /\ r \in num_routed[p][p] /\ GpuDone(p, 1) <= GpuDone(r, 4)
                => GpuDone(p, 1) <= HostDone(p, 4)
  BY RemoteIs, SentIs DEF Inv, Linked, Paired, Waited

\* Nobody sends twice before the other took the first.
LEMMA AtMostOneAhead ==
    ASSUME Inv, NEW p \in Rank, NEW r \in Rank, p # r, NEW k \in Kinds
    PROVE  /\ Sent(p, k) \in Nat /\ Taken(r, k) \in Nat /\ Sent(p, k) <= Taken(r, k) + 1
           /\ k \in Payloads => /\ Read(r, k) \in Nat /\ Read(r, k) <= Taken(r, k)
                                /\ Sent(p, k) <= Read(r, k) + 1
  <1> Types /\ Ranked /\ Paired
    BY DEF Inv, Linked
  <1>1. /\ Counts(p) /\ Counts(r) /\ InStep(p) /\ InStep(r)
        /\ HostDone(p, 7) <= HostDone(r, 6) /\ HostDone(p, 12) <= HostDone(r, 11)
    BY Between, Zenon
  <1>2. /\ k = "route" \/ k = "private" \/ k = "overflow" \/ k = "combine"
           \/ k = "dispatch_barrier" \/ k = "combine_barrier"
    BY DEF Kinds
  <1>3. /\ CountsType(p) /\ CountsType(r)
        /\ HostDone(r, 11) <= HostDone(r, 3) /\ HostDone(r, 11) <= HostDone(r, 7)
        /\ HostDone(r, 11) <= HostDone(r, 10) /\ HostDone(r, 11) <= GpuDone(r, 4)
        /\ HostDone(r, 11) <= GpuDone(r, 7) /\ GpuDone(r, 7) <= HostDone(r, 10)
    BY RankOrder, Zenon
  <1>4. /\ HostDone(p, 1) <= HostDone(p, 12) + 1 /\ HostDone(p, 2) <= HostDone(p, 12) + 1
        /\ HostDone(p, 4) <= HostDone(p, 12) + 1 /\ HostDone(p, 6) <= HostDone(p, 12) + 1
        /\ HostDone(p, 9) <= HostDone(p, 12) + 1 /\ HostDone(p, 11) <= HostDone(p, 7)
        /\ HostDone(r, 6) <= HostDone(r, 12) + 1
    <2>1. ASSUME NEW q \in Rank, Counts(q)
          PROVE  /\ HostDone(q, 1) <= HostDone(q, 12) + 1
                 /\ HostDone(q, 2) <= HostDone(q, 1) /\ HostDone(q, 4) <= HostDone(q, 1)
                 /\ HostDone(q, 6) <= HostDone(q, 1) /\ HostDone(q, 9) <= HostDone(q, 1)
                 /\ HostDone(q, 11) <= HostDone(q, 7)
      <3>1. \A i, j \in 1..13 : i <= j => HostDone(q, j) <= HostDone(q, i)
                                        /\ HostDone(q, i) <= HostDone(q, j) + 1
        BY HostOrder, Zenon
      <3>2. QED
        BY <3>1
    <2>2. /\ HostDone(p, 1) \in Nat /\ HostDone(p, 2) \in Nat /\ HostDone(p, 4) \in Nat
          /\ HostDone(p, 6) \in Nat /\ HostDone(p, 9) \in Nat /\ HostDone(p, 12) \in Nat
          /\ HostDone(r, 1) \in Nat /\ HostDone(r, 6) \in Nat /\ HostDone(r, 12) \in Nat
      BY <1>3, Zenon DEF CountsType
    <2>3. QED
      BY <1>1, <2>1, <2>2
  <1>5. /\ HostDone(p, 11) <= HostDone(r, 12) + 1
        /\ \A i \in {1, 2, 4, 6, 9} : HostDone(p, i) <= HostDone(r, 11) + 1
    BY <1>1, <1>3, <1>4 DEF CountsType
  <1>6. Sent(p, k) \in Nat /\ Taken(r, k) \in Nat
    BY <1>2, <1>3, SentIs DEF CountsType
  <1>7. Sent(p, k) <= Taken(r, k) + 1
    BY <1>2, <1>3, <1>5, SentIs DEF CountsType
  <1>8. k \in Payloads => /\ Read(r, k) \in Nat /\ Read(r, k) <= Taken(r, k)
                          /\ Sent(p, k) <= Read(r, k) + 1
    BY <1>2, <1>3, <1>5, SentIs DEF CountsType, Read, Payloads
  <1>9. QED
    BY <1>6, <1>7, <1>8, Zenon

\* The step of the host worker that takes a kind; the kernels take dispatched tokens.
TakenBy(kind) ==
    CASE kind = "route" -> 3 [] kind = "dispatch_barrier" -> 7 [] kind = "combine" -> 10
      [] kind = "combine_barrier" -> 12 [] kind \in {"private", "overflow"} -> 0

\* What a step of a host worker sends and takes.
LEMMA HostLinks ==
    ASSUME NEW r \in Rank, NEW n \in 1..13, HostStep(r, n), GpuStays,
           NEW q \in Rank, NEW k \in Kinds
    PROVE  /\ Sent(q, k)' = IF q = r /\ n = SentBy(k) THEN Sent(q, k) + 1 ELSE Sent(q, k)
           /\ Taken(q, k)' = IF q = r /\ n = TakenBy(k) THEN Taken(q, k) + 1 ELSE Taken(q, k)
           /\ Read(q, k)' = Read(q, k)
  <1>1. \/ k = "route" \/ k = "private" \/ k = "overflow" \/ k = "combine"
        \/ k = "dispatch_barrier" \/ k = "combine_barrier"
    BY DEF Kinds
  <1>2. /\ SentBy("route") = 1 /\ SentBy("private") = 2 /\ SentBy("overflow") = 4
        /\ SentBy("dispatch_barrier") = 6 /\ SentBy("combine") = 9
        /\ SentBy("combine_barrier") = 11
        /\ TakenBy("route") = 3 /\ TakenBy("private") = 0 /\ TakenBy("overflow") = 0
        /\ TakenBy("dispatch_barrier") = 7 /\ TakenBy("combine") = 10
        /\ TakenBy("combine_barrier") = 12
    BY DEF SentBy, TakenBy
  <1>3. Read(q, k)' = Read(q, k)
    BY DEF GpuStays, Read
  <1>4. Sent(q, k)' = IF q = r /\ n = SentBy(k) THEN Sent(q, k) + 1 ELSE Sent(q, k)
    BY <1>1, <1>2, SentIs, SentIsPrimed DEF HostStep
  <1>5. Taken(q, k)' = IF q = r /\ n = TakenBy(k) THEN Taken(q, k) + 1 ELSE Taken(q, k)
    BY <1>1, <1>2, SentIs, SentIsPrimed DEF HostStep, GpuStays
  <1>6. QED
    BY <1>3, <1>4, <1>5, Zenon

\* What a kernel takes.
LEMMA GpuLinks ==
    ASSUME NEW r \in Rank, NEW n \in 1..7, GpuStep(r, n), HostStays,
           NEW q \in Rank, NEW k \in Kinds
    PROVE  /\ Sent(q, k)' = Sent(q, k)
           /\ Taken(q, k)' = IF q = r /\ n = 4 /\ k \in {"private", "overflow"}
                             THEN Taken(q, k) + 1 ELSE Taken(q, k)
           /\ Read(q, k)' = IF q = r /\ (n = IF k = "combine" THEN 7 ELSE 4)
                            THEN Read(q, k) + 1 ELSE Read(q, k)
  <1>1. \/ k = "route" \/ k = "private" \/ k = "overflow" \/ k = "combine"
        \/ k = "dispatch_barrier" \/ k = "combine_barrier"
    BY DEF Kinds
  <1>2. Sent(q, k)' = Sent(q, k)
    BY <1>1, SentIs, SentIsPrimed DEF HostStays
  <1>3. Taken(q, k)' = IF q = r /\ n = 4 /\ k \in {"private", "overflow"}
                       THEN Taken(q, k) + 1 ELSE Taken(q, k)
    BY <1>1, SentIs, SentIsPrimed DEF HostStays, GpuStep
  <1>4. Read(q, k)' = IF q = r /\ (n = IF k = "combine" THEN 7 ELSE 4)
                      THEN Read(q, k) + 1 ELSE Read(q, k)
    BY DEF Read, GpuStep
  <1>5. QED
    BY <1>2, <1>3, <1>4, Zenon

\* What a2a_dispatch_recv changes of them: it reads the tokens, step 4.
LEMMA TokensLinks ==
    ASSUME NEW r \in Rank, GpuStep(r, 4), HostStays
    PROVE  /\ \A q \in Rank, k \in Kinds :
                  /\ Taken(q, k)' = IF q = r /\ k \in {"private", "overflow"}
                                    THEN Taken(q, k) + 1 ELSE Taken(q, k)
                  /\ Sent(q, k)' = Sent(q, k)
                  /\ q # r \/ k = "combine" => Read(q, k)' = Read(q, k)
           /\ \A q \in Rank :
                  /\ GpuDone(q, 4)' = IF q = r THEN GpuDone(q, 4) + 1 ELSE GpuDone(q, 4)
                  /\ HostDone(q, 3)' = HostDone(q, 3) /\ HostDone(q, 5)' = HostDone(q, 5)
                  /\ HostDone(q, 10)' = HostDone(q, 10)
                  /\ GpuDone(q, 7)' = GpuDone(q, 7) /\ GpuDone(q, 1)' = GpuDone(q, 1)
  <1>1. ASSUME NEW q \in Rank, NEW k \in Kinds
        PROVE  /\ Taken(q, k)' = IF q = r /\ k \in {"private", "overflow"}
                                 THEN Taken(q, k) + 1 ELSE Taken(q, k)
               /\ Sent(q, k)' = Sent(q, k)
               /\ q # r \/ k = "combine" => Read(q, k)' = Read(q, k)
    BY GpuLinks
  <1>2. ASSUME NEW q \in Rank
        PROVE  /\ GpuDone(q, 4)' = IF q = r THEN GpuDone(q, 4) + 1 ELSE GpuDone(q, 4)
               /\ HostDone(q, 3)' = HostDone(q, 3) /\ HostDone(q, 5)' = HostDone(q, 5)
               /\ HostDone(q, 10)' = HostDone(q, 10)
               /\ GpuDone(q, 7)' = GpuDone(q, 7) /\ GpuDone(q, 1)' = GpuDone(q, 1)
    BY DEF GpuStep, HostStays
  <1>3. QED
    BY <1>1, <1>2, Zenon

\* And what a2a_combine_recv changes: it reads the combined tokens, step 7.
LEMMA CombinedLinks ==
    ASSUME NEW r \in Rank, GpuStep(r, 7), HostStays
    PROVE  /\ \A q \in Rank, k \in Kinds :
                  /\ Taken(q, k)' = Taken(q, k) /\ Sent(q, k)' = Sent(q, k)
                  /\ q # r \/ k # "combine" => Read(q, k)' = Read(q, k)
           /\ \A q \in Rank :
                  /\ GpuDone(q, 7)' = IF q = r THEN GpuDone(q, 7) + 1 ELSE GpuDone(q, 7)
                  /\ HostDone(q, 3)' = HostDone(q, 3) /\ HostDone(q, 5)' = HostDone(q, 5)
                  /\ HostDone(q, 10)' = HostDone(q, 10)
                  /\ GpuDone(q, 4)' = GpuDone(q, 4) /\ GpuDone(q, 1)' = GpuDone(q, 1)
  <1>1. ASSUME NEW q \in Rank, NEW k \in Kinds
        PROVE  /\ Taken(q, k)' = Taken(q, k) /\ Sent(q, k)' = Sent(q, k)
               /\ q # r \/ k # "combine" => Read(q, k)' = Read(q, k)
    BY GpuLinks
  <1>2. ASSUME NEW q \in Rank
        PROVE  /\ GpuDone(q, 7)' = IF q = r THEN GpuDone(q, 7) + 1 ELSE GpuDone(q, 7)
               /\ HostDone(q, 3)' = HostDone(q, 3) /\ HostDone(q, 5)' = HostDone(q, 5)
               /\ HostDone(q, 10)' = HostDone(q, 10)
               /\ GpuDone(q, 4)' = GpuDone(q, 4) /\ GpuDone(q, 1)' = GpuDone(q, 1)
    BY DEF GpuStep, HostStays
  <1>3. QED
    BY <1>1, <1>2, Zenon

\* Nothing is sent, taken or read.
LinksStay ==
    \A q \in Rank :
        /\ \A k \in Kinds : /\ Sent(q, k)' = Sent(q, k) /\ Taken(q, k)' = Taken(q, k)
                            /\ Read(q, k)' = Read(q, k)
        /\ GpuDone(q, 1)' = GpuDone(q, 1) /\ GpuDone(q, 4)' = GpuDone(q, 4)
        /\ GpuDone(q, 7)' = GpuDone(q, 7) /\ HostDone(q, 3)' = HostDone(q, 3)
        /\ HostDone(q, 5)' = HostDone(q, 5) /\ HostDone(q, 10)' = HostDone(q, 10)

\* Ranks stay on their nodes.
LEMMA RemoteStays ==
    ASSUME node_size' = node_size
    PROVE  \A r : Remote(r)' = Remote(r)
  BY Zenon DEF Remote, RemoteRanks, Ranks, NodeOf, Shape

\* What a rank is owed changes with the tables of the remote ranks only.
LEMMA OwedStays ==
    ASSUME NEW r \in Rank, node_size' = node_size, NEW k,
           \A p \in Remote(r) : r \in num_routed'[p][p] <=> r \in num_routed[p][p]
    PROVE  /\ DispatchOwed(r, k)' = DispatchOwed(r, k)
           /\ CombineOwed(r, k)' = CombineOwed(r, k)
  <1>1. RemoteRanks(Shape, r)' = Remote(r) /\ RemoteRanks(Shape, r) = Remote(r)
    BY RemoteStays, Zenon DEF Remote
  <1>2. QED
    BY <1>1 DEF DispatchOwed, CombineOwed

----------------------------------------------------------------------------
(* What the invariant is for.                                               *)

\* Where the kernels of p are while a write of theirs is under way, and those of its
\* target r.
LEMMA WhileOnWire ==
    ASSUME Inv, NEW m \in wire
    PROVE  /\ m.from \in Rank /\ m.to \in Rank /\ m.round \in Nat /\ m.round # 0
           /\ m.kind \in {"private", "overflow"} =>
                /\ GpuDone(m.from, 2) = m.round /\ GpuDone(m.from, 5) < m.round
                /\ m.round <= gpu_round[m.to]
           /\ m.kind = "combine" =>
                /\ GpuDone(m.from, 2) = m.round /\ GpuDone(m.from, 5) = m.round
                /\ m.round <= GpuDone(m.to, 4)
           /\ m.kind = "route" =>
                gpu_round[m.from] = m.round /\ GpuDone(m.from, 1) = m.round
  <1> USE Zenon
  <1>1. Types /\ Ranked /\ Paired /\ OnWire(m) /\ m \in Writes
    BY DEF Inv, Linked, Posted, Types
  <1> DEFINE p == m.from
             r == m.to
  <1>2. p \in Rank /\ r \in Rank /\ m.kind \in Kinds /\ m.round \in Nat /\ m.round # 0
    BY <1>1, AllToAllAssumption, SMT DEF Writes
  <1>3. p # r
    BY <1>1, <1>2, RemoteIs DEF OnWire, Kinds, Signals, Payloads
  <1>4. /\ Counts(p) /\ Counts(r) /\ InStep(p) /\ InStep(r)
        /\ HostDone(p, 3) <= HostDone(r, 1)
        /\ HostDone(p, 7) <= HostDone(r, 6)
        /\ HostDone(p, 12) <= HostDone(r, 11)
    BY <1>1, <1>2, <1>3, Between
  <1>5. m.round = Sent(p, m.kind) /\ Taken(r, m.kind) < m.round
    BY <1>1 DEF OnWire
  <1>6. CountsType(p) /\ CountsType(r)
    BY <1>4 DEF Counts
  <1>7. CASE m.kind \in {"private", "overflow"}
    <2>1. /\ m.round = HostDone(p, 2) \/ m.round = HostDone(p, 4)
          /\ GpuDone(r, 4) < m.round
      BY <1>5, <1>7, SentIs
    <2>2. /\ HostDone(p, 4) <= HostDone(p, 3) /\ HostDone(p, 3) <= HostDone(p, 2)
          /\ HostDone(p, 2) <= HostDone(p, 1) /\ HostDone(p, 1) <= HostDone(p, 13) + 1
          /\ HostDone(p, 13) <= HostDone(p, 12) /\ HostDone(p, 8) <= HostDone(p, 7)
          /\ GpuDone(p, 2) <= GpuDone(p, 1) /\ GpuDone(p, 1) <= GpuDone(p, 7) + 1
          /\ GpuDone(p, 7) <= GpuDone(p, 6) /\ GpuDone(p, 6) <= GpuDone(p, 5)
          /\ GpuDone(r, 7) + 1 = gpu_round[r]
      BY <1>4 DEF Counts
    <2>3. /\ HostDone(p, 2) <= GpuDone(p, 2) /\ GpuDone(p, 5) <= HostDone(p, 8)
          /\ HostDone(r, 6) <= GpuDone(r, 4) /\ HostDone(r, 11) <= GpuDone(r, 7)
      BY <1>4 DEF InStep
    <2>4. m.round <= HostDone(p, 2)
      BY <1>6, <2>1, <2>2, SMT DEF CountsType
    <2>5. GpuDone(p, 5) < m.round
      BY <1>2, <1>4, <1>6, <2>1, <2>2, <2>3, SMT DEF CountsType
    <2>6. GpuDone(p, 2) = m.round
      BY <1>2, <1>6, <2>2, <2>3, <2>4, <2>5, SMT DEF CountsType
    <2>7. m.round <= gpu_round[r]
      BY <1>2, <1>4, <1>6, <2>2, <2>3, <2>4, SMT DEF CountsType
    <2>8. QED
      BY <1>2, <1>7, <2>5, <2>6, <2>7
  <1>8. CASE m.kind = "combine"
    <2>1. m.round = HostDone(p, 9) /\ HostDone(r, 10) < m.round
      BY <1>5, <1>8, SentIs
    <2>2. /\ HostDone(p, 9) <= HostDone(p, 8) /\ HostDone(p, 8) <= HostDone(p, 7)
          /\ HostDone(p, 13) <= HostDone(p, 12) /\ HostDone(p, 13) + 1 = round[p]
          /\ HostDone(r, 11) <= HostDone(r, 10)
          /\ GpuDone(p, 5) <= GpuDone(p, 4) /\ GpuDone(p, 4) <= GpuDone(p, 3)
          /\ GpuDone(p, 3) <= GpuDone(p, 2)
      BY <1>4 DEF Counts
    <2>3. /\ HostDone(p, 9) <= GpuDone(p, 5) /\ GpuDone(p, 2) <= round[p]
          /\ HostDone(r, 6) <= GpuDone(r, 4)
      BY <1>4 DEF InStep
    <2>4. GpuDone(p, 2) <= m.round
      BY <1>2, <1>4, <1>6, <2>1, <2>2, <2>3, SMT DEF CountsType
    <2>5. GpuDone(p, 5) = m.round /\ GpuDone(p, 2) = m.round
      BY <1>2, <1>6, <2>1, <2>2, <2>3, <2>4, SMT DEF CountsType
    <2>6. m.round <= GpuDone(r, 4)
      BY <1>2, <1>4, <1>6, <2>1, <2>2, <2>3, SMT DEF CountsType
    <2>7. QED
      BY <1>2, <1>8, <2>5, <2>6
  <1>9. CASE m.kind = "route"
    <2>1. m.round = HostDone(p, 1) /\ HostDone(r, 3) < m.round
      BY <1>5, <1>9, SentIs
    <2>2. /\ HostDone(p, 10) <= HostDone(p, 9) /\ HostDone(p, 9) <= HostDone(p, 8)
          /\ HostDone(p, 8) <= HostDone(p, 7)
          /\ HostDone(r, 6) <= HostDone(r, 5) /\ HostDone(r, 5) <= HostDone(r, 4)
          /\ HostDone(r, 4) <= HostDone(r, 3)
          /\ GpuDone(p, 1) <= GpuDone(p, 7) + 1 /\ GpuDone(p, 7) + 1 = gpu_round[p]
      BY <1>4 DEF Counts
    <2>3. HostDone(p, 1) <= GpuDone(p, 1) /\ GpuDone(p, 7) <= HostDone(p, 10)
      BY <1>4 DEF InStep
    <2>4. GpuDone(p, 7) < m.round
      BY <1>2, <1>4, <1>6, <2>1, <2>2, <2>3, SMT DEF CountsType
    <2>5. gpu_round[p] = m.round /\ GpuDone(p, 1) = m.round
      BY <1>2, <1>6, <2>1, <2>2, <2>3, <2>4, SMT DEF CountsType
    <2>6. QED
      BY <1>2, <1>9, <2>5
  <1>10. QED
    BY <1>2, <1>7, <1>8, <1>9

\* Steps that come after the tokens are read.
LEMMA PastRead ==
    ASSUME Inv, NEW r \in Rank, NEW k \in Nat, k <= GpuDone(r, 4)
    PROVE  GpuPast(r, "dispatch_read", k)
  <1>1. Types
    BY Zenon DEF Inv
  <1>2. gpu[r] \in GpuNames /\ gpu_round[r] \in Nat
    BY <1>1, AllToAllAssumption DEF Types
  <1>3. CASE gpu_round[r] > k
    BY <1>3, Zenon DEF GpuPast
  <1>4. CASE ~(gpu_round[r] > k)
    <2>1. GpuNo(gpu[r]) > 4 /\ gpu_round[r] = k
      BY <1>1, <1>2, <1>4, NumbersType DEF GpuDone, Done
    <2>2. gpu[r] \in {"combine_send", "combine_end", "combine_recv"}
      BY <1>2, <2>1, GpuNumbers DEF GpuNames
    <2>3. /\ GpuSteps[4] = "dispatch_read" /\ GpuSteps[5] = "combine_send"
          /\ GpuSteps[6] = "combine_end" /\ GpuSteps[7] = "combine_recv" /\ Len(GpuSteps) = 8
      BY Zenon DEF GpuSteps
    <2>4. \E j \in 5..7 : GpuSteps[j] = gpu[r]
      BY <2>2, <2>3
    <2>5. PICK j \in 5..7 : GpuSteps[j] = gpu[r]
      BY <2>4, Zenon
    <2>6. 4 \in 1..Len(GpuSteps) /\ j \in 1..Len(GpuSteps) /\ 4 < j
      BY <2>3
    <2>7. \E i, l \in 1..Len(GpuSteps) : i < l /\ GpuSteps[i] = "dispatch_read" /\ GpuSteps[l] = gpu[r]
      BY <2>3, <2>5, <2>6, Zenon
    <2>8. QED
      BY <2>1, <2>7, Zenon DEF GpuPast
  <1>5. QED
    BY <1>3, <1>4, Zenon

\* No buffer is written while somebody still needs what is in it (a2a_worker.rs:445
\* and :855): the invariant says so.
LEMMA InvBuffers ==
    ASSUME Inv
    PROVE  BuffersKept
  <1> USE Zenon
  <1>1. SendBufferStable
    <2> SUFFICES ASSUME NEW m \in wire
                 PROVE  /\ m.kind \in Payloads => send_buffer[m.from] = SourceOf(m)
                        /\ m.kind = "route" =>
                             gpu_round[m.from] = m.round /\ gpu[m.from] # "dispatch_send"
      BY DEF SendBufferStable
    <2>1. m.from \in Rank /\ m.round \in Nat /\ m.round # 0
      BY WhileOnWire
    <2>2. send_buffer[m.from] = Holds(GpuDone(m.from, 2), GpuDone(m.from, 5))
      BY <2>1 DEF Inv, Ranked, BufferHolds
    <2>3. CountsType(m.from)
      BY <2>1, CountsHold DEF Inv, Counts
    <2>4. CASE m.kind \in {"private", "overflow"}
      <3>1. GpuDone(m.from, 2) = m.round /\ GpuDone(m.from, 5) < m.round
        BY <2>4, WhileOnWire
      <3>2. Holds(GpuDone(m.from, 2), GpuDone(m.from, 5)) = <<"dispatch", m.round>>
        BY <2>1, <2>3, <3>1 DEF Holds, CountsType
      <3>3. SourceOf(m) = <<"dispatch", m.round>> /\ m.kind # "route"
        BY <2>4 DEF SourceOf
      <3>4. QED
        BY <2>2, <3>2, <3>3
    <2>5. CASE m.kind = "combine"
      <3>1. GpuDone(m.from, 2) = m.round /\ GpuDone(m.from, 5) = m.round
        BY <2>5, WhileOnWire
      <3>2. Holds(GpuDone(m.from, 2), GpuDone(m.from, 5)) = <<"combine", m.round>>
        BY <2>1, <2>3, <3>1, SMT DEF Holds, CountsType
      <3>3. SourceOf(m) = <<"combine", m.round>> /\ m.kind # "route"
        BY <2>5, SMT DEF SourceOf
      <3>4. QED
        BY <2>2, <3>2, <3>3
    <2>6. CASE m.kind = "route"
      <3>1. gpu_round[m.from] = m.round /\ GpuDone(m.from, 1) = m.round
        BY <2>6, WhileOnWire
      <3>2. GpuDone(m.from, GpuNo(gpu[m.from])) + 1 = gpu_round[m.from]
        BY <2>1, GpuAt DEF Inv
      <3>3. GpuNo(gpu[m.from]) # 1
        BY <2>1, <3>1, <3>2, SMT
      <3>4. gpu[m.from] # "dispatch_send"
        BY <3>3, GpuNumbers
      <3>5. QED
        BY <2>6, <3>1, <3>4 DEF Payloads
    <2>7. QED
      BY <2>4, <2>5, <2>6 DEF Payloads
  <1>2. RecvBufferFree
    <2> SUFFICES ASSUME NEW m \in wire
                 PROVE  /\ m.kind = "combine" => GpuPast(m.to, "dispatch_read", m.round)
                        /\ m.kind \in {"private", "overflow"} => gpu_round[m.to] >= m.round
      BY DEF RecvBufferFree
    <2>1. m.to \in Rank /\ m.round \in Nat
      BY WhileOnWire
    <2>2. gpu_round[m.to] \in Nat
      BY <2>1, AllToAllAssumption, SMT DEF Inv, Types
    <2>3. m.kind = "combine" => GpuPast(m.to, "dispatch_read", m.round)
      BY <2>1, WhileOnWire, PastRead
    <2>4. m.kind \in {"private", "overflow"} => gpu_round[m.to] >= m.round
      BY <2>1, <2>2, WhileOnWire
    <2>5. QED
      BY <2>3, <2>4
  <1>3. QED
    BY <1>1, <1>2, SMT DEF BuffersKept

----------------------------------------------------------------------------
(* Steps of one rank.                                                       *)

\* WorkerState::step: a step forward, or back to the first in the next round.
LEMMA HostAdvances ==
    ASSUME Types, NEW r \in Rank, NEW from \in HostNames, NEW to \in HostNames,
           Goto(r, from, to),
           \/ HostNo(to) = HostNo(from) + 1 /\ round' = round
           \/ /\ HostNo(from) = 13 /\ HostNo(to) = 1
              /\ round' = [round EXCEPT ![r] = @ + 1]
    PROVE  HostStep(r, HostNo(from))
  <1> SUFFICES ASSUME NEW q \in Rank, NEW i \in 1..13
               PROVE  HostDone(q, i)' = IF q = r /\ i = HostNo(from) THEN HostDone(q, i) + 1
                                        ELSE HostDone(q, i)
    BY DEF HostStep
  <1>1. HostNo(from) \in 1..13 /\ HostNo(to) \in 1..13 /\ round[q] \in Nat
    BY NumbersType, AllToAllAssumption DEF Types
  <1>2. CASE q # r
    <2>1. host'[q] = host[q] /\ round'[q] = round[q]
      BY <1>2 DEF Goto, Types
    <2>2. QED
      BY <1>2, <2>1 DEF HostDone
  <1>3. CASE q = r
    <2>1. host[r] = from /\ host'[r] = to
      BY DEF Goto, Types
    <2>2. round'[r] = IF HostNo(to) = HostNo(from) + 1 THEN round[r] ELSE round[r] + 1
      BY <1>1 DEF Types
    <2>3. QED
      BY <1>1, <1>3, <2>1, <2>2 DEF HostDone, Done
  <1>4. QED
    BY <1>2, <1>3, Zenon

\* The kernels in stream order, and those of the next round after the last.
LEMMA GpuAdvances ==
    ASSUME Types, NEW r \in Rank, NEW from \in GpuNames, NEW to \in GpuNames,
           Kernel(r, from, to),
           \/ GpuNo(to) = GpuNo(from) + 1 /\ gpu_round' = gpu_round
           \/ /\ GpuNo(from) = 7 /\ GpuNo(to) = 1
              /\ gpu_round' = [gpu_round EXCEPT ![r] = @ + 1]
    PROVE  GpuStep(r, GpuNo(from))
  <1> SUFFICES ASSUME NEW q \in Rank, NEW i \in 1..7
               PROVE  GpuDone(q, i)' = IF q = r /\ i = GpuNo(from) THEN GpuDone(q, i) + 1
                                       ELSE GpuDone(q, i)
    BY DEF GpuStep
  <1>1. GpuNo(from) \in 1..7 /\ GpuNo(to) \in 1..7 /\ gpu_round[q] \in Nat
    BY NumbersType, AllToAllAssumption DEF Types
  <1>2. CASE q # r
    <2>1. gpu'[q] = gpu[q] /\ gpu_round'[q] = gpu_round[q]
      BY <1>2 DEF Kernel, Types
    <2>2. QED
      BY <1>2, <2>1 DEF GpuDone
  <1>3. CASE q = r
    <2>1. gpu[r] = from /\ gpu'[r] = to
      BY DEF Kernel, Types
    <2>2. gpu_round'[r] = IF GpuNo(to) = GpuNo(from) + 1 THEN gpu_round[r] ELSE gpu_round[r] + 1
      BY <1>1 DEF Types
    <2>3. QED
      BY <1>1, <1>3, <2>1, <2>2 DEF GpuDone, Done
  <1>4. QED
    BY <1>2, <1>3, Zenon

\* Who does not move.
LEMMA Stays ==
    /\ UNCHANGED <<host, round>> => HostStays
    /\ UNCHANGED <<gpu, gpu_round>> => GpuStays
  BY DEF HostStays, GpuStays, HostDone, GpuDone

InRank(r) == InStep(r) /\ FlagsSay(r) /\ BufferHolds(r)

\* A rank that a step does not concern.
LEMMA RankFrame ==
    ASSUME NEW q \in Rank, InRank(q),
           \A i \in 1..13 : HostDone(q, i)' = HostDone(q, i),
           \A i \in 1..7 : GpuDone(q, i)' = GpuDone(q, i),
           round'[q] = round[q], gpu'[q] = gpu[q], flags'[q] \subseteq flags[q],
           q \in stopped' <=> q \in stopped, send_buffer'[q] = send_buffer[q]
    PROVE  InRank(q)'
  <1>1. InStep(q)'
    BY DEF InRank, InStep
  <1>2. FlagsSay(q)'
    BY DEF InRank, FlagsSay
  <1>3. BufferHolds(q)'
    <2>1. GpuDone(q, 2)' = GpuDone(q, 2) /\ GpuDone(q, 5)' = GpuDone(q, 5)
      OBVIOUS
    <2>2. QED
      BY <2>1, Zenon DEF InRank, BufferHolds
  <1>4. QED
    BY <1>1, <1>2, <1>3, Zenon DEF InRank

\* After the last round the host worker waits for another or has ended.
LEMMA StoppedLate ==
    ASSUME Types, NEW r \in Rank, InRank(r), r \in stopped
    PROVE  /\ host[r] \notin {"send", "route_count", "dispatch", "dispatch_wait",
                              "dispatch_recv", "dispatch_barrier", "dispatch_tx",
                              "combine_send", "combine_count"}
           /\ GpuDone(r, 7) = MaxRounds /\ HostDone(r, 10) = MaxRounds
           /\ HostDone(r, 1) <= MaxRounds
  <1>1. GpuDone(r, 7) = MaxRounds /\ HostDone(r, 10) >= MaxRounds /\ HostDone(r, 1) <= MaxRounds
        /\ HostDone(r, 10) <= HostDone(r, 1) /\ HostDone(r, 1) \in Nat /\ HostDone(r, 10) \in Nat
    BY CountsHold DEF Counts, CountsType, InRank, InStep
  <1>2. HostDone(r, 10) = HostDone(r, 1)
    BY <1>1, AllToAllAssumption
  <1>3. HostNo(host[r]) <= 1 \/ HostNo(host[r]) > 10
    <2>1. HostNo(host[r]) \in 1..13 /\ round[r] \in Nat
      BY NumbersType, AllToAllAssumption DEF Types
    <2>2. QED
      BY <1>2, <2>1 DEF HostDone, Done
  <1>4. QED
    BY <1>1, <1>3, HostNumbers, AllToAllAssumption

\* More on the counts of one rank: how far its host worker and its kernels may be apart.
LEMMA RankBounds ==
    ASSUME Types, NEW r \in Rank, InStep(r)
    PROVE  /\ CountsType(r) /\ HostDone(r, 13) + 1 = round[r]
           /\ HostDone(r, 10) <= HostDone(r, 2) /\ HostDone(r, 5) <= HostDone(r, 2)
           /\ HostDone(r, 13) <= HostDone(r, 8) /\ HostDone(r, 8) <= round[r]
           /\ HostDone(r, 2) <= round[r] /\ GpuDone(r, 7) <= GpuDone(r, 6)
           /\ GpuDone(r, 4) <= HostDone(r, 4) /\ GpuDone(r, 4) <= HostDone(r, 5)
           /\ GpuDone(r, 6) <= HostDone(r, 8) /\ GpuDone(r, 7) <= HostDone(r, 10)
  <1>1. /\ HostDone(r, 13) + 1 = round[r]
        /\ \A i, j \in 1..13 : i <= j => HostDone(r, j) <= HostDone(r, i)
        /\ \A i \in 1..13 : HostDone(r, i) <= round[r]
    BY HostOrder, Zenon
  <1>2. /\ HostDone(r, 10) <= HostDone(r, 2) /\ HostDone(r, 5) <= HostDone(r, 2)
        /\ HostDone(r, 13) <= HostDone(r, 8) /\ HostDone(r, 5) <= HostDone(r, 4)
        /\ HostDone(r, 8) <= round[r] /\ HostDone(r, 2) <= round[r]
    BY <1>1
  <1>3. /\ GpuDone(r, 4) <= HostDone(r, 5) /\ GpuDone(r, 5) <= HostDone(r, 8)
        /\ GpuDone(r, 7) <= HostDone(r, 10)
    BY Zenon DEF InStep
  <1>4. CountsType(r) /\ GpuDone(r, 7) <= GpuDone(r, 6) /\ GpuDone(r, 6) <= GpuDone(r, 5)
    BY CountsHold, Zenon DEF Counts
  <1>5. /\ HostDone(r, 4) \in Nat /\ HostDone(r, 5) \in Nat /\ HostDone(r, 8) \in Nat
        /\ GpuDone(r, 4) \in Nat /\ GpuDone(r, 5) \in Nat /\ GpuDone(r, 6) \in Nat
    BY <1>4, Zenon DEF CountsType
  <1>6. GpuDone(r, 4) <= HostDone(r, 4) /\ GpuDone(r, 6) <= HostDone(r, 8)
    BY <1>2, <1>3, <1>4, <1>5
  <1>7. QED
    BY <1>1, <1>2, <1>3, <1>4, <1>6, Zenon

\* Step n of the host worker of r: what it has waited for, the flags it lowers (C) and
\* raises (S).
HostDoes(r, n, C, S) ==
    /\ n = 1 => HostDone(r, 1) < GpuDone(r, 1) /\ "dispatch_route_done" \in C
    /\ n = 2 => HostDone(r, 2) < GpuDone(r, 2) /\ {"dispatch_send_done", "tx_ready"} \subseteq C
    /\ n = 6 => HostDone(r, 6) < GpuDone(r, 4) /\ "dispatch_recv_done" \in C
    /\ n = 9 => HostDone(r, 9) < GpuDone(r, 5) /\ "combine_send_done" \in C
    /\ n = 11 => HostDone(r, 11) < GpuDone(r, 7) /\ "combine_recv_done" \in C
    /\ S \subseteq {"num_recv_tokens_flag", "dispatch_recv_flag", "tx_ready", "combine_recv_flag"}
    /\ "num_recv_tokens_flag" \in S => n = 4
    /\ "dispatch_recv_flag" \in S => n = 5
    /\ "tx_ready" \in S => n \in {8, 13}
    /\ "combine_recv_flag" \in S => n = 10

\* The host worker of r does step n, having found the flag it waits for, and lowers
\* and raises flags.
LEMMA HostRanked ==
    ASSUME Types, Ranked, NEW r \in Rank, NEW n \in 1..13,
           HostStep(r, n), GpuStays, HostNo(host[r]) = n,
           UNCHANGED <<gpu, send_buffer, stopped>>,
           round' = IF n = 13 THEN [round EXCEPT ![r] = @ + 1] ELSE round,
           NEW C, NEW S, Flip(r, C, S),
           HostDoes(r, n, C, S)
    PROVE  Ranked'
  <1> USE Zenon
  <1> SUFFICES ASSUME NEW q \in Rank PROVE InRank(q)'
    BY DEF Ranked, InRank
  <1>1. InRank(q) /\ InRank(r)
    BY SMT DEF Ranked, InRank
  <1>2. CASE q # r
    <2>1. /\ \A i \in 1..13 : HostDone(q, i)' = HostDone(q, i)
          /\ \A i \in 1..7 : GpuDone(q, i)' = GpuDone(q, i)
      BY <1>2 DEF HostStep, GpuStays
    <2>2. round'[q] = round[q] /\ flags'[q] = flags[q]
      BY <1>2 DEF Types, Flip
    <2>3. QED
      BY <1>1, <2>1, <2>2, RankFrame
  <1>3. CASE q = r
    <2>1. /\ \A i \in 1..13 : HostDone(r, i)' = IF i = n THEN HostDone(r, i) + 1 ELSE HostDone(r, i)
          /\ \A i \in 1..7 : GpuDone(r, i)' = GpuDone(r, i)
      BY DEF HostStep, GpuStays
    <2>2. round'[r] = (IF n = 13 THEN round[r] + 1 ELSE round[r]) /\ round[r] \in Nat
      BY AllToAllAssumption, SMT DEF Types
    <2>3. HostDone(r, n) + 1 = round[r] /\ \A i \in 1..13 : i < n => HostDone(r, i) = round[r]
      BY HostAt
    <2>4. flags'[r] = (flags[r] \ C) \cup S
      BY DEF Flip, Types
    <2>5. /\ HostDone(r, 1)' = IF n = 1 THEN HostDone(r, 1) + 1 ELSE HostDone(r, 1)
          /\ HostDone(r, 2)' = IF n = 2 THEN HostDone(r, 2) + 1 ELSE HostDone(r, 2)
          /\ HostDone(r, 3)' = IF n = 3 THEN HostDone(r, 3) + 1 ELSE HostDone(r, 3)
          /\ HostDone(r, 4)' = IF n = 4 THEN HostDone(r, 4) + 1 ELSE HostDone(r, 4)
          /\ HostDone(r, 5)' = IF n = 5 THEN HostDone(r, 5) + 1 ELSE HostDone(r, 5)
          /\ HostDone(r, 6)' = IF n = 6 THEN HostDone(r, 6) + 1 ELSE HostDone(r, 6)
          /\ HostDone(r, 7)' = IF n = 7 THEN HostDone(r, 7) + 1 ELSE HostDone(r, 7)
          /\ HostDone(r, 8)' = IF n = 8 THEN HostDone(r, 8) + 1 ELSE HostDone(r, 8)
          /\ HostDone(r, 9)' = IF n = 9 THEN HostDone(r, 9) + 1 ELSE HostDone(r, 9)
          /\ HostDone(r, 10)' = IF n = 10 THEN HostDone(r, 10) + 1 ELSE HostDone(r, 10)
          /\ HostDone(r, 11)' = IF n = 11 THEN HostDone(r, 11) + 1 ELSE HostDone(r, 11)
          /\ HostDone(r, 12)' = IF n = 12 THEN HostDone(r, 12) + 1 ELSE HostDone(r, 12)
          /\ HostDone(r, 13)' = IF n = 13 THEN HostDone(r, 13) + 1 ELSE HostDone(r, 13)
          /\ GpuDone(r, 1)' = GpuDone(r, 1) /\ GpuDone(r, 2)' = GpuDone(r, 2)
          /\ GpuDone(r, 3)' = GpuDone(r, 3)
          /\ GpuDone(r, 4)' = GpuDone(r, 4) /\ GpuDone(r, 5)' = GpuDone(r, 5)
          /\ GpuDone(r, 6)' = GpuDone(r, 6)
          /\ GpuDone(r, 7)' = GpuDone(r, 7)
      BY <2>1, SMT
    <2>6. CountsType(r) /\ InStep(r) /\ FlagsSay(r)
      BY <1>1, RankBounds DEF InRank
    <2>7. /\ GpuDone(r, 4) <= HostDone(r, 4) /\ GpuDone(r, 4) <= HostDone(r, 5)
          /\ GpuDone(r, 6) <= HostDone(r, 8) /\ GpuDone(r, 7) <= HostDone(r, 10)
          /\ HostDone(r, 2) <= round[r]
      BY <2>6, RankBounds
    <2>8. /\ n = 1 => HostDone(r, 1) < GpuDone(r, 1)
          /\ n = 2 => HostDone(r, 2) < GpuDone(r, 2)
          /\ n = 6 => HostDone(r, 6) < GpuDone(r, 4)
          /\ n = 9 => HostDone(r, 9) < GpuDone(r, 5)
          /\ n = 11 => HostDone(r, 11) < GpuDone(r, 7)
      BY DEF HostDoes
    <2>9. InStep(r)'
      <3>1. HostDone(r, 1)' <= GpuDone(r, 1)'
        <4>1. HostDone(r, 1) \in Nat /\ GpuDone(r, 1) \in Nat /\ HostDone(r, 1) <= GpuDone(r, 1)
          BY <2>6 DEF CountsType, InStep
        <4>2. HostDone(r, 1)' = (IF n = 1 THEN HostDone(r, 1) + 1 ELSE HostDone(r, 1)) /\ GpuDone(r, 1)' = GpuDone(r, 1)
          BY <2>5
        <4>3. n = 1 => HostDone(r, 1) < GpuDone(r, 1)
          BY <2>8
        <4>4. QED
          BY <4>1, <4>2, <4>3, SMT
      <3>2. HostDone(r, 2)' <= GpuDone(r, 2)'
        <4>1. HostDone(r, 2) \in Nat /\ GpuDone(r, 2) \in Nat /\ HostDone(r, 2) <= GpuDone(r, 2)
          BY <2>6 DEF CountsType, InStep
        <4>2. HostDone(r, 2)' = (IF n = 2 THEN HostDone(r, 2) + 1 ELSE HostDone(r, 2)) /\ GpuDone(r, 2)' = GpuDone(r, 2)
          BY <2>5
        <4>3. n = 2 => HostDone(r, 2) < GpuDone(r, 2)
          BY <2>8
        <4>4. QED
          BY <4>1, <4>2, <4>3, SMT
      <3>3. HostDone(r, 6)' <= GpuDone(r, 4)'
        <4>1. HostDone(r, 6) \in Nat /\ GpuDone(r, 4) \in Nat /\ HostDone(r, 6) <= GpuDone(r, 4)
          BY <2>6 DEF CountsType, InStep
        <4>2. HostDone(r, 6)' = (IF n = 6 THEN HostDone(r, 6) + 1 ELSE HostDone(r, 6)) /\ GpuDone(r, 4)' = GpuDone(r, 4)
          BY <2>5
        <4>3. n = 6 => HostDone(r, 6) < GpuDone(r, 4)
          BY <2>8
        <4>4. QED
          BY <4>1, <4>2, <4>3, SMT
      <3>4. HostDone(r, 9)' <= GpuDone(r, 5)'
        <4>1. HostDone(r, 9) \in Nat /\ GpuDone(r, 5) \in Nat /\ HostDone(r, 9) <= GpuDone(r, 5)
          BY <2>6 DEF CountsType, InStep
        <4>2. HostDone(r, 9)' = (IF n = 9 THEN HostDone(r, 9) + 1 ELSE HostDone(r, 9)) /\ GpuDone(r, 5)' = GpuDone(r, 5)
          BY <2>5
        <4>3. n = 9 => HostDone(r, 9) < GpuDone(r, 5)
          BY <2>8
        <4>4. QED
          BY <4>1, <4>2, <4>3, SMT
      <3>5. HostDone(r, 11)' <= GpuDone(r, 7)'
        <4>1. HostDone(r, 11) \in Nat /\ GpuDone(r, 7) \in Nat /\ HostDone(r, 11) <= GpuDone(r, 7)
          BY <2>6 DEF CountsType, InStep
        <4>2. HostDone(r, 11)' = (IF n = 11 THEN HostDone(r, 11) + 1 ELSE HostDone(r, 11)) /\ GpuDone(r, 7)' = GpuDone(r, 7)
          BY <2>5
        <4>3. n = 11 => HostDone(r, 11) < GpuDone(r, 7)
          BY <2>8
        <4>4. QED
          BY <4>1, <4>2, <4>3, SMT
      <3>6. GpuDone(r, 3)' <= HostDone(r, 4)'
        <4>1. HostDone(r, 4) \in Nat /\ GpuDone(r, 3) \in Nat /\ GpuDone(r, 3) <= HostDone(r, 4)
          BY <2>6 DEF CountsType, InStep
        <4>2. HostDone(r, 4)' = (IF n = 4 THEN HostDone(r, 4) + 1 ELSE HostDone(r, 4)) /\ GpuDone(r, 3)' = GpuDone(r, 3)
          BY <2>5
        <4>3. QED
          BY <4>1, <4>2, SMT
      <3>7. GpuDone(r, 4)' <= HostDone(r, 5)'
        <4>1. HostDone(r, 5) \in Nat /\ GpuDone(r, 4) \in Nat /\ GpuDone(r, 4) <= HostDone(r, 5)
          BY <2>6 DEF CountsType, InStep
        <4>2. HostDone(r, 5)' = (IF n = 5 THEN HostDone(r, 5) + 1 ELSE HostDone(r, 5)) /\ GpuDone(r, 4)' = GpuDone(r, 4)
          BY <2>5
        <4>3. QED
          BY <4>1, <4>2, SMT
      <3>8. GpuDone(r, 5)' <= HostDone(r, 8)'
        <4>1. HostDone(r, 8) \in Nat /\ GpuDone(r, 5) \in Nat /\ GpuDone(r, 5) <= HostDone(r, 8)
          BY <2>6 DEF CountsType, InStep
        <4>2. HostDone(r, 8)' = (IF n = 8 THEN HostDone(r, 8) + 1 ELSE HostDone(r, 8)) /\ GpuDone(r, 5)' = GpuDone(r, 5)
          BY <2>5
        <4>3. QED
          BY <4>1, <4>2, SMT
      <3>9. GpuDone(r, 7)' <= HostDone(r, 10)'
        <4>1. HostDone(r, 10) \in Nat /\ GpuDone(r, 7) \in Nat /\ GpuDone(r, 7) <= HostDone(r, 10)
          BY <2>6 DEF CountsType, InStep
        <4>2. HostDone(r, 10)' = (IF n = 10 THEN HostDone(r, 10) + 1 ELSE HostDone(r, 10)) /\ GpuDone(r, 7)' = GpuDone(r, 7)
          BY <2>5
        <4>3. QED
          BY <4>1, <4>2, SMT
      <3>10. GpuDone(r, 2)' <= round'[r]
        <4>1. GpuDone(r, 2) \in Nat /\ GpuDone(r, 2) <= round[r] /\ GpuDone(r, 2)' = GpuDone(r, 2)
          BY <2>5, <2>6 DEF CountsType, InStep
        <4>2. QED
          BY <2>2, <4>1, SMT
      <3>11. r \in stopped' => gpu'[r] = "finished"
        BY <2>6 DEF InStep
      <3>12. QED
        BY <3>1, <3>2, <3>3, <3>4, <3>5, <3>6, <3>7, <3>8, <3>9, <3>10, <3>11 DEF InStep
    <2>10. FlagsSay(r)'
      <3>1. /\ GpuDone(r, 4) < HostDone(r, 4) \/ n = 4 => GpuDone(r, 4)' < HostDone(r, 4)'
            /\ GpuDone(r, 4) < HostDone(r, 5) \/ n = 5 => GpuDone(r, 4)' < HostDone(r, 5)'
            /\ GpuDone(r, 6) < HostDone(r, 8) \/ n = 8 => GpuDone(r, 6)' < HostDone(r, 8)'
            /\ GpuDone(r, 7) < HostDone(r, 10) \/ n = 10 => GpuDone(r, 7)' < HostDone(r, 10)'
        <4>1. /\ HostDone(r, 4) \in Nat /\ HostDone(r, 5) \in Nat /\ HostDone(r, 8) \in Nat
              /\ HostDone(r, 10) \in Nat
              /\ GpuDone(r, 4) \in Nat /\ GpuDone(r, 6) \in Nat /\ GpuDone(r, 7) \in Nat
          BY <2>6 DEF CountsType
        <4>2. QED
          BY <2>5, <2>7, <4>1, SMT
      <3>2. (HostDone(r, 2) < round[r] /\ n # 2) \/ n = 13 => HostDone(r, 2)' < round'[r]
        <4>1. HostDone(r, 2) \in Nat
          BY <2>6 DEF CountsType
        <4>2. HostDone(r, 2)' = IF n = 2 THEN HostDone(r, 2) + 1 ELSE HostDone(r, 2)
          BY <2>5
        <4>3. QED
          BY <2>2, <2>7, <4>1, <4>2, SMT
      <3>3. /\ "dispatch_route_done" \in flags'[r] => n # 1 /\ "dispatch_route_done" \in flags[r]
            /\ "dispatch_send_done" \in flags'[r] => n # 2 /\ "dispatch_send_done" \in flags[r]
            /\ "dispatch_recv_done" \in flags'[r] => n # 6 /\ "dispatch_recv_done" \in flags[r]
            /\ "combine_send_done" \in flags'[r] => n # 9 /\ "combine_send_done" \in flags[r]
            /\ "combine_recv_done" \in flags'[r] => n # 11 /\ "combine_recv_done" \in flags[r]
        BY <2>4 DEF HostDoes
      <3>4. /\ "num_recv_tokens_flag" \in flags'[r] => "num_recv_tokens_flag" \in flags[r] \/ n = 4
            /\ "dispatch_recv_flag" \in flags'[r] => "dispatch_recv_flag" \in flags[r] \/ n = 5
            /\ "combine_recv_flag" \in flags'[r] => "combine_recv_flag" \in flags[r] \/ n = 10
            /\ "tx_ready" \in flags'[r] => \/ n # 2 /\ "tx_ready" \in flags[r]
                                           \/ n = 8 \/ n = 13
        BY <2>4 DEF HostDoes
      <3>5. /\ "dispatch_route_done" \in flags'[r] => r \in stopped' \/ HostDone(r, 1)' < GpuDone(r, 1)'
            /\ "dispatch_send_done" \in flags'[r] => r \in stopped' \/ HostDone(r, 2)' < GpuDone(r, 2)'
            /\ "dispatch_recv_done" \in flags'[r] => r \in stopped' \/ HostDone(r, 6)' < GpuDone(r, 4)'
            /\ "combine_send_done" \in flags'[r] => r \in stopped' \/ HostDone(r, 9)' < GpuDone(r, 5)'
            /\ "combine_recv_done" \in flags'[r] => r \in stopped' \/ HostDone(r, 11)' < GpuDone(r, 7)'
        BY <2>5, <2>6, <3>3 DEF FlagsSay
      <3>6. /\ "num_recv_tokens_flag" \in flags'[r] => GpuDone(r, 4)' < HostDone(r, 4)'
            /\ "dispatch_recv_flag" \in flags'[r] => GpuDone(r, 4)' < HostDone(r, 5)'
            /\ "combine_recv_flag" \in flags'[r] => GpuDone(r, 7)' < HostDone(r, 10)'
        BY <2>6, <3>1, <3>4 DEF FlagsSay
      <3>7. "tx_ready" \in flags'[r] =>
                HostDone(r, 2)' < round'[r] \/ GpuDone(r, 6)' < HostDone(r, 8)'
        BY <2>6, <3>1, <3>2, <3>4 DEF FlagsSay
      <3>8. QED
        BY <3>5, <3>6, <3>7 DEF FlagsSay
    <2>11. BufferHolds(r)'
      <3>1. GpuDone(r, 2)' = GpuDone(r, 2) /\ GpuDone(r, 5)' = GpuDone(r, 5)
        BY <2>5
      <3>2. QED
        BY <1>1, <3>1 DEF InRank, BufferHolds
    <2>12. QED
      BY <1>3, <2>9, <2>10, <2>11 DEF InRank
  <1>4. QED
    BY <1>2, <1>3

\* Step n of the kernels of r: the flag it waits for, those it lowers (C) and raises
\* (S), and what it leaves in the send buffer.
KernelDoes(r, n, C, S) ==
    /\ n = 2 => "tx_ready" \in flags[r]
    /\ n = 3 => "num_recv_tokens_flag" \in flags[r]
    /\ n = 4 => /\ "dispatch_recv_flag" \in flags[r]
                /\ {"num_recv_tokens_flag", "dispatch_recv_flag"} \subseteq C
    /\ n = 5 => "tx_ready" \in flags[r]
    /\ n = 6 => "tx_ready" \in C
    /\ n = 7 => "combine_recv_flag" \in flags[r] /\ "combine_recv_flag" \in C
    /\ S \subseteq DoneFlags
    /\ "dispatch_route_done" \in S => n = 1
    /\ "dispatch_send_done" \in S => n = 2
    /\ "dispatch_recv_done" \in S => n = 4
    /\ "combine_send_done" \in S => n = 5
    /\ "combine_recv_done" \in S => n = 7
    /\ send_buffer' = IF n = 2 THEN [send_buffer EXCEPT ![r] = <<"dispatch", gpu_round[r]>>]
                      ELSE IF n = 5 THEN [send_buffer EXCEPT ![r] = <<"combine", gpu_round[r]>>]
                      ELSE send_buffer

\* A kernel of r does step n, having found the flag it waits for.
LEMMA GpuRanked ==
    ASSUME Types, Ranked, NEW r \in Rank, NEW n \in 1..7,
           HostStays, GpuStep(r, n), GpuNo(gpu[r]) = n, gpu[r] # "finished",
           \A q \in Rank : q # r => gpu'[q] = gpu[q],
           UNCHANGED <<round, stopped>>,
           NEW C, NEW S, Flip(r, C, S),
           KernelDoes(r, n, C, S)
    PROVE  Ranked'
  <1> USE Zenon
  <1> SUFFICES ASSUME NEW q \in Rank PROVE InRank(q)'
    BY DEF Ranked, InRank
  <1>1. InRank(q) /\ InRank(r)
    BY DEF Ranked, InRank
  <1>2. CASE q # r
    <2>1. /\ \A i \in 1..13 : HostDone(q, i)' = HostDone(q, i)
          /\ \A i \in 1..7 : GpuDone(q, i)' = GpuDone(q, i)
      BY <1>2 DEF HostStays, GpuStep
    <2>2. gpu'[q] = gpu[q] /\ flags'[q] = flags[q] /\ send_buffer'[q] = send_buffer[q]
      BY <1>2 DEF Types, Flip, KernelDoes
    <2>3. QED
      BY <1>1, <2>1, <2>2, RankFrame
  <1>3. CASE q = r
    <2>1. Counts(r)
      BY CountsHold
    <2>2. /\ \A i \in 1..13 : HostDone(r, i)' = HostDone(r, i)
          /\ \A i \in 1..7 : GpuDone(r, i)' = IF i = n THEN GpuDone(r, i) + 1 ELSE GpuDone(r, i)
      BY DEF HostStays, GpuStep
    <2>3. gpu_round[r] \in Nat \ {0} /\ r \notin stopped
      <3>1. gpu_round[r] \in 1..(MaxRounds + 1)
        BY DEF Types
      <3>2. r \notin stopped
        BY <1>1 DEF InRank, InStep
      <3>3. QED
        BY <3>1, <3>2, AllToAllAssumption, SMT
    <2>4. GpuDone(r, n) + 1 = gpu_round[r] /\ \A i \in 1..7 : i < n => GpuDone(r, i) = gpu_round[r]
      BY GpuAt
    <2>5. flags'[r] = (flags[r] \ C) \cup S
      BY DEF Flip, Types
    <2>6. /\ GpuDone(r, 1)' = IF n = 1 THEN GpuDone(r, 1) + 1 ELSE GpuDone(r, 1)
          /\ GpuDone(r, 2)' = IF n = 2 THEN GpuDone(r, 2) + 1 ELSE GpuDone(r, 2)
          /\ GpuDone(r, 3)' = IF n = 3 THEN GpuDone(r, 3) + 1 ELSE GpuDone(r, 3)
          /\ GpuDone(r, 4)' = IF n = 4 THEN GpuDone(r, 4) + 1 ELSE GpuDone(r, 4)
          /\ GpuDone(r, 5)' = IF n = 5 THEN GpuDone(r, 5) + 1 ELSE GpuDone(r, 5)
          /\ GpuDone(r, 6)' = IF n = 6 THEN GpuDone(r, 6) + 1 ELSE GpuDone(r, 6)
          /\ GpuDone(r, 7)' = IF n = 7 THEN GpuDone(r, 7) + 1 ELSE GpuDone(r, 7)
          /\ HostDone(r, 1)' = HostDone(r, 1) /\ HostDone(r, 2)' = HostDone(r, 2)
          /\ HostDone(r, 3)' = HostDone(r, 3)
          /\ HostDone(r, 4)' = HostDone(r, 4) /\ HostDone(r, 5)' = HostDone(r, 5)
          /\ HostDone(r, 6)' = HostDone(r, 6)
          /\ HostDone(r, 7)' = HostDone(r, 7) /\ HostDone(r, 8)' = HostDone(r, 8)
          /\ HostDone(r, 9)' = HostDone(r, 9)
          /\ HostDone(r, 10)' = HostDone(r, 10) /\ HostDone(r, 11)' = HostDone(r, 11)
          /\ HostDone(r, 12)' = HostDone(r, 12)
          /\ HostDone(r, 13)' = HostDone(r, 13)
      BY <2>2, SMT
    <2>7. CountsType(r) /\ InStep(r) /\ FlagsSay(r)
      BY <1>1, RankBounds DEF InRank
    <2>8. /\ HostDone(r, 2) \in Nat /\ HostDone(r, 4) \in Nat /\ HostDone(r, 5) \in Nat
          /\ HostDone(r, 8) \in Nat /\ HostDone(r, 10) \in Nat /\ HostDone(r, 13) \in Nat
          /\ GpuDone(r, 2) \in Nat /\ GpuDone(r, 3) \in Nat /\ GpuDone(r, 4) \in Nat
          /\ GpuDone(r, 5) \in Nat /\ GpuDone(r, 6) \in Nat /\ GpuDone(r, 7) \in Nat
          /\ round[r] \in Nat
      BY <2>7 DEF CountsType
    <2>9. /\ HostDone(r, 13) + 1 = round[r] /\ HostDone(r, 13) <= HostDone(r, 8)
          /\ HostDone(r, 10) <= HostDone(r, 2) /\ HostDone(r, 5) <= HostDone(r, 2)
          /\ HostDone(r, 8) <= round[r] /\ GpuDone(r, 7) <= GpuDone(r, 6)
          /\ GpuDone(r, 4) <= HostDone(r, 5) /\ GpuDone(r, 7) <= HostDone(r, 10)
      BY <2>7, RankBounds
    <2>10. GpuDone(r, 7) + 1 = gpu_round[r]
      BY <2>1 DEF Counts
    <2>11. n = 2 \/ n = 5 => HostDone(r, 2) < round[r] \/ GpuDone(r, 6) < HostDone(r, 8)
      BY <2>7 DEF FlagsSay, KernelDoes
    <2>12. /\ n = 3 => GpuDone(r, 4) < HostDone(r, 4)
           /\ n = 4 => GpuDone(r, 4) < HostDone(r, 5)
           /\ n = 7 => GpuDone(r, 7) < HostDone(r, 10)
      BY <2>7 DEF FlagsSay, KernelDoes
    <2>13. n = 2 => GpuDone(r, 2) + 1 <= round[r]
      BY <2>4, <2>8, <2>9, <2>10, <2>11, SMT
    <2>14. n = 3 => GpuDone(r, 3) + 1 <= HostDone(r, 4)
      <3>1. GpuDone(r, 7) <= GpuDone(r, 4)
        BY <2>7, GpuOrder, SMT
      <3>2. QED
        BY <2>4, <2>8, <2>10, <2>12, <3>1, SMT
    <2>15. n = 5 => GpuDone(r, 5) + 1 <= HostDone(r, 8)
      <3>1. ASSUME n = 5 PROVE GpuDone(r, 5) = GpuDone(r, 7) /\ GpuDone(r, 5) + 1 = GpuDone(r, 4)
        BY <2>4, <2>8, <2>10, <3>1, SMT
      <3>2. QED
        BY <2>8, <2>9, <2>11, <3>1, SMT
    <2>16. InStep(r)'
      <3>1. r \notin stopped'
        BY <2>3
      <3>2. /\ HostDone(r, 1) <= GpuDone(r, 1) /\ HostDone(r, 2) <= GpuDone(r, 2)
            /\ GpuDone(r, 2) <= round[r]
            /\ GpuDone(r, 3) <= HostDone(r, 4) /\ GpuDone(r, 4) <= HostDone(r, 5)
            /\ HostDone(r, 6) <= GpuDone(r, 4)
            /\ GpuDone(r, 5) <= HostDone(r, 8) /\ HostDone(r, 9) <= GpuDone(r, 5)
            /\ GpuDone(r, 7) <= HostDone(r, 10) /\ HostDone(r, 11) <= GpuDone(r, 7)
        BY <2>7 DEF InStep
      <3>3. /\ HostDone(r, 1) \in Nat /\ HostDone(r, 6) \in Nat /\ HostDone(r, 9) \in Nat
            /\ HostDone(r, 11) \in Nat /\ GpuDone(r, 1) \in Nat
        BY <2>7 DEF CountsType
      <3>4. /\ HostDone(r, 1)' <= GpuDone(r, 1)' /\ HostDone(r, 2)' <= GpuDone(r, 2)'
            /\ HostDone(r, 6)' <= GpuDone(r, 4)' /\ HostDone(r, 9)' <= GpuDone(r, 5)'
            /\ HostDone(r, 11)' <= GpuDone(r, 7)'
        BY <2>6, <2>8, <3>2, <3>3, SMT
      <3>5. /\ GpuDone(r, 2)' <= round[r] /\ GpuDone(r, 3)' <= HostDone(r, 4)'
            /\ GpuDone(r, 5)' <= HostDone(r, 8)'
        BY <2>6, <2>13, <2>14, <2>15, <3>2, SMT
      <3>6. GpuDone(r, 4)' <= HostDone(r, 5)' /\ GpuDone(r, 7)' <= HostDone(r, 10)'
        BY <2>6, <2>8, <2>12, <3>2, SMT
      <3>7. QED
        BY <3>1, <3>4, <3>5, <3>6 DEF InStep
    <2>17. FlagsSay(r)'
      <3>1. /\ HostDone(r, 1) <= GpuDone(r, 1) /\ HostDone(r, 2) <= GpuDone(r, 2)
            /\ HostDone(r, 6) <= GpuDone(r, 4) /\ HostDone(r, 9) <= GpuDone(r, 5)
            /\ HostDone(r, 11) <= GpuDone(r, 7)
        BY <2>7 DEF InStep
      <3>2. /\ HostDone(r, 1) < GpuDone(r, 1) \/ n = 1 => HostDone(r, 1)' < GpuDone(r, 1)'
            /\ HostDone(r, 2) < GpuDone(r, 2) \/ n = 2 => HostDone(r, 2)' < GpuDone(r, 2)'
            /\ HostDone(r, 6) < GpuDone(r, 4) \/ n = 4 => HostDone(r, 6)' < GpuDone(r, 4)'
            /\ HostDone(r, 9) < GpuDone(r, 5) \/ n = 5 => HostDone(r, 9)' < GpuDone(r, 5)'
            /\ HostDone(r, 11) < GpuDone(r, 7) \/ n = 7 => HostDone(r, 11)' < GpuDone(r, 7)'
        <4>1. /\ HostDone(r, 1) \in Nat /\ HostDone(r, 6) \in Nat /\ HostDone(r, 9) \in Nat
              /\ HostDone(r, 11) \in Nat /\ GpuDone(r, 1) \in Nat
          BY <2>7 DEF CountsType
        <4>2. QED
          BY <2>6, <2>8, <3>1, <4>1, SMT
      <3>3. /\ "dispatch_route_done" \in flags'[r] => "dispatch_route_done" \in flags[r] \/ n = 1
            /\ "dispatch_send_done" \in flags'[r] => "dispatch_send_done" \in flags[r] \/ n = 2
            /\ "dispatch_recv_done" \in flags'[r] => "dispatch_recv_done" \in flags[r] \/ n = 4
            /\ "combine_send_done" \in flags'[r] => "combine_send_done" \in flags[r] \/ n = 5
            /\ "combine_recv_done" \in flags'[r] => "combine_recv_done" \in flags[r] \/ n = 7
        BY <2>5 DEF KernelDoes
      <3>4. /\ "num_recv_tokens_flag" \in flags'[r] => n # 4 /\ "num_recv_tokens_flag" \in flags[r]
            /\ "dispatch_recv_flag" \in flags'[r] => n # 4 /\ "dispatch_recv_flag" \in flags[r]
            /\ "combine_recv_flag" \in flags'[r] => n # 7 /\ "combine_recv_flag" \in flags[r]
            /\ "tx_ready" \in flags'[r] => n # 6 /\ "tx_ready" \in flags[r]
        BY <2>5 DEF KernelDoes, DoneFlags
      <3>5. /\ "dispatch_route_done" \in flags'[r] => r \in stopped' \/ HostDone(r, 1)' < GpuDone(r, 1)'
            /\ "dispatch_send_done" \in flags'[r] => r \in stopped' \/ HostDone(r, 2)' < GpuDone(r, 2)'
            /\ "dispatch_recv_done" \in flags'[r] => r \in stopped' \/ HostDone(r, 6)' < GpuDone(r, 4)'
            /\ "combine_send_done" \in flags'[r] => r \in stopped' \/ HostDone(r, 9)' < GpuDone(r, 5)'
            /\ "combine_recv_done" \in flags'[r] => r \in stopped' \/ HostDone(r, 11)' < GpuDone(r, 7)'
        BY <2>7, <3>2, <3>3 DEF FlagsSay
      <3>6. /\ "num_recv_tokens_flag" \in flags'[r] => GpuDone(r, 4)' < HostDone(r, 4)'
            /\ "dispatch_recv_flag" \in flags'[r] => GpuDone(r, 4)' < HostDone(r, 5)'
            /\ "combine_recv_flag" \in flags'[r] => GpuDone(r, 7)' < HostDone(r, 10)'
            /\ "tx_ready" \in flags'[r] =>
                    HostDone(r, 2)' < round'[r] \/ GpuDone(r, 6)' < HostDone(r, 8)'
        BY <2>6, <2>7, <3>4 DEF FlagsSay
      <3>7. QED
        BY <3>5, <3>6 DEF FlagsSay
    <2>18. BufferHolds(r)'
      <3>1. CASE n = 2
        <4>1. send_buffer'[r] = <<"dispatch", gpu_round[r]>>
          BY <3>1 DEF Types, KernelDoes
        <4>2. GpuDone(r, 2)' = gpu_round[r] /\ GpuDone(r, 5)' < gpu_round[r] /\ gpu_round[r] # 0
          <5>1. GpuDone(r, 5) <= GpuDone(r, 2) /\ GpuDone(r, 5)' = GpuDone(r, 5)
            BY <2>6, <3>1, GpuOrder, SMT
          <5>2. GpuDone(r, 2)' = GpuDone(r, 2) + 1 /\ GpuDone(r, 2) + 1 = gpu_round[r]
            BY <2>4, <2>6, <3>1
          <5>3. QED
            BY <2>3, <2>8, <5>1, <5>2, SMT
        <4>3. Holds(GpuDone(r, 2)', GpuDone(r, 5)') = <<"dispatch", gpu_round[r]>>
          BY <4>2, <2>3 DEF Holds
        <4>4. QED
          BY <4>1, <4>3 DEF BufferHolds
      <3>2. CASE n = 5
        <4>1. send_buffer'[r] = <<"combine", gpu_round[r]>>
          <5>1. send_buffer' = [send_buffer EXCEPT ![r] = <<"combine", gpu_round[r]>>]
            BY <3>2, SMT DEF KernelDoes
          <5>2. QED
            BY <5>1 DEF Types
        <4>2. GpuDone(r, 2)' = gpu_round[r] /\ GpuDone(r, 5)' = gpu_round[r] /\ gpu_round[r] # 0
          <5>1. GpuDone(r, 2) = gpu_round[r] /\ GpuDone(r, 5) + 1 = gpu_round[r]
            BY <2>4, <3>2, SMT
          <5>2. GpuDone(r, 2)' = GpuDone(r, 2) /\ GpuDone(r, 5)' = GpuDone(r, 5) + 1
            BY <2>6, <3>2, SMT
          <5>3. QED
            BY <2>3, <5>1, <5>2, SMT
        <4>3. Holds(GpuDone(r, 2)', GpuDone(r, 5)') = <<"combine", gpu_round[r]>>
          BY <4>2, <2>3, SMT DEF Holds
        <4>4. QED
          BY <4>1, <4>3 DEF BufferHolds
      <3>3. CASE n \notin {2, 5}
        <4>1. GpuDone(r, 2)' = GpuDone(r, 2) /\ GpuDone(r, 5)' = GpuDone(r, 5)
          BY <2>6, <3>3
        <4>2. send_buffer' = send_buffer
          BY <3>3 DEF KernelDoes
        <4>3. QED
          BY <1>1, <4>1, <4>2 DEF InRank, BufferHolds
      <3>4. QED
        BY <3>1, <3>2, <3>3
    <2>19. QED
      BY <1>3, <2>16, <2>17, <2>18 DEF InRank
  <1>4. QED
    BY <1>2, <1>3

\* Nobody does a counted step; a flag that is raised says the truth.
LEMMA OtherRanked ==
    ASSUME Types, Ranked, HostStays, GpuStays,
           UNCHANGED <<round, gpu, send_buffer>>, stopped \subseteq stopped',
           NEW r \in Rank, NEW S, flags' = [flags EXCEPT ![r] = @ \cup S],
           \A q \in stopped' : gpu[q] = "finished",
           \/ S \subseteq DoneFlags /\ r \in stopped'
           \/ S \subseteq {"dispatch_recv_flag"} /\ GpuDone(r, 4) < HostDone(r, 5)
    PROVE  Ranked'
  <1> SUFFICES ASSUME NEW q \in Rank PROVE InRank(q)'
    BY Zenon DEF Ranked, InRank
  <1>1. InRank(q) /\ InRank(r)
    BY Zenon DEF Ranked, InRank
  <1>2. /\ \A i \in 1..13 : HostDone(q, i)' = HostDone(q, i)
        /\ \A i \in 1..7 : GpuDone(q, i)' = GpuDone(q, i)
    BY Zenon DEF HostStays, GpuStays
  <1>3. InStep(q)'
    BY <1>1, <1>2 DEF InRank, InStep
  <1>4. FlagsSay(q)'
    <2>1. flags'[q] = IF q = r THEN flags[q] \cup S ELSE flags[q]
      BY Zenon DEF Types
    <2>2. QED
      BY <1>1, <1>2, <2>1 DEF InRank, FlagsSay, DoneFlags
  <1>5. BufferHolds(q)'
    <2>1. GpuDone(q, 2)' = GpuDone(q, 2) /\ GpuDone(q, 5)' = GpuDone(q, 5)
      BY <1>2
    <2>2. QED
      BY <1>1, <2>1, Zenon DEF InRank, BufferHolds
  <1>6. QED
    BY <1>3, <1>4, <1>5, Zenon DEF InRank

\* Nobody does a counted step and no flag is raised.
LEMMA StillRanked ==
    ASSUME Ranked, HostStays, GpuStays, UNCHANGED <<round, gpu, send_buffer, stopped>>,
           flags' = flags
    PROVE  Ranked'
  <1>1. ASSUME NEW q \in Rank PROVE InRank(q)'
    <2>1. InRank(q)
      BY Zenon DEF Ranked, InRank
    <2>2. QED
      BY <2>1, RankFrame, Zenon DEF HostStays, GpuStays
  <1>2. QED
    BY <1>1, Zenon DEF Ranked, InRank

----------------------------------------------------------------------------
(* What the steps do, by their numbers.                                     *)

\* Numbers of steps.
LEMMA Counting ==
    /\ 4 = 3 + 1 /\ 6 = 5 + 1 /\ 8 = 7 + 1 /\ 9 = 8 + 1 /\ 11 = 10 + 1 /\ 13 = 12 + 1
    /\ 2 = 1 + 1 /\ 3 = 2 + 1 /\ 5 = 4 + 1 /\ 7 = 6 + 1
    /\ 3 # 13 /\ 5 # 13 /\ 7 # 13 /\ 8 # 13 /\ 10 # 13 /\ 12 # 13
    /\ 1 # 7 /\ 2 # 7 /\ 3 # 7 /\ 4 # 7 /\ 5 # 7 /\ 6 # 7
    /\ 10 \in 1..13 /\ 10 < 11
  OBVIOUS

\* The steps of a host worker that wait for no flag.
LEMMA HostDoing ==
    ASSUME NEW r
    PROVE  /\ HostDoes(r, 3, {}, {}) /\ HostDoes(r, 7, {}, {}) /\ HostDoes(r, 12, {}, {})
           /\ HostDoes(r, 8, {}, {"tx_ready"}) /\ HostDoes(r, 13, {}, {"tx_ready"})
           /\ \A S \in SUBSET {"dispatch_recv_flag"} : HostDoes(r, 5, {}, S)
           /\ HostDoes(r, 10, {}, {"combine_recv_flag"})
  <1>1. HostDoes(r, 3, {}, {}) /\ HostDoes(r, 7, {}, {}) /\ HostDoes(r, 12, {}, {})
    BY DEF HostDoes
  <1>2. HostDoes(r, 8, {}, {"tx_ready"}) /\ HostDoes(r, 13, {}, {"tx_ready"})
    BY DEF HostDoes
  <1>3. ASSUME NEW S \in SUBSET {"dispatch_recv_flag"} PROVE HostDoes(r, 5, {}, S)
    BY DEF HostDoes
  <1>4. HostDoes(r, 10, {}, {"combine_recv_flag"})
    BY DEF HostDoes
  <1>5. QED
    BY <1>1, <1>2, <1>3, <1>4, Zenon

\* The steps of a host worker that send, and those that follow.
LEMMA SendNumbers ==
    /\ HostNo("route") = SentBy("route") /\ HostNo("send") = SentBy("route") + 1
    /\ HostNo("send") = SentBy("private") /\ HostNo("route_count") = SentBy("private") + 1
    /\ HostNo("dispatch") = SentBy("overflow")
    /\ HostNo("dispatch_wait") = SentBy("overflow") + 1
    /\ HostNo("dispatch_recv") = SentBy("dispatch_barrier")
    /\ HostNo("dispatch_barrier") = SentBy("dispatch_barrier") + 1
    /\ HostNo("combine_send") = SentBy("combine")
    /\ HostNo("combine_count") = SentBy("combine") + 1
    /\ HostNo("combine_recv") = SentBy("combine_barrier")
    /\ HostNo("combine_barrier") = SentBy("combine_barrier") + 1
  <1>1. /\ SentBy("route") = 1 /\ SentBy("private") = 2 /\ SentBy("overflow") = 4
        /\ SentBy("dispatch_barrier") = 6 /\ SentBy("combine") = 9
        /\ SentBy("combine_barrier") = 11
    BY DEF SentBy
  <1>2. 10 = 9 + 1 /\ 12 = 11 + 1
    OBVIOUS
  <1>3. QED
    BY <1>1, <1>2, HostNumbers, Counting, Zenon

\* The steps of the kernels.
LEMMA KernelDoing ==
    ASSUME NEW r
    PROVE  /\ send_buffer' = send_buffer => KernelDoes(r, 1, {}, {"dispatch_route_done"})
           /\ /\ "tx_ready" \in flags[r]
              /\ send_buffer' = [send_buffer EXCEPT ![r] = <<"dispatch", gpu_round[r]>>]
              => KernelDoes(r, 2, {}, {"dispatch_send_done"})
           /\ "num_recv_tokens_flag" \in flags[r] /\ send_buffer' = send_buffer
              => KernelDoes(r, 3, {}, {})
           /\ "dispatch_recv_flag" \in flags[r] /\ send_buffer' = send_buffer
              => KernelDoes(r, 4, {"num_recv_tokens_flag", "dispatch_recv_flag"},
                            {"dispatch_recv_done"})
           /\ /\ "tx_ready" \in flags[r]
              /\ send_buffer' = [send_buffer EXCEPT ![r] = <<"combine", gpu_round[r]>>]
              => KernelDoes(r, 5, {}, {"combine_send_done"})
           /\ send_buffer' = send_buffer => KernelDoes(r, 6, {"tx_ready"}, {})
           /\ "combine_recv_flag" \in flags[r] /\ send_buffer' = send_buffer
              => KernelDoes(r, 7, {"combine_recv_flag"}, {"combine_recv_done"})
  <1>1. send_buffer' = send_buffer => KernelDoes(r, 1, {}, {"dispatch_route_done"})
    BY DEF KernelDoes, DoneFlags
  <1>2. /\ "tx_ready" \in flags[r]
        /\ send_buffer' = [send_buffer EXCEPT ![r] = <<"dispatch", gpu_round[r]>>]
        => KernelDoes(r, 2, {}, {"dispatch_send_done"})
    BY DEF KernelDoes, DoneFlags
  <1>3. "num_recv_tokens_flag" \in flags[r] /\ send_buffer' = send_buffer
        => KernelDoes(r, 3, {}, {})
    BY DEF KernelDoes, DoneFlags
  <1>4. "dispatch_recv_flag" \in flags[r] /\ send_buffer' = send_buffer
        => KernelDoes(r, 4, {"num_recv_tokens_flag", "dispatch_recv_flag"},
                      {"dispatch_recv_done"})
    BY DEF KernelDoes, DoneFlags
  <1>5. /\ "tx_ready" \in flags[r]
        /\ send_buffer' = [send_buffer EXCEPT ![r] = <<"combine", gpu_round[r]>>]
        => KernelDoes(r, 5, {}, {"combine_send_done"})
    BY DEF KernelDoes, DoneFlags
  <1>6. send_buffer' = send_buffer => KernelDoes(r, 6, {"tx_ready"}, {})
    BY DEF KernelDoes, DoneFlags
  <1>7. "combine_recv_flag" \in flags[r] /\ send_buffer' = send_buffer
        => KernelDoes(r, 7, {"combine_recv_flag"}, {"combine_recv_done"})
    BY DEF KernelDoes, DoneFlags
  <1>8. QED
    BY <1>1, <1>2, <1>3, <1>4, <1>5, <1>6, <1>7, Zenon

----------------------------------------------------------------------------
(* Types after a step.                                                      *)

\* Flags that are lowered and raised.
LEMMA FlipFlags ==
    ASSUME Types, NEW r \in Rank, NEW C, NEW S \in SUBSET Flags, Flip(r, C, S)
    PROVE  /\ flags' \in [Rank -> SUBSET Flags]
           /\ \A q \in Rank : \A f \in flags'[q] : f \in flags[q] \/ (q = r /\ f \in S)
           /\ \A f \in C \ S : f \notin flags'[r]
  BY Zenon DEF Flip, Types

\* No flag is touched.
LEMMA FlipNothing ==
    ASSUME Types, NEW r \in Rank, flags' = flags
    PROVE  Flip(r, {}, {})
  BY Zenon DEF Flip, Types

\* A counter is changed by an integer.
LEMMA CounterTypes ==
    ASSUME Types, NEW r \in Rank, NEW c \in Counters, NEW i \in Int
    PROVE  /\ [counter EXCEPT ![r][c] = @ - i] \in [Rank -> [Counters -> Int]]
           /\ [counter EXCEPT ![r][c] = @ + i] \in [Rank -> [Counters -> Int]]
  BY DEF Types

\* A barrier takes from its counter and from that of the transfers.
LEMMA CounterPassed ==
    ASSUME Types, NEW r \in Rank, NEW c \in Counters \ {"tx"}, NEW i \in Int, NEW j \in Int,
           counter' = [counter EXCEPT ![r][c] = @ - i, ![r]["tx"] = @ - j]
    PROVE  /\ counter' \in [Rank -> [Counters -> Int]]
           /\ counter'[r][c] = counter[r][c] - i
           /\ \A q \in Rank, k \in Counters \ {"tx"} :
                  ~(q = r /\ k = c) => counter'[q][k] = counter[q][k]
  <1>1. counter \in [Rank -> [Counters -> Int]] /\ "tx" \in Counters
    BY Zenon DEF Types, Counters
  <1>2. QED
    BY <1>1

\* What most kernel steps leave alone.
LEMMA KernelFrame ==
    ASSUME Types
    PROVE  /\ landed' = landed =>
                landed' \in [Rank -> SUBSET Writes] /\ \A q \in Rank : landed'[q] \subseteq landed[q]
           /\ num_routed' = num_routed => num_routed' \in [Rank -> [Rank -> SUBSET Rank]]
  BY Zenon DEF Types, Writes, Rank

\* The round that a host worker is working on.
LEMMA WorkingRound ==
    ASSUME Types, Ranked, NEW r \in Rank,
           HostNo(host[r]) # 1 \/ HostDone(r, 1) < GpuDone(r, 1)
    PROVE  round[r] <= MaxRounds
  <1>1. Counts(r) /\ InStep(r)
    BY CountsHold, Zenon DEF Ranked
  <1>2. HostNo(host[r]) \in 1..13
    BY NumbersType, Zenon DEF Types
  <1>3. HostDone(r, 1) <= GpuDone(r, 1) /\ GpuDone(r, 1) <= MaxRounds
    BY <1>1, Zenon DEF InStep, Counts
  <1>4. CountsType(r) /\ MaxRounds \in Nat
    BY <1>1, AllToAllAssumption, Zenon DEF Counts
  <1>5. CASE HostNo(host[r]) # 1
    <2>1. HostDone(r, 1) = round[r]
      BY <1>2, <1>5, HostAt
    <2>2. QED
      BY <1>3, <1>4, <2>1 DEF CountsType
  <1>6. CASE HostNo(host[r]) = 1
    <2>1. HostDone(r, 1) + 1 = round[r]
      BY <1>6, HostAt, Zenon
    <2>2. QED
      BY <1>3, <1>4, <1>6, <2>1 DEF CountsType
  <1>7. QED
    BY <1>5, <1>6, Zenon

\* submit_transfer_atomic, well typed.
LEMMA SubmitTypes ==
    ASSUME Types, NEW r \in Rank, NEW kind \in Kinds, NEW T \in SUBSET Rank, NEW s \in 1..Nets,
           Submit(kind, r, T, s), round[r] <= MaxRounds
    PROVE  wire' \in SUBSET Writes /\ open' \in [Rank -> Nat]
  <1>1. round[r] \in 1..MaxRounds /\ 1..s \subseteq 1..Nets
    BY AllToAllAssumption DEF Types
  <1>2. WritesTo(kind, r, T, s) \subseteq Writes
    BY <1>1 DEF WritesTo, Writes
  <1>3. QED
    BY <1>2 DEF Submit, Types

\* A step of a host worker, well typed.
LEMMA HostTypes ==
    ASSUME Types, Ranked, NEW r \in Rank, NEW from \in HostNames, NEW to \in HostNames,
           Goto(r, from, to),
           UNCHANGED <<node_size, gpu, gpu_round, num_routed, send_buffer, landed, stopped>>,
           round' = IF HostNo(from) = 13 THEN [round EXCEPT ![r] = @ + 1] ELSE round,
           flags' \in [Rank -> SUBSET Flags], counter' \in [Rank -> [Counters -> Int]],
           wire' \in SUBSET Writes, open' \in [Rank -> Nat]
    PROVE  Types'
  <1>1. host' \in [Rank -> HostNames]
    BY Zenon DEF Types, Goto
  <1>2. round' \in [Rank -> 1..(MaxRounds + 1)]
    <2>1. CASE HostNo(from) = 13
      <3>1. round[r] <= MaxRounds
        BY <2>1, WorkingRound DEF Goto
      <3>2. QED
        BY <2>1, <3>1, AllToAllAssumption DEF Types
    <2>2. CASE HostNo(from) # 13
      BY <2>2, Zenon DEF Types
    <2>3. QED
      BY <2>1, <2>2, Zenon
  <1>3. QED
    BY <1>1, <1>2, Zenon DEF Types, Writes, Rank

\* A round that is not one too many.
LEMMA NotPast == \A m \in Nat : \A i \in 1..(m + 1) : i # m + 1 => i \in 1..m
  OBVIOUS

\* Counting rounds up to the last.
LEMMA OneMore == \A i, j \in Int : i + 1 = j + 1 <=> i = j
  OBVIOUS

\* A step of a kernel, well typed.
LEMMA GpuTypes ==
    ASSUME Types, NEW r \in Rank, NEW from \in GpuNames \ {"finished"}, NEW to \in GpuNames,
           Kernel(r, from, to),
           UNCHANGED <<node_size, host, round, counter, wire, open, stopped>>,
           \/ to # "finished" /\ gpu_round' = gpu_round
           \/ /\ to = (IF gpu_round[r] = MaxRounds THEN "finished" ELSE "dispatch_send")
              /\ gpu_round' = [gpu_round EXCEPT ![r] = @ + 1],
           flags' \in [Rank -> SUBSET Flags], num_routed' \in [Rank -> [Rank -> SUBSET Rank]],
           \/ send_buffer' = send_buffer
           \/ \E k \in {"dispatch", "combine"} :
                send_buffer' = [send_buffer EXCEPT ![r] = <<k, gpu_round[r]>>],
           \A q \in Rank : landed'[q] \subseteq landed[q], landed' \in [Rank -> SUBSET Writes]
    PROVE  Types'
  <1> USE Zenon
  <1>1. gpu' \in [Rank -> GpuNames] /\ gpu[r] = from /\ gpu'[r] = to
        /\ \A q \in Rank : q # r => gpu'[q] = gpu[q]
    BY DEF Types, Kernel
  <1>2. /\ gpu_round[r] \in 1..MaxRounds /\ gpu_round \in [Rank -> 1..(MaxRounds + 1)]
        /\ send_buffer \in [Rank -> {"dispatch", "combine", "none"} \X (0..MaxRounds)]
        /\ \A q \in Rank : gpu[q] = "finished" <=> gpu_round[q] = MaxRounds + 1
    <2>1. /\ gpu_round \in [Rank -> 1..(MaxRounds + 1)]
          /\ send_buffer \in [Rank -> {"dispatch", "combine", "none"} \X (0..MaxRounds)]
          /\ \A q \in Rank : gpu[q] = "finished" <=> gpu_round[q] = MaxRounds + 1
      BY DEF Types
    <2>2. gpu_round[r] # MaxRounds + 1
      BY <1>1, <2>1
    <2>3. gpu_round[r] \in 1..MaxRounds
      BY <2>1, <2>2, NotPast, AllToAllAssumption
    <2>4. QED
      BY <2>1, <2>3
  <1>3. send_buffer' \in [Rank -> {"dispatch", "combine", "none"} \X (0..MaxRounds)]
    <2>1. CASE send_buffer' = send_buffer
      BY <1>2, <2>1
    <2>2. CASE \E k \in {"dispatch", "combine"} :
                send_buffer' = [send_buffer EXCEPT ![r] = <<k, gpu_round[r]>>]
      <3>1. PICK k \in {"dispatch", "combine"} :
                send_buffer' = [send_buffer EXCEPT ![r] = <<k, gpu_round[r]>>]
        BY <2>2
      <3>2. <<k, gpu_round[r]>> \in {"dispatch", "combine", "none"} \X (0..MaxRounds)
        BY <1>2, AllToAllAssumption, SMT
      <3>3. QED
        BY <1>2, <3>1, <3>2
    <2>3. QED
      BY <2>1, <2>2
  <1>4. gpu_round' \in [Rank -> 1..(MaxRounds + 1)]
        /\ \A q \in Rank : gpu'[q] = "finished" <=> gpu_round'[q] = MaxRounds + 1
    <2>1. CASE to # "finished" /\ gpu_round' = gpu_round
      BY <1>1, <1>2, <2>1, AllToAllAssumption
    <2>2. CASE /\ to = (IF gpu_round[r] = MaxRounds THEN "finished" ELSE "dispatch_send")
               /\ gpu_round' = [gpu_round EXCEPT ![r] = @ + 1]
      <3>1. gpu_round' \in [Rank -> 1..(MaxRounds + 1)]
        BY <1>2, <2>2, AllToAllAssumption, SMT
      <3>2. gpu_round'[r] = gpu_round[r] + 1
        BY <1>2, <2>2
      <3>3. gpu_round'[r] = MaxRounds + 1 <=> gpu_round[r] = MaxRounds
        <4>1. gpu_round[r] \in Int /\ MaxRounds \in Int
          BY <1>2, AllToAllAssumption, SMT
        <4>2. QED
          BY <3>2, <4>1, OneMore
      <3>4. gpu'[r] = "finished" <=> gpu_round[r] = MaxRounds
        BY <1>1, <2>2
      <3>5. \A q \in Rank : q # r => gpu_round'[q] = gpu_round[q]
        BY <1>2, <2>2
      <3>6. QED
        BY <1>1, <1>2, <3>1, <3>3, <3>4, <3>5, ZenonT(40)
    <2>3. QED
      BY <2>1, <2>2
  <1>5. QED
    BY <1>1, <1>3, <1>4 DEF Types, Writes, Rank

\* A step of the network or of the application, well typed.
LEMMA OtherTypes ==
    ASSUME Types, UNCHANGED <<node_size, host, round, gpu, gpu_round, send_buffer>>,
           flags' \in [Rank -> SUBSET Flags], counter' \in [Rank -> [Counters -> Int]],
           num_routed' \in [Rank -> [Rank -> SUBSET Rank]],
           landed' \in [Rank -> SUBSET Writes], wire' \in SUBSET Writes,
           open' \in [Rank -> Nat], stopped' \in SUBSET Rank
    PROVE  Types'
  BY Zenon DEF Types, Writes, Rank

----------------------------------------------------------------------------
(* A host worker goes on, a kernel runs.                                    *)

\* The host worker of r begins its next round.
BeginsRound(r) == round' = [round EXCEPT ![r] = @ + 1]

\* A host worker goes on without sending.
LEMMA HostGoesOn ==
    ASSUME Inv, node_size' = node_size, NEW r \in Rank,
           NEW from \in HostNames, NEW to \in HostNames, Goto(r, from, to),
           NEW n, HostNo(from) = n, n \in {3, 4, 5, 7, 8, 10, 12, 13},
           \/ n # 13 /\ HostNo(to) = n + 1 /\ round' = round
           \/ n = 13 /\ HostNo(to) = 1 /\ BeginsRound(r),
           UNCHANGED <<gpu, gpu_round, num_routed, send_buffer, landed, wire, open, stopped>>,
           counter' \in [Rank -> [Counters -> Int]],
           NEW C, NEW S, Flip(r, C, S), HostDoes(r, n, C, S)
    PROVE  /\ HostStep(r, n) /\ GpuStays /\ HostNo(host[r]) = n /\ Types' /\ Ranked'
           /\ \A q \in Rank : "dispatch_recv_flag" \in flags'[q] =>
                "dispatch_recv_flag" \in flags[q] \/ (q = r /\ "dispatch_recv_flag" \in S)
  <1> USE Zenon
  <1>1. Types /\ Ranked
    BY DEF Inv
  <1>2. HostStep(r, n) /\ GpuStays /\ HostNo(host[r]) = n
    <2>1. HostStep(r, HostNo(from))
      BY <1>1, HostAdvances DEF BeginsRound
    <2>2. QED
      BY <2>1, Stays DEF Goto
  <1>3. S \in SUBSET Flags
    BY DEF HostDoes, Flags
  <1>4. /\ flags' \in [Rank -> SUBSET Flags]
        /\ \A q \in Rank : "dispatch_recv_flag" \in flags'[q] =>
                "dispatch_recv_flag" \in flags[q] \/ (q = r /\ "dispatch_recv_flag" \in S)
    BY <1>1, <1>3, FlipFlags
  <1>5. Types'
    <2>1. wire' \in SUBSET Writes /\ open' \in [Rank -> Nat]
      BY <1>1 DEF Types
    <2>2. round' = IF HostNo(from) = 13 THEN [round EXCEPT ![r] = @ + 1] ELSE round
      BY DEF BeginsRound
    <2>3. QED
      BY <1>1, <1>4, <2>1, <2>2, HostTypes
  <1>6. Ranked'
    <2>1. n \in 1..13
      BY SMT
    <2>2. QED
      BY <1>1, <1>2, <2>1, HostRanked DEF BeginsRound
  <1>7. QED
    BY <1>2, <1>4, <1>5, <1>6

\* A kernel of r does step n.
LEMMA KernelStep ==
    ASSUME Inv, node_size' = node_size, NEW r \in Rank, NEW from \in GpuNames \ {"finished"},
           NEW to \in GpuNames, Kernel(r, from, to), NEW n, GpuNo(from) = n,
           \/ n # 7 /\ to # "finished" /\ GpuNo(to) = n + 1 /\ gpu_round' = gpu_round
           \/ /\ n = 7 /\ to = (IF gpu_round[r] = MaxRounds THEN "finished" ELSE "dispatch_send")
              /\ gpu_round' = [gpu_round EXCEPT ![r] = @ + 1],
           UNCHANGED <<host, round, counter, wire, open, stopped>>,
           num_routed' \in [Rank -> [Rank -> SUBSET Rank]],
           landed' \in [Rank -> SUBSET Writes], \A q \in Rank : landed'[q] \subseteq landed[q],
           NEW C, NEW S, Flip(r, C, S),
           KernelDoes(r, n, C, S)
    PROVE  /\ HostStays /\ GpuStep(r, n) /\ GpuNo(gpu[r]) = n /\ Types' /\ Ranked'
           /\ NoneReleased
           /\ "dispatch_recv_flag" \in C => "dispatch_recv_flag" \notin flags'[r]
  <1> USE Zenon
  <1>1. Types /\ Ranked
    BY DEF Inv
  <1>2. n \in 1..7 /\ GpuNo(gpu[r]) = n /\ gpu[r] # "finished"
        /\ \A q \in Rank : q # r => gpu'[q] = gpu[q]
    BY <1>1, NumbersType DEF Kernel, Types
  <1>3. HostStays
    BY Stays
  <1>4. GpuStep(r, n)
    <2>1. GpuStep(r, GpuNo(from))
      <3>1. \/ GpuNo(to) = GpuNo(from) + 1 /\ gpu_round' = gpu_round
            \/ /\ GpuNo(from) = 7 /\ GpuNo(to) = 1
               /\ gpu_round' = [gpu_round EXCEPT ![r] = @ + 1]
        BY GpuNumbers
      <3>2. from \in GpuNames
        OBVIOUS
      <3>3. QED
        BY <1>1, <3>1, <3>2, GpuAdvances
    <2>2. QED
      BY <2>1
  <1>5. S \in SUBSET Flags /\ "dispatch_recv_flag" \notin S
    BY DEF Flags, DoneFlags, KernelDoes
  <1>6. /\ flags' \in [Rank -> SUBSET Flags]
        /\ NoneReleased
        /\ "dispatch_recv_flag" \in C => "dispatch_recv_flag" \notin flags'[r]
    BY <1>1, <1>5, FlipFlags DEF NoneReleased
  <1>7. Types'
    <2>1. \/ to # "finished" /\ gpu_round' = gpu_round
          \/ /\ to = (IF gpu_round[r] = MaxRounds THEN "finished" ELSE "dispatch_send")
             /\ gpu_round' = [gpu_round EXCEPT ![r] = @ + 1]
      OBVIOUS
    <2>2. \/ send_buffer' = send_buffer
          \/ \E k \in {"dispatch", "combine"} :
                send_buffer' = [send_buffer EXCEPT ![r] = <<k, gpu_round[r]>>]
      BY DEF KernelDoes
    <2>3. QED
      BY <1>1, <1>6, <2>1, <2>2, GpuTypes
  <1>8. Ranked'
    BY <1>1, <1>2, <1>3, <1>4, GpuRanked
  <1>9. QED
    BY <1>2, <1>3, <1>4, <1>6, <1>7, <1>8

\* What a flag tells the worker of a rank that has not been stopped.
LEMMA FlagTells ==
    ASSUME Inv, NEW r \in Rank, r \notin stopped
    PROVE  /\ "dispatch_route_done" \in flags[r] => HostDone(r, 1) < GpuDone(r, 1)
           /\ "dispatch_send_done" \in flags[r] => HostDone(r, 2) < GpuDone(r, 2)
           /\ "dispatch_recv_done" \in flags[r] => HostDone(r, 6) < GpuDone(r, 4)
           /\ "combine_send_done" \in flags[r] => HostDone(r, 9) < GpuDone(r, 5)
           /\ "combine_recv_done" \in flags[r] => HostDone(r, 11) < GpuDone(r, 7)
  BY Zenon DEF Inv, Ranked, FlagsSay

\* A worker that is stopped is between two rounds, or in the last barrier.
LEMMA StoppedWhere ==
    ASSUME Inv, NEW r \in Rank, r \in stopped
    PROVE  /\ host[r] \notin {"send", "route_count", "dispatch", "dispatch_wait",
                              "dispatch_recv", "dispatch_barrier", "dispatch_tx",
                              "combine_send", "combine_count"}
           /\ GpuDone(r, 7) = MaxRounds /\ HostDone(r, 10) = MaxRounds
  BY StoppedLate, Zenon DEF Inv, Ranked, InRank

==============================================================================
