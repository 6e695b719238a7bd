---------------------------- MODULE DomainGroup ----------------------------
(***************************************************************************)
(* DomainGroup (fabric-lib/src/domain_group.rs) and the loop of            *)
(* worker_step (worker.rs) that drives it: a transfer is split into parts, *)
(* one write per domain or per target, and the group turns the domains'    *)
(* completions back into one outcome per transfer.                         *)
(*                                                                         *)
(* A domain is what WriteReporting promises of it: each accepted part is   *)
(* reported once as Transfer or once as Error, and a failed part may still *)
(* report Transfer later.                                                  *)
(***************************************************************************)
EXTENDS Integers, Sequences, FiniteSets

CONSTANTS
    N,          \* number of domains (NICs) in the group
    Ids,        \* transfer ids; the engine never reuses one
    Requests    \* the transfer requests that may be submitted under each id

Domains == 0..(N - 1)

RequestRecords ==
    [kind: {"imm", "single", "paged", "scatter"},
     routing: {"rr", "pinned", "peers", "bytes"}, domain: Nat,
     shards: Nat \ {0}, targets: Nat, pages: Nat,
     registered: BOOLEAN, valid: BOOLEAN]

\* DomainGroupRouting for an immediate or a single transfer,
\* GroupTransferRouting for a scatter; a paged transfer has no routing.  Two
\* requests are left out because the worker thread panics on them: an
\* immediate without targets (chunks of size 0) and a scatter through a domain
\* that does not exist (index out of bounds).
Submittable(req) ==
    /\ req \in RequestRecords
    /\ req.kind \in {"imm", "single"} => req.routing \in {"rr", "pinned"}
    /\ req.kind = "scatter" => req.routing \in {"peers", "bytes", "pinned"}
    /\ req.kind = "imm" => req.targets > 0
    /\ req.kind = "scatter" /\ req.routing = "pinned" => req.domain < N

ASSUME DomainGroupAssumption == N \in Nat \ {0}
ASSUME RequestsAssumption == \A t \in Ids : \A req \in Requests[t] : Submittable(req)

VARIABLES
    rr_next,        \* next domain of the round robin
    write_ops,      \* bookkeeping of the transfers being tracked
    active, failed, \* parts the domains work on, and failed parts that may
                    \* still report Transfer: indices into posted[t].parts
    completions,    \* completion queue of each domain
    posted,         \* parts ever submitted, by id (for the properties)
    returned,       \* entries handed to the completion channel, by id
    counted,        \* increments of the TransferCounter, by id
    phase, scan     \* where worker_step is, and the next domain of its scan

vars == <<rr_next, write_ops, active, failed, completions, posted, returned,
          counted, phase, scan>>

None == [num_used |-> 0, cnt |-> 0, atomic |-> FALSE, tracked |-> FALSE]

Lesser(a, b) == IF a < b THEN a ELSE b
DivCeil(a, b) == (a + b - 1) \div b

\* Len of divide_evenly(n, k), see EvenChunks of Sharding.
NumChunks(n, k) == IF n = 0 THEN 0 ELSE DivCeil(n, DivCeil(n, k))

----------------------------------------------------------------------------
(* Requests.  A request is a record with a field kind; a part is posted via *)
(* one domain and carries the memory descriptor and address of the domain   *)
(* it was built for.                                                        *)

Part(via, built) == [via |-> via, built |-> built]

\* submit_imm_transfer_request: chunks of imm_per_domain targets, chunk i on
\* domain first + i with the i-th address of the target.
ImmParts(m, first, per) ==
    [t \in 1..m |-> Part((first + (t - 1) \div per) % N, (t - 1) \div per)]

\* submit_single_transfer_request: the operation of shard i is built for the
\* round-robin (or pinned) domain, and the operations are zipped with the
\* domains from the first one on.
SingleParts(req) ==
    IF req.routing = "pinned" THEN <<Part(0, req.domain)>>
    ELSE [i \in 1..req.shards |-> Part(i - 1, (rr_next + i - 1) % N)]

\* submit_paged_transfer_request: one part per page range, round robin.
PagedParts(req) ==
    [i \in 1..NumChunks(req.pages, N) |->
        Part((rr_next + i - 1) % N, (rr_next + i - 1) % N)]

\* submit_scatter_transfer_request: peers or bytes sharded over all domains
\* from the first one on, or everything through one domain.
ScatterParts(req) ==
    CASE req.routing = "peers"  -> [i \in 1..NumChunks(req.targets, N) |-> Part(i - 1, i - 1)]
      [] req.routing = "bytes"  -> [i \in 1..N |-> Part(i - 1, i - 1)]
      [] req.routing = "pinned" -> <<Part(req.domain, req.domain)>>

PartsOf(req) ==
    CASE req.kind = "imm" /\ req.routing = "pinned" ->
            ImmParts(req.targets, req.domain, req.targets)
      [] req.kind = "imm" /\ req.routing = "rr" ->
            ImmParts(req.targets, rr_next, DivCeil(req.targets, N))
      [] req.kind = "single"  -> SingleParts(req)
      [] req.kind = "paged"   -> PagedParts(req)
      [] req.kind = "scatter" -> ScatterParts(req)

\* The round robin moves on by k domains.
Advance(k) == rr_next' = (rr_next + k) % N

\* How far a request moves the round robin when it is accepted.
RoundRobinSteps(req) ==
    CASE req.kind = "imm" /\ req.routing = "rr"    -> Lesser(N, req.targets)
      [] req.kind = "single" /\ req.routing = "rr" -> req.shards
      [] req.kind = "paged"                        -> NumChunks(req.pages, N)
      [] OTHER                                     -> 0

\* The routing checks: a pinned domain must exist, a single transfer has at
\* most one shard per domain, a round-robin immediate exactly one, and a
\* scatter at least one target.
RoutingOk(req) ==
    /\ req.routing = "pinned" /\ req.kind # "scatter" => req.domain < N
    /\ req.kind = "single" /\ req.routing = "rr" => req.shards <= N
    /\ req.kind = "imm" /\ req.routing = "rr" => req.shards = 1
    /\ req.kind = "scatter" => req.targets > 0

\* get_mem_desc finds the source buffer (an immediate has none).
SourceOk(req) == req.kind = "imm" \/ req.registered

\* A paged transfer of no pages never looks its source up.
NeedsSource(req) == req.kind = "paged" => req.pages > 0

Refused(req) == \/ ~req.valid
                \/ ~RoutingOk(req)
                \/ NeedsSource(req) /\ ~SourceOk(req)

\* What a refused request leaves behind: an immediate is booked before its
\* routing is checked and a paged transfer before its source is looked up.
BookedWhenRefused(req) ==
    CASE req.valid /\ req.kind = "imm"                      -> req.targets
      [] req.valid /\ req.kind = "paged" /\ ~SourceOk(req)  -> NumChunks(req.pages, N)
      [] OTHER                                              -> 0

\* The round robin moves before the source is looked up.
RoundRobinWhenRefused(req) ==
    IF /\ req.valid /\ RoutingOk(req)
       /\ req.kind = "paged" \/ (req.kind = "single" /\ req.routing = "rr")
    THEN 1 ELSE 0

----------------------------------------------------------------------------

\* A domain's report on part i of transfer t.  The code's entry has no part:
\* no step reads it.
Report(t, i, kind) == [id |-> t, part |-> i, kind |-> kind]
Reports == [id: Ids, part: Nat, kind: {"Transfer", "Error"}]

TypeOK ==
    /\ rr_next \in Domains
    /\ write_ops \in [Ids -> [tracked: BOOLEAN, atomic: BOOLEAN,
                              num_used: Nat, cnt: Nat]]
    /\ active \in [Ids -> SUBSET Nat]
    /\ failed \in [Ids -> SUBSET Nat]
    /\ completions \in [Domains -> Seq(Reports)]
    /\ posted \in [Ids -> [state: {"no", "accepted", "refused"},
                           atomic: BOOLEAN, parts: Seq([via: Domains, built: Domains])]]
    /\ returned \in [Ids -> Seq({"Transfer", "Error"})]
    /\ counted \in [Ids -> Seq({"done", "error"})]
    /\ phase \in {"command", "poll", "drain"}
    /\ scan \in 0..N

Init ==
    /\ rr_next = 0
    /\ write_ops = [t \in Ids |-> None]
    /\ active = [t \in Ids |-> {}]
    /\ failed = [t \in Ids |-> {}]
    /\ completions = [d \in Domains |-> <<>>]
    /\ posted = [t \in Ids |-> [state |-> "no", atomic |-> FALSE, parts |-> <<>>]]
    /\ returned = [t \in Ids |-> <<>>]
    /\ counted = [t \in Ids |-> <<>>]
    /\ phase = "command"
    /\ scan = 0

Track(t, n, atomic) ==
    write_ops' = [write_ops EXCEPT ![t] =
        [tracked |-> TRUE, num_used |-> n, cnt |-> 0, atomic |-> atomic]]

\* submit_transfer_request, accepted: booked, the round robin moved, the parts
\* handed to the domains.
Submit(t, req, atomic) ==
    /\ phase = "command"
    /\ posted[t].state = "no"
    /\ ~Refused(req)
    /\ LET parts == PartsOf(req) IN
        /\ Track(t, Len(parts), atomic)
        /\ active' = [active EXCEPT ![t] = DOMAIN parts]
        /\ posted' = [posted EXCEPT ![t] =
              [state |-> "accepted", atomic |-> atomic, parts |-> parts]]
    /\ Advance(RoundRobinSteps(req))
    /\ phase' = "poll"
    /\ UNCHANGED <<failed, completions, returned, counted, scan>>

\* submit_transfer_request, refused: worker_step reports the error itself, and
\* no TransferCounter moves.
SubmitRefused(t, req, atomic) ==
    /\ phase = "command"
    /\ posted[t].state = "no"
    /\ Refused(req)
    /\ IF BookedWhenRefused(req) > 0 THEN Track(t, BookedWhenRefused(req), atomic)
       ELSE UNCHANGED write_ops
    /\ Advance(RoundRobinWhenRefused(req))
    /\ posted' = [posted EXCEPT ![t].state = "refused", ![t].atomic = atomic]
    /\ returned' = [returned EXCEPT ![t] = Append(@, "Error")]
    /\ phase' = "poll"
    /\ UNCHANGED <<active, failed, completions, counted, scan>>

NoCommand ==
    /\ phase = "command"
    /\ phase' = "poll"
    /\ UNCHANGED <<rr_next, write_ops, active, failed, completions, posted,
                   returned, counted, scan>>

----------------------------------------------------------------------------
(* poll_progress: the domains report.                                       *)

PartCompletes(d, t, i) ==
    /\ phase = "poll"
    /\ i \in active[t] /\ posted[t].parts[i].via = d
    /\ active' = [active EXCEPT ![t] = @ \ {i}]
    /\ completions' = [completions EXCEPT ![d] = Append(@, Report(t, i, "Transfer"))]
    /\ UNCHANGED <<rr_next, write_ops, failed, posted, returned, counted, phase, scan>>

\* A part fails; if all of its operations were posted it may still complete.
PartFails(d, t, i) ==
    /\ phase = "poll"
    /\ i \in active[t] /\ posted[t].parts[i].via = d
    /\ active' = [active EXCEPT ![t] = @ \ {i}]
    /\ completions' = [completions EXCEPT ![d] = Append(@, Report(t, i, "Error"))]
    /\ \E late \in {{}, {i}} : failed' = [failed EXCEPT ![t] = @ \cup late]
    /\ UNCHANGED <<rr_next, write_ops, posted, returned, counted, phase, scan>>

FailedPartCompletes(d, t, i) ==
    /\ phase = "poll"
    /\ i \in failed[t] /\ posted[t].parts[i].via = d
    /\ failed' = [failed EXCEPT ![t] = @ \ {i}]
    /\ completions' = [completions EXCEPT ![d] = Append(@, Report(t, i, "Transfer"))]
    /\ UNCHANGED <<rr_next, write_ops, active, posted, returned, counted, phase, scan>>

PollDone ==
    /\ phase = "poll"
    /\ phase' = "drain"
    /\ scan' = 0
    /\ UNCHANGED <<rr_next, write_ops, active, failed, completions, posted,
                   returned, counted>>

----------------------------------------------------------------------------
(* get_completion, one domain of its scan at a time.  worker_step calls it  *)
(* until it returns None; a returned entry starts the scan over.            *)

\* The completion at the head of the queue the scan has come to.
Scanning(t, kind) ==
    /\ phase = "drain" /\ scan < N
    /\ completions[scan] # <<>>
    /\ Head(completions[scan]).id = t /\ Head(completions[scan]).kind = kind
    /\ completions' = [completions EXCEPT ![scan] = Tail(@)]

Untrack(t) == write_ops' = [write_ops EXCEPT ![t] = None]

\* Mutant: the bookkeeping of a failed transfer is kept.
ScanErrorKeepsBookkeeping(t) ==
    /\ Scanning(t, "Error")
    /\ counted' = IF write_ops[t].tracked /\ write_ops[t].atomic
                  THEN [counted EXCEPT ![t] = Append(@, "error")] ELSE counted
    /\ returned' = [returned EXCEPT ![t] = Append(@, "Error")]
    /\ scan' = 0
    /\ UNCHANGED <<rr_next, write_ops, active, failed, posted, phase>>

\* An error ends the tracking and counts once; it is always returned.
ScanError(t) ==
    /\ Scanning(t, "Error")
    /\ Untrack(t)
    /\ counted' = IF write_ops[t].tracked /\ write_ops[t].atomic
                  THEN [counted EXCEPT ![t] = Append(@, "error")] ELSE counted
    /\ returned' = [returned EXCEPT ![t] = Append(@, "Error")]
    /\ scan' = 0
    /\ UNCHANGED <<rr_next, active, failed, posted, phase>>

\* A completion of a transfer no longer tracked is skipped.
ScanStray(t) ==
    /\ Scanning(t, "Transfer")
    /\ ~write_ops[t].tracked
    /\ scan' = scan + 1
    /\ UNCHANGED <<rr_next, write_ops, active, failed, posted, returned, counted, phase>>

\* One part of several is done.
ScanPart(t) ==
    /\ Scanning(t, "Transfer")
    /\ write_ops[t].tracked
    /\ write_ops[t].cnt + 1 # write_ops[t].num_used
    /\ write_ops' = [write_ops EXCEPT ![t].cnt = @ + 1]
    /\ scan' = scan + 1
    /\ UNCHANGED <<rr_next, active, failed, posted, returned, counted, phase>>

\* Mutant: the first domain to finish completes the transfer.
IsLastFirst(t) == write_ops[t].tracked

IsLast(t) == /\ write_ops[t].tracked
             /\ write_ops[t].cnt + 1 = write_ops[t].num_used

\* The last part of a counted transfer: done() and None, so the drain ends.
ScanLastCounted(t) ==
    /\ Scanning(t, "Transfer")
    /\ IsLast(t) /\ write_ops[t].atomic
    /\ Untrack(t)
    /\ counted' = [counted EXCEPT ![t] = Append(@, "done")]
    /\ phase' = "command"
    /\ UNCHANGED <<rr_next, active, failed, posted, returned, scan>>

\* The last part of a transfer with a callback: Transfer is returned.
ScanLastReturned(t) ==
    /\ Scanning(t, "Transfer")
    /\ IsLast(t) /\ ~write_ops[t].atomic
    /\ Untrack(t)
    /\ returned' = [returned EXCEPT ![t] = Append(@, "Transfer")]
    /\ scan' = 0
    /\ UNCHANGED <<rr_next, active, failed, posted, counted, phase>>

\* Mutant: the scan ends at the first domain without a completion.
ScanEmptyEnds ==
    /\ phase = "drain" /\ scan < N
    /\ completions[scan] = <<>>
    /\ phase' = "command"
    /\ UNCHANGED <<rr_next, write_ops, active, failed, completions, posted,
                   returned, counted, scan>>

ScanEmpty ==
    /\ phase = "drain" /\ scan < N
    /\ completions[scan] = <<>>
    /\ scan' = scan + 1
    /\ UNCHANGED <<rr_next, write_ops, active, failed, completions, posted,
                   returned, counted, phase>>

\* No domain had an entry to return: None.
ScanEnd ==
    /\ phase = "drain" /\ scan = N
    /\ phase' = "command"
    /\ UNCHANGED <<rr_next, write_ops, active, failed, completions, posted,
                   returned, counted, scan>>

Worker ==
    \/ \E t \in Ids, atomic \in BOOLEAN : \E req \in Requests[t] :
            Submit(t, req, atomic) \/ SubmitRefused(t, req, atomic)
    \/ NoCommand
    \/ PollDone
    \/ \E t \in Ids : \/ ScanError(t) \/ ScanStray(t) \/ ScanPart(t)
                      \/ ScanLastCounted(t) \/ ScanLastReturned(t)
    \/ ScanEmpty
    \/ ScanEnd

PartReports(d, t) == \E i \in active[t] : PartCompletes(d, t, i) \/ PartFails(d, t, i)
LateReport(d, t) == \E i \in failed[t] : FailedPartCompletes(d, t, i)

Next ==
    \/ Worker
    \/ \E d \in Domains, t \in Ids : PartReports(d, t) \/ LateReport(d, t)

\* The worker thread never stops, and every part is eventually reported: what
\* WriteReporting promises of a domain.
Fairness ==
    /\ WF_vars(Worker)
    /\ \A d \in Domains, t \in Ids : SF_vars(PartReports(d, t))

Spec == Init /\ [][Next]_vars /\ Fairness

----------------------------------------------------------------------------
(* Properties.                                                              *)

\* The outcome of a transfer is told once: a counted transfer moves its
\* counter at most once, and an entry Transfer is never returned after an
\* error, before one, or twice, however the domains' reports interleave.
OneOutcome ==
    /\ TypeOK
    /\ \A t \in Ids :
        /\ Len(counted[t]) <= 1
        /\ \A i \in 1..Len(returned[t]) : returned[t][i] = "Transfer" =>
              Len(returned[t]) = 1 /\ ~posted[t].atomic

\* A report on part i of t waits in a completion queue.
Unread(t, i) ==
    \E kind \in {"Transfer", "Error"}, d \in Domains : \E k \in DOMAIN completions[d] :
        completions[d][k] = Report(t, i, kind)

Succeeded(t) == returned[t] = <<"Transfer">> \/ counted[t] = <<"done">>

\* "Return Transfer if all domains have completed the transfer": when a
\* transfer succeeds, no domain works on a part of it, none has failed one and
\* no report of it is unread.
SuccessMeansAllParts ==
    \A t \in Ids : Succeeded(t) =>
        /\ active[t] = {} /\ failed[t] = {}
        /\ \A i \in DOMAIN posted[t].parts : ~Unread(t, i)

\* Both: a transfer has one outcome, and success is what it says.
OutcomeSound == OneOutcome /\ SuccessMeansAllParts

\* An accepted transfer that is tracked always has a part that will move it on,
\* so its bookkeeping neither leaks nor waits for a completion that cannot come.
\* (A paged transfer of no pages has no part at all: see AcceptedIsResolved.)
TrackedIsPending ==
    \A t \in Ids :
        /\ write_ops[t].tracked
        /\ posted[t].state = "accepted" /\ posted[t].parts # <<>>
        => \E i \in DOMAIN posted[t].parts : i \in active[t] \/ Unread(t, i)

\* The group implements TransferOutcome: in particular a transfer that has
\* failed never succeeds, one that has succeeded never fails, and every
\* accepted transfer is resolved.
OutcomeOf(t) ==
    IF posted[t].state = "no" THEN "idle"
    ELSE IF Succeeded(t) THEN "succeeded"
    ELSE IF returned[t] # <<>> \/ counted[t] # <<>> THEN "failed"
    ELSE "running"

Abstract == INSTANCE TransferOutcome WITH outcome <- [t \in Ids |-> OutcomeOf(t)]

\* Every behaviour of the group is one of TransferOutcome, liveness included.
ImplementsTransferOutcome == Abstract!Spec

\* "Return Transfer if all domains have completed the transfer": an accepted
\* transfer does not stay unresolved, whatever its number of parts.
AcceptedIsResolved ==
    \A t \in Ids : posted[t].state = "accepted" ~> OutcomeOf(t) # "running"

\* "Transfer counter exposing a pollable interface to transfer completion":
\* a transfer submitted with a counter moves it in the end.
CounterMoves ==
    \A t \in Ids : (posted[t].state # "no" /\ posted[t].atomic) ~> counted[t] # <<>>

\* "Send the transfer via a specific domain" / "Domains are selected in a
\* round-robin manner": a part goes out on the domain it was built for, whose
\* memory descriptor it carries.
PostedWhereBuilt ==
    \A t \in Ids : \A i \in 1..Len(posted[t].parts) :
        posted[t].parts[i].via = posted[t].parts[i].built
============================================================================
