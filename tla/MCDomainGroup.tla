--------------------------- MODULE MCDomainGroup ---------------------------
(* Model-checking instances of DomainGroup.                                 *)
EXTENDS DomainGroup

CONSTANTS t1, t2   \* the transfer ids

Request == [kind |-> "imm", routing |-> "rr", domain |-> 0, shards |-> 1,
            targets |-> 1, pages |-> 0, registered |-> TRUE, valid |-> TRUE]

\* Requests of every kind and routing that are accepted and write something.
GoodRequests ==
    {Request,
     [Request EXCEPT !.routing = "pinned", !.domain = 1, !.targets = 2],
     [Request EXCEPT !.kind = "single", !.shards = 2],
     [Request EXCEPT !.kind = "paged", !.pages = 3],
     [Request EXCEPT !.kind = "scatter", !.routing = "bytes", !.targets = 2],
     [Request EXCEPT !.kind = "scatter", !.routing = "peers"],
     [Request EXCEPT !.kind = "scatter", !.routing = "pinned"]}

\* Requests refused at each of the points where a request can be.
BadRequests ==
    {[Request EXCEPT !.valid = FALSE],
     [Request EXCEPT !.shards = 2, !.targets = 2],
     [Request EXCEPT !.routing = "pinned", !.domain = N],
     [Request EXCEPT !.kind = "single", !.shards = N + 1],
     [Request EXCEPT !.kind = "single", !.registered = FALSE],
     [Request EXCEPT !.kind = "paged", !.pages = 3, !.registered = FALSE],
     [Request EXCEPT !.kind = "scatter", !.routing = "peers", !.targets = 0]}

\* A part on one domain, and a refused request.
FewRequests == {Request, [Request EXCEPT !.kind = "single", !.registered = FALSE]}

\* Every kind of request beside a few: the two ids overlap in every way.
EveryKind == [t \in Ids |-> IF t = t1 THEN GoodRequests \cup BadRequests ELSE FewRequests]

PinnedSingle == [t \in Ids |->
    {[Request EXCEPT !.kind = "single", !.routing = "pinned", !.domain = 1]}]

EmptyPaged == [t \in Ids |-> {[Request EXCEPT !.kind = "paged", !.pages = 0]}]
============================================================================
