---------------------------- MODULE SessionProxy ----------------------------
(***************************************************************************)
(* The session API of the coordinator.  Sessions live on the workers; the  *)
(* coordinator knows the registered workers, their live tunnels and which  *)
(* worker announced which session.  A listing asks all candidate workers   *)
(* at once, merges and pages their rows and keeps complete results for a   *)
(* short time.  A session is its creation time.                            *)
(***************************************************************************)
EXTENDS Integers, FiniteSets

CONSTANTS
    Workers,       \* worker ids
    Sessions,      \* sessions: distinct creation times
    OwnerOf,       \* function: session to the worker that has it
    Pages,         \* [offset, limit] of the requests; limit 0: none was given
    Lists,         \* listing requests
    SinglePod,     \* the coordinator shares its database with its worker
    MaxChanges     \* bound: changes of workers and tunnels

ASSUME ProxyAssumption ==
    /\ Sessions \subseteq Nat /\ IsFiniteSet(Sessions) /\ OwnerOf \in [Sessions -> Workers]
    /\ Pages \subseteq [offset: Nat, limit: Nat]
    /\ SinglePod \in BOOLEAN /\ MaxChanges \in Nat

Nobody == "nobody"

VARIABLES
    reg,       \* the workers table: "absent", "bare" (no audit URL) or "url"
    live,      \* workers with an endpoint in the tunnel registry
    reachable, \* workers whose audit server answers
    route,     \* session_routes: session to worker
    list,      \* the listing requests
    cache,     \* listings by page
    changes    \* changes left

proxyVars == <<reg, live, reachable, route, list, cache, changes>>

Held(w)    == {s \in Sessions : OwnerOf[s] = w}
LocalRows  == IF SinglePod THEN Sessions ELSE {}
NoEntry    == [rows |-> {0}, asked |-> {Nobody}]
IdleList   == [at |-> "idle", page |-> CHOOSE p \in Pages : TRUE, todo |-> {}, asked |-> {}, local |-> FALSE,
               rows |-> {}, offline |-> {}]

ProxyInit ==
    /\ reg = [w \in Workers |-> "absent"] /\ live = {} /\ reachable = {}
    /\ route = [s \in Sessions |-> Nobody]
    /\ list = [l \in Lists |-> IdleList]
    /\ cache = [p \in Pages |-> NoEntry]
    /\ changes = MaxChanges

Change == changes > 0 /\ changes' = changes - 1
DropCache == cache' = [p \in Pages |-> NoEntry]

-----------------------------------------------------------------------------
(* Workers and routes.                                                     *)

\* HandleRegisterWorker: the row, the routes of the sessions that run, which
\* leave existing ones alone, and the cache.
RegisterWorker(w, kind, running) ==
    /\ Change
    /\ reg' = [reg EXCEPT ![w] = kind]
    /\ route' = [s \in Sessions |-> IF s \in running /\ route[s] = Nobody THEN w ELSE route[s]]
    /\ DropCache
    /\ UNCHANGED <<live, reachable, list>>

UnregisterWorker(w) ==
    /\ Change /\ reg[w] # "absent"
    /\ reg' = [reg EXCEPT ![w] = "absent"]
    /\ DropCache
    /\ UNCHANGED <<live, reachable, route, list>>

\* The announcement of a new session, refused when the worker has no row.
AnnounceSession(s) ==
    /\ reg[OwnerOf[s]] # "absent" /\ route[s] = Nobody
    /\ route' = [route EXCEPT ![s] = OwnerOf[s]]
    /\ UNCHANGED <<reg, live, reachable, list, cache, changes>>

\* A tunnel or an audit server comes up or goes away.
TunnelFlips(w) ==
    /\ Change
    /\ live' = IF w \in live THEN live \ {w} ELSE live \cup {w}
    /\ UNCHANGED <<reg, reachable, route, list, cache>>

AuditFlips(w) ==
    /\ Change
    /\ reachable' = IF w \in reachable THEN reachable \ {w} ELSE reachable \cup {w}
    /\ UNCHANGED <<reg, live, route, list, cache>>

\* Mutant: the tunnel is assumed for every worker that registered with one.
ResolveByColumn(s) ==
    LET w == IF route[s] # Nobody THEN route[s] ELSE IF SinglePod THEN OwnerOf[s] ELSE Nobody IN
    IF w = Nobody \/ reg[w] = "absent" THEN [by |-> "local", worker |-> w]
    ELSE IF reg[w] = "bare" THEN [by |-> "tunnel", worker |-> w] ELSE [by |-> "url", worker |-> w]

\* Resolver.Resolve: where a request for one session goes.  A session that no
\* worker announced, and a worker without row, tunnel and URL, are looked for
\* in the local store.
Resolve(s) ==
    LET w == IF route[s] # Nobody THEN route[s] ELSE IF SinglePod THEN OwnerOf[s] ELSE Nobody IN
    IF w = Nobody \/ reg[w] = "absent" THEN [by |-> "local", worker |-> w]
    ELSE IF w \in live THEN [by |-> "tunnel", worker |-> w]
    ELSE IF reg[w] = "url" THEN [by |-> "url", worker |-> w] ELSE [by |-> "local", worker |-> w]

\* The answer to GET /sessions/{id}: the session or none.
Detail(s) ==
    LET to == Resolve(s) IN
    IF to.by = "local" THEN (IF s \in LocalRows THEN s ELSE -1)
    ELSE IF to.worker \notin (IF to.by = "url" THEN reachable ELSE live) THEN -1
    ELSE IF s \in Held(to.worker) THEN s ELSE -1

-----------------------------------------------------------------------------
(* Listing.                                                                *)

Newest(S, n) == {s \in S : Cardinality({t \in S : t > s}) < n}

\* Mutant: every worker gets the limit alone.
DownstreamLimitOnly(p) == p.limit

\* The offset is kept for the merged rows, so a worker has to send as many
\* rows as both together.
Downstream(p) == p.offset + p.limit

\* What a worker answers: its newest rows, and by default at most 50 of them,
\* which is more than there are here.
WorkerRows(w, p) == IF p.limit = 0 THEN Held(w) ELSE Newest(Held(w), Downstream(p))

\* The page of the merged rows.
Slice(S, p) ==
    LET rest == S \ Newest(S, p.offset) IN
    IF p.limit = 0 THEN rest ELSE Newest(rest, p.limit)

\* A complete result is served again until it expires.
CacheHit(l, p) ==
    /\ list[l].at = "idle" /\ cache[p] # NoEntry
    /\ list' = [list EXCEPT ![l] = [@ EXCEPT !.at = "done", !.page = p, !.rows = cache[p].rows, !.asked = cache[p].asked]]
    /\ UNCHANGED <<reg, live, reachable, route, cache, changes>>

CacheExpires(p) ==
    /\ cache[p] # NoEntry
    /\ cache' = [cache EXCEPT ![p] = NoEntry]
    /\ UNCHANGED <<reg, live, reachable, route, list, changes>>

\* Every registered worker is asked by tunnel or URL; those with neither
\* share one look into the local store.
FanOut(l, p) ==
    LET rowed  == {w \in Workers : reg[w] # "absent"}
        remote == {w \in rowed : w \in live \/ (reg[w] = "url" /\ ~SinglePod)} IN
    /\ list[l].at = "idle" /\ cache[p] = NoEntry
    /\ list' = [list EXCEPT ![l] = [at |-> "asking", page |-> p, todo |-> remote, asked |-> remote,
                                    local |-> rowed # remote, rows |-> {}, offline |-> {}]]
    /\ UNCHANGED <<reg, live, reachable, route, cache, changes>>

\* A worker answers, or it is offline: no tunnel any more, no server, a
\* timeout.
Answers(l, w) ==
    /\ list[l].at = "asking" /\ w \in list[l].todo /\ w \in live \cup reachable
    /\ list' = [list EXCEPT ![l] = [list[l] EXCEPT !.todo = @ \ {w}, !.rows = @ \cup WorkerRows(w, list[l].page)]]
    /\ UNCHANGED <<reg, live, reachable, route, cache, changes>>

IsOffline(l, w) ==
    /\ list[l].at = "asking" /\ w \in list[l].todo
    /\ list' = [list EXCEPT ![l] = [list[l] EXCEPT !.todo = @ \ {w}, !.offline = @ \cup {w}]]
    /\ UNCHANGED <<reg, live, reachable, route, cache, changes>>

\* Mutant: a result is kept although a worker was offline.
CacheableAlways(r) == TRUE

Cacheable(r) == r.offline = {}

\* All have answered: merge, sort, slice, and keep the result if it is whole.
Merge(l) ==
    LET r    == list[l]
        all  == r.rows \cup (IF r.local THEN (IF r.page.limit = 0 THEN LocalRows ELSE Newest(LocalRows, Downstream(r.page))) ELSE {})
        page == Slice(all, r.page) IN
    /\ r.at = "asking" /\ r.todo = {}
    /\ list' = [list EXCEPT ![l] = [list[l] EXCEPT !.at = "done", !.rows = page]]
    /\ cache' = IF Cacheable(r) THEN [cache EXCEPT ![r.page] = [rows |-> page, asked |-> r.asked]] ELSE cache
    /\ UNCHANGED <<reg, live, reachable, route, changes>>

-----------------------------------------------------------------------------
ProxyNext ==
    \/ \E w \in Workers : UnregisterWorker(w) \/ TunnelFlips(w) \/ AuditFlips(w)
    \/ \E w \in Workers, k \in {"bare", "url"} : \E running \in SUBSET Held(w) : RegisterWorker(w, k, running)
    \/ \E s \in Sessions : AnnounceSession(s)
    \/ \E l \in Lists, p \in Pages : CacheHit(l, p) \/ FanOut(l, p)
    \/ \E p \in Pages : CacheExpires(p)
    \/ \E l \in Lists, w \in Workers : Answers(l, w) \/ IsOffline(l, w)
    \/ \E l \in Lists : Merge(l)

ProxySpec == ProxyInit /\ [][ProxyNext]_proxyVars

-----------------------------------------------------------------------------
\* A page that flags no worker as offline is the page of all their sessions
\* together, whatever worker each row comes from, in whatever order they
\* answer, and also when it comes out of the cache.
PageIsGlobal ==
    \A l \in Lists :
        list[l].at = "done" /\ list[l].offline = {} /\ ~SinglePod
        => list[l].rows = Slice(UNION {Held(w) : w \in list[l].asked}, list[l].page)

\* A session whose worker announced it can be read whenever that worker has
\* a tunnel or an answering audit server at this moment, whatever it had when
\* it registered.
OwnerAnswers ==
    \A s \in Sessions :
        LET w == OwnerOf[s] IN
        route[s] # Nobody /\ reg[w] # "absent" /\ (w \in live \/ (reg[w] = "url" /\ w \in reachable))
        => Detail(s) = s
=============================================================================
