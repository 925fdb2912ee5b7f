----------------------------- MODULE IssueFlow ------------------------------
(***************************************************************************)
(* From GitHub to a dispatch: the poller of a repository compares the open *)
(* issues with its cache in two phases (collect, then commit and emit),    *)
(* the manager takes the events, runs the dependency maintenance once per  *)
(* cycle before the first of them, and lets the state machine dispatch     *)
(* what the recorded verdict does not block.  A periodic recovery          *)
(* dispatches cached issues that have no task, past the events.            *)
(*                                                                         *)
(* A label state is idle, work (an active state), forced (active with the  *)
(* override label) or done while the issue is open, and none, merged (a    *)
(* linked pull request closed it) or closed otherwise.  Label, creation and*)
(* resync events carry the labels and are handled alike; an event of       *)
(* issue 0 is EventPollCycleDone.  Pull requests are cached likewise and   *)
(* matter here only as a second listing that may fail.                     *)
(***************************************************************************)
EXTENDS Naturals, Sequences, FiniteSets

CONSTANTS
    Numbers,       \* issues of the repository
    DependsOn,     \* DependsOn[i]: the issues its body declares
    ListLimit,     \* issues that one listing returns at most
    QueueCap,      \* capacity of the event channel
    MaxBackoff,    \* ticks the poller pauses after a rate limit
    MaxMoves,      \* bound: changes of issues on GitHub
    MaxFaults,     \* bound: reads and writes that fail
    MaxReloads     \* bound: reloads or restarts

ASSUME FlowAssumption ==
    /\ Numbers \subseteq Nat \ {0} /\ DependsOn \in [Numbers -> SUBSET Numbers]
    /\ {ListLimit, QueueCap, MaxBackoff} \subseteq Nat \ {0} /\ {MaxMoves, MaxFaults, MaxReloads} \subseteq Nat

VARIABLES
    gh,          \* the issue on GitHub
    cached,      \* labels of the open issue in issue_cache, or none
    gate,        \* due when a resync may be emitted
    pollAt, snap, todo, pend,   \* the poll: what was listed, cache operations and events left
    pause,       \* backoff
    chan,        \* events on their way to the manager
    resolved,    \* depsResolvedThisCycle
    verdict, reaction,   \* issue_dependency_state
    tasked,      \* issues with a task
    delivered,   \* history: labels of the last event handled
    past,        \* history: the label states in which each issue has been
    unsaved,     \* history: issues of which a cache operation has failed
    moves, faults, reloads

pollVars == <<pollAt, snap, todo, pend, pause, gate>>
flowVars == <<gh, cached, pollVars, chan, resolved, verdict, reaction,
              tasked, delivered, past, unsaved, moves, faults, reloads>>

IsOpen(s) == s \in {"idle", "work", "forced", "done"}
IsActive(s) == s \in {"work", "forced"}
Met(i) == gh[i] = "forced" \/ \A d \in DependsOn[i] : gh[d] \in {"done", "merged"}

FlowInit ==
    /\ gh \in [Numbers -> {"idle", "work"}]
    /\ cached = [i \in Numbers |-> "none"] /\ gate = [i \in Numbers |-> "due"]
    /\ pollAt = "idle" /\ snap = [i \in Numbers |-> "none"] /\ todo = {} /\ pend = {} /\ pause = 0
    /\ chan = <<>> /\ resolved = FALSE
    /\ verdict = [i \in Numbers |-> "none"] /\ reaction = [i \in Numbers |-> FALSE]
    /\ tasked = {} /\ delivered = [i \in Numbers |-> "none"] /\ past = [i \in Numbers |-> {gh[i]}] /\ unsaved = {}
    /\ moves = 0 /\ faults = 0 /\ reloads = 0

-----------------------------------------------------------------------------
(* GitHub.                                                                 *)

Moves(i, s) ==
    /\ moves < MaxMoves /\ gh[i] # s /\ moves' = moves + 1
    /\ gh' = [gh EXCEPT ![i] = s] /\ past' = [past EXCEPT ![i] = @ \cup {s}]
    /\ UNCHANGED <<cached, pollVars, chan, resolved, verdict, reaction, tasked, delivered, unsaved, faults, reloads>>

-----------------------------------------------------------------------------
(* The poller.                                                             *)

\* Mutant: no resync of issues that are in the cache.
SnapshotNewOnly(i, s) == s # "idle" /\ cached[i] = "none"

\* An issue with labels is reported as a whole when it is new, and again
\* when a resync is due; otherwise only its label changes are.
Snapshot(i, s) == s # "idle" /\ (cached[i] = "none" \/ gate[i] = "due")

\* Phase 1: the listing and the differences to the cache.
ListIssues(shown) ==
    /\ pollAt = "idle" /\ pause = 0
    /\ shown \subseteq {i \in Numbers : IsOpen(gh[i])}
    /\ Cardinality(shown) = ListLimit \/ shown = {i \in Numbers : IsOpen(gh[i])}
    /\ Cardinality(shown) <= ListLimit
    /\ snap' = [i \in Numbers |-> IF i \in shown THEN gh[i] ELSE "none"]
    /\ pend' = {[issue |-> i, labels |-> gh[i], whole |-> Snapshot(i, gh[i])] :
                    i \in {j \in shown : cached[j] # gh[j] \/ Snapshot(j, gh[j])}}
    /\ pollAt' = "listed"
    /\ UNCHANGED <<gh, cached, todo, pause, gate, chan, resolved, verdict, reaction, tasked,
                   delivered, past, unsaved, moves, faults, reloads>>

Listed == {i \in Numbers : snap[i] # "none"}

\* Close detection, unless the listing may be truncated.
Closed == IF Cardinality(Listed) >= ListLimit THEN {} ELSE {i \in Numbers \ Listed : cached[i] # "none"}

\* The pull requests are listed too: all reads have succeeded.
ListPRs ==
    /\ pollAt = "listed" /\ pollAt' = "commit"
    /\ todo' = Listed \cup Closed
    /\ pend' = pend \cup {[issue |-> i, labels |-> "none", whole |-> FALSE] : i \in Closed}
    /\ pause' = 0
    /\ UNCHANGED <<gh, cached, snap, gate, chan, resolved, verdict, reaction, tasked,
                   delivered, past, unsaved, moves, faults, reloads>>

\* Mutant: what was collected is committed when the second listing fails.
ReadFailsHalfway(limited) ==
    /\ pollAt \in {"idle", "listed"} /\ pause = 0 /\ faults < MaxFaults /\ faults' = faults + 1
    /\ pollAt' = "idle" /\ pend' = {} /\ pause' = IF limited THEN MaxBackoff ELSE 0
    /\ cached' = [i \in Numbers |-> IF snap[i] # "none" THEN snap[i] ELSE cached[i]]
    /\ snap' = [i \in Numbers |-> "none"]
    /\ UNCHANGED <<gh, todo, gate, chan, resolved, verdict, reaction, tasked, delivered, past, unsaved, moves, reloads>>

\* A listing fails: nothing is committed; a rate limit starts the backoff
\* (always from 0, because there is no poll before it has run out).
ReadFails(limited) ==
    /\ pollAt \in {"idle", "listed"} /\ pause = 0 /\ faults < MaxFaults /\ faults' = faults + 1
    /\ pollAt' = "idle" /\ pend' = {} /\ pause' = IF limited THEN MaxBackoff ELSE 0
    /\ snap' = [i \in Numbers |-> "none"]
    /\ UNCHANGED <<gh, cached, todo, gate, chan, resolved, verdict, reaction, tasked, delivered,
                   past, unsaved, moves, reloads>>

\* Phase 2: the cache operations, one after the other; the error of one is
\* ignored, its events follow all the same.
CommitOp(i, failing) ==
    /\ pollAt = "commit" /\ i \in todo /\ todo' = todo \ {i}
    /\ faults' = (IF failing THEN faults + 1 ELSE faults) /\ faults' <= MaxFaults
    /\ cached' = IF failing THEN cached ELSE [cached EXCEPT ![i] = snap[i]]
    /\ unsaved' = IF failing THEN unsaved \cup {i} ELSE unsaved
    /\ gate' = [gate EXCEPT ![i] = CASE snap[i] = "none" -> IF failing THEN @ ELSE "due"
                                     [] snap[i] # "none" /\ (\E e \in pend : e.issue = i /\ e.whole) -> "recent"
                                     [] OTHER -> @]
    /\ UNCHANGED <<gh, pollAt, snap, pend, pause, chan, resolved, verdict, reaction, tasked, delivered,
                   past, moves, reloads>>

\* ... then the events, and EventPollCycleDone last.
Emit(e) ==
    /\ pollAt = "commit" /\ todo = {} /\ e \in pend /\ Len(chan) < QueueCap
    /\ chan' = Append(chan, e) /\ pend' = pend \ {e}
    /\ UNCHANGED <<gh, cached, pollAt, snap, todo, pause, gate, resolved, verdict, reaction,
                   tasked, delivered, past, unsaved, moves, faults, reloads>>

EmitDone ==
    /\ pollAt = "commit" /\ todo = {} /\ pend = {} /\ Len(chan) < QueueCap
    /\ chan' = Append(chan, [issue |-> 0, labels |-> "none", whole |-> FALSE])
    /\ pollAt' = "idle" /\ snap' = [i \in Numbers |-> "none"]
    /\ UNCHANGED <<gh, cached, todo, pend, pause, gate, resolved, verdict, reaction,
                   tasked, delivered, past, unsaved, moves, faults, reloads>>

\* The ticker counts a backoff down; the resync interval of an issue elapses.
BackoffTick ==
    /\ pause > 0 /\ pause' = pause - 1
    /\ UNCHANGED <<gh, cached, pollAt, snap, todo, pend, gate, chan, resolved, verdict, reaction,
                   tasked, delivered, past, unsaved, moves, faults, reloads>>

ResyncDue(i) ==
    /\ gate[i] = "recent" /\ gate' = [gate EXCEPT ![i] = "due"]
    /\ UNCHANGED <<gh, cached, pollAt, snap, todo, pend, pause, chan, resolved, verdict, reaction,
                   tasked, delivered, past, unsaved, moves, faults, reloads>>

-----------------------------------------------------------------------------
(* The dependency maintenance.                                             *)

\* A dependency that is open in the cache counts by its labels; any other is
\* read from GitHub.  unread is the set of issues whose read fails.
DepState(d, unread) ==
    CASE IsOpen(cached[d])                      -> IF cached[d] = "done" THEN "met" ELSE "unmet"
      [] ~IsOpen(cached[d]) /\ d \in unread     -> "unreadable"
      [] ~IsOpen(cached[d]) /\ d \notin unread  -> CASE gh[d] = "merged" -> "met"
                                                     [] gh[d] = "closed" -> "unmet"
                                                     [] OTHER            -> "unreadable"

\* buildResolveResult.
Judge(i, unread) ==
    LET states == {DepState(d, unread) : d \in DependsOn[i]}
    IN  IF cached[i] = "forced" THEN "override"
        ELSE IF "unreadable" \in states THEN "needs_human"
        ELSE IF "unmet" \in states THEN "blocked" ELSE "ready"

\* Mutant: a verdict that asks for a human does not gate.
GatedBlockedOnly(v) == v = "blocked"
Gated(v) == v \in {"blocked", "needs_human"}

\* EvaluateOpenIssues: issues without a declaration have no row; those that
\* a new verdict unblocks are returned.
Judged == {i \in Numbers : IsOpen(cached[i]) /\ DependsOn[i] # {}}
Unblocked(unread) == {i \in Judged : Gated(verdict[i]) /\ ~Gated(Judge(i, unread))}

\* An issue that is unblocked loses its cache entry, so that the next poll
\* reports it as new.  A reaction that could not be set is tried again.
Maintain(unread, mute) ==
    /\ verdict' = [i \in Numbers |-> IF i \in Judged THEN Judge(i, unread) ELSE verdict[i]]
    /\ cached' = [i \in Numbers |-> IF i \in Unblocked(unread) THEN "none" ELSE cached[i]]
    /\ reaction' = [i \in Numbers |-> IF IsOpen(cached'[i]) /\ verdict'[i] # "none" /\ ~mute
                                        THEN Gated(verdict'[i]) ELSE reaction[i]]

-----------------------------------------------------------------------------
(* The manager.                                                            *)

\* The state machine dispatches an active state that has no task, if the gate
\* lets it.
EventDispatches(i, labels, v) ==
    tasked' = IF IsActive(labels) /\ ~Gated(v) THEN tasked \cup {i} ELSE tasked

\* handleEvent; an error of the store ends the maintenance without a result.
HandleEvent(unread, mute, broken) ==
    /\ chan # <<>>
    /\ faults' = IF unread = {} /\ ~mute /\ ~broken THEN faults ELSE faults + 1
    /\ faults' <= MaxFaults
    /\ chan' = Tail(chan)
    /\ LET e == Head(chan) IN
        /\ IF ~resolved /\ ~broken THEN Maintain(unread, mute)
                                             ELSE UNCHANGED <<cached, verdict, reaction>>
        /\ resolved' = (e.issue # 0)
        /\ IF e.issue = 0 THEN UNCHANGED <<tasked, delivered>>
             ELSE EventDispatches(e.issue, e.labels, verdict'[e.issue]) /\ delivered' = [delivered EXCEPT ![e.issue] = e.labels]
    /\ UNCHANGED <<gh, pollVars, past, unsaved, moves, reloads>>

\* recoverOrphanedActiveStates, at the start of a runtime and periodically.
Recover(i) ==
    /\ IsActive(cached[i]) /\ i \notin tasked
    /\ EventDispatches(i, cached[i], verdict[i])
    /\ UNCHANGED <<gh, cached, pollVars, chan, resolved, verdict, reaction, delivered,
                   past, unsaved, moves, faults, reloads>>

\* StartOrUpdate, or a crash and a start: the old poller stops wherever it is,
\* events that have not reached the manager are lost; the new runtime knows
\* the database only.
Reload(kept) ==
    /\ reloads < MaxReloads /\ reloads' = reloads + 1
    /\ chan' = SubSeq(chan, 1, kept) /\ resolved' = FALSE
    /\ pollAt' = "idle" /\ snap' = [i \in Numbers |-> "none"] /\ todo' = {} /\ pend' = {} /\ pause' = 0
    /\ gate' = [i \in Numbers |-> "due"]
    /\ UNCHANGED <<gh, cached, verdict, reaction, tasked, delivered, past, unsaved, moves, faults>>

FlowNext ==
    \/ ListPRs \/ EmitDone \/ BackoffTick
    \/ \E i \in Numbers :
        \/ \E s \in {"work", "forced", "done", "merged", "closed"} : Moves(i, s)
        \/ ResyncDue(i) \/ Recover(i) \/ \E failing \in BOOLEAN : CommitOp(i, failing)
    \/ \E shown \in SUBSET Numbers : ListIssues(shown)
    \/ \E e \in pend : Emit(e)
    \/ \E unread \in SUBSET Numbers, mute, broken \in BOOLEAN : HandleEvent(unread, mute, broken)
    \/ \E limited \in BOOLEAN : ReadFails(limited)
    \/ \E kept \in 0..Len(chan) : Reload(kept)

\* The goroutines run on.
FlowFairness ==
    /\ WF_flowVars(BackoffTick) /\ WF_flowVars(EmitDone) /\ WF_flowVars(\E e \in pend : Emit(e))
    /\ WF_flowVars(ListPRs) /\ WF_flowVars(\E shown \in SUBSET Numbers : ListIssues(shown))
    /\ WF_flowVars(HandleEvent({}, FALSE, FALSE))
    /\ \A i \in Numbers : WF_flowVars(CommitOp(i, FALSE)) /\ WF_flowVars(ResyncDue(i))

FlowSpec == FlowInit /\ [][FlowNext]_flowVars /\ FlowFairness

-----------------------------------------------------------------------------
(* Properties.                                                             *)

\* Somebody has overridden the dependencies of the issue, or each of them has
\* been done or merged (at different times perhaps: the cache may hold labels
\* of different listings).
Cleared(i) == "forced" \in past[i] \/ \A d \in DependsOn[i] : {"done", "merged"} \cap past[d] # {}

\* An issue with a dependency that was never met and that nobody overrode is
\* dispatched only when no verdict was recorded for it yet: no order of
\* polls, stale events, reloads and failing reads gets it past a recorded
\* verdict, and an event never gets it past the maintenance of its cycle
\* unless that failed (handleEvent, runDependencyMaintenance, IsBlocked).
NoneSlipsPastAVerdict ==
    [][\A i \in tasked' \ tasked : Cleared(i) \/ verdict'[i] = "none"]_flowVars

\* As long as nothing was lost by a reload, what the cache says of an issue
\* has been handled once the poller and the manager are at rest: a failing
\* listing never leaves a change in the cache that was not reported (poll is
\* a two-phase snapshot).  After a failed cache operation it need not be so:
\* the cache is then behind the events, and a change back is not reported
\* before the next resync.
CacheIsDelivered ==
    reloads = 0 /\ pollAt = "idle" /\ chan = <<>> =>
        \A i \in Numbers \ unsaved : cached[i] # "none" => delivered[i] = cached[i]

\* An issue that stays in an active state while its dependencies stay met is
\* dispatched, whatever was lost, blocked or unreadable before (resync, cache
\* deletion on unblock, recovery).
ReadyIsDispatched ==
    \A i \in Numbers : <>[](IsActive(gh[i]) /\ Met(i)) => <>(i \in tasked)

\* "computes the blocked / ready / invalid verdict before the state machine
\* dispatches" (docs/implemented/issue-dependencies.md): an issue with
\* dependencies has a verdict when it is dispatched.
VerdictBeforeDispatch ==
    [][\A i \in tasked' \ tasked : DependsOn[i] = {} \/ verdict'[i] # "none"]_flowVars
=============================================================================
