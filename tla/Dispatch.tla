------------------------------ MODULE Dispatch ------------------------------
(***************************************************************************)
(* How one issue gets its tasks inside one coordinator: the event loop and *)
(* the periodic recovery call HandleEvent concurrently, the in-memory      *)
(* inflight group is what keeps them from dispatching twice, the router    *)
(* takes requests from a channel and inserts task rows, workers run and    *)
(* settle them, and MarkAgentCompleted resolves the group and dispatches   *)
(* the state that the agent moved the issue to, without waiting for the    *)
(* poller to see the label.                                                *)
(*                                                                         *)
(* An issue is in one workflow state at a time, named by its status label; *)
(* states without agents (blocked, done) are Idle states.  Rollouts are    *)
(* left out; claims are IssueClaim's subject, rows TaskQueue's.            *)
(***************************************************************************)
EXTENDS Naturals, Sequences, FiniteSets, SequencesExt

CONSTANTS
    Active,          \* workflow states with agents
    Idle,            \* workflow states without agents
    AgentsOf,        \* AgentsOf[s]: the agents of state s, in dispatch order
    JoinOf,          \* JoinOf[s]: "all_passed" or "any_passed"
    FirstState,      \* state the issue is in when the poller first sees it
    Nothing,         \* no state: before the poller saw the issue
    Threads,         \* the goroutines that dispatch
    MaxTransitions,  \* MaxTotalTransitions (15), the cap on state entries
    MaxAdvances,     \* bound: dispatches on completion (max_retries limits them)
    MaxResyncs,      \* bound: snapshot resyncs
    MaxDrops,        \* bound: requests the router drops
    MaxClears,       \* bound: clear-inflight calls of the operator
    MaxCrashes       \* bound: coordinator restarts

Slots(s) == ToSet(AgentsOf[s])
Agents == UNION {Slots(s) : s \in Active}

ASSUME DispatchAssumption ==
    /\ Active \cap Idle = {} /\ Nothing \notin Active \cup Idle
    /\ FirstState \in Active \cup Idle
    /\ \A s \in Active : /\ AgentsOf[s] \in Seq(Agents) /\ AgentsOf[s] # <<>>
                        /\ JoinOf[s] \in {"all_passed", "any_passed"}
    /\ {"loop", "completion"} \subseteq Threads
    /\ Threads \subseteq {"loop", "completion", "recovery"}
    /\ {MaxTransitions, MaxAdvances, MaxResyncs, MaxDrops, MaxClears, MaxCrashes} \subseteq Nat

VARIABLES
    label,        \* state label of the issue on the forge
    observed,     \* state label in the issue cache
    recovered,    \* processedEvents: recovery's event was handled in this poll cycle
    th,           \* what each thread is doing
    transitions,  \* total transitions counted
    inflight,     \* the inflight group of the issue
    groups,       \* number of groups opened
    chan,         \* the dispatch channel
    rows,         \* task rows of the issue, in order of creation
    latest,       \* latest[s][a]: id of the latest updated row of s and a, or 0
    signals,      \* settled rows, and the state label their worker saw, whose
                  \* MarkAgentCompleted is to come
    budget        \* faults and operator calls still to come

vars == <<label, observed, recovered, th, transitions, inflight, groups, chan,
          rows, latest, signals, budget>>

\* newDispatchGroup: id identifies the pointer.
Group(id, s, join, slots) ==
    [id |-> id, state |-> s, join |-> join, slots |-> slots, sent |-> {},
     ok |-> {}, bad |-> {}, tasks |-> {}]
NoGroup == Group(0, Nothing, "all_passed", {})

Idling == [pc |-> "idle", kind |-> "issue_created", state |-> Nothing, target |-> 0, todo |-> <<>>]

Init ==
    /\ label = FirstState /\ observed = Nothing
    /\ recovered = FALSE
    /\ th = [t \in Threads |-> Idling]
    /\ transitions = 0
    /\ inflight = NoGroup /\ groups = 0
    /\ chan = <<>>
    /\ rows = <<>> /\ signals = {}
    /\ latest = [s \in Active |-> [a \in Agents |-> 0]]
    /\ budget = [advance |-> MaxAdvances, resync |-> MaxResyncs, drop |-> MaxDrops,
                 clear |-> MaxClears, crash |-> MaxCrashes]

-----------------------------------------------------------------------------
(* Reading the task table.                                                 *)

HasAnyActiveTask == \E i \in DOMAIN rows : rows[i].status \in {"pending", "running"}

\* Set the status of row i, which is now the latest of its slot.
SetStatus(i, s) ==
    /\ rows' = [rows EXCEPT ![i].status = s]
    /\ latest' = [latest EXCEPT ![rows[i].state][rows[i].agent] = i]

KeepsLiveFailed(i, leased) ==
    i # 0 /\ rows[i].status \in {"pending", "completed", "failed"} \cup (IF leased THEN {"running"} ELSE {})

\* inflightTaskKeepsGroupLive; a running row does so until its lease is long
\* gone.
KeepsLive(i, leased) ==
    i # 0 /\ rows[i].status \in {"pending", "completed"} \cup (IF leased THEN {"running"} ELSE {})

\* inspectInflightTaskStatus: no slot has a row that keeps the group.  The
\* row of a slot is the latest of its state and agent, of whatever group.
Stale(g, leased) == g.id # 0 /\ \A a \in g.slots : ~KeepsLive(latest[g.state][a], leased)

-----------------------------------------------------------------------------
(* HandleEvent.  The poller's events are distinct within a poll cycle, so  *)
(* deduplication only ever stops the recovery's.                           *)

Begin(t, kind, s) ==
    /\ th[t].pc = "idle"
    /\ th' = [th EXCEPT ![t] = [Idling EXCEPT !.pc = "entering", !.kind = kind, !.state = s]]

\* The poller sees the issue for the first time, or another state label; it
\* has updated the cache before it emits the event.
PollChange ==
    /\ observed # label
    /\ observed' = label
    /\ Begin("loop", IF observed = Nothing THEN "issue_created" ELSE "label_added", label)
    /\ UNCHANGED <<label, recovered, transitions, inflight, groups, chan, rows, latest, signals, budget>>

\* A snapshot resync of an active state passes only when there is neither an
\* inflight group nor an active row.
PollResync ==
    /\ observed = label
    /\ budget.resync > 0
    /\ budget' = [budget EXCEPT !.resync = @ - 1]
    /\ th["loop"].pc = "idle"
    /\ IF label \in Active /\ (inflight.id # 0 \/ HasAnyActiveTask)
       THEN UNCHANGED th
       ELSE Begin("loop", "issue_resynced", label)
    /\ UNCHANGED <<label, observed, recovered, transitions, inflight, groups, chan, rows, latest, signals>>

\* recoverOrphanedActiveStates: an issue cached in an active state without
\* an active row is handled as if it had just been created.
RecoverOrphan ==
    /\ "recovery" \in Threads
    /\ observed \in Active
    /\ ~HasAnyActiveTask
    /\ ~recovered
    /\ recovered' = TRUE
    /\ Begin("recovery", "issue_created", observed)
    /\ UNCHANGED <<label, observed, transitions, inflight, groups, chan, rows, latest, signals, budget>>

\* ResetDedup.
PollCycleDone ==
    /\ th["loop"].pc = "idle"
    /\ recovered
    /\ recovered' = FALSE
    /\ UNCHANGED <<label, observed, th, transitions, inflight, groups, chan, rows, latest, signals, budget>>

\* State entry: a group of another state is forgotten; every entry but a
\* resync counts, and beyond the cap nothing is dispatched.
EnterState(t) ==
    /\ th[t].pc = "entering"
    /\ IF th[t].state \in Idle
       THEN /\ th' = [th EXCEPT ![t] = Idling]
            /\ UNCHANGED <<inflight, transitions>>
       ELSE /\ inflight' = IF inflight.state # th[t].state THEN NoGroup ELSE inflight
            /\ transitions' = IF th[t].kind = "issue_resynced" \/ transitions > MaxTransitions
                              THEN transitions ELSE transitions + 1
            /\ th' = IF th[t].kind # "issue_resynced" /\ transitions' > MaxTransitions
                     THEN [th EXCEPT ![t] = Idling]
                     ELSE [th EXCEPT ![t].pc = "inspecting"]
    /\ UNCHANGED <<label, observed, recovered, groups, chan, rows, latest, signals, budget>>

\* reconcileStaleInflight looks at the rows without holding the lock ...
InspectInflight(t) ==
    /\ th[t].pc = "inspecting"
    /\ \E leased \in BOOLEAN :
          th' = [th EXCEPT ![t] =
                    IF Stale(inflight, leased)
                    THEN [@ EXCEPT !.pc = "clearing", !.target = inflight.id]
                    ELSE [@ EXCEPT !.pc = "opening"]]
    /\ UNCHANGED <<label, observed, recovered, transitions, inflight, groups, chan, rows, latest, signals, budget>>

\* ... and clears the group if it is still the one it looked at.
ClearIfMatch(t) ==
    /\ th[t].pc = "clearing"
    /\ inflight' = IF inflight.id = th[t].target THEN NoGroup ELSE inflight
    /\ th' = [th EXCEPT ![t].pc = "opening", ![t].target = 0]
    /\ UNCHANGED <<label, observed, recovered, transitions, groups, chan, rows, latest, signals, budget>>

\* dispatchStateAgents opens a group unless there is one.
OpenGroup(t) ==
    /\ th[t].pc = "opening"
    /\ IF inflight.id # 0
       THEN /\ th' = [th EXCEPT ![t] = Idling]
            /\ UNCHANGED <<inflight, groups>>
       ELSE LET s == th[t].state IN
            /\ groups' = groups + 1
            /\ inflight' = Group(groups + 1, s, JoinOf[s], Slots(s))
            /\ th' = [th EXCEPT ![t].pc = "sending", ![t].todo = AgentsOf[s]]
    /\ UNCHANGED <<label, observed, recovered, transitions, chan, rows, latest, signals, budget>>

Sent(t) ==
    [th EXCEPT ![t] = IF Len(th[t].todo) = 1 THEN Idling
                      ELSE [th[t] EXCEPT !.todo = Tail(th[t].todo)]]

SendRequestAgain(t) ==
    LET s == th[t].state
        a == Head(th[t].todo)
        g == IF inflight.id = 0 THEN Group(groups + 1, s, "all_passed", {a}) ELSE inflight
    IN
    /\ th[t].pc = "sending"
    /\ th' = Sent(t)
    /\ IF g.state # s
       THEN UNCHANGED <<inflight, groups, chan>>
       ELSE /\ inflight' = [g EXCEPT !.sent = @ \cup {a}]
            /\ groups' = IF inflight.id = 0 THEN groups + 1 ELSE groups
            /\ chan' = Append(chan, [state |-> s, agent |-> a, group |-> g.id])
    /\ UNCHANGED <<label, observed, recovered, transitions, rows, latest, signals, budget>>

\* dispatchSingleAgent: mark the slot and send the request.  Whatever group
\* is inflight by then is used; without one a new group of this slot alone
\* is made.  A send that blocks on a full channel is a request the router
\* has not reached yet.
SendRequest(t) ==
    LET s == th[t].state
        a == Head(th[t].todo)
        g == IF inflight.id = 0 THEN Group(groups + 1, s, "all_passed", {a}) ELSE inflight
    IN
    /\ th[t].pc = "sending"
    /\ th' = Sent(t)
    /\ IF g.state # s \/ a \in g.sent
       THEN UNCHANGED <<inflight, groups, chan>>
       ELSE /\ inflight' = [g EXCEPT !.sent = @ \cup {a}]
            /\ groups' = IF inflight.id = 0 THEN groups + 1 ELSE groups
            /\ chan' = Append(chan, [state |-> s, agent |-> a, group |-> g.id])
    /\ UNCHANGED <<label, observed, recovered, transitions, rows, latest, signals, budget>>

-----------------------------------------------------------------------------
(* The router and the workers.                                             *)

RouteRequest ==
    /\ chan # <<>>
    /\ chan' = Tail(chan)
    /\ rows' = Append(rows, [state |-> Head(chan).state, agent |-> Head(chan).agent,
                             group |-> Head(chan).group, status |-> "pending"])
    /\ latest' = [latest EXCEPT ![Head(chan).state][Head(chan).agent] = Len(rows) + 1]
    /\ UNCHANGED <<label, observed, recovered, th, transitions, inflight, groups, signals, budget>>

\* decide refuses the request or InsertTask fails: only a log line is left.
DropRequest ==
    /\ chan # <<>>
    /\ budget.drop > 0
    /\ budget' = [budget EXCEPT !.drop = @ - 1]
    /\ chan' = Tail(chan)
    /\ UNCHANGED <<label, observed, recovered, th, transitions, inflight, groups, rows, latest, signals>>

ClaimRow(i) ==
    /\ rows[i].status = "pending"
    /\ SetStatus(i, "running")
    /\ UNCHANGED <<label, observed, recovered, th, transitions, inflight, groups, chan, signals, budget>>

\* A working agent (or a person) moves the issue to another state.
SetLabel(s) ==
    /\ s # label
    /\ \E i \in DOMAIN rows : rows[i].status = "running"
    /\ label' = s
    /\ UNCHANGED <<observed, recovered, th, transitions, inflight, groups, chan, rows, latest, signals, budget>>

\* A result is accepted; the completion signal follows in the same handler
\* and carries the labels that the worker read after the run.
SettleRow(i, s) ==
    /\ rows[i].status = "running"
    /\ SetStatus(i, s)
    /\ signals' = signals \cup {<<i, label>>}
    /\ UNCHANGED <<label, observed, recovered, th, transitions, inflight, groups, chan, budget>>

\* The reaper, or a failure of the launcher: the row fails without a signal.
FailRow(i) ==
    /\ rows[i].status = "running"
    /\ SetStatus(i, "failed")
    /\ UNCHANGED <<label, observed, recovered, th, transitions, inflight, groups, chan, signals, budget>>

-----------------------------------------------------------------------------
(* Completion and repair.                                                  *)

\* The group after the completion of row i: the slot's first result counts.
After(g, i) ==
    LET a == rows[i].agent
        first == a \notin g.ok \cup g.bad
    IN  [g EXCEPT !.tasks = @ \cup {i},
                  !.ok  = IF first /\ rows[i].status = "completed" THEN @ \cup {a} ELSE @,
                  !.bad = IF first /\ rows[i].status # "completed" THEN @ \cup {a} ELSE @]

Joined(g, h) ==
    CASE g.join = "any_passed" -> h.ok # g.ok \/ h.ok \cup h.bad = h.slots
      [] OTHER                 -> h.bad # g.bad \/ h.ok \cup h.bad = h.slots
Passed(g, h) == IF g.join = "any_passed" THEN h.ok # g.ok ELSE h.bad = {}

MarkAgentCompletedAnySlot(i, seen) ==
    /\ <<i, seen>> \in signals
    /\ signals' = signals \ {<<i, seen>>}
    /\ th["completion"].pc = "idle"
    /\ LET h == After(inflight, i)
           counts == inflight.id # 0 /\ i \notin inflight.tasks
       IN  inflight' = IF ~counts THEN inflight ELSE IF Joined(inflight, h) THEN NoGroup ELSE h
    /\ UNCHANGED <<label, observed, recovered, th, transitions, groups, chan, rows, latest, budget>>

\* A task counts once, for its slot if the group has it, and the join decides
\* whether the group ends.  When it ends and passed, and the worker saw the
\* issue in another active state, evaluateCompletionTransitions dispatches
\* that state, unless the workflow has no such transition or its retries are
\* used up.
MarkAgentCompleted(i, seen) ==
    /\ <<i, seen>> \in signals
    /\ signals' = signals \ {<<i, seen>>}
    /\ th["completion"].pc = "idle"
    /\ LET h      == After(inflight, i)
           counts == inflight.id # 0 /\ i \notin inflight.tasks
           slot   == rows[i].agent \in inflight.slots
           ends   == counts /\ slot /\ Joined(inflight, h)
       IN  /\ inflight' = IF ~counts THEN inflight
                          ELSE IF ~slot THEN [inflight EXCEPT !.tasks = @ \cup {i}]
                          ELSE IF ends THEN NoGroup ELSE h
           /\ \/ UNCHANGED <<th, budget>>
              \/ /\ ends /\ Passed(inflight, h)
                 /\ seen \in Active \ {inflight.state}
                 /\ budget.advance > 0
                 /\ budget' = [budget EXCEPT !.advance = @ - 1]
                 /\ th' = [th EXCEPT !["completion"] =
                              [Idling EXCEPT !.pc = "inspecting", !.state = seen]]
    /\ UNCHANGED <<label, observed, recovered, transitions, groups, chan, rows, latest>>

\* POST clear-inflight, the operator's escape hatch.
ClearInflight ==
    /\ inflight.id # 0
    /\ budget.clear > 0
    /\ budget' = [budget EXCEPT !.clear = @ - 1]
    /\ inflight' = NoGroup
    /\ UNCHANGED <<label, observed, recovered, th, transitions, groups, chan, rows, latest, signals>>

\* A crash loses all memory; the restart fails the running rows.
Restart ==
    /\ budget.crash > 0
    /\ budget' = [budget EXCEPT !.crash = @ - 1]
    /\ recovered' = FALSE /\ th' = [t \in Threads |-> Idling]
    /\ inflight' = NoGroup /\ chan' = <<>> /\ signals' = {}
    /\ rows' = [i \in DOMAIN rows |-> IF rows[i].status = "running"
                                      THEN [rows[i] EXCEPT !.status = "failed"] ELSE rows[i]]
    /\ latest' = [x \in Active |-> [a \in Agents |->
          LET hit == {i \in DOMAIN rows : /\ rows[i].status = "running"
                                          /\ rows[i].state = x /\ rows[i].agent = a}
          IN  IF hit = {} THEN latest[x][a] ELSE CHOOSE i \in hit : \A j \in hit : j <= i]]
    /\ UNCHANGED <<label, observed, transitions, groups>>

-----------------------------------------------------------------------------
RowStep(i) ==
    \/ ClaimRow(i)
    \/ \E s \in {"completed", "failed"} : SettleRow(i, s)
    \/ FailRow(i)
    \/ \E s \in Active \cup Idle : MarkAgentCompleted(i, s)

ThreadStep(t) ==
    \/ EnterState(t)
    \/ InspectInflight(t)
    \/ ClearIfMatch(t)
    \/ OpenGroup(t)
    \/ SendRequest(t)

Next ==
    \/ PollChange
    \/ PollResync
    \/ RecoverOrphan
    \/ PollCycleDone
    \/ \E t \in Threads : ThreadStep(t)
    \/ RouteRequest
    \/ DropRequest
    \/ \E i \in DOMAIN rows : RowStep(i)
    \/ \E s \in Active \cup Idle : SetLabel(s)
    \/ ClearInflight
    \/ Restart

Spec == Init /\ [][Next]_vars

\* Every dispatch sends at most one request per agent.
RowIds == 1..((MaxTransitions + MaxAdvances + MaxResyncs) * Max({Len(AgentsOf[s]) : s \in Active}))

(***************************************************************************)
(* Fairness: the poll and recovery tickers fire, HandleEvent calls, the    *)
(* router and the HTTP handlers finish, a running row is settled or reaped *)
(* (TaskQueue's RunningRowsMove) and pending rows are claimed.             *)
(***************************************************************************)
FairSpec ==
    /\ Spec
    /\ WF_vars(PollChange) /\ WF_vars(PollCycleDone) /\ WF_vars(RecoverOrphan)
    /\ \A t \in Threads : WF_vars(ThreadStep(t))
    /\ WF_vars(RouteRequest)
    /\ WF_vars(\E i \in DOMAIN rows, s \in Active \cup Idle : MarkAgentCompleted(i, s))
    /\ WF_vars(\E i \in DOMAIN rows : FailRow(i))
    /\ WF_vars(\E i \in DOMAIN rows : ClaimRow(i))

-----------------------------------------------------------------------------
\* Two requests or rows that the same group caused for the same agent.
SameSlot(x, y) == x.group = y.group /\ x.agent = y.agent

\* Every variable keeps its shape; a slot has one result.
TypeOK ==
    /\ label \in Active \cup Idle /\ observed \in Active \cup Idle \cup {Nothing}
    /\ recovered \in BOOLEAN
    /\ \A t \in Threads : /\ th[t].pc \in {"idle", "entering", "inspecting", "clearing", "opening", "sending"}
                          /\ th[t].pc = "sending" => th[t].todo # <<>> /\ th[t].state \in Active
    /\ transitions \in 0..(MaxTransitions + 1)
    /\ inflight.ok \cap inflight.bad = {} /\ inflight.ok \cup inflight.bad \subseteq inflight.slots
    /\ \A i \in DOMAIN rows : rows[i].status \in {"pending", "running", "completed", "failed"}
    /\ latest \in [Active -> [Agents -> 0..Len(rows)]]
    /\ signals \subseteq (DOMAIN rows) \X (Active \cup Idle)

\* The lock on the inflight map: although two HandleEvent calls send for the
\* same issue, and a call may go on sending into a group another call
\* opened after the first was cleared, no group dispatches an agent twice.
OncePerGroup ==
    /\ \A m, n \in DOMAIN chan : SameSlot(chan[m], chan[n]) => m = n
    /\ \A i, j \in DOMAIN rows : SameSlot(rows[i], rows[j]) => i = j
    /\ \A n \in DOMAIN chan, i \in DOMAIN rows : ~SameSlot(chan[n], rows[i])

\* "the periodic loop CANNOT double-dispatch in steady state" (REQ-152): there
\* are never two active rows for the same state and agent.
NoDoubleDispatch ==
    \A i, j \in DOMAIN rows :
        (/\ rows[i].status \in {"pending", "running"}
         /\ rows[j].status \in {"pending", "running"}
         /\ rows[i].state = rows[j].state /\ rows[i].agent = rows[j].agent) => i = j

\* Row i failed, is the latest of its slot, and its issue is still in the
\* state of the row.
Abandoned(i) ==
    /\ i \in DOMAIN rows
    /\ rows[i].status = "failed" /\ latest[rows[i].state][rows[i].agent] = i
    /\ observed = rows[i].state

BelowCap == transitions + Cardinality({t \in Threads : th[t].pc = "entering"}) < MaxTransitions

\* "once the reaper flips a zombie running row to failed, the next periodic
\* recovery tick re-emits EventIssueCreated so the state machine can dispatch
\* a fresh task": unless the entries counted or begun use up the cap, the
\* agent of an abandoned row gets another row or the issue moves on.
ReapedIsRedispatched ==
    \A i \in RowIds : (Abandoned(i) /\ BelowCap) ~> ~Abandoned(i)
=============================================================================
