# A TLA+ model of workbuddy

workbuddy turns GitHub issues into agent runs.  A *coordinator* polls the
issues of every registered repository, keeps a per-issue workflow state, decides
which agent has to run next and stores that decision as a row of a task table
(SQLite or MySQL).  *Workers* long-poll the coordinator, claim a row, run the
agent as a subprocess, send heartbeats while it runs and submit a result.  The
result drives the workflow to its next state.  A *supervisor* process on the
worker's host owns the agent subprocesses, so that they survive a restart of
the worker; a WebSocket tunnel carries session traffic back to the web UI.
Around these stand commands that an operator runs: serve, deploy, recover,
diagnose, migrate.

## Inventory

| Part | State it keeps | Operations | Talks to |
|---|---|---|---|
| Task queue (`internal/store`, `internal/app/coordinator.go`) | `task_queue` rows: status, worker, lease, heartbeat | insert, claim, heartbeat, release, settle, reap, recover, fail for a repository, operator finalisation | router (insert), workers (HTTP), reaper, start-up recovery |
| Worker (`cmd/worker.go`, `internal/worker`, `internal/workerclient`) | semaphore, running executions, submission attempts, bindings, configurations, token | poll, execute, heartbeat, submit with retry, release, drain on SIGTERM, change of bindings | coordinator over HTTP |
| Reaper (`internal/app/task_reaper.go`, `ReapStaleRunningTasks`) | nothing | one pass per minute over the running rows | task queue, event log |
| Issue claim (`internal/store`, `internal/statemachine`) | `issue_claim` rows: claimer, token, expiry; the tokens a coordinator remembers | acquire, extend, release, release all, admin delete, stale sweep | state machine of every coordinator on the database |
| State machine (`internal/statemachine`) | in-flight groups, dedup keys, cycle counters, persisted workflow instance | handle an event, dispatch agents, mark completed, clear, reconcile | poller (events), router (requests), result handler, recovery |
| Router (`internal/router`, `internal/taskprep`) | nothing of its own | take a request, decide, insert the task row | dispatch channel, task queue |
| Poller (`internal/poller`) | issue cache, resync times, backoff | poll, diff, emit | GitHub, state machine |
| Dependency resolver (`internal/dependency`) | verdict per issue | parse, evaluate, detect cycles, gate | GitHub, router, state machine |
| Repository runtimes (`internal/app/repo_runtime.go`, `config_reload.go`) | registration, one poller, state machine and router per repository | register, reload, stop, recover orphaned states | all of the above |
| Supervisor (`internal/supervisor`) | agent rows, processes, output files | start, wait, cancel, recover by pid and start time, stream events | launcher over a unix socket |
| Agent runtimes (`internal/runtime`, `internal/agent`, `internal/control`) | sessions, event channels, watchdog clocks, a shared codex connection | launch, run, cancel, close, resume | supervisor, codex app-server, agentm |
| Workspace (`internal/workspace`) | worktrees, branches, reference counts | create, remove, prune | git |
| Tunnel and session proxy (`internal/wstunnel`, `internal/sessionproxy`) | open streams, pending requests, routes, cached pages | request, respond, keepalive, fail, list, merge | coordinator, workers, browser |
| Reporter and label tools (`internal/reporter`, `labelwriter`, `labelcheck`) | memory of infra comments | report, verify claims, edit labels, classify | GitHub |
| Hooks (`internal/hooks`) | queue per hook, failure counters | publish, run, auto-disable, reload, stop | event log, external commands |
| Notifier, alert bus, task hub (`internal/notifier`, `alertbus`, `tasknotify`) | subscribers with bounded buffers, dedup window | publish, subscribe, send, replace | everybody |
| Serve process (`cmd/serve.go`, `cmd/coordinator.go`) | two halves and their result channels | boot, wait, shut down | coordinator, worker |
| Operator tooling (`internal/operator`, `operatorwatch`, `diagnose`, `recover`, `cmd`) | inbox directory, alert events | detect, hand over, diagnose, fix, recover, restart an issue | store, git, processes |
| Deployment and migration (`cmd/deploy*.go`, `cmd/db_migrate.go`) | unit files, manifests, versions; two databases | install, upgrade, roll back, watch; copy and verify | systemd, files |
| Web UI, metrics, audit, status, validation | views, files | read, render, check | store |

What makes each part correct, and what is hard about it:

* **Task queue and worker.**  One settlement per task, told to the state machine
  once and truthfully; a worker that got its answer can rely on it; a row never
  stays running without an owner.  Hard: lost answers, retries overlapping the
  request they repeat, a second claimant after the lease has run out, a reaper and
  a start-up recovery that act on what they read earlier.
* **Issue claim.**  At most one coordinator dispatches an issue.  Hard: the claim
  row, the token map and the in-flight map have three different locks.
* **State machine.**  Each agent of a state is dispatched once per group, a group
  always ends, loops are bounded.  Hard: three goroutines handle one issue, and
  requests between the state machine and the router are visible to neither side.
* **Poller and dependencies.**  No change is lost, no issue passes a verdict.
  Hard: the cache is written before the event is handled, and the verdict is
  recomputed once per cycle.
* **Supervisor and agent runtimes.**  Every exit is noticed, every run ends and
  its outcome is decided once.  Hard: pids are reused, channels are bounded, and
  cancel, exit and loss of a connection come in any order.
* **Tunnel, hooks, alerts.**  A peer that hangs holds up nobody else.  Hard:
  channels are closed by one goroutine while another sends.
* **Registrations and bindings.**  Memory, file, database and running goroutines
  agree after every change.  Hard: each change has several steps, each may fail,
  and no lock spans them.
* **Reporter and labels.**  What an issue says of a run is true.  Hard: two runs
  end together, and people move the labels meanwhile.
* **Operator commands.**  They repair and take nothing away that is in use.  Hard:
  they act on listings that are old, beside everything they repair, and a kill may
  end them anywhere.

## Modules

| Module | Models | State and actions |
|---|---|---|
| `TaskQueue` | the table, the HTTP handlers, the workers, the reaper, start-up recovery | `row` is the table; `exec[t][k]` what the worker of the k-th claim of `t` does; `handlers` the `HandleTaskResult` calls in progress, in the steps "checked" and "settled"; `signals` the `MarkAgentCompleted` calls made; `reapSel`, `recSel` the rows that a reaper pass or a recovery has read and not yet updated |
| `TaskOnce` | what the queue promises: a task is stored, settled and told once | `verdict`, `told`; create, settle, tell, and the overruling of a verdict nobody was told |
| `TaskReaper` | one reaper pass with its four attempts per UPDATE and the errors of the database | `pc`, the candidates, the row in hand, attempts, `lastErr`, the list it returns, the events it writes |
| `IssueClaim` | the claim table, token maps and groups of several coordinators | `claim`, `lease`, per coordinator `held`, `acq`, `granted`, `group`, `releases`, `taken`; each unlocked step of acquiring and releasing is an action |
| `Dispatch` | one issue inside one coordinator | `th[t]`: where each goroutine is in `HandleEvent` or `MarkAgentCompleted`; the in-flight group, the dispatch channel, the task rows of the issue, the completions to come |
| `CycleCaps` | the budgets of an issue over the default workflow | the persisted instance (`prior`, `source`), `counts`, `total`, `cycles`, `hit`; handlers are atomic |
| `IssueFlow` | poller, event channel, dependency maintenance and gate | `gh`, the cache, the poll with its snapshot and what is left to commit and emit, `chan`, `verdict`, `tasked`; a listing may fail or be cut off, a cache write may fail unnoticed (`unsaved`), a reload starts a new poller |
| `DependencyCycles` | edges of the declarations and the depth-first search | `colour`, `stack`, `left`: the recursion as a machine; the reference is reachability |
| `RepoRuntimes` | registration, reload, deregistration of a repository | `record`, `mapped`, `runs`; `op[c]` is where a request is between its steps |
| `WorkerHost` | bindings, configurations, registration, tokens and poll loop of a worker | `bound`, `loaded`, `filed`, `row`; `ask` the management requests in progress with their undo steps |
| `Supervisor` | the agents of a host across crashes of the supervisor, and a session | `proc` and `reused` are the operating system, `row` the table, `mem` the map, `waiter` and `grace` the goroutines, `out` and `sess` the output file and its reader |
| `AgentRun` | executions of a worker: lock, worktree, session, event pipeline, watchdog | `runStep`, the lock objects with their references, the two channels and the proxy between them |
| `CodexSessions` | sessions that share one codex connection | the server object, the connections, the read loops, and per session where it is, its rpc, its turn and its outcome |
| `SandboxRuns` | agentm runs, the control loop, label edits and validation | `sandbox[s]` with process, rounds and labels seen; `labels` of the issue |
| `Worktrees` | worktrees, branches and references of a worker | `dirs`, `listed`, `heads`, `dirty`, `refs` |
| `Reporting` | the end of a run: validation, claims, result, comment | `ending[r]`, the comments, the memory of infra errors and its mutex |
| `Tunnel` | both endpoints of a worker's connections and the calls through them | endpoints, sockets, streams, frames, handlers, calls |
| `SessionProxy` | resolution, fan-out, merge, paging and cache of session listings | registered workers, tunnels, routes, listings, cache |
| `Hooks` | dispatcher, queues, actions, auto-disable, reload, stop | one generation of goroutines per replacement of the bindings; a reload closes the stop channel, waits, comes back from the wait, replaces the bindings and starts the pool in steps of their own |
| `Alerts` | bus, hub, notifier, senders, replacement of the notifier | subscribers and their channels, publishers half-way through a fan-out, the notifiers with queue and window |
| `ServeProcess` | serve, the coordinator's boot and shutdown, the worker half | result channels, contexts, store, claims |
| `HostRecovery` | recover, issue restart, cache invalidate | processes, git, tables; a command is the list of what it has still to do |
| `OperatorInbox` | anomaly detector, inbox directory, operator-watch | alerts, files by directory, watchers |
| `Diagnose` | diagnose --fix beside coordinator and workers | issues, their task rows with ages, the scan with its findings |
| `Deployments` | deploy commands and the updater | files of a host, units, scripts of steps |
| `DbMigrate` | db migrate | source, destination, position |
| `TaskQueueProofs`, `IssueClaimProofs`, `DispatchProofs`, `CycleCapsProofs` | theorems about the module they are named after | |
| `RunsProofs` | theorems about `TaskReaper`, `Supervisor`, `ServeProcess`, `DbMigrate` | |
| `WorkerProofs` | theorems about `AgentRun`, `Worktrees`, `CodexSessions`, `WorkerHost`, `Tunnel` | |
| `OutcomeProofs` | theorems about `Reporting`, `SandboxRuns`, `OperatorInbox`, `HostRecovery` | |
| `CoordinatorProofs` | theorems about `RepoRuntimes`, `IssueFlow`, `DependencyCycles`, `Alerts`, `SessionProxy`, `Hooks` | |
| `MC…` | the constants of small instances, and sums of parts | |

The modules meet at the points where the code hands over: `Dispatch` abstracts a
row to its status and takes from `TaskQueue` that a running row moves and that a
completion is signalled at most once; this is what `TaskOnce` states.  `CycleCaps`
takes from `Dispatch` that one group per issue is in flight and from `TaskQueue`
that runs end; `AgentRun` is why they end, `Supervisor` why an exit is noticed, and
`Reporting` begins where `AgentRun` stops.  `IssueFlow` hands events to
`Dispatch`.  `TaskReaper` details the two reaper steps of `TaskQueue`.  Apart from
`TaskOnce` these are assumptions of the reader, not instances with a mapping.

### Sums of parts

`MCRuns`, `MCTraffic`, `MCControl` and `MCOutcome` each check several modules in
one run.  The variable `part` is chosen in the initial state and never changes;
only the part it names takes steps, the others stand still in one of their initial
states.  The state spaces add up, nothing interacts, and a property of one module
holds trivially in the behaviours of the others.  The fairness of each part is
restated with its actions guarded by `part`: an action of a part that was not
picked is never enabled, so its fairness asks nothing.

### Abstractions

* Time is what the code compares it with: a lease is live or expired, a heartbeat
  is fresh or stale, a window has passed or not.  Lease and heartbeat are counted
  from the same write, the lease for 30 s, the grace of the reaper for 5 min, so a
  heartbeat goes stale after its lease.
* Claims of a task are numbered.  The number is bookkeeping: the code knows an
  execution by its worker id only, and all guards use that id only.
* In `IssueClaim` a coordinator is its claimer id, host and pid; one that comes
  back under the same pid is the same coordinator, which is exactly what the
  start-up sweep cannot tell.
* In `Dispatch` agents move the label between any states of the instance.  One
  completion handler dispatches at a time; a second one waits, which leaves out
  interleavings of two completions of different groups of one issue.
* In `CycleCaps` counters saturate where the code no longer tells values apart:
  a count at `max_retries - 1`, a total above the cap.  `trips` is a history
  variable that only `ReviewLoopCapped` reads.
* External programs and services (git, gh, systemd, the codex server, agents,
  senders of alerts) are outcomes: they answer, fail or hang.  Where the code
  relies on how they behave (git refuses a branch below another, an edit of labels
  adds and removes, a page is newest first) the definition is marked external in
  the map.
* A configuration, a release, a schema or a comment text is a number or a member
  of a small set: the modules tell versions apart, not their contents.
* Faults are counted against a bound (`MaxFaults`, `MaxGlitches`, `MaxCrashes` and
  so on), so that liveness is about what happens after the last one.

## Runs

Passing:

| Run | Instance | What it shows |
|---|---|---|
| `queue_claims` | one task, two workers, two claims, one submission attempt, one crash of the coordinator | completion signals, acknowledgements and ownership stay consistent when a zombie, a second claimant, the reaper, recovery and the operator contend for one row; the queue implements `TaskOnce` |
| `claim_safe` | two coordinators with different pids, one issue, three tokens, one release under way each, one restart command | a token is known to one coordinator only, and a live claim is lost only to its owner, the sweep or the operator |
| `dispatch_pair` | one state with two agents and `any_passed`, one resync, drop, clear and restart each | no group dispatches an agent twice, no slot gets two results |
| `dispatch_live` | developing and reviewing with one agent each, two counted entries, one advance on completion | a row that failed without a completion is dispatched afresh below the cap |
| `caps` | the default workflow without rollouts, limits 4/2/2/1, one resync, one human step | no path starts a run without paying for it; the issue comes to rest whatever its agents do |
| `runs_end` | `MCRuns`, see below | what has begun comes to its end |
| `traffic` | `MCTraffic` | what must keep moving does so while a peer fails |
| `control` | `MCControl` | eight parts of coordinator and worker keep their bookkeeping consistent |
| `outcomes` | `MCOutcome` | what is done with the result of a run is right |

The parts of the sums:

| Run | Part | Instance | Properties |
|---|---|---|---|
| `runs_end` | `TaskReaper` | two rows, four attempts, five errors | `EventsAreTrue`, `SettledStays`, `DeadIsReaped` |
| | `Supervisor` | one agent, one line of output, one crash of the supervisor, one of the worker, one unreadable start time | `ExitsAreNoticed` |
| | `AgentRun` | two runs of one issue, channels of one event, two events | `EventsAreWritten`, `RunsEnd` |
| | `ServeProcess` | two failures, two acquired claims | `SignalEndsServe` |
| | `Diagnose` | one issue, a worker here and one elsewhere, two dispatches | `ZombiesAreSettled` |
| | `DbMigrate` | three tables, one referring to another, batches of one row, two faults, one late write | `MigrationCompletes` |
| | `Deployments` | a host with coordinator and worker installed, one watched unit, two releases, one mishap, one command | `ReleaseIsInstalled` |
| `traffic` | `TaskQueue` | one task, one worker, one claim, two attempts, one crash | `RunningRowsMove`, `SlotsAreFreed` |
| | `Tunnel` | two connections, two calls, one cut | `CallsEnd` |
| | `Hooks` | a fast and a slow hook, three events, one reload and a stop | `OneRunPerHook`, `OthersProceed` |
| `control` | `SessionProxy` | two workers, three sessions, two pages, two listings | `PageIsGlobal` |
| | `DependencyCycles` | every graph on three issues, with foreign references | `EveryCycleIsReported` |
| | `IssueFlow` | two issues, the second needs the first, a listing of two, one move, fault and reload | `NoneSlipsPastAVerdict` |
| | `RepoRuntimes` | a request and the watcher one after the other, two versions, two failures | `RunsWhatIsRegistered` |
| | `WorkerHost` | two repositories, two paths, one change at a time, one failure, two starts | `BindingsAgree` |
| | `Worktrees` | two issues, a rollout, two runners, one crash | `HeldTreesStay` |
| | `Alerts` | one sender, one watcher, two events, two replacements | `OncePerWindow` |
| | `CodexSessions` | two sessions, two connections, one frame each | `OutcomeStays` |
| `outcomes` | `Reporting` | two runs, two reasons, one retry, one error of GitHub | `EndsAreVisible` |
| | `SandboxRuns` | a developer and a reviewer, two rounds, one edit by others, one fault | `ValidationIsRight` |
| | `OperatorInbox` | two watchers, three boots, two troubles, one second | `HandedOnce` |
| | `HostRecovery` | five processes, two branches, a listing of one pull request, one change, one fault | `WorkInReviewStays` |

What the properties of the sums say:

* `ExitsAreNoticed`: an exit of a recorded agent is noticed under its supervisor,
  while that is down or under the next one, also when the pid is in use again.
* `RunsEnd`, `EventsAreWritten`: an execution ends and frees its issue although
  the agent hangs or the disk takes no more events; what was drained in time is on
  disk.
* `SignalEndsServe`: a signal ends serve, whichever half is booting, serving or
  already gone.
* `ZombiesAreSettled`: repeated `diagnose --fix` settles a task that its worker
  keeps fresh although the agent is gone.
* `MigrationCompletes`: `db migrate --force` completes from whatever an earlier
  attempt left.
* `ReleaseIsInstalled`: the updater gets to the newest release; a killed or failed
  upgrade is not taken for done.
* `RunningRowsMove`, `SlotsAreFreed`: no row stays running without an owner, no
  slot is leaked, with overlapping retries and lost answers.
* `CallsEnd`: a call through the tunnel ends also when the connection is cut.
* `OneRunPerHook`, `OthersProceed`: a reload waits for the actions of the old pool,
  and a hook that hangs holds up no other.  The first is for teardowns that do not
  overlap: two that do may run a hook in two pools.
* `PageIsGlobal`: a page is the page of all sessions together.
* `EveryCycleIsReported`: every circle has a marked issue, and only issues on a
  circle are marked.
* `NoneSlipsPastAVerdict`: an issue with a dependency that was never met is not
  dispatched past a recorded verdict, unless somebody overrode it.  `past` remembers
  the states each issue has been in: the cache may hold labels of different listings,
  so two dependencies may pass although they were never met at the same time.
* `RunsWhatIsRegistered`, `BindingsAgree`: after any failure and its rollback,
  memory, record and running goroutines agree.  For a repository that holds also when
  the rollback fails itself, except where the database refuses to write the previous
  record back: the old runtime then goes on under the new record (`stray`).
* `HeldTreesStay`: a run keeps its worktree until it gives it back.
* `OncePerWindow`: one notifier sends an alert once per window.
* `OutcomeStays`: the outcome of a codex session is decided once.
* `EndsAreVisible`: the end of every run can be read on the issue.
* `ValidationIsRight`: a human is called, and a transition approved, exactly when
  it should be.
* `HandedOnce`: no incident is handed to two sessions.
* `WorkInReviewStays`: recover keeps branches under an open pull request.

Violations, each a disagreement between the code and what the repository says of
it; `PROJECT.json` quotes the lines:

| Run | What happens |
|---|---|
| `claim_race` | a release whose group has ended takes the token that the event loop has just extended; two coordinators dispatch the issue |
| `dispatch_stall` | one of two agents completed, the other was reaped: the completed row keeps the group live for ever |
| `caps_rollouts` | a failed rollout join sets the persisted state to blocked, the next tick reads that as a human override and clears every budget, for ever |

### Bounds

Two claims of one task are needed for a zombie and its successor; a third adds
another zombie that no guard tells from the first.  Two attempts let a retry
overlap the request it repeats; a third is one more of the same kind.  Two rows are the least for an
error on one to cut off the other; five errors exhaust the four attempts of one
row and hit the next pass.  Two coordinators and three tokens leave one token
fresh while each coordinator knows another.  Two agents are the least with a
join.  In `caps` every limit is the smallest at which it can be passed once
before it stops the issue.  `caps_rollouts` needs no resync and no human.

In the sums: a shared object needs two users (runs of an issue, sessions of a
connection, runners of a worktree, watchers of an inbox, listings of a cache); a
channel of one or two events is full when the next one comes; three issues make
the smallest graph with a circle that is reached through a finished node; two
connections are an old tunnel and the one that replaces it; one fault may hit any
step, a second one its rollback where the code has one; three tables, one of them
referring to another, are the least in which the order of deletes and inserts
matters; three boots let a second watcher crash while it recovers from the first.

### Fairness

* `TaskQueue`: time passes; an agent run ends (each session has a timeout and an
  idle watchdog, see `AgentRun`); a worker and a handler finish what they began;
  the reaper ticks; a coordinator that is down is started again by its service
  manager.  No fairness for polls, heartbeats, SIGTERM, crashes or the operator.
* `TaskReaper`: the ticker fires and a pass goes on; errors are bounded in number.
* `Dispatch`: poll and recovery tickers fire; handlers, router and completions go
  on; a pending row is claimed and a running row ends.
* `CycleCaps`: poll and recovery tickers fire and every run ends.  Agents may
  move the label or leave it.
* `Supervisor`: a supervisor that is down is started again, the goroutine that
  waits for an exit and the timer of a cancel go on.  Nothing is asked of agents.
* `AgentRun`: the goroutines of the worker and the ticks of the watchdog go on,
  and a process whose context has ended is killed.  Nothing is asked of the agent
  otherwise, nor of the disk.
* `ServeProcess`: its goroutines go on; a worker whose context has ended returns.
  Nobody has to send a signal.
* `Diagnose`: the operator runs it again and again and time passes.
* `DbMigrate`: an attempt goes on and the operator repeats it with --force.
* `Deployments`: the updater's timer fires and its steps go on or fail.
* `Tunnel`: read loops, keepalives and handlers go on, frames on an intact
  connection arrive.
* `Hooks`: the goroutines go on and actions end by their timeout, except those of
  the hooks in `Slow`.

`CHECK_DEADLOCK FALSE` is set for `Dispatch`, `CycleCaps` and the sums: an issue
that is merged, blocked or at its cap really stops there, and so do a process
that has returned, a search that is over or a run that has ended.

### Further properties

Stated in the modules, most of them with a plausible bug beside them that breaks
them.  TLC has found each true in an instance of its module alone, of about the
size above; the twelve runs do not ask for them, to stay at one or two questions
per part:

* `Supervisor`: `SuccessIsReal`, `ExitCodeStays`, `CancelledDies`;
* `Tunnel`: `AnswersMatch`, `OpenTunnelIsUsed`; `SessionProxy`: `OwnerAnswers`;
* `Hooks`: `DisabledIsEarned`, `StopEnds`;
* `CodexSessions`: `OnlyDoubleDialPanics`, `ChatsEnd`; `AgentRun`: `OneRunPerIssue`;
* `Worktrees`: `IssuesRunAgain`;
* `IssueFlow`: `CacheIsDelivered`, `ReadyIsDispatched`; `DependencyCycles`:
  `CyclesAreNotReady`;
* `RepoRuntimes`: `ReloadRestores`; `WorkerHost`: `OnlyTheLatestToken`;
* `ServeProcess`: `RecoveredFirst`; `Deployments`: `UnitsAreListed`;
* `Alerts`: `PublishersGetThrough`;
* `Reporting`: `CommentsDoNotMix`, `ClaimsAreTrue`, `ReportsEnd`; `SandboxRuns`:
  `OneStatusLabel`, `RunsEndClean`;
* `HostRecovery`: `NoZombieRemains`; `OperatorInbox`: `AlertsAreSpaced`,
  `IncidentsEnd`; `DbMigrate`: `DoneIsComplete`;
* the type invariant of each module.

Apart from the type invariants, all the safety properties among them are theorems as well,
except `UnitsAreListed` and `DisabledIsEarned`; the others are liveness properties:
`CancelledDies`, `StopEnds`, `ChatsEnd`, `ReadyIsDispatched`, `PublishersGetThrough`,
`ReportsEnd`, `RunsEndClean`, `IncidentsEnd`.

## Proofs

`TaskQueueProofs`, for any tasks, workers, claims, attempts and crashes:
`TypeOK`, `SignalsAreTrue`, `AckedIsDurable`, `OwnerIsLatestClaimant`,
`NeverResurrected` and `NoStealUnderLease`.  The first four are conjuncts of one
inductive invariant `IInv`.  It needs besides them:

* `HandlersOK`: a request in progress carries the worker of the claim it works
  for, although the row may have gone to another worker since;
* `SettledOK`: at most one request per task is between its UPDATE and its signal,
  and the row has the status it wrote.  Without it a second settled request could
  signal again;
* `RestartOK`: the rows a recovering coordinator has still to fail have signalled
  nothing and acknowledged nothing, since they were running when it read them and
  nobody else writes before it is up.  Without it the unconditional UPDATE of the
  recovery could overwrite a result.

Most steps leave every settled row, signal and acknowledgement alone; the lemma
`QuietStep` deals with them at once, and claim, submission, settlement, signal,
crash and recovery have a proof each.  The two action properties follow from
`IInv`, one lemma per group of actions.

The refinement is proved as well: `QueueIsOnce` shows that `TaskQueue` implements
`TaskOnce` under the mapping that reads `verdictOf` off the rows (a pending or
running row is open) and `told` off the signals.  Every action is one of four
kinds, each with a lemma: it is invisible, it settles open tasks, it tells a
verdict, or it overrules one.  Telling needs `SettledOK` (the row has the status
the request carries, and nobody was told), overruling needs `RestartOK` (the rows
a recovery has read have signalled nothing) and that the recovery only read rows
that are stored.

`RunsProofs`:

* `TaskReaper`, for any table, attempts and errors: `TypeOK`, `EventsAreTrue` with the
  strengthening that the rows a pass will report were flipped by it and have no event
  yet, and `SettledStays`.
* `Supervisor`, for any agents, output, crashes and failed reads: `SuccessIsReal` and
  `ExitCodeStays` from `SupInv`.  A session reads a missing exit code as 0; that is never a
  false success because the session that started an agent talks to the supervisor that
  did, and an end it has seen is one of the process (`SessionIsSound`).  The row is still
  "running" while a goroutine has an exit to write to it, so nothing is written twice, and
  an "ok" anywhere is that of the process (`AgentIsSound`).
* `ServeProcess`: `RecoveredFirst` from `RecoveryInv`: whoever polls or answers is past the
  step that recovers, and past it nothing is stale unless something failed.
* `DbMigrate`, for any tables, rows and batch size: `DoneIsComplete` from `MigInv`.  A table
  that was verified holds the rows that were due: the destination holds only rows of the
  source (`CopiesOnly`), so equal counts are equal sets, although the source goes on
  growing and the rows that were due are a part of it (`DueIsThere`).  The argument with
  counts needs the rows to be finite.

`IssueClaimProofs`: `TokensAreFences` with type correctness and the fact that two
rows never carry the same token, and from it `LiveClaimIsSafe`.  The proof needs
that a fresh token is one nobody knows.

`DispatchProofs`, for any workflow, agents and number of threads: `TypeOK` and
`OncePerGroup`.  The latter is not inductive: that the group in flight has no
request or row for an agent follows from its mark only if every request and row of
that group belongs to a marked slot, and that a new group has none only if no
request or row carries a group that was not opened.  Both are `FromGroups`.  The
remaining conjuncts of `IInv` are the shapes of threads, group, channel and rows.

`CycleCapsProofs`, for any limits with `max_retries` at least 2: `TypeOK`, which is
inductive, and `NoFreeRun`.  A completion that dispatches pays because a counted
edge leads to a visited state (`Counted`, part of `TypeOK`): an unvisited target
has a count of zero, and a visited one is a back edge that is rejected at
`max_retries`, so the count below its bound really grows.

`WorkerProofs`:

* `AgentRun`, for any tasks, events and channels: `EventsAreWritten` from `RunInv`,
  which counts: while the context lives every event is in one of the two channels, in
  the hands of the proxy or on disk, and a channel that was drained is empty.
  `OneRunPerIssue` from `LockInv`: the references of a lock object are the jobs that
  refer to it, no two objects in the map are of one issue, and whoever is past the
  mutex is its holder.
* `Worktrees`, for any issues, rollouts and runners: `HeldTreesStay` and
  `IssuesRunAgain` from `TreeInv`: the count of a tree is the number of its runs, so a
  removal at count one is made by its only run; and nothing is left of a tree that
  nobody uses as long as no rollout of the issue was tried and the worker did not die.
* `CodexSessions`, for any sessions and connections: `OutcomeStays`, since each of the
  racing ends goes through `finishOnce`, and `OnlyDoubleDialPanics` from `CodexInv`
  (one dial makes one read loop).
* `WorkerHost`, for any repositories, paths and tokens: `BindingsAgree` when requests
  do not overlap, and `OnlyTheLatestToken`, which needs no such hypothesis.
  `AskedSoFar` says what each step of a request has already made equal.
* `Tunnel`, for any connections, calls and cuts: `AnswersMatch` from `TrafficInv`: no two
  calls have one id on one connection (`IdsAreUnique`), and a frame in flight, a request
  being served and an answer that waits carry the id their call got there
  (`FramesAreCarried`).  `OpenTunnelIsUsed` from `EndpointInv`, which says it already from the
  registration on.

`OutcomeProofs`:

* `Reporting`, for any runs and reasons: `EndsAreVisible` and `CommentsDoNotMix` from
  `ReportInv`, which relates three things: what a run has found out, the comments that
  speak of it, and the memory of the last infra comment, which has to point to a
  comment with the reason it remembers.  `ClaimsAreTrue` needs besides it that between the
  check of the claims and the submission a run keeps its end (`ClaimIsTrue`).
* `SandboxRuns`, for any workflow: `ValidationIsRight` and `OneStatusLabel` from
  `SandInv`.  Between the list and the edit of a run the labels it saw are those of the
  issue, unless `disturbed`.
* `OperatorInbox`: `HandedOnce` from `InboxInv`.  An incident is known by rule and time
  of its alert; that the next one is new needs the log to be ordered and the alerts
  still queued to be no older than the log.  `AlertsAreSpaced` rests on a count: the last
  `RecentAlerts` alerts that the check reads hold, if any is still within the window, one
  of its kind, because within a window each of the rules has raised at most one
  (`NotDuplicateIsLater`).
* `HostRecovery`, for any processes and branches: `WorkInReviewStays` from
  `RecoveryInv`: no branch that has been in review since the command was typed is on
  its list of what to remove.  `NoZombieRemains` from `ZombieInv`: whatever dies, starts
  or takes over a pid, a process that ran outside of the shell's tree stays outside of it
  (`OutsideSound`, which needs that the parent of a running process runs or is init), so
  the listing holds all that still run, and each that is killed leaves the list
  (`KillSound`).

`CoordinatorProofs`:

* `RepoRuntimes`, for any versions, requests and failures: `RunsWhatIsRegistered` and
  `ReloadRestores` from `RepoInv`.  It says of each step of a request what record, map
  and goroutines are then; that a failed step finds the previous runtime untouched or
  gone is what makes the rollback right.  A request starts at most one runtime, so
  the numbers of runtimes never run out.
* `IssueFlow`, for any issues and dependencies: `NoneSlipsPastAVerdict` from `FlowInv`:
  every label that cache, listing or GitHub shows was true once, and a verdict that
  lets an issue pass was earned by such labels.  `CacheIsDelivered` from `DeliveryInv`: what
  the cache says of an issue is what was delivered last or is last in the channel or among
  the events the poll has still to emit, and a write that is still pending has its event
  behind it.  The attempt to prove it showed that an earlier model let a failed cache write
  end the poll; the code ignores the error (`poller.go:453`) and emits the event, so the
  cache may stay behind the events, and the property speaks of the other issues only.
* `DependencyCycles`, for any set of open issues and any declarations: `EveryCycleIsReported`
  and `CyclesAreNotReady` from `SearchInv`.  Besides the usual facts of a depth-first search
  (the stack holds the gray issues, each of which reaches the later ones; what a finished
  and unmarked issue depends on is finished; what is marked is on a circle) it says that
  each non-empty set of finished and unmarked issues has a member that depends on none of
  the set (`BlackHasSink`): the one that was finished first.  A circle without a mark would
  be such a set without such a member.  This takes the place of an induction over paths:
  reachability is the least closed set, and the issues that an issue reaches and that reach
  it form its circle.
* `Alerts`, for any number of notifier goroutines and senders: `OncePerWindow` from
  `AlertInv`: for each kind (sent + in the hands of a goroutine) · `Window` is at most
  the end of its window, which is at most `clock + Window`.
* `SessionProxy`, for any workers, sessions, offsets and limits: `PageIsGlobal` from
  `ProxyInv`.  The lemmas below it are about `Newest` and `Slice`: a union of parts of
  which each kept at least its `offset + limit` newest rows has the same page as the
  union of all.  They argue with least elements of sets of naturals and cardinalities,
  without induction over the data.  `OwnerAnswers` from `RoutesAreOwners`: a route is that
  of the worker which owns the session, or none.
* `Hooks`, for any hooks, events and reloads: `OneRunPerHook` from `HookInv`: without
  overlap one teardown is under way, only the pool of the current bindings has
  goroutines, and none is left once the wait has returned.  The attempt to prove it
  showed that the return of the wait and the replacement of the bindings were one step
  of an earlier model; they are two now, and the property really needs its hypothesis.

Assumptions are the named `ASSUME`s of the modules; TLC evaluates them in the
runs.  Those that are more than types: `Jobs`, `Runners`, `Pool` and `Sessions` are
finite, and 0 (`Jobs`) or `Nobody` (`Runs`) is none of them; the states of a workflow
are distinct (`StateOrder`); `RecentAlerts` is at least the number of rules (the code
reads 256 alerts and has fewer rules); `Rows` is finite and there is a table to migrate
(`MigrationAssumption`); the processes of a host have numbers of their own, and at first
nobody's parent is a free pid (`HostAssumption`: a process whose parent has died belongs to
init); `Grace <= IdleKill`; a batching notifier has one
goroutine; limits of channels, pools and tokens are at least 1.

Only model-checked:

* every liveness property: fairness and `ENABLED` are beyond the prover;
* `Deployments.UnitsAreListed`: the scripts of steps are built by a fold, and what a fold
  builds for every input needs induction over its data;
* `Hooks.DisabledIsEarned`: it compares a counter with the executions selected from the
  ring, and what `SelectSeq` selects for every sequence needs the same induction;
* the properties that the code violates.

Every invariant and action property of a passing run has its theorem.

## Disagreements without a run

Met while modelling.  First, properties that a module states in the words of the
repository and that TLC refutes; adding them to the cfg of an instance shows how.

| Property | Said at | What the code does |
|---|---|---|
| `Dispatch.NoDoubleDispatch` | REQ-152, `project-index.yaml:6002` | the recovery tick finds no row for a request still in the channel and dispatches again (`statemachine.go:2013`); one state with two agents is enough |
| `CycleCaps.ReviewLoopCapped` | `default.md:80` | a completion handled before the label event advances the persisted state, so the round trip is not counted (`statemachine.go:688`); limits 15, 3, 3, 2, so that the total cap does not come first |
| `IssueFlow.VerdictBeforeDispatch` | `docs/implemented/issue-dependencies.md:99` | the periodic recovery, and an event after a failed maintenance, dispatch an issue without a verdict |
| `RepoRuntimes.OneRuntime`, with `Serial = FALSE` | comment of `StartOrUpdate` | two requests at once both start a runtime, and one is lost from the map |
| `WorkerHost.UnregisteredIsIdle` | comment of `Unregister`, `registry.go` | the test for running tasks and the deletion are two steps; a poll in between gives the worker a task |
| `WorkerHost.RemovalsSurvive` | comment of `mergeRepoBindings` | a repository of the command line comes back at the next start |
| `WorkerHost.BindingsAgree`, with `Overlap = TRUE` | | two management requests at once register each other's half-way state |
| `Worktrees.PruneKeepsWorktrees` | comment of `Prune`, `workspace.go` | the directory of an issue that has only rollouts is no worktree itself and is removed with the registered ones below it |
| `SandboxRuns.NeverReverts` | | the look at the labels and the edit are two calls: an issue moved in between is moved back |
| `Reporting.PartialIsMarked` | AC-054-3, `project-index.yaml` | the worker has verified the claims already, and `report` sets the status only when it verifies them itself: the comment says success |
| `Reporting.MissingCommentIsFound` | AC-054-5 | any comment under the worker's login within the window counts, also one of another run (`Claims = {"comment"}`) |
| `Alerts.OncePerWindowOverall` | `config_reload.go:25` | a replaced notifier starts with an empty window |
| `ServeProcess.ClaimsReleasedAtExit` | `repo_runtime.go:752` | claims are given back before the goroutines have ended, and one of them may acquire again |
| `ServeProcess.ExitEndsServe` | `serve.go:247` | the result that woke the select is waited for once more |
| `OperatorInbox.DetectorGoesOn` | AC-046-1 | a watcher that claims the file between its rename and its chmod (`detector.go:413`) ends the detector |
| `OperatorInbox.InvocationsAreRecorded` | AC-046-8 | an invocation cut short by a crash is not recorded |
| `HostRecovery.RestartTakesEffect` | help of `issue restart` | the claim is deleted after the snapshot: a poll in between is refused by the claim and caches the issue again |
| `Diagnose.FixSparesLiveAgents` | help of `diagnose` | a task whose agent has no process of the expected name here is failed while it works |
| `DbMigrate.TablesAreWhole` | help of `--batch-size` | a transaction spans one batch, not one table |

Then what was noticed and is not stated as a property:

* **Task queue.**  `queries.go:1125` says a row is reaped when its heartbeat is
  old; the UPDATE at 1199 tests only the status.  `queries.go:1234`: an UPDATE that
  succeeds after a busy error still returns the old error, and the row gets no
  `task_reaped` event (AC-151-6, `project-index.yaml:5879`).  `cmd/worker.go:645`
  claims before it has a slot, against `project-index.yaml:1598`.
* **Claims.**  `store.go:2782`: the start-up sweep deletes claims of other live
  coordinators (REQ-057, `project-index.yaml:1880`).  `repo_runtime.go:769`: claims
  are released before the goroutines are cancelled (AC-060-2,
  `project-index.yaml:1989`).
* **State machine.**  `statemachine.go:1285`: a one-slot replacement group passes
  its join alone although the state has more agents (REQ-015,
  `project-index.yaml:749`).  1583: a completion names no group, so the late result
  of an older group counts for a newer one.  507: at the total cap a human override
  does not reset the counters.  451: a resync dispatches after a cap hit, although
  the cap "blocks all further dispatch" (`project-index.yaml:2815`).
* **Rollouts.**  A label `rollouts:N` applies in every state; `min_successes` above
  the number of rollouts never passes; a redispatch after a restart loses the
  fan-out.
* **Poller and dependencies.**  `poller.go:633`: the backoff is counted down to zero
  before the next poll and never doubles.  A listing of pull requests is cut off at
  its limit.  A failed write of the cache is not noticed and its event is
  emitted all the same (`poller.go:453`): a change back to what the cache still holds is not
  reported before the next resync.  The gate fails open when the store cannot be read.  The search does
  not mark every issue on a circle.
* **Repositories.**  A rollback whose write of the record fails leaves the old runtime
  under the new record until the next start.  A registration over HTTP whose stop times out leaves the
  repository without a runtime; a registration over HTTP is overwritten by the
  configuration directory at the next start; directories made later are not watched.
* **Worker host.**  A failed `DELETE /mgmt/repos` restores the binding but not the
  configuration; one failed poll ends the worker.
* **Worktrees.**  The empty directory that rollouts leave makes the next `Create` of
  their issue fail; a dirty tree left by a crash makes it refuse; `branch -D` drops
  commits that were not pushed.
* **Agent runtimes.**  Two codex sessions that dial at once close one channel twice;
  a backend whose connection ended stays dead until the worker restarts.  A blocked
  writer makes the watchdog cancel a healthy agent; the wait for the lock of an issue
  ignores the context.  A line above 4 MB stalls an agentm run.
* **Supervisor.**  `StreamEvents` drops a line it read in two halves; `Serve` says it
  refuses to overwrite a live socket and removes it; a cancel by pid may hit a reused
  pid; an agent started just before a crash is unknown afterwards;
  `ResumeInFlightTasks` has no caller.
* **Tunnel and proxy.**  The "offline" of an old handler may follow the "online" of
  the new one; a close frame is ignored by the worker; an offset without a limit is
  applied twice past 50 rows; `cmd/worker.go:853` says the route heals itself, which
  it does not.
* **Hooks and alerts.**  Two teardowns at once leave goroutines that no channel ends,
  or panic; two reloads whose waits have both returned start two pools that run the
  same hook; a reload loses queued events.  Publish sends after it has unlocked, while
  Unsubscribe closes the channel.  The window is entered before delivery, so a failed
  delivery is suppressed as sent; the last batch is sent with a cancelled context.
* **Reporter.**  The rate-limit retries do not fit into the deadline of 5 s; an edit of
  a deleted comment loses the report; two first infra errors post twice; the overflow
  file is never committed.
* **Serve.**  An error of the listener is only logged.
* **Operator tooling.**  recover kills by a listing of pids that may be old, and inside
  an agent kills its own ancestors; the listing of pull requests stops at 200; a stale
  tracking ref ends the pruning; `reset-db` leaves claims of deleted tasks.  The alert is
  stored before the inbox file, so a failed write suppresses it for the window.
  diagnose exits non-zero after it has fixed everything, and one task that settled in
  between ends the remaining fixes.
* **Deployment and migration.**  A kill between install and the record of the version
  loses the previous binary at the next round; the updater's restart starts a stopped
  unit; manifests are read, changed and written without a lock; `compareSemver` is not
  transitive.  Only row counts are verified after a migration.

Hazards that no property of a run covers, besides the two in `PROJECT.json`, are the
lines named above: each is a step of its module that TLC takes, but either the code
does not say what should hold, or it holds another way.

## Not modelled, and why

Web UI, metrics, audit, status and logs read what others write and change nothing that
another part reads.  Parsing, templates, formatting, `init`, validation and checks of
files are conversions without state that several actors share.  Agents, git, systemd and
the forge are external.  The claim token by which a worker may repeat a poll within its
lease is left out because the poll handler passes an empty one (`coordinator.go:902`).
The join of rollout groups and the synthesis prompt are left out of `Dispatch`; their
outcome is an input of `CycleCaps`.  Operations of a modelled component that are left out
are named in the note of the component in `PROJECT.json`.

## Plan

1. Done: the modules above; theorems for every safety property of a passing run and for
   all but two of the further ones; `TaskOnce` and the proof that the queue implements it.
2. `TaskReaper` as an implementation of the reaper steps of `TaskQueue`, and rollout and
   synthesis joins in `Dispatch`.
3. Type correctness of the modules whose invariants do not need all of it, as theorems of
   their own.
