------------------------------ MODULE AgentRun ------------------------------
(***************************************************************************)
(* One execution of a task on a worker: the executor takes the lock of the *)
(* issue, prepares the worktree, launches the session and runs it; the     *)
(* events of the agent pass a proxy, which feeds the stale-inference       *)
(* watchdog, and a writer, which appends them to the session's file.  In   *)
(* the end everything is drained, the session row is closed and the lock   *)
(* released.                                                               *)
(*                                                                         *)
(*   agent -> proxyCh -> proxy -> eventsCh -> writer                       *)
(*                                                                         *)
(* Nothing is assumed of the agent and of the disk: the agent may hang and *)
(* a write may block for ever.                                             *)
(***************************************************************************)
EXTENDS Naturals, FiniteSets

CONSTANTS
    Jobs,          \* tasks given to this worker
    IssueOf,       \* IssueOf[j]: the issue of the task
    PipeCap,       \* capacity of each of the two channels
    IdleKill,      \* watchdog: ticks without an event
    Grace,         \* watchdog: ticks without an event after task.complete
    MaxOut         \* bound: events an agent sends

ASSUME RunAssumption ==
    /\ IsFiniteSet(Jobs) /\ 0 \notin Jobs     \* 0 stands for no holder
    /\ DOMAIN IssueOf = Jobs /\ PipeCap \in Nat \ {0} /\ MaxOut \in Nat
    /\ Grace \in Nat \ {0} /\ IdleKill \in Nat /\ Grace <= IdleKill

VARIABLES
    runStep,      \* where Execute is
    objects,   \* lock objects: object o is in the map, refs, holder
    mine,      \* the lock object a job has a reference to, 0 for none
    agent,     \* none, working, ok, bad, timeout: the process of the session
    runCtx,       \* the context of the task was cancelled
    sent, inbox, hold, outbox, written,   \* events sent, in proxyCh, in the proxy, in eventsCh, on disk
    idle,      \* ticks since the proxy received an event
    complete,  \* the proxy has seen task.complete
    drained,   \* both channels were drained in time
    runResult,    \* none, infra, ok, bad or timeout
    sessionRow        \* status in the sessions table

runVars == <<runStep, objects, mine, agent, runCtx, sent, inbox, hold, outbox, written, idle, complete,
             drained, runResult, sessionRow>>

LockIds == 1..Cardinality(Jobs)
NoLock  == [issue |-> 0, refs |-> 0, holder |-> 0]

RunInit ==
    /\ runStep = [j \in Jobs |-> "new"] /\ mine = [j \in Jobs |-> 0]
    /\ objects = [o \in LockIds |-> NoLock]
    /\ agent = [j \in Jobs |-> "none"] /\ runCtx = [j \in Jobs |-> "live"]
    /\ sent = [j \in Jobs |-> 0] /\ inbox = [j \in Jobs |-> 0] /\ hold = [j \in Jobs |-> 0]
    /\ outbox = [j \in Jobs |-> 0] /\ written = [j \in Jobs |-> 0]
    /\ idle = [j \in Jobs |-> 0] /\ complete = [j \in Jobs |-> FALSE]
    /\ drained = [j \in Jobs |-> TRUE] /\ runResult = [j \in Jobs |-> "none"] /\ sessionRow = [j \in Jobs |-> "none"]

Upd(f, j, v) == [f EXCEPT ![j] = v]
pipeVars == <<sent, inbox, hold, outbox, written>>
endVars == <<idle, complete, drained, runResult, sessionRow>>

-----------------------------------------------------------------------------
(* The lock of an issue.                                                   *)

\* Mutant: the key of the lock is the task.
EnterLockPerTask(j) ==
    /\ runStep[j] = "new"
    /\ LET o == CHOOSE x \in LockIds : objects[x] = NoLock
       IN /\ objects' = [objects EXCEPT ![o] = [@ EXCEPT !.issue = IssueOf[j], !.refs = objects[o].refs + 1]]
          /\ mine' = Upd(mine, j, o)
    /\ runStep' = Upd(runStep, j, "waiting")
    /\ UNCHANGED <<agent, runCtx, pipeVars, endVars>>

\* Acquire, under the lock of the map: the entry of the issue or a new one.
EnterLock(j) ==
    /\ runStep[j] = "new"
    /\ LET has == {o \in LockIds : objects[o].refs > 0 /\ objects[o].issue = IssueOf[j]}
           o   == IF has # {} THEN CHOOSE x \in has : TRUE ELSE CHOOSE x \in LockIds : objects[x] = NoLock
       IN /\ objects' = [objects EXCEPT ![o] = [@ EXCEPT !.issue = IssueOf[j], !.refs = objects[o].refs + 1]]
          /\ mine' = Upd(mine, j, o)
    /\ runStep' = Upd(runStep, j, "waiting")
    /\ UNCHANGED <<agent, runCtx, pipeVars, endVars>>

\* Then its mutex.
TakeLock(j) ==
    /\ runStep[j] = "waiting" /\ objects[mine[j]].holder = 0
    /\ objects' = [objects EXCEPT ![mine[j]].holder = j]
    /\ runStep' = Upd(runStep, j, "prepare")
    /\ UNCHANGED <<mine, agent, runCtx, pipeVars, endVars>>

\* Release: the mutex first, then the reference under the lock of the map.
GiveLock(j) ==
    /\ runStep[j] = "unlock"
    /\ objects' = [objects EXCEPT ![mine[j]].holder = 0]
    /\ runStep' = Upd(runStep, j, "unref")
    /\ UNCHANGED <<mine, agent, runCtx, pipeVars, endVars>>

DropRef(j) ==
    /\ runStep[j] = "unref"
    /\ objects' = [objects EXCEPT ![mine[j]] =
                      IF @.refs = 1 THEN NoLock ELSE [@ EXCEPT !.refs = objects[mine[j]].refs - 1]]
    /\ mine' = Upd(mine, j, 0) /\ runStep' = Upd(runStep, j, "done")
    /\ UNCHANGED <<agent, runCtx, pipeVars, endVars>>

-----------------------------------------------------------------------------
(* Preparing and launching.                                                *)

\* The worktree; the launcher makes the session sessionRow and starts the session.
\* Either may fail, which is an infrastructure failure.
PrepareTree(j, ok) ==
    /\ runStep[j] = "prepare"
    /\ runStep' = Upd(runStep, j, IF ok THEN "launch" ELSE "close")
    /\ runResult' = IF ok THEN runResult ELSE Upd(runResult, j, "infra")
    /\ UNCHANGED <<objects, mine, agent, runCtx, pipeVars, idle, complete, drained, sessionRow>>

LaunchAgent(j, ok) ==
    /\ runStep[j] = "launch"
    /\ sessionRow' = Upd(sessionRow, j, "running")
    /\ IF ok THEN runStep' = Upd(runStep, j, "run") /\ agent' = Upd(agent, j, "working") /\ runResult' = runResult
             ELSE runStep' = Upd(runStep, j, "close") /\ runResult' = Upd(runResult, j, "infra") /\ agent' = agent
    /\ UNCHANGED <<objects, mine, runCtx, pipeVars, idle, complete, drained>>

-----------------------------------------------------------------------------
(* The pipeline.                                                           *)

\* The session sends an event; it blocks while proxyCh is full.
AgentSends(j) ==
    /\ agent[j] = "working" /\ runCtx[j] = "live" /\ sent[j] < MaxOut /\ inbox[j] < PipeCap
    /\ sent' = Upd(sent, j, sent[j] + 1) /\ inbox' = Upd(inbox, j, inbox[j] + 1)
    /\ UNCHANGED <<runStep, objects, mine, agent, runCtx, hold, outbox, written, endVars>>

\* The proxy takes an event and notes the activity; the last event that an
\* agent sends may be task.complete.
ProxyTakes(j, last) ==
    /\ inbox[j] > 0 /\ hold[j] = 0
    /\ inbox' = Upd(inbox, j, inbox[j] - 1) /\ hold' = Upd(hold, j, 1)
    /\ idle' = Upd(idle, j, 0) /\ complete' = Upd(complete, j, complete[j] \/ last)
    /\ UNCHANGED <<runStep, objects, mine, agent, runCtx, sent, outbox, written, drained, runResult, sessionRow>>

\* ... and hands it on, or drops it and the endVars once the context is done.
ProxyHandsOn(j) ==
    /\ hold[j] = 1 /\ hold' = Upd(hold, j, 0)
    /\ \/ outbox[j] < PipeCap /\ outbox' = Upd(outbox, j, outbox[j] + 1) /\ UNCHANGED inbox
       \/ runCtx[j] = "done" /\ inbox' = Upd(inbox, j, 0) /\ UNCHANGED outbox
    /\ UNCHANGED <<runStep, objects, mine, agent, runCtx, sent, written, endVars>>

Writes(j) ==
    /\ outbox[j] > 0
    /\ outbox' = Upd(outbox, j, outbox[j] - 1) /\ written' = Upd(written, j, written[j] + 1)
    /\ UNCHANGED <<runStep, objects, mine, agent, runCtx, sent, inbox, hold, endVars>>

-----------------------------------------------------------------------------
(* The watchdog.                                                           *)

Watched(j) == runStep[j] \in {"run", "proxydrain"}

WatchTick(j) ==
    /\ Watched(j) /\ runCtx[j] = "live" /\ idle[j] < IdleKill
    /\ idle' = Upd(idle, j, idle[j] + 1)
    /\ UNCHANGED <<runStep, objects, mine, agent, runCtx, pipeVars, complete, drained, runResult, sessionRow>>

\* Mutant: the watchdog looks at runs only that have reported completion.
IsStaleAfterCompletion(j) == complete[j] /\ idle[j] >= Grace

IsStale(j) == idle[j] >= IF complete[j] THEN Grace ELSE IdleKill

Watchdog(j) ==
    /\ Watched(j) /\ runCtx[j] = "live" /\ IsStale(j)
    /\ runCtx' = Upd(runCtx, j, "done")
    /\ UNCHANGED <<runStep, objects, mine, agent, pipeVars, endVars>>

\* The heartbeat lost the ownership, the worker stops, or the task was given
\* up: the context is cancelled from outside.
Abort(j) ==
    /\ runStep[j] \in {"waiting", "prepare", "launch", "run", "proxydrain"} /\ runCtx[j] = "live"
    /\ runCtx' = Upd(runCtx, j, "done")
    /\ UNCHANGED <<runStep, objects, mine, agent, pipeVars, endVars>>

-----------------------------------------------------------------------------
(* The end.                                                                *)

\* The agent exits by itself or because its context is done.
Exits(j, code) ==
    /\ agent[j] = "working" /\ agent' = Upd(agent, j, code)
    /\ UNCHANGED <<runStep, objects, mine, runCtx, pipeVars, endVars>>

\* session.Run returns and proxyCh is closed.
RunReturns(j) ==
    /\ runStep[j] = "run" /\ agent[j] # "working"
    /\ runResult' = Upd(runResult, j, agent[j]) /\ runStep' = Upd(runStep, j, "proxydrain")
    /\ UNCHANGED <<objects, mine, agent, runCtx, pipeVars, idle, complete, drained, sessionRow>>

\* Mutant: eventsCh is closed without waiting for the proxy.
ProxyDrainedUnchecked(j) ==
    /\ runStep[j] = "proxydrain"
    /\ runStep' = Upd(runStep, j, "writerdrain")
    /\ inbox' = Upd(inbox, j, 0) /\ hold' = Upd(hold, j, 0)
    /\ UNCHANGED <<objects, mine, agent, runCtx, sent, outbox, written, endVars>>

\* The proxy is done: eventsCh is closed.
ProxyDrained(j) ==
    /\ runStep[j] = "proxydrain" /\ inbox[j] = 0 /\ hold[j] = 0
    /\ runStep' = Upd(runStep, j, "writerdrain")
    /\ UNCHANGED <<objects, mine, agent, runCtx, pipeVars, endVars>>

\* The proxy does not end in time: the context is cancelled to unblock it.
ProxyDrainTimesOut(j) ==
    /\ runStep[j] = "proxydrain" /\ inbox[j] + hold[j] > 0 /\ runCtx[j] = "live"
    /\ runCtx' = Upd(runCtx, j, "done") /\ drained' = Upd(drained, j, FALSE)
    /\ UNCHANGED <<runStep, objects, mine, agent, pipeVars, idle, complete, runResult, sessionRow>>

\* The writer is done, or given up after the timeout.
WriterDrained(j) ==
    /\ runStep[j] = "writerdrain"
    /\ drained' = Upd(drained, j, drained[j] /\ outbox[j] = 0)
    /\ runStep' = Upd(runStep, j, "close")
    /\ UNCHANGED <<objects, mine, agent, runCtx, pipeVars, idle, complete, runResult, sessionRow>>

RunStatus(r) == CASE r = "ok" -> "completed" [] r = "timeout" -> "timeout" [] OTHER -> "failed"

\* The deferred calls: the session and the worktree, then the session sessionRow.
\* The channels and the state of the watchdog go with the call.
CloseSession(j) ==
    /\ runStep[j] = "close"
    /\ sessionRow' = IF sessionRow[j] = "running" THEN Upd(sessionRow, j, RunStatus(runResult[j])) ELSE sessionRow
    /\ runStep' = Upd(runStep, j, "unlock")
    /\ sent' = Upd(sent, j, 0) /\ inbox' = Upd(inbox, j, 0) /\ hold' = Upd(hold, j, 0)
    /\ outbox' = Upd(outbox, j, 0) /\ written' = Upd(written, j, 0)
    /\ idle' = Upd(idle, j, 0) /\ complete' = Upd(complete, j, FALSE) /\ drained' = Upd(drained, j, TRUE)
    /\ runCtx' = Upd(runCtx, j, "live") /\ agent' = Upd(agent, j, "none")
    /\ UNCHANGED <<objects, mine, runResult>>

RunNext ==
    \E j \in Jobs :
        \/ EnterLock(j) \/ TakeLock(j) \/ GiveLock(j) \/ DropRef(j)
        \/ AgentSends(j) \/ ProxyHandsOn(j) \/ Writes(j) \/ WatchTick(j) \/ Watchdog(j) \/ Abort(j)
        \/ RunReturns(j) \/ ProxyDrained(j) \/ ProxyDrainTimesOut(j) \/ WriterDrained(j) \/ CloseSession(j)
        \/ \E b \in BOOLEAN : PrepareTree(j, b) \/ LaunchAgent(j, b) \/ ProxyTakes(j, b)
        \/ \E code \in {"ok", "bad", "timeout"} : Exits(j, code)

\* The worker's goroutines and timers run on; an agent exits once its context
\* is done (it is killed); the writer may be stuck for ever.
RunFairness ==
    \A j \in Jobs :
        /\ WF_runVars(EnterLock(j)) /\ WF_runVars(TakeLock(j)) /\ WF_runVars(GiveLock(j) \/ DropRef(j))
        /\ WF_runVars(\E b \in BOOLEAN : PrepareTree(j, b) \/ LaunchAgent(j, b))
        /\ WF_runVars(\E b \in BOOLEAN : ProxyTakes(j, b)) /\ WF_runVars(ProxyHandsOn(j))
        /\ WF_runVars(WatchTick(j)) /\ WF_runVars(Watchdog(j))
        /\ WF_runVars(runCtx[j] = "done" /\ Exits(j, "bad"))
        /\ WF_runVars(RunReturns(j) \/ ProxyDrained(j) \/ WriterDrained(j) \/ CloseSession(j))
        /\ WF_runVars(ProxyDrainTimesOut(j))

RunSpec == RunInit /\ [][RunNext]_runVars /\ RunFairness

-----------------------------------------------------------------------------
(* Properties.                                                             *)

\* Two tasks of one issue are never between lock and release at once, also
\* when one acquires the lock while the other is about to drop its entry from
\* the map (issueTaskLocks).
OneRunPerIssue ==
    \A i, j \in Jobs : i # j /\ IssueOf[i] = IssueOf[j] =>
        \/ runStep[i] \in {"new", "waiting", "unref", "done"}
        \/ runStep[j] \in {"new", "waiting", "unref", "done"}

\* A run whose context stayed alive and whose channels were drained in time
\* has every event of the agent on disk, through both channels (Execute
\* closes eventsCh after the proxy and waits for the writer).
EventsAreWritten ==
    \A j \in Jobs :
        runStep[j] = "close" /\ runCtx[j] = "live" /\ drained[j] => written[j] = sent[j]

\* Every execution ends and frees the lock of its issue, also when the agent
\* hangs without output, when it hangs after it reported completion, and
\* when the disk takes no more events: then the blocked proxy notes no
\* activity, the watchdog cancels, and nobody waits for the writer longer
\* than the timeout (Execute, runRemoteSessionWithWatchdog, Watch).
RunsEnd == \A j \in Jobs : runStep[j] = "waiting" ~> runStep[j] = "done"
=============================================================================
