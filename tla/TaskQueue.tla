----------------------------- MODULE TaskQueue -----------------------------
(***************************************************************************)
(* The durable task queue of the coordinator and everybody who moves a row *)
(* of it: the long-polling workers, the HTTP handlers, the stale-row       *)
(* reaper, the start-up recovery of the coordinator, repository            *)
(* deregistration and the operator.                                        *)
(*                                                                         *)
(* Time is abstracted to what the SQL compares it with: a row's lease is   *)
(* "none", "live" or "expired", its heartbeat "none", "fresh" or "stale".  *)
(* A lease (30s) and the reaper's grace (5m) are both counted from the     *)
(* same write, so a heartbeat goes stale only after its lease expired.     *)
(*                                                                         *)
(* Every successful claim of a task starts one execution of it.  Claims of *)
(* a task are numbered 1, 2, ...: the number is bookkeeping of this model; *)
(* the code knows an execution only by its worker_id.                      *)
(***************************************************************************)
EXTENDS Naturals, FiniteSets

CONSTANTS
    Tasks,           \* task ids, numbered in the order created_at, id
    Workers,         \* worker ids
    NoWorker,        \* the NULL worker_id
    Serves,          \* Serves[w]: tasks passing w's role/repo/runtime filter
    Repos,           \* registered repositories
    RepoOf,          \* RepoOf[t]: the repository of task t
    Outcomes,        \* the statuses an agent run can end with
    Concurrency,     \* --concurrency, the worker's semaphore
    SubmitAttempts,  \* bound: requests of one submitResultWithRetry
    MaxClaims,       \* bound: claims of one task
    MaxCrashes       \* bound: coordinator crashes

Terminal == {"completed", "failed", "timeout"}

ASSUME TasksAssumption == Tasks \subseteq Nat
ASSUME WorkersAssumption == NoWorker \notin Workers
ASSUME ServesAssumption == Serves \in [Workers -> SUBSET Tasks]
ASSUME RepoAssumption == RepoOf \in [Tasks -> Repos]
ASSUME OutcomesAssumption == Outcomes \subseteq Terminal
ASSUME BoundAssumption ==
    /\ Concurrency \in Nat \ {0}
    /\ SubmitAttempts \in Nat \ {0}
    /\ MaxClaims \in Nat
    /\ MaxCrashes \in Nat

VARIABLES
    row,       \* the task_queue table
    claims,    \* number of claims made of each task
    exec,      \* exec[t][k]: what the worker of claim k is doing
    mode,      \* each worker process: "polling" or "stopping" (SIGTERM seen)
    handlers,  \* HandleTaskResult calls in progress on the coordinator
    signals,   \* MarkAgentCompleted calls: the claims and statuses passed
    coord,     \* the coordinator: "up", "down" or "recovering"
    crashes,   \* coordinator crashes so far
    recSel,    \* rows RecoverTasks selected and has yet to update
    reapSel    \* rows the reaper selected and has yet to update

vars == <<row, claims, exec, mode, handlers, signals, coord, crashes,
          recSel, reapSel>>

coordVars  == <<coord, crashes, recSel>>

Active   == {"pending", "running"}
Claims   == 1..MaxClaims

Row == [status: {"absent"} \cup Active \cup Terminal,
        worker: Workers \cup {NoWorker},
        lease:  {"none", "live", "expired"},
        beat:   {"none", "fresh", "stale"},
        reaped: BOOLEAN]

(***************************************************************************)
(* Phases of an execution: "unborn" before its claim; "queued" while the   *)
(* poll loop waits for a semaphore slot; "unbound" when the worker has no  *)
(* binding for the repository; "executing" with the heartbeat loop on;     *)
(* "cancelled" once a heartbeat was told the ownership is lost; "released" *)
(* when SIGTERM handed the row back and the agent is winding down;         *)
(* "drain", "submitting", "waiting", "releasing" for the calls after the   *)
(* run; "acked" when the result was accepted; "ended" or "lost" otherwise. *)
(***************************************************************************)
Running  == {"executing", "cancelled", "released"}
AfterRun == {"drain", "submitting", "waiting", "releasing"}
Over     == {"unborn", "acked", "ended", "lost"}
Phases   == {"queued", "unbound"} \cup Running \cup AfterRun \cup Over

Exec == [worker: Workers \cup {NoWorker},
         phase:  Phases,
         result: Terminal,
         infra:  BOOLEAN,
         tries:  0..SubmitAttempts]

Handler == [task: Tasks, claim: Claims, try: 1..SubmitAttempts,
            worker: Workers, result: Terminal, infra: BOOLEAN,
            step: {"received", "checked", "settled"}]

\* An execution with nothing to submit: not yet, or not any more.
Done(w, p) == [worker |-> w, phase |-> p, result |-> "failed",
               infra |-> FALSE, tries |-> 0]

Init ==
    /\ row = [t \in Tasks |-> [status |-> "absent", worker |-> NoWorker,
                               lease |-> "none", beat |-> "none",
                               reaped |-> FALSE]]
    /\ claims = [t \in Tasks |-> 0]
    /\ exec = [t \in Tasks |-> [k \in Claims |-> Done(NoWorker, "unborn")]]
    /\ mode = [w \in Workers |-> "polling"]
    /\ handlers = {}
    /\ signals = [t \in Tasks |-> {}]
    /\ coord = "up"
    /\ crashes = 0
    /\ recSel = {}
    /\ reapSel = {}

-----------------------------------------------------------------------------
(* Helpers on the two tables.                                              *)

SetPhase(t, k, p) == exec' = [exec EXCEPT ![t][k].phase = p]
End(t, k) == exec' = [exec EXCEPT ![t][k] = Done(@.worker, "ended")]

\* Executions of w that occupy a semaphore slot, and the ones that exist.
InSlot(w)  == {e \in Tasks \X Claims : /\ exec[e[1]][e[2]].worker = w
                                       /\ exec[e[1]][e[2]].phase \in Running \cup AfterRun}
Blocked(w) == {e \in Tasks \X Claims : /\ exec[e[1]][e[2]].worker = w
                                       /\ exec[e[1]][e[2]].phase \in {"queued", "unbound"}}

CanReleaseSettled(t, w) == row[t].worker = w

\* ReleaseTask: requeue a running row of w; the lease stays as it was.
CanRelease(t, w) == row[t].status = "running" /\ row[t].worker = w
ReleaseTask(t) == row' = [row EXCEPT ![t].status = "pending", ![t].worker = NoWorker]

-----------------------------------------------------------------------------
(* The queue.                                                              *)

\* InsertTask: the router stores a pending row, in creation order.
InsertTask(t) ==
    /\ coord = "up"
    /\ row[t].status = "absent"
    /\ \A u \in Tasks : u < t => row[u].status # "absent"
    /\ row' = [row EXCEPT ![t].status = "pending"]
    /\ UNCHANGED <<claims, exec, mode, handlers, signals, coordVars, reapSel>>

ClaimableUnderLease(w, t) ==
    /\ t \in Serves[w]
    /\ row[t].status \in Active
    /\ ~(row[t].status = "running" /\ row[t].worker = w)

\* The WHERE clause of the claim query.
Claimable(w, t) ==
    /\ t \in Serves[w]
    /\ row[t].status \in Active
    /\ row[t].lease # "live"
    /\ ~(row[t].status = "running" /\ row[t].worker = w)

ClaimWithoutHeartbeat(w, t) ==
    /\ coord = "up"
    /\ mode[w] = "polling"
    /\ Blocked(w) = {}
    /\ Claimable(w, t)
    /\ \A u \in Tasks : u < t => ~Claimable(w, u)
    /\ claims[t] < MaxClaims
    /\ row' = [row EXCEPT ![t].worker = w, ![t].status = "running", ![t].lease = "live"]
    /\ claims' = [claims EXCEPT ![t] = @ + 1]
    /\ \E p \in {"queued", "unbound", "lost"} :
          exec' = [exec EXCEPT ![t][claims[t] + 1] = Done(w, p)]
    /\ UNCHANGED <<mode, handlers, signals, coordVars, reapSel>>

\* One poll of w: the oldest claimable row becomes w's, with a new lease.
\* The answer reaches the worker, which queues the task for a slot or finds
\* the repository unbound, or is lost on the way.
ClaimNextTask(w, t) ==
    /\ coord = "up"
    /\ mode[w] = "polling"
    /\ Blocked(w) = {}
    /\ Claimable(w, t)
    /\ \A u \in Tasks : u < t => ~Claimable(w, u)
    /\ claims[t] < MaxClaims
    /\ row' = [row EXCEPT ![t].worker = w, ![t].status = "running",
                          ![t].lease = "live", ![t].beat = "fresh"]
    /\ claims' = [claims EXCEPT ![t] = @ + 1]
    /\ \E p \in {"queued", "unbound", "lost"} :
          exec' = [exec EXCEPT ![t][claims[t] + 1] = Done(w, p)]
    /\ UNCHANGED <<mode, handlers, signals, coordVars, reapSel>>

LeaseExpires(t) ==
    /\ row[t].lease = "live"
    /\ row' = [row EXCEPT ![t].lease = "expired"]
    /\ UNCHANGED <<claims, exec, mode, handlers, signals, coordVars, reapSel>>

HeartbeatGoesStale(t) ==
    /\ row[t].beat = "fresh"
    /\ row[t].lease # "live"
    /\ row' = [row EXCEPT ![t].beat = "stale"]
    /\ UNCHANGED <<claims, exec, mode, handlers, signals, coordVars, reapSel>>

-----------------------------------------------------------------------------
(* The worker.                                                             *)

\* The poll loop gets a slot; ExecuteTask starts, or returns at once without
\* touching the row when it finds no agent configuration.
StartExecution(t, k) ==
    /\ exec[t][k].phase = "queued"
    /\ mode[exec[t][k].worker] = "polling"
    /\ Cardinality(InSlot(exec[t][k].worker)) < Concurrency
    /\ SetPhase(t, k, "executing") \/ End(t, k)
    /\ UNCHANGED <<row, claims, mode, handlers, signals, coordVars, reapSel>>

\* The loop hands back a task of a repository it has no binding for; the
\* error of the call is only logged.
ReleaseUnbound(t, k) ==
    /\ exec[t][k].phase = "unbound"
    /\ End(t, k)
    /\ \/ coord = "up" /\ CanRelease(t, exec[t][k].worker) /\ ReleaseTask(t)
       \/ UNCHANGED row
    /\ UNCHANGED <<claims, mode, handlers, signals, coordVars, reapSel>>

\* HeartbeatTask: a new lease and heartbeat, even when the old lease expired.
RenewLease(t) == row' = [row EXCEPT ![t].lease = "live", ![t].beat = "fresh"]

\* HandleTaskHeartbeat: the owner of a running row renews its lease; a former
\* owner is told that the ownership is lost and cancels.  A settled row still
\* owned by the worker answers success and changes nothing.
Heartbeat(t, k) ==
    /\ coord = "up"
    /\ exec[t][k].phase = "executing"
    /\ \/ /\ row[t].worker = exec[t][k].worker
          /\ row[t].status = "running"
          /\ RenewLease(t)
          /\ UNCHANGED exec
       \/ /\ row[t].worker # exec[t][k].worker
          /\ SetPhase(t, k, "cancelled")
          /\ UNCHANGED row
    /\ UNCHANGED <<claims, mode, handlers, signals, coordVars, reapSel>>

\* The agent run ends.  A released task needs nothing more; a failed
\* worktree set-up gives the row back; anything else has a result, which a
\* stopping worker submits only after one more try to release.
FinishExecution(t, k) ==
    /\ exec[t][k].phase \in Running
    /\ \/ /\ exec[t][k].phase = "released"
          /\ End(t, k)
       \/ /\ exec[t][k].phase # "released"
          /\ \E r \in Outcomes, i \in BOOLEAN :
                exec' = [exec EXCEPT ![t][k].result = r, ![t][k].infra = i,
                            ![t][k].phase = IF mode[exec[t][k].worker] = "stopping"
                                            THEN "drain" ELSE "submitting"]
       \/ /\ exec[t][k].phase # "released"
          /\ mode[exec[t][k].worker] = "polling"
          /\ SetPhase(t, k, "releasing")
    /\ UNCHANGED <<row, claims, mode, handlers, signals, coordVars, reapSel>>

\* SIGTERM: the release goroutine, alive until ExecuteTask returns, hands the
\* row back; the agent, the drain or the submission goes on meanwhile.
ReleaseOnShutdown(t, k) ==
    /\ coord = "up"
    /\ exec[t][k].phase \in (Running \cup AfterRun) \ {"released"}
    /\ mode[exec[t][k].worker] = "stopping"
    /\ CanRelease(t, exec[t][k].worker)
    /\ ReleaseTask(t)
    /\ \/ exec[t][k].phase \in Running /\ SetPhase(t, k, "released")
       \/ exec[t][k].phase = "drain" /\ End(t, k)
       \/ exec[t][k].phase \in AfterRun \ {"drain"} /\ UNCHANGED exec
    /\ UNCHANGED <<claims, mode, handlers, signals, coordVars, reapSel>>

\* The second release of a stopping worker, once its run is over; when it
\* fails the result is submitted, or the failed worktree set-up reported.
ReleaseAfterRun(t, k) ==
    /\ exec[t][k].phase = "drain"
    /\ \/ /\ coord = "up" /\ CanRelease(t, exec[t][k].worker)
          /\ ReleaseTask(t)
          /\ End(t, k)
       \/ /\ \E p \in {"submitting", "releasing"} : SetPhase(t, k, p)
          /\ UNCHANGED row
    /\ UNCHANGED <<claims, mode, handlers, signals, coordVars, reapSel>>

\* One attempt of submitResultWithRetry; the request may never arrive.
SubmitResult(t, k) ==
    /\ exec[t][k].phase = "submitting"
    /\ exec' = [exec EXCEPT ![t][k].phase = "waiting", ![t][k].tries = @ + 1]
    /\ \/ /\ coord = "up"
          /\ handlers' = handlers \cup
                {[task |-> t, claim |-> k, try |-> exec[t][k].tries + 1,
                  worker |-> exec[t][k].worker, result |-> exec[t][k].result,
                  infra |-> exec[t][k].infra, step |-> "received"]}
       \/ UNCHANGED handlers
    /\ UNCHANGED <<row, claims, mode, signals, coordVars, reapSel>>

AttemptFailsWaits(t, k) ==
    /\ exec[t][k].phase = "waiting"
    /\ exec[t][k].tries < SubmitAttempts \/ mode[exec[t][k].worker] = "stopping"
    /\ SetPhase(t, k, IF mode[exec[t][k].worker] = "polling" THEN "submitting" ELSE "releasing")
    /\ UNCHANGED <<row, claims, mode, handlers, signals, coordVars, reapSel>>

\* No usable answer: retry while attempts remain, unless the worker stops.
AttemptFails(t, k) ==
    /\ exec[t][k].phase = "waiting"
    /\ SetPhase(t, k, IF exec[t][k].tries < SubmitAttempts /\ mode[exec[t][k].worker] = "polling"
                      THEN "submitting" ELSE "releasing")
    /\ UNCHANGED <<row, claims, mode, handlers, signals, coordVars, reapSel>>

\* The release after a result that could not be delivered (or a failed
\* worktree set-up); its error is only logged.
ReleaseAfterFailure(t, k) ==
    /\ exec[t][k].phase = "releasing"
    /\ End(t, k)
    /\ \/ coord = "up" /\ CanRelease(t, exec[t][k].worker) /\ ReleaseTask(t)
       \/ UNCHANGED row
    /\ UNCHANGED <<claims, mode, handlers, signals, coordVars, reapSel>>

\* SIGTERM: the loop stops polling; a task waiting for a slot is dropped
\* without a release.
WorkerStops(w) ==
    /\ mode[w] = "polling"
    /\ mode' = [mode EXCEPT ![w] = "stopping"]
    /\ exec' = [t \in Tasks |-> [k \in Claims |->
                  IF exec[t][k].worker = w /\ exec[t][k].phase = "queued"
                  THEN Done(w, "lost") ELSE exec[t][k]]]
    /\ UNCHANGED <<row, claims, handlers, signals, coordVars, reapSel>>

\* The stopped process is gone and its service manager starts a new one.
WorkerRestarts(w) ==
    /\ mode[w] = "stopping"
    /\ InSlot(w) = {} /\ Blocked(w) = {}
    /\ mode' = [mode EXCEPT ![w] = "polling"]
    /\ UNCHANGED <<row, claims, exec, handlers, signals, coordVars, reapSel>>

\* The worker process dies and is started again under the same worker id.
WorkerCrashes(w) ==
    /\ InSlot(w) \cup Blocked(w) # {}
    /\ mode' = [mode EXCEPT ![w] = "polling"]
    /\ exec' = [t \in Tasks |-> [k \in Claims |->
                  IF exec[t][k].worker = w /\ exec[t][k].phase \notin Over
                  THEN Done(w, "lost") ELSE exec[t][k]]]
    /\ UNCHANGED <<row, claims, handlers, signals, coordVars, reapSel>>

-----------------------------------------------------------------------------
(* HandleTaskResult: the row is read and the worker id compared, then the  *)
(* status is written; other handlers run in between.                       *)

\* An answer reaches the worker only while it still waits for that attempt.
Answered(h) == /\ exec[h.task][h.claim].phase = "waiting"
               /\ exec[h.task][h.claim].tries = h.try

ResultOwned(h) ==
    /\ h.step = "received"
    /\ row[h.task].worker = h.worker
    /\ handlers' = (handlers \ {h}) \cup {[h EXCEPT !.step = "checked"]}
    /\ UNCHANGED <<row, claims, exec, mode, signals, coordVars, reapSel>>

\* 400 "worker_id does not match": the worker gives up at once.
ResultNotOwned(h) ==
    /\ h.step = "received"
    /\ row[h.task].worker # h.worker
    /\ handlers' = handlers \ {h}
    /\ \/ Answered(h) /\ SetPhase(h.task, h.claim, "releasing")
       \/ UNCHANGED exec
    /\ UNCHANGED <<row, claims, mode, signals, coordVars, reapSel>>

CanTransitionAnyStatus(t) == row[t].status # "absent"

\* TransitionTaskStatusIfRunning: only a pending or running row is written,
\* whoever owns it by now; lease and worker stay.
CanTransition(t) == row[t].status \in Active

ResultSettles(h) ==
    /\ h.step = "checked"
    /\ CanTransition(h.task)
    /\ row' = [row EXCEPT ![h.task].status = h.result]
    /\ handlers' = (handlers \ {h}) \cup {[h EXCEPT !.step = "settled"]}
    /\ UNCHANGED <<claims, exec, mode, signals, coordVars, reapSel>>

\* The accepted result is passed to the state machine unless the launcher,
\* not the agent, failed; then the worker is answered.
ResultSignals(h) ==
    /\ h.step = "settled"
    /\ signals' = IF h.infra THEN signals
                  ELSE [signals EXCEPT ![h.task] = @ \cup {<<h.claim, h.result>>}]
    /\ handlers' = handlers \ {h}
    /\ \/ /\ Answered(h)
          /\ exec' = [exec EXCEPT ![h.task][h.claim] =
                         [Done(h.worker, "acked") EXCEPT !.result = h.result]]
       \/ UNCHANGED exec
    /\ UNCHANGED <<row, claims, mode, coordVars, reapSel>>

ResultConflictsAcked(h) ==
    /\ h.step = "checked"
    /\ ~CanTransition(h.task)
    /\ handlers' = handlers \ {h}
    /\ \/ /\ Answered(h)
          /\ exec' = [exec EXCEPT ![h.task][h.claim] =
                         [Done(h.worker, "acked") EXCEPT !.result = h.result]]
       \/ UNCHANGED exec
    /\ UNCHANGED <<row, claims, mode, signals, coordVars, reapSel>>

\* 409 for a row that is settled already: the worker sees a failed attempt.
ResultConflicts(h) ==
    /\ h.step = "checked"
    /\ ~CanTransition(h.task)
    /\ handlers' = handlers \ {h}
    /\ UNCHANGED <<row, claims, exec, mode, signals, coordVars, reapSel>>

-----------------------------------------------------------------------------
(* Housekeeping: the reaper, the coordinator's restart, deregistration and *)
(* the operator.                                                           *)

ReapSelectWithoutHeartbeat ==
    /\ coord = "up"
    /\ reapSel = {}
    /\ reapSel' = {t \in Tasks : row[t].status = "running" /\ row[t].beat = "none"}
    /\ reapSel' # {}
    /\ UNCHANGED <<row, claims, exec, mode, handlers, signals, coordVars>>

\* ReapStaleRunningTasks, step 1: the running rows with a stale heartbeat.
ReapSelect ==
    /\ coord = "up"
    /\ reapSel = {}
    /\ reapSel' = {t \in Tasks : row[t].status = "running" /\ row[t].beat = "stale"}
    /\ reapSel' # {}
    /\ UNCHANGED <<row, claims, exec, mode, handlers, signals, coordVars>>

\* Step 2, one row: fail it if it is still running, whatever its heartbeat
\* says by now.  A database error ends the pass.
ReapUpdate(t) ==
    /\ t \in reapSel
    /\ reapSel' \in {reapSel \ {t}, {}}
    /\ \/ /\ row[t].status = "running"
          /\ row' = [row EXCEPT ![t].status = "failed", ![t].lease = "none",
                                ![t].worker = NoWorker, ![t].reaped = TRUE]
       \/ /\ row[t].status # "running"
          /\ UNCHANGED row
    /\ UNCHANGED <<claims, exec, mode, handlers, signals, coordVars>>

CoordinatorCrashes ==
    /\ coord # "down"
    /\ crashes < MaxCrashes
    /\ coord' = "down"
    /\ crashes' = crashes + 1
    /\ handlers' = {}
    /\ recSel' = {} /\ reapSel' = {}
    /\ UNCHANGED <<row, claims, exec, mode, signals>>

\* RecoverTasks: list the running rows ...
RecoverSelect ==
    /\ coord = "down"
    /\ coord' = "recovering"
    /\ recSel' = {t \in Tasks : row[t].status = "running"}
    /\ UNCHANGED <<row, claims, exec, mode, handlers, signals, crashes, reapSel>>

\* ... and fail each of them with an unconditional UpdateTaskStatus.
RecoverUpdate(t) ==
    /\ coord = "recovering"
    /\ t \in recSel
    /\ row' = [row EXCEPT ![t].status = "failed"]
    /\ recSel' = recSel \ {t}
    /\ UNCHANGED <<claims, exec, mode, handlers, signals, coord, crashes, reapSel>>

RecoverDone ==
    /\ coord = "recovering"
    /\ recSel = {}
    /\ coord' = "up"
    /\ UNCHANGED <<row, claims, exec, mode, handlers, signals, crashes, recSel, reapSel>>

\* Deregister: FailPendingTasksForRepo.
DeregisterRepo(r) ==
    /\ coord = "up"
    /\ \E t \in Tasks : RepoOf[t] = r /\ row[t].status \in Active
    /\ row' = [t \in Tasks |-> IF RepoOf[t] = r /\ row[t].status \in Active
                               THEN [row[t] EXCEPT !.status = "failed"] ELSE row[t]]
    /\ UNCHANGED <<claims, exec, mode, handlers, signals, coordVars, reapSel>>

\* diagnose --fix works on the database, with or without a coordinator.
FinalizeTaskForOperator(t, s) ==
    /\ row[t].status \in Active
    /\ row' = [row EXCEPT ![t].status = s, ![t].lease = "none", ![t].beat = "fresh"]
    /\ UNCHANGED <<claims, exec, mode, handlers, signals, coordVars, reapSel>>

-----------------------------------------------------------------------------
TaskStep(t) ==
    \/ InsertTask(t)
    \/ \E w \in Workers : ClaimNextTask(w, t)
    \/ LeaseExpires(t)
    \/ HeartbeatGoesStale(t)
    \/ ReapUpdate(t)
    \/ RecoverUpdate(t)
    \/ \E s \in {"completed", "failed"} : FinalizeTaskForOperator(t, s)

ExecStep(t, k) ==
    \/ StartExecution(t, k)
    \/ ReleaseUnbound(t, k)
    \/ Heartbeat(t, k)
    \/ FinishExecution(t, k)
    \/ ReleaseOnShutdown(t, k)
    \/ ReleaseAfterRun(t, k)
    \/ SubmitResult(t, k)
    \/ AttemptFails(t, k)
    \/ ReleaseAfterFailure(t, k)

HandlerStep(h) ==
    \/ ResultOwned(h)
    \/ ResultNotOwned(h)
    \/ ResultSettles(h)
    \/ ResultSignals(h)
    \/ ResultConflicts(h)

WorkerStep(w) ==
    \/ WorkerStops(w)
    \/ WorkerRestarts(w)
    \/ WorkerCrashes(w)

Next ==
    \/ \E t \in Tasks : TaskStep(t)
    \/ \E t \in Tasks, k \in Claims : ExecStep(t, k)
    \/ \E h \in handlers : HandlerStep(h)
    \/ \E w \in Workers : WorkerStep(w)
    \/ ReapSelect
    \/ CoordinatorCrashes
    \/ RecoverSelect
    \/ RecoverDone
    \/ \E r \in Repos : DeregisterRepo(r)

Spec == Init /\ [][Next]_vars

(***************************************************************************)
(* Fairness: time passes, an agent run ends (every session has a timeout   *)
(* and an idle watchdog), a worker and a handler finish what they started, *)
(* the reaper ticks, and a coordinator that is down is started again.      *)
(* Polls, heartbeats, crashes, SIGTERM and the operator are not fair.      *)
(***************************************************************************)
Fairness ==
    /\ \A t \in Tasks :
          /\ WF_vars(LeaseExpires(t)) /\ WF_vars(HeartbeatGoesStale(t))
          /\ WF_vars(ReapUpdate(t)) /\ WF_vars(RecoverUpdate(t))
    /\ \A t \in Tasks, k \in Claims :
          /\ WF_vars(StartExecution(t, k)) /\ WF_vars(ReleaseUnbound(t, k))
          /\ WF_vars(FinishExecution(t, k)) /\ WF_vars(ReleaseAfterRun(t, k))
          /\ WF_vars(SubmitResult(t, k)) /\ WF_vars(AttemptFails(t, k))
          /\ WF_vars(ReleaseAfterFailure(t, k))
    /\ WF_vars(\E h \in handlers : HandlerStep(h))
    /\ WF_vars(ReapSelect) /\ WF_vars(RecoverSelect) /\ WF_vars(RecoverDone)

FairSpec == Spec /\ Fairness

-----------------------------------------------------------------------------
(* Properties.                                                             *)

\* Every variable keeps the shape the code gives it.
TypeOK ==
    /\ row \in [Tasks -> Row]
    /\ claims \in [Tasks -> 0..MaxClaims]
    /\ exec \in [Tasks -> [Claims -> Exec]]
    /\ mode \in [Workers -> {"polling", "stopping"}]
    /\ handlers \subseteq Handler
    /\ signals \in [Tasks -> SUBSET (Claims \X Terminal)]
    /\ coord \in {"up", "down", "recovering"}
    /\ crashes \in 0..MaxCrashes
    /\ recSel \subseteq Tasks /\ reapSel \subseteq Tasks

\* However submissions are retried, delayed and overtaken, the state machine
\* hears of a task at most once, and what it hears is what the row says:
\* neither the reaper, nor a recovering coordinator, nor the operator ever
\* rewrites a result that was passed on.
SignalsAreTrue ==
    \A t \in Tasks :
        /\ \A s1, s2 \in signals[t] : s1 = s2
        /\ \A s \in signals[t] : row[t].status = s[2] /\ ~row[t].reaped

\* A worker that was answered 200 can rely on it: its result is the row's
\* status for good, although the same row is open to the reaper, a restart
\* of the coordinator, the operator and zombies of earlier claims.
AckedIsDurable ==
    \A t \in Tasks, k \in Claims :
        exec[t][k].phase = "acked" => row[t].status = exec[t][k].result

\* A running row belongs to its latest claimant and has a lease and a
\* heartbeat: no late release, heartbeat or result of an earlier claimant
\* takes it over, and the reaper's clause for rows without a heartbeat never
\* applies.
OwnerIsLatestClaimant ==
    \A t \in Tasks :
        row[t].status = "running" =>
            /\ claims[t] > 0
            /\ row[t].worker = exec[t][claims[t]].worker
            /\ row[t].worker # NoWorker
            /\ row[t].lease # "none"
            /\ row[t].beat # "none"

\* A settled row is never queued or run again.
NeverResurrected ==
    [][\A t \in Tasks : row[t].status \in Terminal => row'[t].status \in Terminal]_vars

\* A running row changes hands only after its lease ran out.
NoStealUnderLease ==
    [][\A t \in Tasks :
        (row[t].status = "running" /\ row[t].lease = "live" /\ row'[t].status = "running")
            => row'[t].worker = row[t].worker]_vars

\* No row stays running for ever: whatever became of its worker, of the
\* answer to its poll and of the coordinator, a running row is settled,
\* handed back or reaped.  (A stuck running row makes HasAnyActiveTask true
\* and stops every recovery of its issue.)
RunningRowsMove ==
    \A t \in Tasks : row[t].status = "running" ~> row[t].status # "running"

\* A semaphore slot is never leaked: an execution that occupies one ends,
\* through lost answers, conflicts, lost ownership, SIGTERM and restarts of
\* the coordinator, so a worker with a full semaphore polls again.
SlotsAreFreed ==
    \A t \in Tasks, k \in Claims :
        exec[t][k].phase \in Running \cup AfterRun ~> exec[t][k].phase \in Over

-----------------------------------------------------------------------------
(* What the state machine sees of the queue.                               *)

verdictOf == [t \in Tasks |-> IF row[t].status \in Active THEN "open" ELSE row[t].status]

Once == INSTANCE TaskOnce WITH Attempts <- Claims, Verdicts <- Terminal, verdict <- verdictOf, told <- signals

\* The queue with its leases, claims, retries, reaper and restarts implements
\* TaskOnce: every step settles open tasks, tells one verdict, overrules an
\* untold one or is invisible (HandleTaskResult, the reaper, RecoverTasks,
\* Deregister and diagnose --fix, which write the same row).
ImplementsOnce == Once!OnceSpec
=============================================================================
