-------------------------- MODULE TaskQueueProofs --------------------------
(***************************************************************************)
(* Safety of the task queue for any number of tasks, workers, claims,      *)
(* submission attempts and crashes.                                        *)
(***************************************************************************)
EXTENDS TaskQueue, TLAPS

(***************************************************************************)
(* The inductive invariant.  A claimed execution has a worker and a number *)
(* among the claims made, and attempts left unless it waits or gives up; a *)
(* handler carries the worker of the claim it works for; a handler between *)
(* its UPDATE and its answer holds the row's one settlement; and the rows  *)
(* a recovering coordinator still has to fail have told nobody a result.   *)
(***************************************************************************)
ExecOK ==
    \A t \in Tasks, k \in Claims :
        /\ exec[t][k].phase # "unborn" => exec[t][k].worker \in Workers /\ k <= claims[t]
        /\ exec[t][k].phase \notin {"waiting", "releasing"} => exec[t][k].tries < SubmitAttempts

HandlersOK ==
    \A h \in handlers :
        /\ h.claim <= claims[h.task]
        /\ exec[h.task][h.claim].worker = h.worker

SettledOK ==
    /\ \A h \in handlers : h.step = "settled" =>
          /\ row[h.task].status = h.result
          /\ ~row[h.task].reaped
          /\ signals[h.task] = {}
    /\ \A g, h \in handlers :
          g.step = "settled" /\ h.step = "settled" /\ g.task = h.task => g = h

ReapedIsSettled == \A t \in Tasks : row[t].reaped => row[t].status \in Terminal

RestartOK ==
    /\ coord # "up" => handlers = {} /\ reapSel = {}
    /\ coord # "recovering" => recSel = {}
    /\ \A t \in recSel :
          /\ signals[t] = {}
          /\ \A k \in Claims : exec[t][k].phase # "acked"

IInv ==
    /\ TypeOK
    /\ ExecOK
    /\ HandlersOK
    /\ SettledOK
    /\ ReapedIsSettled
    /\ RestartOK
    /\ SignalsAreTrue
    /\ AckedIsDurable
    /\ OwnerIsLatestClaimant

-----------------------------------------------------------------------------
(* What the updates of one row or one execution do, field by field.        *)

LEMMA SetPhaseEffect ==
    ASSUME TypeOK, NEW t \in Tasks, NEW k \in Claims, NEW p \in Phases, SetPhase(t, k, p)
    PROVE  /\ exec' \in [Tasks -> [Claims -> Exec]]
           /\ exec'[t][k].phase = p
           /\ exec'[t][k].worker = exec[t][k].worker
           /\ exec'[t][k].tries = exec[t][k].tries
           /\ \A u \in Tasks, j \in Claims : u # t \/ j # k => exec'[u][j] = exec[u][j]
<1> DEFINE e == [exec[t][k] EXCEPT !.phase = p]
<1>1. exec[t][k] \in Exec /\ exec \in [Tasks -> [Claims -> Exec]]
  BY DEF TypeOK
<1>2. /\ e \in Exec /\ e.phase = p
      /\ e.worker = exec[t][k].worker /\ e.tries = exec[t][k].tries
  BY <1>1 DEF Exec
<1>3. exec' = [exec EXCEPT ![t] = [exec[t] EXCEPT ![k] = e]]
  BY DEF SetPhase
<1> HIDE DEF e
<1>4. QED BY <1>1, <1>2, <1>3

LEMMA EndEffect ==
    ASSUME TypeOK, NEW t \in Tasks, NEW k \in Claims, End(t, k)
    PROVE  /\ exec' \in [Tasks -> [Claims -> Exec]]
           /\ exec'[t][k].phase = "ended"
           /\ exec'[t][k].worker = exec[t][k].worker
           /\ exec'[t][k].tries = 0
           /\ \A u \in Tasks, j \in Claims : u # t \/ j # k => exec'[u][j] = exec[u][j]
<1> DEFINE e == Done(exec[t][k].worker, "ended")
<1>1. exec[t][k] \in Exec /\ exec \in [Tasks -> [Claims -> Exec]]
  BY DEF TypeOK
<1>2. /\ e \in Exec /\ e.phase = "ended"
      /\ e.worker = exec[t][k].worker /\ e.tries = 0
  BY <1>1, BoundAssumption DEF Exec, Done, Phases, Over, Terminal
<1>3. exec' = [exec EXCEPT ![t] = [exec[t] EXCEPT ![k] = e]]
  BY DEF End
<1> HIDE DEF e
<1>4. QED BY <1>1, <1>2, <1>3

LEMMA ReleaseEffect ==
    ASSUME TypeOK, NEW t \in Tasks, NEW w, CanRelease(t, w), ReleaseTask(t)
    PROVE  /\ row' \in [Tasks -> Row]
           /\ row[t].status = "running" /\ row'[t].status = "pending"
           /\ row'[t].reaped = row[t].reaped
           /\ \A u \in Tasks : u # t => row'[u] = row[u]
<1> DEFINE r == [row[t] EXCEPT !.status = "pending", !.worker = NoWorker]
<1>1. row[t] \in Row /\ row \in [Tasks -> Row]
  BY DEF TypeOK
<1>2. r \in Row /\ r.status = "pending" /\ r.reaped = row[t].reaped
  BY <1>1 DEF Row, Active
<1>3. row' = [row EXCEPT ![t] = r]
  BY DEF ReleaseTask
<1> HIDE DEF r
<1>4. QED BY <1>1, <1>2, <1>3 DEF CanRelease

-----------------------------------------------------------------------------
(***************************************************************************)
(* Most steps leave the completions, the settlements and the ownership     *)
(* alone: they keep the status of settled rows, make no row running and    *)
(* acknowledge nobody.                                                     *)
(***************************************************************************)
QuietRow(t) ==
    /\ row[t].status \in Terminal =>
          row'[t].status = row[t].status /\ row'[t].reaped = row[t].reaped
    /\ row'[t].reaped => row'[t].status \in Terminal
    /\ row'[t].status = "running" =>
          /\ row[t].status = "running" /\ row'[t].worker = row[t].worker
          /\ row'[t].lease # "none" /\ row'[t].beat # "none"

QuietExec(t, k) ==
    \/ exec'[t][k] = exec[t][k]
    \/ /\ exec[t][k].phase # "unborn"
       /\ exec'[t][k].phase \notin {"unborn", "acked"}
       /\ exec'[t][k].worker = exec[t][k].worker
       /\ exec'[t][k].phase \notin {"waiting", "releasing"} => exec'[t][k].tries < SubmitAttempts

LEMMA QuietStep ==
    ASSUME IInv,
           row' \in [Tasks -> Row],
           exec' \in [Tasks -> [Claims -> Exec]],
           mode' \in [Workers -> {"polling", "stopping"}],
           \A t \in Tasks : QuietRow(t),
           \A t \in Tasks, k \in Claims : QuietExec(t, k),
           reapSel' \subseteq Tasks, reapSel' # {} => coord = "up" \/ reapSel # {},
           UNCHANGED <<claims, handlers, signals, coordVars>>
    PROVE  IInv'
<1>1. TypeOK'
  BY DEF IInv, TypeOK, coordVars
<1>2. ExecOK'
  BY DEF IInv, ExecOK, QuietExec
<1>3. HandlersOK'
  BY DEF IInv, TypeOK, Handler, HandlersOK, QuietExec
<1>4. SettledOK'
  <2>1. \A h \in handlers : h.task \in Tasks /\ h.result \in Terminal
    BY DEF IInv, TypeOK, Handler
  <2>2. QED BY <2>1 DEF IInv, SettledOK, QuietRow
<1>5. RestartOK'
  BY DEF IInv, RestartOK, QuietExec, coordVars, TypeOK
<1>6. SignalsAreTrue'
  <2>1. \A t \in Tasks : \A s \in signals[t] : s[2] \in Terminal
    BY DEF IInv, TypeOK
  <2>2. QED BY <2>1 DEF IInv, SignalsAreTrue, QuietRow
<1>7. AckedIsDurable'
  <2>1. \A t \in Tasks, k \in Claims : exec[t][k].result \in Terminal
    BY DEF IInv, TypeOK, Exec
  <2>2. QED BY <2>1 DEF IInv, AckedIsDurable, QuietRow, QuietExec
<1>8. OwnerIsLatestClaimant'
  <2>1. \A t \in Tasks : claims[t] > 0 => claims[t] \in Claims
    BY BoundAssumption DEF IInv, TypeOK, Claims
  <2>2. \A t \in Tasks, k \in Claims : exec'[t][k].worker = exec[t][k].worker
    BY DEF QuietExec
  <2>3. QED BY <2>1, <2>2 DEF IInv, OwnerIsLatestClaimant, QuietRow
<1>9. ReapedIsSettled'
  BY DEF ReapedIsSettled, QuietRow
<1>10. QED BY <1>1, <1>2, <1>3, <1>4, <1>5, <1>6, <1>7, <1>8, <1>9 DEF IInv

\* A quiet step that leaves the executions and the workers alone.
LEMMA QuietRowStep ==
    ASSUME IInv, NEW t \in Tasks, NEW r \in Row,
           row' = [row EXCEPT ![t] = r], QuietRow(t),
           reapSel' \subseteq reapSel,
           UNCHANGED <<claims, exec, mode, handlers, signals, coordVars>>
    PROVE  IInv'
<1>1. row' \in [Tasks -> Row] /\ reapSel' \subseteq Tasks
  BY DEF IInv, TypeOK
<1>2. \A u \in Tasks : QuietRow(u)
  BY <1>1 DEF QuietRow, IInv, TypeOK, OwnerIsLatestClaimant, ReapedIsSettled
<1>3. \A u \in Tasks, k \in Claims : QuietExec(u, k)
  BY DEF QuietExec
<1>4. QED BY <1>1, <1>2, <1>3, QuietStep DEF IInv, TypeOK

\* A quiet step of one execution that leaves the rows alone or releases one.
LEMMA QuietExecStep ==
    ASSUME IInv, NEW t \in Tasks, NEW k \in Claims,
           exec' \in [Tasks -> [Claims -> Exec]], QuietExec(t, k),
           \A u \in Tasks, j \in Claims : u # t \/ j # k => exec'[u][j] = exec[u][j],
           \/ UNCHANGED row
           \/ CanRelease(t, exec[t][k].worker) /\ ReleaseTask(t),
           UNCHANGED <<claims, mode, handlers, signals, coordVars, reapSel>>
    PROVE  IInv'
<1>1. row' \in [Tasks -> Row] /\ \A u \in Tasks : QuietRow(u)
  <2>1. CASE UNCHANGED row
    BY <2>1 DEF IInv, TypeOK, QuietRow, OwnerIsLatestClaimant, ReapedIsSettled
  <2>2. CASE CanRelease(t, exec[t][k].worker) /\ ReleaseTask(t)
    BY <2>2, ReleaseEffect DEF IInv, QuietRow, OwnerIsLatestClaimant, ReapedIsSettled, Terminal
  <2>3. QED BY <2>1, <2>2
<1>2. \A u \in Tasks, j \in Claims : QuietExec(u, j)
  BY DEF QuietExec
<1>3. QED BY <1>1, <1>2, QuietStep DEF IInv, TypeOK

-----------------------------------------------------------------------------
(* The steps of the table.                                                 *)

LEMMA InsertTaskStep ==
    ASSUME IInv, NEW t \in Tasks, InsertTask(t)
    PROVE  IInv'
<1> DEFINE r == [row[t] EXCEPT !.status = "pending"]
<1>1. row[t] \in Row /\ row' = [row EXCEPT ![t] = r] /\ row \in [Tasks -> Row]
  BY DEF IInv, TypeOK, InsertTask
<1>2. r \in Row /\ r.status = "pending" /\ r.reaped = row[t].reaped
  BY <1>1 DEF Row, Active
<1> HIDE DEF r
<1>3. QuietRow(t)
  BY <1>1, <1>2 DEF InsertTask, QuietRow, Terminal, IInv, ReapedIsSettled
<1>4. QED BY <1>1, <1>2, <1>3, QuietRowStep DEF InsertTask

LEMMA LeaseExpiresStep ==
    ASSUME IInv, NEW t \in Tasks, LeaseExpires(t)
    PROVE  IInv'
<1> DEFINE r == [row[t] EXCEPT !.lease = "expired"]
<1>1. row[t] \in Row /\ row' = [row EXCEPT ![t] = r] /\ row \in [Tasks -> Row]
  BY DEF IInv, TypeOK, LeaseExpires
<1>2. /\ r \in Row /\ r.status = row[t].status /\ r.worker = row[t].worker
      /\ r.reaped = row[t].reaped /\ r.lease = "expired" /\ r.beat = row[t].beat
  BY <1>1 DEF Row
<1> HIDE DEF r
<1>3. QuietRow(t)
  BY <1>1, <1>2 DEF IInv, OwnerIsLatestClaimant, ReapedIsSettled, QuietRow
<1>4. QED BY <1>1, <1>2, <1>3, QuietRowStep DEF LeaseExpires

LEMMA HeartbeatGoesStaleStep ==
    ASSUME IInv, NEW t \in Tasks, HeartbeatGoesStale(t)
    PROVE  IInv'
<1> DEFINE r == [row[t] EXCEPT !.beat = "stale"]
<1>1. row[t] \in Row /\ row' = [row EXCEPT ![t] = r] /\ row \in [Tasks -> Row]
  BY DEF IInv, TypeOK, HeartbeatGoesStale
<1>2. /\ r \in Row /\ r.status = row[t].status /\ r.worker = row[t].worker
      /\ r.reaped = row[t].reaped /\ r.lease = row[t].lease /\ r.beat = "stale"
  BY <1>1 DEF Row
<1> HIDE DEF r
<1>3. QuietRow(t)
  BY <1>1, <1>2 DEF IInv, OwnerIsLatestClaimant, ReapedIsSettled, QuietRow
<1>4. QED BY <1>1, <1>2, <1>3, QuietRowStep DEF HeartbeatGoesStale

LEMMA FinalizeStep ==
    ASSUME IInv, NEW t \in Tasks, NEW s \in {"completed", "failed"},
           FinalizeTaskForOperator(t, s)
    PROVE  IInv'
<1> DEFINE r == [row[t] EXCEPT !.status = s, !.lease = "none", !.beat = "fresh"]
<1>1. row[t] \in Row /\ row' = [row EXCEPT ![t] = r] /\ row \in [Tasks -> Row]
  BY DEF IInv, TypeOK, FinalizeTaskForOperator
<1>2. r \in Row /\ r.status = s
  BY <1>1 DEF Row, Terminal
<1> HIDE DEF r
<1>3. QuietRow(t)
  BY <1>1, <1>2 DEF FinalizeTaskForOperator, QuietRow, Active, Terminal
<1>4. QED BY <1>1, <1>2, <1>3, QuietRowStep DEF FinalizeTaskForOperator

LEMMA ReapUpdateStep ==
    ASSUME IInv, NEW t \in Tasks, ReapUpdate(t)
    PROVE  IInv'
<1>1. row[t] \in Row /\ row \in [Tasks -> Row] /\ reapSel' \subseteq reapSel
  BY DEF IInv, TypeOK, ReapUpdate
<1>2. CASE row[t].status = "running"
  <2> DEFINE r == [row[t] EXCEPT !.status = "failed", !.lease = "none",
                                 !.worker = NoWorker, !.reaped = TRUE]
  <2>1. row' = [row EXCEPT ![t] = r]
    BY <1>2 DEF ReapUpdate
  <2>2. r \in Row /\ r.status = "failed"
    BY <1>1 DEF Row, Terminal
  <2> HIDE DEF r
  <2>3. QuietRow(t)
    BY <1>1, <1>2, <2>1, <2>2 DEF QuietRow, Terminal
  <2>4. QED BY <1>1, <2>1, <2>2, <2>3, QuietRowStep DEF ReapUpdate
<1>3. CASE row[t].status # "running"
  <2>1. row' = [row EXCEPT ![t] = row[t]]
    BY <1>1, <1>3 DEF ReapUpdate
  <2>2. QuietRow(t)
    BY <1>1, <1>3, <2>1 DEF QuietRow, IInv, ReapedIsSettled
  <2>3. QED BY <1>1, <2>1, <2>2, QuietRowStep DEF ReapUpdate
<1>4. QED BY <1>2, <1>3

LEMMA ReapSelectStep ==
    ASSUME IInv, ReapSelect
    PROVE  IInv'
<1>1. reapSel' \subseteq Tasks /\ coord = "up"
  BY DEF ReapSelect
<1>2. \A t \in Tasks : QuietRow(t)
  BY DEF ReapSelect, QuietRow, IInv, OwnerIsLatestClaimant, ReapedIsSettled
<1>3. \A t \in Tasks, k \in Claims : QuietExec(t, k)
  BY DEF ReapSelect, QuietExec
<1>4. QED BY <1>1, <1>2, <1>3, QuietStep DEF ReapSelect, IInv, TypeOK

LEMMA DeregisterRepoStep ==
    ASSUME IInv, NEW r \in Repos, DeregisterRepo(r)
    PROVE  IInv'
<1>1. \A t \in Tasks : row[t] \in Row /\ [row[t] EXCEPT !.status = "failed"] \in Row
  BY DEF IInv, TypeOK, Row, Terminal
<1>2. row' \in [Tasks -> Row]
  BY <1>1 DEF DeregisterRepo
<1>3. \A t \in Tasks : QuietRow(t)
  <2>1. SUFFICES ASSUME NEW t \in Tasks PROVE QuietRow(t)
    OBVIOUS
  <2>2. row'[t] = row[t] \/ (row[t].status \in Active /\ row'[t] = [row[t] EXCEPT !.status = "failed"])
    BY DEF DeregisterRepo
  <2>3. [row[t] EXCEPT !.status = "failed"].status = "failed"
    BY <1>1 DEF Row
  <2>4. QED BY <2>2, <2>3 DEF QuietRow, Active, Terminal, IInv, OwnerIsLatestClaimant, ReapedIsSettled
<1>4. \A t \in Tasks, k \in Claims : QuietExec(t, k)
  BY DEF DeregisterRepo, QuietExec
<1>5. QED BY <1>2, <1>3, <1>4, QuietStep DEF DeregisterRepo, IInv, TypeOK

-----------------------------------------------------------------------------
(* The steps of a worker.                                                  *)

\* A phase is left for another one of a claimed execution.
LEMMA SetPhaseQuiet ==
    ASSUME IInv, NEW t \in Tasks, NEW k \in Claims, NEW p \in Phases \ {"unborn", "acked"},
           exec[t][k].phase # "unborn",
           p \notin {"waiting", "releasing"} => exec[t][k].tries < SubmitAttempts,
           SetPhase(t, k, p)
    PROVE  /\ exec' \in [Tasks -> [Claims -> Exec]]
           /\ QuietExec(t, k)
           /\ \A u \in Tasks, j \in Claims : u # t \/ j # k => exec'[u][j] = exec[u][j]
BY SetPhaseEffect DEF IInv, QuietExec

LEMMA EndQuiet ==
    ASSUME IInv, NEW t \in Tasks, NEW k \in Claims, exec[t][k].phase # "unborn", End(t, k)
    PROVE  /\ exec' \in [Tasks -> [Claims -> Exec]]
           /\ QuietExec(t, k)
           /\ \A u \in Tasks, j \in Claims : u # t \/ j # k => exec'[u][j] = exec[u][j]
BY EndEffect, BoundAssumption DEF IInv, QuietExec

LEMMA StartExecutionStep ==
    ASSUME IInv, NEW t \in Tasks, NEW k \in Claims, StartExecution(t, k)
    PROVE  IInv'
<1>1. exec[t][k].phase = "queued" /\ exec[t][k].tries < SubmitAttempts
  BY DEF StartExecution, IInv, ExecOK
<1>2. CASE SetPhase(t, k, "executing")
  BY <1>1, <1>2, SetPhaseQuiet, QuietExecStep DEF StartExecution, Phases, Running
<1>3. CASE End(t, k)
  BY <1>1, <1>3, EndQuiet, QuietExecStep DEF StartExecution
<1>4. QED BY <1>2, <1>3 DEF StartExecution

LEMMA ReleaseUnboundStep ==
    ASSUME IInv, NEW t \in Tasks, NEW k \in Claims, ReleaseUnbound(t, k)
    PROVE  IInv'
BY EndQuiet, QuietExecStep DEF ReleaseUnbound

LEMMA ReleaseAfterFailureStep ==
    ASSUME IInv, NEW t \in Tasks, NEW k \in Claims, ReleaseAfterFailure(t, k)
    PROVE  IInv'
BY EndQuiet, QuietExecStep DEF ReleaseAfterFailure

LEMMA HeartbeatStep ==
    ASSUME IInv, NEW t \in Tasks, NEW k \in Claims, Heartbeat(t, k)
    PROVE  IInv'
<1>1. CASE UNCHANGED exec /\ row[t].status = "running"
           /\ row' = [row EXCEPT ![t].lease = "live", ![t].beat = "fresh"]
  <2> DEFINE r == [row[t] EXCEPT !.lease = "live", !.beat = "fresh"]
  <2>1. row[t] \in Row /\ row \in [Tasks -> Row] /\ row' = [row EXCEPT ![t] = r]
    BY <1>1 DEF IInv, TypeOK
  <2>2. /\ r \in Row /\ r.status = row[t].status /\ r.worker = row[t].worker
        /\ r.lease = "live" /\ r.beat = "fresh" /\ r.reaped = row[t].reaped
    BY <2>1 DEF Row
  <2> HIDE DEF r
  <2>3. QuietRow(t)
    BY <2>1, <2>2, <1>1 DEF QuietRow, IInv, ReapedIsSettled
  <2>4. QED BY <1>1, <2>1, <2>2, <2>3, QuietRowStep DEF Heartbeat
<1>2. CASE SetPhase(t, k, "cancelled") /\ UNCHANGED row
  <2>1. exec[t][k].phase = "executing" /\ exec[t][k].tries < SubmitAttempts
    BY DEF Heartbeat, IInv, ExecOK
  <2>2. QED BY <1>2, <2>1, SetPhaseQuiet, QuietExecStep DEF Heartbeat, Phases, Running
<1>3. QED BY <1>1, <1>2 DEF Heartbeat, RenewLease

LEMMA FinishExecutionStep ==
    ASSUME IInv, NEW t \in Tasks, NEW k \in Claims, FinishExecution(t, k)
    PROVE  IInv'
<1>1. exec[t][k].phase # "unborn" /\ exec[t][k].tries < SubmitAttempts
  BY DEF FinishExecution, Running, IInv, ExecOK
<1>2. CASE End(t, k)
  BY <1>1, <1>2, EndQuiet, QuietExecStep DEF FinishExecution
<1>3. CASE SetPhase(t, k, "releasing")
  BY <1>1, <1>3, SetPhaseQuiet, QuietExecStep DEF FinishExecution, Phases, AfterRun
<1>4. ASSUME NEW r \in Outcomes, NEW i \in BOOLEAN,
             exec' = [exec EXCEPT ![t][k].result = r, ![t][k].infra = i,
                         ![t][k].phase = IF mode[exec[t][k].worker] = "stopping"
                                         THEN "drain" ELSE "submitting"]
      PROVE  IInv'
  <2> DEFINE p == IF mode[exec[t][k].worker] = "stopping" THEN "drain" ELSE "submitting"
             e == [exec[t][k] EXCEPT !.result = r, !.infra = i, !.phase = p]
  <2>1. exec[t][k] \in Exec /\ exec \in [Tasks -> [Claims -> Exec]]
    BY DEF IInv, TypeOK
  <2>2. p \in {"drain", "submitting"}
    OBVIOUS
  <2>3. exec' = [exec EXCEPT ![t] = [exec[t] EXCEPT ![k] = e]]
    BY <1>4
  <2> HIDE DEF p
  <2>4. e \in Exec /\ e.phase = p /\ e.worker = exec[t][k].worker /\ e.tries = exec[t][k].tries
    BY <2>1, <2>2, OutcomesAssumption DEF Exec, Phases, AfterRun
  <2> HIDE DEF e
  <2>5. /\ exec' \in [Tasks -> [Claims -> Exec]]
        /\ exec'[t][k] = e
        /\ \A u \in Tasks, j \in Claims : u # t \/ j # k => exec'[u][j] = exec[u][j]
    BY <2>1, <2>3, <2>4
  <2>6. QuietExec(t, k)
    BY <1>1, <2>2, <2>4, <2>5 DEF QuietExec
  <2>7. QED BY <2>5, <2>6, QuietExecStep DEF FinishExecution
<1>5. QED BY <1>2, <1>3, <1>4 DEF FinishExecution

LEMMA ReleaseOnShutdownStep ==
    ASSUME IInv, NEW t \in Tasks, NEW k \in Claims, ReleaseOnShutdown(t, k)
    PROVE  IInv'
<1>1. exec[t][k].phase # "unborn"
  BY DEF ReleaseOnShutdown, Running, AfterRun
<1>2. CASE exec[t][k].phase \in Running /\ SetPhase(t, k, "released")
  <2>1. exec[t][k].tries < SubmitAttempts
    BY <1>2 DEF Running, IInv, ExecOK
  <2>2. QED BY <1>1, <1>2, <2>1, SetPhaseQuiet, QuietExecStep DEF ReleaseOnShutdown, Phases, Running
<1>3. CASE End(t, k)
  BY <1>1, <1>3, EndQuiet, QuietExecStep DEF ReleaseOnShutdown
<1>4. CASE UNCHANGED exec
  BY <1>4, QuietExecStep DEF ReleaseOnShutdown, QuietExec, IInv, TypeOK
<1>5. QED BY <1>2, <1>3, <1>4 DEF ReleaseOnShutdown

LEMMA ReleaseAfterRunStep ==
    ASSUME IInv, NEW t \in Tasks, NEW k \in Claims, ReleaseAfterRun(t, k)
    PROVE  IInv'
<1>1. exec[t][k].phase # "unborn" /\ exec[t][k].tries < SubmitAttempts
  BY DEF ReleaseAfterRun, IInv, ExecOK
<1>2. CASE CanRelease(t, exec[t][k].worker) /\ ReleaseTask(t) /\ End(t, k)
  BY <1>1, <1>2, EndQuiet, QuietExecStep DEF ReleaseAfterRun
<1>3. ASSUME NEW p \in {"submitting", "releasing"}, SetPhase(t, k, p), UNCHANGED row
      PROVE  IInv'
  BY <1>1, <1>3, SetPhaseQuiet, QuietExecStep DEF ReleaseAfterRun, Phases, AfterRun
<1>4. QED BY <1>2, <1>3 DEF ReleaseAfterRun

LEMMA AttemptFailsStep ==
    ASSUME IInv, NEW t \in Tasks, NEW k \in Claims, AttemptFails(t, k)
    PROVE  IInv'
<1>1. PICK p \in {"submitting", "releasing"} :
         SetPhase(t, k, p) /\ (p = "submitting" => exec[t][k].tries < SubmitAttempts)
  BY DEF AttemptFails
<1>2. QED BY <1>1, SetPhaseQuiet, QuietExecStep DEF AttemptFails, Phases, AfterRun

\* WorkerStops and WorkerCrashes: some executions of a worker are lost.
LEMMA LoseExecutions ==
    ASSUME IInv, NEW w \in Workers,
           exec' = [t \in Tasks |-> [k \in Claims |-> exec'[t][k]]],
           \A t \in Tasks, k \in Claims :
              \/ exec'[t][k] = exec[t][k]
              \/ /\ exec[t][k].worker = w /\ exec[t][k].phase # "unborn"
                 /\ exec'[t][k] = Done(w, "lost"),
           mode' \in [Workers -> {"polling", "stopping"}],
           UNCHANGED <<row, claims, handlers, signals, coordVars, reapSel>>
    PROVE  IInv'
<1>1. Done(w, "lost") \in Exec /\ Done(w, "lost").worker = w
      /\ Done(w, "lost").phase = "lost" /\ Done(w, "lost").tries < SubmitAttempts
  BY BoundAssumption DEF Done, Exec, Phases, Over, Terminal
<1>2. \A t \in Tasks, k \in Claims : exec'[t][k] \in Exec
  BY <1>1 DEF IInv, TypeOK
<1>3. exec' \in [Tasks -> [Claims -> Exec]]
  BY <1>2
<1>4. \A t \in Tasks, k \in Claims : QuietExec(t, k)
  BY <1>1 DEF QuietExec
<1>5. \A t \in Tasks : QuietRow(t)
  BY DEF QuietRow, IInv, OwnerIsLatestClaimant, ReapedIsSettled
<1>6. QED BY <1>3, <1>4, <1>5, QuietStep DEF IInv, TypeOK

LEMMA WorkerStopsStep ==
    ASSUME IInv, NEW w \in Workers, WorkerStops(w)
    PROVE  IInv'
<1>1. mode' \in [Workers -> {"polling", "stopping"}]
  BY DEF WorkerStops, IInv, TypeOK
<1>2. \A t \in Tasks, k \in Claims :
         \/ exec'[t][k] = exec[t][k]
         \/ /\ exec[t][k].worker = w /\ exec[t][k].phase # "unborn"
            /\ exec'[t][k] = Done(w, "lost")
  BY DEF WorkerStops
<1>3. exec' = [t \in Tasks |-> [k \in Claims |-> exec'[t][k]]]
  BY DEF WorkerStops
<1>4. QED BY <1>1, <1>2, <1>3, LoseExecutions DEF WorkerStops

LEMMA WorkerCrashesStep ==
    ASSUME IInv, NEW w \in Workers, WorkerCrashes(w)
    PROVE  IInv'
<1>1. mode' \in [Workers -> {"polling", "stopping"}]
  BY DEF WorkerCrashes, IInv, TypeOK
<1>2. \A t \in Tasks, k \in Claims :
         \/ exec'[t][k] = exec[t][k]
         \/ /\ exec[t][k].worker = w /\ exec[t][k].phase # "unborn"
            /\ exec'[t][k] = Done(w, "lost")
  BY DEF WorkerCrashes, Over
<1>3. exec' = [t \in Tasks |-> [k \in Claims |-> exec'[t][k]]]
  BY DEF WorkerCrashes
<1>4. QED BY <1>1, <1>2, <1>3, LoseExecutions DEF WorkerCrashes

LEMMA WorkerRestartsStep ==
    ASSUME IInv, NEW w \in Workers, WorkerRestarts(w)
    PROVE  IInv'
<1>1. mode' \in [Workers -> {"polling", "stopping"}]
  BY DEF WorkerRestarts, IInv, TypeOK
<1>2. \A t \in Tasks, k \in Claims : QuietExec(t, k)
  BY DEF QuietExec, WorkerRestarts
<1>3. \A t \in Tasks : QuietRow(t)
  BY DEF QuietRow, WorkerRestarts, IInv, OwnerIsLatestClaimant, ReapedIsSettled
<1>4. QED BY <1>1, <1>2, <1>3, QuietStep DEF WorkerRestarts, IInv, TypeOK

-----------------------------------------------------------------------------
(* The claim, which makes a row running.                                   *)

LEMMA ClaimNextTaskStep ==
    ASSUME IInv, NEW t \in Tasks, NEW w \in Workers, ClaimNextTask(w, t)
    PROVE  IInv'
<1> DEFINE r == [row[t] EXCEPT !.worker = w, !.status = "running",
                               !.lease = "live", !.beat = "fresh"]
           n == claims[t] + 1
<1>1. /\ row[t] \in Row /\ row \in [Tasks -> Row] /\ row' = [row EXCEPT ![t] = r]
      /\ exec[t] \in [Claims -> Exec] /\ exec \in [Tasks -> [Claims -> Exec]]
      /\ claims \in [Tasks -> 0..MaxClaims] /\ claims' = [claims EXCEPT ![t] = n]
  BY DEF IInv, TypeOK, ClaimNextTask
<1>2. n \in Claims /\ n > claims[t] /\ n \in 0..MaxClaims /\ n > 0
  BY <1>1, BoundAssumption DEF ClaimNextTask, Claims
<1>3. /\ r \in Row /\ r.status = "running" /\ r.worker = w
      /\ r.lease = "live" /\ r.beat = "fresh" /\ r.reaped = row[t].reaped
  BY <1>1 DEF Row, Active
<1>4. row[t].status \in Active
  BY DEF ClaimNextTask, Claimable
<1>5. PICK p \in {"queued", "unbound", "lost"} :
         exec' = [exec EXCEPT ![t] = [exec[t] EXCEPT ![n] = Done(w, p)]]
  BY DEF ClaimNextTask
<1>6. /\ Done(w, p) \in Exec /\ Done(w, p).worker = w /\ Done(w, p).phase = p
      /\ Done(w, p).tries < SubmitAttempts
  BY BoundAssumption DEF Done, Exec, Phases, Over, Terminal
<1> HIDE DEF r, n
<1>7. /\ exec' \in [Tasks -> [Claims -> Exec]] /\ exec'[t][n] = Done(w, p)
      /\ \A u \in Tasks, j \in Claims : u # t \/ j # n => exec'[u][j] = exec[u][j]
  BY <1>1, <1>2, <1>5, <1>6
<1>8. UNCHANGED <<mode, handlers, signals, coord, crashes, recSel, reapSel>> /\ coord = "up"
  BY DEF ClaimNextTask, coordVars
<1>9. TypeOK'
  BY <1>1, <1>2, <1>3, <1>7, <1>8 DEF IInv, TypeOK
<1>10. ExecOK'
  BY <1>1, <1>2, <1>6, <1>7 DEF IInv, ExecOK, Claims
<1>11. HandlersOK'
  <2>1. \A h \in handlers : h.task \in Tasks /\ h.claim \in Claims
    BY DEF IInv, TypeOK, Handler
  <2>2. SUFFICES ASSUME NEW h \in handlers
                 PROVE  h.claim <= claims'[h.task] /\ exec'[h.task][h.claim].worker = h.worker
    BY <1>8 DEF HandlersOK
  <2>3. h.claim <= claims[h.task] /\ exec[h.task][h.claim].worker = h.worker
    BY DEF IInv, HandlersOK
  <2>4. h.claim \in Nat /\ claims[t] \in Nat /\ n \in Nat
    BY <2>1, <1>1, <1>2, BoundAssumption DEF Claims
  <2>5. CASE h.task = t
    BY <2>1, <2>3, <2>4, <2>5, <1>1, <1>2, <1>7
  <2>6. CASE h.task # t
    BY <2>1, <2>3, <2>6, <1>1, <1>7
  <2>7. QED BY <2>5, <2>6
<1>12. SettledOK'
  <2>1. \A h \in handlers : h.task \in Tasks /\ h.result \in Terminal
    BY DEF IInv, TypeOK, Handler
  <2>2. QED BY <2>1, <1>1, <1>4, <1>8 DEF IInv, SettledOK, Active, Terminal
<1>13. RestartOK'
  BY <1>8 DEF IInv, RestartOK
<1>14. SignalsAreTrue'
  <2>1. \A u \in Tasks : \A s \in signals[u] : s[2] \in Terminal
    BY DEF IInv, TypeOK
  <2>2. QED BY <2>1, <1>1, <1>4, <1>8 DEF IInv, SignalsAreTrue, Active, Terminal
<1>15. AckedIsDurable'
  <2>1. \A u \in Tasks, j \in Claims : exec[u][j].result \in Terminal
    BY DEF IInv, TypeOK, Exec
  <2>2. SUFFICES ASSUME NEW u \in Tasks, NEW j \in Claims, exec'[u][j].phase = "acked"
                 PROVE  row'[u].status = exec'[u][j].result
    BY DEF AckedIsDurable
  <2>3. exec'[u][j] = exec[u][j]
    BY <2>2, <1>6, <1>7
  <2>4. row[u].status = exec[u][j].result /\ row[u].status \in Terminal
    BY <2>1, <2>2, <2>3 DEF IInv, AckedIsDurable
  <2>5. u # t
    BY <2>4, <1>4 DEF Active, Terminal
  <2>6. QED BY <2>3, <2>4, <2>5, <1>1
<1>16. OwnerIsLatestClaimant'
  <2>1. SUFFICES ASSUME NEW u \in Tasks, row'[u].status = "running"
                 PROVE  /\ claims'[u] > 0
                        /\ row'[u].worker = exec'[u][claims'[u]].worker
                        /\ row'[u].worker # NoWorker
                        /\ row'[u].lease # "none" /\ row'[u].beat # "none"
    BY DEF OwnerIsLatestClaimant
  <2>2. CASE u = t
    BY <2>2, <1>1, <1>2, <1>3, <1>6, <1>7, WorkersAssumption
  <2>3. CASE u # t
    <3>1. row'[u] = row[u] /\ claims'[u] = claims[u]
      BY <2>3, <1>1
    <3>2. claims[u] > 0 => claims[u] \in Claims
      BY <1>1, BoundAssumption DEF Claims
    <3>3. QED BY <2>1, <2>3, <3>1, <3>2, <1>7 DEF IInv, OwnerIsLatestClaimant
  <2>4. QED BY <2>2, <2>3
<1>17. ReapedIsSettled'
  BY <1>1, <1>3, <1>4 DEF IInv, ReapedIsSettled, Active, Terminal
<1>18. QED BY <1>9, <1>10, <1>11, <1>12, <1>13, <1>14, <1>15, <1>16, <1>17 DEF IInv

-----------------------------------------------------------------------------
(* The submission and the handler of the result.                           *)

LEMMA SubmitResultStep ==
    ASSUME IInv, NEW t \in Tasks, NEW k \in Claims, SubmitResult(t, k)
    PROVE  IInv'
<1> DEFINE e == [exec[t][k] EXCEPT !.phase = "waiting", !.tries = exec[t][k].tries + 1]
           g == [task |-> t, claim |-> k, try |-> exec[t][k].tries + 1,
                 worker |-> exec[t][k].worker, result |-> exec[t][k].result,
                 infra |-> exec[t][k].infra, step |-> "received"]
<1>1. /\ exec[t][k] \in Exec /\ exec \in [Tasks -> [Claims -> Exec]]
      /\ exec[t][k].phase = "submitting"
      /\ exec' = [exec EXCEPT ![t] = [exec[t] EXCEPT ![k] = e]]
      /\ exec[t][k].tries < SubmitAttempts
      /\ exec[t][k].worker \in Workers /\ k <= claims[t]
  BY DEF IInv, TypeOK, ExecOK, SubmitResult
<1>2. exec[t][k].tries + 1 \in 1..SubmitAttempts /\ exec[t][k].tries + 1 \in 0..SubmitAttempts
  BY <1>1, BoundAssumption DEF Exec
<1>3. e \in Exec /\ e.phase = "waiting" /\ e.worker = exec[t][k].worker
  BY <1>1, <1>2 DEF Exec, Phases, AfterRun
<1>4. /\ g \in Handler /\ g.task = t /\ g.claim = k
      /\ g.worker = exec[t][k].worker /\ g.step = "received"
  BY <1>1, <1>2 DEF Exec, Handler
<1>5. handlers' \subseteq handlers \cup {g} /\ (coord # "up" => handlers' = handlers)
  BY DEF SubmitResult
<1>6. UNCHANGED <<row, claims, mode, signals, coord, crashes, recSel, reapSel>>
  BY DEF SubmitResult, coordVars
<1> HIDE DEF e, g
<1>7. /\ exec' \in [Tasks -> [Claims -> Exec]] /\ exec'[t][k] = e
      /\ \A u \in Tasks, j \in Claims : u # t \/ j # k => exec'[u][j] = exec[u][j]
  BY <1>1, <1>3
<1>8. TypeOK'
  BY <1>4, <1>5, <1>6, <1>7 DEF IInv, TypeOK
<1>9. ExecOK'
  BY <1>1, <1>3, <1>6, <1>7 DEF IInv, ExecOK
<1>10. HandlersOK'
  <2>1. \A h \in handlers : h.task \in Tasks /\ h.claim \in Claims
    BY DEF IInv, TypeOK, Handler
  <2>2. QED BY <2>1, <1>1, <1>3, <1>4, <1>5, <1>6, <1>7 DEF IInv, HandlersOK
<1>11. SettledOK'
  BY <1>4, <1>5, <1>6 DEF IInv, SettledOK
<1>12. RestartOK'
  BY <1>3, <1>5, <1>6, <1>7 DEF IInv, RestartOK, TypeOK
<1>13. SignalsAreTrue'
  BY <1>6 DEF IInv, SignalsAreTrue
<1>14. AckedIsDurable'
  BY <1>3, <1>6, <1>7 DEF IInv, AckedIsDurable
<1>15. OwnerIsLatestClaimant'
  <2>1. \A u \in Tasks : claims[u] > 0 => claims[u] \in Claims
    BY BoundAssumption DEF IInv, TypeOK, Claims
  <2>2. \A u \in Tasks, j \in Claims : exec'[u][j].worker = exec[u][j].worker
    BY <1>3, <1>7
  <2>3. QED BY <2>1, <2>2, <1>6 DEF IInv, OwnerIsLatestClaimant
<1>16. ReapedIsSettled'
  BY <1>6 DEF IInv, ReapedIsSettled
<1>17. QED BY <1>8, <1>9, <1>10, <1>11, <1>12, <1>13, <1>14, <1>15, <1>16 DEF IInv

\* A handler that answers, or moves on without having settled the row.
LEMMA HandlerMoves ==
    ASSUME IInv, NEW h \in handlers, NEW g \in Handler,
           g = [h EXCEPT !.step = "checked"],
           handlers' \in {handlers \ {h}, (handlers \ {h}) \cup {g}}
    PROVE  /\ handlers' \subseteq Handler
           /\ \A i \in handlers' :
                 \/ i \in handlers
                 \/ i.task = h.task /\ i.claim = h.claim /\ i.worker = h.worker /\ i.step = "checked"
<1>1. h \in Handler /\ handlers \subseteq Handler
  BY DEF IInv, TypeOK
<1>2. g.task = h.task /\ g.claim = h.claim /\ g.worker = h.worker /\ g.step = "checked"
  BY <1>1 DEF Handler
<1>3. QED BY <1>1, <1>2

LEMMA HandlerStepQuiet ==
    ASSUME IInv, NEW h \in handlers,
           handlers' \subseteq Handler,
           \A i \in handlers' :
              \/ i \in handlers
              \/ i.task = h.task /\ i.claim = h.claim /\ i.worker = h.worker /\ i.step = "checked",
           exec' \in [Tasks -> [Claims -> Exec]],
           \A t \in Tasks, k \in Claims : QuietExec(t, k),
           UNCHANGED <<row, claims, mode, signals, coordVars, reapSel>>
    PROVE  IInv'
<1>0. h \in Handler /\ coord = "up"
  BY DEF IInv, TypeOK, RestartOK
<1>1. TypeOK'
  BY DEF IInv, TypeOK, coordVars
<1>2. ExecOK'
  BY DEF IInv, ExecOK, QuietExec
<1>3. HandlersOK'
  <2>1. \A i \in handlers' : i.task \in Tasks /\ i.claim \in Claims
    BY DEF Handler
  <2>2. \A t \in Tasks, k \in Claims : exec'[t][k].worker = exec[t][k].worker
    BY DEF QuietExec
  <2>3. QED BY <2>1, <2>2 DEF IInv, HandlersOK
<1>4. SettledOK'
  BY DEF IInv, SettledOK
<1>5. RestartOK'
  BY <1>0 DEF IInv, RestartOK, QuietExec, coordVars, TypeOK
<1>6. SignalsAreTrue'
  BY DEF IInv, SignalsAreTrue
<1>7. AckedIsDurable'
  BY DEF IInv, AckedIsDurable, QuietExec
<1>8. OwnerIsLatestClaimant'
  <2>1. \A t \in Tasks : claims[t] > 0 => claims[t] \in Claims
    BY BoundAssumption DEF IInv, TypeOK, Claims
  <2>2. \A t \in Tasks, k \in Claims : exec'[t][k].worker = exec[t][k].worker
    BY DEF QuietExec
  <2>3. QED BY <2>1, <2>2 DEF IInv, OwnerIsLatestClaimant
<1>9. ReapedIsSettled'
  BY DEF IInv, ReapedIsSettled
<1>10. QED BY <1>1, <1>2, <1>3, <1>4, <1>5, <1>6, <1>7, <1>8, <1>9 DEF IInv

LEMMA CheckedTyped ==
    ASSUME IInv, NEW h \in handlers
    PROVE  [h EXCEPT !.step = "checked"] \in Handler /\ h \in Handler
BY DEF IInv, TypeOK, Handler

LEMMA ResultOwnedStep ==
    ASSUME IInv, NEW h \in handlers, ResultOwned(h)
    PROVE  IInv'
<1>1. exec' \in [Tasks -> [Claims -> Exec]] /\ \A t \in Tasks, k \in Claims : QuietExec(t, k)
  BY DEF ResultOwned, QuietExec, IInv, TypeOK
<1>2. QED BY <1>1, CheckedTyped, HandlerMoves, HandlerStepQuiet DEF ResultOwned

LEMMA ResultConflictsStep ==
    ASSUME IInv, NEW h \in handlers, ResultConflicts(h)
    PROVE  IInv'
<1>1. exec' \in [Tasks -> [Claims -> Exec]] /\ \A t \in Tasks, k \in Claims : QuietExec(t, k)
  BY DEF ResultConflicts, QuietExec, IInv, TypeOK
<1>2. QED BY <1>1, CheckedTyped, HandlerMoves, HandlerStepQuiet DEF ResultConflicts

LEMMA ResultNotOwnedStep ==
    ASSUME IInv, NEW h \in handlers, ResultNotOwned(h)
    PROVE  IInv'
<1>1. h.task \in Tasks /\ h.claim \in Claims
  BY CheckedTyped DEF Handler
<1>2. exec' \in [Tasks -> [Claims -> Exec]] /\ \A t \in Tasks, k \in Claims : QuietExec(t, k)
  <2>1. CASE UNCHANGED exec
    BY <2>1 DEF QuietExec, IInv, TypeOK
  <2>2. CASE Answered(h) /\ SetPhase(h.task, h.claim, "releasing")
    <3>1. exec[h.task][h.claim].phase # "unborn"
      BY <2>2 DEF Answered
    <3>2. QED BY <1>1, <2>2, <3>1, SetPhaseQuiet DEF Phases, AfterRun, QuietExec
  <2>3. QED BY <2>1, <2>2 DEF ResultNotOwned
<1>3. QED BY <1>2, CheckedTyped, HandlerMoves, HandlerStepQuiet DEF ResultNotOwned

LEMMA SetResultEffect ==
    ASSUME NEW a \in Exec, NEW x \in Terminal, NEW d, d = [a EXCEPT !.result = x]
    PROVE  /\ d \in Exec /\ d.worker = a.worker /\ d.phase = a.phase
           /\ d.result = x /\ d.tries = a.tries
BY DEF Exec

LEMMA ResultSettlesStep ==
    ASSUME IInv, NEW h \in handlers, ResultSettles(h)
    PROVE  IInv'
<1> DEFINE t == h.task
           r == [row[t] EXCEPT !.status = h.result]
           g == [h EXCEPT !.step = "settled"]
<1>1. /\ h \in Handler /\ t \in Tasks /\ h.claim \in Claims /\ h.result \in Terminal
      /\ row[t] \in Row /\ row \in [Tasks -> Row] /\ row' = [row EXCEPT ![t] = r]
      /\ handlers' = (handlers \ {h}) \cup {g} /\ handlers \subseteq Handler
      /\ row[t].status \in Active /\ coord = "up"
  BY DEF IInv, TypeOK, Handler, ResultSettles, CanTransition, RestartOK
<1>2. r \in Row /\ r.status = h.result /\ r.reaped = row[t].reaped
  BY <1>1 DEF Row
<1>3. /\ g \in Handler /\ g.task = t /\ g.claim = h.claim /\ g.worker = h.worker
      /\ g.result = h.result /\ g.step = "settled"
  BY <1>1 DEF Handler
<1>4. UNCHANGED <<claims, exec, mode, signals, coord, crashes, recSel, reapSel>>
  BY DEF ResultSettles, coordVars
<1> HIDE DEF r, g
<1>5. ~row[t].reaped
  BY <1>1 DEF IInv, ReapedIsSettled, Active, Terminal
<1>6. TypeOK'
  BY <1>1, <1>2, <1>3, <1>4 DEF IInv, TypeOK
<1>7. ExecOK'
  BY <1>4 DEF IInv, ExecOK
<1>8. HandlersOK'
  BY <1>1, <1>3, <1>4 DEF IInv, HandlersOK
<1>9. signals[t] = {}
  <2>1. \A s \in signals[t] : s[2] \in Terminal /\ row[t].status = s[2]
    BY <1>1 DEF IInv, TypeOK, SignalsAreTrue
  <2>2. QED BY <2>1, <1>1 DEF Active, Terminal
<1>10. \A i \in handlers : i.step = "settled" => i.task # t
  <2>1. \A i \in handlers : i.result \in Terminal
    BY DEF IInv, TypeOK, Handler
  <2>2. QED BY <2>1, <1>1 DEF IInv, SettledOK, Active, Terminal
<1>11. SettledOK'
  <2>1. \A i \in handlers' : i.step = "settled" =>
           row'[i.task].status = i.result /\ ~row'[i.task].reaped /\ signals'[i.task] = {}
    <3>1. SUFFICES ASSUME NEW i \in handlers', i.step = "settled"
                   PROVE  row'[i.task].status = i.result /\ ~row'[i.task].reaped /\ signals'[i.task] = {}
      OBVIOUS
    <3>2. CASE i = g
      BY <3>2, <1>1, <1>2, <1>3, <1>4, <1>5, <1>9
    <3>3. CASE i # g
      <4>1. i \in handlers /\ i.task \in Tasks /\ i.task # t
        BY <3>1, <3>3, <1>1, <1>10 DEF Handler
      <4>2. QED BY <3>1, <4>1, <1>1, <1>4 DEF IInv, SettledOK
    <3>4. QED BY <3>2, <3>3
  <2>2. \A i, j \in handlers' :
           i.step = "settled" /\ j.step = "settled" /\ i.task = j.task => i = j
    BY <1>1, <1>3, <1>10 DEF IInv, SettledOK
  <2>3. QED BY <2>1, <2>2 DEF SettledOK
<1>12. RestartOK'
  BY <1>1, <1>4 DEF IInv, RestartOK
<1>13. SignalsAreTrue'
  BY <1>1, <1>4, <1>9 DEF IInv, SignalsAreTrue
<1>14. AckedIsDurable'
  <2>1. \A k \in Claims : exec[t][k].result \in Terminal
    BY <1>1 DEF IInv, TypeOK, Exec
  <2>2. \A k \in Claims : exec[t][k].phase # "acked"
    BY <2>1, <1>1 DEF IInv, AckedIsDurable, Active, Terminal
  <2>3. QED BY <2>2, <1>1, <1>4 DEF IInv, AckedIsDurable
<1>15. OwnerIsLatestClaimant'
  BY <1>1, <1>2, <1>4 DEF IInv, OwnerIsLatestClaimant, Terminal
<1>16. ReapedIsSettled'
  BY <1>1, <1>2, <1>5 DEF IInv, ReapedIsSettled
<1>17. QED BY <1>6, <1>7, <1>8, <1>11, <1>12, <1>13, <1>14, <1>15, <1>16 DEF IInv

LEMMA ResultSignalsStep ==
    ASSUME IInv, NEW h \in handlers, ResultSignals(h)
    PROVE  IInv'
<1> DEFINE t == h.task
           k == h.claim
           d == [Done(h.worker, "acked") EXCEPT !.result = h.result]
<1>1. /\ h \in Handler /\ t \in Tasks /\ k \in Claims /\ h.result \in Terminal
      /\ h.worker \in Workers /\ h.step = "settled"
      /\ handlers' = handlers \ {h} /\ handlers \subseteq Handler /\ coord = "up"
      /\ signals \in [Tasks -> SUBSET (Claims \X Terminal)]
      /\ exec \in [Tasks -> [Claims -> Exec]]
  BY DEF IInv, TypeOK, Handler, ResultSignals, RestartOK
<1>2. row[t].status = h.result /\ ~row[t].reaped /\ signals[t] = {}
  BY <1>1 DEF IInv, SettledOK
<1>3. h.worker = exec[t][k].worker /\ k <= claims[t]
  BY DEF IInv, HandlersOK
<1>4. UNCHANGED <<row, claims, mode, coord, crashes, recSel, reapSel>>
  BY DEF ResultSignals, coordVars
<1>5. /\ signals' \in [Tasks -> SUBSET (Claims \X Terminal)]
      /\ signals'[t] \subseteq {<<k, h.result>>}
      /\ \A u \in Tasks : u # t => signals'[u] = signals[u]
  <2>1. CASE h.infra
    BY <2>1, <1>1, <1>2 DEF ResultSignals
  <2>2. CASE ~h.infra
    <3>1. signals' = [signals EXCEPT ![t] = {<<k, h.result>>}]
      BY <2>2, <1>1, <1>2 DEF ResultSignals
    <3>2. QED BY <3>1, <1>1
  <2>3. QED BY <2>1, <2>2
<1>6. /\ d \in Exec /\ d.worker = h.worker /\ d.phase = "acked"
      /\ d.result = h.result /\ d.tries < SubmitAttempts
  <2> DEFINE a == Done(h.worker, "acked")
  <2>1. a \in Exec /\ a.worker = h.worker /\ a.phase = "acked" /\ a.tries = 0
    BY <1>1, BoundAssumption DEF Done, Exec, Phases, Over, Terminal
  <2>2. d = [a EXCEPT !.result = h.result]
    OBVIOUS
  <2> HIDE DEF a, d
  <2>3. /\ d \in Exec /\ d.worker = a.worker /\ d.phase = a.phase
        /\ d.result = h.result /\ d.tries = a.tries
    BY <2>1, <2>2, <1>1, SetResultEffect
  <2>4. QED BY <2>1, <2>3, BoundAssumption
<1>7. UNCHANGED exec \/ exec' = [exec EXCEPT ![t] = [exec[t] EXCEPT ![k] = d]]
  BY DEF ResultSignals
<1> HIDE DEF d
<1>8. /\ exec' \in [Tasks -> [Claims -> Exec]]
      /\ exec'[t][k] \in {exec[t][k], d}
      /\ \A u \in Tasks, j \in Claims : u # t \/ j # k => exec'[u][j] = exec[u][j]
  BY <1>1, <1>6, <1>7
<1>9. \A u \in Tasks, j \in Claims : exec'[u][j].worker = exec[u][j].worker
  BY <1>3, <1>6, <1>8
<1> HIDE DEF t, k
<1>10. TypeOK'
  BY <1>1, <1>4, <1>5, <1>8 DEF IInv, TypeOK
<1>11. ExecOK'
  <2>1. SUFFICES ASSUME NEW u \in Tasks, NEW j \in Claims
                 PROVE  /\ exec'[u][j].phase # "unborn" =>
                              exec'[u][j].worker \in Workers /\ j <= claims'[u]
                        /\ exec'[u][j].phase \notin {"waiting", "releasing"} =>
                              exec'[u][j].tries < SubmitAttempts
    BY DEF ExecOK
  <2>2. CASE exec'[u][j] = exec[u][j]
    BY <2>2, <1>4 DEF IInv, ExecOK
  <2>3. CASE u = t /\ j = k /\ exec'[u][j] = d
    BY <2>3, <1>1, <1>3, <1>4, <1>6
  <2>4. QED BY <2>2, <2>3, <1>8
<1>12. HandlersOK'
  <2>1. \A i \in handlers : i.task \in Tasks /\ i.claim \in Claims
    BY <1>1 DEF Handler
  <2>2. QED BY <2>1, <1>1, <1>4, <1>9 DEF IInv, HandlersOK
<1>13. SettledOK'
  <2>1. \A i \in handlers' : i.step = "settled" => i.task # t /\ i.task \in Tasks
    BY <1>1 DEF IInv, SettledOK, Handler, t
  <2>2. QED BY <2>1, <1>1, <1>4, <1>5 DEF IInv, SettledOK
<1>14. RestartOK'
  BY <1>1, <1>4 DEF IInv, RestartOK
<1>15. SignalsAreTrue'
  BY <1>1, <1>2, <1>4, <1>5 DEF IInv, SignalsAreTrue
<1>16. AckedIsDurable'
  BY <1>2, <1>4, <1>6, <1>8 DEF IInv, AckedIsDurable
<1>17. OwnerIsLatestClaimant'
  <2>1. \A u \in Tasks : claims[u] > 0 => claims[u] \in Claims
    BY BoundAssumption DEF IInv, TypeOK, Claims
  <2>2. QED BY <2>1, <1>4, <1>9 DEF IInv, OwnerIsLatestClaimant
<1>18. ReapedIsSettled'
  BY <1>4 DEF IInv, ReapedIsSettled
<1>19. QED BY <1>10, <1>11, <1>12, <1>13, <1>14, <1>15, <1>16, <1>17, <1>18 DEF IInv

-----------------------------------------------------------------------------
(* The crash and the restart of the coordinator.                           *)

LEMMA CoordinatorCrashesStep ==
    ASSUME IInv, CoordinatorCrashes
    PROVE  IInv'
<1>1. TypeOK'
  BY BoundAssumption DEF IInv, TypeOK, CoordinatorCrashes
<1>2. QED BY <1>1 DEF IInv, CoordinatorCrashes, ExecOK, HandlersOK, SettledOK, RestartOK,
                      SignalsAreTrue, AckedIsDurable, OwnerIsLatestClaimant, ReapedIsSettled

LEMMA RecoverSelectStep ==
    ASSUME IInv, RecoverSelect
    PROVE  IInv'
<1>1. TypeOK'
  BY DEF IInv, TypeOK, RecoverSelect
<1>2. RestartOK'
  <2>1. \A t \in recSel' : t \in Tasks /\ row[t].status = "running"
    BY DEF RecoverSelect
  <2>2. \A t \in Tasks : \A s \in signals[t] : row[t].status = s[2] /\ s[2] \in Terminal
    BY DEF IInv, TypeOK, SignalsAreTrue
  <2>3. \A t \in Tasks, k \in Claims :
           exec[t][k].phase = "acked" => row[t].status \in Terminal
    BY DEF IInv, TypeOK, Exec, AckedIsDurable
  <2>4. \A t \in recSel' : signals[t] = {} /\ \A k \in Claims : exec[t][k].phase # "acked"
    BY <2>1, <2>2, <2>3 DEF Terminal
  <2>5. handlers' = {} /\ reapSel' = {}
    BY DEF IInv, RestartOK, RecoverSelect
  <2>6. QED BY <2>4, <2>5 DEF RestartOK, RecoverSelect
<1>3. QED BY <1>1, <1>2 DEF IInv, RecoverSelect, ExecOK, HandlersOK, SettledOK,
                      SignalsAreTrue, AckedIsDurable, OwnerIsLatestClaimant, ReapedIsSettled

LEMMA RecoverUpdateStep ==
    ASSUME IInv, NEW t \in Tasks, RecoverUpdate(t)
    PROVE  IInv'
<1> DEFINE r == [row[t] EXCEPT !.status = "failed"]
<1>1. /\ row[t] \in Row /\ row \in [Tasks -> Row] /\ row' = [row EXCEPT ![t] = r]
      /\ coord = "recovering" /\ t \in recSel
  BY DEF IInv, TypeOK, RecoverUpdate
<1>2. r \in Row /\ r.status = "failed" /\ r.reaped = row[t].reaped
  BY <1>1 DEF Row, Terminal
<1> HIDE DEF r
<1>3. /\ handlers = {} /\ handlers' = {} /\ reapSel' = {}
      /\ signals[t] = {} /\ \A k \in Claims : exec[t][k].phase # "acked"
  BY <1>1 DEF IInv, RestartOK, RecoverUpdate
<1>4. TypeOK'
  BY <1>1, <1>2 DEF IInv, TypeOK, RecoverUpdate
<1>5. ExecOK' /\ HandlersOK' /\ SettledOK'
  BY <1>3 DEF IInv, ExecOK, HandlersOK, SettledOK, RecoverUpdate
<1>6. RestartOK'
  BY <1>3 DEF IInv, RestartOK, RecoverUpdate
<1>7. SignalsAreTrue' /\ AckedIsDurable'
  BY <1>1, <1>3 DEF IInv, SignalsAreTrue, AckedIsDurable, RecoverUpdate
<1>8. OwnerIsLatestClaimant'
  BY <1>1, <1>2 DEF IInv, OwnerIsLatestClaimant, RecoverUpdate
<1>9. ReapedIsSettled'
  BY <1>1, <1>2 DEF IInv, ReapedIsSettled, RecoverUpdate, Terminal
<1>10. QED BY <1>4, <1>5, <1>6, <1>7, <1>8, <1>9 DEF IInv

LEMMA RecoverDoneStep ==
    ASSUME IInv, RecoverDone
    PROVE  IInv'
<1>1. TypeOK'
  BY DEF IInv, TypeOK, RecoverDone
<1>2. QED BY <1>1 DEF IInv, RecoverDone, ExecOK, HandlersOK, SettledOK, RestartOK,
                      SignalsAreTrue, AckedIsDurable, OwnerIsLatestClaimant, ReapedIsSettled

-----------------------------------------------------------------------------
(* The invariant.                                                          *)

LEMMA InitEstablishes == Init => IInv
<1> SUFFICES ASSUME Init PROVE IInv
  OBVIOUS
<1>1. Done(NoWorker, "unborn") \in Exec
      /\ Done(NoWorker, "unborn").phase = "unborn" /\ Done(NoWorker, "unborn").tries < SubmitAttempts
  BY BoundAssumption DEF Done, Exec, Phases, Over, Terminal
<1>2. TypeOK
  BY <1>1, BoundAssumption DEF Init, TypeOK, Row
<1>3. ExecOK
  BY <1>1 DEF Init, ExecOK
<1>4. AckedIsDurable
  BY <1>1 DEF Init, AckedIsDurable
<1>5. QED BY <1>2, <1>3, <1>4 DEF IInv, Init, HandlersOK, SettledOK, RestartOK, SignalsAreTrue,
                      OwnerIsLatestClaimant, ReapedIsSettled

LEMMA StutterPreserves == IInv /\ UNCHANGED vars => IInv'
<1> SUFFICES ASSUME IInv, UNCHANGED vars PROVE IInv'
  OBVIOUS
<1>1. TypeOK' /\ ExecOK' /\ HandlersOK'
  BY DEF vars, IInv, TypeOK, ExecOK, HandlersOK
<1>2. SettledOK' /\ RestartOK' /\ ReapedIsSettled'
  BY DEF vars, IInv, SettledOK, RestartOK, ReapedIsSettled
<1>3. SignalsAreTrue' /\ AckedIsDurable' /\ OwnerIsLatestClaimant'
  BY DEF vars, IInv, SignalsAreTrue, AckedIsDurable, OwnerIsLatestClaimant
<1>4. QED BY <1>1, <1>2, <1>3 DEF IInv

LEMMA NextPreserves == IInv /\ [Next]_vars => IInv'
<1> SUFFICES ASSUME IInv, [Next]_vars PROVE IInv'
  OBVIOUS
<1>1. ASSUME NEW t \in Tasks, TaskStep(t) PROVE IInv'
  BY <1>1, InsertTaskStep, ClaimNextTaskStep, LeaseExpiresStep, HeartbeatGoesStaleStep,
     ReapUpdateStep, RecoverUpdateStep, FinalizeStep DEF TaskStep
<1>2. ASSUME NEW t \in Tasks, NEW k \in Claims, ExecStep(t, k) PROVE IInv'
  BY <1>2, StartExecutionStep, ReleaseUnboundStep, HeartbeatStep, FinishExecutionStep,
     ReleaseOnShutdownStep, ReleaseAfterRunStep, SubmitResultStep, AttemptFailsStep,
     ReleaseAfterFailureStep DEF ExecStep
<1>3. ASSUME NEW h \in handlers, HandlerStep(h) PROVE IInv'
  BY <1>3, ResultOwnedStep, ResultNotOwnedStep, ResultSettlesStep, ResultSignalsStep,
     ResultConflictsStep DEF HandlerStep
<1>4. ASSUME NEW w \in Workers, WorkerStep(w) PROVE IInv'
  BY <1>4, WorkerStopsStep, WorkerRestartsStep, WorkerCrashesStep DEF WorkerStep
<1>5. QED BY <1>1, <1>2, <1>3, <1>4, ReapSelectStep, CoordinatorCrashesStep, RecoverSelectStep,
             RecoverDoneStep, DeregisterRepoStep, StutterPreserves DEF Next

LEMMA Invariance == Spec => []IInv
BY InitEstablishes, NextPreserves, PTL DEF Spec

\* For any number of tasks, workers and retries the tables and the processes
\* keep their types.
THEOREM TypeCorrect == Spec => []TypeOK
<1>1. IInv => TypeOK
  BY DEF IInv
<1>2. QED BY <1>1, Invariance, PTL

\* HandleTaskResult passes at most one completion of a task to the state
\* machine, and the row agrees with it for ever after, whatever the reaper,
\* a restart, the operator and zombies of earlier claims do.
THEOREM CompletionsAreTrue == Spec => []SignalsAreTrue
<1>1. IInv => SignalsAreTrue
  BY DEF IInv
<1>2. QED BY <1>1, Invariance, PTL

\* A result the coordinator answered 200 to stays the row's status.
THEOREM AcknowledgedIsDurable == Spec => []AckedIsDurable
<1>1. IInv => AckedIsDurable
  BY DEF IInv
<1>2. QED BY <1>1, Invariance, PTL

\* A running row belongs to the worker of its latest claim and has a lease
\* and a heartbeat the reaper can judge it by.
THEOREM RunningBelongsToLatest == Spec => []OwnerIsLatestClaimant
<1>1. IInv => OwnerIsLatestClaimant
  BY DEF IInv
<1>2. QED BY <1>1, Invariance, PTL

-----------------------------------------------------------------------------
(* The steps that touch a row, seen from one row of the table.             *)

Preserved(u) ==
    /\ row[u].status \in Terminal => row'[u].status \in Terminal
    /\ row[u].status = "running" /\ row[u].lease = "live" /\ row'[u].status = "running"
          => row'[u].worker = row[u].worker

LEMMA TaskStepPreserves ==
    ASSUME TypeOK, NEW t \in Tasks, TaskStep(t), NEW u \in Tasks
    PROVE  Preserved(u)
<1> USE DEF TypeOK, Row, Preserved, Terminal, Active
<1>1. CASE InsertTask(t)
  BY <1>1 DEF InsertTask
<1>2. CASE \E w \in Workers : ClaimNextTask(w, t)
  BY <1>2 DEF ClaimNextTask, Claimable
<1>3. CASE LeaseExpires(t)
  BY <1>3 DEF LeaseExpires
<1>4. CASE HeartbeatGoesStale(t)
  BY <1>4 DEF HeartbeatGoesStale
<1>5. CASE ReapUpdate(t)
  BY <1>5 DEF ReapUpdate
<1>6. CASE RecoverUpdate(t)
  BY <1>6 DEF RecoverUpdate
<1>7. CASE \E s \in {"completed", "failed"} : FinalizeTaskForOperator(t, s)
  BY <1>7 DEF FinalizeTaskForOperator
<1>8. QED BY <1>1, <1>2, <1>3, <1>4, <1>5, <1>6, <1>7 DEF TaskStep

LEMMA ExecStepPreserves ==
    ASSUME TypeOK, NEW t \in Tasks, NEW k \in Claims, ExecStep(t, k), NEW u \in Tasks
    PROVE  Preserved(u)
<1>1. CASE UNCHANGED row
  BY <1>1 DEF Preserved
<1>2. CASE CanRelease(t, exec[t][k].worker) /\ ReleaseTask(t)
  BY <1>2, ReleaseEffect DEF Preserved, Terminal
<1>3. CASE Heartbeat(t, k)
  BY <1>3 DEF Heartbeat, RenewLease, TypeOK, Row, Preserved
<1>4. QED BY <1>1, <1>2, <1>3 DEF ExecStep, StartExecution, ReleaseUnbound, FinishExecution,
             ReleaseOnShutdown, ReleaseAfterRun, SubmitResult, AttemptFails, ReleaseAfterFailure

LEMMA HandlerStepPreserves ==
    ASSUME TypeOK, NEW h \in handlers, HandlerStep(h), NEW u \in Tasks
    PROVE  Preserved(u)
<1>1. CASE UNCHANGED row
  BY <1>1 DEF Preserved
<1>2. CASE ResultSettles(h)
  <2>1. h.task \in Tasks /\ h.result \in Terminal
    BY DEF TypeOK, Handler
  <2>2. QED BY <1>2, <2>1 DEF ResultSettles, TypeOK, Row, Preserved, Terminal
<1>3. QED BY <1>1, <1>2 DEF HandlerStep, ResultOwned, ResultNotOwned, ResultSignals, ResultConflicts

LEMMA StepPreserves ==
    ASSUME TypeOK, [Next]_vars, NEW u \in Tasks
    PROVE  Preserved(u)
<1>1. CASE UNCHANGED row
  BY <1>1 DEF Preserved
<1>2. ASSUME NEW r \in Repos, DeregisterRepo(r) PROVE Preserved(u)
  BY <1>2 DEF DeregisterRepo, TypeOK, Row, Preserved, Active, Terminal
<1>3. ASSUME NEW w \in Workers, WorkerStep(w) PROVE UNCHANGED row
  BY <1>3 DEF WorkerStep, WorkerStops, WorkerRestarts, WorkerCrashes
<1>4. QED BY <1>1, <1>2, <1>3, TaskStepPreserves, ExecStepPreserves, HandlerStepPreserves
          DEF Next, ReapSelect, CoordinatorCrashes, RecoverSelect, RecoverDone, vars

\* A settled row is never queued or run again: no release, claim, heartbeat
\* or recovery undoes a terminal status.
THEOREM SettledForGood == Spec => NeverResurrected
<1>1. TypeOK /\ [Next]_vars =>
         [\A t \in Tasks : row[t].status \in Terminal => row'[t].status \in Terminal]_vars
  BY StepPreserves DEF Preserved
<1>2. QED BY <1>1, TypeCorrect, PTL DEF Spec, NeverResurrected

\* A running row changes hands only after its lease ran out.
THEOREM LeaseProtects == Spec => NoStealUnderLease
<1>1. TypeOK /\ [Next]_vars =>
         [\A t \in Tasks :
            (row[t].status = "running" /\ row[t].lease = "live" /\ row'[t].status = "running")
                => row'[t].worker = row[t].worker]_vars
  BY StepPreserves DEF Preserved
<1>2. QED BY <1>1, TypeCorrect, PTL DEF Spec, NoStealUnderLease

-----------------------------------------------------------------------------
(* The queue implements TaskOnce.  Each step is looked at through the two  *)
(* variables of the abstract specification.                                *)

OnceStep == [Once!OnceNext]_(Once!onceVars)

LEMMA Invisible ==
    ASSUME \A t \in Tasks : verdictOf'[t] = verdictOf[t], UNCHANGED signals
    PROVE  OnceStep
<1>1. UNCHANGED verdictOf
  BY DEF verdictOf
<1>2. QED BY <1>1 DEF OnceStep, Once!onceVars

LEMMA Settles ==
    ASSUME NEW S \in SUBSET Tasks, S # {}, NEW v \in Terminal,
           \A t \in S : verdictOf[t] = "open" /\ verdictOf'[t] = v,
           \A t \in Tasks \ S : verdictOf'[t] = verdictOf[t],
           UNCHANGED signals
    PROVE  OnceStep
<1>1. verdictOf' = [t \in Tasks |-> IF t \in S THEN v ELSE verdictOf[t]]
  BY DEF verdictOf
<1>2. Once!Settle(S, v)
  BY <1>1 DEF Once!Settle
<1>3. QED BY <1>2 DEF OnceStep, Once!OnceNext

LEMMA SettlesOne ==
    ASSUME NEW t \in Tasks, NEW v \in Terminal, verdictOf[t] = "open", verdictOf'[t] = v,
           \A u \in Tasks \ {t} : verdictOf'[u] = verdictOf[u], UNCHANGED signals
    PROVE  OnceStep
<1>1. {t} \in SUBSET Tasks /\ {t} # {} /\ \A u \in {t} : verdictOf[u] = "open" /\ verdictOf'[u] = v
  OBVIOUS
<1>2. QED BY <1>1, Settles

LEMMA TaskStepOnce ==
    ASSUME IInv, \A u \in recSel : row[u].status # "absent", NEW t \in Tasks, TaskStep(t)
    PROVE  OnceStep
<1> USE DEF IInv, TypeOK, Row, Terminal, Active, verdictOf
<1>1. CASE InsertTask(t)
  <2>1. verdictOf' = [verdictOf EXCEPT ![t] = "open"] /\ verdictOf[t] = "absent" /\ UNCHANGED signals
    BY <1>1 DEF InsertTask
  <2>2. Once!Create(t)
    BY <2>1 DEF Once!Create
  <2>3. QED BY <2>2 DEF OnceStep, Once!OnceNext
<1>2. CASE \E w \in Workers : ClaimNextTask(w, t)
  <2>1. (\A u \in Tasks : verdictOf'[u] = verdictOf[u]) /\ UNCHANGED signals
    BY <1>2 DEF ClaimNextTask, Claimable
  <2>2. QED BY <2>1, Invisible
<1>3. CASE LeaseExpires(t) \/ HeartbeatGoesStale(t)
  <2>1. (\A u \in Tasks : verdictOf'[u] = verdictOf[u]) /\ UNCHANGED signals
    BY <1>3 DEF LeaseExpires, HeartbeatGoesStale
  <2>2. QED BY <2>1, Invisible
<1>4. CASE ReapUpdate(t)
  <2>1. CASE row[t].status = "running"
    <3>1. /\ verdictOf[t] = "open" /\ verdictOf'[t] = "failed" /\ UNCHANGED signals
          /\ \A u \in Tasks \ {t} : verdictOf'[u] = verdictOf[u]
      BY <1>4, <2>1 DEF ReapUpdate
    <3>2. QED BY <3>1, SettlesOne
  <2>2. CASE row[t].status # "running"
    BY <1>4, <2>2, Invisible DEF ReapUpdate
  <2>3. QED BY <2>1, <2>2
<1>5. CASE RecoverUpdate(t)
  <2>1. CASE row[t].status \in Active
    <3>1. /\ verdictOf[t] = "open" /\ verdictOf'[t] = "failed" /\ UNCHANGED signals
          /\ \A u \in Tasks \ {t} : verdictOf'[u] = verdictOf[u]
      BY <1>5, <2>1 DEF RecoverUpdate
    <3>2. QED BY <3>1, SettlesOne
  <2>2. CASE row[t].status \in Terminal
    <3>1. verdictOf' = [verdictOf EXCEPT ![t] = "failed"] /\ verdictOf[t] \in Terminal /\ UNCHANGED signals
      BY <1>5, <2>2 DEF RecoverUpdate
    <3>2. signals[t] = {}
      BY <1>5 DEF RecoverUpdate, RestartOK
    <3>3. Once!Overrule(t)
      BY <3>1, <3>2 DEF Once!Overrule
    <3>4. QED BY <3>3 DEF OnceStep, Once!OnceNext
  <2>3. QED BY <1>5, <2>1, <2>2 DEF RecoverUpdate
<1>6. ASSUME NEW s \in {"completed", "failed"}, FinalizeTaskForOperator(t, s) PROVE OnceStep
  <2>1. /\ verdictOf[t] = "open" /\ verdictOf'[t] = s /\ UNCHANGED signals
        /\ \A u \in Tasks \ {t} : verdictOf'[u] = verdictOf[u]
    BY <1>6 DEF FinalizeTaskForOperator
  <2>2. QED BY <2>1, SettlesOne
<1>7. QED BY <1>1, <1>2, <1>3, <1>4, <1>5, <1>6 DEF TaskStep

LEMMA ExecStepOnce ==
    ASSUME TypeOK, NEW t \in Tasks, NEW k \in Claims, ExecStep(t, k)
    PROVE  OnceStep
<1>1. UNCHANGED signals
  BY DEF ExecStep, StartExecution, ReleaseUnbound, Heartbeat, FinishExecution, ReleaseOnShutdown,
         ReleaseAfterRun, SubmitResult, AttemptFails, ReleaseAfterFailure
<1>2. CASE UNCHANGED row
  BY <1>1, <1>2, Invisible DEF verdictOf
<1>3. CASE CanRelease(t, exec[t][k].worker) /\ ReleaseTask(t)
  <2>1. \A u \in Tasks : verdictOf'[u] = verdictOf[u]
    BY <1>3 DEF CanRelease, ReleaseTask, TypeOK, Row, verdictOf, Active
  <2>2. QED BY <1>1, <2>1, Invisible
<1>4. CASE Heartbeat(t, k)
  <2>1. \A u \in Tasks : verdictOf'[u] = verdictOf[u]
    BY <1>4 DEF Heartbeat, RenewLease, TypeOK, Row, verdictOf
  <2>2. QED BY <1>1, <2>1, Invisible
<1>5. QED BY <1>2, <1>3, <1>4 DEF ExecStep, StartExecution, ReleaseUnbound, FinishExecution,
             ReleaseOnShutdown, ReleaseAfterRun, SubmitResult, AttemptFails, ReleaseAfterFailure

LEMMA HandlerStepOnce ==
    ASSUME IInv, NEW h \in handlers, HandlerStep(h)
    PROVE  OnceStep
<1>0. h.task \in Tasks /\ h.claim \in Claims /\ h.result \in Terminal
  BY DEF IInv, TypeOK, Handler
<1>1. CASE UNCHANGED <<row, signals>>
  BY <1>1, Invisible DEF verdictOf
<1>2. CASE ResultSettles(h)
  <2>1. /\ verdictOf[h.task] = "open" /\ verdictOf'[h.task] = h.result /\ UNCHANGED signals
        /\ \A u \in Tasks \ {h.task} : verdictOf'[u] = verdictOf[u]
    BY <1>0, <1>2 DEF ResultSettles, CanTransition, IInv, TypeOK, Row, Terminal, Active, verdictOf
  <2>2. QED BY <1>0, <2>1, SettlesOne
<1>3. CASE ResultSignals(h) /\ ~h.infra
  <2>1. row[h.task].status = h.result /\ signals[h.task] = {} /\ UNCHANGED row
    BY <1>3 DEF ResultSignals, IInv, SettledOK
  <2>2. verdictOf[h.task] = h.result /\ UNCHANGED verdictOf
    BY <1>0, <2>1 DEF verdictOf, Terminal, Active
  <2>3. signals' = [signals EXCEPT ![h.task] = {<<h.claim, verdictOf[h.task]>>}]
    BY <1>0, <1>3, <2>1, <2>2 DEF ResultSignals, IInv, TypeOK
  <2>4. Once!Tell(h.task, h.claim)
    BY <1>0, <2>1, <2>2, <2>3 DEF Once!Tell
  <2>5. QED BY <1>0, <2>4 DEF OnceStep, Once!OnceNext
<1>4. QED BY <1>1, <1>2, <1>3 DEF HandlerStep, ResultOwned, ResultNotOwned, ResultSignals, ResultConflicts

LEMMA DeregisterOnce ==
    ASSUME TypeOK, NEW r \in Repos, DeregisterRepo(r)
    PROVE  OnceStep
<1> DEFINE S == {t \in Tasks : RepoOf[t] = r /\ row[t].status \in Active}
<1>1. S \in SUBSET Tasks /\ S # {} /\ UNCHANGED signals
  BY DEF DeregisterRepo
<1>2. /\ \A t \in S : verdictOf[t] = "open" /\ verdictOf'[t] = "failed"
      /\ \A t \in Tasks \ S : verdictOf'[t] = verdictOf[t]
  BY DEF DeregisterRepo, TypeOK, Row, verdictOf, Active, Terminal
<1>3. "failed" \in Terminal
  BY DEF Terminal
<1> HIDE DEF S
<1>4. QED BY <1>1, <1>2, <1>3, Settles

\* The rows that a recovering coordinator still has to fail were stored.
RecoversStored == \A t \in recSel : row[t].status # "absent"

LEMMA StoredStays ==
    ASSUME TypeOK, [Next]_vars, NEW u \in Tasks, row[u].status # "absent"
    PROVE  row'[u].status # "absent"
<1> USE DEF TypeOK, Row, Terminal, Active
<1>1. ASSUME NEW t \in Tasks, TaskStep(t) PROVE row'[u].status # "absent"
  <2>1. CASE InsertTask(t)
    BY <2>1 DEF InsertTask
  <2>2. CASE \E w \in Workers : ClaimNextTask(w, t)
    BY <2>2 DEF ClaimNextTask
  <2>3. CASE LeaseExpires(t) \/ HeartbeatGoesStale(t)
    BY <2>3 DEF LeaseExpires, HeartbeatGoesStale
  <2>4. CASE ReapUpdate(t)
    BY <2>4 DEF ReapUpdate
  <2>5. CASE RecoverUpdate(t)
    BY <2>5 DEF RecoverUpdate
  <2>6. CASE \E s \in {"completed", "failed"} : FinalizeTaskForOperator(t, s)
    BY <2>6 DEF FinalizeTaskForOperator
  <2>7. QED BY <1>1, <2>1, <2>2, <2>3, <2>4, <2>5, <2>6 DEF TaskStep
<1>2. ASSUME NEW t \in Tasks, NEW k \in Claims, ExecStep(t, k) PROVE row'[u].status # "absent"
  BY <1>2 DEF ExecStep, StartExecution, ReleaseUnbound, FinishExecution, ReleaseOnShutdown, ReleaseAfterRun,
              SubmitResult, AttemptFails, ReleaseAfterFailure, Heartbeat, RenewLease, ReleaseTask, CanRelease
<1>3. ASSUME NEW h \in handlers, HandlerStep(h) PROVE row'[u].status # "absent"
  <2>1. h.task \in Tasks /\ h.result \in Terminal
    BY <1>3 DEF Handler
  <2>2. QED BY <1>3, <2>1 DEF HandlerStep, ResultOwned, ResultNotOwned, ResultSettles, ResultSignals, ResultConflicts
<1>4. ASSUME NEW r \in Repos, DeregisterRepo(r) PROVE row'[u].status # "absent"
  BY <1>4 DEF DeregisterRepo
<1>5. ASSUME NEW w \in Workers, WorkerStep(w) PROVE UNCHANGED row
  BY <1>5 DEF WorkerStep, WorkerStops, WorkerRestarts, WorkerCrashes
<1>6. QED BY <1>1, <1>2, <1>3, <1>4, <1>5
          DEF Next, ReapSelect, CoordinatorCrashes, RecoverSelect, RecoverDone, vars

LEMMA RecoversStoredStays == TypeOK /\ RecoversStored /\ [Next]_vars => RecoversStored'
<1> SUFFICES ASSUME TypeOK, RecoversStored, [Next]_vars, NEW t \in recSel' PROVE row'[t].status # "absent"
  BY DEF RecoversStored
<1>1. CASE RecoverSelect
  BY <1>1 DEF RecoverSelect
<1>2. CASE t \in recSel
  BY <1>2, StoredStays DEF RecoversStored, TypeOK
<1>3. recSel' \subseteq recSel \/ RecoverSelect
  <2>1. ASSUME NEW u \in Tasks, TaskStep(u) PROVE recSel' \subseteq recSel
    BY <2>1 DEF TaskStep, InsertTask, ClaimNextTask, LeaseExpires, HeartbeatGoesStale, ReapUpdate, RecoverUpdate,
                FinalizeTaskForOperator, coordVars
  <2>2. ASSUME NEW u \in Tasks, NEW k \in Claims, ExecStep(u, k) PROVE UNCHANGED recSel
    BY <2>2 DEF ExecStep, StartExecution, ReleaseUnbound, FinishExecution, ReleaseOnShutdown, ReleaseAfterRun,
                SubmitResult, AttemptFails, ReleaseAfterFailure, Heartbeat, coordVars
  <2>3. ASSUME NEW h \in handlers, HandlerStep(h) PROVE UNCHANGED recSel
    BY <2>3 DEF HandlerStep, ResultOwned, ResultNotOwned, ResultSettles, ResultSignals, ResultConflicts, coordVars
  <2>4. ASSUME NEW r \in Repos, DeregisterRepo(r) PROVE UNCHANGED recSel
    BY <2>4 DEF DeregisterRepo, coordVars
  <2>5. ASSUME NEW w \in Workers, WorkerStep(w) PROVE UNCHANGED recSel
    BY <2>5 DEF WorkerStep, WorkerStops, WorkerRestarts, WorkerCrashes, coordVars
  <2>6. QED BY <2>1, <2>2, <2>3, <2>4, <2>5
            DEF Next, ReapSelect, CoordinatorCrashes, RecoverDone, vars, coordVars
<1>4. QED BY <1>1, <1>2, <1>3

LEMMA NextOnce == IInv /\ RecoversStored /\ [Next]_vars => OnceStep
<1> SUFFICES ASSUME IInv, RecoversStored, [Next]_vars PROVE OnceStep
  OBVIOUS
<1>1. CASE UNCHANGED <<row, signals>>
  BY <1>1, Invisible DEF verdictOf
<1>2. TypeOK
  BY DEF IInv
<1>3. ASSUME NEW t \in Tasks, TaskStep(t) PROVE OnceStep
  BY <1>3, TaskStepOnce DEF RecoversStored
<1>4. ASSUME NEW t \in Tasks, NEW k \in Claims, ExecStep(t, k) PROVE OnceStep
  BY <1>2, <1>4, ExecStepOnce
<1>5. ASSUME NEW w \in Workers, WorkerStep(w) PROVE UNCHANGED <<row, signals>>
  BY <1>5 DEF WorkerStep, WorkerStops, WorkerRestarts, WorkerCrashes
<1>6. QED BY <1>1, <1>2, <1>3, <1>4, <1>5, HandlerStepOnce, DeregisterOnce
          DEF Next, ReapSelect, CoordinatorCrashes, RecoverSelect, RecoverDone, vars

\* The queue implements TaskOnce: through claims, retries, lost answers,
\* leases, reaping, crashes and operators the state machine is told at most
\* once of a task, and what it is told is the verdict that stays.
THEOREM QueueIsOnce == Spec => ImplementsOnce
<1>1. Init => Once!OnceInit
  BY DEF Init, Once!OnceInit, verdictOf, Active
<1>2. Init => RecoversStored
  BY DEF Init, RecoversStored
<1>3. QED BY <1>1, <1>2, Invariance, TypeCorrect, RecoversStoredStays, NextOnce, PTL
          DEF Spec, ImplementsOnce, OnceStep, Once!OnceSpec

=============================================================================
