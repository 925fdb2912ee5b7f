------------------------------ MODULE Diagnose ------------------------------
(* `workbuddy diagnose [--fix]`: a scan of the database, the processes of    *)
(* this host and the session logs that reports stuck issues and zombie tasks *)
(* and, with --fix, invalidates caches and settles tasks directly in the     *)
(* database, beside the coordinator and the workers.                         *)
(*                                                                           *)
(* Each issue has one task row at a time.  Ages stop at Old, which is past   *)
(* every threshold.  A worker that lives heartbeats far more often than a    *)
(* tick of these ages, so the age of its row stays 0.                        *)
EXTENDS Naturals, FiniteSets, Sequences, SequencesExt

CONSTANTS
    Issues,
    Places,             \* where workers run: "here", "elsewhere"
    MaxDispatches       \* tasks dispatched per issue

Old == 2
Over(age) == age = Old
Older(age) == IF age = Old THEN Old ELSE age + 1
NoLog == Old + 1
States == <<"developing", "reviewing", "done">>
NextState(s) == IF s = "developing" THEN "reviewing" ELSE "done"

VARIABLES
    issue,      \* issue -> [label, cached, verdict, quiet, dispatches]
    task,       \* issue -> its task [status, state, age, started, log, agent, worker, place]
    scan        \* [pc, todo, outcome] of the diagnose command
diagVars == <<issue, task, scan>>

Active(t) == t.status \in {"pending", "running"}
Intermediate(label) == label \in {"developing", "reviewing"}
NoTaskRow == [status |-> "none", state |-> "developing", age |-> 0, started |-> 0, log |-> NoLog,
           agent |-> "none", worker |-> "none", place |-> "here"]

-----------------------------------------------------------------------------
(* What the scan finds, per issue: a kind and the fix it carries.            *)

(* No active task and no event for an hour.                                  *)
Stuck(i) == issue[i].cached /\ Intermediate(issue[i].label) /\ ~Active(task[i])
                /\ Over(issue[i].quiet)
MissedRedispatch(i) == issue[i].cached /\ Intermediate(issue[i].label) /\ ~Active(task[i])
                           /\ issue[i].verdict = "ready"

(* The row says running for a state the cached issue has left.               *)
Advanced(i) == issue[i].cached /\ issue[i].label # task[i].state
FixAction(i) == IF Advanced(i) THEN "mark_completed" ELSE "mark_failed"

SessionStale(t) == t.log # NoLog /\ t.place = "here" /\ Over(t.log)

(* No codex or claude process of this host works in the task's worktree,     *)
(* which is known from the session's directory.                              *)
taskMissingChildProcess(t) ==
    /\ t.log # NoLog
    /\ t.started > 0
    /\ ~(t.agent = "alive" /\ t.place = "here")

(* Before the signals below: only a row nobody refreshes was an orphan.      *)
OrphanFixByUpdateOnly(i) == "none"

OrphanFix(i) ==
    IF Over(task[i].age) THEN "none"
    ELSE IF SessionStale(task[i]) \/ taskMissingChildProcess(task[i]) THEN FixAction(i)
    ELSE "none"

Orphaned(i) == task[i].status = "running"
                   /\ (Over(task[i].age) \/ OrphanFix(i) # "none" \/ Advanced(i))

(* Warnings sort before errors.                                              *)
Findings(i) ==
    (IF MissedRedispatch(i) THEN <<[issue |-> i, fix |-> "cache_invalidate"]>> ELSE <<>>)
    \o (IF Stuck(i) THEN <<[issue |-> i, fix |-> "cache_invalidate"]>> ELSE <<>>)
    \o (IF Orphaned(i) THEN <<[issue |-> i, fix |-> OrphanFix(i)]>> ELSE <<>>)

(* Issues in the order of their numbers.                                     *)
Analysis == FlattenSeq([n \in 1 .. Cardinality(Issues) |-> Findings(n)])

-----------------------------------------------------------------------------
(* The command.                                                              *)

Analyze ==
    /\ scan.pc = "idle"
    /\ \E fix \in BOOLEAN :
          scan' = IF fix /\ Analysis # <<>>
                  THEN [pc |-> "fix", todo |-> Analysis, outcome |-> "none"]
                  ELSE [pc |-> "idle", todo |-> <<>>,
                        outcome |-> IF Analysis = <<>> THEN "healthy" ELSE "findings"]
    /\ UNCHANGED <<issue, task>>

Finished(s) == IF Len(s.todo) = 1
               THEN [pc |-> "idle", todo |-> <<>>, outcome |-> "findings"]
               ELSE [s EXCEPT !.todo = Tail(@)]

(* One finding after the other; each fix that is applied logs an event.  A   *)
(* task that ended since the scan makes the fix, and the command, fail.      *)
ApplyFix ==
    /\ scan.pc = "fix"
    /\ LET f == Head(scan.todo)
           i == f.issue
       IN  \/ /\ f.fix = "none"
              /\ scan' = Finished(scan)
              /\ UNCHANGED <<issue, task>>
           \/ /\ f.fix = "cache_invalidate"
              /\ issue' = [issue EXCEPT ![i].cached = FALSE, ![i].verdict = "none",
                                        ![i].quiet = 0]
              /\ scan' = Finished(scan)
              /\ UNCHANGED task
           \/ /\ f.fix \in {"mark_completed", "mark_failed"}
              /\ IF Active(task[i])
                 THEN /\ task' = [task EXCEPT ![i].status =
                                     IF f.fix = "mark_failed" THEN "failed" ELSE "completed"]
                      /\ issue' = [issue EXCEPT ![i].quiet = 0]
                      /\ scan' = Finished(scan)
                 ELSE /\ scan' = [pc |-> "idle", todo |-> <<>>, outcome |-> "error"]
                      /\ UNCHANGED <<issue, task>>

-----------------------------------------------------------------------------
(* The pipeline beside it, external to this module (IssueFlow, TaskQueue,    *)
(* AgentRun).                                                                *)

(* A poll that finds the issue uncached dispatches it unless a task is       *)
(* active.                                                                   *)
Poll(i) ==
    /\ ~issue[i].cached
    /\ issue' = [issue EXCEPT ![i].cached = TRUE, ![i].quiet = 0, ![i].verdict = "ready",
                              ![i].dispatches = IF @ < MaxDispatches THEN @ + 1 ELSE @]
    /\ task' = IF Active(task[i]) \/ ~Intermediate(issue[i].label)
                  \/ issue[i].dispatches = MaxDispatches
               THEN task
               ELSE [task EXCEPT ![i] = [NoTaskRow EXCEPT !.status = "pending",
                                                       !.state = issue[i].label]]
    /\ UNCHANGED scan

(* A worker claims the task and starts the agent; the session row follows.   *)
Claim(i) ==
    /\ task[i].status = "pending"
    /\ \E p \in Places :
          task' = [task EXCEPT ![i] = [@ EXCEPT !.status = "running", !.agent = "alive",
                                                !.worker = "up", !.place = p, !.log = 0]]
    /\ UNCHANGED <<issue, scan>>

WriteLog(i) ==
    /\ task[i].agent = "alive" /\ task[i].log # 0
    /\ task' = [task EXCEPT ![i].log = 0]
    /\ UNCHANGED <<issue, scan>>

(* The agent flips the label; the process ends, in time or not.              *)
FlipLabel(i) ==
    /\ task[i].agent = "alive" /\ Intermediate(issue[i].label)
    /\ issue' = [issue EXCEPT ![i].label = NextState(@), ![i].quiet = 0]
    /\ UNCHANGED <<task, scan>>

AgentEnds(i) ==
    /\ task[i].agent = "alive"
    /\ task' = [task EXCEPT ![i].agent = "dead"]
    /\ UNCHANGED <<issue, scan>>

(* The worker reports the result, or never does and goes on heartbeating,    *)
(* or dies.                                                                  *)
WorkerReports(i) ==
    /\ task[i].agent = "dead" /\ task[i].worker = "up" /\ Active(task[i])
    /\ task' = [task EXCEPT ![i].status = "completed"]
    /\ issue' = [issue EXCEPT ![i].quiet = 0]
    /\ UNCHANGED scan

AgentHostDies(i) ==
    /\ task[i].worker = "up"
    /\ task' = [task EXCEPT ![i].worker = "down",
                            ![i].agent = IF @ = "alive" THEN "dead" ELSE @]
    /\ UNCHANGED <<issue, scan>>

(* Time passes for everything at once.                                       *)
Tick ==
    /\ issue' = [i \in Issues |-> [issue[i] EXCEPT !.quiet = Older(@)]]
    /\ task' = [i \in Issues |->
                   [task[i] EXCEPT !.age = IF task[i].worker = "up" THEN 0 ELSE Older(@),
                                   !.started = IF task[i].status = "running"
                                               THEN Older(@) ELSE @,
                                   !.log = IF @ = NoLog THEN NoLog ELSE Older(@)]]
    /\ UNCHANGED scan

-----------------------------------------------------------------------------
DiagInit ==
    /\ issue = [i \in Issues |-> [label |-> "developing", cached |-> FALSE, verdict |-> "none",
                                  quiet |-> 0, dispatches |-> 0]]
    /\ task = [i \in Issues |-> NoTaskRow]
    /\ scan = [pc |-> "idle", todo |-> <<>>, outcome |-> "none"]

DiagNext ==
    \/ Analyze \/ ApplyFix \/ Tick
    \/ \E i \in Issues : \/ Poll(i) \/ Claim(i) \/ WriteLog(i) \/ FlipLabel(i)
                         \/ AgentEnds(i) \/ WorkerReports(i) \/ AgentHostDies(i)

(* The operator keeps running diagnose --fix, and time passes.               *)
DiagFairness == WF_diagVars(Analyze /\ scan'.pc = "fix") /\ WF_diagVars(ApplyFix)
                    /\ WF_diagVars(Tick)

DiagSpec == DiagInit /\ [][DiagNext]_diagVars /\ DiagFairness

-----------------------------------------------------------------------------
(* Issues, rows and the scan keep their shapes.                              *)
DiagTypeOK ==
    /\ \A i \in Issues : /\ issue[i].label \in Range(States)
                         /\ task[i].status \in {"none", "pending", "running", "completed", "failed"}
                         /\ task[i].age \in 0 .. Old
    /\ scan.pc \in {"idle", "fix"}

Zombie(i) == task[i].status = "running" /\ task[i].agent = "dead" /\ task[i].worker = "up"

(* A heartbeat-only zombie, a row its worker keeps fresh although the agent  *)
(* is gone, is settled in the end when the operator keeps running diagnose   *)
(* --fix, however the scans race with reports, labels and other fixes        *)
(* (diagnose.go analyzeWithConfig, cmd/diagnose.go).                         *)
ZombiesAreSettled == \A i \in Issues : Zombie(i) ~> ~Zombie(i)

(* --fix settles no task whose agent is alive and writing ("safe automated   *)
(* remediations ... destructive actions are never auto-applied",             *)
(* cmd/diagnose.go).  A worker on another host has no process here.          *)
FixSparesLiveAgents ==
    [][\A i \in Issues :
          task[i].agent = "alive" /\ task[i].log # Old /\ task[i].status = "running"
              => task'[i].status = "running"]_diagVars
=============================================================================
