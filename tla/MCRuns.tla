------------------------------- MODULE MCRuns -------------------------------
(* Small instances of the parts that carry one task or one command to its  *)
(* end: the pass of the reaper, the executor of a worker, the supervisor,  *)
(* the process that hosts coordinator and worker, diagnose --fix, db       *)
(* migrate and the deployment of a host.  Two rows for the reaper, so that *)
(* an error on one can cut the pass short before the other.  The parts     *)
(* share no state here, so a behaviour picks one at the start and the      *)
(* others stand still: the states add up instead of multiplying.           *)
EXTENDS TaskReaper, Supervisor, AgentRun, ServeProcess, Diagnose, DbMigrate, Deployments

OneIssue == [j \in Jobs |-> 1]

ThreeTables == <<"instances", "transitions", "tasks">>
ParentOf == [t \in {"instances", "transitions", "tasks"} |-> IF t = "transitions" THEN "instances" ELSE t]
FirstRows == [t \in {"instances", "transitions", "tasks"} |-> IF t = "transitions" THEN {1} ELSE {1, 2}]

VARIABLE part

partVars == <<vars, supVars, runVars, serveVars, diagVars, migVars, deployVars, part>>

OnReaper == part = "reaper"
OnSup   == part = "supervisor"
OnRun   == part = "run"
OnServe == part = "serve"
OnDiag  == part = "diagnose"
OnMig   == part = "migrate"
OnDeploy == part = "deploy"

PartInit ==
    /\ part \in {"reaper", "supervisor", "run", "serve", "diagnose", "migrate", "deploy"}
    /\ Init /\ SupInit /\ RunInit /\ ServeInit /\ DiagInit /\ MigInit /\ DeployInit
    /\ ~OnServe => ~stale
    /\ everBinary = {1}   \* an installation of an earlier version

PartNext ==
    \/ OnReaper /\ Next    /\ UNCHANGED <<supVars, runVars, serveVars, diagVars, migVars, deployVars, part>>
    \/ OnSup   /\ SupNext   /\ UNCHANGED <<vars, runVars, serveVars, diagVars, migVars, deployVars, part>>
    \/ OnRun   /\ RunNext   /\ UNCHANGED <<vars, supVars, serveVars, diagVars, migVars, deployVars, part>>
    \/ OnServe /\ ServeNext /\ UNCHANGED <<vars, supVars, runVars, diagVars, migVars, deployVars, part>>
    \/ OnDiag  /\ DiagNext  /\ UNCHANGED <<vars, supVars, runVars, serveVars, migVars, deployVars, part>>
    \/ OnMig   /\ MigNext   /\ UNCHANGED <<vars, supVars, runVars, serveVars, diagVars, deployVars, part>>
    \/ OnDeploy /\ DeployNext /\ UNCHANGED <<vars, supVars, runVars, serveVars, diagVars, migVars, part>>

\* The fairness of TaskReaper, SupFairness, RunFairness, ServeFairness, DiagFairness, MigFairness and
\* DeployFairness, each asked for where its part was picked.
FairReaper ==
    /\ \A t \in Tasks : WF_vars(OnReaper /\ GraceElapses(t))
    /\ WF_vars(OnReaper /\ SelectCandidates) /\ WF_vars(OnReaper /\ (\E t \in Tasks : PickCandidate(t)))
    /\ WF_vars(OnReaper /\ UpdateCandidate) /\ WF_vars(OnReaper /\ LogReaped)

FairSup ==
    /\ WF_supVars(OnSup /\ (\E b \in BOOLEAN : RecoverFromDB(b)))
    /\ \A a \in Agents : WF_supVars(OnSup /\ Notices(a)) /\ WF_supVars(OnSup /\ GraceEnds(a))

FairRun ==
    \A j \in Jobs :
        /\ WF_runVars(OnRun /\ EnterLock(j)) /\ WF_runVars(OnRun /\ TakeLock(j)) /\ WF_runVars(OnRun /\ (GiveLock(j) \/ DropRef(j)))
        /\ WF_runVars(OnRun /\ (\E b \in BOOLEAN : PrepareTree(j, b) \/ LaunchAgent(j, b)))
        /\ WF_runVars(OnRun /\ (\E b \in BOOLEAN : ProxyTakes(j, b))) /\ WF_runVars(OnRun /\ ProxyHandsOn(j))
        /\ WF_runVars(OnRun /\ WatchTick(j)) /\ WF_runVars(OnRun /\ Watchdog(j))
        /\ WF_runVars(OnRun /\ runCtx[j] = "done" /\ Exits(j, "bad"))
        /\ WF_runVars(OnRun /\ (RunReturns(j) \/ ProxyDrained(j) \/ WriterDrained(j) \/ CloseSession(j)))
        /\ WF_runVars(OnRun /\ ProxyDrainTimesOut(j))

FairServe ==
    /\ WF_serveVars(OnServe /\ BootStep) /\ WF_serveVars(OnServe /\ RuntimeEnds) /\ WF_serveVars(OnServe /\ CoordStops) /\ WF_serveVars(OnServe /\ StopRuntimes)
    /\ WF_serveVars(OnServe /\ RuntimesAwaited) /\ WF_serveVars(OnServe /\ StopHTTP) /\ WF_serveVars(OnServe /\ CoordReturns) /\ WF_serveVars(OnServe /\ WorkerBoots)
    /\ WF_serveVars(OnServe /\ WorkerReturns) /\ WF_serveVars(OnServe /\ WorkerStopsPolling /\ breaks' = breaks) /\ WF_serveVars(OnServe /\ Healthy)
    /\ WF_serveVars(OnServe /\ TakeSignal) /\ WF_serveVars(OnServe /\ TakeResult) /\ WF_serveVars(OnServe /\ DrainCoord) /\ WF_serveVars(OnServe /\ DrainWorker)

FairDiag == WF_diagVars(OnDiag /\ Analyze /\ scan'.pc = "fix") /\ WF_diagVars(OnDiag /\ ApplyFix)
                    /\ WF_diagVars(OnDiag /\ Tick)

FairMig == WF_migVars(OnMig /\ MigStep) /\ WF_migVars(OnMig /\ Start(TRUE))

FairDeploy ==
    /\ WF_deployVars(OnDeploy /\ WatchFinds) /\ WF_deployVars(OnDeploy /\ WatchStep)
    /\ WF_deployVars(OnDeploy /\ WatchFails)

PartSpec ==
    /\ PartInit /\ [][PartNext]_partVars
    /\ FairReaper /\ FairSup /\ FairRun /\ FairServe /\ FairDiag /\ FairMig /\ FairDeploy
=============================================================================
