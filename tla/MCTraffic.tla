------------------------------ MODULE MCTraffic ------------------------------
(* Small instances of three parts that must keep moving while their peers  *)
(* fail: the task queue with its workers, the WebSocket tunnel and the     *)
(* hook dispatcher.  Each is checked alone: a behaviour picks one part at  *)
(* the start and the others stand still, so the states add up instead of   *)
(* multiplying.                                                            *)
EXTENDS TaskQueue, Tunnel, Hooks, TLC

MCServes == [w \in Workers |-> Tasks]
MCRepoOf == [t \in Tasks |-> CHOOSE r \in Repos : TRUE]

TwoHooks ==
    "fast" :> [action |-> "webhook", events |-> {"alert"}, repos |-> {}, severity |-> {"high"}]
    @@ "slow" :> [action |-> "command", events |-> {"*"}, repos |-> {"r1"}, severity |-> {}]
SecondIsLow == [e \in 1..MaxEvents |->
    [type |-> "alert", repo |-> "r1", severity |-> IF e = 2 THEN "low" ELSE "high"]]

VARIABLE part

partVars == <<vars, tunVars, hookVars, part>>

OnQueue  == part = "queue"
OnTun    == part = "tunnel"
OnHook   == part = "hooks"

PartInit ==
    /\ part \in {"queue", "tunnel", "hooks"}
    /\ Init /\ TunInit /\ HookInit

PartNext ==
    \/ OnQueue  /\ Next       /\ UNCHANGED <<tunVars, hookVars, part>>
    \/ OnTun    /\ TunNext    /\ UNCHANGED <<vars, hookVars, part>>
    \/ OnHook   /\ HookNext   /\ UNCHANGED <<vars, tunVars, part>>

\* Fairness of TaskQueue, TunFairness and HookFairness, each asked for where
\* its part was picked.
FairQueue ==
    /\ \A t \in Tasks :
          /\ WF_vars(OnQueue /\ LeaseExpires(t)) /\ WF_vars(OnQueue /\ HeartbeatGoesStale(t))
          /\ WF_vars(OnQueue /\ ReapUpdate(t)) /\ WF_vars(OnQueue /\ RecoverUpdate(t))
    /\ \A t \in Tasks, k \in 1..MaxClaims :
          /\ WF_vars(OnQueue /\ StartExecution(t, k)) /\ WF_vars(OnQueue /\ ReleaseUnbound(t, k))
          /\ WF_vars(OnQueue /\ FinishExecution(t, k)) /\ WF_vars(OnQueue /\ ReleaseAfterRun(t, k))
          /\ WF_vars(OnQueue /\ SubmitResult(t, k)) /\ WF_vars(OnQueue /\ AttemptFails(t, k))
          /\ WF_vars(OnQueue /\ ReleaseAfterFailure(t, k))
    /\ WF_vars(OnQueue /\ (\E h \in handlers : HandlerStep(h)))
    /\ WF_vars(OnQueue /\ ReapSelect) /\ WF_vars(OnQueue /\ RecoverSelect) /\ WF_vars(OnQueue /\ RecoverDone)

FairTun ==
    /\ \A c \in Conns : WF_tunVars(OnTun /\ Endpoints(c))
    /\ WF_tunVars(OnTun /\ Carries)
    /\ \A r \in Calls : WF_tunVars(OnTun /\ Works(r))

FairHook ==
    /\ \A g \in Gens : WF_hookVars(OnHook /\ (FanOutEvent(g) \/ FanLeaves(g)))
    /\ \A g \in Gens, h \in HookNames : WF_hookVars(OnHook /\ (TakeSlot(g, h) \/ HandLeaves(g, h)))
    /\ \A g \in Gens, h \in HookNames \ Slow :
         WF_hookVars(OnHook /\ (\E result \in Results(h) : ActionEnds(g, h, result)))
    /\ WF_hookVars(OnHook /\ StopReturns)
    /\ \A r \in Reloaders : WF_hookVars(OnHook /\ (ReloadReturns(r) \/ ReloadReplaces(r) \/ ReloadStarts(r)))

PartSpec == PartInit /\ [][PartNext]_partVars /\ FairQueue /\ FairTun /\ FairHook
==============================================================================
