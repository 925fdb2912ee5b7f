------------------------------ MODULE MCControl ------------------------------
(* Small instances of parts of the coordinator and the worker: the session *)
(* proxy, the poller with the dependency gate, cycle detection, repository *)
(* runtimes, the worker host with its bindings and tokens, worktrees, the  *)
(* alert bus with the notifier, and the codex backend.  They share no      *)
(* state, so a behaviour picks one part at the start and the others stand  *)
(* still: the states add up instead of multiplying.                        *)
EXTENDS SessionProxy, DependencyCycles, IssueFlow, RepoRuntimes, WorkerHost, Worktrees, Alerts, CodexSessions, TLC

CONSTANTS w1, w2

Owners == 1 :> w2 @@ 2 :> w1 @@ 3 :> w1
TwoPages == {[offset |-> 0, limit |-> 2], [offset |-> 1, limit |-> 1]}
SecondNeedsFirst == 1 :> {} @@ 2 :> {1}
OnlyFirst == "r1" :> 1 @@ "r2" :> 0
OneSender == <<"slack">>

VARIABLE part

partVars == <<proxyVars, cycleVars, flowVars, repoVars, hostVars, treeVars, alertVars, codexVars, part>>

\* Where a part has several initial states, one of them stands for the part
\* while another one runs.
PartInit ==
    /\ part \in {"proxy", "cycles", "flow", "repos", "host", "trees", "alerts", "codex"}
    /\ part # "cycles" => finished = {} /\ entries = [i \in Open |-> {}]
    /\ part # "flow" => gh = [i \in Numbers |-> "idle"]
    /\ part # "repos" => disk = 1
    /\ ProxyInit /\ CyclesInit /\ FlowInit /\ RepoInit /\ HostInit /\ TreeInit /\ AlertsInit /\ CodexInit

PartNext ==
    \/ part = "proxy" /\ ProxyNext
       /\ UNCHANGED <<cycleVars, flowVars, repoVars, hostVars, treeVars, alertVars, codexVars, part>>
    \/ part = "cycles" /\ CyclesNext
       /\ UNCHANGED <<proxyVars, flowVars, repoVars, hostVars, treeVars, alertVars, codexVars, part>>
    \/ part = "flow" /\ FlowNext
       /\ UNCHANGED <<proxyVars, cycleVars, repoVars, hostVars, treeVars, alertVars, codexVars, part>>
    \/ part = "repos" /\ RepoNext
       /\ UNCHANGED <<proxyVars, cycleVars, flowVars, hostVars, treeVars, alertVars, codexVars, part>>
    \/ part = "host" /\ HostNext
       /\ UNCHANGED <<proxyVars, cycleVars, flowVars, repoVars, treeVars, alertVars, codexVars, part>>
    \/ part = "trees" /\ TreeNext
       /\ UNCHANGED <<proxyVars, cycleVars, flowVars, repoVars, hostVars, alertVars, codexVars, part>>
    \/ part = "alerts" /\ AlertsNext
       /\ UNCHANGED <<proxyVars, cycleVars, flowVars, repoVars, hostVars, treeVars, codexVars, part>>
    \/ part = "codex" /\ CodexNext
       /\ UNCHANGED <<proxyVars, cycleVars, flowVars, repoVars, hostVars, treeVars, alertVars, part>>

PartSpec == PartInit /\ [][PartNext]_partVars
==============================================================================
