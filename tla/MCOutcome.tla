------------------------------ MODULE MCOutcome ------------------------------
(* Small instances of the parts that act on what a run left behind: the    *)
(* reporter with the claim checks, the sandboxed runs with label           *)
(* validation, the operator inbox and the recovery commands of a host.     *)
(* They share no state, so a behaviour picks one part at the start and the *)
(* others stand still: the states add up instead of multiplying.           *)
EXTENDS Reporting, SandboxRuns, OperatorInbox, HostRecovery

StatusLabels == <<"developing", "failed", "reviewing">>
DevThenReview == [s \in Sandboxed |-> IF s = "dev" THEN "developing" ELSE "reviewing"]
ReviewOrLeave == [s \in Sandboxed |-> IF s = "dev" THEN "reviewing" ELSE "moved"]
Edges == [l \in {"developing", "failed", "reviewing"} |->
    CASE l = "developing" -> {"reviewing"} [] l = "reviewing" -> {"developing", "failed"} [] OTHER -> {}]

\* A shell that runs recover, and a serve process with a codex of its own and
\* one codex that the shell started.
FiveProcesses == [p \in 2..6 |->
    CASE p = 2 -> [kind |-> "shell", parent |-> 1, age |-> 2, inside |-> TRUE, id |-> 2]
      [] p = 3 -> [kind |-> "recover", parent |-> 2, age |-> 0, inside |-> TRUE, id |-> 3]
      [] p = 4 -> [kind |-> "serve", parent |-> 1, age |-> 3, inside |-> TRUE, id |-> 4]
      [] p = 5 -> [kind |-> "codex", parent |-> 4, age |-> 1, inside |-> TRUE, id |-> 5]
      [] p = 6 -> [kind |-> "codex", parent |-> 2, age |-> 1, inside |-> TRUE, id |-> 6]]

VARIABLE part

partVars == <<reportVars, sandVars, inboxVars, hostVars, part>>

\* Where a part has several initial states, one of them stands for the part
\* while another one runs.
PartInit ==
    /\ part \in {"report", "sandbox", "inbox", "recovery"}
    /\ part # "sandbox" => labels = {"developing"}
    /\ part # "recovery" => git = [dirs |-> {}, registered |-> {}, refs |-> {}, remote |-> {}, prs |-> {}]
    /\ ReportInit /\ SandInit /\ InboxInit /\ HostInit

PartNext ==
    \/ part = "report"   /\ ReportNext   /\ UNCHANGED <<sandVars, inboxVars, hostVars, part>>
    \/ part = "sandbox"  /\ SandNext     /\ UNCHANGED <<reportVars, inboxVars, hostVars, part>>
    \/ part = "inbox"    /\ InboxNext    /\ UNCHANGED <<reportVars, sandVars, hostVars, part>>
    \/ part = "recovery" /\ RecoveryNext /\ UNCHANGED <<reportVars, sandVars, inboxVars, part>>

PartSpec == PartInit /\ [][PartNext]_partVars
==============================================================================
