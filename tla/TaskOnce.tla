------------------------------ MODULE TaskOnce ------------------------------
(***************************************************************************)
(* What the task queue promises to the state machine, without leases,      *)
(* heartbeats, workers, retries or crashes: a task is stored once, gets    *)
(* one verdict, and the state machine is told at most once, and then       *)
(* exactly the verdict, which nobody changes any more.                     *)
(*                                                                         *)
(* A verdict that nobody was told of may still be overruled to "failed":   *)
(* the start-up recovery of the coordinator writes without a condition,    *)
(* also over what an operator has just settled.                            *)
(***************************************************************************)
CONSTANTS
    Tasks,
    Attempts,   \* names of the executions of a task
    Verdicts    \* how a task can end

VARIABLES
    verdict,    \* verdict[t]: "absent", "open" or a member of Verdicts
    told        \* told[t]: the completions the state machine heard of

onceVars == <<verdict, told>>

OnceInit ==
    /\ verdict = [t \in Tasks |-> "absent"]
    /\ told = [t \in Tasks |-> {}]

Create(t) ==
    /\ verdict[t] = "absent"
    /\ verdict' = [verdict EXCEPT ![t] = "open"]
    /\ UNCHANGED told

\* The tasks of a repository can be settled together.
Settle(S, v) ==
    /\ S # {} /\ \A t \in S : verdict[t] = "open"
    /\ verdict' = [t \in Tasks |-> IF t \in S THEN v ELSE verdict[t]]
    /\ UNCHANGED told

Overrule(t) ==
    /\ verdict[t] \in Verdicts /\ told[t] = {}
    /\ verdict' = [verdict EXCEPT ![t] = "failed"]
    /\ UNCHANGED told

Tell(t, k) ==
    /\ verdict[t] \in Verdicts /\ told[t] = {}
    /\ told' = [told EXCEPT ![t] = {<<k, verdict[t]>>}]
    /\ UNCHANGED verdict

OnceNext ==
    \/ \E t \in Tasks : Create(t) \/ Overrule(t) \/ (\E k \in Attempts : Tell(t, k))
    \/ \E S \in SUBSET Tasks, v \in Verdicts : Settle(S, v)

OnceSpec == OnceInit /\ [][OnceNext]_onceVars
=============================================================================
