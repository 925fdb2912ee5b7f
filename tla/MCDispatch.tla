----------------------------- MODULE MCDispatch -----------------------------
(* Small instances of Dispatch for TLC: a developing and a reviewing state *)
(* with one agent each, or one state with two agents.                      *)
EXTENDS Dispatch, TLC

CONSTANTS dev, review, done, a1, a2

OneAgentEach == dev :> <<a1>> @@ review :> <<a2>>
TwoAgents    == dev :> <<a1, a2>>
AllPassed    == [s \in Active |-> "all_passed"]
AnyPassed    == [s \in Active |-> "any_passed"]
AllThreads   == {"loop", "completion", "recovery"}
=============================================================================
