------------------------------ MODULE CycleCaps ------------------------------
(***************************************************************************)
(* What keeps an issue from being worked on for ever: the caps on review   *)
(* and synthesis round trips, the cap on state entries and max_retries,    *)
(* over the default workflow.  Agents move the status label; the poller,   *)
(* the periodic recovery, the snapshot resync and the completion of a task *)
(* each lead to a dispatch, and each consults other caps.                  *)
(*                                                                         *)
(* Handlers are atomic here; how they interleave is Dispatch's subject.    *)
(* busy is the state of the inflight group: a group that the entry of      *)
(* another state forgot does not come back.                                *)
(***************************************************************************)
EXTENDS Naturals

CONSTANTS
    Rollouts,        \* developing is configured with rollouts > 1 and their join
    MaxTotal,        \* MaxTotalTransitions (15)
    MaxRetries,      \* max_retries (3)
    MaxReviewCycles, \* max_review_cycles (3)
    MaxSynthCycles,  \* DefaultMaxSynthCycles (2)
    MaxResyncs,      \* bound: snapshot resyncs that find the issue idle
    MaxHumans        \* bound: label changes and restart-issue commands of people

ASSUME CapsAssumption ==
    /\ Rollouts \in BOOLEAN
    /\ MaxTotal \in Nat /\ MaxRetries \in Nat \ {0, 1}
    /\ MaxReviewCycles \in Nat \ {0} /\ MaxSynthCycles \in Nat \ {0}
    /\ MaxResyncs \in Nat /\ MaxHumans \in Nat

WithAgents == {"developing", "synthesizing", "reviewing", "merging"}
States     == WithAgents \cup {"blocked", "merged"}

\* The transitions of the default workflow.
Transitions ==
    [s \in States |->
        CASE s = "developing"   -> {"synthesizing", "reviewing", "blocked"}
          [] s = "synthesizing" -> {"reviewing"}
          [] s = "reviewing"    -> {"merging", "developing"}
          [] s = "merging"      -> {"merged", "developing"}
          [] s = "blocked"      -> {"developing"}
          [] s = "merged"       -> {}]

Loops == {"review", "synth"}
MaxCycles == [k \in Loops |-> IF k = "review" THEN MaxReviewCycles ELSE MaxSynthCycles]

VARIABLES
    label,     \* status label of the issue
    observed,  \* status label in the issue cache, or "none"
    prior,     \* current_state of the workflow instance, or "none"
    source,    \* from_state of its latest transition into reviewing
    counts,    \* transition_counts of the workflow's edges, see MostCounted
    visited,   \* states with a transition count into them
    total,     \* total_transitions, up to MaxTotal + 1
    cycles,    \* dev_review_cycle_count and synth_cycle_count, up to their caps
    hit,       \* loops with a cap_hit_at
    busy,      \* state of the inflight group, or "none"
    trips,     \* history: round trips without synthesis since a person stepped in
    budget     \* resyncs and human steps still to come

vars == <<label, observed, prior, source, counts, visited, total, cycles, hit, busy, trips, budget>>

\* Edges a completion can take.
Edges == {e \in WithAgents \X States : e[2] \in Transitions[e[1]]}

\* A count of MaxRetries - 1 or more rejects the next revisit alike.
MostCounted == MaxRetries - 1

Capped(n, max) == IF n >= max THEN max ELSE n + 1

Init ==
    /\ label = "developing" /\ observed = "none"
    /\ prior = "none" /\ source = "none"
    /\ counts = [e \in Edges |-> 0] /\ visited = {}
    /\ total = 0 /\ cycles = [k \in Loops |-> 0] /\ hit = {}
    /\ busy = "none"
    /\ trips = 0
    /\ budget = [resync |-> MaxResyncs, human |-> MaxHumans]

-----------------------------------------------------------------------------
(* The tables.                                                             *)

\* The instance is created in the state of the first event.
Prior(s) == IF prior = "none" THEN s ELSE prior

IncrementTransition(from, to) ==
    /\ counts' = [e \in Edges |-> IF e = <<from, to>> THEN Capped(counts[e], MostCounted) ELSE counts[e]]
    /\ visited' = visited \cup {to}

\* AdvanceWorkflowInstance: append to the history, set the current state.
Advance(from, to) ==
    /\ prior' = to
    /\ source' = IF to = "reviewing" THEN from ELSE source

\* recordStateEntry: nothing for an entry into the state it is in.
RecordStateEntry(s) ==
    IF Prior(s) = s
    THEN prior' = s /\ UNCHANGED <<source, counts, visited>>
    ELSE Advance(prior, s) /\ IncrementTransition(prior, s)

ResetKeepsHit ==
    /\ total' = 0 /\ cycles' = [k \in Loops |-> 0] /\ UNCHANGED hit

\* Deletes the issue's counters and stamps; the transition counts stay.
ResetIssueCycleState ==
    /\ total' = 0 /\ cycles' = [k \in Loops |-> 0] /\ hit' = {}

-----------------------------------------------------------------------------
(* processWorkflowEvent for the entry of state s by an event that counts.  *)

EntersStateless(s) ==
    /\ s \notin WithAgents
    /\ RecordStateEntry(s)
    /\ UNCHANGED <<total, cycles, hit, busy>>

Forgets(s) == busy' = IF busy = s THEN busy ELSE "none"

OverTotalForLabels(s) == total + 1 > MaxTotal /\ s # prior

OverTotal(s) == total + 1 > MaxTotal

\* The hard cap: counted and nothing else, not even recorded.
StopsAtTotal(s) ==
    /\ s \in WithAgents /\ OverTotal(s)
    /\ total' = MaxTotal + 1
    /\ prior' = Prior(s)
    /\ Forgets(s)
    /\ UNCHANGED <<source, counts, visited, cycles, hit>>

\* blocked -> developing clears the counters, the total included.
Overrides(s) ==
    /\ s = "developing" /\ prior = "blocked" /\ ~OverTotal(s)
    /\ ResetIssueCycleState
    /\ RecordStateEntry(s)
    /\ busy' = s

Loop == IF source = "synthesizing" THEN "synth" ELSE "review"

RoundTrip(s) == s = "developing" /\ prior = "reviewing"

AtCap == cycles[Loop] + 1 >= MaxCycles[Loop]

\* enforceCycleCap: the entry that reaches the cap is stamped and neither
\* recorded nor dispatched.
StopsAtCap(s) ==
    /\ RoundTrip(s) /\ ~OverTotal(s) /\ AtCap
    /\ total' = Capped(total, MaxTotal + 1)
    /\ cycles' = [cycles EXCEPT ![Loop] = MaxCycles[Loop]]
    /\ hit' = hit \cup {Loop}
    /\ Forgets(s)
    /\ UNCHANGED <<prior, source, counts, visited>>

EntersAndDispatches(s) ==
    /\ s \in WithAgents /\ ~OverTotal(s)
    /\ ~(s = "developing" /\ prior = "blocked")
    /\ RoundTrip(s) => ~AtCap
    /\ total' = Capped(total, MaxTotal + 1)
    /\ cycles' = IF RoundTrip(s) THEN [cycles EXCEPT ![Loop] = @ + 1] ELSE cycles
    /\ RecordStateEntry(s)
    /\ busy' = s
    /\ UNCHANGED hit

StateEntry(s) ==
    \/ EntersStateless(s)
    \/ StopsAtTotal(s)
    \/ Overrides(s)
    \/ StopsAtCap(s)
    \/ EntersAndDispatches(s)

-----------------------------------------------------------------------------
(* Who handles an issue.                                                   *)

\* issue_created or label_added.
PollEvent ==
    /\ observed # label
    /\ observed' = label
    /\ StateEntry(label)
    /\ UNCHANGED <<label, trips, budget>>

\* recoverOrphanedActiveStates, from the cached labels.
Recover ==
    /\ observed \in WithAgents
    /\ busy = "none"
    /\ StateEntry(observed)
    /\ UNCHANGED <<label, observed, trips, budget>>

\* issue_resynced: no cap, and the state is recorded.
Resync ==
    /\ observed = label
    /\ budget.resync > 0
    /\ budget' = [budget EXCEPT !.resync = @ - 1]
    /\ RecordStateEntry(label)
    /\ IF label \in WithAgents
       THEN busy = "none" /\ busy' = label
       ELSE UNCHANGED busy
    /\ UNCHANGED <<label, observed, total, cycles, hit, trips>>

\* The running agent moves the label along the workflow.
AgentMoves(s) ==
    /\ busy = label
    /\ s \in Transitions[label]
    /\ label' = s
    /\ trips' = IF label = "reviewing" /\ s = "developing" /\ source # "synthesizing"
                THEN Capped(trips, MaxReviewCycles) ELSE trips
    /\ UNCHANGED <<observed, prior, source, counts, visited, total, cycles, hit, busy, budget>>

HumanMoves(s) ==
    /\ budget.human > 0
    /\ budget' = [budget EXCEPT !.human = @ - 1]
    /\ s # label
    /\ label' = s
    /\ trips' = 0
    /\ UNCHANGED <<observed, prior, source, counts, visited, total, cycles, hit, busy>>

\* runRestartIssueWithOpts, which also clears the inflight group when it is
\* told where the coordinator is.
RestartIssue ==
    /\ budget.human > 0
    /\ budget' = [budget EXCEPT !.human = @ - 1]
    /\ observed' = "none"
    /\ ResetIssueCycleState
    /\ busy' \in {busy, "none"}
    /\ trips' = 0
    /\ UNCHANGED <<label, prior, source, counts, visited>>

-----------------------------------------------------------------------------
(* The group ends (MarkAgentCompleted).                                    *)

\* transitionAllowedForState: fan-outs are reduced, single runs are not.
Allowed(from, to) ==
    /\ to \in Transitions[from]
    /\ from = "developing" =>
          /\ to = "synthesizing" => Rollouts
          /\ to = "reviewing" => ~Rollouts

IsBackEdge(to) == to \in visited

NeverRejects(from, to) == counts[<<from, to>>] + 1 > MaxRetries

\* A revisit is rejected when max_retries is reached.
Rejects(from, to) == IsBackEdge(to) /\ counts[<<from, to>>] + 1 >= MaxRetries

\* Passed, and the label the worker saw is a transition of the group's state:
\* the target is dispatched, no cap but max_retries asked.
CompletesAndAdvances ==
    /\ busy # "none" /\ Allowed(busy, label) /\ ~Rejects(busy, label)
    /\ IncrementTransition(busy, label)
    /\ Advance(busy, label)
    /\ busy' = IF label \in WithAgents THEN label ELSE "none"
    /\ UNCHANGED <<label, observed, total, cycles, hit, trips, budget>>

\* Passed, but there is no transition or it is rejected.  (The code counts
\* the rejected attempt too; such a count is at MostCounted already.)
CompletesInPlace ==
    /\ busy \notin {"none", "synthesizing"}
    /\ Allowed(busy, label) => Rejects(busy, label)
    /\ busy' = "none"
    /\ UNCHANGED <<label, observed, prior, source, counts, visited, total, cycles, hit, trips, budget>>

\* advanceRolloutFailureToBlocked: rollouts that failed their join, and a
\* synthesis that escalates or ends nowhere, put the instance, not the
\* label, into blocked.
CompletesBlocked ==
    /\ busy = "synthesizing" \/ (Rollouts /\ busy = "developing")
    /\ Advance(busy, "blocked")
    /\ IncrementTransition(busy, "blocked")
    /\ busy' = "none"
    /\ UNCHANGED <<label, observed, total, cycles, hit, trips, budget>>

\* The task failed or was reaped.
Fails ==
    /\ busy # "none"
    /\ busy' = "none"
    /\ UNCHANGED <<label, observed, prior, source, counts, visited, total, cycles, hit, trips, budget>>

Ends ==
    \/ CompletesAndAdvances
    \/ CompletesInPlace
    \/ CompletesBlocked
    \/ Fails

Next ==
    \/ PollEvent
    \/ Recover
    \/ Resync
    \/ \E s \in States : AgentMoves(s)
    \/ \E s \in States : HumanMoves(s)
    \/ RestartIssue
    \/ Ends

Spec == Init /\ [][Next]_vars

(***************************************************************************)
(* Fairness: the poll and recovery tickers fire, and every run ends        *)
(* (TaskQueue's RunningRowsMove).  Agents may move the label or not.       *)
(***************************************************************************)
FairSpec == Spec /\ WF_vars(PollEvent) /\ WF_vars(Recover) /\ WF_vars(Ends)

-----------------------------------------------------------------------------
\* Every variable keeps its shape, and the stamps agree with the counters.
TypeOK ==
    /\ label \in States /\ observed \in States \cup {"none"}
    /\ prior \in States \cup {"none"} /\ source \in States \cup {"none"}
    /\ counts \in [Edges -> 0..MostCounted]
    /\ visited \subseteq States /\ \A e \in Edges : counts[e] > 0 => e[2] \in visited
    /\ total \in 0..(MaxTotal + 1)
    /\ cycles \in [Loops -> Nat]
    /\ \A k \in Loops : k \in hit <=> cycles[k] >= MaxCycles[k]
    /\ busy \in WithAgents \cup {"none"}
    /\ trips \in 0..MaxReviewCycles
    /\ budget \in [resync: 0..MaxResyncs, human: 0..MaxHumans]

\* A run starts.
Starts == busy' \notin {"none", busy}

\* The events, the resyncs and the completions all start runs, and each
\* consults other counters: none of them starts one for free, unless the
\* counters are cleared by that very step.
NoFreeRun ==
    [][Starts => \/ total' > total /\ total' <= MaxTotal
                 \/ budget'.resync < budget.resync
                 \/ \E e \in Edges : counts'[e] > counts[e]
                 \/ prior = "blocked" /\ total' = 0]_vars

\* "hard cap on total state transitions per issue ... catches any loop
\* pattern": without people and with finitely many resyncs an issue comes to
\* rest, whatever its agents do to the label and however they fail.
Quiesces == <>[](busy = "none")

\* "caps the orchestrator-level dev<->review round-trip count": after
\* max_review_cycles trips without a person the developer is not running.
ReviewLoopCapped == busy = "developing" => trips < MaxReviewCycles
=============================================================================
