--------------------------- MODULE CycleCapsProofs ---------------------------
(***************************************************************************)
(* For any limits: the counters and stamps of an issue stay consistent,    *)
(* and no run of an agent is started without paying for it.                *)
(***************************************************************************)
EXTENDS CycleCaps, TLAPS

Counted == \A e \in Edges : counts[e] > 0 => e[2] \in visited

\* TypeOK in parts: the workflow instance, the counters, and the rest.
TablesOK ==
    /\ prior \in States \cup {"none"} /\ source \in States \cup {"none"}
    /\ counts \in [Edges -> 0..MostCounted]
    /\ visited \subseteq States /\ Counted

BudgetsOK ==
    /\ total \in 0..(MaxTotal + 1)
    /\ cycles \in [Loops -> Nat]
    /\ \A k \in Loops : k \in hit <=> cycles[k] >= MaxCycles[k]

LabelsOK == label \in States /\ observed \in States \cup {"none"} /\ trips \in 0..MaxReviewCycles
StepsOK  == budget \in [resync: 0..MaxResyncs, human: 0..MaxHumans]
BusyOK   == busy \in WithAgents \cup {"none"}

LEMMA Parts == TypeOK <=> TablesOK /\ BudgetsOK /\ LabelsOK /\ BusyOK /\ StepsOK
  BY DEF TypeOK, TablesOK, BudgetsOK, LabelsOK, BusyOK, StepsOK, Counted

LEMMA PartsNext == TablesOK' /\ BudgetsOK' /\ LabelsOK' /\ BusyOK' /\ StepsOK' => TypeOK'
  BY DEF TypeOK, TablesOK, BudgetsOK, LabelsOK, BusyOK, StepsOK, Counted

LEMMA Limits == /\ MostCounted \in Nat \ {0} /\ MaxRetries = MostCounted + 1
                /\ MaxTotal \in Nat /\ MaxReviewCycles \in Nat \ {0}
                /\ MaxResyncs \in Nat /\ MaxHumans \in Nat
                /\ \A k \in Loops : MaxCycles[k] \in Nat \ {0}
  BY CapsAssumption DEF MostCounted, MaxCycles, Loops

LEMMA CappedNat ==
    ASSUME NEW m \in Nat, NEW n \in 0..m
    PROVE  /\ Capped(n, m) \in 0..m /\ Capped(n, m) >= n
           /\ n < m => Capped(n, m) = n + 1
  BY DEF Capped

-----------------------------------------------------------------------------
LEMMA IncrementOK ==
    ASSUME TablesOK, NEW from, NEW to \in States, IncrementTransition(from, to)
    PROVE  counts' \in [Edges -> 0..MostCounted] /\ visited' \subseteq States /\ Counted'
<1>1. visited' = visited \cup {to} /\ visited' \subseteq States
  BY DEF IncrementTransition, TablesOK
<1>2. \A e \in Edges : counts[e] \in 0..MostCounted /\ Capped(counts[e], MostCounted) \in 0..MostCounted
  BY Limits, CappedNat DEF TablesOK
<1>3. \A e \in Edges : counts'[e] = counts[e] \/ (e = <<from, to>> /\ counts'[e] = Capped(counts[e], MostCounted))
  BY DEF IncrementTransition
<1>4. counts' \in [Edges -> 0..MostCounted]
  BY <1>2 DEF IncrementTransition
<1>5. Counted'
  BY <1>1, <1>3 DEF TablesOK, Counted
<1> QED
  BY <1>1, <1>4, <1>5

LEMMA AdvanceOK ==
    ASSUME TablesOK, NEW from \in States, NEW to \in States, Advance(from, to)
    PROVE  prior' \in States \cup {"none"} /\ source' \in States \cup {"none"}
  BY DEF TablesOK, Advance

LEMMA RecordOK ==
    ASSUME TablesOK, NEW s \in States, RecordStateEntry(s)
    PROVE  TablesOK'
<1>1. CASE Prior(s) = s
  BY <1>1 DEF RecordStateEntry, TablesOK, Counted
<1>2. CASE Prior(s) # s
  <2>1. prior \in States /\ Advance(prior, s) /\ IncrementTransition(prior, s)
    BY <1>2 DEF RecordStateEntry, Prior, TablesOK
  <2> QED
    BY <2>1, AdvanceOK, IncrementOK DEF TablesOK
<1> QED
  BY <1>1, <1>2

LEMMA ResetOK == ResetIssueCycleState => BudgetsOK'
  BY Limits DEF ResetIssueCycleState, BudgetsOK

-----------------------------------------------------------------------------
(* The entry of a state by an event that counts.                           *)

LEMMA StateEntryOK ==
    ASSUME TypeOK, NEW s \in States, StateEntry(s)
    PROVE  TablesOK' /\ BudgetsOK' /\ BusyOK'
<1>1. TablesOK /\ BudgetsOK /\ BusyOK /\ total \in 0..(MaxTotal + 1)
  BY Parts DEF BudgetsOK
<1>2. CASE EntersStateless(s)
  BY <1>1, <1>2, RecordOK DEF EntersStateless, BudgetsOK, BusyOK
<1>3. CASE StopsAtTotal(s)
  <2>1. TablesOK'
    BY <1>1, <1>3 DEF StopsAtTotal, TablesOK, Counted, Prior
  <2>2. BudgetsOK' /\ BusyOK'
    BY <1>1, <1>3, Limits DEF StopsAtTotal, BudgetsOK, BusyOK, Forgets
  <2> QED
    BY <2>1, <2>2
<1>4. CASE Overrides(s)
  BY <1>1, <1>4, RecordOK, ResetOK DEF Overrides, BusyOK, WithAgents
<1>5. CASE StopsAtCap(s)
  <2>1. TablesOK' /\ BusyOK'
    BY <1>1, <1>5 DEF StopsAtCap, TablesOK, Counted, BusyOK, Forgets
  <2>2. Capped(total, MaxTotal + 1) \in 0..(MaxTotal + 1) /\ Loop \in Loops
    BY <1>1, Limits, CappedNat DEF Loop, Loops
  <2>3. BudgetsOK'
    BY <1>1, <1>5, <2>2, Limits DEF StopsAtCap, BudgetsOK
  <2> QED
    BY <2>1, <2>3
<1>6. CASE EntersAndDispatches(s)
  <2>1. TablesOK' /\ BusyOK'
    BY <1>1, <1>6, RecordOK DEF EntersAndDispatches, BusyOK
  <2>2. Capped(total, MaxTotal + 1) \in 0..(MaxTotal + 1) /\ Loop \in Loops
    BY <1>1, Limits, CappedNat DEF Loop, Loops
  <2>3. BudgetsOK'
    BY <1>1, <1>6, <2>2, Limits DEF EntersAndDispatches, BudgetsOK, AtCap
  <2> QED
    BY <2>1, <2>3
<1> QED
  BY <1>2, <1>3, <1>4, <1>5, <1>6 DEF StateEntry

-----------------------------------------------------------------------------
LEMMA InitTyped == Init => TypeOK
<1> SUFFICES ASSUME Init PROVE TypeOK
  OBVIOUS
<1>1. TablesOK
  BY Limits DEF Init, TablesOK, Counted
<1>2. BudgetsOK
  BY Limits DEF Init, BudgetsOK
<1>3. LabelsOK /\ BusyOK /\ StepsOK
  BY Limits DEF Init, LabelsOK, BusyOK, StepsOK, States, WithAgents
<1> QED
  BY <1>1, <1>2, <1>3, Parts

\* What a completion may follow is an edge of the workflow.
LEMMA AllowedIsEdge ==
    ASSUME NEW from \in WithAgents, NEW to \in States, Allowed(from, to)
    PROVE  <<from, to>> \in Edges
<1>1. to \in Transitions[from]
  BY Zenon DEF Allowed
<1> QED
  BY <1>1 DEF Edges

LEMMA NextTyped == TypeOK /\ [Next]_vars => TypeOK'
<1> SUFFICES ASSUME TypeOK, [Next]_vars PROVE TypeOK'
  OBVIOUS
<1>1. TablesOK /\ BudgetsOK /\ LabelsOK /\ BusyOK /\ StepsOK
  BY Parts
<1>2. WithAgents \subseteq States /\ "none" \notin WithAgents
  BY DEF States, WithAgents
<1>3. ASSUME UNCHANGED <<prior, source, counts, visited>> PROVE TablesOK'
  BY <1>1, <1>3 DEF TablesOK, Counted
<1>4. ASSUME UNCHANGED <<total, cycles, hit>> PROVE BudgetsOK'
  BY <1>1, <1>4 DEF BudgetsOK
<1>5. CASE PollEvent
  <2>1. LabelsOK' /\ StepsOK' /\ label \in States /\ StateEntry(label)
    BY <1>1, <1>5 DEF PollEvent, LabelsOK, StepsOK
  <2> QED
    BY <2>1, StateEntryOK, PartsNext
<1>6. CASE Recover
  <2>1. LabelsOK' /\ StepsOK' /\ observed \in States /\ StateEntry(observed)
    BY <1>1, <1>2, <1>6 DEF Recover, LabelsOK, StepsOK
  <2> QED
    BY <2>1, StateEntryOK, PartsNext
<1>7. CASE Resync
  <2>1. LabelsOK' /\ BusyOK' /\ label \in States
    BY <1>1, <1>7 DEF Resync, LabelsOK, BusyOK
  <2>4. StepsOK'
    <3>1. budget.resync > 0 /\ budget' = [budget EXCEPT !.resync = budget.resync - 1]
      BY <1>7 DEF Resync
    <3> QED
      BY <1>1, <3>1, Limits DEF StepsOK
  <2>2. TablesOK'
    BY <1>1, <1>7, <2>1, RecordOK DEF Resync
  <2>3. BudgetsOK'
    BY <1>4, <1>7 DEF Resync
  <2> QED
    BY <2>1, <2>2, <2>3, <2>4, PartsNext
<1>8. ASSUME NEW s \in States, AgentMoves(s) PROVE TypeOK'
  <2>1. trips' \in 0..MaxReviewCycles
    BY <1>1, <1>8, Limits, CappedNat DEF AgentMoves, LabelsOK
  <2>2. LabelsOK' /\ BusyOK' /\ StepsOK'
    BY <1>1, <1>8, <2>1 DEF AgentMoves, LabelsOK, BusyOK, StepsOK
  <2>3. TablesOK' /\ BudgetsOK'
    BY <1>3, <1>4, <1>8 DEF AgentMoves
  <2> QED
    BY <2>2, <2>3, PartsNext
<1>9. ASSUME NEW s \in States, HumanMoves(s) PROVE TypeOK'
  <2>1. LabelsOK' /\ BusyOK' /\ StepsOK'
    BY <1>1, <1>9, Limits DEF HumanMoves, LabelsOK, BusyOK, StepsOK
  <2>2. TablesOK' /\ BudgetsOK'
    BY <1>3, <1>4, <1>9 DEF HumanMoves
  <2> QED
    BY <2>1, <2>2, PartsNext
<1>10. CASE RestartIssue
  <2>1. LabelsOK' /\ BusyOK' /\ StepsOK'
    BY <1>1, <1>10, Limits DEF RestartIssue, LabelsOK, BusyOK, StepsOK
  <2>2. TablesOK' /\ BudgetsOK'
    BY <1>3, <1>10, ResetOK DEF RestartIssue
  <2> QED
    BY <2>1, <2>2, PartsNext
<1>11. CASE CompletesAndAdvances
  <2>1. busy \in States /\ label \in States
    BY <1>1, <1>2, <1>11 DEF CompletesAndAdvances, BusyOK, LabelsOK
  <2>2. TablesOK'
    BY <1>1, <1>11, <2>1, IncrementOK, AdvanceOK DEF CompletesAndAdvances, TablesOK
  <2>3. BudgetsOK' /\ LabelsOK' /\ BusyOK' /\ StepsOK'
    BY <1>1, <1>4, <1>11 DEF CompletesAndAdvances, LabelsOK, BusyOK, StepsOK
  <2> QED
    BY <2>2, <2>3, PartsNext
<1>12. CASE CompletesBlocked
  <2>1. busy \in States /\ "blocked" \in States
    BY <1>12 DEF CompletesBlocked, States, WithAgents
  <2>2. TablesOK'
    BY <1>1, <1>12, <2>1, IncrementOK, AdvanceOK DEF CompletesBlocked, TablesOK
  <2>3. BudgetsOK' /\ LabelsOK' /\ BusyOK' /\ StepsOK'
    BY <1>1, <1>4, <1>12 DEF CompletesBlocked, LabelsOK, BusyOK, StepsOK
  <2> QED
    BY <2>2, <2>3, PartsNext
<1>13. CASE CompletesInPlace \/ Fails
  <2>1. /\ UNCHANGED <<prior, source, counts, visited, total, cycles, hit, label, observed, trips, budget>>
        /\ busy' = "none"
    BY <1>13 DEF CompletesInPlace, Fails
  <2>2. LabelsOK' /\ BusyOK' /\ StepsOK'
    BY <1>1, <2>1 DEF LabelsOK, BusyOK, StepsOK
  <2> QED
    BY <1>3, <1>4, <2>1, <2>2, PartsNext
<1>14. CASE UNCHANGED vars
  <2>1. LabelsOK' /\ BusyOK' /\ StepsOK'
    BY <1>1, <1>14 DEF vars, LabelsOK, BusyOK, StepsOK
  <2> QED
    BY <1>3, <1>4, <1>14, <2>1, PartsNext DEF vars
<1> QED
  BY <1>5, <1>6, <1>7, <1>8, <1>9, <1>10, <1>11, <1>12, <1>13, <1>14 DEF Next, Ends

\* The budgets of an issue keep their shapes, and a cap_hit_at stamp is there
\* exactly when its counter has reached the cap, whatever the limits.
THEOREM TypeCorrect == Spec => []TypeOK
  BY InitTyped, NextTyped, PTL DEF Spec

-----------------------------------------------------------------------------
Pays == \/ total' > total /\ total' <= MaxTotal
        \/ budget'.resync < budget.resync
        \/ \E e \in Edges : counts'[e] > counts[e]
        \/ prior = "blocked" /\ total' = 0

LEMMA EntryPays ==
    ASSUME TypeOK, NEW s \in States, StateEntry(s), Starts
    PROVE  Pays
<1>1. total \in 0..(MaxTotal + 1) /\ MaxTotal \in Nat
  BY Limits, Parts DEF BudgetsOK
<1>2. CASE EntersStateless(s)
  BY <1>2 DEF EntersStateless, Starts
<1>3. CASE StopsAtTotal(s) \/ StopsAtCap(s)
  BY <1>3 DEF StopsAtTotal, StopsAtCap, Forgets, Starts
<1>4. CASE Overrides(s)
  BY <1>4 DEF Overrides, ResetIssueCycleState, Pays
<1>5. CASE EntersAndDispatches(s)
  BY <1>1, <1>5 DEF EntersAndDispatches, OverTotal, Capped, Pays
<1> QED
  BY <1>2, <1>3, <1>4, <1>5 DEF StateEntry

\* A transition on completion counts an edge: a target that was not visited
\* has a count of zero, and one that was is rejected at max_retries.
LEMMA CompletionPays ==
    ASSUME TypeOK, CompletesAndAdvances
    PROVE  \E e \in Edges : counts'[e] > counts[e]
<1>1. TablesOK /\ busy \in WithAgents /\ label \in States /\ Allowed(busy, label) /\ ~Rejects(busy, label)
  BY Parts DEF CompletesAndAdvances, LabelsOK, BusyOK
<1> DEFINE e == <<busy, label>>
<1>2. e \in Edges /\ e[2] = label
  BY <1>1, AllowedIsEdge
<1>3. counts[e] \in 0..MostCounted /\ (counts[e] > 0 => label \in visited)
  BY <1>1, <1>2 DEF TablesOK, Counted
<1>4. label \in visited => counts[e] + 1 < MaxRetries
  BY <1>1, <1>3, Limits DEF Rejects, IsBackEdge
<1>5. counts[e] < MostCounted
  BY <1>3, <1>4, Limits
<1>6. counts'[e] = Capped(counts[e], MostCounted)
  BY <1>2 DEF CompletesAndAdvances, IncrementTransition
<1>7. counts'[e] > counts[e]
  BY <1>3, <1>5, <1>6, Limits, CappedNat
<1> QED
  BY <1>2, <1>7

LEMMA StepPays == TypeOK /\ [Next]_vars => (Starts => Pays)
<1> SUFFICES ASSUME TypeOK, [Next]_vars, Starts PROVE Pays
  OBVIOUS
<1>1. label \in States /\ (observed \in WithAgents => observed \in States)
  BY Parts DEF LabelsOK, States
<1>2. CASE PollEvent
  BY <1>1, <1>2, EntryPays DEF PollEvent
<1>3. CASE Recover
  BY <1>1, <1>3, EntryPays DEF Recover
<1>4. CASE Resync
  <2>1. budget \in [resync: 0..MaxResyncs, human: 0..MaxHumans] /\ MaxResyncs \in Nat
    BY Parts, Limits DEF StepsOK
  <2>2. budget' = [budget EXCEPT !.resync = budget.resync - 1]
    BY <1>4 DEF Resync
  <2> QED
    BY <2>1, <2>2 DEF Pays
<1>5. CASE CompletesAndAdvances
  BY <1>5, CompletionPays DEF Pays
<1>6. CASE CompletesInPlace \/ CompletesBlocked \/ Fails
  BY <1>6 DEF CompletesInPlace, CompletesBlocked, Fails, Starts
<1>7. ASSUME NEW s \in States, AgentMoves(s) \/ HumanMoves(s) PROVE Pays
  BY <1>7 DEF AgentMoves, HumanMoves, Starts
<1>8. CASE RestartIssue
  BY <1>8 DEF RestartIssue, Starts
<1>9. CASE UNCHANGED vars
  BY <1>9 DEF vars, Starts
<1> QED
  BY <1>2, <1>3, <1>4, <1>5, <1>6, <1>7, <1>8, <1>9 DEF Next, Ends

\* Label events, recovery, resyncs and completions each consult other
\* counters; whatever the limits, each run they start uses up some budget,
\* unless the step clears the budgets of a blocked issue.
THEOREM NoRunIsFree == Spec => NoFreeRun
<1>1. Spec => []TypeOK
  BY TypeCorrect
<1>2. TypeOK /\ [Next]_vars => [Starts => Pays]_vars
  BY StepPays
<1> QED
  BY <1>1, <1>2, PTL DEF Spec, NoFreeRun, Pays
=============================================================================
