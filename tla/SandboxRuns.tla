---------------------------- MODULE SandboxRuns ----------------------------
(***************************************************************************)
(* Runs of agents in a sandbox (runtime agentm).  The agent cannot touch   *)
(* the issue: its process prints a RESULT line, and the worker moves the   *)
(* status label for it, after a look whether the issue still is where the  *)
(* agent was triggered.  Several workers and people edit the labels of one *)
(* issue, each with calls of gh that may fail.  With an observer, the      *)
(* agent is resumed until its post-conditions are met.                     *)
(***************************************************************************)
EXTENDS Integers, Sequences, FiniteSets, SequencesExt

CONSTANTS
    Sandboxed,      \* runs on the issue
    Trigger,        \* state whose label triggered each run
    StateOrder,     \* the states of the workflow, sorted by name
    Transitions,    \* the states that may follow each state
    Target,         \* LabelTarget of a run's objective, or "moved" for LabelNotEqual
    Conditions,     \* the other post-conditions of a run (branch, PR, comment)
    Observed,       \* there is an observer
    MaxRounds,      \* Controller.MaxRounds
    MaxEdits,       \* bound: label edits by people
    MaxGHFaults     \* bound: calls of gh that fail

Labels == ToSet(StateOrder)

ASSUME SandboxAssumption ==
    /\ StateOrder \in Seq(Labels) /\ \A i, j \in DOMAIN StateOrder : StateOrder[i] = StateOrder[j] => i = j
    /\ Trigger \in [Sandboxed -> Labels] /\ Transitions \in [Labels -> SUBSET Labels]
    /\ Target \in [Sandboxed -> Labels \cup {"moved"}] /\ Observed \in BOOLEAN
    /\ MaxRounds \in Nat \ {0} /\ MaxEdits \in Nat /\ MaxGHFaults \in Nat

VARIABLES
    sandbox,        \* each run
    labels,         \* the status labels of the issue
    met,            \* post-conditions that hold, for each run
    disturbed,      \* a writer could not know the labels it replaced (history)
    edits, ghFaults

sandVars == <<sandbox, labels, met, disturbed, edits, ghFaults>>

NoOutput == [kind |-> "none", next |-> ""]
Outputs == {NoOutput, [kind |-> "bad", next |-> ""]} \cup [kind : {"success", "failure"}, next : Labels \cup {""}]
NoRun == [pc |-> "idle", round |-> 0, unmet |-> {}, out |-> NoOutput, listed |-> {}, pre |-> {}, post |-> {},
         class |-> "none", cancelled |-> FALSE, exited |-> FALSE, closed |-> FALSE, tmp |-> FALSE]

SandTypeOK ==
    /\ labels \subseteq Labels /\ met \in [Sandboxed -> SUBSET Conditions] /\ disturbed \in BOOLEAN
    /\ \A s \in Sandboxed : /\ sandbox[s].out \in Outputs /\ sandbox[s].round \in 0..MaxRounds
                            /\ sandbox[s].listed \cup sandbox[s].pre \cup sandbox[s].post \subseteq Labels
                            /\ sandbox[s].tmp => sandbox[s].pc # "idle"
    /\ edits \in 0..MaxEdits /\ ghFaults \in 0..MaxGHFaults

SandInit ==
    /\ sandbox = [s \in Sandboxed |-> NoRun] /\ labels \in {{Trigger[s]} : s \in Sandboxed}
    /\ met = [s \in Sandboxed |-> {}] /\ disturbed = FALSE /\ edits = 0 /\ ghFaults = 0

Move(s, r) == sandbox' = [sandbox EXCEPT ![s] = r]
\* A call of gh: it answers, or fails.  With a cancelled context it fails at once.
Answers(s) == ~sandbox[s].cancelled /\ UNCHANGED ghFaults
Faults(s) == \/ sandbox[s].cancelled /\ UNCHANGED ghFaults
             \/ ~sandbox[s].cancelled /\ ghFaults < MaxGHFaults /\ ghFaults' = ghFaults + 1

-----------------------------------------------------------------------------
(* The process and its files.                                              *)

NewSession(s) ==
    /\ sandbox[s].pc = "idle" /\ Trigger[s] \in labels
    /\ Move(s, [NoRun EXCEPT !.pc = "runs", !.round = 1, !.pre = labels, !.tmp = TRUE])
    /\ UNCHANGED <<labels, met, disturbed, edits, ghFaults>>

\* Mutant: the files go only when they are closed after the exit.
RemainsUntilClosed(was, r) == was.tmp /\ ~(r.closed /\ ~was.closed /\ r.exited)
\* removeTmpDir: the files go with the later of the exit and the close.
Remains(was, r) == was.tmp /\ ~(r.closed /\ r.exited)

\* Of two lines of output, the RESULT line that counts is the last one.
scanStdout(first, last) == IF last = NoOutput THEN first ELSE last

\* The process ends, by itself or killed with its context; it may have met some
\* of its conditions.
ProcessExits(s) ==
    /\ sandbox[s].pc = "runs" /\ ~sandbox[s].exited
    /\ \E first, last \in Outputs, new \in SUBSET Conditions :
         LET r == [sandbox[s] EXCEPT !.exited = TRUE, !.out = scanStdout(first, last)] IN
           /\ Move(s, [r EXCEPT !.tmp = Remains(sandbox[s], r)])
           /\ met' = [met EXCEPT ![s] = @ \cup new]
    /\ UNCHANGED <<labels, disturbed, edits, ghFaults>>

\* The task is cancelled: the session is closed while its process still runs.
CancelRun(s) ==
    /\ sandbox[s].pc = "runs" /\ ~sandbox[s].cancelled
    /\ LET r == [sandbox[s] EXCEPT !.cancelled = TRUE, !.closed = TRUE] IN Move(s, [r EXCEPT !.tmp = Remains(sandbox[s], r)])
    /\ UNCHANGED <<labels, met, disturbed, edits, ghFaults>>

-----------------------------------------------------------------------------
(* The label.                                                              *)

\* Run: a RESULT line that does not parse is an infra failure; without one, or
\* without a label in it, nothing is to be written.
Resolve(s) ==
    /\ sandbox[s].pc = "runs" /\ sandbox[s].exited
    /\ Move(s, [sandbox[s] EXCEPT !.pc = IF sandbox[s].out.next = "" THEN "observe" ELSE "check"])
    /\ UNCHANGED <<labels, met, disturbed, edits, ghFaults>>

\* The issue does not carry the trigger any more.  No answer counts as no.
isStale(s, ok) == ok /\ Trigger[s] \notin labels

Check(s) ==
    /\ sandbox[s].pc = "check"
    /\ \E ok \in BOOLEAN :
         /\ IF ok THEN Answers(s) ELSE Faults(s)
         /\ Move(s, [sandbox[s] EXCEPT !.pc = IF isStale(s, ok) THEN "observe" ELSE "list"])
    /\ UNCHANGED <<labels, met, disturbed, edits>>

\* Mutant: only the trigger is removed.
staleOwnLabel(s) == {Trigger[s]} \ {sandbox[s].out.next}
staleStatusLabels(s) == labels \ {sandbox[s].out.next}

List(s) ==
    /\ sandbox[s].pc = "list"
    /\ \/ /\ Answers(s) /\ Move(s, [sandbox[s] EXCEPT !.pc = "edit", !.listed = staleStatusLabels(s)])
          /\ UNCHANGED disturbed
       \/ /\ Faults(s) /\ Move(s, [sandbox[s] EXCEPT !.pc = "edit", !.listed = {}])
          /\ disturbed' = TRUE
    /\ UNCHANGED <<labels, met, edits>>

\* Some run is between its list of the labels and its edit.
Between(s) == \E t \in Sandboxed \ {s} : sandbox[t].pc = "edit"

Edit(s) ==
    /\ sandbox[s].pc = "edit"
    /\ Move(s, [sandbox[s] EXCEPT !.pc = "observe", !.listed = {}])
    /\ \/ /\ Answers(s) /\ labels' = (labels \cup {sandbox[s].out.next}) \ sandbox[s].listed
          /\ disturbed' = (disturbed \/ Between(s))
       \/ Faults(s) /\ UNCHANGED <<labels, disturbed>>
    /\ UNCHANGED <<met, edits>>

\* A person edits the issue, in one edit.
PersonMoves ==
    /\ edits < MaxEdits /\ edits' = edits + 1
    /\ \E l \in Labels : labels' = {l}
    /\ disturbed' = (disturbed \/ \E t \in Sandboxed : sandbox[t].pc = "edit")
    /\ UNCHANGED <<sandbox, met, ghFaults>>

-----------------------------------------------------------------------------
(* The control loop.                                                       *)

\* What the observer finds missing; of several labels it sees one.
LabelMeets(s, cur) == IF Target[s] = "moved" THEN cur # Trigger[s] /\ cur # "" ELSE cur = Target[s]
Missing(s, cur) == (Conditions \ met[s]) \cup (IF LabelMeets(s, cur) THEN {} ELSE {"label"})

\* Mutant: the rounds are not counted.
DecideForEver(unmet, round, prev) == IF unmet = {} THEN "complete" ELSE "resume"
Decide(unmet, round, prev) ==
    IF unmet = {} THEN "complete"
    ELSE IF round >= MaxRounds \/ (unmet = prev /\ round >= 3) THEN "block" ELSE "resume"

\* A resumed agent is a new process with the session of the last one.
Resumed(r, unmet) ==
    [NoRun EXCEPT !.pc = "runs", !.round = (r.round % MaxRounds) + 1, !.unmet = unmet, !.pre = r.pre, !.tmp = TRUE]

\* A run that failed, or an observer that gets no answer, ends the loop.
Observe(s) ==
    LET r == sandbox[s]
        ended == [r EXCEPT !.pc = "ends", !.round = 0, !.unmet = {}, !.out = [kind |-> r.out.kind, next |-> ""]]
    IN
    /\ r.pc = "observe"
    /\ IF ~Observed \/ r.out.kind \in {"bad", "failure"} \/ r.cancelled
       THEN Move(s, ended) /\ UNCHANGED ghFaults
       ELSE \/ /\ Answers(s)
               /\ \E cur \in IF labels = {} THEN {""} ELSE labels :
                    Move(s, IF Decide(Missing(s, cur), r.round, r.unmet) = "resume" THEN Resumed(r, Missing(s, cur)) ELSE ended)
            \/ Faults(s) /\ Move(s, ended)
    /\ UNCHANGED <<labels, met, disturbed, edits>>

-----------------------------------------------------------------------------
(* The validation of the transition.                                       *)

matchStates(ls) == ls \cap Labels

\* Of some states, the first in the order of the workflow.
First(ls) ==
    LET i == CHOOSE n \in DOMAIN StateOrder : StateOrder[n] \in ls /\ \A m \in 1..n - 1 : StateOrder[m] \notin ls
    IN  StateOrder[i]

\* The first state that is not the current one, or else the first.
selectPrimary(states, current) ==
    IF states \ {current} # {} THEN First(states \ {current}) ELSE IF states # {} THEN First(states) ELSE ""

ResolveCurrent(pre, fallback) == IF matchStates(pre) = {} THEN fallback ELSE selectPrimary(matchStates(pre), fallback)

\* Mutant: the state "failed" is a transition like any other.
ClassifyFailed(pre, post, success, fallback) ==
    LET current == ResolveCurrent(pre, fallback) IN
    IF post = {current} THEN (IF success THEN "human" ELSE "retry")
    ELSE IF Cardinality(post) = 1 /\ post \subseteq Transitions[current] THEN "ok" ELSE "unexpected"
Classify(pre, post, success, fallback) ==
    LET current == ResolveCurrent(pre, fallback)
        states == matchStates(post)
    IN  IF "failed" \in states THEN "failed"
        ELSE IF states = {current} THEN (IF success THEN "human" ELSE "retry")
        ELSE IF Cardinality(states) = 1 /\ states \subseteq Transitions[current] THEN "ok" ELSE "unexpected"

\* The labels are read again and the run is closed.  Without the labels nothing
\* is validated.
Finalize(s) ==
    /\ sandbox[s].pc = "ends"
    /\ \E ok \in BOOLEAN :
         LET r == [sandbox[s] EXCEPT !.pc = "over", !.closed = TRUE, !.post = IF ok THEN labels ELSE {},
                      !.class = IF ok THEN Classify(sandbox[s].pre, labels, sandbox[s].out.kind \in {"none", "success"}, Trigger[s])
                                ELSE "none"]
         IN /\ IF ok THEN UNCHANGED ghFaults ELSE Faults(s)
            /\ Move(s, [r EXCEPT !.tmp = Remains(sandbox[s], r)])
    /\ UNCHANGED <<labels, met, disturbed, edits>>

SandStep(s) == ProcessExits(s) \/ Resolve(s) \/ Check(s) \/ List(s) \/ Edit(s) \/ Observe(s) \/ Finalize(s)
SandNext == (\E s \in Sandboxed : NewSession(s) \/ CancelRun(s) \/ SandStep(s)) \/ PersonMoves

\* Processes end (a worker's watchdog cancels the others) and calls of gh return.
SandFairness == \A s \in Sandboxed : WF_sandVars(SandStep(s))
SandSpec == SandInit /\ [][SandNext]_sandVars /\ SandFairness

-----------------------------------------------------------------------------
\* The issue carries exactly one status label, unless a writer was cut off from
\* the labels it replaces: its list failed, or another edit came between the
\* list and the edit (applyViaGH, staleStatusLabels).
OneStatusLabel == disturbed \/ Cardinality(labels) = 1

\* A recommendation and an approval of the validation mean what they say, for
\* a run that began with one status label: a human is called for exactly when
\* the run succeeded where it began, a transition is approved exactly when the
\* issue is in one state that may follow.
ValidationIsRight ==
    \A s \in Sandboxed : LET r == sandbox[s] IN
        r.class # "none" /\ Cardinality(r.pre) = 1 =>
            /\ (r.class = "human") <=> (r.post = r.pre /\ r.out.kind \in {"none", "success"} /\ r.post # {"failed"})
            /\ (r.class = "ok") <=> \E l \in Labels \ (r.pre \cup {"failed"}) : r.post = {l} /\ l \in Transitions[Trigger[s]]

\* Every run that is started ends, however often it is resumed, and leaves no
\* temporary files, whether it was closed before or after its process exited.
RunsEndClean == \A s \in Sandboxed : sandbox[s].pc # "idle" ~> sandbox[s].pc = "over" /\ ~sandbox[s].tmp

\* A run never takes the issue away from a state into which it was moved after
\* the run had been triggered.
NeverReverts == [][\A s \in Sandboxed : (sandbox[s].pc = "edit" /\ labels' # labels) => Trigger[s] \in labels]_sandVars
=============================================================================
