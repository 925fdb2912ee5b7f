----------------------------- MODULE TaskReaper -----------------------------
(***************************************************************************)
(* One level below TaskQueue's reaper: a pass of TaskReaper.runOnce, the   *)
(* retries of ReapStaleRunningTasks against a busy database and the        *)
(* task_reaped events the pass writes when it is over, while the workers   *)
(* keep beating and settling their rows.                                   *)
(***************************************************************************)
EXTENDS Integers, FiniteSets

CONSTANTS
    Tasks,     \* rows of the table, all running at first
    NoTask,
    Attempts,  \* UPDATEs of one candidate: delays 0, 5ms, 25ms, 125ms
    MaxErrors  \* bound: database errors the reaper meets

ASSUME ReaperAssumption ==
    /\ NoTask \notin Tasks
    /\ Attempts \in Nat \ {0}
    /\ MaxErrors \in Nat

VARIABLES
    status,   \* "running", "settled" by its worker or "reaped"
    silent,   \* rows whose heartbeat is older than the grace
    dead,     \* rows whose worker will never beat again
    pc,       \* "waiting" for the ticker, "picking" a candidate, "updating" it
    cand,     \* candidates still to be updated
    cur,      \* the candidate being updated
    tries,    \* attempts left for it
    lastErr,  \* the error of the candidate's attempts
    reaped,   \* rows ReapStaleRunningTasks will return
    events,   \* number of task_reaped events of each row
    errors    \* database errors so far

vars == <<status, silent, dead, pc, cand, cur, tries, lastErr, reaped, events, errors>>
pass == <<pc, cand, cur, tries, lastErr, reaped, errors>>

Init ==
    /\ status = [t \in Tasks |-> "running"]
    /\ silent = {} /\ dead = {}
    /\ pc = "waiting"
    /\ cand = {} /\ cur = NoTask /\ tries = 0 /\ lastErr = "nil" /\ reaped = {}
    /\ events = [t \in Tasks |-> 0]
    /\ errors = 0

-----------------------------------------------------------------------------
(* The workers and the clock.                                              *)

GraceElapses(t) ==
    /\ t \notin silent
    /\ silent' = silent \cup {t}
    /\ UNCHANGED <<status, dead, pass, events>>

Beat(t) ==
    /\ status[t] = "running" /\ t \notin dead
    /\ t \in silent
    /\ silent' = silent \ {t}
    /\ UNCHANGED <<status, dead, pass, events>>

Settle(t) ==
    /\ status[t] = "running" /\ t \notin dead
    /\ status' = [status EXCEPT ![t] = "settled"]
    /\ UNCHANGED <<silent, dead, pass, events>>

WorkerDies(t) ==
    /\ t \notin dead
    /\ dead' = dead \cup {t}
    /\ UNCHANGED <<status, silent, pass, events>>

-----------------------------------------------------------------------------
(* The pass.                                                               *)

SelectCandidatesFresh ==
    /\ pc = "waiting"
    /\ cand' = {t \in Tasks : status[t] = "running" /\ t \notin silent}
    /\ reaped' = {}
    /\ \/ /\ pc' = "picking"
          /\ UNCHANGED errors
       \/ /\ errors < MaxErrors
          /\ errors' = errors + 1
          /\ pc' = "waiting"
    /\ UNCHANGED <<status, silent, dead, cur, tries, lastErr, events>>

\* The ticker fires and the SELECT runs; an error of the SELECT ends the pass.
SelectCandidates ==
    /\ pc = "waiting"
    /\ cand' = {t \in Tasks : status[t] = "running" /\ t \in silent}
    /\ reaped' = {}
    /\ \/ /\ pc' = "picking"
          /\ UNCHANGED errors
       \/ /\ errors < MaxErrors
          /\ errors' = errors + 1
          /\ pc' = "waiting"
    /\ UNCHANGED <<status, silent, dead, cur, tries, lastErr, events>>

\* The next candidate, with fresh lastErr and attempts.
PickCandidate(t) ==
    /\ pc = "picking"
    /\ t \in cand
    /\ cur' = t
    /\ cand' = cand \ {t}
    /\ tries' = Attempts
    /\ lastErr' = "nil"
    /\ pc' = "updating"
    /\ UNCHANGED <<status, silent, dead, reaped, events, errors>>

\* After the attempts: an error, even one a later attempt overcame, ends the
\* pass with an error and no events.
AfterAttempts(err) ==
    IF err THEN pc' = "waiting" /\ cur' = NoTask /\ tries' = 0
           ELSE pc' = "picking" /\ cur' = NoTask /\ tries' = 0

UpdateCandidateBlind ==
    /\ pc = "updating"
    /\ status' = IF status[cur] = "running" THEN [status EXCEPT ![cur] = "reaped"] ELSE status
    /\ reaped' = IF lastErr = "nil" THEN reaped \cup {cur} ELSE reaped
    /\ AfterAttempts(lastErr # "nil")
    /\ UNCHANGED <<silent, dead, cand, lastErr, events, errors>>

UpdateCandidateAlways ==
    /\ pc = "updating"
    /\ status' = [status EXCEPT ![cur] = "reaped"]
    /\ reaped' = IF lastErr = "nil" THEN reaped \cup {cur} ELSE reaped
    /\ AfterAttempts(lastErr # "nil")
    /\ UNCHANGED <<silent, dead, cand, lastErr, events, errors>>

\* The UPDATE succeeds: the row is reaped if it is still running.  The error
\* of an earlier busy attempt is still in lastErr.
UpdateCandidate ==
    /\ pc = "updating"
    /\ status' = IF status[cur] = "running" THEN [status EXCEPT ![cur] = "reaped"] ELSE status
    /\ reaped' = IF status[cur] = "running" /\ lastErr = "nil" THEN reaped \cup {cur} ELSE reaped
    /\ AfterAttempts(lastErr # "nil")
    /\ UNCHANGED <<silent, dead, cand, lastErr, events, errors>>

UpdateFailsUncounted(busy) ==
    /\ pc = "updating"
    /\ errors < MaxErrors
    /\ errors' = errors + 1
    /\ lastErr' = "error"
    /\ IF busy
       THEN tries' = tries - 1 /\ UNCHANGED <<pc, cur>>
       ELSE AfterAttempts(TRUE)
    /\ UNCHANGED <<status, silent, dead, cand, reaped, events>>

\* The UPDATE fails: a busy database is tried again while attempts are left.
UpdateFails(busy) ==
    /\ pc = "updating"
    /\ errors < MaxErrors
    /\ errors' = errors + 1
    /\ lastErr' = "error"
    /\ IF busy /\ tries > 1
       THEN tries' = tries - 1 /\ UNCHANGED <<pc, cur>>
       ELSE AfterAttempts(TRUE)
    /\ UNCHANGED <<status, silent, dead, cand, reaped, events>>

\* No candidate is left: one event for every returned row, then the ticker.
LogReaped ==
    /\ pc = "picking"
    /\ cand = {}
    /\ events' = [t \in Tasks |-> IF t \in reaped THEN events[t] + 1 ELSE events[t]]
    /\ pc' = "waiting"
    /\ UNCHANGED <<status, silent, dead, cand, cur, tries, lastErr, reaped, errors>>

-----------------------------------------------------------------------------
Next ==
    \/ \E t \in Tasks : GraceElapses(t) \/ Beat(t) \/ Settle(t) \/ WorkerDies(t)
    \/ SelectCandidates
    \/ \E t \in Tasks : PickCandidate(t)
    \/ UpdateCandidate
    \/ \E busy \in BOOLEAN : UpdateFails(busy)
    \/ LogReaped

Spec == Init /\ [][Next]_vars

(***************************************************************************)
(* Time passes and the reaper's goroutine runs; workers need not.          *)
(***************************************************************************)
FairSpec ==
    /\ Spec
    /\ \A t \in Tasks : WF_vars(GraceElapses(t))
    /\ WF_vars(SelectCandidates) /\ WF_vars(\E t \in Tasks : PickCandidate(t))
    /\ WF_vars(UpdateCandidate) /\ WF_vars(LogReaped)

-----------------------------------------------------------------------------
\* Every variable keeps its shape; the retry loop never exceeds its delays.
TypeOK ==
    /\ status \in [Tasks -> {"running", "settled", "reaped"}]
    /\ silent \subseteq Tasks /\ dead \subseteq Tasks
    /\ pc \in {"waiting", "picking", "updating"}
    /\ cand \subseteq Tasks /\ reaped \subseteq Tasks
    /\ cur \in Tasks \cup {NoTask}
    /\ pc = "updating" => cur # NoTask
    /\ tries \in 0..Attempts
    /\ lastErr \in {"nil", "error"}
    /\ events \in [Tasks -> Nat]
    /\ errors \in 0..MaxErrors

\* The audit trail never claims a reap that did not happen: a task_reaped
\* event belongs to a row the reaper itself failed, and there is at most one
\* per row, although workers settle rows between the SELECT, the retries of
\* the UPDATE and the event.
EventsAreTrue == \A t \in Tasks : events[t] <= 1 /\ (events[t] = 1 => status[t] = "reaped")

\* A worker that settles its row while the reaper retries keeps its result.
SettledStays ==
    [][\A t \in Tasks : status[t] = "settled" => status'[t] = "settled"]_vars

\* A row whose worker is dead is reaped in the end, although a database
\* error ends a pass before all its candidates are updated.
DeadIsReaped ==
    \A t \in Tasks : t \in dead /\ status[t] = "running" ~> status[t] # "running"
=============================================================================
