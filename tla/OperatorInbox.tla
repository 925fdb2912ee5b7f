---------------------------- MODULE OperatorInbox ----------------------------
(* The operator's incidents: the coordinator's anomaly detector writes each  *)
(* alert to the event log and as a file to an inbox directory, and           *)
(* `workbuddy operator-watch` claims the files one at a time by renaming     *)
(* them and hands each to a Claude session.  Detector and watchers are       *)
(* separate processes that share nothing but the directory.                  *)
(*                                                                           *)
(* One repository with one task, one cached issue and one worker stands for  *)
(* the database, so an alert is its kind and the second it was raised.  The  *)
(* kill switches of the watcher (the paused file, operator.enabled) are one  *)
(* flag; --dry-run, which claims nothing, is left out.                       *)
EXTENDS Naturals, FiniteSets, Sequences

CONSTANTS
    Watchers,           \* operator-watch processes
    leaseExpiredGrace, taskStuckAfter, missingLabelAfter, pollInterval,
    heartbeatStaleAfter,
    DedupWindow,
    RecentAlerts,       \* how many alerts the duplicate check reads
    MaxTime, MaxChanges, MaxBoots,
    MaxTroubles         \* crashes, pauses and failing calls together

Rules == {"lease_expired", "task_stuck", "missing_label", "cache_stale",
          "coordinator_restart_gap", "worker_missing"}
Incidents == [kind : Rules, ts : 0 .. MaxTime]
NoIncident == [kind |-> "none", ts |-> 0]

(* The duplicate check reads at least as many alerts as one pass can raise.  *)
ASSUME InboxAssumption ==
    /\ MaxTime \in Nat /\ DedupWindow \in Nat
    /\ RecentAlerts \in Nat /\ RecentAlerts >= Cardinality(Rules)

VARIABLES
    now,
    world,      \* the rows the detector reads, and the codex processes
    alertLog,   \* alert events, oldest first
    detector,   \* [pc, startup, queue, since]
    box,        \* [inbox, processing, processed, failed: sets of incidents]
    watch,      \* watcher -> [pc, file]
    paused,
    handed,     \* incidents handed to a session so far
    recorded,   \* incidents with an operator_invoked event
    budget      \* [changes, boots, troubles] used
inboxVars == <<now, world, alertLog, detector, box, watch, paused, handed, recorded, budget>>

Spend(what, max) == budget[what] < max /\ budget' = [budget EXCEPT ![what] = @ + 1]

-----------------------------------------------------------------------------
(* The rules of detectRepoAlerts.                                            *)

(* A status label of a state an agent works in.                              *)
isIntermediateState(label) == label \notin {"none", "status:blocked", "status:done", "status:failed"}

Raised(kind, startup) ==
    CASE kind = "lease_expired" ->
            world.task = "running" /\ now > world.lease + leaseExpiredGrace /\ ~world.codex
      [] kind = "task_stuck" ->
            /\ world.task = "pending" /\ now - world.created > taskStuckAfter
            /\ world.worker # "online"
      [] kind = "missing_label" ->
            world.label = "none" /\ now - world.updated > missingLabelAfter
      [] kind = "cache_stale" -> now - world.updated > 2 * pollInterval
      [] kind = "coordinator_restart_gap" ->
            startup /\ isIntermediateState(world.label) /\ world.task = "none"
      [] kind = "worker_missing" ->
            world.worker = "online" /\ now - world.heartbeat > heartbeatStaleAfter

(* What one rule finds now, and what a pass finds, rule by rule.             *)
Found(kind, startup) == IF Raised(kind, startup) THEN <<[kind |-> kind, ts |-> now]>> ELSE <<>>
Detected(startup) ==
    Found("lease_expired", startup) \o Found("task_stuck", startup) \o Found("missing_label", startup)
    \o Found("cache_stale", startup) \o Found("coordinator_restart_gap", startup) \o Found("worker_missing", startup)

(* The rows change under the detector, which never writes them.              *)
WorldChanges ==
    /\ Spend("changes", MaxChanges)
    /\ \/ world' = [world EXCEPT !.task = "pending", !.created = now]
       \/ world' = [world EXCEPT !.task = "running", !.lease = now, !.codex = FALSE]
       \/ world' = [world EXCEPT !.task = "running", !.lease = now, !.codex = TRUE]
       \/ \E l \in {"status:developing", "status:blocked"} :
             world' = [world EXCEPT !.label = l, !.updated = now]
       \/ world' = [world EXCEPT !.worker = "offline"]
       \/ world' = [world EXCEPT !.worker = "online", !.heartbeat = now]
    /\ UNCHANGED <<now, alertLog, detector, box, watch, paused, handed, recorded>>

TimePasses ==
    /\ now < MaxTime
    /\ now' = now + 1
    /\ UNCHANGED <<world, alertLog, detector, box, watch, paused, handed, recorded, budget>>

-----------------------------------------------------------------------------
(* The detector, a goroutine of the coordinator.                             *)

Others == UNCHANGED <<now, world, watch, paused, handed, recorded>>
Resting(d) == [d EXCEPT !.pc = "idle", !.startup = FALSE, !.queue = <<>>]

(* The coordinator starts, again and again; the first pass is the startup    *)
(* pass.                                                                     *)
BootDetector ==
    /\ Spend("boots", MaxBoots)
    /\ detector' = [pc |-> "idle", startup |-> TRUE, queue |-> <<>>, since |-> Len(alertLog)]
    /\ UNCHANGED <<alertLog, box>>
    /\ Others

(* runPass reads everything first and emits afterwards, one by one.          *)
RunPass ==
    /\ detector.pc = "idle"
    /\ LET found == Detected(detector.startup) IN
       detector' = IF found = <<>> THEN Resting(detector)
                   ELSE [detector EXCEPT !.pc = "emit", !.queue = found]
    /\ UNCHANGED <<alertLog, box, budget>>
    /\ Others

isDuplicateSinceStart(alert) ==
    \E i \in detector.since + 1 .. Len(alertLog) :
        alertLog[i].kind = alert.kind /\ alertLog[i].ts + DedupWindow >= alert.ts

(* The last RecentAlerts alert events are compared, whoever wrote them.      *)
isDuplicate(alert) ==
    \E i \in 1 .. Len(alertLog) :
        /\ i + RecentAlerts > Len(alertLog)
        /\ alertLog[i].kind = alert.kind
        /\ alertLog[i].ts + DedupWindow >= alert.ts

After(d) == IF Len(d.queue) = 1 THEN Resting(d)
            ELSE [d EXCEPT !.pc = "emit", !.queue = Tail(@)]

Emit ==
    /\ detector.pc = "emit"
    /\ LET alert == Head(detector.queue) IN
       IF isDuplicate(alert)
       THEN detector' = After(detector) /\ UNCHANGED alertLog
       ELSE /\ alertLog' = Append(alertLog, alert)
            /\ detector' = [detector EXCEPT !.pc = "write"]
    /\ UNCHANGED <<box, budget>>
    /\ Others

(* The file exists, and can be claimed, before its mode is set.              *)
WriteInbox ==
    /\ detector.pc = "write"
    /\ box' = [box EXCEPT !.inbox = @ \cup {Head(detector.queue)}]
    /\ detector' = [detector EXCEPT !.pc = "chmod"]
    /\ UNCHANGED <<alertLog, budget>>
    /\ Others

(* A file that is no longer there is an error, and an error ends the         *)
(* detector for good.                                                        *)
ChmodInbox ==
    /\ detector.pc = "chmod"
    /\ detector' = IF Head(detector.queue) \in box.inbox THEN After(detector)
                   ELSE [Resting(detector) EXCEPT !.pc = "ended"]
    /\ UNCHANGED <<alertLog, box, budget>>
    /\ Others

(* So is any failing read, insert or write.                                  *)
DetectorFails ==
    /\ detector.pc \in {"idle", "emit", "write", "chmod"}
    /\ Spend("troubles", MaxTroubles)
    /\ detector' = [Resting(detector) EXCEPT !.pc = "failed"]
    /\ UNCHANGED <<alertLog, box>>
    /\ Others

-----------------------------------------------------------------------------
(* operator-watch.                                                           *)

Rest == UNCHANGED <<now, world, alertLog, detector>>
Down == [pc |-> "down", file |-> NoIncident]

(* At startup every claimed file is taken for the remains of a crash.        *)
recoverProcessingFilesAgain(b) == [b EXCEPT !.inbox = @ \cup b.processing, !.processing = {}]
recoverProcessingFilesNever(b) == b
recoverProcessingFiles(b) == [b EXCEPT !.failed = @ \cup b.processing, !.processing = {}]

StartWatch(w) ==
    /\ watch[w].pc = "down"
    /\ box' = recoverProcessingFiles(box)
    /\ watch' = [watch EXCEPT ![w] = [pc |-> "scan", file |-> NoIncident]]
    /\ UNCHANGED <<paused, handed, recorded, budget>>
    /\ Rest

(* Names begin with the time, so the first in order is the oldest.           *)
Pending == {a \in box.inbox : \A b \in box.inbox : a.ts <= b.ts}

(* The rename is the claim; a file another watcher took is skipped.          *)
ClaimIncident(w) ==
    /\ watch[w].pc = "scan"
    /\ ~paused
    /\ \E a \in Pending :
          /\ box' = [box EXCEPT !.inbox = @ \ {a}, !.processing = @ \cup {a}]
          /\ watch' = [watch EXCEPT ![w] = [pc |-> "run", file |-> a]]
          /\ handed' = handed \cup {a}
    /\ UNCHANGED <<paused, recorded, budget>>
    /\ Rest

(* How a session ends: its exit code, the timeout, or no start at all.       *)
Outcomes == {"exit 0", "exit 1", "timeout", "error"}
DirectoryFor(outcome) == IF outcome = "exit 0" THEN "processed" ELSE "failed"

(* The file is moved and the invocation recorded.  When the file is gone the *)
(* service ends instead.                                                     *)
SessionEnds(w, outcome) ==
    /\ watch[w].pc = "run"
    /\ LET a == watch[w].file
           to == DirectoryFor(outcome)
       IN
       IF a \in box.processing
       THEN /\ box' = [box EXCEPT !.processing = @ \ {a}, ![to] = @ \cup {a}]
            /\ recorded' = recorded \cup {a}
            /\ watch' = [watch EXCEPT ![w] = [pc |-> "scan", file |-> NoIncident]]
       ELSE /\ watch' = [watch EXCEPT ![w] = Down]
            /\ UNCHANGED <<box, recorded>>
    /\ UNCHANGED <<paused, handed, budget>>
    /\ Rest

WatchCrashes(w) ==
    /\ watch[w].pc # "down"
    /\ Spend("troubles", MaxTroubles)
    /\ watch' = [watch EXCEPT ![w] = Down]
    /\ UNCHANGED <<box, paused, handed, recorded>>
    /\ Rest

Pause ==
    /\ Spend("troubles", MaxTroubles)
    /\ paused' = ~paused
    /\ UNCHANGED <<box, watch, handed, recorded>>
    /\ Rest

-----------------------------------------------------------------------------
InboxInit ==
    /\ now = 0
    /\ world = [task |-> "none", created |-> 0, lease |-> 0, codex |-> FALSE,
                label |-> "none", updated |-> 0, worker |-> "online", heartbeat |-> 0]
    /\ alertLog = <<>>
    /\ detector = [pc |-> "off", startup |-> TRUE, queue |-> <<>>, since |-> 0]
    /\ box = [inbox |-> {}, processing |-> {}, processed |-> {}, failed |-> {}]
    /\ watch = [w \in Watchers |-> Down]
    /\ paused = FALSE /\ handed = {} /\ recorded = {}
    /\ budget = [changes |-> 0, boots |-> 0, troubles |-> 0]

DetectorNext == RunPass \/ Emit \/ WriteInbox \/ ChmodInbox
WatchNext(w) == ClaimIncident(w) \/ \E outcome \in Outcomes : SessionEnds(w, outcome)

InboxNext ==
    \/ WorldChanges \/ TimePasses
    \/ BootDetector \/ DetectorNext \/ DetectorFails
    \/ \E w \in Watchers : StartWatch(w) \/ WatchNext(w) \/ WatchCrashes(w)
    \/ Pause

(* Goroutines and loops go on, a session ends at its timeout at the latest,  *)
(* and whoever runs operator-watch starts it again.                          *)
InboxFairness ==
    /\ WF_inboxVars(DetectorNext)
    /\ \A w \in Watchers : WF_inboxVars(StartWatch(w)) /\ WF_inboxVars(WatchNext(w))

InboxSpec == InboxInit /\ [][InboxNext]_inboxVars /\ InboxFairness

-----------------------------------------------------------------------------
(* Files, watchers and histories keep their shapes.                          *)
InboxTypeOK ==
    /\ now \in 0 .. MaxTime
    /\ box \in [{"inbox", "processing", "processed", "failed"} -> SUBSET Incidents]
    /\ watch \in [Watchers -> [pc : {"down", "scan", "run"}, file : Incidents \cup {NoIncident}]]
    /\ handed \subseteq Incidents /\ recorded \subseteq handed

(* Two alerts of one kind about one resource are further apart than the      *)
(* dedup window, also when the coordinator restarted in between (detector.go *)
(* isDuplicate; the window must not see more alerts than the check reads).   *)
AlertsAreSpaced ==
    \A i, j \in 1 .. Len(alertLog) :
        i < j /\ alertLog[i].kind = alertLog[j].kind
            => alertLog[j].ts > alertLog[i].ts + DedupWindow

(* No incident is handed to a session twice: not by two watchers, and not    *)
(* after a crash in the middle of the first (watch.go processIncident,       *)
(* recoverProcessingFiles).                                                  *)
HandedOnce ==
    [][\A w \in Watchers :
          watch[w].pc # "run" /\ watch'[w].pc = "run"
              => watch'[w].file \notin handed]_inboxVars

(* Unless dispatch stays paused, every file of the inbox ends up processed   *)
(* or failed, whatever crashes (watch.go Run).                               *)
IncidentsEnd == <>[]~paused => []<>(box.inbox \cup box.processing = {})

(* The detector goes on scanning unless a call of its own fails (AC-046-1 of *)
(* project-index.yaml: it "runs a periodic scan on operator.check_interval").*)
(* A watcher that claims the file between its creation and its chmod ends it.*)
DetectorGoesOn == detector.pc # "ended"

(* Every attempted invocation is recorded (AC-046-8); one cut short by a     *)
(* crash is not.                                                             *)
InvocationsAreRecorded ==
    \A a \in handed : a \in recorded \/ \E w \in Watchers : watch[w].file = a
=============================================================================
