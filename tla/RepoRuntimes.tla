---------------------------- MODULE RepoRuntimes ----------------------------
(***************************************************************************)
(* The runtime of a repository on the coordinator (poller, router, state   *)
(* machine) and the ways to change it: POST /repos/register, a reload of   *)
(* the configuration (HTTP, or the watcher of the directory), DELETE, and  *)
(* the start of the coordinator.  Each of them writes the registration and *)
(* the map of runtimes in several steps that no lock holds together.       *)
(* A configuration is a version; version 0 stands for none.                *)
(***************************************************************************)
EXTENDS Naturals

CONSTANTS
    Callers,       \* concurrent requests; "watcher" reloads on changes of the disk
    Versions,      \* valid configurations, positive numbers
    Serial,        \* TRUE when requests do not overlap
    MaxFailures,    \* bound: steps that fail
    MaxEdits,      \* bound: changes of the configuration on disk
    MaxCalls       \* bound: requests that are started

ASSUME RepoAssumption ==
    /\ Versions \subseteq Nat \ {0} /\ Versions # {} /\ Serial \in BOOLEAN
    /\ {MaxFailures, MaxEdits, MaxCalls} \subseteq Nat

VARIABLES
    record,      \* the registration in the database
    mapped,      \* the runtime in the map, 0 for none
    runs,        \* runtimes whose goroutines run
    version,     \* version[r]: the configuration runtime r was started with
    op,          \* per caller: what it does and where it is
    current,     \* the configuration that reloads are compared with
    notified,    \* the configuration of the notifier
    disk, armed, \* the directory, and whether the debounce timer runs
    stray,       \* a rollback could not write the record, and no runtime was started since
    oops, edits, calls

repoVars == <<record, mapped, runs, version, op, current, notified, disk, armed, stray, oops, edits, calls>>

NoCall == [pc |-> "idle", kind |-> "none", to |-> 0, prev |-> 0, undo |-> FALSE, before |-> 0]
NewCall(kind, pc, v) == [pc |-> pc, kind |-> kind, to |-> v, prev |-> record, undo |-> FALSE, before |-> mapped]
RuntimeIds == 1..(2 * MaxCalls + 2)
FreshRuntime == CHOOSE r \in RuntimeIds : version[r] = 0 /\ \A q \in RuntimeIds : q < r => version[q] # 0

\* The coordinator has started with the first version.
RepoInit ==
    /\ \E v \in Versions :
         /\ record = v /\ mapped = 1 /\ runs = {1} /\ version = [r \in RuntimeIds |-> IF r = 1 THEN v ELSE 0]
         /\ current = v /\ notified = v /\ disk = v
    /\ op = [c \in Callers |-> NoCall] /\ armed = FALSE /\ stray = FALSE /\ oops = 0 /\ edits = 0 /\ calls = 0

Free(c) == op[c].pc = "idle" /\ calls < MaxCalls /\ (Serial => \A d \in Callers : op[d].pc = "idle")
Goto(c, pc) == op' = [op EXCEPT ![c].pc = pc]
EndCall(c) == op' = [op EXCEPT ![c] = NoCall]
Fault == oops < MaxFailures /\ oops' = oops + 1

\* A configuration that loads and names this repository.
Loadable(v) == v \in Versions

\* HandleRegisterRepo and Reload: the previous record is read, ...
BeginRegister(c, v) ==
    /\ Free(c) /\ c # "watcher" /\ calls' = calls + 1
    /\ op' = [op EXCEPT ![c] = NewCall("register", "upsert", v)]
    /\ UNCHANGED <<stray, record, mapped, runs, version, current, notified, disk, armed, oops, edits>>

\* ... a configuration that does not load, names another repository or has bad
\* notifications is refused before anything is changed; ...
BeginReload(c) ==
    /\ Free(c) /\ calls' = calls + 1
    /\ c = "watcher" => armed
    /\ armed' = IF c = "watcher" THEN FALSE ELSE armed
    /\ op' = IF Loadable(disk)
               THEN [op EXCEPT ![c] = NewCall("reload", "upsert", disk)]
               ELSE op
    /\ UNCHANGED <<stray, record, mapped, runs, version, current, notified, disk, oops, edits>>

\* ... and the new one is written.
Upsert(c) ==
    /\ op[c].pc = "upsert" /\ record' = op[c].to /\ Goto(c, "precheck")
    /\ UNCHANGED <<stray, mapped, runs, version, current, notified, disk, armed, oops, edits, calls>>

-----------------------------------------------------------------------------
(* StartOrUpdate.                                                          *)

\* Mutant: a reload that fails leaves what it has written.
AfterFailureKept(c) == IF op[c].undo \/ op[c].kind = "reload" THEN "idle" ELSE "restore"

\* Where a caller goes when StartOrUpdate fails: it restores the record; when
\* that was for a rollback already, it gives up.
AfterFailure(c) == IF op[c].undo THEN "idle" ELSE "restore"

Failed(c) == op' = [op EXCEPT ![c] = IF AfterFailure(c) = "idle" THEN NoCall ELSE [@ EXCEPT !.pc = AfterFailure(c)]]

\* The reader is chosen and the repository is accessible; this comes first,
\* so that the old runtime is kept when it fails.
PreCheck(c) ==
    /\ op[c].pc = "precheck" /\ Goto(c, "stop")
    /\ UNCHANGED <<stray, record, mapped, runs, version, current, notified, disk, armed, oops, edits, calls>>

PreCheckFails(c) ==
    /\ op[c].pc = "precheck" /\ Fault /\ Failed(c)
    /\ UNCHANGED <<stray, record, mapped, runs, version, current, notified, disk, armed, edits, calls>>

\* stopRepo takes the runtime out of the map, releases its claims and cancels
\* it; the wait for its goroutines may time out.
StopRepo(c) ==
    /\ op[c].pc \in {"stop", "dropping"} /\ runs' = runs \ {mapped} /\ mapped' = 0
    /\ \/ oops' = oops /\ Goto(c, IF op[c].pc = "stop" THEN "start" ELSE "delete")
       \/ mapped # 0 /\ Fault /\ IF op[c].pc = "stop" THEN Failed(c) ELSE EndCall(c)
    /\ UNCHANGED <<stray, record, version, current, notified, disk, armed, edits, calls>>

\* The goroutines start and the runtime is put in the map.  A reload goes on
\* with the notifier and notes what it applied.
StartRuntime(c) ==
    /\ op[c].pc = "start"
    /\ version' = [version EXCEPT ![FreshRuntime] = op[c].to] /\ runs' = runs \cup {FreshRuntime} /\ mapped' = FreshRuntime
    /\ stray' = FALSE
    /\ IF op[c].kind = "reload" /\ ~op[c].undo THEN Goto(c, "apply") ELSE EndCall(c)
    /\ UNCHANGED <<record, current, notified, disk, armed, oops, edits, calls>>

ApplyReload(c) ==
    /\ op[c].pc = "apply" /\ notified' = op[c].to /\ current' = op[c].to /\ EndCall(c)
    /\ UNCHANGED <<stray, record, mapped, runs, version, disk, armed, oops, edits, calls>>

\* Mutant: a reload that fails restores the record only.
RestoreRecordOnly(c) ==
    /\ op[c].pc = "restore" /\ record' = op[c].prev /\ EndCall(c)
    /\ UNCHANGED <<stray, mapped, runs, version, current, notified, disk, armed, oops, edits, calls>>

\* A registration restores the record, or deletes it when there was none; a
\* reload also starts the previous runtime again, or deregisters.
Restore(c) ==
    /\ op[c].pc = "restore"
    /\ record' = IF op[c].kind = "reload" /\ op[c].prev = 0 THEN record ELSE op[c].prev
    /\ IF op[c].kind = "register" THEN EndCall(c)
       ELSE IF op[c].prev = 0 THEN Goto(c, "dropping")
       ELSE op' = [op EXCEPT ![c] = [@ EXCEPT !.pc = "precheck", !.to = op[c].prev, !.undo = TRUE]]
    /\ UNCHANGED <<stray, mapped, runs, version, current, notified, disk, armed, oops, edits, calls>>

-----------------------------------------------------------------------------

\* DELETE: stop, fail the pending tasks, delete the record.
BeginDrop(c) ==
    /\ Free(c) /\ c # "watcher" /\ calls' = calls + 1
    /\ op' = [op EXCEPT ![c] = NewCall("drop", "dropping", 0)]
    /\ UNCHANGED <<stray, record, mapped, runs, version, current, notified, disk, armed, oops, edits>>

DeleteRecord(c) ==
    /\ op[c].pc = "delete" /\ record' = 0 /\ EndCall(c)
    /\ UNCHANGED <<stray, mapped, runs, version, current, notified, disk, armed, oops, edits, calls>>

\* The database refuses a write, which ends the request: nothing has changed
\* yet, the record outlives the runtime, or the rollback is given up and the
\* old runtime goes on under the new record.
WriteFails(c) ==
    /\ \/ op[c].pc \in {"upsert", "delete"}
       \/ op[c].pc = "restore" /\ (op[c].kind = "register" \/ op[c].prev # 0)
    /\ Fault /\ EndCall(c) /\ stray' = (stray \/ op[c].pc = "restore")
    /\ UNCHANGED <<record, mapped, runs, version, current, notified, disk, armed, edits, calls>>

\* The directory changes: the watcher (re)starts its timer, also while a
\* reload is under way.
EditDisk(v) ==
    /\ edits < MaxEdits /\ edits' = edits + 1 /\ disk # v /\ disk' = v /\ armed' = TRUE
    /\ UNCHANGED <<stray, record, mapped, runs, version, op, current, notified, oops, calls>>

\* The coordinator dies and starts again: LoadExisting starts what is
\* recorded, the bootstrap then registers the directory in its place; a
\* directory that does not load keeps the coordinator from starting.
RestartCoordinator ==
    /\ Loadable(disk) /\ calls < MaxCalls /\ calls' = calls + 1
    /\ op' = [c \in Callers |-> NoCall] /\ armed' = FALSE
    /\ record' = disk /\ mapped' = FreshRuntime /\ runs' = {FreshRuntime} /\ version' = [version EXCEPT ![FreshRuntime] = disk]
    /\ current' = disk /\ notified' = disk /\ stray' = FALSE
    /\ UNCHANGED <<disk, oops, edits>>

RepoNext ==
    \/ RestartCoordinator
    \/ \E v \in Versions \cup {0} : EditDisk(v)
    \/ \E c \in Callers :
        \/ BeginReload(c) \/ BeginDrop(c) \/ Upsert(c) \/ PreCheck(c) \/ PreCheckFails(c) \/ StopRepo(c)
        \/ StartRuntime(c) \/ ApplyReload(c) \/ Restore(c) \/ DeleteRecord(c) \/ WriteFails(c)
        \/ \E v \in Versions : BeginRegister(c, v)

RepoSpec == RepoInit /\ [][RepoNext]_repoVars

-----------------------------------------------------------------------------
(* Properties, for requests that do not overlap.                           *)

Quiet == \A c \in Callers : op[c].pc = "idle"

\* What runs is what is registered: when no request is under way there is at
\* most the runtime of the map, and it runs the configuration of the record,
\* whichever steps failed, were rolled back or failed in the rollback, unless
\* that was the write of the previous record itself (StartOrUpdate,
\* rollbackRegistration, Deregister).
RunsWhatIsRegistered ==
    Serial /\ Quiet => runs \subseteq {mapped} /\ (mapped # 0 /\ ~stray => version[mapped] = record)

\* "applies it atomically. On any error the previous configuration is
\* restored" (Reload): a repository that had a runtime still has one when a
\* reload has failed once, even if the old one did not stop in time.
ReloadRestores ==
    [][\A c \in Callers : Serial /\ op[c].kind = "reload" /\ op[c].before # 0 /\ op'[c].pc = "idle" /\ oops' <= 1
            => mapped' # 0 \/ calls' > calls]_repoVars

\* "StartOrUpdate stops any existing runtime for rec.Repo and starts a fresh
\* one": there is one runtime of the repository at most.
OneRuntime == \A r, q \in runs : r = q
=============================================================================
