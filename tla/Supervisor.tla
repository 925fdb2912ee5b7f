----------------------------- MODULE Supervisor -----------------------------
(***************************************************************************)
(* The agent supervisor of a worker host and the sessions that use it.     *)
(*                                                                         *)
(* The supervisor starts agents as processes of their own session, keeps   *)
(* one row per agent in SQLite and one entry in memory, and serves start,  *)
(* status, cancel and event streams over a unix socket.  Agents outlive    *)
(* it: after a restart it compares pid and start time with /proc.  A       *)
(* session of the worker starts an agent, follows its output and asks for  *)
(* the exit code in the end.                                               *)
(*                                                                         *)
(* An exit code is "ok" (0) or "bad" (anything else, also the -1 that      *)
(* stands for unknown and for a signal).                                   *)
(***************************************************************************)
EXTENDS Naturals

CONSTANTS
    Agents,        \* agent ids, each the agent of one session
    MaxLines,      \* bound: lines an agent prints
    MaxCrashes,    \* bound: crashes of the supervisor
    MaxBoots,      \* bound: restarts of the worker
    MaxReadErrors      \* bound: failures of SQLite writes and of reads of /proc

ASSUME SupAssumption ==
    /\ MaxLines \in Nat /\ MaxCrashes \in Nat /\ MaxBoots \in Nat /\ MaxReadErrors \in Nat

Codes   == {"ok", "bad"}
NoAgent == "absent"

VARIABLES
    up,        \* the supervisor process runs
    proc,      \* the operating system's process: "none", "alive" or its exit code
    reused,    \* its pid belongs to another process now
    ticks,     \* the start time of the process was read, else 0 is stored
    row,       \* the agents table: absent, "running" or an exit code
    mem,       \* the agents map: absent, "owned", "watched" or an exit code
    waiter,    \* goroutine that waits for the exit: where it is
    grace,     \* a cancel has sent SIGTERM and waits
    out,       \* [lines, part]: complete lines of the stdout file, an unfinished one
    sess,      \* the session of the worker: step, read position, result
    known,     \* the worker has stored the agent id with its task
    budget     \* what is left of the bounds

supVars == <<up, proc, reused, ticks, row, mem, waiter, grace, out, sess, known, budget>>

\* Reading: the stream is open.  eof: the end of the file was seen and the
\* status not yet asked for.  closed: the stream ended.  broken: it was cut.
Steps   == {"idle", "starting", "reading", "eof", "closed", "broken", "done"}
Session == [step: Steps, resumed: BOOLEAN, pos: 0..MaxLines, half: BOOLEAN,
            result: {"none", "infra", "timeout"} \cup Codes]
Fresh   == [step |-> "idle", resumed |-> FALSE, pos |-> 0, half |-> FALSE, result |-> "none"]

SupInit ==
    /\ up = TRUE
    /\ proc = [a \in Agents |-> "none"] /\ reused = [a \in Agents |-> FALSE]
    /\ ticks = [a \in Agents |-> FALSE]
    /\ row = [a \in Agents |-> NoAgent] /\ mem = [a \in Agents |-> NoAgent]
    /\ waiter = [a \in Agents |-> "none"] /\ grace = [a \in Agents |-> FALSE]
    /\ out = [a \in Agents |-> [lines |-> 0, part |-> FALSE]]
    /\ sess = [a \in Agents |-> Fresh] /\ known = [a \in Agents |-> FALSE]
    /\ budget = [crash |-> MaxCrashes, boot |-> MaxBoots, error |-> MaxReadErrors]

Spend(what) == budget[what] > 0 /\ budget' = [budget EXCEPT ![what] = @ - 1]

\* A write or read that may fail; the code goes on in both cases.
Try(bad) == IF bad THEN Spend("error") ELSE UNCHANGED budget

Step(a, s)  == sess' = [sess EXCEPT ![a].step = s]
Ends(a, r)  == sess' = [sess EXCEPT ![a] = [sess[a] EXCEPT !.step = "done", !.result = r]]
Exited(a)   == mem[a] \in Codes

\* GET /agents/:id: no answer, 404, running, or the exit code.
Status(a) ==
    IF ~up THEN "down"
    ELSE IF mem[a] \in {"owned", "watched"} THEN "running" ELSE mem[a]

-----------------------------------------------------------------------------
(* The process and the kernel.                                             *)

\* The agent writes to its stdout file: a line, or the first part of one.
Prints(a) ==
    /\ proc[a] = "alive"
    /\ \/ out[a].lines < MaxLines /\ out' = [out EXCEPT ![a] = [lines |-> out[a].lines + 1, part |-> FALSE]]
       \/ out[a].lines < MaxLines /\ ~out[a].part /\ out' = [out EXCEPT ![a].part = TRUE]
    /\ UNCHANGED <<up, proc, reused, ticks, row, mem, waiter, grace, sess, known, budget>>

ProcExits(a, code) ==
    /\ proc[a] = "alive"
    /\ proc' = [proc EXCEPT ![a] = code]
    /\ UNCHANGED <<up, reused, ticks, row, mem, waiter, grace, out, sess, known, budget>>

\* The pid of a process that was waited for is given to another one.
PidReused(a) ==
    /\ proc[a] \in Codes /\ waiter[a] \notin {"start", "wait"} /\ ~reused[a]
    /\ reused' = [reused EXCEPT ![a] = TRUE]
    /\ UNCHANGED <<up, proc, ticks, row, mem, waiter, grace, out, sess, known, budget>>

\* /proc/<pid>/stat has the start time that was stored.
PidIsAlive(a) == proc[a] = "alive" /\ ticks[a]

-----------------------------------------------------------------------------
(* Starting an agent.                                                      *)

\* The session posts to /agents and the process starts.  A start time that
\* cannot be read is stored as 0.
Spawn(a, unread) ==
    /\ sess[a].step = "idle" /\ sess[a].result = "none" /\ proc[a] = "none" /\ up
    /\ proc' = [proc EXCEPT ![a] = "alive"]
    /\ ticks' = [ticks EXCEPT ![a] = ~unread]
    /\ waiter' = [waiter EXCEPT ![a] = "start"]
    /\ Step(a, "starting") /\ Try(unread)
    /\ UNCHANGED <<up, reused, row, mem, grace, out, known>>

\* No supervisor, a binary that is not runnable, or no answer before the
\* timeout, while the handler goes on: an infrastructure failure.
StartFails(a) ==
    /\ \/ sess[a].step = "idle" /\ sess[a].result = "none" /\ proc[a] = "none"
       \/ sess[a].step = "starting"
    /\ Ends(a, "infra")
    /\ UNCHANGED <<up, proc, reused, ticks, row, mem, waiter, grace, out, known, budget>>

\* The row is inserted, the agent enters the map and a goroutine waits for it.
Persist(a) ==
    /\ up /\ waiter[a] = "start"
    /\ row' = [row EXCEPT ![a] = "running"]
    /\ mem' = [mem EXCEPT ![a] = "owned"]
    /\ waiter' = [waiter EXCEPT ![a] = "wait"]
    /\ UNCHANGED <<up, proc, reused, ticks, grace, out, sess, known, budget>>

\* The insert fails: the process is killed and the caller gets an error.
PersistFails(a) ==
    /\ up /\ waiter[a] = "start"
    /\ proc' = [proc EXCEPT ![a] = IF @ = "alive" THEN "bad" ELSE @]
    /\ waiter' = [waiter EXCEPT ![a] = "none"]
    /\ IF sess[a].step = "starting" THEN Ends(a, "infra") ELSE UNCHANGED sess
    /\ Spend("error")
    /\ UNCHANGED <<up, reused, ticks, row, mem, grace, out, known>>

\* The answer arrives; the hook stores the agent id, the stream is opened.
Attach(a) ==
    /\ sess[a].step = "starting" /\ up /\ mem[a] # NoAgent
    /\ Step(a, "reading")
    /\ known' = [known EXCEPT ![a] = TRUE]
    /\ UNCHANGED <<up, proc, reused, ticks, row, mem, waiter, grace, out, budget>>

-----------------------------------------------------------------------------
(* Noticing the exit.                                                      *)

\* cmd.Wait returns for a child; for an agent taken over after a restart the
\* ticker looks into /proc, where a failed read counts as gone.
Wait(a) ==
    /\ up /\ waiter[a] = "wait" /\ proc[a] \in Codes
    /\ waiter' = [waiter EXCEPT ![a] = proc[a]]
    /\ UNCHANGED <<up, proc, reused, ticks, row, mem, grace, out, sess, known, budget>>

WatchRecovered(a, unread) ==
    /\ up /\ waiter[a] = "poll"
    /\ unread \/ ~PidIsAlive(a)
    /\ waiter' = [waiter EXCEPT ![a] = "bad"]
    /\ Try(unread)
    /\ UNCHANGED <<up, proc, reused, ticks, row, mem, grace, out, sess, known>>

\* updateAgentExit, whose error is ignored.
RecordExit(a, bad) ==
    /\ up /\ waiter[a] \in Codes
    /\ row' = IF bad THEN row ELSE [row EXCEPT ![a] = waiter[a]]
    /\ waiter' = [waiter EXCEPT ![a] = IF @ = "ok" THEN "mark-ok" ELSE "mark-bad"]
    /\ Try(bad)
    /\ UNCHANGED <<up, proc, reused, ticks, mem, grace, out, sess, known>>

MarkExited(a) ==
    /\ up /\ waiter[a] \in {"mark-ok", "mark-bad"}
    /\ mem' = [mem EXCEPT ![a] = IF waiter[a] = "mark-ok" THEN "ok" ELSE "bad"]
    /\ waiter' = [waiter EXCEPT ![a] = "none"]
    /\ UNCHANGED <<up, proc, reused, ticks, row, grace, out, sess, known, budget>>

-----------------------------------------------------------------------------
(* Cancelling: SIGTERM, the grace period, SIGKILL.                         *)

\* The session's context ends (timeout, shutdown of the worker).  Its stream
\* fails and it returns; the goroutine that cancels the agent races with the
\* return and may find the session done.
TimesOut(a, cancels) ==
    /\ sess[a].step \in {"reading", "eof"} /\ ~sess[a].resumed
    /\ Ends(a, IF Status(a) \in {"down", NoAgent} THEN "infra" ELSE "timeout")
    /\ grace' = IF cancels /\ Status(a) = "running" THEN [grace EXCEPT ![a] = TRUE] ELSE grace
    /\ UNCHANGED <<up, proc, reused, ticks, row, mem, waiter, out, known, budget>>

\* Mutant: cancel sends SIGTERM only.
GraceEndsWithoutKill(a) ==
    /\ up /\ grace[a]
    /\ grace' = [grace EXCEPT ![a] = FALSE]
    /\ UNCHANGED <<up, proc, reused, ticks, row, mem, waiter, out, sess, known, budget>>

\* The grace period is over, or the exit was noticed before: then no kill.
GraceEnds(a) ==
    /\ up /\ grace[a]
    /\ grace' = [grace EXCEPT ![a] = FALSE]
    /\ proc' = [proc EXCEPT ![a] = IF ~Exited(a) /\ @ = "alive" THEN "bad" ELSE @]
    /\ UNCHANGED <<up, reused, ticks, row, mem, waiter, out, sess, known, budget>>

-----------------------------------------------------------------------------
(* The event stream and what the session makes of it.                      *)

\* ReadString returns a complete line, which is sent on.
StreamLine(a) ==
    /\ up /\ sess[a].step = "reading" /\ sess[a].pos < out[a].lines
    /\ sess' = [sess EXCEPT ![a] = [sess[a] EXCEPT !.pos = sess[a].pos + 1, !.half = FALSE]]
    /\ UNCHANGED <<up, proc, reused, ticks, row, mem, waiter, grace, out, known, budget>>

\* At the end of the file the reader has also consumed the unfinished line.
StreamEOF(a) ==
    /\ up /\ sess[a].step = "reading" /\ sess[a].pos >= out[a].lines
    /\ sess' = [sess EXCEPT ![a] = [sess[a] EXCEPT !.step = "eof", !.half = sess[a].half \/ out[a].part]]
    /\ UNCHANGED <<up, proc, reused, ticks, row, mem, waiter, grace, out, known, budget>>

\* Only then is the status read: the stream is closed or tried again.
StreamChecks(a) ==
    /\ up /\ sess[a].step = "eof"
    /\ Step(a, IF Exited(a) THEN "closed" ELSE "reading")
    /\ UNCHANGED <<up, proc, reused, ticks, row, mem, waiter, grace, out, known, budget>>

\* Run asks for the status.  An agent that still runs has no exit code and
\* counts as 0; a stream that was cut is an infrastructure failure.
RunResult(a) ==
    IF Status(a) \in {"down", NoAgent} \/ sess[a].step = "broken" THEN "infra"
    ELSE IF Status(a) = "running" THEN "ok" ELSE Status(a)

SessionEnds(a) ==
    /\ ~sess[a].resumed /\ sess[a].step \in {"closed", "broken"}
    /\ Ends(a, RunResult(a))
    /\ UNCHANGED <<up, proc, reused, ticks, row, mem, waiter, grace, out, known, budget>>

\* OnExited with the code, OnFailed for an agent the supervisor has not got.
Outcome(a) == IF Status(a) = NoAgent THEN "bad" ELSE Status(a)

\* A worker that boots finds the task with the stored agent id: it finishes
\* the task of an agent that has exited and follows one that runs, from an
\* offset counted in its own events file, which other events went into too.
Resume(a, from) ==
    /\ sess[a].step = "idle" /\ known[a] /\ sess[a].result = "none" /\ Status(a) # "down"
    /\ sess' = [sess EXCEPT ![a] =
                  IF Status(a) = "running"
                  THEN [Fresh EXCEPT !.step = "reading", !.resumed = TRUE, !.pos = from]
                  ELSE [Fresh EXCEPT !.step = "done", !.resumed = TRUE, !.result = Outcome(a)]]
    /\ UNCHANGED <<up, proc, reused, ticks, row, mem, waiter, grace, out, known, budget>>

\* The resumed stream has ended.  Only an agent that has exited, or one that
\* the supervisor does not know, ends the task; else the next boot tries again.
ResumeEnds(a) ==
    /\ sess[a].resumed /\ sess[a].step \in {"closed", "broken"}
    /\ sess' = [sess EXCEPT ![a] =
                  IF sess[a].step = "closed" /\ Status(a) \notin {"down", "running"}
                  THEN [sess[a] EXCEPT !.step = "done", !.result = Outcome(a)]
                  ELSE Fresh]
    /\ UNCHANGED <<up, proc, reused, ticks, row, mem, waiter, grace, out, known, budget>>

-----------------------------------------------------------------------------
(* Restarts.                                                               *)

\* The worker dies: its session is gone, its agent is not.
WorkerComesUp(a) ==
    /\ Spend("boot")
    /\ sess[a].step \notin {"idle", "done"}
    /\ sess' = [sess EXCEPT ![a] = IF known[a] THEN Fresh ELSE [Fresh EXCEPT !.step = "done", !.result = "infra"]]
    /\ UNCHANGED <<up, proc, reused, ticks, row, mem, waiter, grace, out, known>>

\* The supervisor dies: memory, goroutines, pending kills and connections go.
SupCrash ==
    /\ up /\ Spend("crash")
    /\ up' = FALSE
    /\ mem' = [a \in Agents |-> NoAgent] /\ waiter' = [a \in Agents |-> "none"]
    /\ grace' = [a \in Agents |-> FALSE]
    /\ sess' = [a \in Agents |-> IF sess[a].step \in {"starting", "reading", "eof"}
                                 THEN [sess[a] EXCEPT !.step = "broken"] ELSE sess[a]]
    /\ UNCHANGED <<proc, reused, ticks, row, out, known>>

\* Mutant: a process that is gone is recovered with the code of a zero value.
RecoveredAsZero(a, unread) ==
    IF row[a] # "running" THEN row[a]
    ELSE IF PidIsAlive(a) /\ ~unread THEN "running" ELSE "ok"

\* Mutant: recovery judges every row by its process.
RecoveredAnew(a, unread) ==
    IF row[a] = NoAgent THEN NoAgent
    ELSE IF PidIsAlive(a) /\ ~unread THEN "running" ELSE "bad"

\* What recovery makes of a row: an exit code is kept, a process that is gone
\* has an unknown code, one that lives is watched.
Recovered(a, unread) ==
    IF row[a] # "running" THEN row[a]
    ELSE IF PidIsAlive(a) /\ ~unread THEN "running" ELSE "bad"

\* Mutant: an agent that lives is entered without a watcher.
RecoverFromDBUnwatched(unread) ==
    /\ ~up
    /\ up' = TRUE
    /\ row' = [a \in Agents |-> Recovered(a, unread)]
    /\ mem' = [a \in Agents |-> IF Recovered(a, unread) = "running" THEN "watched" ELSE Recovered(a, unread)]
    /\ waiter' = [a \in Agents |-> "none"]
    /\ Try(unread)
    /\ UNCHANGED <<proc, reused, ticks, grace, out, sess, known>>

RecoverFromDB(unread) ==
    /\ ~up
    /\ up' = TRUE
    /\ row' = [a \in Agents |-> Recovered(a, unread)]
    /\ mem' = [a \in Agents |-> IF Recovered(a, unread) = "running" THEN "watched" ELSE Recovered(a, unread)]
    /\ waiter' = [a \in Agents |-> IF Recovered(a, unread) = "running" THEN "poll" ELSE "none"]
    /\ Try(unread)
    /\ UNCHANGED <<proc, reused, ticks, grace, out, sess, known>>

-----------------------------------------------------------------------------
SupNext ==
    \/ \E a \in Agents :
          \/ Prints(a) \/ PidReused(a) \/ StartFails(a) \/ Persist(a) \/ PersistFails(a)
          \/ Attach(a) \/ Wait(a) \/ MarkExited(a) \/ GraceEnds(a)
          \/ StreamLine(a) \/ StreamEOF(a) \/ StreamChecks(a) \/ SessionEnds(a)
          \/ ResumeEnds(a) \/ WorkerComesUp(a)
    \/ \E a \in Agents, code \in Codes : ProcExits(a, code)
    \/ \E a \in Agents, b \in BOOLEAN :
          Spawn(a, b) \/ WatchRecovered(a, b) \/ RecordExit(a, b) \/ TimesOut(a, b)
    \/ \E a \in Agents, n \in 0..MaxLines : Resume(a, n)
    \/ SupCrash
    \/ \E b \in BOOLEAN : RecoverFromDB(b)

\* The supervisor is restarted by its service manager, its goroutines go on.
\* No agent need exit and no session need time out.
Notices(a) == Wait(a) \/ MarkExited(a) \/ \E b \in BOOLEAN : WatchRecovered(a, b) \/ RecordExit(a, b)

SupFairness ==
    /\ WF_supVars(\E b \in BOOLEAN : RecoverFromDB(b))
    /\ \A a \in Agents : WF_supVars(Notices(a)) /\ WF_supVars(GraceEnds(a))

SupSpec == SupInit /\ [][SupNext]_supVars /\ SupFairness

-----------------------------------------------------------------------------
SupTypeOK ==
    /\ up \in BOOLEAN /\ proc \in [Agents -> {"none", "alive"} \cup Codes]
    /\ reused \in [Agents -> BOOLEAN] /\ ticks \in [Agents -> BOOLEAN] /\ known \in [Agents -> BOOLEAN]
    /\ row \in [Agents -> {NoAgent, "running"} \cup Codes]
    /\ mem \in [Agents -> {NoAgent, "owned", "watched"} \cup Codes]
    /\ waiter \in [Agents -> {"none", "start", "wait", "poll", "mark-ok", "mark-bad"} \cup Codes]
    /\ grace \in [Agents -> BOOLEAN] /\ sess \in [Agents -> Session]
    /\ out \in [Agents -> [lines: 0..MaxLines, part: BOOLEAN]]

\* A task is reported as successful only when its agent has exited with 0,
\* although the session reads a missing exit code as 0, the row's UPDATE may
\* be lost and the supervisor may be another one than the one that started it.
SuccessIsReal == \A a \in Agents : sess[a].result = "ok" => proc[a] = "ok"

\* An exit code once stored is final: a restart that finds the pid in use by
\* another process, or gone, does not replace it by "unknown".
ExitCodeStays == [][\A a \in Agents : row[a] \in Codes => row'[a] = row[a]]_supVars

\* Every exit of an agent that was recorded is noticed, whether it happens
\* under its supervisor, while that is down or under the next one, and also
\* when the pid is in use again.
ExitsAreNoticed ==
    \A a \in Agents : (row[a] = "running" /\ proc[a] \in Codes) ~> (up /\ Exited(a))

\* A cancelled agent dies even if it ignores SIGTERM, unless the supervisor
\* goes down first.
CancelledDies == \A a \in Agents : grace[a] ~> (proc[a] # "alive" \/ Exited(a) \/ ~up)

=============================================================================
