----------------------------- MODULE RunsProofs -----------------------------
(***************************************************************************)
(* Proofs about the parts that carry one task or one command to its end:   *)
(* the reaper's audit trail (TaskReaper), the exit codes of the agents     *)
(* under their supervisor (Supervisor), the order of the recovery when the *)
(* process starts (ServeProcess) and the copy of a store (DbMigrate).      *)
(* They share no variable; each has an inductive invariant of its own.     *)
(***************************************************************************)
EXTENDS TaskReaper, Supervisor, ServeProcess, DbMigrate, TLAPS, FiniteSetTheorems

-----------------------------------------------------------------------------
(* The reaper, for any table, any number of attempts and of errors.        *)

(***************************************************************************)
(* Inductive: the rows a pass is about to return were flipped by it and    *)
(* have no event yet.                                                      *)
(***************************************************************************)
ToBeLogged ==
    pc # "waiting" => \A t \in reaped : status[t] = "reaped" /\ events[t] = 0

IInv == TypeOK /\ EventsAreTrue /\ ToBeLogged

LEMMA InitEstablishes == Init => IInv
<1> SUFFICES ASSUME Init PROVE IInv
  OBVIOUS
<1>1. TypeOK
  BY ReaperAssumption DEF Init, TypeOK
<1>2. EventsAreTrue /\ ToBeLogged
  BY DEF Init, EventsAreTrue, ToBeLogged
<1>3. QED BY <1>1, <1>2 DEF IInv

\* TypeOK is inductive on its own: PickCandidate and UpdateFails bound tries.
LEMMA NextTypeOK ==
    ASSUME TypeOK, [Next]_vars
    PROVE  TypeOK'
<1> USE ReaperAssumption DEF TypeOK
<1>1. ASSUME NEW t \in Tasks, GraceElapses(t) \/ Beat(t) \/ Settle(t) \/ WorkerDies(t)
      PROVE  TypeOK'
  <2>1. CASE GraceElapses(t) \/ Beat(t)
    BY <2>1 DEF GraceElapses, Beat, pass
  <2>2. CASE Settle(t)
    BY <2>2 DEF Settle, pass
  <2>3. CASE WorkerDies(t)
    BY <2>3 DEF WorkerDies, pass
  <2>4. QED BY <1>1, <2>1, <2>2, <2>3
<1>2. CASE SelectCandidates
  BY <1>2 DEF SelectCandidates
<1>3. ASSUME NEW t \in Tasks, PickCandidate(t) PROVE TypeOK'
  BY <1>3 DEF PickCandidate
<1>4. CASE UpdateCandidate
  BY <1>4 DEF UpdateCandidate, AfterAttempts
<1>5. ASSUME NEW busy \in BOOLEAN, UpdateFails(busy) PROVE TypeOK'
  BY <1>5 DEF UpdateFails, AfterAttempts
<1>6. CASE LogReaped
  BY <1>6 DEF LogReaped
<1>7. CASE UNCHANGED vars
  BY <1>7 DEF vars
<1>8. QED BY <1>1, <1>2, <1>3, <1>4, <1>5, <1>6, <1>7 DEF Next

\* The events and the rows to be logged, step by step.
LEMMA NextEvents ==
    ASSUME IInv, [Next]_vars
    PROVE  EventsAreTrue' /\ ToBeLogged'
<1> USE DEF IInv, TypeOK, EventsAreTrue, ToBeLogged
<1>1. ASSUME NEW t \in Tasks, GraceElapses(t) \/ Beat(t) \/ Settle(t) \/ WorkerDies(t)
      PROVE  EventsAreTrue' /\ ToBeLogged'
  BY <1>1 DEF GraceElapses, Beat, Settle, WorkerDies, pass
<1>2. CASE SelectCandidates
  BY <1>2 DEF SelectCandidates
<1>3. ASSUME NEW t \in Tasks, PickCandidate(t) PROVE EventsAreTrue' /\ ToBeLogged'
  BY <1>3 DEF PickCandidate
<1>4. CASE UpdateCandidate
  BY <1>4, ReaperAssumption DEF UpdateCandidate, AfterAttempts
<1>5. ASSUME NEW busy \in BOOLEAN, UpdateFails(busy) PROVE EventsAreTrue' /\ ToBeLogged'
  BY <1>5 DEF UpdateFails, AfterAttempts
<1>6. CASE LogReaped
  BY <1>6 DEF LogReaped
<1>7. CASE UNCHANGED vars
  BY <1>7 DEF vars
<1>8. QED BY <1>1, <1>2, <1>3, <1>4, <1>5, <1>6, <1>7 DEF Next

LEMMA Invariance == Spec => []IInv
<1>1. IInv /\ [Next]_vars => IInv'
  BY NextTypeOK, NextEvents DEF IInv
<1>2. QED BY InitEstablishes, <1>1, PTL DEF Spec

\* The reaper's state keeps its shape.
THEOREM ReaperTypes == Spec => []TypeOK
<1>1. IInv => TypeOK
  BY DEF IInv
<1>2. QED BY <1>1, Invariance, PTL

\* A task_reaped event is written once, for a row this reaper failed.
THEOREM EventsTrue == Spec => []EventsAreTrue
<1>1. IInv => EventsAreTrue
  BY DEF IInv
<1>2. QED BY <1>1, Invariance, PTL

\* The UPDATE's status guard keeps a result that a worker got in before it.
THEOREM SettledIsKept == Spec => SettledStays
<1>1. TypeOK /\ [Next]_vars =>
         [\A t \in Tasks : status[t] = "settled" => status'[t] = "settled"]_vars
  BY ReaperAssumption DEF TypeOK, Next, GraceElapses, Beat, Settle, WorkerDies, SelectCandidates, PickCandidate,
         UpdateCandidate, UpdateFails, LogReaped, pass, vars
<1>2. Spec => []TypeOK
  BY Invariance, PTL DEF IInv
<1>3. QED BY <1>1, <1>2, PTL DEF Spec, SettledStays

-----------------------------------------------------------------------------
(* The supervisor, for any agents, output and failures.                    *)

\* One writer of the row, and no "ok" that the process has not earned.
AgentIsSound(a) ==
    /\ proc[a] = "none" => row[a] = NoAgent /\ mem[a] = NoAgent /\ waiter[a] = "none"
    /\ waiter[a] = "start" => row[a] = NoAgent /\ mem[a] = NoAgent
    /\ waiter[a] \in {"wait", "poll"} \cup Codes => row[a] = "running"
    /\ mem[a] \in Codes => waiter[a] = "none"
    /\ row[a] = "ok" \/ mem[a] = "ok" \/ waiter[a] \in {"ok", "mark-ok"} => proc[a] = "ok"

\* Until its stream ends, the session that started the agent talks to the
\* supervisor that did; an end it has seen is one of the process, and no
\* later supervisor takes the process for a running one.
Follows(a) == ~sess[a].resumed /\ sess[a].step \in {"starting", "reading", "eof"}
HasEnded(a) == mem[a] \in Codes \/ waiter[a] \in Codes \cup {"mark-ok", "mark-bad"}

SessionIsSound(a) ==
    /\ ~up => sess[a].step \notin {"starting", "reading", "eof"}
    /\ Follows(a) => waiter[a] # "poll" /\ (HasEnded(a) => proc[a] \in Codes)
    /\ ~sess[a].resumed /\ sess[a].step = "closed" =>
           proc[a] \in Codes /\ mem[a] \notin {"owned", "watched"} /\ waiter[a] # "start"
    /\ sess[a].result = "ok" => proc[a] = "ok"

SupInv == SupTypeOK /\ \A a \in Agents : AgentIsSound(a) /\ SessionIsSound(a)

LEMMA SupInitially == SupInit => SupInv
<1> SUFFICES ASSUME SupInit PROVE SupInv
    OBVIOUS
<1>1. SupTypeOK
    BY SupAssumption DEF SupInit, SupTypeOK, Session, Steps, Fresh, Codes, NoAgent
<1>2. ASSUME NEW a \in Agents PROVE AgentIsSound(a) /\ SessionIsSound(a)
    BY DEF SupInit, AgentIsSound, SessionIsSound, Follows, HasEnded, Fresh, Codes, NoAgent
<1> QED
    BY <1>1, <1>2 DEF SupInv

\* The actions of one agent, with what a failed read or write decides.
SupStep(a) ==
    \/ Prints(a) \/ PidReused(a) \/ StartFails(a) \/ Persist(a) \/ PersistFails(a)
    \/ Attach(a) \/ Wait(a) \/ MarkExited(a) \/ GraceEnds(a)
    \/ StreamLine(a) \/ StreamEOF(a) \/ StreamChecks(a) \/ SessionEnds(a)
    \/ ResumeEnds(a) \/ WorkerComesUp(a)
    \/ \E code \in Codes : ProcExits(a, code)
    \/ \E b \in BOOLEAN : Spawn(a, b) \/ WatchRecovered(a, b) \/ RecordExit(a, b) \/ TimesOut(a, b)
    \/ \E n \in 0..MaxLines : Resume(a, n)

LEMMA SupActions ==
    ASSUME SupNext
    PROVE  SupCrash \/ (\E b \in BOOLEAN : RecoverFromDB(b)) \/ \E a \in Agents : SupStep(a)
BY DEF SupNext, SupStep

-----------------------------------------------------------------------------
(* Types.  The provers see the sets of flags and of outputs as opaque.     *)

Flags == BOOLEAN
Output == [lines : 0..MaxLines, part : Flags]
Results == {"none", "infra", "timeout"} \cup Codes

LEMMA FlagsAre == TRUE \in Flags /\ FALSE \in Flags
BY Zenon DEF Flags

LEMMA EitherFlag == ASSUME NEW x \in Flags, NEW y \in Flags PROVE (x \/ y) \in Flags
BY Zenon DEF Flags

SupTyped ==
    /\ up \in Flags /\ proc \in [Agents -> {"none", "alive"} \cup Codes]
    /\ reused \in [Agents -> Flags] /\ ticks \in [Agents -> Flags] /\ known \in [Agents -> Flags]
    /\ row \in [Agents -> {NoAgent, "running"} \cup Codes]
    /\ mem \in [Agents -> {NoAgent, "owned", "watched"} \cup Codes]
    /\ waiter \in [Agents -> {"none", "start", "wait", "poll", "mark-ok", "mark-bad"} \cup Codes]
    /\ grace \in [Agents -> Flags] /\ sess \in [Agents -> Session]
    /\ out \in [Agents -> Output]

LEMMA TypedIs == SupTyped <=> SupTypeOK
BY Zenon DEF SupTyped, SupTypeOK, Flags, Output

LEMMA SessionIs == Session = [step : Steps, resumed : Flags, pos : 0..MaxLines, half : Flags, result : Results]
BY Zenon DEF Session, Flags, Results

\* How an action changes a session.
LEMMA SessionChanges ==
    ASSUME NEW s \in Session, NEW t \in Steps, NEW r \in Results, NEW n \in 0..MaxLines, NEW f \in Flags
    PROVE  /\ [s EXCEPT !.step = t] \in Session
           /\ [s EXCEPT !.step = t, !.result = r] \in Session
           /\ [s EXCEPT !.pos = n, !.half = f] \in Session
           /\ [s EXCEPT !.step = t, !.half = f] \in Session
           /\ s.pos \in 0..MaxLines /\ s.half \in Flags /\ s.resumed \in Flags /\ s.step \in Steps /\ s.result \in Results
BY SessionIs

LEMMA StepsAre ==
    /\ \A t \in {"idle", "starting", "reading", "eof", "closed", "broken", "done"} : t \in Steps
    /\ \A r \in {"none", "infra", "timeout", "ok", "bad"} : r \in Results
BY DEF Steps, Results, Codes

LEMMA FreshIs == Fresh \in Session
<1>1. "idle" \in Steps /\ "none" \in Results /\ 0 \in 0..MaxLines
    BY StepsAre, SupAssumption
<1>2. \A t \in Steps, f \in Flags, n \in 0..MaxLines, r \in Results :
          [step |-> t, resumed |-> f, pos |-> n, half |-> f, result |-> r] \in Session
    BY SessionIs
<1>3. Fresh = [step |-> "idle", resumed |-> FALSE, pos |-> 0, half |-> FALSE, result |-> "none"]
    BY DEF Fresh
<1>4. PICK f \in Flags : f = FALSE
    BY FlagsAre
<1> QED
    BY <1>1, <1>2, <1>3, <1>4

LEMMA FreshChanges ==
    ASSUME NEW t \in Steps, NEW r \in Results, NEW n \in 0..MaxLines, NEW f \in Flags
    PROVE  /\ Fresh \in Session
           /\ [Fresh EXCEPT !.step = t, !.result = r] \in Session
           /\ [Fresh EXCEPT !.step = t, !.resumed = f, !.pos = n] \in Session
           /\ [Fresh EXCEPT !.step = t, !.resumed = f, !.result = r] \in Session
<1>1. Fresh \in Session
    BY FreshIs
<1>2. ASSUME NEW s \in Session
      PROVE  /\ [s EXCEPT !.step = t, !.resumed = f, !.pos = n] \in Session
             /\ [s EXCEPT !.step = t, !.resumed = f, !.result = r] \in Session
    BY <1>2, SessionIs
<1> QED
    BY <1>1, <1>2, SessionChanges

\* One session changes.
LEMMA OneSession ==
    ASSUME sess \in [Agents -> Session], NEW a \in Agents, NEW x \in Session, sess' = [sess EXCEPT ![a] = x]
    PROVE  sess' \in [Agents -> Session]
OBVIOUS

LEMMA SessionSteps ==
    ASSUME sess \in [Agents -> Session], NEW a \in Agents, NEW t \in Steps, Step(a, t)
    PROVE  sess' \in [Agents -> Session]
<1>1. sess' = [sess EXCEPT ![a] = [sess[a] EXCEPT !.step = t]]
    BY DEF Step
<1>2. [sess[a] EXCEPT !.step = t] \in Session
    BY SessionIs
<1> QED
    BY <1>1, <1>2, OneSession

LEMMA SessionEnding ==
    ASSUME sess \in [Agents -> Session], NEW a \in Agents, NEW r \in Results, Ends(a, r)
    PROVE  sess' \in [Agents -> Session]
<1>1. [sess[a] EXCEPT !.step = "done", !.result = r] \in Session
    BY SessionIs, StepsAre
<1> QED
    BY <1>1, OneSession DEF Ends

LEMMA SupTypeStep == ASSUME SupTyped, [SupNext]_supVars PROVE SupTyped'
<1> USE DEF SupTyped, Codes, NoAgent
<1>1. ASSUME NEW a \in Agents, SupStep(a) PROVE SupTyped'
    <2>1. CASE Prints(a)
        <3>1. \A n \in 0..MaxLines, f \in Flags : [lines |-> n, part |-> f] \in Output /\ [out[a] EXCEPT !.part = f] \in Output
            BY DEF Output
        <3>2. out[a].lines < MaxLines => out[a].lines + 1 \in 0..MaxLines
            BY SupAssumption DEF Output
        <3>3. PICK x \in Output : out' = [out EXCEPT ![a] = x]
            BY <2>1, <3>1, <3>2, FlagsAre DEF Prints
        <3> QED
            BY <2>1, <3>3 DEF Prints
    <2>2. CASE PidReused(a) \/ Persist(a) \/ Wait(a)
        BY <2>2, FlagsAre DEF PidReused, Persist, Wait
    <2>3. CASE MarkExited(a)
        BY <2>3 DEF MarkExited
    <2>4. CASE GraceEnds(a)
        BY <2>4, FlagsAre DEF GraceEnds
    <2>5. CASE StartFails(a)
        <3>1. sess' \in [Agents -> Session]
            BY <2>5, StepsAre, SessionEnding DEF StartFails
        <3> QED
            BY <2>5, <3>1 DEF StartFails
    <2>6. CASE PersistFails(a)
        <3>1. sess' \in [Agents -> Session]
            BY <2>6, StepsAre, SessionEnding DEF PersistFails
        <3> QED
            BY <2>6, <3>1 DEF PersistFails
    <2>7. CASE Attach(a)
        <3>1. sess' \in [Agents -> Session]
            BY <2>7, StepsAre, SessionSteps DEF Attach
        <3> QED
            BY <2>7, <3>1, FlagsAre DEF Attach
    <2>8. CASE StreamLine(a) \/ StreamEOF(a) \/ StreamChecks(a)
        <3>1. CASE StreamLine(a)
            <4>1. sess[a].pos + 1 \in 0..MaxLines
                BY <3>1, SupAssumption, SessionIs DEF StreamLine, Output
            <4>2. [sess[a] EXCEPT !.pos = sess[a].pos + 1, !.half = FALSE] \in Session
                BY <4>1, FlagsAre, SessionIs
            <4> QED
                BY <3>1, <4>2 DEF StreamLine
        <3>2. CASE StreamEOF(a)
            <4>1. sess[a].half \in Flags /\ out[a].part \in Flags
                BY SessionIs DEF Output
            <4>2. (sess[a].half \/ out[a].part) \in Flags
                BY <4>1, EitherFlag, Zenon
            <4>3. PICK h \in Flags : sess' = [sess EXCEPT ![a] = [sess[a] EXCEPT !.step = "eof", !.half = h]]
                BY <3>2, <4>2, Zenon DEF StreamEOF
            <4>4. [sess[a] EXCEPT !.step = "eof", !.half = h] \in Session
                BY StepsAre, SessionIs
            <4>5. sess' \in [Agents -> Session]
                BY <4>3, <4>4
            <4> QED
                BY <3>2, <4>5 DEF StreamEOF
        <3>3. CASE StreamChecks(a)
            <4>1. sess' \in [Agents -> Session]
                BY <3>3, StepsAre, SessionSteps DEF StreamChecks
            <4> QED
                BY <3>3, <4>1 DEF StreamChecks
        <3> QED
            BY <2>8, <3>1, <3>2, <3>3
    <2>9. CASE SessionEnds(a)
        <3>1. RunResult(a) \in Results
            BY DEF RunResult, Status, Results
        <3> QED
            BY <2>9, <3>1, SessionEnding DEF SessionEnds
    <2>10. CASE ResumeEnds(a)
        <3>1. Status(a) \notin {"down", "running"} => Outcome(a) \in Results
            BY DEF Outcome, Status, Results
        <3>2. PICK x \in Session : sess' = [sess EXCEPT ![a] = x]
            <4>1. CASE sess[a].step = "closed" /\ Status(a) \notin {"down", "running"}
                <5>1. [sess[a] EXCEPT !.step = "done", !.result = Outcome(a)] \in Session
                    BY <3>1, <4>1, StepsAre, SessionIs
                <5> QED
                    BY <2>10, <4>1, <5>1 DEF ResumeEnds
            <4>2. CASE ~(sess[a].step = "closed" /\ Status(a) \notin {"down", "running"})
                <5>1. Fresh \in Session
                    BY FreshIs
                <5> QED
                    BY <2>10, <4>2, <5>1 DEF ResumeEnds
            <4> QED
                BY <4>1, <4>2
        <3> QED
            BY <2>10, <3>2 DEF ResumeEnds
    <2>11. CASE WorkerComesUp(a)
        <3>1. Fresh \in Session /\ [Fresh EXCEPT !.step = "done", !.result = "infra"] \in Session
            <4>1. "done" \in Steps /\ "infra" \in Results
                BY StepsAre
            <4>2. Fresh \in Session
                BY FreshIs
            <4> QED
                BY <4>1, <4>2, SessionIs
        <3>2. PICK x \in Session : sess' = [sess EXCEPT ![a] = x]
            BY <2>11, <3>1 DEF WorkerComesUp
        <3> QED
            BY <2>11, <3>2 DEF WorkerComesUp
    <2>12. ASSUME NEW code \in Codes, ProcExits(a, code) PROVE SupTyped'
        BY <2>12 DEF ProcExits
    <2>13. ASSUME NEW b \in BOOLEAN, Spawn(a, b) PROVE SupTyped'
        <3>1. (~b) \in Flags
            BY Zenon DEF Flags
        <3>2. PICK f \in Flags : ticks' = [ticks EXCEPT ![a] = f]
            BY <2>13, <3>1, Zenon DEF Spawn
        <3>3. sess' \in [Agents -> Session]
            BY <2>13, StepsAre, SessionSteps DEF Spawn
        <3> QED
            BY <2>13, <3>2, <3>3 DEF Spawn
    <2>14. ASSUME NEW b \in BOOLEAN, WatchRecovered(a, b) \/ RecordExit(a, b) PROVE SupTyped'
        BY <2>14 DEF WatchRecovered, RecordExit
    <2>15. ASSUME NEW b \in BOOLEAN, TimesOut(a, b) PROVE SupTyped'
        <3>1. sess' \in [Agents -> Session]
            BY <2>15, StepsAre, SessionEnding DEF TimesOut
        <3>2. grace' \in [Agents -> Flags]
            BY <2>15, FlagsAre DEF TimesOut
        <3> QED
            BY <2>15, <3>1, <3>2 DEF TimesOut
    <2>16. ASSUME NEW n \in 0..MaxLines, Resume(a, n) PROVE SupTyped'
        <3>1. CASE Status(a) = "running"
            <4>1. [Fresh EXCEPT !.step = "reading", !.resumed = TRUE, !.pos = n] \in Session
                BY FreshChanges, StepsAre, FlagsAre
            <4> QED
                BY <2>16, <3>1, <4>1 DEF Resume
        <3>2. CASE Status(a) # "running"
            <4>1. Outcome(a) \in Results
                BY <2>16, <3>2 DEF Resume, Outcome, Status, Results
            <4>2. [Fresh EXCEPT !.step = "done", !.resumed = TRUE, !.result = Outcome(a)] \in Session
                BY <4>1, FreshChanges, StepsAre, FlagsAre
            <4> QED
                BY <2>16, <3>2, <4>2 DEF Resume
        <3> QED
            BY <3>1, <3>2
    <2> QED
        BY <1>1, <2>1, <2>2, <2>3, <2>4, <2>5, <2>6, <2>7, <2>8, <2>9, <2>10, <2>11, <2>12, <2>13, <2>14, <2>15, <2>16 DEF SupStep
<1>2. CASE SupCrash
    <2>1. \A a \in Agents : [sess[a] EXCEPT !.step = "broken"] \in Session
        BY StepsAre, SessionIs
    <2>2. sess' \in [Agents -> Session]
        BY <1>2, <2>1 DEF SupCrash
    <2> QED
        BY <1>2, <2>2, FlagsAre DEF SupCrash
<1>3. ASSUME NEW b \in BOOLEAN, RecoverFromDB(b) PROVE SupTyped'
    BY <1>3, FlagsAre DEF RecoverFromDB, Recovered
<1>4. CASE UNCHANGED supVars
    BY <1>4 DEF supVars
<1> QED
    BY <1>1, <1>2, <1>3, <1>4, SupActions

-----------------------------------------------------------------------------
(* What holds of an agent and of its session.                              *)

\* An action of one agent leaves the other agents as they are.
LEMMA OthersStay ==
    ASSUME SupTyped, NEW a \in Agents, SupStep(a), NEW b \in Agents, b # a, AgentIsSound(b), SessionIsSound(b)
    PROVE  AgentIsSound(b)' /\ SessionIsSound(b)'
<1>1. /\ proc'[b] = proc[b] /\ row'[b] = row[b] /\ mem'[b] = mem[b] /\ waiter'[b] = waiter[b]
      /\ sess'[b] = sess[b] /\ up' = up
    <2> USE DEF SupTyped
    <2>1. CASE Prints(a) \/ PidReused(a) \/ StartFails(a) \/ Persist(a) \/ PersistFails(a) \/ Attach(a) \/ Wait(a)
               \/ MarkExited(a) \/ GraceEnds(a)
        BY <2>1 DEF Prints, PidReused, StartFails, Persist, PersistFails, Attach, Wait, MarkExited, GraceEnds, Ends, Step
    <2>2. CASE StreamLine(a) \/ StreamEOF(a) \/ StreamChecks(a) \/ SessionEnds(a) \/ ResumeEnds(a) \/ WorkerComesUp(a)
        BY <2>2 DEF StreamLine, StreamEOF, StreamChecks, SessionEnds, ResumeEnds, WorkerComesUp, Ends, Step
    <2>3. ASSUME NEW code \in Codes, ProcExits(a, code)
          PROVE  /\ proc'[b] = proc[b] /\ row'[b] = row[b] /\ mem'[b] = mem[b] /\ waiter'[b] = waiter[b]
                 /\ sess'[b] = sess[b] /\ up' = up
        BY <2>3 DEF ProcExits
    <2>4. ASSUME NEW f \in BOOLEAN, Spawn(a, f) \/ WatchRecovered(a, f) \/ RecordExit(a, f) \/ TimesOut(a, f)
          PROVE  /\ proc'[b] = proc[b] /\ row'[b] = row[b] /\ mem'[b] = mem[b] /\ waiter'[b] = waiter[b]
                 /\ sess'[b] = sess[b] /\ up' = up
        BY <2>4 DEF Spawn, WatchRecovered, RecordExit, TimesOut, Ends, Step
    <2>5. ASSUME NEW n \in 0..MaxLines, Resume(a, n)
          PROVE  /\ proc'[b] = proc[b] /\ row'[b] = row[b] /\ mem'[b] = mem[b] /\ waiter'[b] = waiter[b]
                 /\ sess'[b] = sess[b] /\ up' = up
        BY <2>5 DEF Resume
    <2> QED
        BY <2>1, <2>2, <2>3, <2>4, <2>5 DEF SupStep
<1> QED
    BY <1>1 DEF AgentIsSound, SessionIsSound, Follows, HasEnded

LEMMA AgentStaysSound ==
    ASSUME SupTyped, NEW a \in Agents, SupStep(a), AgentIsSound(a)
    PROVE  AgentIsSound(a)'
<1> USE DEF AgentIsSound, SupTyped, Codes, NoAgent
<1>1. CASE Prints(a) \/ PidReused(a) \/ StartFails(a) \/ Attach(a) \/ StreamLine(a) \/ StreamEOF(a) \/ StreamChecks(a)
           \/ SessionEnds(a) \/ ResumeEnds(a) \/ WorkerComesUp(a)
    BY <1>1 DEF Prints, PidReused, StartFails, Attach, StreamLine, StreamEOF, StreamChecks, SessionEnds, ResumeEnds, WorkerComesUp
<1>2. CASE Persist(a)
    BY <1>2 DEF Persist
<1>3. CASE PersistFails(a)
    BY <1>3 DEF PersistFails
<1>4. CASE Wait(a)
    BY <1>4 DEF Wait
<1>5. CASE MarkExited(a)
    BY <1>5 DEF MarkExited
<1>6. CASE GraceEnds(a)
    BY <1>6 DEF GraceEnds
<1>7. ASSUME NEW code \in Codes, ProcExits(a, code) PROVE AgentIsSound(a)'
    BY <1>7 DEF ProcExits
<1>8. ASSUME NEW f \in BOOLEAN, Spawn(a, f) PROVE AgentIsSound(a)'
    BY <1>8 DEF Spawn
<1>9. ASSUME NEW f \in BOOLEAN, WatchRecovered(a, f) PROVE AgentIsSound(a)'
    BY <1>9 DEF WatchRecovered
<1>10. ASSUME NEW f \in BOOLEAN, RecordExit(a, f) PROVE AgentIsSound(a)'
    BY <1>10 DEF RecordExit
<1>11. ASSUME NEW f \in BOOLEAN, TimesOut(a, f) PROVE AgentIsSound(a)'
    BY <1>11 DEF TimesOut
<1>12. ASSUME NEW n \in 0..MaxLines, Resume(a, n) PROVE AgentIsSound(a)'
    BY <1>12 DEF Resume
<1> QED
    BY <1>1, <1>2, <1>3, <1>4, <1>5, <1>6, <1>7, <1>8, <1>9, <1>10, <1>11, <1>12 DEF SupStep

\* What a session looks like after a step.
LEMMA SessionAfter ==
    ASSUME sess \in [Agents -> Session], NEW a \in Agents
    PROVE  /\ \A t : Step(a, t) => sess'[a].step = t /\ sess'[a].resumed = sess[a].resumed /\ sess'[a].result = sess[a].result
           /\ \A r : Ends(a, r) => sess'[a].step = "done" /\ sess'[a].result = r
<1>1. ASSUME NEW t, Step(a, t)
      PROVE  sess'[a].step = t /\ sess'[a].resumed = sess[a].resumed /\ sess'[a].result = sess[a].result
    <2>1. sess'[a] = [sess[a] EXCEPT !.step = t]
        BY <1>1 DEF Step
    <2> QED
        BY <2>1, SessionIs
<1>2. ASSUME NEW r, Ends(a, r) PROVE sess'[a].step = "done" /\ sess'[a].result = r
    <2>1. sess'[a] = [sess[a] EXCEPT !.step = "done", !.result = r]
        BY <1>2 DEF Ends
    <2> QED
        BY <2>1, SessionIs
<1> QED
    BY <1>1, <1>2

LEMMA SessionStaysSound ==
    ASSUME SupTyped, NEW a \in Agents, SupStep(a), AgentIsSound(a), SessionIsSound(a)
    PROVE  SessionIsSound(a)'
<1> USE SessionAfter DEF AgentIsSound, SessionIsSound, Follows, HasEnded, SupTyped, Codes, NoAgent
<1>1. CASE Prints(a) \/ PidReused(a)
    BY <1>1 DEF Prints, PidReused
<1>2. CASE Persist(a) \/ Wait(a)
    BY <1>2 DEF Persist, Wait
<1>3. CASE MarkExited(a) \/ GraceEnds(a)
    BY <1>3 DEF MarkExited, GraceEnds
<1>4. CASE StartFails(a)
    BY <1>4 DEF StartFails
<1>5. CASE PersistFails(a)
    BY <1>5 DEF PersistFails
<1>6. CASE Attach(a)
    BY <1>6 DEF Attach
<1>7. CASE StreamLine(a)
    <2>1. sess'[a] = [sess[a] EXCEPT !.pos = sess[a].pos + 1, !.half = FALSE]
        BY <1>7 DEF StreamLine
    <2>2. sess'[a].step = sess[a].step /\ sess'[a].resumed = sess[a].resumed /\ sess'[a].result = sess[a].result
        BY <2>1, SessionIs
    <2> QED
        BY <1>7, <2>2 DEF StreamLine
<1>8. CASE StreamEOF(a)
    <2>1. sess'[a] = [sess[a] EXCEPT !.step = "eof", !.half = sess[a].half \/ out[a].part]
        BY <1>8 DEF StreamEOF
    <2>2. sess'[a].step = "eof" /\ sess'[a].resumed = sess[a].resumed /\ sess'[a].result = sess[a].result
        BY <2>1, SessionIs
    <2> QED
        BY <1>8, <2>2 DEF StreamEOF
<1>9. CASE StreamChecks(a)
    BY <1>9 DEF StreamChecks, Exited
<1>10. CASE SessionEnds(a)
    BY <1>10 DEF SessionEnds, RunResult, Status
<1>11. CASE ResumeEnds(a)
    <2>1. CASE sess[a].step = "closed" /\ Status(a) \notin {"down", "running"}
        <3>1. sess'[a] = [sess[a] EXCEPT !.step = "done", !.result = Outcome(a)]
            BY <1>11, <2>1 DEF ResumeEnds
        <3>2. sess'[a].step = "done" /\ sess'[a].result = Outcome(a)
            BY <3>1, SessionIs
        <3> QED
            BY <1>11, <2>1, <3>2 DEF ResumeEnds, Outcome, Status
    <2>2. CASE ~(sess[a].step = "closed" /\ Status(a) \notin {"down", "running"})
        <3>1. sess'[a] = Fresh
            BY <1>11, <2>2 DEF ResumeEnds
        <3>2. sess'[a].step = "idle" /\ sess'[a].result = "none"
            BY <3>1 DEF Fresh
        <3> QED
            BY <1>11, <3>2 DEF ResumeEnds
    <2> QED
        BY <2>1, <2>2
<1>12. CASE WorkerComesUp(a)
    <2>1. sess'[a].step \in {"idle", "done"} /\ sess'[a].result # "ok"
        BY <1>12 DEF WorkerComesUp, Fresh
    <2> QED
        BY <1>12, <2>1 DEF WorkerComesUp
<1>13. ASSUME NEW code \in Codes, ProcExits(a, code) PROVE SessionIsSound(a)'
    BY <1>13 DEF ProcExits
<1>14. ASSUME NEW f \in BOOLEAN, Spawn(a, f) PROVE SessionIsSound(a)'
    BY <1>14 DEF Spawn
<1>15. ASSUME NEW f \in BOOLEAN, WatchRecovered(a, f) \/ RecordExit(a, f) PROVE SessionIsSound(a)'
    BY <1>15 DEF WatchRecovered, RecordExit
<1>16. ASSUME NEW f \in BOOLEAN, TimesOut(a, f) PROVE SessionIsSound(a)'
    BY <1>16 DEF TimesOut
<1>17. ASSUME NEW n \in 0..MaxLines, Resume(a, n) PROVE SessionIsSound(a)'
    <2>1. CASE Status(a) = "running"
        <3>1. sess'[a].resumed = TRUE /\ sess'[a].result = "none" /\ up
            BY <1>17, <2>1 DEF Resume, Fresh, Status
        <3> QED
            BY <1>17, <3>1 DEF Resume
    <2>2. CASE Status(a) # "running"
        <3>1. sess'[a].step = "done" /\ sess'[a].result = Outcome(a)
            BY <1>17, <2>2 DEF Resume, Fresh
        <3> QED
            BY <1>17, <2>2, <3>1 DEF Resume, Outcome, Status
    <2> QED
        BY <2>1, <2>2
<1> QED
    BY <1>1, <1>2, <1>3, <1>4, <1>5, <1>6, <1>7, <1>8, <1>9, <1>10, <1>11, <1>12, <1>13, <1>14, <1>15, <1>16, <1>17 DEF SupStep

\* A crash of the supervisor, and what the next one makes of the rows.
LEMMA RestartsAreSound ==
    ASSUME SupTyped, SupCrash \/ \E b \in BOOLEAN : RecoverFromDB(b),
           NEW a \in Agents, AgentIsSound(a), SessionIsSound(a)
    PROVE  AgentIsSound(a)' /\ SessionIsSound(a)'
<1> USE DEF AgentIsSound, SessionIsSound, Follows, HasEnded, SupTyped, Codes, NoAgent
<1>1. CASE SupCrash
    <2>1. CASE sess[a].step \in {"starting", "reading", "eof"}
        <3>1. sess'[a] = [sess[a] EXCEPT !.step = "broken"]
            BY <1>1, <2>1 DEF SupCrash
        <3>2. sess'[a].step = "broken" /\ sess'[a].result = sess[a].result
            BY <3>1, SessionIs
        <3> QED
            BY <1>1, <3>2 DEF SupCrash
    <2>2. CASE sess[a].step \notin {"starting", "reading", "eof"}
        <3>1. sess'[a] = sess[a]
            BY <1>1, <2>2 DEF SupCrash
        <3> QED
            BY <1>1, <2>2, <3>1 DEF SupCrash
    <2> QED
        BY <2>1, <2>2
<1>2. ASSUME NEW b \in BOOLEAN, RecoverFromDB(b) PROVE AgentIsSound(a)' /\ SessionIsSound(a)'
    BY <1>2 DEF RecoverFromDB, Recovered, PidIsAlive
<1> QED
    BY <1>1, <1>2

LEMMA SupInvStep == SupInv /\ [SupNext]_supVars => SupInv'
<1> SUFFICES ASSUME SupInv, [SupNext]_supVars PROVE SupInv'
    OBVIOUS
<1>1. SupTyped /\ SupTyped'
    BY TypedIs, SupTypeStep DEF SupInv
<1>2. SupTypeOK'
    BY <1>1, TypedIs, PTL
<1>3. ASSUME NEW b \in Agents PROVE AgentIsSound(b)' /\ SessionIsSound(b)'
    <2>1. AgentIsSound(b) /\ SessionIsSound(b)
        BY DEF SupInv
    <2>2. CASE UNCHANGED supVars
        BY <2>1, <2>2 DEF supVars, AgentIsSound, SessionIsSound, Follows, HasEnded
    <2>3. ASSUME NEW a \in Agents, SupStep(a) PROVE AgentIsSound(b)' /\ SessionIsSound(b)'
        BY <1>1, <2>1, <2>3, OthersStay, AgentStaysSound, SessionStaysSound
    <2> QED
        BY <1>1, <2>1, <2>2, <2>3, RestartsAreSound, SupActions
<1> QED
    BY <1>2, <1>3 DEF SupInv

LEMMA SupCorrect == SupSpec => []SupInv
BY SupInitially, SupInvStep, PTL DEF SupSpec

\* For any agents, output, crashes and failed reads and writes, a result "ok"
\* of a session is the exit code of the process (supervisor.go, Run).
THEOREM SuccessReal == SupSpec => []SuccessIsReal
<1>1. SupInv => SuccessIsReal
    BY DEF SupInv, SessionIsSound, SuccessIsReal
<1> QED
    BY <1>1, SupCorrect, PTL

\* A stored exit code is never replaced: one goroutine writes it, and recovery
\* leaves it alone (updateAgentExit, recoverFromDB).
THEOREM ExitCodesStay == SupSpec => ExitCodeStays
<1>1. ASSUME SupInv, SupNext, NEW a \in Agents, row[a] \in Codes PROVE row'[a] = row[a]
    <2>1. AgentIsSound(a) /\ SupTyped
        BY <1>1, TypedIs DEF SupInv
    <2>2. CASE SupCrash
        BY <2>2 DEF SupCrash
    <2>3. ASSUME NEW b \in BOOLEAN, RecoverFromDB(b) PROVE row'[a] = row[a]
        BY <2>3, <1>1 DEF RecoverFromDB, Recovered, Codes
    <2>4. ASSUME NEW c \in Agents, SupStep(c) PROVE row'[a] = row[a]
        <3>1. CASE Persist(c)
            BY <3>1, <2>1, <1>1 DEF Persist, AgentIsSound, SupTyped, Codes, NoAgent
        <3>2. ASSUME NEW f \in BOOLEAN, RecordExit(c, f) PROVE row'[a] = row[a]
            BY <3>2, <2>1, <1>1 DEF RecordExit, AgentIsSound, SupTyped, Codes, NoAgent
        <3>3. CASE row' = row
            BY <3>3
        <3> QED
            BY <2>4, <3>1, <3>2, <3>3
               DEF SupStep, Prints, PidReused, StartFails, PersistFails, Attach, Wait, MarkExited, GraceEnds, StreamLine,
                   StreamEOF, StreamChecks, SessionEnds, ResumeEnds, WorkerComesUp, ProcExits, Spawn, WatchRecovered,
                   TimesOut, Resume
    <2> QED
        BY <1>1, <2>2, <2>3, <2>4, SupActions
<1>2. SupInv /\ [SupNext]_supVars => [\A a \in Agents : row[a] \in Codes => row'[a] = row[a]]_supVars
    BY <1>1
<1> QED
    BY <1>2, SupCorrect, PTL DEF SupSpec, ExitCodeStays

-----------------------------------------------------------------------------
(* The start of the process.                                               *)

\* Recovery is over, or was given up, before anything can use the store.
PastRecovery == coord \notin {"config", "store", "claims", "tasks"}

RecoveryInv ==
    /\ breaks \in Nat
    /\ runtime = "runs" \/ httpUp => PastRecovery
    /\ stale /\ PastRecovery => breaks > 0

LEMMA RecoveryInitially == ServeInit => RecoveryInv
BY DEF ServeInit, RecoveryInv, PastRecovery

LEMMA RecoveryStep == RecoveryInv /\ [ServeNext]_serveVars => RecoveryInv'
<1> SUFFICES ASSUME RecoveryInv, [ServeNext]_serveVars PROVE RecoveryInv'
    OBVIOUS
<1> USE DEF RecoveryInv, PastRecovery
<1>1. CASE BootStep
    <2>1. coord \in {"config", "store", "claims", "tasks", "security", "hooks", "notifier", "loops", "load", "bootstrap", "listen"}
          /\ coord' = NextStep[coord]
        BY <1>1 DEF BootStep, NextStep
    <2>2. coord' \in {"config", "store", "claims", "tasks"} => coord \in {"config", "store", "claims"}
        BY <2>1 DEF NextStep
    <2>3. coord' \notin {"config", "store", "claims", "tasks"} => coord \notin {"config", "store", "claims"}
        BY <2>1 DEF NextStep
    <2>4. coord \in {"config", "store", "claims"} => ~(runtime = "runs") /\ ~httpUp
        OBVIOUS
    <2>5. breaks' \in Nat /\ (breaks > 0 => breaks' > 0)
        BY <1>1 DEF BootStep, Breaks
    <2>6. runtime' = "runs" => runtime = "runs" \/ coord \in {"load", "bootstrap"}
        BY <1>1 DEF BootStep
    <2>7. httpUp' => httpUp \/ coord = "listen"
        BY <1>1, Zenon DEF BootStep
    <2>8. stale' => stale /\ (coord = "tasks" => breaks' > 0)
        <3>1. (stale' = (stale /\ coord # "tasks") /\ breaks' = breaks) \/ (Breaks /\ stale' = stale)
            BY <1>1, Zenon DEF BootStep
        <3>2. CASE stale' = (stale /\ coord # "tasks") /\ breaks' = breaks
            BY <3>2, Zenon
        <3>3. CASE Breaks /\ stale' = stale
            <4>1. breaks' > 0
                BY <3>3 DEF Breaks
            <4> QED
                BY <3>3, <4>1, Zenon
        <3> QED
            BY <3>1, <3>2, <3>3
    <2> QED
        BY <2>1, <2>2, <2>3, <2>4, <2>5, <2>6, <2>7, <2>8
<1>2. CASE BootFails
    <2>1. breaks' > 0 /\ breaks' \in Nat /\ coord' = "close"
        BY <1>2 DEF BootFails, Breaks
    <2> QED
        BY <1>2, <2>1 DEF BootFails
<1>3. CASE GrabClaim \/ RuntimeEnds \/ CoordStops \/ StopRuntimes
    BY <1>3 DEF GrabClaim, RuntimeEnds, CoordStops, StopRuntimes
<1>4. CASE RuntimesAwaited
    BY <1>4 DEF RuntimesAwaited, Breaks
<1>5. CASE StopHTTP \/ CoordReturns
    BY <1>5 DEF StopHTTP, CoordReturns
<1>6. CASE WorkerBoots
    BY <1>6 DEF WorkerBoots, Breaks
<1>7. CASE WorkerStopsPolling
    BY <1>7 DEF WorkerStopsPolling, Breaks
<1>8. CASE WorkerReturns \/ Signal \/ Healthy \/ Unhealthy \/ TakeSignal \/ TakeResult \/ DrainCoord \/ DrainWorker
    BY <1>8 DEF WorkerReturns, Signal, Healthy, Unhealthy, TakeSignal, TakeResult, DrainCoord, DrainWorker
<1>9. CASE UNCHANGED serveVars
    BY <1>9 DEF serveVars
<1> QED
    BY <1>1, <1>2, <1>3, <1>4, <1>5, <1>6, <1>7, <1>8, <1>9 DEF ServeNext, ServeSteps

\* Whatever ends, fails or is signalled while the process starts: claims and
\* running tasks of the one before are recovered, or that failed, before a
\* repository is polled or a worker answered (runCoordinatorWithOpts).
THEOREM RecoveryFirst == ServeSpec => []RecoveredFirst
<1>1. RecoveryInv => RecoveredFirst
    BY DEF RecoveryInv, RecoveredFirst
<1> QED
    BY <1>1, RecoveryInitially, RecoveryStep, PTL DEF ServeSpec

-----------------------------------------------------------------------------
(* Database migration, for any tables, rows and batches.                   *)

\* Nothing is in the destination that the source has not got, and the tables
\* whose counts agreed hold what was due.
CopiesOnly ==
    /\ \A t \in MigTables : dst[t] \subseteq src[t]
    /\ mig.pc = "insert" => mig.cursor \subseteq src[This]

DueIsThere ==
    /\ mig.pc \in {"verify", "done"} => \A t \in MigTables : due[t] \subseteq src[t]
    /\ mig.pc = "verify" => \A n \in 1 .. (mig.at - 1) : due[migrationTables[n]] \subseteq dst[migrationTables[n]]

MigPcs == {"idle", "failed", "wipe", "copy", "insert", "verify", "done"}
MigForm ==
    /\ mig \in [pc : MigPcs, at : 1 .. Len(migrationTables), cursor : SUBSET Rows]
    /\ due \in [MigTables -> SUBSET Rows]

MigInv == MigTypeOK /\ MigForm /\ CopiesOnly /\ DueIsThere /\ DoneIsComplete

LEMMA TablesAre ==
    /\ Len(migrationTables) \in Nat /\ Len(migrationTables) > 0
    /\ \A n \in 1 .. Len(migrationTables) : migrationTables[n] \in MigTables
    /\ \A t \in MigTables : \E n \in 1 .. Len(migrationTables) : t = migrationTables[n]
BY MigrationAssumption DEF MigTables

LEMMA MigInitially == MigInit => MigInv
<1> SUFFICES ASSUME MigInit PROVE MigInv
    OBVIOUS
<1>1. MigTypeOK /\ MigForm
    BY TablesAre, MigrationAssumption DEF MigInit, MigTypeOK, MigForm, MigPcs, To, Empty
<1>2. CopiesOnly /\ DueIsThere /\ DoneIsComplete
    BY DEF MigInit, CopiesOnly, DueIsThere, DoneIsComplete, To, Empty
<1> QED
    BY <1>1, <1>2 DEF MigInv

\* The counts of a table agree only when the destination has it all.
LEMMA CountsTell ==
    ASSUME MigInv, NEW t \in MigTables, CountsAgree(t)
    PROVE  dst[t] = src[t]
<1>1. dst[t] \in SUBSET src[t] /\ src[t] \in SUBSET Rows
    BY DEF MigInv, MigTypeOK, CopiesOnly
<1>2. IsFiniteSet(src[t])
    BY <1>1, MigrationAssumption, FS_Subset
<1> QED
    BY <1>1, <1>2, FS_Subset DEF CountsAgree

\* The step that no write goes with: to another place, with nothing to read.
LEMMA MovesAreTyped ==
    ASSUME NEW goal \in MigPcs, NEW n \in 1 .. Len(migrationTables)
    PROVE  /\ To(goal, n) \in [pc : MigPcs, at : 1 .. Len(migrationTables), cursor : SUBSET Rows]
           /\ To(goal, n).pc = goal /\ To(goal, n).at = n
BY DEF To

LEMMA MigStepKeeps == MigInv /\ [MigNext]_migVars => MigInv'
<1> SUFFICES ASSUME MigInv, [MigNext]_migVars PROVE MigInv'
    OBVIOUS
<1> DEFINE last == Len(migrationTables)
<1>0. /\ 1 \in 1 .. last /\ last \in 1 .. last /\ This \in MigTables /\ mig.pc \in MigPcs /\ mig.at \in 1 .. last
      /\ mig.cursor \subseteq Rows
    BY TablesAre DEF This, MigInv, MigForm
<1>f. /\ Stopped \in [pc : MigPcs, at : 1 .. last, cursor : SUBSET Rows] /\ Stopped.pc = "failed"
    BY <1>0, MovesAreTyped DEF Stopped, MigPcs
<1> USE DEF MigInv, MigTypeOK, MigForm, CopiesOnly, DueIsThere, DoneIsComplete, MigPcs
<1>1. ASSUME NEW force \in BOOLEAN, Start(force) PROVE MigInv'
    <2>1. PICK goal \in {"copy", "wipe", "failed"}, n \in 1 .. last : mig' = To(goal, n)
        BY <1>1, <1>0 DEF Start, Stopped
    <2>2. mig'.pc = goal
        BY <2>1, MovesAreTyped
    <2> QED
        BY <1>1, <2>1, <2>2, MovesAreTyped DEF Start
<1>2. CASE WipeTable
    <2>1. PICK goal \in {"copy", "wipe", "failed"}, n \in 1 .. last : mig' = To(goal, n)
        BY <1>2, <1>0 DEF WipeTable, Stopped
    <2>2. mig'.pc = goal
        BY <2>1, MovesAreTyped
    <2>3. \A t \in MigTables : dst'[t] \subseteq dst[t]
        BY <1>2 DEF WipeTable
    <2>4. dst' \in [MigTables -> SUBSET Rows]
        BY <1>2 DEF WipeTable
    <2> QED
        BY <1>2, <2>1, <2>2, <2>3, <2>4, MovesAreTyped DEF WipeTable
<1>3. CASE Select
    <2>1. mig'.pc = "insert" /\ mig'.at = mig.at /\ mig'.cursor = src[This]
        BY <1>3 DEF Select
    <2>2. mig' \in [pc : MigPcs, at : 1 .. last, cursor : SUBSET Rows]
        BY <1>3, <1>0 DEF Select
    <2>3. This' = This
        BY <2>1 DEF This
    <2> QED
        BY <1>3, <2>1, <2>2, <2>3 DEF Select
<1>4. CASE InsertBatch
    <2>1. PICK batch \in Batches :
             IF batch \cap dst[This] = {} /\ \A r \in batch : Referenced(This, r)
             THEN /\ dst' = [dst EXCEPT ![This] = dst[This] \cup batch]
                  /\ mig' = [mig EXCEPT !.cursor = mig.cursor \ batch]
             ELSE mig' = Stopped /\ UNCHANGED dst
        BY <1>4 DEF InsertBatch
    <2>2. batch \subseteq mig.cursor /\ batch \subseteq src[This] /\ UNCHANGED <<src, due>> /\ mig.pc = "insert"
        BY <1>4 DEF Batches, kSubset, InsertBatch
    <2>3. CASE mig' = Stopped /\ UNCHANGED dst
        BY <2>2, <2>3, <1>f
    <2>4. CASE /\ dst' = [dst EXCEPT ![This] = dst[This] \cup batch]
               /\ mig' = [mig EXCEPT !.cursor = mig.cursor \ batch]
        <3>1. mig'.pc = "insert" /\ mig'.at = mig.at /\ mig'.cursor \subseteq mig.cursor
            BY <2>2, <2>4
        <3>2. mig' \in [pc : MigPcs, at : 1 .. last, cursor : SUBSET Rows]
            BY <2>4
        <3>3. This' = This
            BY <3>1 DEF This
        <3>4. dst' \in [MigTables -> SUBSET Rows] /\ \A t \in MigTables : dst'[t] \subseteq src[t]
            BY <2>2, <2>4, <1>0
        <3> QED
            BY <2>2, <3>1, <3>2, <3>3, <3>4
    <2> QED
        BY <2>1, <2>3, <2>4
<1>5. CASE InsertFails
    <2>1. PICK part \in SUBSET mig.cursor : dst' = [dst EXCEPT ![This] = dst[This] \cup part]
        <3>1. PICK batch \in Batches : \E part \in SUBSET {r \in batch \ dst[This] : Referenced(This, r)} :
                  part # batch /\ dst' = [dst EXCEPT ![This] = dst[This] \cup part]
            BY <1>5 DEF InsertFails
        <3>2. batch \subseteq mig.cursor
            BY DEF Batches, kSubset
        <3>3. PICK part \in SUBSET {r \in batch \ dst[This] : Referenced(This, r)} :
                  dst' = [dst EXCEPT ![This] = dst[This] \cup part]
            BY <3>1
        <3>4. part \in SUBSET mig.cursor
            BY <3>2
        <3> QED
            BY <3>3, <3>4
    <2>2. part \subseteq src[This] /\ UNCHANGED <<src, due>> /\ mig' = Stopped
        BY <1>5 DEF InsertFails
    <2>3. dst' \in [MigTables -> SUBSET Rows] /\ \A t \in MigTables : dst'[t] \subseteq src[t]
        BY <2>1, <2>2, <1>0
    <2> QED
        BY <2>2, <2>3, <1>f
<1>6. CASE TableCopied
    <2>1. CASE mig.at < last
        <3>1. mig' = To("copy", mig.at + 1) /\ mig.at + 1 \in 1 .. last /\ UNCHANGED <<src, dst, due>>
            BY <1>6, <2>1, <1>0, TablesAre DEF TableCopied
        <3> QED
            BY <3>1, MovesAreTyped
    <2>2. CASE ~(mig.at < last)
        <3>1. mig' = To("verify", 1) /\ due' = src /\ UNCHANGED <<src, dst>>
            BY <1>6, <2>2 DEF TableCopied
        <3>2. mig'.pc = "verify" /\ mig'.at = 1 /\ mig' \in [pc : MigPcs, at : 1 .. last, cursor : SUBSET Rows]
            BY <3>1, <1>0, MovesAreTyped
        <3> QED
            BY <3>1, <3>2
    <2> QED
        BY <2>1, <2>2
<1>7. CASE VerifyTable
    <2>0. mig.pc = "verify" /\ UNCHANGED <<src, dst, due>>
        BY <1>7 DEF VerifyTable
    <2>1. CASE ~CountsAgree(This)
        BY <1>7, <2>0, <2>1, <1>f DEF VerifyTable
    <2>2. CASE CountsAgree(This)
        <3>1. due[This] \subseteq dst[This]
            BY <2>0, <2>2, <1>0, CountsTell
        <3>2. \A n \in 1 .. mig.at : due[migrationTables[n]] \subseteq dst[migrationTables[n]]
            BY <3>1, <2>0, <1>0 DEF This
        <3>3. CASE mig.at = last
            <4>1. mig' = To("done", 1)
                BY <1>7, <2>2, <3>3 DEF VerifyTable
            <4>2. mig'.pc = "done" /\ mig' \in [pc : MigPcs, at : 1 .. last, cursor : SUBSET Rows]
                BY <4>1, <1>0, MovesAreTyped
            <4>3. \A t \in MigTables : due[t] \subseteq dst[t]
                BY <3>2, <3>3, TablesAre
            <4> QED
                BY <2>0, <4>2, <4>3
        <3>4. CASE mig.at # last
            <4>1. mig' = To("verify", mig.at + 1) /\ mig.at + 1 \in 1 .. last
                BY <1>7, <2>2, <3>4, <1>0, TablesAre DEF VerifyTable
            <4>2. mig'.pc = "verify" /\ mig'.at = mig.at + 1 /\ mig' \in [pc : MigPcs, at : 1 .. last, cursor : SUBSET Rows]
                BY <4>1, MovesAreTyped
            <4>3. \A n \in 1 .. (mig'.at - 1) : n \in 1 .. mig.at
                BY <4>2, <1>0
            <4> QED
                BY <2>0, <3>2, <4>2, <4>3
        <3> QED
            BY <3>3, <3>4
    <2> QED
        BY <2>1, <2>2
<1>8. CASE StatementFails
    BY <1>8, <1>f DEF StatementFails
<1>9. CASE SourceGrows
    <2>1. /\ src' \in [MigTables -> SUBSET Rows] /\ \A t \in MigTables : src[t] \subseteq src'[t]
          /\ UNCHANGED <<dst, mig, due>>
        BY <1>9 DEF SourceGrows
    <2>2. This' = This
        BY <2>1 DEF This
    <2> QED
        BY <1>0, <2>1, <2>2
<1>10. CASE UNCHANGED migVars
    BY <1>10 DEF migVars, This
<1> QED
    BY <1>1, <1>2, <1>3, <1>4, <1>5, <1>6, <1>7, <1>8, <1>9, <1>10 DEF MigNext, MigStep

LEMMA MigCorrect == MigSpec => []MigInv
BY MigInitially, MigStepKeeps, PTL DEF MigSpec

\* For any tables and rows, any batch size, failures and rows that come in
\* meanwhile: when `db migrate` reports success, each row the source held when
\* the comparison began is in the destination (runDBMigrate).
THEOREM MigrationDone == MigSpec => []DoneIsComplete
<1>1. MigInv => DoneIsComplete
    BY DEF MigInv
<1> QED
    BY <1>1, MigCorrect, PTL
=============================================================================
