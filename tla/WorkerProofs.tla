---------------------------- MODULE WorkerProofs ----------------------------
(***************************************************************************)
(* Proofs about the worker: the event pipeline and the issue lock of an    *)
(* execution (AgentRun), the reference counts of the worktree manager      *)
(* (Worktrees), the outcome of codex sessions (CodexSessions), the         *)
(* bindings and the token of the worker process (WorkerHost), and the      *)
(* calls and the endpoints of the reverse tunnel (Tunnel).                 *)
(***************************************************************************)
EXTENDS AgentRun, Worktrees, CodexSessions, WorkerHost, Tunnel, TLAPS, FiniteSetTheorems

-----------------------------------------------------------------------------
(* AgentRun: the pipeline.                                                 *)

\* Between the mutex and its release; between Acquire and the end of Release.
Locked == {"prepare", "launch", "run", "proxydrain", "writerdrain", "close", "unlock"}
HasRef == Locked \cup {"waiting", "unref"}
RunSteps == HasRef \cup {"new", "done"}

RunTypeOK ==
    /\ runStep \in [Jobs -> RunSteps] /\ runCtx \in [Jobs -> {"live", "done"}]
    /\ agent \in [Jobs -> {"none", "working", "ok", "bad", "timeout"}]
    /\ sent \in [Jobs -> Nat] /\ inbox \in [Jobs -> Nat] /\ hold \in [Jobs -> {0, 1}]
    /\ outbox \in [Jobs -> Nat] /\ written \in [Jobs -> Nat] /\ drained \in [Jobs -> BOOLEAN]

\* An agent works while session.Run does, and no event exists before.
BeforeTheRun(j) ==
    /\ runStep[j] # "run" => agent[j] # "working"
    /\ runStep[j] \in {"new", "waiting", "prepare", "launch"} =>
         sent[j] = 0 /\ inbox[j] = 0 /\ hold[j] = 0 /\ outbox[j] = 0 /\ written[j] = 0

\* While the context lives no event is lost: each is in a channel, in the
\* hands of the proxy or on disk; behind the closed channels there is none.
NoEventLost(j) ==
    runCtx[j] = "live" =>
        /\ sent[j] = inbox[j] + hold[j] + outbox[j] + written[j]
        /\ runStep[j] \in {"writerdrain", "close"} => inbox[j] = 0 /\ hold[j] = 0
        /\ runStep[j] = "close" /\ drained[j] => outbox[j] = 0

RunInv == RunTypeOK /\ \A j \in Jobs : BeforeTheRun(j) /\ NoEventLost(j)

LEMMA RunInvInit == RunInit => RunInv
BY DEF RunInit, RunInv, RunTypeOK, BeforeTheRun, NoEventLost, RunSteps, HasRef, Locked

LEMMA RunInvStep == RunInv /\ [RunNext]_runVars => RunInv'
<1> SUFFICES ASSUME RunInv, [RunNext]_runVars PROVE RunInv'
    OBVIOUS
<1> USE DEF RunInv, RunTypeOK, BeforeTheRun, NoEventLost, RunSteps, HasRef, Locked, Upd, pipeVars, endVars
<1>1. CASE UNCHANGED runVars
    BY <1>1 DEF runVars
<1>2. ASSUME NEW j \in Jobs, EnterLock(j) \/ TakeLock(j) \/ GiveLock(j) \/ DropRef(j) PROVE RunInv'
    BY <1>2 DEF EnterLock, TakeLock, GiveLock, DropRef
<1>3. ASSUME NEW j \in Jobs, AgentSends(j) PROVE RunInv'
    BY <1>3 DEF AgentSends
<1>4. ASSUME NEW j \in Jobs, ProxyHandsOn(j) PROVE RunInv'
    BY <1>4 DEF ProxyHandsOn
<1>5. ASSUME NEW j \in Jobs, Writes(j) PROVE RunInv'
    BY <1>5 DEF Writes
<1>6. ASSUME NEW j \in Jobs, WatchTick(j) \/ Watchdog(j) \/ Abort(j) PROVE RunInv'
    BY <1>6 DEF WatchTick, Watchdog, Abort
<1>7. ASSUME NEW j \in Jobs, RunReturns(j) PROVE RunInv'
    BY <1>7 DEF RunReturns
<1>8. ASSUME NEW j \in Jobs, ProxyDrained(j) PROVE RunInv'
    BY <1>8 DEF ProxyDrained
<1>14. ASSUME NEW j \in Jobs, ProxyDrainTimesOut(j) PROVE RunInv'
    BY <1>14 DEF ProxyDrainTimesOut
<1>9. ASSUME NEW j \in Jobs, WriterDrained(j) PROVE RunInv'
    BY <1>9 DEF WriterDrained
<1>10. ASSUME NEW j \in Jobs, CloseSession(j) PROVE RunInv'
    BY <1>10 DEF CloseSession
<1>11. ASSUME NEW j \in Jobs, NEW b \in BOOLEAN, PrepareTree(j, b) \/ LaunchAgent(j, b) PROVE RunInv'
    BY <1>11 DEF PrepareTree, LaunchAgent
<1>12. ASSUME NEW j \in Jobs, NEW b \in BOOLEAN, ProxyTakes(j, b) PROVE RunInv'
    BY <1>12 DEF ProxyTakes
<1>13. ASSUME NEW j \in Jobs, NEW code \in {"ok", "bad", "timeout"}, Exits(j, code) PROVE RunInv'
    BY <1>13 DEF Exits
<1> QED
    BY <1>1, <1>2, <1>3, <1>4, <1>5, <1>6, <1>7, <1>8, <1>9, <1>10, <1>11, <1>12, <1>13, <1>14 DEF RunNext

\* The pipeline loses no event in any execution.
THEOREM PipelineCorrect == RunSpec => []RunInv
BY RunInvInit, RunInvStep, PTL DEF RunSpec

\* An execution that was not cancelled and whose channels were drained in
\* time leaves every event of the agent on disk (Execute), for any number of
\* tasks and events and any capacity of the channels.
THEOREM EventsWritten == RunSpec => []EventsAreWritten
<1>1. RunInv => EventsAreWritten
    BY DEF RunInv, RunTypeOK, NoEventLost, EventsAreWritten
<1> QED
    BY <1>1, PipelineCorrect, PTL

-----------------------------------------------------------------------------
(* AgentRun: the lock of an issue.                                         *)

Users(o) == {j \in Jobs : mine[j] = o}

LockTypeOK ==
    /\ runStep \in [Jobs -> RunSteps] /\ mine \in [Jobs -> {0} \cup LockIds]
    /\ objects \in [LockIds -> [issue : {0} \cup {IssueOf[j] : j \in Jobs}, refs : Nat, holder : {0} \cup Jobs]]

\* refs counts the jobs that refer to the object; without one it is free.
RefsCount == \A o \in LockIds :
    /\ objects[o].refs = Cardinality(Users(o))
    /\ objects[o].refs = 0 => objects[o] = NoLock

\* A job between Acquire and Release refers to the object of its issue, and
\* no two objects in the map are of one issue.
OneObjectPerIssue ==
    /\ \A j \in Jobs : runStep[j] \in HasRef <=> mine[j] # 0
    /\ \A j \in Jobs : mine[j] # 0 => objects[mine[j]].issue = IssueOf[j]
    /\ \A o, q \in LockIds : objects[o].refs > 0 /\ objects[q].refs > 0 /\ objects[o].issue = objects[q].issue => o = q

\* Whoever has passed the mutex of the object is its holder.
HolderIsInside == \A j \in Jobs : runStep[j] \in Locked => objects[mine[j]].holder = j

LockInv == LockTypeOK /\ RefsCount /\ OneObjectPerIssue /\ HolderIsInside

LEMMA UsersFinite == \A o : IsFiniteSet(Users(o)) /\ Cardinality(Users(o)) \in Nat
<1>1. \A o : Users(o) \subseteq Jobs
    BY DEF Users
<1> QED
    BY <1>1, RunAssumption, FS_Subset, FS_CardinalityType

LEMMA UsedHasUser ==
    ASSUME LockInv, NEW o \in LockIds
    PROVE  /\ objects[o].refs = 0 <=> \A j \in Jobs : mine[j] # o
           /\ \A j \in Jobs : objects[o].refs = 1 /\ mine[j] = o => \A k \in Jobs : mine[k] = o => k = j
<1>1. objects[o].refs = Cardinality(Users(o))
    BY DEF LockInv, RefsCount
<1>2. Cardinality(Users(o)) = 0 <=> Users(o) = {}
    BY UsersFinite, FS_EmptySet
<1>3. ASSUME NEW j \in Jobs, objects[o].refs = 1, mine[j] = o, NEW k \in Jobs, mine[k] = o PROVE k = j
  <2>1. PICK x : Users(o) = {x}
    BY <1>1, <1>3, UsersFinite, FS_Singleton
  <2> QED
    BY <2>1, <1>3 DEF Users
<1>4. Users(o) = {} <=> \A j \in Jobs : mine[j] # o
    BY DEF Users
<1> QED
    BY <1>1, <1>2, <1>3, <1>4

LEMMA LockInvInit == RunInit => LockInv
<1> SUFFICES ASSUME RunInit PROVE LockInv
    OBVIOUS
<1>1. \A o \in LockIds : Users(o) = {}
    BY DEF RunInit, Users, LockIds
<1>2. \A o \in LockIds : Cardinality(Users(o)) = 0
    BY <1>1, FS_EmptySet
<1> QED
    BY <1>2 DEF RunInit, LockInv, LockTypeOK, RefsCount, OneObjectPerIssue, HolderIsInside, NoLock, RunSteps, HasRef, Locked

\* As long as a job has no object, one of the objects is free.
LEMMA FreeObject ==
    ASSUME LockInv, NEW j \in Jobs, mine[j] = 0
    PROVE  \E x \in LockIds : objects[x] = NoLock
<1> SUFFICES ASSUME \A x \in LockIds : objects[x] # NoLock PROVE FALSE
    OBVIOUS
<1> DEFINE Rest == Jobs \ {j}
           someUser == [x \in LockIds |-> CHOOSE k \in Rest : mine[k] = x]
<1>1. \A x \in LockIds : \E k \in Rest : mine[k] = x
  <2> SUFFICES ASSUME NEW x \in LockIds PROVE \E k \in Rest : mine[k] = x
    OBVIOUS
  <2>1. objects[x].refs # 0
    BY DEF LockInv, RefsCount
  <2>2. PICK k \in Jobs : mine[k] = x
    BY <2>1, UsedHasUser
  <2>3. k # j
    BY <2>2 DEF LockIds
  <2> QED
    BY <2>2, <2>3
<1>2. IsFiniteSet(Rest) /\ Cardinality(Rest) = Cardinality(Jobs) - 1 /\ Cardinality(Jobs) \in Nat
    BY RunAssumption, FS_RemoveElement, FS_CardinalityType
<1>3. IsFiniteSet(LockIds) /\ Cardinality(LockIds) = Cardinality(Jobs)
    BY <1>2, FS_Interval DEF LockIds
<1>4. \A x \in LockIds : someUser[x] \in Rest /\ mine[someUser[x]] = x
    BY <1>1
<1>5. someUser \in [LockIds -> Rest]
    BY <1>4
<1>6. Cardinality(Rest) < Cardinality(LockIds)
    BY <1>2, <1>3
<1> HIDE DEF Rest, someUser
<1>7. \E x, y \in LockIds : x # y /\ someUser[x] = someUser[y]
    BY <1>2, <1>3, <1>5, <1>6, FS_PigeonHole
<1> QED
    BY <1>4, <1>7

\* Acquire joins the object of the issue or takes a free one.
LEMMA EnterKeepsLockInv == ASSUME LockInv, NEW j \in Jobs, EnterLock(j) PROVE LockInv'
<1> DEFINE has == {o \in LockIds : objects[o].refs > 0 /\ objects[o].issue = IssueOf[j]}
           o   == IF has # {} THEN CHOOSE x \in has : TRUE ELSE CHOOSE x \in LockIds : objects[x] = NoLock
           taken == [objects[o] EXCEPT !.issue = IssueOf[j], !.refs = objects[o].refs + 1]
<1>1. mine[j] = 0
    BY DEF EnterLock, LockInv, OneObjectPerIssue, HasRef, Locked
<1>2. \E x \in LockIds : objects[x] = NoLock
    BY <1>1, FreeObject
<1>3. o \in LockIds
    BY <1>2
<1>4. (objects[o].refs > 0 /\ objects[o].issue = IssueOf[j]) \/ (objects[o] = NoLock /\ has = {})
    BY <1>2
<1>5. /\ objects' = [objects EXCEPT ![o] = taken] /\ mine' = [mine EXCEPT ![j] = o]
      /\ runStep' = [runStep EXCEPT ![j] = "waiting"]
    BY DEF EnterLock, Upd
<1>6. objects[o] \in [issue : {0} \cup {IssueOf[k] : k \in Jobs}, refs : Nat, holder : {0} \cup Jobs]
    BY <1>3 DEF LockInv, LockTypeOK
<1> HIDE DEF has, o
<1>7. /\ taken \in [issue : {0} \cup {IssueOf[k] : k \in Jobs}, refs : Nat, holder : {0} \cup Jobs]
      /\ taken.issue = IssueOf[j] /\ taken.refs = objects[o].refs + 1 /\ taken.holder = objects[o].holder
  <2> DEFINE Issues == {0} \cup {IssueOf[k] : k \in Jobs}
  <2>1. IssueOf[j] \in Issues /\ objects[o].refs + 1 \in Nat /\ objects[o] \in [issue : Issues, refs : Nat, holder : {0} \cup Jobs]
    BY <1>6
  <2> HIDE DEF Issues
  <2>2. /\ taken \in [issue : Issues, refs : Nat, holder : {0} \cup Jobs]
        /\ taken.issue = IssueOf[j] /\ taken.refs = objects[o].refs + 1 /\ taken.holder = objects[o].holder
    BY <2>1
  <2> QED
    BY <2>2 DEF Issues
<1>8. \A q \in LockIds : q # o /\ objects[q].refs > 0 => objects[q].issue # IssueOf[j]
    BY <1>3, <1>4 DEF LockInv, OneObjectPerIssue, has
<1> HIDE DEF taken
<1>9. LockTypeOK'
    BY <1>3, <1>5, <1>7 DEF LockInv, LockTypeOK, RunSteps, HasRef
<1>10. RefsCount'
  <2> SUFFICES ASSUME NEW q \in LockIds
      PROVE objects'[q].refs = Cardinality(Users(q)') /\ (objects'[q].refs = 0 => objects'[q] = NoLock)
    BY DEF RefsCount
  <2>0. objects[q].refs = Cardinality(Users(q)) /\ (objects[q].refs = 0 => objects[q] = NoLock)
    BY DEF LockInv, RefsCount
  <2>1. CASE q = o
    <3>1. Users(q)' = Users(q) \cup {j} /\ j \notin Users(q)
      BY <2>1, <1>1, <1>3, <1>5 DEF Users, LockInv, LockTypeOK, LockIds
    <3>2. Cardinality(Users(q)') = Cardinality(Users(q)) + 1
      BY <3>1, UsersFinite, FS_AddElement
    <3> QED
      BY <2>0, <2>1, <3>2, <1>3, <1>5, <1>6, <1>7 DEF LockInv, LockTypeOK
  <2>2. CASE q # o
    <3>1. Users(q)' = Users(q)
      BY <2>2, <1>1, <1>5 DEF Users, LockInv, LockTypeOK, LockIds
    <3> QED
      BY <2>0, <2>2, <3>1, <1>5 DEF LockInv, LockTypeOK
  <2> QED
    BY <2>1, <2>2
<1>11. OneObjectPerIssue'
  <2>1. \A k \in Jobs : (runStep[k] \in HasRef <=> mine[k] # 0)'
    BY <1>3, <1>5 DEF LockInv, LockTypeOK, OneObjectPerIssue, HasRef, LockIds
  <2>2. ASSUME NEW k \in Jobs, mine'[k] # 0 PROVE objects'[mine'[k]].issue = IssueOf[k]
    <3>1. k # j /\ mine[k] = o => IssueOf[k] = IssueOf[j]
      <4>1. ASSUME k # j, mine[k] = o PROVE IssueOf[k] = IssueOf[j]
        <5>1. objects[o].refs # 0
          BY <4>1, <1>3, UsedHasUser
        <5>2. objects[o].issue = IssueOf[k]
          BY <4>1, <1>3 DEF LockInv, OneObjectPerIssue, LockIds
        <5> QED
          BY <5>1, <5>2, <1>4 DEF NoLock
      <4> QED
        BY <4>1
    <3> QED
      BY <2>2, <3>1, <1>3, <1>5, <1>7 DEF LockInv, LockTypeOK, OneObjectPerIssue
  <2>3. ASSUME NEW p \in LockIds, NEW q \in LockIds, objects'[p].refs > 0, objects'[q].refs > 0, objects'[p].issue = objects'[q].issue
        PROVE  p = q
    BY <2>3, <1>3, <1>5, <1>7, <1>8 DEF LockInv, LockTypeOK, OneObjectPerIssue
  <2> QED
    BY <2>1, <2>2, <2>3 DEF OneObjectPerIssue
<1>12. HolderIsInside'
    BY <1>3, <1>5, <1>7 DEF LockInv, LockTypeOK, HolderIsInside, Locked
<1> QED
    BY <1>9, <1>10, <1>11, <1>12 DEF LockInv

LEMMA TakeKeepsLockInv == ASSUME LockInv, NEW j \in Jobs, TakeLock(j) PROVE LockInv'
<1> DEFINE o == mine[j]
           locked == [objects[o] EXCEPT !.holder = j]
<1>1. o \in LockIds
    BY DEF TakeLock, LockInv, LockTypeOK, OneObjectPerIssue, HasRef
<1>2. objects[o] \in [issue : {0} \cup {IssueOf[k] : k \in Jobs}, refs : Nat, holder : {0} \cup Jobs] /\ objects[o].holder = 0
    BY <1>1 DEF TakeLock, LockInv, LockTypeOK
<1>3. objects' = [objects EXCEPT ![o] = locked] /\ mine' = mine /\ runStep' = [runStep EXCEPT ![j] = "prepare"]
    BY DEF TakeLock, Upd
<1>4. /\ locked \in [issue : {0} \cup {IssueOf[k] : k \in Jobs}, refs : Nat, holder : {0} \cup Jobs]
      /\ locked.issue = objects[o].issue /\ locked.refs = objects[o].refs /\ locked.holder = j
    BY <1>2
<1>5. objects[o].refs # 0
    BY <1>1, UsedHasUser
<1> HIDE DEF o, locked
<1>6. LockTypeOK'
    BY <1>1, <1>3, <1>4 DEF LockInv, LockTypeOK, RunSteps, HasRef, Locked
<1>7. RefsCount'
    BY <1>1, <1>3, <1>4, <1>5 DEF LockInv, LockTypeOK, RefsCount, Users
<1>8. OneObjectPerIssue'
    BY <1>1, <1>3, <1>4 DEF LockInv, LockTypeOK, OneObjectPerIssue, HasRef, Locked, TakeLock
<1>9. HolderIsInside'
    BY <1>1, <1>2, <1>3, <1>4, RunAssumption DEF LockInv, LockTypeOK, HolderIsInside, o, Locked
<1> QED
    BY <1>6, <1>7, <1>8, <1>9 DEF LockInv

LEMMA GiveKeepsLockInv == ASSUME LockInv, NEW j \in Jobs, GiveLock(j) PROVE LockInv'
<1> DEFINE o == mine[j]
           freed == [objects[o] EXCEPT !.holder = 0]
<1>1. o \in LockIds /\ objects[o].holder = j
    BY DEF GiveLock, LockInv, LockTypeOK, OneObjectPerIssue, HolderIsInside, HasRef, Locked
<1>2. objects[o] \in [issue : {0} \cup {IssueOf[k] : k \in Jobs}, refs : Nat, holder : {0} \cup Jobs]
    BY <1>1 DEF LockInv, LockTypeOK
<1>3. objects' = [objects EXCEPT ![o] = freed] /\ mine' = mine /\ runStep' = [runStep EXCEPT ![j] = "unref"]
    BY DEF GiveLock, Upd
<1>4. /\ freed \in [issue : {0} \cup {IssueOf[k] : k \in Jobs}, refs : Nat, holder : {0} \cup Jobs]
      /\ freed.issue = objects[o].issue /\ freed.refs = objects[o].refs
    BY <1>2
<1>5. objects[o].refs # 0
    BY <1>1, UsedHasUser
<1> HIDE DEF o, freed
<1>6. LockTypeOK'
    BY <1>1, <1>3, <1>4 DEF LockInv, LockTypeOK, RunSteps, HasRef
<1>7. RefsCount'
    BY <1>1, <1>3, <1>4, <1>5 DEF LockInv, LockTypeOK, RefsCount, Users
<1>8. OneObjectPerIssue'
    BY <1>1, <1>3, <1>4 DEF LockInv, LockTypeOK, OneObjectPerIssue, HasRef, Locked, GiveLock
<1>9. HolderIsInside'
    BY <1>1, <1>3 DEF LockInv, LockTypeOK, HolderIsInside, Locked
<1> QED
    BY <1>6, <1>7, <1>8, <1>9 DEF LockInv

LEMMA DropKeepsLockInv == ASSUME LockInv, NEW j \in Jobs, DropRef(j) PROVE LockInv'
<1> DEFINE o == mine[j]
           left == IF objects[o].refs = 1 THEN NoLock ELSE [objects[o] EXCEPT !.refs = objects[o].refs - 1]
<1>1. o \in LockIds
    BY DEF DropRef, LockInv, LockTypeOK, OneObjectPerIssue, HasRef
<1>2. objects[o] \in [issue : {0} \cup {IssueOf[k] : k \in Jobs}, refs : Nat, holder : {0} \cup Jobs]
    BY <1>1 DEF LockInv, LockTypeOK
<1>3. objects' = [objects EXCEPT ![o] = left] /\ mine' = [mine EXCEPT ![j] = 0] /\ runStep' = [runStep EXCEPT ![j] = "done"]
    BY DEF DropRef, Upd
<1>4. objects[o].refs # 0
    BY <1>1, UsedHasUser
<1>5. /\ left \in [issue : {0} \cup {IssueOf[k] : k \in Jobs}, refs : Nat, holder : {0} \cup Jobs]
      /\ left.refs = objects[o].refs - 1 /\ (left.refs = 0 => left = NoLock)
      /\ left.refs # 0 => left.issue = objects[o].issue /\ left.holder = objects[o].holder
    BY <1>2, <1>4 DEF NoLock
<1>6. objects[o].refs = 1 => \A k \in Jobs : mine[k] = o => k = j
    BY <1>1, UsedHasUser
<1>7. left.refs = 0 => objects[o].refs = 1
    BY <1>2, <1>5
<1> HIDE DEF left
<1>8. LockTypeOK'
    BY <1>1, <1>3, <1>5 DEF LockInv, LockTypeOK, RunSteps
<1>9. RefsCount'
  <2> SUFFICES ASSUME NEW q \in LockIds
      PROVE objects'[q].refs = Cardinality(Users(q)') /\ (objects'[q].refs = 0 => objects'[q] = NoLock)
    BY DEF RefsCount
  <2>0. objects[q].refs = Cardinality(Users(q)) /\ (objects[q].refs = 0 => objects[q] = NoLock)
    BY DEF LockInv, RefsCount
  <2>1. CASE q = o
    <3>1. Users(q)' = Users(q) \ {j} /\ j \in Users(q)
      BY <2>1, <1>1, <1>3 DEF Users, LockInv, LockTypeOK, LockIds
    <3>2. Cardinality(Users(q)') = Cardinality(Users(q)) - 1
      BY <3>1, UsersFinite, FS_RemoveElement
    <3> QED
      BY <2>0, <2>1, <3>2, <1>1, <1>3, <1>5 DEF LockInv, LockTypeOK
  <2>2. CASE q # o
    <3>1. Users(q)' = Users(q)
      BY <2>2, <1>3 DEF Users, LockInv, LockTypeOK, LockIds
    <3> QED
      BY <2>0, <2>2, <3>1, <1>3 DEF LockInv, LockTypeOK
  <2> QED
    BY <2>1, <2>2
<1>10. OneObjectPerIssue'
  <2>1. \A k \in Jobs : (runStep[k] \in HasRef <=> mine[k] # 0)'
    BY <1>3 DEF LockInv, LockTypeOK, OneObjectPerIssue, HasRef, Locked
  <2>2. ASSUME NEW k \in Jobs, mine'[k] # 0 PROVE objects'[mine'[k]].issue = IssueOf[k]
    <3>1. k # j /\ mine'[k] = mine[k] /\ mine[k] \in LockIds /\ objects[mine[k]].issue = IssueOf[k]
      BY <2>2, <1>3 DEF LockInv, LockTypeOK, OneObjectPerIssue
    <3>2. CASE mine[k] = o
      BY <3>1, <3>2, <1>1, <1>3, <1>5, <1>6, <1>7 DEF LockInv, LockTypeOK
    <3>3. CASE mine[k] # o
      BY <3>1, <3>3, <1>3 DEF LockInv, LockTypeOK
    <3> QED
      BY <3>2, <3>3
  <2>3. ASSUME NEW p \in LockIds, NEW q \in LockIds, objects'[p].refs > 0, objects'[q].refs > 0, objects'[p].issue = objects'[q].issue
        PROVE  p = q
    <3>1. \A x \in LockIds : objects'[x].refs > 0 => objects[x].refs > 0 /\ objects'[x].issue = objects[x].issue
      BY <1>1, <1>2, <1>3, <1>5 DEF LockInv, LockTypeOK
    <3> QED
      BY <2>3, <3>1 DEF LockInv, OneObjectPerIssue
  <2> QED
    BY <2>1, <2>2, <2>3 DEF OneObjectPerIssue
<1>11. HolderIsInside'
  <2> SUFFICES ASSUME NEW k \in Jobs, runStep'[k] \in Locked PROVE objects'[mine'[k]].holder = k
    BY DEF HolderIsInside
  <2>1. k # j /\ mine'[k] = mine[k] /\ mine[k] \in LockIds /\ objects[mine[k]].holder = k
    BY <1>3 DEF LockInv, LockTypeOK, OneObjectPerIssue, HolderIsInside, HasRef, Locked
  <2>2. CASE mine[k] = o
    BY <2>1, <2>2, <1>1, <1>3, <1>5, <1>6, <1>7 DEF LockInv, LockTypeOK
  <2>3. CASE mine[k] # o
    BY <2>1, <2>3, <1>3 DEF LockInv, LockTypeOK
  <2> QED
    BY <2>2, <2>3
<1> QED
    BY <1>8, <1>9, <1>10, <1>11 DEF LockInv

\* Every other step moves a job within, or outside of, the lock.
LEMMA OthersKeepLockInv ==
    ASSUME LockInv, UNCHANGED <<objects, mine>>, runStep' \in [Jobs -> RunSteps],
           \A j \in Jobs : runStep'[j] = runStep[j] \/ (runStep[j] \in Locked /\ runStep'[j] \in Locked)
    PROVE  LockInv'
<1>1. LockTypeOK' /\ RefsCount' /\ HolderIsInside'
    BY DEF LockInv, LockTypeOK, RefsCount, HolderIsInside, Users
<1>2. OneObjectPerIssue'
    BY DEF LockInv, OneObjectPerIssue, HasRef
<1> QED
    BY <1>1, <1>2 DEF LockInv

LEMMA LockInvStep == LockInv /\ [RunNext]_runVars => LockInv'
<1> SUFFICES ASSUME LockInv, [RunNext]_runVars PROVE LockInv'
    OBVIOUS
<1> USE DEF Upd, pipeVars, endVars, RunSteps, HasRef, Locked
<1>0. runStep \in [Jobs -> RunSteps]
    BY DEF LockInv, LockTypeOK
<1>1. CASE UNCHANGED runVars
    BY <1>0, <1>1, OthersKeepLockInv DEF runVars
<1>2. ASSUME NEW j \in Jobs, AgentSends(j) \/ ProxyHandsOn(j) \/ Writes(j) \/ WatchTick(j) \/ Watchdog(j) \/ Abort(j) PROVE LockInv'
  <2>1. UNCHANGED <<objects, mine, runStep>>
    BY <1>2 DEF AgentSends, ProxyHandsOn, Writes, WatchTick, Watchdog, Abort
  <2> QED
    BY <1>0, <2>1, OthersKeepLockInv
<1>3. ASSUME NEW j \in Jobs, RunReturns(j) \/ ProxyDrained(j) \/ ProxyDrainTimesOut(j) \/ WriterDrained(j) \/ CloseSession(j) PROVE LockInv'
  <2>1. UNCHANGED <<objects, mine>> /\ runStep' \in [Jobs -> RunSteps]
    BY <1>0, <1>3 DEF RunReturns, ProxyDrained, ProxyDrainTimesOut, WriterDrained, CloseSession
  <2>2. \A k \in Jobs : runStep'[k] = runStep[k] \/ (runStep[k] \in Locked /\ runStep'[k] \in Locked)
    BY <1>0, <1>3 DEF RunReturns, ProxyDrained, ProxyDrainTimesOut, WriterDrained, CloseSession
  <2> QED
    BY <2>1, <2>2, OthersKeepLockInv
<1>4. ASSUME NEW j \in Jobs, NEW b \in BOOLEAN, PrepareTree(j, b) \/ LaunchAgent(j, b) \/ ProxyTakes(j, b) PROVE LockInv'
  <2>1. UNCHANGED <<objects, mine>> /\ runStep' \in [Jobs -> RunSteps]
    BY <1>0, <1>4 DEF PrepareTree, LaunchAgent, ProxyTakes
  <2>2. \A k \in Jobs : runStep'[k] = runStep[k] \/ (runStep[k] \in Locked /\ runStep'[k] \in Locked)
    BY <1>0, <1>4 DEF PrepareTree, LaunchAgent, ProxyTakes
  <2> QED
    BY <2>1, <2>2, OthersKeepLockInv
<1>5. ASSUME NEW j \in Jobs, NEW code \in {"ok", "bad", "timeout"}, Exits(j, code) PROVE LockInv'
  <2>1. UNCHANGED <<objects, mine, runStep>>
    BY <1>5 DEF Exits
  <2> QED
    BY <1>0, <2>1, OthersKeepLockInv
<1> QED
    BY <1>1, <1>2, <1>3, <1>4, <1>5, EnterKeepsLockInv, TakeKeepsLockInv, GiveKeepsLockInv, DropKeepsLockInv DEF RunNext

\* The lock objects keep the tasks of one issue apart, also when the last
\* user drops an object from the map while another acquires it
\* (issueTaskLocks.Acquire and Release), for any set of tasks.
THEOREM OneRunAtATime == RunSpec => []OneRunPerIssue
<1>1. LockInv => OneRunPerIssue
  <2> SUFFICES ASSUME LockInv, NEW i \in Jobs, NEW j \in Jobs, i # j, IssueOf[i] = IssueOf[j],
                      runStep[i] \in Locked, runStep[j] \in Locked
               PROVE  FALSE
    BY DEF OneRunPerIssue, LockInv, LockTypeOK, RunSteps, HasRef, Locked
  <2>1. \A k \in {i, j} : mine[k] \in LockIds /\ objects[mine[k]].issue = IssueOf[k] /\ objects[mine[k]].holder = k
    BY DEF LockInv, LockTypeOK, OneObjectPerIssue, HolderIsInside, HasRef
  <2>2. \A k \in {i, j} : objects[mine[k]].refs # 0 /\ objects[mine[k]].refs \in Nat
    BY <2>1, UsedHasUser DEF LockInv, LockTypeOK
  <2>3. mine[i] = mine[j]
    BY <2>1, <2>2 DEF LockInv, OneObjectPerIssue
  <2> QED
    BY <2>1, <2>3
<1> QED
    BY <1>1, LockInvInit, LockInvStep, PTL DEF RunSpec

-----------------------------------------------------------------------------
(* Worktrees.                                                              *)

Holders(p) == {r \in Runners : p \in using[r]}

TreeTypeOK ==
    /\ refs \in [Trees -> Nat] /\ using \in [Runners -> SUBSET Trees]
    /\ heads \subseteq Trees /\ workerCrashes \in Nat

\* The manager's count of a tree is the number of runs in it, and a run is
\* in one tree at most.
RefsAreHolders ==
    /\ \A p \in Trees : refs[p] = Cardinality(Holders(p))
    /\ \A r \in Runners : \A p, q \in using[r] : p = q

\* Nothing is left on disk or in git of the tree of an issue that nobody uses,
\* unless a rollout of the issue was tried or the worker died.
NothingLeft ==
    workerCrashes = 0 => \A i \in TreeIssues \ rolled :
        /\ <<i, 0>> \in dirs \cup listed \cup heads \cup dirty => refs[<<i, 0>>] > 0
        /\ \A p \in heads : p[1] = i => p[2] = 0

TreeInv == TreeTypeOK /\ RefsAreHolders /\ HeldTreesStay /\ NothingLeft

LEMMA HoldersFinite == \A p : IsFiniteSet(Holders(p)) /\ Cardinality(Holders(p)) \in Nat
<1>1. \A p : Holders(p) \subseteq Runners
    BY DEF Holders
<1> QED
    BY <1>1, TreeAssumption, FS_Subset, FS_CardinalityType

\* The last reference is the reference of the only run in the tree.
LEMMA LastRefIsMine ==
    ASSUME TreeInv, NEW r \in Runners, NEW p \in using[r]
    PROVE  /\ p \in Trees /\ refs[p] > 0 /\ refs[p] \in Nat
           /\ LastRef(p) => \A q \in Runners : p \in using[q] => q = r
<1>1. p \in Trees /\ refs[p] \in Nat /\ refs[p] = Cardinality(Holders(p))
    BY DEF TreeInv, TreeTypeOK, RefsAreHolders
<1>2. r \in Holders(p)
    BY DEF Holders
<1>3. refs[p] # 0
    BY <1>1, <1>2, HoldersFinite, FS_EmptySet
<1>4. ASSUME refs[p] <= 1, NEW q \in Runners, p \in using[q] PROVE q = r
  <2>1. Cardinality(Holders(p)) = 1
    BY <1>1, <1>3, <1>4
  <2>2. PICK x : Holders(p) = {x}
    BY <2>1, HoldersFinite, FS_Singleton
  <2> QED
    BY <1>2, <1>4, <2>2 DEF Holders
<1> QED
    BY <1>1, <1>3, <1>4 DEF LastRef

LEMMA CreateKeepsTreeInv ==
    ASSUME TreeInv, NEW r \in Runners, NEW p \in Trees, NEW synced \in BOOLEAN, CreateTree(r, p, synced)
    PROVE  TreeInv'
<1> DEFINE made == Creatable(p) /\ (p \in dirs => synced)
<1>0. refs[p] \in Nat /\ p = <<p[1], p[2]>> /\ p[1] \in TreeIssues
    BY DEF TreeInv, TreeTypeOK, Trees
<1>1. CASE made
  <2>1. /\ dirs' = dirs \cup {p, Parent(p)} /\ listed' = (listed \cap dirs) \cup {p} /\ heads' = heads \cup {p}
        /\ refs' = [refs EXCEPT ![p] = refs[p] + 1] /\ using' = [using EXCEPT ![r] = {p}] /\ using[r] = {}
        /\ UNCHANGED <<dirty, workerCrashes>> /\ rolled' = IF p[2] # 0 THEN rolled \cup {p[1]} ELSE rolled
    BY <1>1 DEF CreateTree
  <2>2. TreeTypeOK'
    BY <2>1, <1>0 DEF TreeInv, TreeTypeOK
  <2>3. RefsAreHolders'
    <3>1. ASSUME NEW q \in Trees PROVE refs'[q] = Cardinality(Holders(q)')
      <4>0. refs[q] = Cardinality(Holders(q))
        BY DEF TreeInv, RefsAreHolders
      <4>1. CASE q = p
        <5>1. Holders(q)' = Holders(q) \cup {r} /\ r \notin Holders(q)
          BY <2>1, <4>1 DEF Holders, TreeInv, TreeTypeOK
        <5>2. Cardinality(Holders(q)') = Cardinality(Holders(q)) + 1
          BY <5>1, HoldersFinite, FS_AddElement
        <5> QED
          BY <2>1, <4>0, <4>1, <5>2 DEF TreeInv, TreeTypeOK
      <4>2. CASE q # p
        <5>1. Holders(q)' = Holders(q)
          BY <2>1, <4>2 DEF Holders, TreeInv, TreeTypeOK
        <5> QED
          BY <2>1, <4>0, <4>2, <5>1 DEF TreeInv, TreeTypeOK
      <4> QED
        BY <4>1, <4>2
    <3>2. \A q \in Runners : \A x, y \in using'[q] : x = y
      BY <2>1 DEF TreeInv, TreeTypeOK, RefsAreHolders
    <3> QED
      BY <3>1, <3>2 DEF RefsAreHolders
  <2>4. HeldTreesStay'
    BY <2>1 DEF TreeInv, TreeTypeOK, HeldTreesStay
  <2>5. NothingLeft'
    <3> SUFFICES ASSUME workerCrashes' = 0, NEW i \in TreeIssues \ rolled'
                 PROVE  /\ <<i, 0>> \in dirs' \cup listed' \cup heads' \cup dirty' => refs'[<<i, 0>>] > 0
                        /\ \A q \in heads' : q[1] = i => q[2] = 0
      BY DEF NothingLeft
    <3>1. i \in TreeIssues \ rolled /\ <<i, 0>> \in Trees
      BY <2>1 DEF Trees
    <3>2. p[1] = i => p = <<i, 0>>
      BY <1>0, <2>1
    <3>3. Parent(p) = <<i, 0>> => p = <<i, 0>>
      BY <3>2 DEF Parent
    <3>4. <<i, 0>> \in dirs \cup listed \cup heads \cup dirty => refs[<<i, 0>>] > 0
      BY <2>1, <3>1 DEF TreeInv, NothingLeft
    <3>5. refs'[<<i, 0>>] >= refs[<<i, 0>>] /\ refs'[<<i, 0>>] \in Nat /\ refs[<<i, 0>>] \in Nat /\ (p = <<i, 0>> => refs'[<<i, 0>>] > 0)
      BY <1>0, <2>1, <3>1 DEF TreeInv, TreeTypeOK
    <3>6. <<i, 0>> \in dirs' \cup listed' \cup heads' \cup dirty' => refs'[<<i, 0>>] > 0
      BY <2>1, <3>3, <3>4, <3>5
    <3>7. \A q \in heads : q[1] = i => q[2] = 0
      BY <2>1, <3>1 DEF TreeInv, NothingLeft
    <3> QED
      BY <2>1, <3>2, <3>6, <3>7, <1>0
  <2> QED
    BY <2>2, <2>3, <2>4, <2>5 DEF TreeInv
<1>2. CASE ~made
  <2>1. /\ listed' = listed \cap dirs /\ UNCHANGED <<heads, refs, using, dirty, workerCrashes>>
        /\ dirs' = IF p \in dirs \/ p = Parent(p) THEN dirs ELSE dirs \cup {Parent(p)}
        /\ rolled' = IF p[2] # 0 THEN rolled \cup {p[1]} ELSE rolled
    BY <1>2 DEF CreateTree
  <2>2. TreeTypeOK' /\ RefsAreHolders' /\ HeldTreesStay'
    BY <2>1 DEF TreeInv, TreeTypeOK, RefsAreHolders, HeldTreesStay, Holders
  <2>3. NothingLeft'
    <3> SUFFICES ASSUME workerCrashes' = 0, NEW i \in TreeIssues \ rolled'
                 PROVE  /\ <<i, 0>> \in dirs' \cup listed' \cup heads' \cup dirty' => refs'[<<i, 0>>] > 0
                        /\ \A q \in heads' : q[1] = i => q[2] = 0
      BY DEF NothingLeft
    <3>1. i \in TreeIssues \ rolled
      BY <2>1
    <3>2. p[2] # 0 => Parent(p) # <<i, 0>>
      BY <2>1 DEF Parent
    <3>3. p[2] = 0 => p = Parent(p)
      BY <1>0 DEF Parent
    <3> QED
      BY <2>1, <3>1, <3>2, <3>3 DEF TreeInv, NothingLeft
  <2> QED
    BY <2>2, <2>3 DEF TreeInv
<1> QED
    BY <1>1, <1>2

LEMMA RemoveKeepsTreeInv ==
    ASSUME TreeInv, NEW r \in Runners, RemoveTree(r)
    PROVE  TreeInv'
<1>1. PICK p \in using[r] :
         /\ refs' = [refs EXCEPT ![p] = IF @ > 0 THEN @ - 1 ELSE 0]
         /\ IF LastRef(p) THEN RemoveGit(p) ELSE UNCHANGED <<dirs, listed, heads, dirty>>
    BY DEF RemoveTree
<1>2. /\ p \in Trees /\ refs[p] > 0 /\ refs[p] \in Nat
      /\ LastRef(p) => \A q \in Runners : p \in using[q] => q = r
    BY LastRefIsMine
<1>3. /\ refs' = [refs EXCEPT ![p] = refs[p] - 1] /\ using' = [using EXCEPT ![r] = {}]
      /\ UNCHANGED <<workerCrashes, rolled>>
    BY <1>1, <1>2 DEF RemoveTree
<1>4. /\ LastRef(p) => dirs' = dirs \ {p} /\ listed' = listed \ {p} /\ heads' = heads \ {p} /\ dirty' = dirty \ {p}
      /\ ~LastRef(p) => UNCHANGED <<dirs, listed, heads, dirty>>
    BY <1>1 DEF RemoveGit, Deleted
<1>5. TreeTypeOK'
    BY <1>2, <1>3, <1>4 DEF TreeInv, TreeTypeOK
<1>6. RefsAreHolders'
  <2>1. ASSUME NEW q \in Trees PROVE refs'[q] = Cardinality(Holders(q)')
    <3>0. refs[q] = Cardinality(Holders(q))
      BY DEF TreeInv, RefsAreHolders
    <3>1. CASE q = p
      <4>1. Holders(q)' = Holders(q) \ {r} /\ r \in Holders(q)
        BY <1>3, <3>1 DEF Holders, TreeInv, TreeTypeOK
      <4>2. Cardinality(Holders(q)') = Cardinality(Holders(q)) - 1
        BY <4>1, HoldersFinite, FS_RemoveElement
      <4> QED
        BY <1>3, <3>0, <3>1, <4>2 DEF TreeInv, TreeTypeOK
    <3>2. CASE q # p
      <4>1. q \notin using[r]
        BY <3>2 DEF TreeInv, RefsAreHolders
      <4>2. Holders(q)' = Holders(q)
        BY <1>3, <4>1 DEF Holders, TreeInv, TreeTypeOK
      <4> QED
        BY <1>3, <3>0, <3>2, <4>2 DEF TreeInv, TreeTypeOK
    <3> QED
      BY <3>1, <3>2
  <2>2. \A q \in Runners : \A x, y \in using'[q] : x = y
    BY <1>3 DEF TreeInv, TreeTypeOK, RefsAreHolders
  <2> QED
    BY <2>1, <2>2 DEF RefsAreHolders
<1>7. HeldTreesStay'
    BY <1>2, <1>3, <1>4 DEF TreeInv, TreeTypeOK, HeldTreesStay
<1>8. NothingLeft'
  <2> SUFFICES ASSUME workerCrashes' = 0, NEW i \in TreeIssues \ rolled'
               PROVE  /\ <<i, 0>> \in dirs' \cup listed' \cup heads' \cup dirty' => refs'[<<i, 0>>] > 0
                      /\ \A q \in heads' : q[1] = i => q[2] = 0
    BY DEF NothingLeft
  <2>1. /\ <<i, 0>> \in dirs \cup listed \cup heads \cup dirty => refs[<<i, 0>>] > 0
        /\ \A q \in heads : q[1] = i => q[2] = 0
    BY <1>3 DEF TreeInv, NothingLeft
  <2>2. dirs' \subseteq dirs /\ listed' \subseteq listed /\ heads' \subseteq heads /\ dirty' \subseteq dirty
    BY <1>4
  <2>3. CASE p = <<i, 0>>
    BY <1>2, <1>3, <1>4, <2>1, <2>2, <2>3 DEF TreeInv, TreeTypeOK, LastRef
  <2>4. CASE p # <<i, 0>>
    BY <1>3, <2>1, <2>2, <2>4 DEF TreeInv, TreeTypeOK
  <2> QED
    BY <2>3, <2>4
<1> QED
    BY <1>5, <1>6, <1>7, <1>8 DEF TreeInv

LEMMA NoHolders == ASSUME \A r \in Runners : using[r] = {} PROVE \A p : Cardinality(Holders(p)) = 0
<1>1. \A p : Holders(p) = {}
    BY DEF Holders
<1> QED
    BY <1>1, FS_EmptySet

LEMMA NoHoldersNext == ASSUME \A r \in Runners : using'[r] = {} PROVE \A p : Cardinality(Holders(p)') = 0
<1>1. \A p : Holders(p)' = {}
    BY DEF Holders
<1> QED
    BY <1>1, FS_EmptySet

\* The reference counts of the manager are the runs in each tree.
THEOREM RefsCorrect == TreeSpec => []TreeInv
<1>1. TreeInit => TreeInv
  <2> SUFFICES ASSUME TreeInit PROVE TreeInv
    OBVIOUS
  <2>1. \A p : Cardinality(Holders(p)) = 0
    BY NoHolders DEF TreeInit
  <2> QED
    BY <2>1 DEF TreeInit, TreeInv, TreeTypeOK, RefsAreHolders, HeldTreesStay, NothingLeft
<1>2. TreeInv /\ [TreeNext]_treeVars => TreeInv'
  <2> SUFFICES ASSUME TreeInv, [TreeNext]_treeVars PROVE TreeInv'
    OBVIOUS
  <2>1. CASE UNCHANGED treeVars
    BY <2>1 DEF treeVars, TreeInv, TreeTypeOK, RefsAreHolders, HeldTreesStay, NothingLeft, Holders
  <2>2. CASE Restart
    <3>1. \A p : Cardinality(Holders(p)') = 0
      BY <2>2, NoHoldersNext DEF Restart
    <3> QED
      BY <2>2, <3>1 DEF Restart, TreeInv, TreeTypeOK, RefsAreHolders, HeldTreesStay, NothingLeft
  <2>3. ASSUME NEW r \in Runners, RetryLater(r) PROVE TreeInv'
    BY <2>3 DEF RetryLater, TreeInv, TreeTypeOK, RefsAreHolders, HeldTreesStay, NothingLeft, Holders
  <2>4. ASSUME NEW r \in Runners, Edits(r) PROVE TreeInv'
    <3>1. TreeTypeOK' /\ RefsAreHolders' /\ HeldTreesStay'
      BY <2>4 DEF Edits, TreeInv, TreeTypeOK, RefsAreHolders, HeldTreesStay, Holders
    <3>2. PICK p \in using[r] : dirty' \subseteq dirty \cup {p}
      BY <2>4 DEF Edits
    <3>3. refs[p] > 0
      BY LastRefIsMine
    <3>4. NothingLeft'
      BY <2>4, <3>2, <3>3 DEF Edits, TreeInv, NothingLeft
    <3> QED
      BY <3>1, <3>4 DEF TreeInv
  <2> QED
    BY <2>1, <2>2, <2>3, <2>4, CreateKeepsTreeInv, RemoveKeepsTreeInv DEF TreeNext
<1> QED
    BY <1>1, <1>2, PTL DEF TreeSpec

\* No Create, Remove or restart takes away the directory, worktree or branch
\* of a run that still uses it (Manager.Remove), for any runs and rollouts.
THEOREM HeldTreesKept == TreeSpec => []HeldTreesStay
<1>1. TreeInv => HeldTreesStay
    BY DEF TreeInv
<1> QED
    BY <1>1, RefsCorrect, PTL

\* With its last reference the tree of an issue is cleared so far that the
\* issue can be run again, whatever its agent left behind (Manager.Remove).
THEOREM IssuesCanRunAgain == TreeSpec => []IssuesRunAgain
<1>1. TreeInv => IssuesRunAgain
  <2> SUFFICES ASSUME TreeInv, NEW i \in TreeIssues \ rolled, workerCrashes = 0, refs[<<i, 0>>] = 0
               PROVE  Creatable(<<i, 0>>)
    BY DEF IssuesRunAgain
  <2>1. <<i, 0>> \notin dirs
    BY DEF TreeInv, NothingLeft
  <2>2. \A q \in heads : q[1] = i => q = <<i, 0>>
    BY DEF TreeInv, TreeTypeOK, NothingLeft, Trees
  <2>3. BranchFits(<<i, 0>>)
    BY <2>2 DEF BranchFits
  <2> QED
    BY <2>1, <2>3 DEF Creatable
<1> QED
    BY <1>1, RefsCorrect, PTL

-----------------------------------------------------------------------------
(* CodexSessions.                                                          *)

ServerRecords == [started : BOOLEAN, closed : BOOLEAN, dead : BOOLEAN, initErr : BOOLEAN, readDone : BOOLEAN]

CodexTypeOK ==
    /\ fin \in [Chats -> {"none", "ok", "failed"}] /\ dialled \in Nat
    /\ server \in ServerRecords
    /\ loop \in [Links -> Nat] /\ wire \in Nat

\* One dial makes one read loop, and a read loop ends once.
OneLoopPerDial ==
    /\ dialled = 0 => ~server.readDone /\ \A l \in Links : loop[l] = 0
    /\ dialled = 1 => \A l \in Links : loop[l] # 0 => l = 1 /\ ~server.readDone

CodexInv == CodexTypeOK /\ OneLoopPerDial /\ OnlyDoubleDialPanics

\* finishOnce
LEMMA FinishKeeps ==
    ASSUME CodexTypeOK, NEW s \in Chats, NEW outcome \in {"ok", "failed"}, Finish(s, outcome)
    PROVE  fin' \in [Chats -> {"none", "ok", "failed"}] /\ \A t \in Chats : fin[t] # "none" => fin'[t] = fin[t]
BY DEF CodexTypeOK, Finish

LEMMA NextRoundKeeps ==
    ASSUME CodexTypeOK, NEW c, c # 0, NextRound(c)
    PROVE  loop' \in [Links -> Nat] /\ \A l \in Links : loop[l] = 0 => loop'[l] = 0
BY DEF CodexTypeOK, NextRound

\* What a step does to the parts that matter here.
CodexMove ==
    /\ fin' \in [Chats -> {"none", "ok", "failed"}] /\ \A s \in Chats : fin[s] # "none" => fin'[s] = fin[s]
    /\ CodexInv'

\* A step that leaves the loops to go round and readDone and the dials alone.
LEMMA QuietMove ==
    ASSUME CodexInv,
           fin' \in [Chats -> {"none", "ok", "failed"}], \A s \in Chats : fin[s] # "none" => fin'[s] = fin[s],
           loop' \in [Links -> Nat], \A l \in Links : loop[l] = 0 => loop'[l] = 0,
           server' \in ServerRecords,
           server'.readDone = server.readDone, UNCHANGED <<wire, dialled, crashed>>
    PROVE  CodexMove
BY DEF CodexMove, CodexInv, CodexTypeOK, OneLoopPerDial, OnlyDoubleDialPanics

LEMMA CodexStep == ASSUME CodexInv, [CodexNext]_codexVars PROVE CodexMove
<1>0. CodexTypeOK
    BY DEF CodexInv
<1>1. CASE UNCHANGED codexVars
    BY <1>0, <1>1, QuietMove DEF codexVars, CodexTypeOK
<1>2. ASSUME NEW s \in Chats, \/ Ensure(s) \/ DialFails(s) \/ SendsCall(s) \/ Registers(s) \/ CallFails(s)
                              \/ CleansUp(s) \/ Cancel(s) \/ Waited(s) \/ Pumps(s)
      PROVE  CodexMove
  <2>1. UNCHANGED <<fin, loop, server, wire, dialled, crashed>>
    BY <1>2 DEF Ensure, DialFails, SendsCall, Registers, CallFails, CleansUp, Cancel, Waited, Pumps
  <2> QED
    BY <1>0, <2>1, QuietMove DEF CodexTypeOK
<1>3. ASSUME NEW s \in Chats, Closes(s) \/ Returns(s) PROVE CodexMove
  <2>1. UNCHANGED <<loop, server, wire, dialled, crashed>> /\ Finish(s, "failed")
    BY <1>3 DEF Closes, Returns
  <2>2. fin' \in [Chats -> {"none", "ok", "failed"}] /\ \A t \in Chats : fin[t] # "none" => fin'[t] = fin[t]
    BY <1>0, <2>1, FinishKeeps
  <2> QED
    BY <1>0, <2>1, <2>2, QuietMove DEF CodexTypeOK
<1>4. ASSUME NEW s \in Chats, Answered(s) \/ Notified(s) PROVE CodexMove
  <2>1. UNCHANGED <<fin, server, wire, dialled, crashed>> /\ \E c : c # 0 /\ NextRound(c)
    BY <1>4 DEF Answered, Notified
  <2>2. loop' \in [Links -> Nat] /\ \A l \in Links : loop[l] = 0 => loop'[l] = 0
    BY <1>0, <2>1, NextRoundKeeps
  <2> QED
    BY <1>0, <2>1, <2>2, QuietMove DEF CodexTypeOK
<1>5. ASSUME NEW s \in Chats, NEW outcome \in {"ok", "failed"}, TurnCompletes(s, outcome) PROVE CodexMove
  <2>1. UNCHANGED <<server, wire, dialled, crashed>> /\ Finish(s, outcome) /\ \E c : c # 0 /\ NextRound(c)
    BY <1>5 DEF TurnCompletes
  <2>2. loop' \in [Links -> Nat] /\ \A l \in Links : loop[l] = 0 => loop'[l] = 0
    BY <1>0, <2>1, NextRoundKeeps
  <2>3. fin' \in [Chats -> {"none", "ok", "failed"}] /\ \A t \in Chats : fin[t] # "none" => fin'[t] = fin[t]
    BY <1>0, <2>1, FinishKeeps
  <2> QED
    BY <1>0, <2>1, <2>2, <2>3, QuietMove DEF CodexTypeOK
<1>6. ASSUME NEW s \in Chats, SessionStartFails(s) PROVE CodexMove
  <2>1. UNCHANGED <<loop, wire, dialled, crashed>> /\ (UNCHANGED fin \/ Finish(s, "failed"))
    BY <1>6 DEF SessionStartFails
  <2>2. fin' \in [Chats -> {"none", "ok", "failed"}] /\ \A t \in Chats : fin[t] # "none" => fin'[t] = fin[t]
    BY <1>0, <2>1, FinishKeeps DEF CodexTypeOK
  <2>3. server' \in ServerRecords
        /\ server'.readDone = server.readDone
    BY <1>0, <1>6 DEF SessionStartFails, CodexTypeOK, ServerRecords
  <2> QED
    BY <1>0, <2>1, <2>2, <2>3, QuietMove DEF CodexTypeOK
<1>7. ASSUME NEW c \in Links, ConnDrops(c) PROVE CodexMove
    BY <1>0, <1>7, QuietMove DEF ConnDrops, CodexTypeOK
<1>8. CASE Shutdown
  <2>1. UNCHANGED <<fin, loop, wire, dialled, crashed>>
    BY <1>8 DEF Shutdown
  <2>2. server' \in ServerRecords
        /\ server'.readDone = server.readDone
    BY <1>0, <1>8 DEF Shutdown, CodexTypeOK, ServerRecords
  <2> QED
    BY <1>0, <2>1, <2>2, QuietMove DEF CodexTypeOK
<1>9. ASSUME NEW s \in Chats, Dials(s) PROVE CodexMove
  <2>1. /\ dialled' = dialled + 1 /\ wire' = dialled + 1 /\ loop' = [loop EXCEPT ![dialled + 1] = dialled + 1]
        /\ UNCHANGED <<fin, crashed>>
    BY <1>9 DEF Dials
  <2>2. server' \in ServerRecords
        /\ server'.readDone = server.readDone
    BY <1>0, <1>9 DEF Dials, CodexTypeOK, ServerRecords
  <2>3. CodexTypeOK'
    <3>1. dialled + 1 \in Nat /\ loop \in [Links -> Nat]
      BY <1>0 DEF CodexTypeOK
    <3>2. [loop EXCEPT ![dialled + 1] = dialled + 1] \in [Links -> Nat]
      BY <3>1
    <3> QED
      BY <1>0, <2>1, <2>2, <3>1, <3>2 DEF CodexTypeOK
  <2>4. OneLoopPerDial' /\ OnlyDoubleDialPanics'
    BY <1>0, <2>1, <2>2 DEF CodexInv, CodexTypeOK, OneLoopPerDial, OnlyDoubleDialPanics
  <2> QED
    BY <2>1, <2>3, <2>4 DEF CodexMove, CodexInv, CodexTypeOK
<1>10. ASSUME NEW l \in Links, LoopEnds(l) PROVE CodexMove
  <2>1. /\ loop[l] # 0 /\ loop' = [loop EXCEPT ![l] = 0] /\ crashed' = server.readDone /\ UNCHANGED <<wire, dialled>>
        /\ fin' = fin \/ fin' = [s \in Chats |-> IF thread[s] /\ fin[s] = "none" THEN "failed" ELSE fin[s]]
    BY <1>10 DEF LoopEnds
  <2>2. server' \in ServerRecords
    BY <1>0, <1>10 DEF LoopEnds, CodexTypeOK, ServerRecords
  <2>3. fin' \in [Chats -> {"none", "ok", "failed"}] /\ \A s \in Chats : fin[s] # "none" => fin'[s] = fin[s]
    BY <1>0, <2>1 DEF CodexTypeOK
  <2>4. CodexTypeOK'
    BY <1>0, <2>1, <2>2, <2>3 DEF CodexTypeOK
  <2>5. dialled # 0
    BY <1>0, <2>1 DEF CodexInv, OneLoopPerDial, CodexTypeOK
  <2>6. server.readDone => dialled # 1
    BY <2>1 DEF CodexInv, OneLoopPerDial
  <2>7. OneLoopPerDial' /\ OnlyDoubleDialPanics'
    BY <1>0, <2>1, <2>5, <2>6 DEF CodexInv, CodexTypeOK, OneLoopPerDial, OnlyDoubleDialPanics
  <2> QED
    BY <2>3, <2>4, <2>7 DEF CodexMove, CodexInv
<1> QED
    BY <1>1, <1>2, <1>3, <1>4, <1>5, <1>6, <1>7, <1>8, <1>9, <1>10 DEF CodexNext

\* One dial makes one read loop, which ends once.
THEOREM LoopsCorrect == CodexSpec => []CodexInv
<1>1. CodexInit => CodexInv
    BY DEF CodexInit, CodexInv, CodexTypeOK, ServerRecords, OneLoopPerDial, OnlyDoubleDialPanics
<1>2. CodexInv /\ [CodexNext]_codexVars => CodexInv'
    BY CodexStep DEF CodexMove
<1> QED
    BY <1>1, <1>2, PTL DEF CodexSpec

\* Whoever finishes a session second does not change its outcome
\* (finishOnce), whatever the server does and in whatever order the end of
\* the turn, the loss of the connection and the close come.
THEOREM FirstOutcomeStays == CodexSpec => OutcomeStays
<1>1. CodexInv /\ [CodexNext]_codexVars => [\A s \in Chats : fin[s] # "none" => fin'[s] = fin[s]]_codexVars
    BY CodexStep DEF CodexMove
<1> QED
    BY <1>1, LoopsCorrect, PTL DEF CodexSpec, OutcomeStays

\* Without two dials that overlap the read loop closes readDone once
\* (readLoop), also across a shutdown and a failed initialize.
THEOREM PanicNeedsTwoDials == CodexSpec => []OnlyDoubleDialPanics
<1>1. CodexInv => OnlyDoubleDialPanics
    BY DEF CodexInv
<1> QED
    BY <1>1, LoopsCorrect, PTL

-----------------------------------------------------------------------------
(* WorkerHost.                                                             *)

AskPcs == {"idle", "configs", "swap", "register", "send", "file", "write", "undo"}
AskRecords == [pc : AskPcs, kind : {"none", "add", "remove", "reload"}, repo : BoundRepos, prev : Paths \cup {0}, seen : Bindings]
WorkerRows == [there : BOOLEAN, repos : SUBSET BoundRepos, kid : 0..MaxTokens, valid : BOOLEAN]

\* A row has the token issued last; it is valid unless that was revoked.
RowHasLatest ==
    /\ minted >= 1 /\ gone \subseteq 1..minted /\ myToken <= minted
    /\ row.there => row.kid = minted /\ (row.valid <=> minted \notin gone)

\* What one request has established when it gets to pc.
AskedSoFar(c) ==
    /\ ask[c].pc \in {"swap", "send"} => ask[c].seen = bound
    /\ ask[c].pc \in {"register", "send", "file", "write"} => loaded = bound
    /\ ask[c].pc \in {"file", "write"} => (Accepted(myToken) => row.repos = ReposOf(bound))

\* One request at a time: it alone is in progress, while it is nothing is
\* agreed, and what is agreed holds from the start of the process on.
OneAtATime ==
    /\ \A c, d \in Askers : ask[c].pc # "idle" /\ ask[d].pc # "idle" => c = d
    /\ \A c \in Askers : ask[c].pc # "idle" => ~agreed /\ Alive /\ AskedSoFar(c)
    /\ agreed => Alive /\ loaded = bound
    /\ BindingsAgree

HostInv == HostTypeOK /\ RowHasLatest /\ (~Overlap => OneAtATime)

LEMMA NoAskType == NoAsk \in AskRecords /\ NoAsk.pc = "idle" /\ NoBinding \in Bindings
<1>1. NoBinding \in Bindings
    BY DEF NoBinding, Bindings
<1>2. (CHOOSE r \in BoundRepos : TRUE) \in BoundRepos
    BY HostAssumption
<1> QED
    BY <1>1, <1>2 DEF NoAsk, AskRecords, AskPcs

LEMMA AskType == HostTypeOK => ask \in [Askers -> AskRecords]
BY DEF HostTypeOK, AskRecords, AskPcs

LEMMA RowType == HostTypeOK => row \in WorkerRows
BY DEF HostTypeOK, WorkerRows

LEMMA HostInvInit == HostInit => HostInv
<1> SUFFICES ASSUME HostInit PROVE HostInv
    OBVIOUS
<1>1. row = [there |-> TRUE, repos |-> {}, kid |-> 1, valid |-> TRUE]
    BY DEF HostInit, NoWorkerRow
<1>2. ask \in [Askers -> AskRecords] /\ \A c \in Askers : ask[c].pc = "idle"
    BY NoAskType DEF HostInit
<1>3. HostTypeOK
  <2>1. {agreed, leaving} \subseteq BOOLEAN
    BY DEF HostInit
  <2>2. row \in WorkerRows /\ {bound, loaded, filed} \subseteq Bindings
    <3>1. 1 \in 0..MaxTokens /\ {} \in SUBSET BoundRepos
      BY HostAssumption
    <3>2. row \in WorkerRows
      BY <1>1, <3>1 DEF WorkerRows
    <3> QED
      BY <3>2, NoAskType DEF HostInit
  <2> QED
    BY <1>2, <2>1, <2>2, HostAssumption DEF HostInit, HostTypeOK, AskRecords, AskPcs, WorkerRows
<1>4. RowHasLatest
    BY <1>1 DEF HostInit, RowHasLatest
<1>5. OneAtATime
    BY <1>2 DEF HostInit, OneAtATime, BindingsAgree
<1> QED
    BY <1>3, <1>4, <1>5 DEF HostInv

\* The steps of a request replace its record.
LEMMA AskStep ==
    ASSUME HostInv, NEW c \in Askers, NEW a \in AskRecords, ask' = [ask EXCEPT ![c] = a],
           {bound', loaded', filed'} \subseteq Bindings, row' \in WorkerRows, agreed' \in BOOLEAN,
           UNCHANGED <<host, leaving, myToken, minted, gone, job>>
    PROVE  HostTypeOK' /\ \A d \in Askers : ask'[d] = IF d = c THEN a ELSE ask[d]
<1>1. ask' \in [Askers -> AskRecords] /\ \A d \in Askers : ask'[d] = IF d = c THEN a ELSE ask[d]
    BY AskType DEF HostInv
<1>2. /\ host' \in {"down", "boots", "up", "drains"} /\ myToken' \in 0..MaxTokens /\ minted' \in 0..MaxTokens
      /\ gone' \subseteq 1..MaxTokens /\ job' \in [BoundRepos -> {"pending", "held", "running", "done"}]
    BY DEF HostInv, HostTypeOK
<1>3. {agreed', leaving'} \subseteq BOOLEAN
    BY Zenon DEF HostInv, HostTypeOK
<1> QED
    BY <1>1, <1>2, <1>3 DEF HostTypeOK, AskRecords, AskPcs, WorkerRows

LEMMA StartsKeepHostInv ==
    ASSUME HostInv, NEW c \in Askers,
           \/ AskReload(c) \/ \E r \in BoundRepos : AskRemove(c, r) \/ \E p \in Paths : AskAdd(c, r, p)
    PROVE  HostInv'
<1> USE NoAskType
<1>1. PICK a \in AskRecords : ask' = [ask EXCEPT ![c] = a] /\ a.pc = "configs"
  <2>1. CASE AskReload(c)
    <3> DEFINE a == [NoAsk EXCEPT !.pc = "configs", !.kind = "reload"]
    <3>1. a \in AskRecords /\ a.pc = "configs"
      BY DEF AskRecords, AskPcs
    <3> QED
      BY <2>1, <3>1 DEF AskReload
  <2>2. ASSUME NEW r \in BoundRepos, NEW k \in {"add", "remove"},
               ask' = [ask EXCEPT ![c] = [NoAsk EXCEPT !.pc = "configs", !.kind = k, !.repo = r, !.prev = bound[r]]]
        PROVE  \E a \in AskRecords : ask' = [ask EXCEPT ![c] = a] /\ a.pc = "configs"
    <3> DEFINE a == [NoAsk EXCEPT !.pc = "configs", !.kind = k, !.repo = r, !.prev = bound[r]]
    <3>1. bound[r] \in Paths \cup {0}
      BY DEF HostInv, HostTypeOK, Bindings
    <3>2. a \in AskRecords /\ a.pc = "configs"
      BY <3>1 DEF AskRecords, AskPcs
    <3> QED
      BY <2>2, <3>2
  <2> QED
    BY <2>1, <2>2 DEF AskRemove, AskAdd
<1>2. /\ agreed' = FALSE /\ UNCHANGED <<leaving, host, loaded, filed, row, myToken, minted, gone, job>>
      /\ MayAsk(c)
    BY DEF AskReload, AskRemove, AskAdd
<1>3. bound' \in Bindings
    BY HostAssumption DEF AskReload, AskRemove, AskAdd, HostInv, HostTypeOK, Bindings
<1>4. loaded' \in Bindings /\ filed' \in Bindings /\ row' \in WorkerRows
    BY <1>2, RowType DEF HostInv, HostTypeOK
<1>5. HostTypeOK' /\ \A d \in Askers : ask'[d] = IF d = c THEN a ELSE ask[d]
    BY <1>1, <1>2, <1>3, <1>4, AskStep
<1>6. RowHasLatest'
    BY <1>2 DEF HostInv, RowHasLatest
<1>7. ASSUME ~Overlap PROVE OneAtATime'
  <2>1. \A d \in Askers : ask[d].pc = "idle"
    BY <1>2, <1>7 DEF MayAsk
  <2>2. Alive' /\ AskedSoFar(c)'
    BY <1>1, <1>2, <1>5 DEF MayAsk, Alive, AskedSoFar
  <2> QED
    BY <1>1, <1>2, <1>5, <2>1, <2>2 DEF OneAtATime, BindingsAgree
<1> QED
    BY <1>5, <1>6, <1>7 DEF HostInv

\* The later steps of a request.
LEMMA RequestsKeepHostInv ==
    ASSUME HostInv, NEW c \in Askers,
           ListBindings(c) \/ SwapConfigs(c) \/ SendRegister(c) \/ AskFails(c) \/ Undo(c) \/ WriteFile(c)
    PROVE  HostInv'
<1> USE NoAskType
<1>0. ask[c] \in AskRecords /\ row \in WorkerRows /\ {bound, loaded, filed} \subseteq Bindings /\ agreed \in BOOLEAN
  <2>1. agreed \in BOOLEAN
    BY Zenon DEF HostInv, HostTypeOK
  <2> QED
    BY <2>1, AskType, RowType DEF HostInv, HostTypeOK
<1>1. \A pc \in AskPcs : LET a == [ask[c] EXCEPT !.pc = pc] IN
         a \in AskRecords /\ a.pc = pc /\ a.seen = ask[c].seen
    BY <1>0 DEF AskRecords
<1>2. ask[c].pc # "idle"
    BY DEF ListBindings, SwapConfigs, SendRegister, AskFails, Undo, WriteFile
<1>3. ~Overlap => ~agreed /\ Alive /\ AskedSoFar(c) /\ \A d \in Askers : d # c => ask[d].pc = "idle"
    BY <1>2 DEF HostInv, OneAtATime
<1>4. CASE ListBindings(c)
  <2> DEFINE a == [ask[c] EXCEPT !.seen = bound, !.pc = AfterList(ask[c].pc)]
  <2>1. ask[c].pc \in {"configs", "register", "file"} /\ AfterList(ask[c].pc) \in {"swap", "send", "write"}
    BY <1>4 DEF ListBindings, AfterList
  <2>2. a \in AskRecords /\ a.pc = AfterList(ask[c].pc) /\ a.seen = bound
    BY <1>0, <2>1 DEF AskRecords, AskPcs
  <2>3. ask' = [ask EXCEPT ![c] = a] /\ UNCHANGED <<leaving, host, bound, loaded, filed, row, myToken, minted, gone, agreed, job>>
    BY <1>4 DEF ListBindings
  <2> HIDE DEF a
  <2>4. HostTypeOK' /\ \A d \in Askers : ask'[d] = IF d = c THEN a ELSE ask[d]
    BY <1>0, <2>2, <2>3, AskStep
  <2>5. RowHasLatest'
    BY <2>3 DEF HostInv, RowHasLatest
  <2>6. ~Overlap => AskedSoFar(c)'
    BY <1>3, <2>1, <2>2, <2>3, <2>4 DEF AskedSoFar, AfterList, Accepted
  <2>7. ~Overlap => OneAtATime'
    BY <1>3, <2>2, <2>3, <2>4, <2>6 DEF HostInv, OneAtATime, BindingsAgree, Alive
  <2> QED
    BY <2>4, <2>5, <2>7 DEF HostInv
<1>5. CASE SwapConfigs(c)
  <2> DEFINE a == [ask[c] EXCEPT !.pc = "register"]
  <2>1. a \in AskRecords /\ a.pc = "register" /\ a.seen = ask[c].seen
    BY <1>1 DEF AskPcs
  <2>2. ask' = [ask EXCEPT ![c] = a] /\ loaded' = ask[c].seen /\ UNCHANGED <<leaving, host, bound, filed, row, myToken, minted, gone, agreed, job>>
    BY <1>5 DEF SwapConfigs
  <2> HIDE DEF a
  <2>3. loaded' \in Bindings
    BY <1>0, <2>2 DEF AskRecords
  <2>4. HostTypeOK' /\ \A d \in Askers : ask'[d] = IF d = c THEN a ELSE ask[d]
    BY <1>0, <2>1, <2>2, <2>3, AskStep
  <2>5. RowHasLatest'
    BY <2>2 DEF HostInv, RowHasLatest
  <2>6. ~Overlap => AskedSoFar(c)'
    BY <1>3, <1>5, <2>1, <2>2, <2>4 DEF AskedSoFar, SwapConfigs
  <2>7. ~Overlap => OneAtATime'
    BY <1>3, <2>1, <2>2, <2>4, <2>6 DEF HostInv, OneAtATime, BindingsAgree, Alive
  <2> QED
    BY <2>4, <2>5, <2>7 DEF HostInv
<1>6. CASE SendRegister(c)
  <2> DEFINE a == IF EndsHere(c) THEN NoAsk ELSE [ask[c] EXCEPT !.pc = "file"]
  <2>1. a \in AskRecords /\ a.pc \in {"idle", "file"} /\ (a.pc = "idle" <=> EndsHere(c))
    BY <1>1 DEF AskPcs
  <2>2. /\ ask' = [ask EXCEPT ![c] = a] /\ row' = Registered(ReposOf(ask[c].seen)) /\ agreed' = EndsHere(c)
        /\ Accepted(myToken) /\ ask[c].pc = "send" /\ Alive
        /\ UNCHANGED <<leaving, host, bound, loaded, filed, myToken, minted, gone, job>>
    BY <1>6 DEF SendRegister
  <2> HIDE DEF a
  <2>3. /\ row' \in WorkerRows /\ row'.there = TRUE /\ row'.repos = ReposOf(ask[c].seen)
        /\ row'.kid = row.kid /\ row'.valid = row.valid
    BY <1>0, <2>2 DEF Registered, WorkerRows, ReposOf
  <2>4. agreed' \in BOOLEAN
    BY <2>2 DEF EndsHere
  <2>5. HostTypeOK' /\ \A d \in Askers : ask'[d] = IF d = c THEN a ELSE ask[d]
    BY <1>0, <2>1, <2>2, <2>3, <2>4, AskStep
  <2>6. RowHasLatest'
    BY <2>2, <2>3 DEF HostInv, RowHasLatest, Accepted
  <2>7. ~Overlap => loaded = bound /\ ask[c].seen = bound
    BY <1>3, <2>2 DEF AskedSoFar
  <2>8. ~Overlap => AskedSoFar(c)'
    BY <2>1, <2>2, <2>3, <2>5, <2>7 DEF AskedSoFar
  <2>9. ~Overlap => OneAtATime'
    BY <1>3, <2>1, <2>2, <2>3, <2>5, <2>7, <2>8 DEF HostInv, OneAtATime, BindingsAgree, Alive
  <2> QED
    BY <2>5, <2>6, <2>9 DEF HostInv
<1>7. CASE AskFails(c)
  <2> DEFINE a == IF EndsHere(c) THEN NoAsk ELSE [ask[c] EXCEPT !.pc = "undo"]
  <2>1. a \in AskRecords /\ a.pc \in {"idle", "undo"}
    BY <1>1 DEF AskPcs
  <2>2. ask' = [ask EXCEPT ![c] = a] /\ UNCHANGED <<leaving, host, bound, loaded, filed, row, myToken, minted, gone, agreed, job>>
    BY <1>7 DEF AskFails
  <2> HIDE DEF a
  <2>4. HostTypeOK' /\ \A d \in Askers : ask'[d] = IF d = c THEN a ELSE ask[d]
    BY <1>0, <2>1, <2>2, AskStep
  <2>5. RowHasLatest'
    BY <2>2 DEF HostInv, RowHasLatest
  <2>7. ~Overlap => OneAtATime'
    BY <1>3, <2>1, <2>2, <2>4 DEF HostInv, OneAtATime, BindingsAgree, Alive, AskedSoFar
  <2> QED
    BY <2>4, <2>5, <2>7 DEF HostInv
<1>8. CASE Undo(c)
  <2>2. /\ ask' = [ask EXCEPT ![c] = NoAsk] /\ bound' = [bound EXCEPT ![ask[c].repo] = ask[c].prev]
        /\ UNCHANGED <<leaving, host, loaded, filed, row, myToken, minted, gone, agreed, job>>
    BY <1>8 DEF Undo
  <2>3. bound' \in Bindings
    BY <1>0, <2>2 DEF AskRecords, Bindings
  <2>4. HostTypeOK' /\ \A d \in Askers : ask'[d] = IF d = c THEN NoAsk ELSE ask[d]
    BY <1>0, <2>2, <2>3, AskStep
  <2>5. RowHasLatest'
    BY <2>2 DEF HostInv, RowHasLatest
  <2>7. ~Overlap => OneAtATime'
    BY <1>3, <2>2, <2>4 DEF HostInv, OneAtATime, BindingsAgree
  <2> QED
    BY <2>4, <2>5, <2>7 DEF HostInv
<1>9. CASE WriteFile(c)
  <2>2. /\ ask' = [ask EXCEPT ![c] = NoAsk] /\ ask[c].pc = "write" /\ Alive
        /\ UNCHANGED <<leaving, host, bound, loaded, row, myToken, minted, gone, job>>
    BY <1>9 DEF WriteFile
  <2>3. filed' \in Bindings
    BY <1>0, <1>9 DEF AskRecords, WriteFile
  <2>4. agreed' \in BOOLEAN
    BY <1>0, <1>9, Zenon DEF WriteFile
  <2>5. HostTypeOK' /\ \A d \in Askers : ask'[d] = IF d = c THEN NoAsk ELSE ask[d]
    BY <1>0, <2>2, <2>3, <2>4, AskStep
  <2>6. RowHasLatest'
    BY <2>2 DEF HostInv, RowHasLatest
  <2>7. ~Overlap => loaded = bound /\ (Accepted(myToken) => row.repos = ReposOf(bound))
    BY <1>3, <2>2 DEF AskedSoFar
  <2>8. ~Overlap => OneAtATime'
    BY <1>3, <2>2, <2>5, <2>7 DEF HostInv, OneAtATime, BindingsAgree, Alive, Accepted
  <2> QED
    BY <2>5, <2>6, <2>8 DEF HostInv
<1> QED
    BY <1>4, <1>5, <1>6, <1>7, <1>8, <1>9

LEMMA TokensKeepHostInv ==
    ASSUME HostInv, IssueToken \/ \E k \in 1..minted : RevokeToken(k)
    PROVE  HostInv'
<1>0. row \in WorkerRows /\ minted \in 0..MaxTokens /\ myToken \in 0..MaxTokens
    BY RowType DEF HostInv, HostTypeOK
<1>1. UNCHANGED <<leaving, host, bound, loaded, filed, myToken, ask, agreed, job>>
    BY DEF IssueToken, RevokeToken
<1>2. CASE IssueToken
  <2>1. /\ minted < MaxTokens /\ minted' = minted + 1 /\ gone' = gone
        /\ row' \in WorkerRows /\ row'.there = TRUE /\ row'.kid = minted + 1 /\ row'.valid = TRUE /\ row'.repos = row.repos
    <3>1. minted < MaxTokens => minted + 1 \in 0..MaxTokens
      BY <1>0, HostAssumption
    <3> QED
      BY <1>0, <1>2, <3>1 DEF IssueToken, WorkerRows
  <2>2. HostTypeOK'
    BY <1>0, <1>1, <2>1, HostAssumption DEF HostInv, HostTypeOK, WorkerRows
  <2>3. RowHasLatest'
    BY <1>0, <1>1, <2>1, HostAssumption DEF HostInv, RowHasLatest
  <2>4. ~Accepted(myToken)'
    BY <1>0, <1>1, <2>1, HostAssumption DEF HostInv, RowHasLatest, Accepted
  <2>5. ~Overlap => OneAtATime'
    BY <1>1, <2>4 DEF HostInv, OneAtATime, BindingsAgree, AskedSoFar, Alive
  <2> QED
    BY <2>2, <2>3, <2>5 DEF HostInv
<1>3. ASSUME NEW k \in 1..minted, RevokeToken(k) PROVE HostInv'
  <2>1. /\ minted' = minted /\ gone' = gone \cup {k} /\ row.there /\ row.kid = k
        /\ row' \in WorkerRows /\ row'.there = row.there /\ row'.kid = row.kid /\ row'.valid = FALSE
    BY <1>0, <1>3 DEF RevokeToken, WorkerRows
  <2>2. HostTypeOK'
    BY <1>0, <1>1, <2>1, HostAssumption DEF HostInv, HostTypeOK, WorkerRows
  <2>3. RowHasLatest'
    BY <1>0, <1>1, <2>1 DEF HostInv, RowHasLatest
  <2>4. ~Accepted(myToken)'
    BY <2>1 DEF Accepted
  <2>5. ~Overlap => OneAtATime'
    BY <1>1, <2>4 DEF HostInv, OneAtATime, BindingsAgree, AskedSoFar, Alive
  <2> QED
    BY <2>2, <2>3, <2>5 DEF HostInv
<1> QED
    BY <1>2, <1>3

LEMMA UnregisterKeepsHostInv == ASSUME HostInv, CheckIdle \/ DeleteWorker PROVE HostInv'
<1>1. CASE CheckIdle
  <2>1. leaving' \in BOOLEAN /\ UNCHANGED <<host, bound, loaded, filed, row, myToken, minted, gone, ask, agreed, job>>
    BY <1>1 DEF CheckIdle
  <2>2. {agreed', leaving'} \subseteq BOOLEAN
    BY <2>1, Zenon DEF HostInv, HostTypeOK
  <2>3. HostTypeOK'
    BY <2>1, <2>2 DEF HostInv, HostTypeOK
  <2> QED
    BY <2>1, <2>3 DEF HostInv, RowHasLatest, OneAtATime, BindingsAgree, AskedSoFar, Alive, Accepted
<1>2. CASE DeleteWorker
  <2>1. /\ row' = NoWorkerRow /\ agreed' = FALSE /\ leaving' = FALSE
        /\ UNCHANGED <<host, bound, loaded, filed, myToken, minted, gone, ask, job>>
    BY <1>2 DEF DeleteWorker
  <2>2. row' \in WorkerRows /\ row'.there = FALSE
    BY <2>1, HostAssumption DEF NoWorkerRow, WorkerRows
  <2>3. {agreed', leaving'} \subseteq BOOLEAN
    BY <2>1
  <2>4. HostTypeOK'
    BY <2>1, <2>2, <2>3 DEF HostInv, HostTypeOK, WorkerRows
  <2>5. RowHasLatest' /\ ~Accepted(myToken)'
    BY <2>1, <2>2 DEF HostInv, RowHasLatest, Accepted
  <2>6. ~Overlap => OneAtATime'
    BY <2>1, <2>5 DEF HostInv, OneAtATime, BindingsAgree, AskedSoFar, Alive
  <2> QED
    BY <2>4, <2>5, <2>6 DEF HostInv
<1> QED
    BY <1>1, <1>2

LEMMA ProcessKeepsHostInv == ASSUME HostInv, Boot \/ RegisterAtBoot \/ StopLoop \/ EndHost PROVE HostInv'
<1>0. row \in WorkerRows /\ NoBinding \in Bindings /\ leaving \in BOOLEAN /\ agreed \in BOOLEAN
  <2>1. leaving \in BOOLEAN /\ agreed \in BOOLEAN
    BY Zenon DEF HostInv, HostTypeOK
  <2> QED
    BY <2>1, RowType, NoAskType DEF HostInv
<1>1. CASE Boot
  <2>1. /\ host = "down" /\ myToken' = minted /\ bound' = MergeBindings(Cli, filed)
        /\ UNCHANGED <<filed, row, leaving, minted, gone, ask, job>>
        /\ \/ loaded' = bound' /\ host' = "boots" /\ agreed' = TRUE
           \/ loaded' = NoBinding /\ host' = "down" /\ agreed' = FALSE
    BY <1>1 DEF Boot
  <2>2. bound' \in Bindings
    BY <2>1, HostAssumption DEF MergeBindings, HostInv, HostTypeOK, Bindings
  <2>3. agreed' \in BOOLEAN
    BY <2>1
  <2>4. HostTypeOK'
    BY <1>0, <2>1, <2>2, <2>3 DEF HostInv, HostTypeOK
  <2>5. RowHasLatest'
    BY <2>1 DEF HostInv, HostTypeOK, RowHasLatest
  <2>6. ~Overlap => \A c \in Askers : ask[c].pc = "idle"
    BY <2>1 DEF HostInv, OneAtATime, Alive
  <2>7. ~Overlap => OneAtATime'
    BY <2>1, <2>6 DEF OneAtATime, BindingsAgree, Alive
  <2> QED
    BY <2>4, <2>5, <2>7 DEF HostInv
<1>2. CASE RegisterAtBoot
  <2>1. /\ host = "boots" /\ UNCHANGED <<bound, loaded, filed, leaving, myToken, minted, gone, ask, agreed, job>>
        /\ \/ Accepted(myToken) /\ row' = Registered(ReposOf(bound)) /\ host' = "up"
           \/ host' = "drains" /\ row' = row
    BY <1>2 DEF RegisterAtBoot
  <2>2. /\ row' \in WorkerRows /\ row'.there = row.there /\ row'.kid = row.kid /\ row'.valid = row.valid
        /\ host' = "up" => row'.repos = ReposOf(bound)
        /\ host' = "drains" => row' = row
    BY <1>0, <2>1 DEF Registered, WorkerRows, ReposOf, Accepted
  <2>3. host' \in {"up", "drains"}
    BY <2>1
  <2>4. HostTypeOK'
    BY <1>0, <2>1, <2>2, <2>3 DEF HostInv, HostTypeOK, WorkerRows
  <2>5. RowHasLatest'
    BY <2>1, <2>2 DEF HostInv, RowHasLatest
  <2>6. ~Overlap => OneAtATime'
    <3> SUFFICES ASSUME OneAtATime, ~Overlap PROVE OneAtATime'
      BY DEF HostInv
    <3>1. Accepted(myToken)' => row'.repos = ReposOf(bound) \/ UNCHANGED <<row, myToken>>
      BY <2>1, <2>2, <2>3
    <3>2. Alive' /\ Alive
      BY <2>1, <2>3 DEF Alive
    <3>3. \A c \in Askers : AskedSoFar(c) => AskedSoFar(c)'
      BY <2>1, <2>2, <2>3 DEF AskedSoFar, Accepted, ReposOf
    <3>4. BindingsAgree'
      BY <2>1, <2>2, <2>3 DEF BindingsAgree, OneAtATime, ReposOf
    <3> QED
      BY <2>1, <3>2, <3>3, <3>4 DEF OneAtATime
  <2> QED
    BY <2>4, <2>5, <2>6 DEF HostInv
<1>3. CASE StopLoop
  <2>1. host = "up" /\ host' = "drains" /\ UNCHANGED <<leaving, bound, loaded, filed, row, myToken, minted, gone, ask, agreed, job>>
    BY <1>3 DEF StopLoop
  <2>2. HostTypeOK' /\ RowHasLatest'
    BY <2>1 DEF HostInv, HostTypeOK, RowHasLatest
  <2>3. ~Overlap => OneAtATime'
    BY <2>1 DEF HostInv, OneAtATime, BindingsAgree, AskedSoFar, Alive, Accepted
  <2> QED
    BY <2>2, <2>3 DEF HostInv
<1>4. CASE EndHost
  <2>1. /\ host' = "down" /\ bound' = NoBinding /\ loaded' = NoBinding /\ ask' = [c \in Askers |-> NoAsk] /\ agreed' = FALSE
        /\ job' = [r \in BoundRepos |-> IF job[r] = "held" THEN "pending" ELSE job[r]]
        /\ UNCHANGED <<leaving, filed, row, myToken, minted, gone>>
    BY <1>4 DEF EndHost
  <2>2. ask' \in [Askers -> AskRecords] /\ \A c \in Askers : ask'[c].pc = "idle"
    BY <2>1, NoAskType
  <2>3. job' \in [BoundRepos -> {"pending", "held", "running", "done"}] /\ agreed' \in BOOLEAN
    BY <2>1 DEF HostInv, HostTypeOK
  <2>4. HostTypeOK'
    BY <1>0, <2>1, <2>2, <2>3 DEF HostInv, HostTypeOK, AskRecords, AskPcs
  <2>5. RowHasLatest'
    BY <2>1 DEF HostInv, RowHasLatest
  <2>6. OneAtATime'
    BY <2>1, <2>2 DEF OneAtATime, BindingsAgree
  <2> QED
    BY <2>4, <2>5, <2>6 DEF HostInv
<1> QED
    BY <1>1, <1>2, <1>3, <1>4

LEMMA JobsKeepHostInv ==
    ASSUME HostInv, NEW r \in BoundRepos, PollHost(r) \/ GiveBack(r) \/ RunJob(r) \/ EndJob(r)
    PROVE  HostInv'
<1>1. /\ UNCHANGED <<leaving, host, bound, loaded, filed, row, myToken, minted, gone, ask, agreed>>
      /\ job' \in [BoundRepos -> {"pending", "held", "running", "done"}]
    BY DEF PollHost, GiveBack, RunJob, EndJob, HostInv, HostTypeOK
<1>2. HostTypeOK' /\ RowHasLatest'
    BY <1>1 DEF HostInv, HostTypeOK, RowHasLatest
<1>3. ~Overlap => OneAtATime'
    BY <1>1 DEF HostInv, OneAtATime, BindingsAgree, AskedSoFar, Alive, Accepted
<1> QED
    BY <1>2, <1>3 DEF HostInv

\* Types, the token in the row, and what a request has established.
THEOREM HostCorrect == HostSpec => []HostInv
<1>1. HostInv /\ [HostNext]_hostVars => HostInv'
  <2> SUFFICES ASSUME HostInv, [HostNext]_hostVars PROVE HostInv'
    OBVIOUS
  <2>1. CASE UNCHANGED hostVars
    BY <2>1 DEF hostVars, HostInv, HostTypeOK, RowHasLatest, OneAtATime, BindingsAgree, AskedSoFar, Alive, Accepted
  <2> QED
    BY <2>1, TokensKeepHostInv, UnregisterKeepsHostInv, ProcessKeepsHostInv, StartsKeepHostInv,
       RequestsKeepHostInv, JobsKeepHostInv DEF HostNext
<1> QED
    BY <1>1, HostInvInit, PTL DEF HostSpec

\* Management requests that do not overlap leave bindings, configurations and
\* registration in agreement (reloadAndRegister), also around the
\* registration at the start, an unregistration and a change of token.  With
\* requests that overlap this is false.
THEOREM RequestsAgree == ASSUME ~Overlap PROVE HostSpec => []BindingsAgree
<1>1. HostInv => BindingsAgree
    BY DEF HostInv, OneAtATime
<1> QED
    BY <1>1, HostCorrect, PTL

\* Rotation and revocation by id leave exactly the token issued last and not
\* revoked (AuthenticateWorkerToken), in any order of the two.
THEOREM LatestTokenOnly == HostSpec => []OnlyTheLatestToken
<1>1. HostInv => OnlyTheLatestToken
    BY DEF HostInv, RowHasLatest, OnlyTheLatestToken, Accepted
<1> QED
    BY <1>1, HostCorrect, PTL

-----------------------------------------------------------------------------
(* Tunnel: what the read loops, the handlers and the callers keep.         *)

\* A frame carries the id that its call got on its connection.
Requested == [conn : Conns, id : Nat \ {0}, call : Calls]
InFlight == [dir : {"request", "response"}, frame : Requested, conn : Conns]
Asked == [at : {"idle", "found", "open", "waiting", "ok", "err"}, conn : 0..MaxConns, id : Nat, answer : Calls \cup {NoCall}]
HandlerSteps == {"none", "accepted", "registered", "running", "returned", "removed", "done"}

EndpointsTyped ==
    /\ ep \in [Sides -> [Conns -> {"none", "open", "failed"}]] /\ handler \in [Conns -> HandlerSteps]
    /\ tunnels \in 0..MaxConns

TrafficTyped ==
    /\ next \in [Conns -> Nat] /\ call \in [Calls -> Asked]
    /\ frames \subseteq InFlight /\ serving \subseteq Requested /\ held \in Requested \cup {NoFrame}

Carried(q) == call[q.call].conn = q.conn /\ call[q.call].id = q.id

FramesAreCarried ==
    /\ \A f \in frames : f.frame.conn = f.conn /\ Carried(f.frame)
    /\ \A q \in serving : Carried(q)
    /\ held # NoFrame => Carried(held)

\* Ids are counted per connection and given once.
IdsAreUnique ==
    /\ \A r \in Calls : call[r].at \in {"idle", "found"} => call[r].id = 0
    /\ \A r \in Calls : call[r].at \in {"open", "waiting"} => call[r].id # 0
    /\ \A r \in Calls : call[r].at = "found" => call[r].conn \in Conns
    /\ \A r \in Calls : call[r].id # 0 => call[r].conn \in Conns /\ call[r].id <= next[call[r].conn]
    /\ \A r, s \in Calls : call[r].conn = call[s].conn /\ call[r].id = call[s].id /\ call[r].id # 0 => r = s

AnswersAreOwn == \A r \in Calls : call[r].answer \in {NoCall, r}

\* From its registration on, an endpoint that is open is the one in the map.
RegisteredIsUsed ==
    \A c \in Conns : handler[c] \in {"registered", "running"} /\ ep["coord"][c] = "open" => tunnels = c

TrafficInv == TrafficTyped /\ FramesAreCarried /\ IdsAreUnique /\ AnswersAreOwn /\ AnswersMatch
EndpointInv == EndpointsTyped /\ RegisteredIsUsed

LEMMA TunnelInitially == TunInit => TrafficInv /\ EndpointInv
<1> SUFFICES ASSUME TunInit PROVE TrafficInv /\ EndpointInv
    OBVIOUS
<1>1. TrafficTyped
    BY TunnelAssumption DEF TunInit, TrafficTyped, Asked
<1>2. FramesAreCarried /\ IdsAreUnique /\ AnswersAreOwn /\ AnswersMatch
    BY DEF TunInit, FramesAreCarried, IdsAreUnique, AnswersAreOwn, AnswersMatch
<1>3. EndpointInv
    BY TunnelAssumption DEF TunInit, EndpointInv, EndpointsTyped, RegisteredIsUsed, HandlerSteps
<1> QED
    BY <1>1, <1>2, <1>3 DEF TrafficInv

-----------------------------------------------------------------------------
(* The endpoints.                                                          *)

\* An endpoint that fails: no other changes, and it is not open after.
LEMMA FailedEndpoint ==
    ASSUME EndpointsTyped, NEW s \in Sides, NEW c \in Conns, FailEp(s, c)
    PROVE  /\ ep' \in [Sides -> [Conns -> {"none", "open", "failed"}]]
           /\ \A t \in Sides, d \in Conns : ep'[t][d] = "open" => ep[t][d] = "open" /\ ~(t = s /\ d = c)
<1>1. ep' = [ep EXCEPT ![s] = [ep[s] EXCEPT ![c] = IF ep[s][c] = "none" THEN ep[s][c] ELSE "failed"]]
    BY DEF FailEp
<1>2. [ep[s] EXCEPT ![c] = IF ep[s][c] = "none" THEN ep[s][c] ELSE "failed"] \in [Conns -> {"none", "open", "failed"}]
    BY DEF EndpointsTyped
<1>3. ep' \in [Sides -> [Conns -> {"none", "open", "failed"}]]
    BY <1>1, <1>2 DEF EndpointsTyped
<1>4. ASSUME NEW t \in Sides, NEW d \in Conns, ep'[t][d] = "open" PROVE ep[t][d] = "open" /\ ~(t = s /\ d = c)
    BY <1>1, <1>4 DEF EndpointsTyped
<1> QED
    BY <1>3, <1>4

LEMMA EndpointStep == EndpointInv /\ [TunNext]_tunVars => EndpointInv'
<1> SUFFICES ASSUME EndpointInv, [TunNext]_tunVars PROVE EndpointInv'
    OBVIOUS
<1> USE DEF EndpointInv, EndpointsTyped, RegisteredIsUsed, HandlerSteps
<1>0. "coord" \in Sides /\ "worker" \in Sides /\ MaxConns \in Nat /\ Conns = 1..MaxConns
    BY TunnelAssumption DEF Sides, Conns
<1>1. ASSUME NEW c \in Conns, Dial(c) PROVE EndpointInv'
    <2>1. ep' = [s \in Sides |-> [ep[s] EXCEPT ![c] = "open"]] /\ handler' = [handler EXCEPT ![c] = "accepted"] /\ tunnels' = tunnels
        BY <1>1 DEF Dial
    <2>2. ep' \in [Sides -> [Conns -> {"none", "open", "failed"}]]
        BY <2>1
    <2>3. \A d \in Conns : d # c => ep'["coord"][d] = ep["coord"][d] /\ handler'[d] = handler[d]
        BY <2>1, <1>0
    <2>4. handler'[c] = "accepted" /\ handler' \in [Conns -> HandlerSteps]
        BY <2>1
    <2> QED
        BY <2>1, <2>2, <2>3, <2>4
<1>2. ASSUME NEW c \in Conns, RegisterEp(c) PROVE EndpointInv'
    <2>1. handler' = [handler EXCEPT ![c] = "registered"] /\ tunnels' = c /\ handler[c] = "accepted"
        BY <1>2 DEF RegisterEp
    <2>2. CASE tunnels = 0
        <3>1. ep' = ep
            BY <1>2, <2>2 DEF RegisterEp
        <3> QED
            BY <2>1, <2>2, <3>1, <1>0
    <2>3. CASE tunnels # 0
        <3>1. tunnels \in Conns /\ FailEp("coord", tunnels)
            BY <1>2, <2>3, <1>0 DEF RegisterEp
        <3>2. /\ ep' \in [Sides -> [Conns -> {"none", "open", "failed"}]]
              /\ \A d \in Conns : ep'["coord"][d] = "open" => ep["coord"][d] = "open" /\ d # tunnels
            BY <3>1, <1>0, FailedEndpoint
        <3> QED
            BY <2>1, <3>2, <1>0
    <2> QED
        BY <2>2, <2>3
<1>3. ASSUME NEW c \in Conns, MarkOnline(c) \/ MarkOffline(c) PROVE EndpointInv'
    BY <1>3 DEF MarkOnline, MarkOffline
<1>4. ASSUME NEW c \in Conns, RemoveEp(c) PROVE EndpointInv'
    <2>1. tunnels' \in 0..MaxConns
        BY <1>4, <1>0 DEF RemoveEp
    <2> QED
        BY <1>4, <2>1 DEF RemoveEp
<1>5. ASSUME NEW c \in Conns, NEW s \in Sides, ReadFails(s, c) PROVE EndpointInv'
    <2>1. FailEp(s, c) /\ tunnels' = tunnels
        BY <1>5 DEF ReadFails
    <2>2. /\ ep' \in [Sides -> [Conns -> {"none", "open", "failed"}]]
          /\ \A d \in Conns : ep'["coord"][d] = "open" => ep["coord"][d] = "open"
        BY <2>1, <1>0, FailedEndpoint
    <2>3. handler' \in [Conns -> HandlerSteps] /\ \A d \in Conns : handler'[d] = handler[d] \/ handler'[d] = "returned"
        BY <1>5 DEF ReadFails
    <2> QED
        BY <2>1, <2>2, <2>3
<1>6. ASSUME NEW c \in Conns, NEW s \in Sides, Keepalive(s, c) PROVE EndpointInv'
    <2>1. FailEp(s, c) /\ tunnels' = tunnels /\ handler' = handler
        BY <1>6 DEF Keepalive
    <2>2. /\ ep' \in [Sides -> [Conns -> {"none", "open", "failed"}]]
          /\ \A d \in Conns : ep'["coord"][d] = "open" => ep["coord"][d] = "open"
        BY <2>1, <1>0, FailedEndpoint
    <2> QED
        BY <2>1, <2>2
<1>7. CASE WorkerQueues
    <2>1. handler' = handler /\ tunnels' = tunnels
        BY <1>7 DEF WorkerQueues
    <2>2. ep' = ep \/ ep' = [ep EXCEPT !["worker"] = [c \in Conns |-> IF ep["worker"][c] = "none" THEN "none" ELSE "failed"]]
        BY <1>7 DEF WorkerQueues
    <2>3. ep' \in [Sides -> [Conns -> {"none", "open", "failed"}]] /\ ep'["coord"] = ep["coord"]
        BY <2>2, <1>0
    <2> QED
        BY <2>1, <2>3
<1>8. CASE UNCHANGED <<ep, handler, tunnels>>
    BY <1>8
<1>9. ASSUME NEW c \in Conns, NEW b \in BOOLEAN, NetFails(c, b) PROVE UNCHANGED <<ep, handler, tunnels>>
    BY <1>9 DEF NetFails
<1>10. ASSUME NEW r \in Calls, Lookup(r) \/ OpenStream(r) \/ SendRequest(r) \/ Receive(r) \/ GiveUp(r)
       PROVE  UNCHANGED <<ep, handler, tunnels>>
    BY <1>10 DEF Lookup, OpenStream, SendRequest, Receive, GiveUp, CallOnly
<1>11. ASSUME NEW f, WorkerReads(f) \/ CoordReads(f) \/ Reply(f) PROVE UNCHANGED <<ep, handler, tunnels>>
    BY <1>11 DEF WorkerReads, CoordReads, Reply
<1> QED
    BY <1>1, <1>2, <1>3, <1>4, <1>5, <1>6, <1>7, <1>8, <1>9, <1>10, <1>11 DEF TunNext, tunVars

-----------------------------------------------------------------------------
(* The traffic.                                                            *)

\* A call that ends, or waits, keeps its connection, id and answer.
LEMMA CallMoves ==
    ASSUME TrafficInv, NEW r \in Calls, NEW a \in {"waiting", "ok", "err"}, EndCall(r, a),
           a = "waiting" => call[r].id # 0, a = "ok" => call[r].answer # NoCall,
           next' = next \/ \E c \in Conns : next' = [next EXCEPT ![c] = next[c] + 1]
    PROVE  /\ call' \in [Calls -> Asked] /\ next' \in [Conns -> Nat]
           /\ IdsAreUnique' /\ AnswersAreOwn' /\ AnswersMatch'
           /\ \A q \in Calls : call'[q].conn = call[q].conn /\ call'[q].id = call[q].id
<1> USE DEF TrafficInv, TrafficTyped
<1>1. call' = [call EXCEPT ![r] = [call[r] EXCEPT !.at = a]]
    BY DEF EndCall
<1>2. call' \in [Calls -> Asked]
    <2>1. [call[r] EXCEPT !.at = a] \in Asked
        BY DEF Asked
    <2> QED
        BY <1>1, <2>1
<1>3. \A q \in Calls : /\ call'[q].conn = call[q].conn /\ call'[q].id = call[q].id /\ call'[q].answer = call[q].answer
                       /\ call'[q].at = IF q = r THEN a ELSE call[q].at
    BY <1>1 DEF Asked
<1>4. next' \in [Conns -> Nat] /\ \A c \in Conns : next[c] <= next'[c]
    OBVIOUS
<1>5. \A q \in Calls : call[q].id \in Nat /\ (call[q].id # 0 => call[q].conn \in Conns /\ call[q].id <= next[call[q].conn])
    BY DEF IdsAreUnique, Asked
<1>6. IdsAreUnique'
    <2>1. \A q \in Calls : call[q].id # 0 => call[q].id <= next'[call[q].conn]
        BY <1>4, <1>5
    <2> QED
        BY <1>3, <2>1 DEF IdsAreUnique
<1>7. AnswersAreOwn' /\ AnswersMatch'
    BY <1>3 DEF AnswersAreOwn, AnswersMatch
<1> QED
    BY <1>2, <1>3, <1>4, <1>6, <1>7

\* Frames that were there, or none, with calls that kept their ids.
LEMMA FramesStayCarried ==
    ASSUME FramesAreCarried, frames' \subseteq frames, serving' \subseteq serving, held' = held \/ held' = NoFrame,
           frames \subseteq InFlight, serving \subseteq Requested, held \in Requested \cup {NoFrame},
           \A q \in Calls : call[q].id # 0 => call'[q].conn = call[q].conn /\ call'[q].id = call[q].id
    PROVE  FramesAreCarried'
<1>1. ASSUME NEW q \in Requested, Carried(q) PROVE Carried(q)'
    <2>1. q.call \in Calls /\ q.id # 0
        BY DEF Requested
    <2> QED
        BY <1>1, <2>1 DEF Carried
<1>2. \A f \in frames' : f.frame.conn = f.conn /\ f.frame \in Requested /\ Carried(f.frame)
    BY DEF FramesAreCarried, InFlight
<1>3. \A q \in serving' : q \in Requested /\ Carried(q)
    BY DEF FramesAreCarried
<1>4. held' # NoFrame => held' = held /\ held \in Requested /\ Carried(held)
    BY DEF FramesAreCarried
<1>5. \A f \in frames' : Carried(f.frame)'
    BY <1>1, <1>2
<1>6. \A q \in serving' : Carried(q)'
    BY <1>1, <1>3
<1>7. held' # NoFrame => Carried(held)'
    BY <1>1, <1>4 DEF Carried
<1> QED
    BY <1>2, <1>5, <1>6, <1>7 DEF FramesAreCarried, Carried

LEMMA LookupKeeps == ASSUME TrafficInv, EndpointInv, NEW r \in Calls, Lookup(r) PROVE TrafficInv'
<1> USE DEF TrafficInv, TrafficTyped
<1>0. UNCHANGED <<next, frames, held, serving>> /\ call[r].at = "idle" /\ call[r].id = 0
    BY DEF Lookup, CallOnly, IdsAreUnique
<1>1. CASE tunnels = 0
    <2>1. EndCall(r, "err")
        BY <1>1 DEF Lookup
    <2>2. /\ call' \in [Calls -> Asked] /\ next' \in [Conns -> Nat] /\ IdsAreUnique' /\ AnswersAreOwn' /\ AnswersMatch'
          /\ \A q \in Calls : call'[q].conn = call[q].conn /\ call'[q].id = call[q].id
        BY <2>1, <1>0, CallMoves
    <2>3. FramesAreCarried'
        BY <2>2, <1>0, FramesStayCarried
    <2> QED
        BY <2>2, <2>3, <1>0
<1>2. CASE tunnels # 0
    <2>0. tunnels \in Conns /\ tunnels \in 0..MaxConns
        BY <1>2, TunnelAssumption DEF EndpointInv, EndpointsTyped, Conns
    <2>1. call' = [call EXCEPT ![r] = [call[r] EXCEPT !.at = "found", !.conn = tunnels]]
        BY <1>2 DEF Lookup
    <2>2. [call[r] EXCEPT !.at = "found", !.conn = tunnels] \in Asked
        BY <2>0 DEF Asked
    <2>3. call' \in [Calls -> Asked]
        BY <2>1, <2>2
    <2>4. /\ \A q \in Calls : call'[q].id = call[q].id /\ call'[q].answer = call[q].answer
          /\ \A q \in Calls \ {r} : call'[q] = call[q]
          /\ call'[r].at = "found" /\ call'[r].conn = tunnels
        BY <2>1 DEF Asked
    <2>5. IdsAreUnique'
        BY <2>0, <2>4, <1>0 DEF IdsAreUnique
    <2>6. AnswersAreOwn' /\ AnswersMatch'
        BY <2>4 DEF AnswersAreOwn, AnswersMatch
    <2>7. FramesAreCarried'
        BY <2>4, <1>0, FramesStayCarried
    <2> QED
        BY <2>3, <2>5, <2>6, <2>7, <1>0
<1> QED
    BY <1>1, <1>2

\* The id that a call gets is higher than any given on its connection.
LEMMA OpenStreamKeeps == ASSUME TrafficInv, NEW r \in Calls, OpenStream(r) PROVE TrafficInv'
<1> USE DEF TrafficInv, TrafficTyped
<1> DEFINE c == call[r].conn
           n == next[c] + 1
<1>0. /\ UNCHANGED <<frames, held, serving>> /\ call[r].at = "found" /\ call[r].id = 0 /\ c \in Conns
      /\ next' = [next EXCEPT ![c] = n] /\ n \in Nat /\ n # 0
    BY DEF OpenStream, CallOnly, IdsAreUnique
<1>1. CASE ep["coord"][c] = "failed"
    <2>1. EndCall(r, "err")
        BY <1>1 DEF OpenStream
    <2>2. /\ call' \in [Calls -> Asked] /\ next' \in [Conns -> Nat] /\ IdsAreUnique' /\ AnswersAreOwn' /\ AnswersMatch'
          /\ \A q \in Calls : call'[q].conn = call[q].conn /\ call'[q].id = call[q].id
        BY <2>1, <1>0, CallMoves
    <2>3. FramesAreCarried'
        BY <2>2, <1>0, FramesStayCarried
    <2> QED
        BY <2>2, <2>3, <1>0
<1>2. CASE ep["coord"][c] # "failed"
    <2>1. call' = [call EXCEPT ![r] = [call[r] EXCEPT !.at = "open", !.id = n]]
        BY <1>2 DEF OpenStream
    <2>2. [call[r] EXCEPT !.at = "open", !.id = n] \in Asked
        BY <1>0 DEF Asked
    <2>3. call' \in [Calls -> Asked] /\ next' \in [Conns -> Nat]
        BY <2>1, <2>2, <1>0
    <2>4. /\ \A q \in Calls : call'[q].conn = call[q].conn /\ call'[q].answer = call[q].answer
          /\ \A q \in Calls \ {r} : call'[q] = call[q]
          /\ call'[r].at = "open" /\ call'[r].id = n
        BY <2>1 DEF Asked
    <2>5. \A q \in Calls : call[q].id # 0 => call[q].conn \in Conns /\ call[q].id \in Nat /\ call[q].id <= next[call[q].conn]
        BY DEF IdsAreUnique, Asked
    <2>6. next'[c] = n /\ \A d \in Conns : next[d] <= next'[d]
        BY <1>0
    <2>7. \A q \in Calls \ {r} : call[q].id # 0 =>
             call[q].id <= next'[call[q].conn] /\ (call[q].conn = c => call[q].id # n)
        BY <2>3, <2>5, <2>6
    <2>8. \A q, s \in Calls : call'[q].conn = call'[s].conn /\ call'[q].id = call'[s].id /\ call'[q].id # 0 => q = s
        BY <2>4, <2>7 DEF IdsAreUnique
    <2>9. \A q \in Calls : call'[q].id # 0 => call'[q].conn \in Conns /\ call'[q].id <= next'[call'[q].conn]
        BY <1>0, <2>4, <2>5, <2>6, <2>7
    <2>10. IdsAreUnique'
        BY <1>0, <2>4, <2>8, <2>9 DEF IdsAreUnique
    <2>11. AnswersAreOwn' /\ AnswersMatch'
        BY <2>4 DEF AnswersAreOwn, AnswersMatch
    <2>12. FramesAreCarried'
        BY <2>4, <1>0, FramesStayCarried
    <2> QED
        BY <2>3, <2>10, <2>11, <2>12, <1>0
<1> QED
    BY <1>1, <1>2

LEMMA SendRequestKeeps == ASSUME TrafficInv, NEW r \in Calls, SendRequest(r) PROVE TrafficInv'
<1> USE DEF TrafficInv, TrafficTyped
<1>0. UNCHANGED <<next, held, serving>> /\ call[r].at = "open" /\ call[r].id # 0 /\ call[r].id \in Nat /\ call[r].conn \in Conns
    BY DEF SendRequest, CallOnly, IdsAreUnique, Asked
<1>1. PICK a \in {"waiting", "err"} : EndCall(r, a)
    BY DEF SendRequest
<1>2. /\ call' \in [Calls -> Asked] /\ next' \in [Conns -> Nat] /\ IdsAreUnique' /\ AnswersAreOwn' /\ AnswersMatch'
      /\ \A q \in Calls : call'[q].conn = call[q].conn /\ call'[q].id = call[q].id
    BY <1>0, <1>1, CallMoves
<1>3. CASE frames' = frames
    <2>1. FramesAreCarried'
        BY <1>0, <1>2, <1>3, FramesStayCarried
    <2> QED
        BY <1>0, <1>2, <1>3, <2>1
<1>4. CASE frames' # frames
    <2>1. PICK q \in Requested : q = [conn |-> call[r].conn, id |-> call[r].id, call |-> r]
        BY <1>0 DEF Requested
    <2>2. PICK f \in InFlight : f = [dir |-> "request", frame |-> q, conn |-> call[r].conn]
        BY <1>0, <2>1 DEF InFlight
    <2>3. frames' = frames \cup {f} /\ f.frame = q /\ f.conn = call[r].conn
        BY <1>4, <2>1, <2>2 DEF SendRequest
    <2>3a. f.frame.conn = f.conn /\ Carried(f.frame)'
        BY <1>2, <2>1, <2>3 DEF Carried
    <2>4. \A g \in frames : g.frame.conn = g.conn /\ Carried(g.frame)'
        BY <1>2 DEF FramesAreCarried, Carried, InFlight, Requested
    <2>5. (\A x \in serving : Carried(x)') /\ (held # NoFrame => Carried(held)')
        BY <1>0, <1>2 DEF FramesAreCarried, Carried, Requested
    <2>6. FramesAreCarried'
        <3>1. \A g \in frames' : g.frame.conn = g.conn /\ Carried(g.frame)'
            BY <2>3, <2>3a, <2>4
        <3> QED
            BY <3>1, <2>5, <1>0 DEF FramesAreCarried, Carried
    <2> QED
        BY <2>3, <2>6, <1>0, <1>2
<1> QED
    BY <1>3, <1>4

LEMMA ReceiveKeeps == ASSUME TrafficInv, NEW r \in Calls, Receive(r) \/ GiveUp(r) PROVE TrafficInv'
<1> USE DEF TrafficInv, TrafficTyped
<1>1. UNCHANGED <<next, frames, held, serving>>
    BY DEF Receive, GiveUp, CallOnly
<1>2. PICK a \in {"ok", "err"} : EndCall(r, a) /\ (a = "ok" => call[r].answer # NoCall)
    BY DEF Receive, GiveUp
<1>3. /\ call' \in [Calls -> Asked] /\ next' \in [Conns -> Nat] /\ IdsAreUnique' /\ AnswersAreOwn' /\ AnswersMatch'
      /\ \A q \in Calls : call'[q].conn = call[q].conn /\ call'[q].id = call[q].id
    BY <1>1, <1>2, CallMoves
<1>4. FramesAreCarried'
    BY <1>1, <1>3, FramesStayCarried
<1> QED
    BY <1>1, <1>3, <1>4

\* A response reaches the call that its id was given to.
LEMMA CoordReadsKeeps == ASSUME TrafficInv, NEW f \in frames, CoordReads(f) PROVE TrafficInv'
<1> USE DEF TrafficInv, TrafficTyped
<1>1. UNCHANGED <<next, held, serving>> /\ frames' = frames \ {f}
    BY DEF CoordReads
<1>2. f.frame.conn = f.conn /\ Carried(f.frame) /\ f.frame.id # 0 /\ f.frame.call \in Calls
    BY DEF FramesAreCarried, InFlight, Requested
<1>3. ASSUME NEW r \in Calls
      PROVE  call'[r] = call[r] \/ (call'[r] = [call[r] EXCEPT !.answer = r])
    <2>1. CASE call[r].conn = f.conn /\ call[r].id = f.frame.id /\ f.frame.id \in streams[f.conn]
        <3>1. call'[r] = [call[r] EXCEPT !.answer = f.frame.call]
            BY <2>1 DEF CoordReads
        <3>2. f.frame.call = r
            BY <2>1, <1>2 DEF Carried, IdsAreUnique
        <3> QED
            BY <3>1, <3>2
    <2>2. CASE ~(call[r].conn = f.conn /\ call[r].id = f.frame.id /\ f.frame.id \in streams[f.conn])
        BY <2>2 DEF CoordReads
    <2> QED
        BY <2>1, <2>2
<1>4. \A r \in Calls : /\ call'[r] \in Asked /\ call'[r].at = call[r].at /\ call'[r].conn = call[r].conn /\ call'[r].id = call[r].id
                       /\ call'[r].answer \in {call[r].answer, r}
    <2> SUFFICES ASSUME NEW r \in Calls
                 PROVE  /\ call'[r] \in Asked /\ call'[r].at = call[r].at /\ call'[r].conn = call[r].conn /\ call'[r].id = call[r].id
                        /\ call'[r].answer \in {call[r].answer, r}
        OBVIOUS
    <2>1. call[r] \in Asked /\ r \in Calls
        OBVIOUS
    <2>2. CASE call'[r] = call[r]
        BY <2>1, <2>2
    <2>3. CASE call'[r] = [call[r] EXCEPT !.answer = r]
        BY <2>1, <2>3 DEF Asked
    <2> QED
        BY <1>3, <2>2, <2>3
<1>5. call' \in [Calls -> Asked]
    <2>1. \E F \in [Calls -> Asked] : call' = F
        <3>1. call' = [r \in Calls |-> call'[r]]
            BY DEF CoordReads
        <3> QED
            BY <3>1, <1>4
    <2> QED
        BY <2>1
<1>6. IdsAreUnique'
    BY <1>1, <1>4 DEF IdsAreUnique
<1>7. AnswersAreOwn' /\ AnswersMatch'
    BY <1>4 DEF AnswersAreOwn, AnswersMatch
<1>8. FramesAreCarried'
    BY <1>1, <1>4, FramesStayCarried
<1> QED
    BY <1>1, <1>5, <1>6, <1>7, <1>8

LEMMA WorkerKeeps ==
    ASSUME TrafficInv, WorkerQueues \/ (\E f \in frames : WorkerReads(f)) \/ \E q \in serving : Reply(q)
    PROVE  TrafficInv'
<1> USE DEF TrafficInv, TrafficTyped
<1>1. UNCHANGED <<next, call>> /\ \A q : Carried(q)' = Carried(q)
    BY DEF WorkerQueues, WorkerReads, Reply, Carried
<1>2. /\ \A q \in serving' : q \in Requested /\ Carried(q)
      /\ held' \in Requested \cup {NoFrame} /\ (held' # NoFrame => Carried(held'))
      /\ \A f \in frames' : f \in InFlight /\ f.frame.conn = f.conn /\ Carried(f.frame)
    <2>1. CASE WorkerQueues
        BY <2>1 DEF WorkerQueues, FramesAreCarried
    <2>2. ASSUME NEW f \in frames, WorkerReads(f)
          PROVE  /\ serving' = serving /\ frames' \subseteq frames
                 /\ held' \in Requested /\ Carried(held')
        BY <2>2 DEF WorkerReads, FramesAreCarried, InFlight
    <2>3. ASSUME NEW q \in serving, Reply(q)
          PROVE  /\ serving' \subseteq serving /\ held' = held
                 /\ \A f \in frames' : f \in InFlight /\ f.frame.conn = f.conn /\ Carried(f.frame)
        <3> DEFINE f == [dir |-> "response", frame |-> q, conn |-> q.conn]
        <3>1. serving' \subseteq serving /\ held' = held /\ frames' \subseteq frames \cup {f}
            BY <2>3 DEF Reply, ReplyConn
        <3>2. q \in Requested /\ f \in InFlight /\ f.frame.conn = f.conn /\ Carried(f.frame)
            BY DEF FramesAreCarried, InFlight, Requested
        <3> QED
            BY <3>1, <3>2 DEF FramesAreCarried
    <2> QED
        BY <2>1, <2>2, <2>3 DEF FramesAreCarried
<1>3. FramesAreCarried'
    BY <1>1, <1>2 DEF FramesAreCarried, Carried
<1>4. IdsAreUnique' /\ AnswersAreOwn' /\ AnswersMatch'
    BY <1>1 DEF IdsAreUnique, AnswersAreOwn, AnswersMatch
<1> QED
    BY <1>1, <1>2, <1>3, <1>4

LEMMA TrafficStep == TrafficInv /\ EndpointInv /\ [TunNext]_tunVars => TrafficInv'
<1> SUFFICES ASSUME TrafficInv, EndpointInv, [TunNext]_tunVars PROVE TrafficInv'
    OBVIOUS
<1>1. CASE UNCHANGED <<next, call, frames, held, serving>>
    BY <1>1 DEF TrafficInv, TrafficTyped, FramesAreCarried, Carried, IdsAreUnique, AnswersAreOwn, AnswersMatch
<1>2. ASSUME NEW c \in Conns, Dial(c) \/ RegisterEp(c) \/ MarkOnline(c) \/ RemoveEp(c) \/ MarkOffline(c)
      PROVE  UNCHANGED <<next, call, frames, held, serving>>
    BY <1>2 DEF Dial, RegisterEp, MarkOnline, RemoveEp, MarkOffline
<1>3. ASSUME NEW c \in Conns, NEW s \in Sides, ReadFails(s, c) \/ Keepalive(s, c)
      PROVE  UNCHANGED <<next, call, frames, held, serving>>
    BY <1>3 DEF ReadFails, Keepalive
<1>4. ASSUME NEW c \in Conns, NEW b \in BOOLEAN, NetFails(c, b) PROVE TrafficInv'
    <2>1. UNCHANGED <<next, call, held, serving>> /\ frames' \subseteq frames
        BY <1>4 DEF NetFails
    <2>2. FramesAreCarried'
        BY <2>1, FramesStayCarried DEF TrafficInv, TrafficTyped
    <2> QED
        BY <2>1, <2>2 DEF TrafficInv, TrafficTyped, IdsAreUnique, AnswersAreOwn, AnswersMatch
<1> QED
    BY <1>1, <1>2, <1>3, <1>4, LookupKeeps, OpenStreamKeeps, SendRequestKeeps, ReceiveKeeps, CoordReadsKeeps, WorkerKeeps
       DEF TunNext, tunVars

LEMMA TunnelCorrect == TunSpec => [](TrafficInv /\ EndpointInv)
BY TunnelInitially, TrafficStep, EndpointStep, PTL DEF TunSpec

\* For any number of connections, calls and faults: a response that a call
\* returns is the one to its own request (Endpoint.Do, Endpoint.Run).
THEOREM AnswersBelong == TunSpec => []AnswersMatch
<1>1. TrafficInv => AnswersMatch
    BY DEF TrafficInv
<1> QED
    BY <1>1, TunnelCorrect, PTL

\* An endpoint that the coordinator reads from and that is open is the one in
\* the registry: Remove compares before it deletes, Register closes the endpoint
\* that it replaces (Registry.Register, Registry.Remove).
THEOREM TunnelIsUsed == TunSpec => []OpenTunnelIsUsed
<1>1. EndpointInv => OpenTunnelIsUsed
    BY DEF EndpointInv, RegisteredIsUsed, OpenTunnelIsUsed
<1> QED
    BY <1>1, TunnelCorrect, PTL
=============================================================================
