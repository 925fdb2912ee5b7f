--------------------------- MODULE DispatchProofs ---------------------------
(***************************************************************************)
(* What the lock on the inflight map is good for, whatever the states, the *)
(* agents and the goroutines that dispatch: a group sends for each of its  *)
(* agents once.                                                            *)
(***************************************************************************)
EXTENDS Dispatch, TLAPS, WellFoundedInduction

States == Active \cup Idle

Thread == [pc: {"idle", "entering", "inspecting", "clearing", "opening", "sending"},
           kind: {"issue_created", "label_added", "issue_resynced"},
           state: States \cup {Nothing}, target: Nat, todo: Seq(Agents)]

\* A thread beyond the state entry has a state with agents, and one that
\* sends has an agent to send for.
ThreadOK(r) ==
    /\ r \in Thread
    /\ r.pc = "entering" => r.state \in States
    /\ r.pc \in {"inspecting", "clearing", "opening", "sending"} => r.state \in Active
    /\ r.pc = "sending" => r.todo # <<>>

GroupOK(g) ==
    /\ g \in [id: Nat, state: States \cup {Nothing}, join: {"all_passed", "any_passed"},
              slots: SUBSET Agents, sent: SUBSET Agents, ok: SUBSET Agents,
              bad: SUBSET Agents, tasks: SUBSET Nat]
    /\ g.ok \cap g.bad = {} /\ g.ok \cup g.bad \subseteq g.slots

Request == [state: Active, agent: Agents, group: Nat \ {0}]
TaskRow == [state: Active, agent: Agents, group: Nat \ {0},
            status: {"pending", "running", "completed", "failed"}]

\* The shape of what the threads share.
ThreadsOK  == DOMAIN th = Threads /\ \A t \in Threads : ThreadOK(th[t])
IssueOK    == /\ label \in States /\ observed \in States \cup {Nothing}
              /\ transitions \in 0..(MaxTransitions + 1)
RecoveredOK == recovered \in BOOLEAN
DispatchOK == groups \in Nat /\ GroupOK(inflight) /\ chan \in Seq(Request)
RowsOK     == /\ rows \in Seq(TaskRow)
              /\ latest \in [Active -> [Agents -> 0..Len(rows)]]
              /\ signals \subseteq (DOMAIN rows) \X States

\* Requests and rows come from groups that were opened, and those of the
\* inflight group from slots it has marked.
Marked(x) ==
    /\ x.group <= groups
    /\ x.group = inflight.id => x.agent \in inflight.sent

FromGroups ==
    /\ inflight.id <= groups
    /\ \A n \in DOMAIN chan : Marked(chan[n])
    /\ \A i \in DOMAIN rows : Marked(rows[i])

IInv == ThreadsOK /\ IssueOK /\ RecoveredOK /\ DispatchOK /\ RowsOK /\ FromGroups /\ OncePerGroup

-----------------------------------------------------------------------------
LEMMA IdlingOK == ThreadOK(Idling)
  BY DEF ThreadOK, Thread, Idling, States

LEMMA NoGroupOK == GroupOK(NoGroup) /\ NoGroup.id = 0 /\ NoGroup.sent = {}
  BY DEF GroupOK, NoGroup, Group, States

\* A group of some slots of an active state.
LEMMA NewGroupOK ==
    ASSUME NEW n \in Nat, NEW s \in Active, NEW j \in {"all_passed", "any_passed"},
           NEW q \in SUBSET Agents
    PROVE  /\ GroupOK(Group(n, s, j, q))
           /\ Group(n, s, j, q).id = n
           /\ Group(n, s, j, q).state = s
           /\ Group(n, s, j, q).sent = {}
  BY DEF GroupOK, Group, States

\* One thread moves.
LEMMA ThreadMoves ==
    ASSUME ThreadsOK, NEW t \in Threads, NEW r, ThreadOK(r), th' = [th EXCEPT ![t] = r]
    PROVE  ThreadsOK'
  BY DEF ThreadsOK, ThreadOK

LEMMA InitEstablishes == Init => IInv
<1> SUFFICES ASSUME Init PROVE IInv
  OBVIOUS
<1>1. ThreadsOK
  BY IdlingOK DEF Init, ThreadsOK
<1>2. IssueOK
  BY DispatchAssumption DEF Init, IssueOK, States
<1>5. RecoveredOK
  BY Zenon DEF Init, RecoveredOK
<1>3. DispatchOK /\ RowsOK
  BY NoGroupOK DEF Init, DispatchOK, RowsOK
<1>4. FromGroups /\ OncePerGroup
  BY NoGroupOK DEF Init, FromGroups, OncePerGroup
<1> QED
  BY <1>1, <1>2, <1>3, <1>4, <1>5 DEF IInv

-----------------------------------------------------------------------------
(* Steps that send no request and insert no row: the groups seen so far    *)
(* keep their requests, whether the inflight group stays, goes or is new.  *)

LEMMA Elements ==
    ASSUME IInv
    PROVE  /\ \A n \in DOMAIN chan : /\ chan[n].group \in Nat \ {0}
                                     /\ chan[n].agent \in Agents /\ chan[n].state \in Active
           /\ \A i \in DOMAIN rows : /\ rows[i].group \in Nat \ {0}
                                     /\ rows[i].agent \in Agents /\ rows[i].state \in Active
           /\ groups \in Nat /\ inflight.id \in Nat
<1>1. \A n \in DOMAIN chan : chan[n] \in Request
  BY DEF IInv, DispatchOK
<1>2. \A i \in DOMAIN rows : rows[i] \in TaskRow
  BY DEF IInv, RowsOK
<1>3. groups \in Nat /\ inflight.id \in Nat
  BY DEF IInv, DispatchOK, GroupOK
<1>4. \A n \in DOMAIN chan : chan[n].group \in Nat \ {0} /\ chan[n].agent \in Agents /\ chan[n].state \in Active
  BY <1>1 DEF Request
<1>5. \A i \in DOMAIN rows : rows[i].group \in Nat \ {0} /\ rows[i].agent \in Agents /\ rows[i].state \in Active
  BY <1>2 DEF TaskRow
<1> QED
  BY <1>3, <1>4, <1>5

LEMMA KeepsOnce ==
    ASSUME IInv, chan' = chan, DOMAIN rows' = DOMAIN rows,
           \A i \in DOMAIN rows : rows'[i].group = rows[i].group /\ rows'[i].agent = rows[i].agent,
           groups' \in Nat, groups <= groups', inflight'.id \in Nat, inflight'.id <= groups',
           \/ inflight'.id = 0
           \/ groups < inflight'.id
           \/ inflight'.id = inflight.id /\ inflight.sent \subseteq inflight'.sent
    PROVE  FromGroups' /\ OncePerGroup'
<1>1. /\ \A n \in DOMAIN chan : chan[n].group \in Nat \ {0}
      /\ \A i \in DOMAIN rows : rows[i].group \in Nat \ {0}
      /\ groups \in Nat /\ inflight.id \in Nat
  BY Elements
<1>2. FromGroups'
  BY <1>1 DEF IInv, FromGroups, Marked
<1>3. OncePerGroup'
  BY DEF IInv, OncePerGroup, SameSlot
<1> QED
  BY <1>2, <1>3

\* The status of a row changes and nothing else in the table does.
LEMMA SetStatusOK ==
    ASSUME IInv, NEW i \in DOMAIN rows,
           NEW s \in {"pending", "running", "completed", "failed"}, SetStatus(i, s)
    PROVE  /\ rows' \in Seq(TaskRow)
           /\ Len(rows') = Len(rows) /\ DOMAIN rows' = DOMAIN rows
           /\ latest' \in [Active -> [Agents -> 0..Len(rows')]]
           /\ \A j \in DOMAIN rows : rows'[j].group = rows[j].group /\ rows'[j].agent = rows[j].agent
<1> DEFINE r == [rows[i] EXCEPT !.status = s]
<1>1. rows \in Seq(TaskRow) /\ i \in 1..Len(rows) /\ rows[i] \in TaskRow
  BY DEF IInv, RowsOK
<1>2. r \in TaskRow /\ r.group = rows[i].group /\ r.agent = rows[i].agent
  BY <1>1 DEF TaskRow
<1>3. rows' = [rows EXCEPT ![i] = r]
  BY DEF SetStatus
<1> HIDE DEF r
<1>4. rows' \in Seq(TaskRow) /\ Len(rows') = Len(rows) /\ DOMAIN rows' = DOMAIN rows
  BY <1>1, <1>2, <1>3
<1>5. \A j \in DOMAIN rows : rows'[j].group = rows[j].group /\ rows'[j].agent = rows[j].agent
  BY <1>1, <1>2, <1>3
<1>6. rows[i].state \in Active /\ rows[i].agent \in Agents
  BY <1>1 DEF TaskRow
<1>7. latest' \in [Active -> [Agents -> 0..Len(rows)]]
  BY <1>1, <1>6 DEF IInv, RowsOK, SetStatus
<1> QED
  BY <1>4, <1>5, <1>7

\* The table is left alone and the inflight group is kept, dropped or new.
LEMMA SharedStep ==
    ASSUME IInv, UNCHANGED <<chan, rows, latest>>,
           signals' \subseteq signals,
           groups' \in Nat, groups <= groups', GroupOK(inflight'), inflight'.id <= groups',
           \/ inflight'.id = 0
           \/ groups < inflight'.id
           \/ inflight'.id = inflight.id /\ inflight.sent \subseteq inflight'.sent
    PROVE  DispatchOK' /\ RowsOK' /\ FromGroups' /\ OncePerGroup'
<1>1. inflight'.id \in Nat
  BY DEF GroupOK
<1>2. FromGroups' /\ OncePerGroup'
  BY <1>1, KeepsOnce
<1>3. DispatchOK'
  BY DEF IInv, DispatchOK, GroupOK
<1>4. RowsOK'
  BY DEF IInv, RowsOK
<1> QED
  BY <1>2, <1>3, <1>4

\* In particular when the group is left alone, or forgotten.
LEMMA SameShared ==
    ASSUME IInv, UNCHANGED <<chan, rows, latest, groups>>,
           signals' \subseteq signals, inflight' \in {inflight, NoGroup}
    PROVE  DispatchOK' /\ RowsOK' /\ FromGroups' /\ OncePerGroup'
<1>1. groups \in Nat /\ inflight.id \in Nat /\ inflight.id <= groups /\ GroupOK(inflight)
  BY Elements DEF IInv, FromGroups, DispatchOK
<1>2. GroupOK(inflight') /\ (inflight'.id = 0 \/ (inflight'.id = inflight.id /\ inflight.sent \subseteq inflight'.sent))
  <2>1. CASE inflight' = inflight
    BY <1>1, <2>1
  <2>2. CASE inflight' = NoGroup
    BY NoGroupOK, <2>2
  <2> QED
    BY <2>1, <2>2
<1>3. inflight'.id <= groups' /\ groups' \in Nat /\ groups <= groups'
  BY <1>1, <1>2
<1> QED
  BY <1>2, <1>3, SharedStep

-----------------------------------------------------------------------------
(* The poller and the recovery hand an event to HandleEvent.               *)

LEMMA BeginOK ==
    ASSUME ThreadsOK, NEW t \in Threads, NEW s \in States,
           NEW k \in {"issue_created", "label_added", "issue_resynced"}, Begin(t, k, s)
    PROVE  ThreadsOK'
<1> DEFINE r == [Idling EXCEPT !.pc = "entering", !.kind = k, !.state = s]
<1>1. ThreadOK(r)
  <2>1. r \in Thread /\ r.pc = "entering" /\ r.state = s
    BY IdlingOK DEF ThreadOK, Thread
  <2> QED
    BY <2>1 DEF ThreadOK
<1>2. th' = [th EXCEPT ![t] = r]
  BY DEF Begin
<1> HIDE DEF r
<1> QED
  BY <1>1, <1>2, ThreadMoves

LEMMA PollChangeStep == IInv /\ PollChange => IInv'
<1> SUFFICES ASSUME IInv, PollChange PROVE IInv'
  OBVIOUS
<1>1. label \in States /\ "loop" \in Threads /\ ThreadsOK
  BY DispatchAssumption DEF IInv, IssueOK
<1>2. PICK k \in {"issue_created", "label_added", "issue_resynced"} : Begin("loop", k, label)
  BY DEF PollChange
<1>3. ThreadsOK'
  BY <1>1, <1>2, BeginOK
<1>4. IssueOK'
  BY DEF PollChange, IInv, IssueOK
<1>5. RecoveredOK'
  BY Zenon DEF PollChange, IInv, RecoveredOK
<1>6. DispatchOK' /\ RowsOK' /\ FromGroups' /\ OncePerGroup'
  BY SameShared DEF PollChange
<1> QED
  BY <1>3, <1>4, <1>5, <1>6 DEF IInv

LEMMA PollResyncStep == IInv /\ PollResync => IInv'
<1> SUFFICES ASSUME IInv, PollResync PROVE IInv'
  OBVIOUS
<1>1. label \in States /\ "loop" \in Threads /\ ThreadsOK
  BY DispatchAssumption DEF IInv, IssueOK
<1>2. ASSUME Begin("loop", "issue_resynced", label) PROVE ThreadsOK'
  BY <1>1, <1>2, BeginOK
<1>3. ASSUME UNCHANGED th PROVE ThreadsOK'
  BY <1>1, <1>3 DEF ThreadsOK
<1>4. ThreadsOK'
  BY <1>2, <1>3 DEF PollResync
<1>5. IssueOK'
  BY DEF PollResync, IInv, IssueOK
<1>6. RecoveredOK'
  BY Zenon DEF PollResync, IInv, RecoveredOK
<1>7. DispatchOK' /\ RowsOK' /\ FromGroups' /\ OncePerGroup'
  BY SameShared DEF PollResync
<1> QED
  BY <1>4, <1>5, <1>6, <1>7 DEF IInv

LEMMA RecoverOrphanStep == IInv /\ RecoverOrphan => IInv'
<1> SUFFICES ASSUME IInv, RecoverOrphan PROVE IInv'
  OBVIOUS
<1>1. /\ observed \in States /\ "recovery" \in Threads /\ ThreadsOK
      /\ Begin("recovery", "issue_created", observed)
  BY DEF IInv, RecoverOrphan, States
<1>2. ThreadsOK'
  BY <1>1, BeginOK
<1>3. IssueOK'
  BY DEF RecoverOrphan, IInv, IssueOK
<1>4. RecoveredOK'
  BY Zenon DEF RecoverOrphan, RecoveredOK
<1>5. DispatchOK' /\ RowsOK' /\ FromGroups' /\ OncePerGroup'
  BY SameShared DEF RecoverOrphan
<1> QED
  BY <1>2, <1>3, <1>4, <1>5 DEF IInv

LEMMA PollCycleDoneStep == IInv /\ PollCycleDone => IInv'
<1> SUFFICES ASSUME IInv, PollCycleDone PROVE IInv'
  OBVIOUS
<1>1. ThreadsOK' /\ IssueOK'
  BY DEF PollCycleDone, IInv, ThreadsOK, IssueOK
<1>2. RecoveredOK'
  BY Zenon DEF PollCycleDone, RecoveredOK
<1>3. DispatchOK' /\ RowsOK' /\ FromGroups' /\ OncePerGroup'
  BY SameShared DEF PollCycleDone
<1> QED
  BY <1>1, <1>2, <1>3 DEF IInv

-----------------------------------------------------------------------------
(* HandleEvent and evaluateCompletionTransitions on their way to the group.*)

LEMMA EnterStateStep ==
    ASSUME IInv, NEW t \in Threads, EnterState(t)
    PROVE  IInv'
<1>1. ThreadsOK /\ ThreadOK(th[t]) /\ th[t] \in Thread /\ th[t].state \in States
  BY DEF IInv, ThreadsOK, ThreadOK, EnterState
<1>2. ThreadsOK'
  <2>1. ASSUME th' = [th EXCEPT ![t] = Idling] PROVE ThreadsOK'
    BY <1>1, <2>1, IdlingOK, ThreadMoves
  <2>2. ASSUME th' = [th EXCEPT ![t].pc = "inspecting"], th[t].state \notin Idle PROVE ThreadsOK'
    <3> DEFINE r == [th[t] EXCEPT !.pc = "inspecting"]
    <3>1. r \in Thread /\ r.pc = "inspecting" /\ r.state = th[t].state
      BY <1>1 DEF Thread
    <3>2. ThreadOK(r)
      BY <1>1, <2>2, <3>1 DEF ThreadOK, States
    <3>3. th' = [th EXCEPT ![t] = r]
      BY <2>2
    <3> HIDE DEF r
    <3> QED
      BY <1>1, <3>2, <3>3, ThreadMoves
  <2> QED
    BY <2>1, <2>2 DEF EnterState
<1>3. IssueOK'
  BY DispatchAssumption DEF IInv, IssueOK, EnterState
<1>4. RecoveredOK'
  BY Zenon DEF EnterState, IInv, RecoveredOK
<1>5. inflight' \in {inflight, NoGroup}
  BY DEF EnterState
<1>6. DispatchOK' /\ RowsOK' /\ FromGroups' /\ OncePerGroup'
  BY <1>5, SameShared DEF EnterState
<1> QED
  BY <1>2, <1>3, <1>4, <1>6 DEF IInv

LEMMA InspectInflightStep ==
    ASSUME IInv, NEW t \in Threads, InspectInflight(t)
    PROVE  IInv'
<1>1. ThreadsOK /\ th[t] \in Thread /\ th[t].state \in Active /\ inflight.id \in Nat
  BY Elements DEF IInv, ThreadsOK, ThreadOK, InspectInflight
<1> DEFINE c == [th[t] EXCEPT !.pc = "clearing", !.target = inflight.id]
           o == [th[t] EXCEPT !.pc = "opening"]
<1>2. ThreadOK(c) /\ ThreadOK(o)
  <2>1. c \in Thread /\ c.pc = "clearing" /\ c.state = th[t].state
    BY <1>1 DEF Thread
  <2>2. o \in Thread /\ o.pc = "opening" /\ o.state = th[t].state
    BY <1>1 DEF Thread
  <2> QED
    BY <1>1, <2>1, <2>2 DEF ThreadOK
<1>3. th' = [th EXCEPT ![t] = c] \/ th' = [th EXCEPT ![t] = o]
  BY DEF InspectInflight
<1> HIDE DEF c, o
<1>4. ThreadsOK'
  BY <1>1, <1>2, <1>3, ThreadMoves
<1>5. IssueOK'
  BY DEF IInv, IssueOK, InspectInflight
<1>6. RecoveredOK'
  BY Zenon DEF InspectInflight, IInv, RecoveredOK
<1>7. DispatchOK' /\ RowsOK' /\ FromGroups' /\ OncePerGroup'
  BY SameShared DEF InspectInflight
<1> QED
  BY <1>4, <1>5, <1>6, <1>7 DEF IInv

LEMMA ClearIfMatchStep ==
    ASSUME IInv, NEW t \in Threads, ClearIfMatch(t)
    PROVE  IInv'
<1>1. ThreadsOK /\ th[t] \in Thread /\ th[t].state \in Active
  BY DEF IInv, ThreadsOK, ThreadOK, ClearIfMatch
<1> DEFINE o == [th[t] EXCEPT !.pc = "opening", !.target = 0]
<1>2. ThreadOK(o)
  <2>1. o \in Thread /\ o.pc = "opening" /\ o.state = th[t].state
    BY <1>1 DEF Thread
  <2> QED
    BY <1>1, <2>1 DEF ThreadOK
<1>3. th' = [th EXCEPT ![t] = o]
  BY <1>1 DEF ClearIfMatch, ThreadsOK, Thread
<1> HIDE DEF o
<1>4. ThreadsOK'
  BY <1>1, <1>2, <1>3, ThreadMoves
<1>5. IssueOK'
  BY DEF IInv, IssueOK, ClearIfMatch
<1>6. RecoveredOK'
  BY Zenon DEF ClearIfMatch, IInv, RecoveredOK
<1>7. inflight' \in {inflight, NoGroup}
  BY DEF ClearIfMatch
<1>8. DispatchOK' /\ RowsOK' /\ FromGroups' /\ OncePerGroup'
  BY <1>7, SameShared DEF ClearIfMatch
<1> QED
  BY <1>4, <1>5, <1>6, <1>8 DEF IInv

LEMMA OpenGroupStep ==
    ASSUME IInv, NEW t \in Threads, OpenGroup(t)
    PROVE  IInv'
<1> DEFINE s == th[t].state
<1>1. ThreadsOK /\ th[t] \in Thread /\ s \in Active /\ groups \in Nat
  BY Elements DEF IInv, ThreadsOK, ThreadOK, OpenGroup
<1>2. IssueOK'
  BY DEF IInv, IssueOK, OpenGroup
<1>3. RecoveredOK'
  BY Zenon DEF OpenGroup, IInv, RecoveredOK
<1>4. CASE inflight.id # 0
  <2>1. ThreadsOK'
    BY <1>1, <1>4, IdlingOK, ThreadMoves DEF OpenGroup
  <2>2. DispatchOK' /\ RowsOK' /\ FromGroups' /\ OncePerGroup'
    BY <1>4, SameShared DEF OpenGroup
  <2> QED
    BY <1>2, <1>3, <2>1, <2>2 DEF IInv
<1>5. CASE inflight.id = 0
  <2>1. AgentsOf[s] \in Seq(Agents) /\ AgentsOf[s] # <<>> /\ JoinOf[s] \in {"all_passed", "any_passed"}
    BY <1>1, DispatchAssumption
  <2>2. Slots(s) \subseteq Agents
    BY <1>1 DEF Agents
  <2> DEFINE r == [th[t] EXCEPT !.pc = "sending", !.todo = AgentsOf[s]]
  <2>3. ThreadOK(r)
    <3>1. r \in Thread /\ r.pc = "sending" /\ r.state = s /\ r.todo = AgentsOf[s]
      BY <1>1, <2>1 DEF Thread
    <3> QED
      BY <1>1, <2>1, <3>1 DEF ThreadOK
  <2>4. th' = [th EXCEPT ![t] = r]
    BY <1>1, <1>5 DEF OpenGroup, ThreadsOK, Thread
  <2> HIDE DEF r
  <2>5. ThreadsOK'
    BY <1>1, <2>3, <2>4, ThreadMoves
  <2>6. GroupOK(inflight') /\ inflight'.id = groups + 1 /\ groups' = groups + 1
    <3>1. inflight' = Group(groups + 1, s, JoinOf[s], Slots(s)) /\ groups' = groups + 1
      BY <1>5 DEF OpenGroup
    <3>2. groups + 1 \in Nat
      BY <1>1
    <3> HIDE DEF s
    <3> QED
      BY <1>1, <2>1, <2>2, <3>1, <3>2, NewGroupOK
  <2>7. DispatchOK' /\ RowsOK' /\ FromGroups' /\ OncePerGroup'
    BY <1>1, <2>6, SharedStep DEF OpenGroup
  <2> QED
    BY <1>2, <1>3, <2>5, <2>7 DEF IInv
<1> QED
  BY <1>4, <1>5

\* A request of a slot that its group had not marked joins the channel.
LEMMA AppendRequest ==
    ASSUME IInv, NEW m \in Request, chan' = Append(chan, m), rows' = rows,
           groups' \in Nat, groups <= groups', inflight'.id = m.group, m.group <= groups',
           m.agent \in inflight'.sent,
           \/ groups < m.group
           \/ /\ inflight.id = m.group /\ inflight.sent \subseteq inflight'.sent
              /\ m.agent \notin inflight.sent
    PROVE  chan' \in Seq(Request) /\ FromGroups' /\ OncePerGroup'
<1>1. m.group \in Nat \ {0}
  BY DEF Request
<1>2. /\ chan \in Seq(Request) /\ chan' \in Seq(Request)
      /\ DOMAIN chan = 1..Len(chan) /\ DOMAIN chan' = 1..(Len(chan) + 1)
      /\ \A n \in DOMAIN chan : chan'[n] = chan[n]
      /\ chan'[Len(chan) + 1] = m /\ Len(chan) \in Nat
  BY DEF IInv, DispatchOK
<1>3. /\ \A n \in DOMAIN chan : ~(chan[n].group = m.group /\ chan[n].agent = m.agent)
      /\ \A i \in DOMAIN rows : ~(rows[i].group = m.group /\ rows[i].agent = m.agent)
  BY <1>1, Elements DEF IInv, FromGroups, Marked
<1>4. FromGroups'
  <2>1. \A n \in DOMAIN chan : Marked(chan[n])'
    BY <1>1, <1>2, Elements DEF IInv, FromGroups, Marked
  <2>2. \A i \in DOMAIN rows : Marked(rows[i])'
    BY <1>1, Elements DEF IInv, FromGroups, Marked
  <2>3. m.group <= groups' /\ (m.group = inflight'.id => m.agent \in inflight'.sent)
    OBVIOUS
  <2>4. \A n \in DOMAIN chan' : n \in DOMAIN chan \/ n = Len(chan) + 1
    BY <1>2
  <2> QED
    BY <1>2, <2>1, <2>2, <2>3, <2>4 DEF FromGroups, Marked
<1>5. OncePerGroup'
  BY <1>2, <1>3 DEF IInv, OncePerGroup, SameSlot
<1> QED
  BY <1>2, <1>4, <1>5

LEMMA SentOK ==
    ASSUME ThreadsOK, NEW t \in Threads, th[t].pc = "sending", th' = Sent(t)
    PROVE  ThreadsOK'
<1>1. th[t] \in Thread /\ th[t].state \in Active /\ th[t].todo \in Seq(Agents) /\ th[t].todo # <<>>
  BY DEF ThreadsOK, ThreadOK, Thread
<1> DEFINE r == [th[t] EXCEPT !.todo = Tail(th[t].todo)]
<1>2. CASE Len(th[t].todo) = 1
  <2>1. th' = [th EXCEPT ![t] = Idling]
    BY <1>2 DEF Sent
  <2> QED
    BY <2>1, IdlingOK, ThreadMoves
<1>3. CASE Len(th[t].todo) # 1
  <2>1. Tail(th[t].todo) \in Seq(Agents) /\ Tail(th[t].todo) # <<>>
    <3> DEFINE q == th[t].todo
    <3> HIDE DEF q
    <3>1. q \in Seq(Agents) /\ q # <<>> /\ Len(q) # 1
      BY <1>1, <1>3 DEF q
    <3>2. Len(q) \in Nat /\ Len(q) # 0
      BY <3>1
    <3>3. Tail(q) \in Seq(Agents) /\ Len(Tail(q)) = Len(q) - 1
      BY <3>1, <3>2
    <3>4. Tail(q) # <<>>
      BY <3>1, <3>2, <3>3
    <3> QED
      BY <3>3, <3>4 DEF q
  <2>2. r \in Thread /\ r.pc = "sending" /\ r.state = th[t].state /\ r.todo = Tail(th[t].todo)
    BY <1>1, <2>1 DEF Thread
  <2>3. ThreadOK(r)
    BY <1>1, <2>1, <2>2 DEF ThreadOK
  <2>4. th' = [th EXCEPT ![t] = r]
    BY <1>1, <1>3 DEF Sent, ThreadsOK, Thread
  <2> HIDE DEF r
  <2> QED
    BY <2>3, <2>4, ThreadMoves
<1> QED
  BY <1>2, <1>3

LEMMA SendRequestStep ==
    ASSUME IInv, NEW t \in Threads, SendRequest(t)
    PROVE  IInv'
<1> DEFINE s == th[t].state
           a == Head(th[t].todo)
           g == IF inflight.id = 0 THEN Group(groups + 1, s, "all_passed", {a}) ELSE inflight
           m == [state |-> s, agent |-> a, group |-> g.id]
<1>1. /\ ThreadsOK /\ GroupOK(inflight) /\ groups \in Nat /\ inflight.id \in Nat
      /\ inflight.id <= groups
  BY Elements DEF IInv, DispatchOK, FromGroups
<1>2. s \in Active /\ a \in Agents
  <2>1. s \in Active /\ th[t].todo \in Seq(Agents) /\ th[t].todo # <<>>
    BY <1>1 DEF ThreadsOK, ThreadOK, Thread, SendRequest
  <2> QED
    BY <2>1
<1>3. ThreadsOK'
  BY <1>1, SentOK DEF SendRequest
<1>4. IssueOK'
  BY DEF IInv, IssueOK, SendRequest
<1>5. RecoveredOK'
  BY Zenon DEF SendRequest, IInv, RecoveredOK
<1>6. CASE UNCHANGED <<inflight, groups, chan>>
  <2>1. DispatchOK' /\ RowsOK' /\ FromGroups' /\ OncePerGroup'
    BY <1>6, SameShared DEF SendRequest
  <2> QED
    BY <1>3, <1>4, <1>5, <2>1 DEF IInv
<1>7. CASE /\ g.state = s /\ a \notin g.sent
           /\ inflight' = [g EXCEPT !.sent = @ \cup {a}]
           /\ groups' = IF inflight.id = 0 THEN groups + 1 ELSE groups
           /\ chan' = Append(chan, m)
  <2>1. GroupOK(g) /\ g.id \in Nat \ {0} /\ groups' \in Nat /\ groups <= groups' /\ g.id <= groups'
    <3>1. CASE inflight.id = 0
      <4>1. g = Group(groups + 1, s, "all_passed", {a}) /\ groups + 1 \in Nat /\ {a} \in SUBSET Agents
        BY <1>1, <1>2, <3>1
      <4> HIDE DEF s, a, g
      <4>2. GroupOK(g) /\ g.id = groups + 1
        BY <1>2, <4>1, NewGroupOK
      <4> QED
        BY <1>1, <1>7, <3>1, <4>2
    <3>2. CASE inflight.id # 0
      BY <1>1, <1>7, <3>2
    <3> QED
      BY <3>1, <3>2
  <2>2. groups < g.id \/ (inflight.id = g.id /\ inflight.sent = g.sent)
    <3>1. CASE inflight.id = 0
      BY <1>1, <3>1 DEF Group
    <3>2. CASE inflight.id # 0
      BY <3>2
    <3> QED
      BY <3>1, <3>2
  <2> HIDE DEF g, a, s
  <2>3. /\ GroupOK(inflight') /\ inflight'.id = g.id
        /\ g.sent \subseteq inflight'.sent /\ a \in inflight'.sent
    BY <1>2, <1>7, <2>1 DEF GroupOK
  <2>4. m \in Request /\ m.group = g.id /\ m.agent = a
    BY <1>2, <2>1 DEF Request
  <2>5. rows' = rows /\ chan' = Append(chan, m)
    BY <1>7 DEF SendRequest
  <2> HIDE DEF m
  <2>6. chan' \in Seq(Request) /\ FromGroups' /\ OncePerGroup'
    BY <1>7, <2>1, <2>2, <2>3, <2>4, <2>5, AppendRequest
  <2>7. DispatchOK'
    BY <2>1, <2>3, <2>6 DEF DispatchOK, GroupOK
  <2>8. RowsOK'
    BY DEF IInv, RowsOK, SendRequest
  <2> QED
    BY <1>3, <1>4, <1>5, <2>6, <2>7, <2>8 DEF IInv
<1> QED
  BY <1>6, <1>7 DEF SendRequest

-----------------------------------------------------------------------------
(* The router takes the first request from the channel.                    *)

LEMMA Received ==
    ASSUME IInv, chan # <<>>, chan' = Tail(chan)
    PROVE  /\ chan' \in Seq(Request) /\ Head(chan) = chan[1] /\ 1 \in DOMAIN chan
           /\ \A n \in DOMAIN chan' : n + 1 \in DOMAIN chan /\ chan'[n] = chan[n + 1] /\ n + 1 # 1
           /\ \A m, n \in DOMAIN chan' : m \in Nat /\ n \in Nat
<1>1. chan \in Seq(Request) /\ Len(chan) \in Nat /\ Len(chan) # 0
  BY DEF IInv, DispatchOK
<1>2. chan' \in Seq(Request) /\ Len(chan') = Len(chan) - 1 /\ DOMAIN chan' = 1..(Len(chan) - 1)
  BY <1>1
<1>3. \A n \in DOMAIN chan' : chan'[n] = chan[n + 1]
  BY <1>1, <1>2
<1> QED
  BY <1>1, <1>2, <1>3

LEMMA RouteRequestStep == IInv /\ RouteRequest => IInv'
<1> SUFFICES ASSUME IInv, RouteRequest PROVE IInv'
  OBVIOUS
<1> DEFINE q == chan[1]
           r == [state |-> q.state, agent |-> q.agent, group |-> q.group, status |-> "pending"]
<1>1. /\ chan' \in Seq(Request) /\ Head(chan) = q /\ 1 \in DOMAIN chan
      /\ \A n \in DOMAIN chan' : n + 1 \in DOMAIN chan /\ chan'[n] = chan[n + 1] /\ n + 1 # 1
      /\ \A m, n \in DOMAIN chan' : m \in Nat /\ n \in Nat
  BY Received DEF RouteRequest
<1>2. q.state \in Active /\ q.agent \in Agents /\ q.group \in Nat \ {0}
  BY <1>1, Elements
<1>3. r \in TaskRow /\ r.agent = q.agent /\ r.group = q.group
  BY <1>2 DEF TaskRow
<1>4. rows' = Append(rows, r)
  BY <1>1 DEF RouteRequest
<1>5. /\ rows \in Seq(TaskRow) /\ Len(rows) \in Nat
      /\ latest \in [Active -> [Agents -> 0..Len(rows)]]
      /\ signals \subseteq (DOMAIN rows) \X States
  BY DEF IInv, RowsOK
<1>6. latest' = [latest EXCEPT ![q.state][q.agent] = Len(rows) + 1]
  BY <1>1 DEF RouteRequest
<1> HIDE DEF r, q
<1>7. /\ rows' \in Seq(TaskRow) /\ Len(rows') = Len(rows) + 1
      /\ DOMAIN rows = 1..Len(rows) /\ DOMAIN rows' = 1..(Len(rows) + 1)
      /\ \A i \in DOMAIN rows : rows'[i] = rows[i]
      /\ rows'[Len(rows) + 1] = r
  BY <1>3, <1>4, <1>5
<1>8. ThreadsOK' /\ IssueOK'
  BY DEF RouteRequest, IInv, ThreadsOK, IssueOK
<1>9. RecoveredOK'
  BY Zenon DEF RouteRequest, IInv, RecoveredOK
<1>10. DispatchOK'
  BY <1>1 DEF RouteRequest, IInv, DispatchOK, GroupOK
<1>11. RowsOK'
  <2>1. latest' \in [Active -> [Agents -> 0..(Len(rows) + 1)]]
    BY <1>2, <1>5, <1>6
  <2>2. signals' = signals /\ DOMAIN rows \subseteq DOMAIN rows'
    BY <1>5, <1>7 DEF RouteRequest
  <2> QED
    BY <1>5, <1>7, <2>1, <2>2 DEF RowsOK
<1>12. \A i \in DOMAIN rows' : i \in DOMAIN rows \/ i = Len(rows) + 1
  BY <1>5, <1>7
<1>13. FromGroups'
  <2>1. Marked(q)
    BY <1>1 DEF IInv, FromGroups, q
  <2> QED
    BY <1>1, <1>3, <1>7, <1>12, <2>1 DEF RouteRequest, IInv, FromGroups, Marked
<1>14. OncePerGroup'
  <2>1. \A m, n \in DOMAIN chan' : SameSlot(chan'[m], chan'[n]) => m = n
    BY <1>1 DEF IInv, OncePerGroup
  <2>2. \A i \in DOMAIN rows : ~SameSlot(r, rows[i]) /\ ~SameSlot(rows[i], r)
    BY <1>1, <1>3 DEF IInv, OncePerGroup, SameSlot, q
  <2>3. \A n \in DOMAIN chan' : ~SameSlot(chan'[n], r)
    BY <1>1, <1>3 DEF IInv, OncePerGroup, SameSlot, q
  <2>4. \A i, j \in DOMAIN rows' : SameSlot(rows'[i], rows'[j]) => i = j
    BY <1>7, <1>12, <2>2 DEF IInv, OncePerGroup
  <2>5. \A n \in DOMAIN chan', i \in DOMAIN rows' : ~SameSlot(chan'[n], rows'[i])
    BY <1>1, <1>7, <1>12, <2>3 DEF IInv, OncePerGroup
  <2> QED
    BY <2>1, <2>4, <2>5 DEF OncePerGroup, SameSlot
<1> QED
  BY <1>8, <1>9, <1>10, <1>11, <1>13, <1>14 DEF IInv

LEMMA DropRequestStep == IInv /\ DropRequest => IInv'
<1> SUFFICES ASSUME IInv, DropRequest PROVE IInv'
  OBVIOUS
<1>1. /\ chan' \in Seq(Request)
      /\ \A n \in DOMAIN chan' : n + 1 \in DOMAIN chan /\ chan'[n] = chan[n + 1]
      /\ \A m, n \in DOMAIN chan' : m \in Nat /\ n \in Nat
  BY Received DEF DropRequest
<1>2. ThreadsOK' /\ IssueOK'
  BY DEF DropRequest, IInv, ThreadsOK, IssueOK
<1>3. RecoveredOK'
  BY Zenon DEF DropRequest, IInv, RecoveredOK
<1>4. DispatchOK'
  BY <1>1 DEF DropRequest, IInv, DispatchOK, GroupOK
<1>5. RowsOK'
  BY DEF DropRequest, IInv, RowsOK
<1>6. FromGroups'
  BY <1>1 DEF DropRequest, IInv, FromGroups, Marked
<1>7. OncePerGroup'
  BY <1>1 DEF DropRequest, IInv, OncePerGroup, SameSlot
<1> QED
  BY <1>2, <1>3, <1>4, <1>5, <1>6, <1>7 DEF IInv

-----------------------------------------------------------------------------
(* Workers, agents and the reaper.                                         *)

\* A step that sets the status of one row.
LEMMA StatusStep ==
    ASSUME IInv, NEW i \in DOMAIN rows,
           NEW s \in {"pending", "running", "completed", "failed"}, SetStatus(i, s),
           signals' \subseteq signals \cup {<<i, label>>},
           UNCHANGED <<label, observed, recovered, th, transitions, inflight, groups, chan>>
    PROVE  IInv'
<1>1. /\ rows' \in Seq(TaskRow) /\ Len(rows') = Len(rows) /\ DOMAIN rows' = DOMAIN rows
      /\ latest' \in [Active -> [Agents -> 0..Len(rows')]]
      /\ \A j \in DOMAIN rows : rows'[j].group = rows[j].group /\ rows'[j].agent = rows[j].agent
  BY SetStatusOK
<1>2. ThreadsOK' /\ IssueOK'
  BY DEF IInv, ThreadsOK, IssueOK
<1>3. RecoveredOK'
  BY Zenon DEF IInv, RecoveredOK
<1>4. DispatchOK'
  BY DEF IInv, DispatchOK, GroupOK
<1>5. RowsOK'
  BY <1>1 DEF IInv, RowsOK, IssueOK
<1>6. groups \in Nat /\ inflight.id \in Nat /\ inflight.id <= groups
  BY Elements DEF IInv, FromGroups
<1>7. FromGroups' /\ OncePerGroup'
  BY <1>1, <1>6, KeepsOnce
<1> QED
  BY <1>2, <1>3, <1>4, <1>5, <1>7 DEF IInv

LEMMA SetLabelStep ==
    ASSUME IInv, NEW s \in States, SetLabel(s)
    PROVE  IInv'
<1>1. ThreadsOK' /\ IssueOK'
  BY DEF SetLabel, IInv, ThreadsOK, IssueOK
<1>2. RecoveredOK'
  BY Zenon DEF SetLabel, IInv, RecoveredOK
<1>3. DispatchOK' /\ RowsOK' /\ FromGroups' /\ OncePerGroup'
  BY SameShared DEF SetLabel
<1> QED
  BY <1>1, <1>2, <1>3 DEF IInv

-----------------------------------------------------------------------------
(* Completion and repair.                                                  *)

\* A completion records the task and possibly the first result of its slot.
LEMMA AfterOK ==
    ASSUME IInv, NEW i \in DOMAIN rows, rows[i].agent \in inflight.slots
    PROVE  /\ GroupOK(After(inflight, i))
           /\ After(inflight, i).id = inflight.id /\ After(inflight, i).sent = inflight.sent
<1>1. GroupOK(inflight) /\ rows[i].agent \in Agents /\ i \in Nat
  BY Elements DEF IInv, DispatchOK, RowsOK
<1> QED
  BY <1>1 DEF After, GroupOK

LEMMA MarkAgentCompletedStep ==
    ASSUME IInv, NEW i \in DOMAIN rows, NEW seen \in States, MarkAgentCompleted(i, seen)
    PROVE  IInv'
<1>1. ThreadsOK /\ "completion" \in Threads
  BY DispatchAssumption DEF IInv
<1>2. ThreadsOK'
  <2>1. ASSUME UNCHANGED th PROVE ThreadsOK'
    BY <1>1, <2>1 DEF ThreadsOK
  <2>2. ASSUME th' = [th EXCEPT !["completion"] = [Idling EXCEPT !.pc = "inspecting", !.state = seen]],
               seen \in Active
        PROVE  ThreadsOK'
    <3> DEFINE r == [Idling EXCEPT !.pc = "inspecting", !.state = seen]
    <3>1. r \in Thread /\ r.pc = "inspecting" /\ r.state = seen
      BY IdlingOK DEF ThreadOK, Thread
    <3>2. ThreadOK(r)
      BY <2>2, <3>1 DEF ThreadOK
    <3>3. th' = [th EXCEPT !["completion"] = r]
      BY <2>2
    <3> HIDE DEF r
    <3> QED
      BY <1>1, <3>2, <3>3, ThreadMoves
  <2> QED
    BY <2>1, <2>2 DEF MarkAgentCompleted
<1>3. IssueOK'
  BY DEF MarkAgentCompleted, IInv, IssueOK
<1>4. RecoveredOK'
  BY Zenon DEF MarkAgentCompleted, IInv, RecoveredOK
<1>5. UNCHANGED <<chan, rows, latest, groups>> /\ signals' \subseteq signals
  BY DEF MarkAgentCompleted
<1>6. DispatchOK' /\ RowsOK' /\ FromGroups' /\ OncePerGroup'
  <2>1. CASE inflight' \in {inflight, NoGroup}
    BY <1>5, <2>1, SameShared
  <2>2. CASE GroupOK(inflight') /\ inflight'.id = inflight.id /\ inflight'.sent = inflight.sent
    <3>1. groups \in Nat /\ inflight.id <= groups
      BY Elements DEF IInv, FromGroups
    <3> QED
      BY <1>5, <2>2, <3>1, SharedStep
  <2>3. ASSUME inflight' = [inflight EXCEPT !.tasks = @ \cup {i}]
        PROVE  GroupOK(inflight') /\ inflight'.id = inflight.id /\ inflight'.sent = inflight.sent
    <3>1. GroupOK(inflight) /\ i \in Nat
      BY DEF IInv, DispatchOK, RowsOK
    <3> QED
      BY <2>3, <3>1 DEF GroupOK
  <2>4. ASSUME inflight' = After(inflight, i), rows[i].agent \in inflight.slots
        PROVE  GroupOK(inflight') /\ inflight'.id = inflight.id /\ inflight'.sent = inflight.sent
    BY <2>4, AfterOK
  <2>5. \/ inflight' \in {inflight, NoGroup}
        \/ inflight' = [inflight EXCEPT !.tasks = @ \cup {i}]
        \/ inflight' = After(inflight, i) /\ rows[i].agent \in inflight.slots
    BY DEF MarkAgentCompleted
  <2> QED
    BY <2>1, <2>2, <2>3, <2>4, <2>5
<1> QED
  BY <1>2, <1>3, <1>4, <1>6 DEF IInv

LEMMA ClearInflightStep == IInv /\ ClearInflight => IInv'
<1> SUFFICES ASSUME IInv, ClearInflight PROVE IInv'
  OBVIOUS
<1>1. ThreadsOK' /\ IssueOK'
  BY DEF ClearInflight, IInv, ThreadsOK, IssueOK
<1>2. RecoveredOK'
  BY Zenon DEF ClearInflight, IInv, RecoveredOK
<1>3. DispatchOK' /\ RowsOK' /\ FromGroups' /\ OncePerGroup'
  BY SameShared DEF ClearInflight
<1> QED
  BY <1>1, <1>2, <1>3 DEF IInv

\* A set of row numbers has a greatest one.
LEMMA HasMax ==
    ASSUME NEW n \in Nat, NEW H \in SUBSET (1..n), H # {}
    PROVE  \E i \in H : \A j \in H : j <= i
<1> DEFINE T == {n - i : i \in H}
           R == OpToRel(<, Nat)
<1>1. IsWellFoundedOn(R, Nat)
  BY NatLessThanWellFounded
<1>2. \A x, y \in Nat : x < y => <<x, y>> \in R
  BY DEF OpToRel
<1> HIDE DEF R
<1>3. \A i \in H : i \in Nat /\ n - i \in Nat /\ n - i \in T
  OBVIOUS
<1>4. T \subseteq Nat /\ T # {}
  BY <1>3
<1>5. PICK x \in T : \A y \in T : ~ (<<y, x>> \in R)
  BY <1>1, <1>4, WFMin
<1>6. PICK i \in H : x = n - i
  OBVIOUS
<1> HIDE DEF T
<1>7. \A y \in T : x \in Nat /\ y \in Nat /\ ~(y < x)
  BY <1>2, <1>4, <1>5
<1>8. \A j \in H : ~(n - j < n - i)
  BY <1>3, <1>6, <1>7
<1>9. \A j \in H : j <= i
  BY <1>3, <1>8
<1> QED
  BY <1>9

LEMMA RestartStep == IInv /\ Restart => IInv'
<1> SUFFICES ASSUME IInv, Restart PROVE IInv'
  OBVIOUS
<1>1. ThreadsOK'
  BY IdlingOK DEF Restart, ThreadsOK
<1>2. IssueOK'
  BY DEF Restart, IInv, IssueOK
<1>3. RecoveredOK'
  BY Zenon DEF Restart, RecoveredOK
<1>4. /\ rows \in Seq(TaskRow) /\ Len(rows) \in Nat /\ DOMAIN rows = 1..Len(rows)
      /\ latest \in [Active -> [Agents -> 0..Len(rows)]]
  BY DEF IInv, RowsOK
<1> DEFINE f(i) == [rows[i] EXCEPT !.status = "failed"]
<1>5. \A i \in DOMAIN rows : f(i) \in TaskRow /\ f(i).group = rows[i].group /\ f(i).agent = rows[i].agent
  <2> SUFFICES ASSUME NEW i \in DOMAIN rows
               PROVE  f(i) \in TaskRow /\ f(i).group = rows[i].group /\ f(i).agent = rows[i].agent
    OBVIOUS
  <2>1. rows[i] \in TaskRow
    BY <1>4
  <2> QED
    BY <2>1 DEF TaskRow
<1>6. rows' = [i \in DOMAIN rows |-> IF rows[i].status = "running" THEN f(i) ELSE rows[i]]
  BY DEF Restart
<1> HIDE DEF f
<1>7. /\ DOMAIN rows' = DOMAIN rows
      /\ \A i \in DOMAIN rows : /\ rows'[i] \in TaskRow
                                /\ rows'[i].group = rows[i].group
                                /\ rows'[i].agent = rows[i].agent
  BY <1>4, <1>5, <1>6
<1>8. rows' \in Seq(TaskRow) /\ Len(rows') = Len(rows)
  BY <1>4, <1>6, <1>7
<1>9. latest' \in [Active -> [Agents -> 0..Len(rows)]]
  <2> DEFINE Hit(x, a) == {i \in DOMAIN rows : /\ rows[i].status = "running"
                                               /\ rows[i].state = x /\ rows[i].agent = a}
             new(x, a) == IF Hit(x, a) = {} THEN latest[x][a]
                          ELSE CHOOSE i \in Hit(x, a) : \A j \in Hit(x, a) : j <= i
  <2>1. latest' = [x \in Active |-> [a \in Agents |-> new(x, a)]]
    BY DEF Restart
  <2>2. ASSUME NEW x \in Active, NEW a \in Agents PROVE new(x, a) \in 0..Len(rows)
    <3>1. CASE Hit(x, a) = {}
      BY <1>4, <3>1
    <3>2. CASE Hit(x, a) # {}
      <4> DEFINE H == Hit(x, a)
      <4>1. H \in SUBSET (1..Len(rows))
        BY <1>4
      <4>2. new(x, a) = CHOOSE i \in H : \A j \in H : j <= i
        BY <3>2
      <4> HIDE DEF H, new, Hit
      <4>3. H # {}
        BY <3>2 DEF H
      <4>4. \E i \in H : \A j \in H : j <= i
        BY <1>4, <4>1, <4>3, HasMax
      <4>5. new(x, a) \in H
        BY <4>2, <4>4
      <4>6. \A i \in 1..Len(rows) : i \in 0..Len(rows)
        BY <1>4
      <4> QED
        BY <4>1, <4>5, <4>6
    <3> QED
      BY <3>1, <3>2
  <2> HIDE DEF new
  <2> QED
    BY <2>1, <2>2
<1>10. DispatchOK'
  BY NoGroupOK DEF Restart, IInv, DispatchOK, GroupOK
<1>11. RowsOK'
  BY <1>8, <1>9 DEF Restart, RowsOK
<1>12. /\ inflight'.id = 0 /\ groups' = groups /\ groups \in Nat /\ chan' = <<>>
       /\ \A i \in DOMAIN rows : rows[i].group \in Nat \ {0}
  BY NoGroupOK, Elements DEF Restart
<1>13. FromGroups'
  BY <1>7, <1>12 DEF IInv, FromGroups, Marked
<1>14. OncePerGroup'
  BY <1>7, <1>12 DEF IInv, OncePerGroup, SameSlot
<1> QED
  BY <1>1, <1>2, <1>3, <1>10, <1>11, <1>13, <1>14 DEF IInv

-----------------------------------------------------------------------------
LEMMA NextPreserves == IInv /\ [Next]_vars => IInv'
<1> SUFFICES ASSUME IInv, [Next]_vars PROVE IInv'
  OBVIOUS
<1>1. ASSUME NEW t \in Threads, ThreadStep(t) PROVE IInv'
  BY <1>1, EnterStateStep, InspectInflightStep, ClearIfMatchStep, OpenGroupStep, SendRequestStep
  DEF ThreadStep
<1>2. ASSUME NEW i \in DOMAIN rows, RowStep(i) PROVE IInv'
  <2>1. ASSUME ClaimRow(i) PROVE IInv'
    BY <2>1, StatusStep DEF ClaimRow
  <2>2. ASSUME NEW s \in {"completed", "failed"}, SettleRow(i, s) PROVE IInv'
    BY <2>2, StatusStep DEF SettleRow
  <2>3. ASSUME FailRow(i) PROVE IInv'
    BY <2>3, StatusStep DEF FailRow
  <2>4. ASSUME NEW s \in Active \cup Idle, MarkAgentCompleted(i, s) PROVE IInv'
    BY <2>4, MarkAgentCompletedStep DEF States
  <2> QED
    BY <1>2, <2>1, <2>2, <2>3, <2>4 DEF RowStep
<1>3. ASSUME NEW s \in Active \cup Idle, SetLabel(s) PROVE IInv'
  BY <1>3, SetLabelStep DEF States
<1>4. CASE UNCHANGED vars
  <2>1. ThreadsOK' /\ IssueOK'
    BY <1>4 DEF vars, IInv, ThreadsOK, IssueOK
  <2>2. RecoveredOK'
    BY <1>4, Zenon DEF vars, IInv, RecoveredOK
  <2>3. DispatchOK' /\ RowsOK' /\ FromGroups' /\ OncePerGroup'
    BY <1>4, SameShared DEF vars
  <2> QED
    BY <2>1, <2>2, <2>3 DEF IInv
<1> QED
  BY <1>1, <1>2, <1>3, <1>4, PollChangeStep, PollResyncStep, RecoverOrphanStep, PollCycleDoneStep,
     RouteRequestStep, DropRequestStep, ClearInflightStep, RestartStep
  DEF Next

LEMMA Invariance == Spec => []IInv
  BY InitEstablishes, NextPreserves, PTL DEF Spec

\* The in-memory state of the state machine and the table keep their shapes,
\* and a slot of a group has one result.
THEOREM TypeCorrect == Spec => []TypeOK
<1>1. IInv => TypeOK
  <2> SUFFICES ASSUME IInv PROVE TypeOK
    OBVIOUS
  <2>1. recovered \in BOOLEAN
    BY Zenon DEF IInv, RecoveredOK
  <2>2. \A t \in Threads : /\ th[t].pc \in {"idle", "entering", "inspecting", "clearing", "opening", "sending"}
                           /\ th[t].pc = "sending" => th[t].todo # <<>> /\ th[t].state \in Active
    BY DEF IInv, ThreadsOK, ThreadOK, Thread
  <2>3. \A i \in DOMAIN rows : rows[i].status \in {"pending", "running", "completed", "failed"}
    <3>1. \A i \in DOMAIN rows : rows[i] \in TaskRow
      BY DEF IInv, RowsOK
    <3> QED
      BY <3>1 DEF TaskRow
  <2>4. inflight.ok \cap inflight.bad = {} /\ inflight.ok \cup inflight.bad \subseteq inflight.slots
    BY DEF IInv, DispatchOK, GroupOK
  <2>5. /\ label \in Active \cup Idle /\ observed \in Active \cup Idle \cup {Nothing}
        /\ transitions \in 0..(MaxTransitions + 1)
    BY DEF IInv, IssueOK, States
  <2>6. /\ latest \in [Active -> [Agents -> 0..Len(rows)]]
        /\ signals \subseteq (DOMAIN rows) \X (Active \cup Idle)
    BY DEF IInv, RowsOK, States
  <2> QED
    BY <2>1, <2>2, <2>3, <2>4, <2>5, <2>6, Zenon DEF TypeOK
<1> QED
  BY <1>1, Invariance, PTL

\* dispatchSingleAgent marks a slot and checks the mark under one lock: for
\* any workflow and any interleaving of event loop, recovery, completion,
\* clear-inflight and restart, no group dispatches an agent twice.
THEOREM DispatchedOncePerGroup == Spec => []OncePerGroup
<1>1. IInv => OncePerGroup
  BY DEF IInv
<1> QED
  BY <1>1, Invariance, PTL
=============================================================================
