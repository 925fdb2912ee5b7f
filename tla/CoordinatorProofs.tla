-------------------------- MODULE CoordinatorProofs -------------------------
(***************************************************************************)
(* Proofs about parts of the coordinator: the runtimes of a repository     *)
(* (RepoRuntimes), the dependency gate (IssueFlow) and its cycle detection *)
(* (DependencyCycles), the notifiers (Alerts), the listings of the session *)
(* proxy (SessionProxy) and the pool of the hooks dispatcher (Hooks).      *)
(* They share no variable; each has an inductive invariant of its own.     *)
(***************************************************************************)
EXTENDS RepoRuntimes, IssueFlow, DependencyCycles, Alerts, SessionProxy, Hooks, TLAPS, FiniteSetTheorems,
        SequenceTheorems, WellFoundedInduction

-----------------------------------------------------------------------------
(* Repository runtimes: one request after the other.                       *)

Busy == {"upsert", "precheck", "stop", "start", "restore", "apply", "dropping", "delete"}
\* The steps after which a request may still start a runtime.
BeforeStart == {"upsert", "precheck", "stop", "start", "restore"}

Requests ==
    [pc : Busy \cup {"idle"}, kind : {"none", "register", "reload", "drop"}, to : Versions \cup {0},
     prev : Versions \cup {0}, undo : BOOLEAN, before : RuntimeIds \cup {0}]

RepoTypeOK ==
    /\ record \in Versions \cup {0} /\ disk \in Versions \cup {0} /\ mapped \in RuntimeIds \cup {0}
    /\ runs \subseteq RuntimeIds /\ version \in [RuntimeIds -> Versions \cup {0}]
    /\ op \in [Callers -> Requests]
    /\ stray \in BOOLEAN /\ oops \in Nat /\ calls \in 0..MaxCalls

\* The runtimes are numbered in the order of their starts; one request starts
\* one at most.
Numbered ==
    \E n \in 0..(calls + 1) :
        /\ \A r \in RuntimeIds : version[r] # 0 <=> r <= n
        /\ (\E c \in Callers : op[c].pc \in BeforeStart) => n <= calls

\* What a request has done so far.
Consistent == mapped # 0 => record # 0 /\ (stray \/ version[mapped] = record)
Previous(c) == mapped # 0 => op[c].prev # 0 /\ (stray \/ version[mapped] = op[c].prev)

CallIsSound(c) ==
    LET o == op[c] IN
    /\ o.pc = "idle" <=> o.kind = "none"
    /\ o.pc = "idle" => o = NoCall
    /\ o.pc \in {"upsert", "precheck", "stop", "start", "apply", "restore"} => o.to # 0
    /\ o.pc \in {"upsert", "restore", "apply"} => ~o.undo
    /\ o.undo => o.kind = "reload" /\ o.to = o.prev /\ oops > 0
    /\ o.kind = "drop" => o.pc \in {"dropping", "delete"}
    /\ o.kind = "register" => o.pc \in {"upsert", "precheck", "stop", "start", "restore"}
    /\ o.kind = "reload" /\ o.pc \in {"dropping", "delete"} => o.prev = 0 /\ oops > 0
    /\ o.kind = "reload" /\ o.before # 0 => o.prev # 0
    /\ o.pc = "upsert" => o.prev = record /\ Consistent /\ mapped = o.before
    /\ o.pc \in {"precheck", "stop"} => o.to = record /\ Previous(c)
    /\ o.pc = "start" => o.to = record /\ mapped = 0
    /\ o.pc = "apply" => Consistent /\ mapped # 0
    /\ o.pc = "restore" => o.to = record /\ Previous(c) /\ oops > 0
    /\ o.pc = "delete" => mapped = 0

SerialInv ==
    /\ RepoTypeOK /\ Numbered
    /\ \A c, d \in Callers : op[c].pc # "idle" /\ op[d].pc # "idle" => c = d
    /\ \A c \in Callers : CallIsSound(c)
    /\ runs \subseteq {mapped}
    /\ (\A c \in Callers : op[c].pc = "idle") => Consistent
    /\ mapped # 0 => version[mapped] # 0

RepoInv == Serial => SerialInv

LEMMA FreshIsNext ==
    ASSUME RepoTypeOK, NEW n \in 0..(MaxCalls + 1), \A r \in RuntimeIds : version[r] # 0 <=> r <= n
    PROVE  FreshRuntime = n + 1 /\ FreshRuntime \in RuntimeIds
<1>1. n + 1 \in RuntimeIds /\ \A r \in RuntimeIds : r \in Nat
    BY RepoAssumption DEF RuntimeIds
<1>2. version[n + 1] = 0 /\ \A q \in RuntimeIds : q < n + 1 => version[q] # 0
    BY <1>1
<1>3. \A r \in RuntimeIds : version[r] = 0 /\ (\A q \in RuntimeIds : q < r => version[q] # 0) => r = n + 1
    BY <1>1, <1>2
<1> QED
    BY <1>1, <1>2, <1>3 DEF FreshRuntime

LEMMA RepoInvInit == RepoInit => RepoInv
<1> SUFFICES ASSUME RepoInit, Serial PROVE SerialInv
    BY DEF RepoInv
<1>1. 1 \in RuntimeIds /\ RuntimeIds \subseteq Nat \ {0}
    BY RepoAssumption DEF RuntimeIds
<1>2. NoCall \in Requests
    BY DEF NoCall, Requests
<1>3. RepoTypeOK
  <2>1. stray \in BOOLEAN
    BY Zenon DEF RepoInit
  <2>2. oops \in Nat /\ calls \in 0..MaxCalls
    BY RepoAssumption DEF RepoInit
  <2> QED
    BY <1>1, <1>2, <2>1, <2>2, RepoAssumption DEF RepoInit, RepoTypeOK
<1>4. Numbered
  <2>1. 1 \in 0..(calls + 1) /\ \A r \in RuntimeIds : version[r] # 0 <=> r <= 1
    BY <1>1, RepoAssumption DEF RepoInit
  <2>2. ~\E c \in Callers : op[c].pc \in BeforeStart
    BY DEF RepoInit, NoCall, BeforeStart
  <2> HIDE DEF BeforeStart
  <2> QED
    BY <2>1, <2>2, Zenon DEF Numbered
<1>5. \A c \in Callers : CallIsSound(c)
    BY DEF RepoInit, CallIsSound, NoCall
<1> QED
    BY <1>1, <1>3, <1>4, <1>5, RepoAssumption DEF SerialInv, RepoInit, NoCall, Consistent

LEMMA MoreCalls == \A a, b \in Nat : b >= a => \A n \in 0..(a + 1) : n \in 0..(b + 1)
OBVIOUS

\* A request moves on and the runtimes stay what they are.
LEMMA CallMoves ==
    ASSUME SerialInv, NEW c \in Callers, NEW o, op' = [op EXCEPT ![c] = o],
           o \in Requests,
           UNCHANGED <<disk, version>>, record' \in Versions \cup {0},
           mapped' \in RuntimeIds \cup {0}, mapped' \in {0, mapped}, runs' \subseteq {mapped'}, runs' \subseteq runs,
           stray' \in BOOLEAN, oops' \in Nat, oops' >= oops, calls' \in 0..MaxCalls, calls' >= calls,
           \/ op[c].pc # "idle" /\ calls' = calls /\ (o.pc \in BeforeStart => op[c].pc \in BeforeStart)
           \/ (\A d \in Callers : op[d].pc = "idle") /\ calls' = calls + 1,
           CallIsSound(c)', o.pc = "idle" => Consistent'
    PROVE  SerialInv'
<1>1. RepoTypeOK'
    BY DEF SerialInv, RepoTypeOK
<1>2. \A d \in Callers : d # c => op[d].pc = "idle" /\ op'[d] = op[d]
    BY DEF SerialInv, RepoTypeOK
<1>3. op'[c] = o
    BY DEF SerialInv, RepoTypeOK
<1>4. Numbered'
  <2>1. PICK n \in 0..(calls + 1) :
            /\ \A r \in RuntimeIds : version[r] # 0 <=> r <= n
            /\ (\E d \in Callers : op[d].pc \in BeforeStart) => n <= calls
    BY DEF SerialInv, Numbered
  <2>0. MaxCalls \in Nat /\ calls \in Nat /\ calls' \in Nat
    BY RepoAssumption DEF SerialInv, RepoTypeOK
  <2>2. n \in 0..(calls' + 1)
    BY <2>0, MoreCalls
  <2>3. (\E d \in Callers : op'[d].pc \in BeforeStart) => n <= calls'
    BY <1>2, <1>3, <2>1, RepoAssumption DEF SerialInv, RepoTypeOK, BeforeStart
  <2> QED
    BY <2>1, <2>2, <2>3 DEF Numbered
<1>5. \A d \in Callers : CallIsSound(d)'
  <2> SUFFICES ASSUME NEW d \in Callers, d # c PROVE CallIsSound(d)'
    OBVIOUS
  <2>1. op'[d] = NoCall
    BY <1>2 DEF SerialInv, CallIsSound
  <2> QED
    BY <2>1 DEF CallIsSound, NoCall
<1>6. mapped' # 0 => version'[mapped'] # 0
    BY DEF SerialInv
<1>7. \A a, d \in Callers : op'[a].pc # "idle" /\ op'[d].pc # "idle" => a = d
    BY <1>2
<1> QED
    BY <1>1, <1>3, <1>4, <1>5, <1>6, <1>7 DEF SerialInv

\* A request that has ended says nothing.
LEMMA NoCallIsSound == ASSUME NEW c \in Callers, op'[c] = NoCall PROVE CallIsSound(c)'
BY DEF CallIsSound, NoCall

LEMMA BeginsKeep ==
    ASSUME SerialInv, Serial, NEW c \in Callers,
           (\E v \in Versions : BeginRegister(c, v)) \/ BeginReload(c) \/ BeginDrop(c)
    PROVE  SerialInv'
<1>1. \A d \in Callers : op[d].pc = "idle"
    BY DEF BeginRegister, BeginReload, BeginDrop, Free
<1>2. Consistent /\ calls < MaxCalls /\ calls' = calls + 1 /\ UNCHANGED <<record, mapped, runs, version, disk, oops, stray>>
    BY <1>1 DEF SerialInv, BeginRegister, BeginReload, BeginDrop, Free
<1>3. calls' \in 0..MaxCalls /\ calls' >= calls /\ oops \in Nat /\ oops >= oops /\ stray' \in BOOLEAN
    BY <1>2, RepoAssumption DEF SerialInv, RepoTypeOK
<1>4. RepoTypeOK /\ runs \subseteq {mapped} /\ (mapped # 0 => version[mapped] # 0) /\ CallIsSound(c) /\ op[c] = NoCall
    BY <1>1 DEF SerialInv, CallIsSound
<1>5. ASSUME NEW o, op' = [op EXCEPT ![c] = o], CallIsSound(c)', o.pc # "idle",
             o \in Requests
      PROVE  SerialInv'
    BY <1>1, <1>2, <1>3, <1>4, <1>5, CallMoves DEF RepoTypeOK
<1>6. ASSUME NEW v \in Versions, BeginRegister(c, v) PROVE SerialInv'
  <2> DEFINE o == [pc |-> "upsert", kind |-> "register", to |-> v, prev |-> record, undo |-> FALSE, before |-> mapped]
  <2>1. op' = [op EXCEPT ![c] = o]
    BY <1>6 DEF BeginRegister, NewCall
  <2>2. o \in Requests
    BY <1>4 DEF RepoTypeOK, Requests, Busy
  <2>3. op'[c] = o
    BY <1>4, <2>1 DEF RepoTypeOK
  <2>4. CallIsSound(c)'
    BY <1>2, <2>3, RepoAssumption DEF CallIsSound, Consistent
  <2>5. o.pc # "idle"
    OBVIOUS
  <2> HIDE DEF o
  <2> QED
    BY <1>5, <2>1, <2>2, <2>4, <2>5
<1>7. ASSUME BeginReload(c), Loadable(disk) PROVE SerialInv'
  <2> DEFINE o == [pc |-> "upsert", kind |-> "reload", to |-> disk, prev |-> record, undo |-> FALSE, before |-> mapped]
  <2>1. op' = [op EXCEPT ![c] = o]
    BY <1>7 DEF BeginReload, NewCall
  <2>2. o \in Requests
    BY <1>4 DEF RepoTypeOK, Requests, Busy
  <2>3. op'[c] = o
    BY <1>4, <2>1 DEF RepoTypeOK
  <2>4. CallIsSound(c)'
    BY <1>2, <1>4, <1>7, <2>3, RepoAssumption DEF CallIsSound, Consistent, Loadable
  <2>5. o.pc # "idle"
    OBVIOUS
  <2> HIDE DEF o
  <2> QED
    BY <1>5, <2>1, <2>2, <2>4, <2>5
<1>8. ASSUME BeginReload(c), ~Loadable(disk) PROVE SerialInv'
  <2>1. op' = [op EXCEPT ![c] = op[c]] /\ op'[c] = NoCall
    BY <1>4, <1>8 DEF BeginReload, RepoTypeOK
  <2>2. CallIsSound(c)' /\ Consistent'
    BY <1>2, <2>1, NoCallIsSound DEF Consistent
  <2>3. op[c] \in Requests
    BY <1>4 DEF RepoTypeOK
  <2>4. record' \in Versions \cup {0} /\ mapped' \in RuntimeIds \cup {0}
    BY <1>2, <1>4 DEF RepoTypeOK
  <2> QED
    BY <1>1, <1>2, <1>3, <1>4, <2>1, <2>2, <2>3, <2>4, CallMoves
<1>9. ASSUME BeginDrop(c) PROVE SerialInv'
  <2> DEFINE o == [pc |-> "dropping", kind |-> "drop", to |-> 0, prev |-> record, undo |-> FALSE, before |-> mapped]
  <2>1. op' = [op EXCEPT ![c] = o]
    BY <1>9 DEF BeginDrop, NewCall
  <2>2. o \in Requests
    BY <1>4 DEF RepoTypeOK, Requests, Busy
  <2>3. op'[c] = o
    BY <1>4, <2>1 DEF RepoTypeOK
  <2>4. CallIsSound(c)'
    BY <1>2, <2>3 DEF CallIsSound
  <2>5. o.pc # "idle"
    OBVIOUS
  <2> HIDE DEF o
  <2> QED
    BY <1>5, <2>1, <2>2, <2>4, <2>5
<1> QED
    BY <1>6, <1>7, <1>8, <1>9

\* o is the request of c at another step.
At(c, o, pc) ==
    /\ op' = [op EXCEPT ![c] = o] /\ o \in Requests /\ op'[c] = o
    /\ o.pc = pc /\ o.kind = op[c].kind /\ o.prev = op[c].prev /\ o.before = op[c].before

LEMMA GotoIs ==
    ASSUME RepoTypeOK, NEW c \in Callers, NEW pc \in Busy \cup {"idle"}, Goto(c, pc)
    PROVE  \E o : At(c, o, pc) /\ o.to = op[c].to /\ o.undo = op[c].undo
<1> DEFINE o == [op[c] EXCEPT !.pc = pc]
<1>1. op[c] \in Requests
    BY DEF RepoTypeOK
<1>2. /\ o \in Requests /\ o.pc = pc /\ o.kind = op[c].kind /\ o.prev = op[c].prev /\ o.before = op[c].before
      /\ o.to = op[c].to /\ o.undo = op[c].undo
    BY <1>1 DEF Requests
<1>3. op' = [op EXCEPT ![c] = o]
    BY DEF Goto
<1> HIDE DEF o
<1> QED
    BY <1>2, <1>3 DEF At, RepoTypeOK

LEMMA EndCallIs == ASSUME RepoTypeOK, NEW c \in Callers, EndCall(c) PROVE op' = [op EXCEPT ![c] = NoCall] /\ NoCall \in Requests /\ op'[c] = NoCall
BY DEF EndCall, RepoTypeOK, NoCall, Requests

\* The steps that change neither the runtimes nor the number of calls.
LEMMA CallGoesOn ==
    ASSUME SerialInv, NEW c \in Callers, op[c].pc # "idle", NEW o, op' = [op EXCEPT ![c] = o], o \in Requests,
           UNCHANGED <<disk, version, calls>>, record' \in Versions \cup {0},
           mapped' \in {0, mapped}, runs' \subseteq {mapped'}, runs' \subseteq runs,
           stray' \in BOOLEAN, oops' \in {oops, oops + 1}, o.pc \in BeforeStart => op[c].pc \in BeforeStart,
           CallIsSound(c)', o.pc = "idle" => Consistent'
    PROVE  SerialInv'
<1>1. oops' \in Nat /\ oops' >= oops /\ calls' \in 0..MaxCalls /\ calls' >= calls /\ calls' = calls
    BY RepoAssumption DEF SerialInv, RepoTypeOK
<1>2. mapped' \in RuntimeIds \cup {0}
    BY DEF SerialInv, RepoTypeOK
<1> QED
    BY <1>1, <1>2, CallMoves

LEMMA UpsertKeeps == ASSUME SerialInv, NEW c \in Callers, Upsert(c) PROVE SerialInv'
<1>1. RepoTypeOK /\ CallIsSound(c) /\ stray \in BOOLEAN /\ op[c] \in Requests /\ runs \subseteq {mapped}
    BY DEF SerialInv, RepoTypeOK
<1>2. PICK o : At(c, o, "precheck") /\ o.to = op[c].to /\ o.undo = op[c].undo
    BY <1>1, GotoIs DEF Upsert, Busy
<1>3. CallIsSound(c)'
    BY <1>1, <1>2 DEF CallIsSound, Upsert, At, Previous, Consistent
<1>4. record' \in Versions \cup {0} /\ op[c].pc \in BeforeStart
    BY <1>1 DEF Upsert, Requests, BeforeStart
<1> QED
    BY <1>1, <1>2, <1>3, <1>4, CallGoesOn DEF Upsert, At

LEMMA PreCheckKeeps == ASSUME SerialInv, NEW c \in Callers, PreCheck(c) PROVE SerialInv'
<1>1. RepoTypeOK /\ CallIsSound(c) /\ stray \in BOOLEAN /\ op[c] \in Requests /\ runs \subseteq {mapped} /\ record \in Versions \cup {0}
    BY DEF SerialInv, RepoTypeOK
<1>2. PICK o : At(c, o, "stop") /\ o.to = op[c].to /\ o.undo = op[c].undo
    BY <1>1, GotoIs DEF PreCheck, Busy
<1>3. CallIsSound(c)'
    BY <1>1, <1>2 DEF CallIsSound, PreCheck, At, Previous
<1>4. op[c].pc \in BeforeStart
    BY <1>1 DEF PreCheck, BeforeStart
<1> QED
    BY <1>1, <1>2, <1>3, <1>4, CallGoesOn DEF PreCheck, At

\* A failure sends a request to its rollback, or ends the rollback.
LEMMA FailedIs ==
    ASSUME RepoTypeOK, NEW c \in Callers, Failed(c)
    PROVE  \/ op[c].undo /\ op' = [op EXCEPT ![c] = NoCall] /\ NoCall \in Requests /\ op'[c] = NoCall
           \/ ~op[c].undo /\ \E o : At(c, o, "restore") /\ o.to = op[c].to /\ o.undo = op[c].undo
<1>1. CASE op[c].undo
    BY <1>1 DEF Failed, AfterFailure, RepoTypeOK, NoCall, Requests
<1>2. CASE ~op[c].undo
  <2>1. op' = [op EXCEPT ![c] = [op[c] EXCEPT !.pc = "restore"]]
    BY <1>2 DEF Failed, AfterFailure
  <2>2. Goto(c, "restore")
    BY <2>1 DEF Goto
  <2> QED
    BY <1>2, <2>2, GotoIs DEF Busy
<1> QED
    BY <1>1, <1>2

LEMMA PreCheckFailsKeeps == ASSUME SerialInv, NEW c \in Callers, PreCheckFails(c) PROVE SerialInv'
<1>1. RepoTypeOK /\ CallIsSound(c) /\ stray \in BOOLEAN /\ op[c] \in Requests /\ runs \subseteq {mapped} /\ record \in Versions \cup {0} /\ oops \in Nat
    BY DEF SerialInv, RepoTypeOK
<1>2. op[c].pc = "precheck" /\ oops' = oops + 1 /\ UNCHANGED <<record, mapped, runs, version, disk, calls, stray>> /\ Failed(c)
    BY DEF PreCheckFails, Fault
<1>3. ASSUME op[c].undo, op' = [op EXCEPT ![c] = NoCall], NoCall \in Requests, op'[c] = NoCall PROVE SerialInv'
  <2>1. Consistent'
    BY <1>1, <1>2, <1>3 DEF CallIsSound, Previous, Consistent
  <2>2. CallIsSound(c)'
    BY <1>3, NoCallIsSound
  <2>3. NoCall.pc \notin BeforeStart
    BY DEF NoCall, BeforeStart
  <2> QED
    BY <1>1, <1>2, <1>3, <2>1, <2>2, <2>3, CallGoesOn
<1>4. ASSUME ~op[c].undo, NEW o, At(c, o, "restore"), o.to = op[c].to, o.undo = op[c].undo PROVE SerialInv'
  <2>1. CallIsSound(c)'
    BY <1>1, <1>2, <1>4 DEF CallIsSound, At, Previous
  <2>2. op[c].pc \in BeforeStart /\ o.pc # "idle"
    BY <1>2, <1>4 DEF BeforeStart, At
  <2> QED
    BY <1>1, <1>2, <1>4, <2>1, <2>2, CallGoesOn DEF At
<1> QED
    BY <1>1, <1>2, <1>3, <1>4, FailedIs

LEMMA StopKeeps == ASSUME SerialInv, NEW c \in Callers, StopRepo(c) PROVE SerialInv'
<1>1. RepoTypeOK /\ CallIsSound(c) /\ stray \in BOOLEAN /\ op[c] \in Requests /\ record \in Versions \cup {0} /\ oops \in Nat
    BY DEF SerialInv, RepoTypeOK
<1>2. /\ op[c].pc \in {"stop", "dropping"} /\ oops' \in {oops, oops + 1} /\ mapped' = 0 /\ runs' = {}
      /\ UNCHANGED <<record, version, disk, calls, stray>>
    BY DEF SerialInv, StopRepo, Fault
<1>3. Consistent'
    BY <1>2 DEF Consistent
<1>4. ASSUME op' = [op EXCEPT ![c] = NoCall], NoCall \in Requests, op'[c] = NoCall PROVE SerialInv'
  <2>1. CallIsSound(c)' /\ NoCall.pc \notin BeforeStart
    BY <1>4, NoCallIsSound DEF NoCall, BeforeStart
  <2> QED
    BY <1>1, <1>2, <1>3, <1>4, <2>1, CallGoesOn
<1>5. ASSUME NEW pc \in {"start", "restore", "delete"}, NEW o, At(c, o, pc), o.to = op[c].to, o.undo = op[c].undo,
             pc \in {"start", "restore"} => op[c].pc = "stop", pc = "delete" => op[c].pc = "dropping",
             pc = "restore" => ~op[c].undo /\ oops' = oops + 1
      PROVE  SerialInv'
  <2>1. CallIsSound(c)'
    BY <1>1, <1>2, <1>5 DEF CallIsSound, At, Previous
  <2>2. o.pc \in BeforeStart => op[c].pc \in BeforeStart
    BY <1>5 DEF BeforeStart, At
  <2>3. o.pc # "idle"
    BY <1>5 DEF At
  <2> QED
    BY <1>1, <1>2, <1>5, <2>1, <2>2, <2>3, CallGoesOn DEF At
<1>6. CASE oops' = oops /\ Goto(c, IF op[c].pc = "stop" THEN "start" ELSE "delete")
  <2> DEFINE pc == IF op[c].pc = "stop" THEN "start" ELSE "delete"
  <2>1. CASE op[c].pc = "stop"
    BY <1>1, <1>5, <1>6, <2>1, GotoIs DEF Busy
  <2>2. CASE op[c].pc = "dropping"
    BY <1>1, <1>5, <1>6, <2>2, GotoIs DEF Busy
  <2> QED
    BY <1>2, <2>1, <2>2
<1>7. CASE op[c].pc = "stop" /\ Failed(c) /\ oops' = oops + 1
    BY <1>1, <1>4, <1>5, <1>7, FailedIs
<1>8. CASE EndCall(c)
    BY <1>1, <1>4, <1>8, EndCallIs DEF At
<1> QED
    BY <1>2, <1>6, <1>7, <1>8 DEF StopRepo, Fault

LEMMA ApplyKeeps == ASSUME SerialInv, NEW c \in Callers, ApplyReload(c) PROVE SerialInv'
<1>1. RepoTypeOK /\ CallIsSound(c) /\ stray \in BOOLEAN /\ runs \subseteq {mapped} /\ record \in Versions \cup {0}
    BY DEF SerialInv, RepoTypeOK
<1>2. op[c].pc = "apply" /\ UNCHANGED <<record, mapped, runs, version, disk, calls, oops, stray>> /\ EndCall(c)
    BY DEF ApplyReload
<1>3. Consistent'
    BY <1>1, <1>2 DEF CallIsSound, Consistent
<1>4. CallIsSound(c)' /\ NoCall.pc \notin BeforeStart
    BY <1>1, <1>2, EndCallIs, NoCallIsSound DEF NoCall, BeforeStart
<1> QED
    BY <1>1, <1>2, <1>3, <1>4, EndCallIs, CallGoesOn

LEMMA DeleteKeeps == ASSUME SerialInv, NEW c \in Callers, DeleteRecord(c) PROVE SerialInv'
<1>1. RepoTypeOK /\ CallIsSound(c) /\ stray \in BOOLEAN /\ runs \subseteq {mapped}
    BY DEF SerialInv, RepoTypeOK
<1>2. op[c].pc = "delete" /\ record' = 0 /\ UNCHANGED <<mapped, runs, version, disk, calls, oops, stray>> /\ EndCall(c)
    BY DEF DeleteRecord
<1>3. Consistent'
    BY <1>1, <1>2 DEF CallIsSound, Consistent
<1>4. CallIsSound(c)' /\ NoCall.pc \notin BeforeStart
    BY <1>1, <1>2, EndCallIs, NoCallIsSound DEF NoCall, BeforeStart
<1> QED
    BY <1>1, <1>2, <1>3, <1>4, EndCallIs, CallGoesOn

LEMMA WriteFailsKeeps == ASSUME SerialInv, NEW c \in Callers, WriteFails(c) PROVE SerialInv'
<1>1. RepoTypeOK /\ CallIsSound(c) /\ runs \subseteq {mapped} /\ record \in Versions \cup {0} /\ stray \in BOOLEAN
    BY DEF SerialInv, RepoTypeOK
<1>2. /\ op[c].pc \in {"upsert", "delete", "restore"} /\ UNCHANGED <<record, mapped, runs, version, disk, calls>>
      /\ oops' = oops + 1 /\ EndCall(c) /\ stray' = (stray \/ op[c].pc = "restore")
    BY DEF WriteFails, Fault
<1>3. Consistent'
    BY <1>1, <1>2 DEF CallIsSound, Consistent
<1>4. CallIsSound(c)' /\ NoCall.pc \notin BeforeStart
    BY <1>1, <1>2, EndCallIs, NoCallIsSound DEF NoCall, BeforeStart
<1>5. stray' \in BOOLEAN
    BY <1>2
<1> QED
    BY <1>1, <1>2, <1>3, <1>4, <1>5, EndCallIs, CallGoesOn

LEMMA RestoreKeeps == ASSUME SerialInv, NEW c \in Callers, Restore(c) PROVE SerialInv'
<1>1. RepoTypeOK /\ CallIsSound(c) /\ stray \in BOOLEAN /\ op[c] \in Requests /\ runs \subseteq {mapped} /\ record \in Versions \cup {0}
    BY DEF SerialInv, RepoTypeOK
<1>2. op[c].pc = "restore" /\ UNCHANGED <<mapped, runs, version, disk, calls, oops, stray>> /\ op[c].pc \in BeforeStart
    BY DEF Restore, BeforeStart
<1>3. op[c].kind \in {"register", "reload"}
    BY <1>1, <1>2 DEF CallIsSound, Requests
<1>4. CASE op[c].kind = "register"
  <2>1. record' = op[c].prev /\ EndCall(c) /\ record' \in Versions \cup {0}
    BY <1>1, <1>4 DEF Restore, Requests
  <2>2. Consistent'
    BY <1>1, <1>2, <2>1 DEF CallIsSound, Previous, Consistent
  <2>3. CallIsSound(c)' /\ NoCall.pc \notin BeforeStart
    BY <1>1, <2>1, EndCallIs, NoCallIsSound DEF NoCall, BeforeStart
  <2> QED
    BY <1>1, <1>2, <2>1, <2>2, <2>3, EndCallIs, CallGoesOn
<1>5. CASE op[c].kind = "reload" /\ op[c].prev = 0
  <2>1. record' = record /\ Goto(c, "dropping")
    BY <1>5 DEF Restore
  <2>2. PICK o : At(c, o, "dropping") /\ o.to = op[c].to /\ o.undo = op[c].undo
    BY <1>1, <2>1, GotoIs DEF Busy
  <2>3. CallIsSound(c)' /\ o.pc # "idle"
    BY <1>1, <1>2, <1>5, <2>1, <2>2 DEF CallIsSound, At
  <2> QED
    BY <1>1, <1>2, <2>1, <2>2, <2>3, CallGoesOn DEF At
<1>6. CASE op[c].kind = "reload" /\ op[c].prev # 0
  <2> DEFINE o == [op[c] EXCEPT !.pc = "precheck", !.to = op[c].prev, !.undo = TRUE]
  <2>1. record' = op[c].prev /\ op' = [op EXCEPT ![c] = o]
    BY <1>6 DEF Restore
  <2>2. /\ o \in Requests /\ o.pc = "precheck" /\ o.kind = op[c].kind /\ o.prev = op[c].prev
        /\ o.before = op[c].before /\ o.to = op[c].prev /\ o.undo = TRUE
    BY <1>1 DEF Requests, Busy
  <2> HIDE DEF o
  <2>3. op'[c] = o /\ record' \in Versions \cup {0}
    BY <1>1, <2>1, <2>2 DEF RepoTypeOK, Requests
  <2>4. CallIsSound(c)' /\ o.pc # "idle"
    BY <1>1, <1>2, <1>6, <2>1, <2>2, <2>3 DEF CallIsSound, Previous
  <2> QED
    BY <1>1, <1>2, <2>1, <2>2, <2>3, <2>4, CallGoesOn
<1> QED
    BY <1>3, <1>4, <1>5, <1>6

LEMMA StartKeeps == ASSUME SerialInv, NEW c \in Callers, StartRuntime(c) PROVE SerialInv'
<1> DEFINE f == FreshRuntime
<1>1. RepoTypeOK /\ CallIsSound(c) /\ op[c] \in Requests /\ runs = {}
  <2>1. RepoTypeOK /\ CallIsSound(c) /\ op[c] \in Requests /\ runs \subseteq {mapped} /\ runs \subseteq RuntimeIds
    BY DEF SerialInv, RepoTypeOK
  <2>2. mapped = 0
    BY <2>1 DEF StartRuntime, CallIsSound
  <2>3. 0 \notin RuntimeIds
    BY RepoAssumption DEF RuntimeIds
  <2> QED
    BY <2>1, <2>2, <2>3
<1>2. op[c].pc = "start" /\ op[c].to = record /\ record # 0
    BY <1>1 DEF StartRuntime, CallIsSound
<1>3. PICK n \in 0..(calls + 1) : (\A r \in RuntimeIds : version[r] # 0 <=> r <= n) /\ n <= calls
    BY <1>2 DEF SerialInv, Numbered, BeforeStart
<1>4. MaxCalls \in Nat /\ calls \in Nat /\ calls <= MaxCalls /\ n \in 0..(MaxCalls + 1) /\ n \in Nat
    BY <1>1, <1>3, RepoAssumption DEF RepoTypeOK
<1>5. f = n + 1 /\ f \in RuntimeIds
    BY <1>1, <1>3, <1>4, FreshIsNext
<1>6. /\ version' = [version EXCEPT ![f] = record] /\ runs' = {f} /\ mapped' = f
      /\ UNCHANGED <<record, disk, oops, calls>> /\ stray' = FALSE
      /\ IF op[c].kind = "reload" /\ ~op[c].undo THEN Goto(c, "apply") ELSE EndCall(c)
    BY <1>1, <1>2 DEF StartRuntime
<1> HIDE DEF f
<1>7. f # 0 /\ version'[f] = record
    BY <1>1, <1>4, <1>5, <1>6 DEF RepoTypeOK
<1>8. /\ op' \in [Callers -> Requests] /\ \A d \in Callers : d # c => op'[d] = op[d]
      /\ \/ op'[c] = NoCall
         \/ op[c].kind = "reload" /\ ~op[c].undo /\ At(c, op'[c], "apply") /\ op'[c].to = op[c].to /\ ~op'[c].undo
  <2>1. CASE op[c].kind = "reload" /\ ~op[c].undo
    <3>1. PICK o : At(c, o, "apply") /\ o.to = op[c].to /\ o.undo = op[c].undo
      BY <1>1, <1>6, <2>1, GotoIs DEF Busy
    <3>2. o = op'[c] /\ op' = [op EXCEPT ![c] = o] /\ o \in Requests
      BY <3>1 DEF At
    <3> QED
      BY <1>1, <2>1, <3>1, <3>2 DEF RepoTypeOK
  <2>2. CASE ~(op[c].kind = "reload" /\ ~op[c].undo)
    BY <1>1, <1>6, <2>2, EndCallIs DEF RepoTypeOK
  <2> QED
    BY <2>1, <2>2
<1>9. RepoTypeOK'
    BY <1>1, <1>5, <1>6, <1>8 DEF RepoTypeOK, SerialInv
<1>10. \A d \in Callers : d # c => op[d] = NoCall /\ op'[d] = NoCall
    BY <1>2, <1>8 DEF SerialInv, CallIsSound
<1>11. op'[c].pc \in {"idle", "apply"}
    BY <1>8 DEF NoCall, At
<1>12. Numbered'
  <2>1. n + 1 \in 0..(calls' + 1)
    BY <1>3, <1>4, <1>6
  <2>2. \A r \in RuntimeIds : version'[r] # 0 <=> r <= n + 1
    BY <1>1, <1>2, <1>3, <1>4, <1>5, <1>6, <1>7 DEF RepoTypeOK, RuntimeIds
  <2>3. ~\E d \in Callers : op'[d].pc \in BeforeStart
    BY <1>10, <1>11 DEF BeforeStart, NoCall
  <2> QED
    BY <2>1, <2>2, <2>3, Zenon DEF Numbered
<1>13. Consistent' /\ mapped' # 0 /\ version'[mapped'] # 0
    BY <1>2, <1>6, <1>7 DEF Consistent
<1>14. CallIsSound(c)'
  <2>1. CASE op'[c] = NoCall
    BY <2>1, NoCallIsSound
  <2>2. CASE op[c].kind = "reload" /\ ~op[c].undo /\ At(c, op'[c], "apply") /\ op'[c].to = op[c].to /\ ~op'[c].undo
    BY <1>1, <1>2, <1>13, <2>2 DEF CallIsSound, At
  <2> QED
    BY <1>8, <2>1, <2>2
<1>15. \A d \in Callers : CallIsSound(d)'
    BY <1>10, <1>14, NoCallIsSound
<1>16. \A a, d \in Callers : op'[a].pc # "idle" /\ op'[d].pc # "idle" => a = d
    BY <1>10 DEF NoCall
<1> QED
    BY <1>6, <1>9, <1>12, <1>13, <1>15, <1>16 DEF SerialInv

LEMMA RestartKeeps == ASSUME SerialInv, RestartCoordinator PROVE SerialInv'
<1> DEFINE f == FreshRuntime
<1>1. RepoTypeOK
    BY DEF SerialInv
<1>2. PICK n \in 0..(calls + 1) : \A r \in RuntimeIds : version[r] # 0 <=> r <= n
    BY DEF SerialInv, Numbered
<1>3. MaxCalls \in Nat /\ calls \in Nat /\ calls < MaxCalls /\ n \in 0..(MaxCalls + 1) /\ n \in Nat /\ calls' = calls + 1
    BY <1>1, <1>2, RepoAssumption DEF RepoTypeOK, RestartCoordinator
<1>4. f = n + 1 /\ f \in RuntimeIds
    BY <1>1, <1>2, <1>3, FreshIsNext
<1>5. /\ op' = [c \in Callers |-> NoCall] /\ record' = disk /\ mapped' = f /\ runs' = {f} /\ disk # 0
      /\ version' = [version EXCEPT ![f] = disk] /\ stray' = FALSE /\ UNCHANGED <<disk, oops>>
    BY RepoAssumption DEF RestartCoordinator, Loadable
<1> HIDE DEF f
<1>6. f # 0 /\ version'[f] = disk
    BY <1>1, <1>3, <1>4, <1>5 DEF RepoTypeOK
<1>7. \A c \in Callers : op'[c] = NoCall /\ NoCall \in Requests /\ CallIsSound(c)' /\ NoCall.pc = "idle"
    BY <1>5, NoCallIsSound DEF NoCall, Requests
<1>8. RepoTypeOK'
  <2>1. stray' \in BOOLEAN
    BY <1>5, Zenon
  <2>2. version' \in [RuntimeIds -> Versions \cup {0}]
    BY <1>1, <1>4, <1>5 DEF RepoTypeOK
  <2>3. op' \in [Callers -> Requests]
    BY <1>5, <1>7
  <2>4. calls' \in 0..MaxCalls
    BY <1>3
  <2> QED
    BY <1>1, <1>4, <1>5, <2>1, <2>2, <2>3, <2>4 DEF RepoTypeOK
<1>9. Numbered'
  <2>1. n + 1 \in 0..(calls' + 1)
    BY <1>2, <1>3
  <2>2. \A r \in RuntimeIds : version'[r] # 0 <=> r <= n + 1
    BY <1>1, <1>2, <1>3, <1>4, <1>5, <1>6 DEF RepoTypeOK, RuntimeIds
  <2>3. ~\E d \in Callers : op'[d].pc \in BeforeStart
    BY <1>7 DEF BeforeStart
  <2> QED
    BY <2>1, <2>2, <2>3, Zenon DEF Numbered
<1> QED
    BY <1>5, <1>6, <1>7, <1>8, <1>9 DEF SerialInv, Consistent

LEMMA RepoInvStep == RepoInv /\ [RepoNext]_repoVars => RepoInv'
<1> SUFFICES ASSUME Serial, SerialInv, [RepoNext]_repoVars PROVE SerialInv'
    BY DEF RepoInv
<1>1. ASSUME UNCHANGED <<record, mapped, runs, version, op, oops, calls, stray>>, disk' \in Versions \cup {0} PROVE SerialInv'
  <2>1. RepoTypeOK'
    BY <1>1 DEF SerialInv, RepoTypeOK
  <2>2. Numbered'
    BY <1>1 DEF SerialInv, Numbered
  <2>3. \A c \in Callers : CallIsSound(c)'
    BY <1>1 DEF SerialInv, CallIsSound, Consistent, Previous
  <2> QED
    BY <1>1, <2>1, <2>2, <2>3 DEF SerialInv, Consistent
<1>2. CASE UNCHANGED repoVars
    BY <1>1, <1>2 DEF repoVars, SerialInv, RepoTypeOK
<1>3. ASSUME NEW v \in Versions \cup {0}, EditDisk(v) PROVE SerialInv'
    BY <1>1, <1>3 DEF EditDisk
<1> QED
    BY <1>2, <1>3, BeginsKeep, UpsertKeeps, PreCheckKeeps, PreCheckFailsKeeps, StopKeeps, StartKeeps, ApplyKeeps,
       RestoreKeeps, DeleteKeeps, WriteFailsKeeps, RestartKeeps DEF RepoNext

(***************************************************************************)
(* Whatever the requests, their failing steps and rollbacks, edits of the  *)
(* files and restarts: the record, the runtime and the phase of the one    *)
(* request under way fit together (Register, Reload, Deregister).          *)
(***************************************************************************)
THEOREM RuntimesCorrect == RepoSpec => []RepoInv
BY RepoInvInit, RepoInvStep, PTL DEF RepoSpec

(***************************************************************************)
(* Between requests at most one runtime of a repository runs, it is the    *)
(* one the coordinator knows, with the configuration in the record unless  *)
(* a rollback could not write that.                                        *)
(***************************************************************************)
THEOREM RegisteredRuns == RepoSpec => []RunsWhatIsRegistered
<1>1. RepoInv => RunsWhatIsRegistered
    BY DEF RepoInv, SerialInv, RunsWhatIsRegistered, Quiet, Consistent
<1> QED
    BY <1>1, RuntimesCorrect, PTL

(***************************************************************************)
(* A reload of a repository that had a runtime never leaves it without     *)
(* one, unless its rollback fails, too (rollbackRegistration).             *)
(***************************************************************************)
THEOREM FailedReloadRestores == RepoSpec => ReloadRestores
<1>1. RepoInv /\ [RepoNext]_repoVars =>
        [\A c \in Callers : Serial /\ op[c].kind = "reload" /\ op[c].before # 0 /\ op'[c].pc = "idle" /\ oops' <= 1
            => mapped' # 0 \/ calls' > calls]_repoVars
  <2> SUFFICES ASSUME Serial, SerialInv, RepoNext, NEW c \in Callers, op[c].kind = "reload", op[c].before # 0,
                      op'[c].pc = "idle", oops' <= 1
               PROVE  mapped' # 0 \/ calls' > calls
    BY DEF RepoInv
  <2>1. /\ RepoTypeOK /\ CallIsSound(c) /\ op[c].pc # "idle" /\ oops \in Nat /\ calls \in Nat /\ op[c] \in Requests
        /\ \A d \in Callers : d # c => op[d].pc = "idle"
    BY DEF SerialInv, RepoTypeOK, CallIsSound
  <2>2. CASE RestartCoordinator
    BY <2>1, <2>2 DEF RestartCoordinator
  <2>3. ASSUME NEW v \in Versions \cup {0}, EditDisk(v) PROVE FALSE
    BY <2>1, <2>3 DEF EditDisk
  <2>4. ASSUME NEW d \in Callers, BeginReload(d) \/ BeginDrop(d) \/ \E v \in Versions : BeginRegister(d, v) PROVE FALSE
    BY <2>1, <2>4 DEF BeginReload, BeginDrop, BeginRegister, Free
  <2>5. ASSUME NEW d \in Callers, Upsert(d) \/ PreCheck(d) PROVE FALSE
    <3>1. d = c
      BY <2>1, <2>5 DEF Upsert, PreCheck
    <3> QED
      BY <2>1, <2>5, <3>1, GotoIs DEF Upsert, PreCheck, At, Busy
  <2>6. ASSUME NEW d \in Callers, PreCheckFails(d) PROVE FALSE
    <3>1. d = c /\ oops' = oops + 1
      BY <2>1, <2>6 DEF PreCheckFails, Fault
    <3>2. op[c].undo
      BY <2>1, <2>6, <3>1, FailedIs DEF PreCheckFails, At
    <3> QED
      BY <2>1, <3>1, <3>2 DEF CallIsSound
  <2>7. ASSUME NEW d \in Callers, StopRepo(d) PROVE FALSE
    <3>1. d = c
      BY <2>1, <2>7 DEF StopRepo
    <3>2. ~Goto(c, "start") /\ ~Goto(c, "delete")
      BY <2>1, GotoIs DEF At, Busy
    <3>3. oops' = oops + 1
      BY <2>7, <3>1, <3>2 DEF StopRepo, Fault
    <3>4. op[c].undo \/ op[c].pc = "dropping"
      BY <2>1, <2>7, <3>1, <3>2, FailedIs DEF StopRepo, At
    <3> QED
      BY <2>1, <3>3, <3>4 DEF CallIsSound
  <2>8. ASSUME NEW d \in Callers, StartRuntime(d) PROVE mapped' # 0
    <3>1. SerialInv' /\ mapped' = FreshRuntime /\ d = c
      BY <2>1, <2>8, StartKeeps DEF StartRuntime
    <3>2. PICK n \in 0..(calls + 1) : (\A r \in RuntimeIds : version[r] # 0 <=> r <= n) /\ n <= calls
      BY <2>8 DEF SerialInv, Numbered, BeforeStart, StartRuntime
    <3>3. n \in 0..(MaxCalls + 1)
      BY <2>1, <3>2, RepoAssumption DEF RepoTypeOK
    <3> QED
      BY <2>1, <3>1, <3>2, <3>3, FreshIsNext
  <2>9. ASSUME NEW d \in Callers, ApplyReload(d) PROVE mapped' # 0
    BY <2>1, <2>9 DEF ApplyReload, CallIsSound
  <2>10. ASSUME NEW d \in Callers, Restore(d) PROVE FALSE
    <3>1. d = c
      BY <2>1, <2>10 DEF Restore
    <3>2. op[c].prev # 0
      BY <2>1 DEF CallIsSound
    <3>3. op' = [op EXCEPT ![c] = [op[c] EXCEPT !.pc = "precheck", !.to = op[c].prev, !.undo = TRUE]]
      BY <2>10, <3>1, <3>2 DEF Restore
    <3> QED
      BY <2>1, <3>3 DEF RepoTypeOK, Requests
  <2>11. ASSUME NEW d \in Callers, DeleteRecord(d) PROVE FALSE
    <3>1. d = c
      BY <2>1, <2>11 DEF DeleteRecord
    <3> QED
      BY <2>1, <2>11, <3>1 DEF DeleteRecord, CallIsSound
  <2>12. ASSUME NEW d \in Callers, WriteFails(d) PROVE mapped' # 0
    <3>1. d = c /\ oops' = oops + 1 /\ mapped' = mapped
      BY <2>1, <2>12 DEF WriteFails, Fault
    <3>2. op[c].pc = "upsert"
      BY <2>1, <2>12, <3>1 DEF WriteFails, CallIsSound
    <3> QED
      BY <2>1, <3>1, <3>2 DEF CallIsSound
  <2> QED
    BY <2>2, <2>3, <2>4, <2>5, <2>6, <2>7, <2>8, <2>9, <2>10, <2>11, <2>12 DEF RepoNext
<1> QED
    BY <1>1, RuntimesCorrect, PTL DEF RepoSpec, ReloadRestores

-----------------------------------------------------------------------------
(* The dependency gate.                                                    *)

FlowStates == {"idle", "work", "forced", "done", "merged", "closed"}
FlowEvents == [issue : Numbers \cup {0}, labels : FlowStates \cup {"none"}, whole : BOOLEAN]

FlowTypeOK ==
    /\ gh \in [Numbers -> FlowStates] /\ past \in [Numbers -> SUBSET FlowStates]
    /\ cached \in [Numbers -> FlowStates \cup {"none"}] /\ snap \in [Numbers -> FlowStates \cup {"none"}]
    /\ verdict \in [Numbers -> {"none", "override", "needs_human", "blocked", "ready"}]
    /\ pend \subseteq FlowEvents /\ chan \in Seq(FlowEvents)

\* What GitHub, the cache and the listing say of an issue was so once.
Witnessed == \A i \in Numbers : gh[i] \in past[i] /\ {cached[i], snap[i]} \subseteq past[i] \cup {"none"}

\* A verdict that lets an issue pass was earned.
Earned == \A i \in Numbers : verdict[i] \in {"override", "ready"} => Cleared(i)

FlowInv == FlowTypeOK /\ Witnessed /\ Earned

LEMMA FlowInvInit == FlowInit => FlowInv
<1> SUFFICES ASSUME FlowInit PROVE FlowInv
    OBVIOUS
<1>1. FlowTypeOK
    BY DEF FlowInit, FlowTypeOK, FlowStates
<1>2. Witnessed /\ Earned
    BY DEF FlowInit, Witnessed, Earned
<1> QED
    BY <1>1, <1>2 DEF FlowInv

\* A verdict is earned by what the cache and GitHub say at that moment.
LEMMA JudgeIsEarned ==
    ASSUME FlowInv, NEW i \in Numbers, NEW unread
    PROVE  /\ Judge(i, unread) \in {"override", "needs_human", "blocked", "ready"}
           /\ Judge(i, unread) \in {"override", "ready"} => Cleared(i)
<1> DEFINE states == {DepState(d, unread) : d \in DependsOn[i]}
<1>1. /\ Judge(i, unread) \in {"override", "needs_human", "blocked", "ready"}
      /\ Judge(i, unread) = "override" => cached[i] = "forced"
      /\ Judge(i, unread) = "ready" => {"unreadable", "unmet"} \cap states = {}
    BY DEF Judge
<1>2. CASE Judge(i, unread) = "override"
    BY <1>1, <1>2 DEF FlowInv, Witnessed, Cleared
<1>3. CASE Judge(i, unread) = "ready"
  <2> SUFFICES ASSUME NEW d \in DependsOn[i] PROVE {"done", "merged"} \cap past[d] # {}
    BY <1>1, <1>3 DEF Cleared
  <2>1. d \in Numbers
    BY FlowAssumption
  <2>2. DepState(d, unread) \in states
    OBVIOUS
  <2>3. DepState(d, unread) \notin {"unreadable", "unmet"}
    BY <1>1, <1>3, <2>2
  <2>4. cached[d] = "done" \/ gh[d] = "merged"
    BY <2>3 DEF DepState
  <2> QED
    BY <2>1, <2>4 DEF FlowInv, Witnessed
<1> QED
    BY <1>1, <1>2, <1>3

\* Maintenance and dispatch leave the listing, the channel and GitHub alone.
LEMMA MaintainKeeps ==
    ASSUME FlowInv, NEW unread, NEW mute, Maintain(unread, mute), UNCHANGED <<gh, past, snap, pend>>, chan' \in Seq(FlowEvents)
    PROVE  FlowInv'
<1>1. \A i \in Numbers : verdict'[i] \in {Judge(i, unread), verdict[i]} /\ cached'[i] \in {"none", cached[i]}
    BY DEF Maintain
<1>2. FlowTypeOK'
  <2>1. verdict' \in [Numbers -> {"none", "override", "needs_human", "blocked", "ready"}]
    BY JudgeIsEarned DEF Maintain, FlowInv, FlowTypeOK
  <2>2. cached' \in [Numbers -> FlowStates \cup {"none"}]
    BY DEF Maintain, FlowInv, FlowTypeOK
  <2> QED
    BY <2>1, <2>2 DEF FlowInv, FlowTypeOK
<1>3. Witnessed'
    BY <1>1 DEF FlowInv, Witnessed
<1>4. Earned'
  <2> SUFFICES ASSUME NEW i \in Numbers, verdict'[i] \in {"override", "ready"} PROVE Cleared(i)'
    BY DEF Earned
  <2>1. Cleared(i)
    BY <1>1, JudgeIsEarned DEF FlowInv, Earned
  <2> QED
    BY <2>1 DEF Cleared
<1> QED
    BY <1>2, <1>3, <1>4 DEF FlowInv

\* Steps that touch neither the history nor the verdicts.
LEMMA PollKeeps ==
    ASSUME FlowInv, UNCHANGED <<gh, past, verdict>>, chan' \in Seq(FlowEvents), pend' \subseteq FlowEvents,
           cached' \in [Numbers -> FlowStates \cup {"none"}], snap' \in [Numbers -> FlowStates \cup {"none"}],
           \A i \in Numbers : {cached'[i], snap'[i]} \subseteq {cached[i], snap[i], gh[i], "none"}
    PROVE  FlowInv'
<1>1. FlowTypeOK'
    BY DEF FlowInv, FlowTypeOK
<1>2. Witnessed'
    BY DEF FlowInv, Witnessed
<1>3. Earned'
    BY DEF FlowInv, Earned, Cleared
<1> QED
    BY <1>1, <1>2, <1>3 DEF FlowInv

LEMMA MovesKeeps ==
    ASSUME FlowInv, NEW i \in Numbers, NEW s \in {"work", "forced", "done", "merged", "closed"}, Moves(i, s)
    PROVE  FlowInv'
<1>1. FlowTypeOK'
    BY DEF Moves, pollVars, FlowInv, FlowTypeOK, FlowStates
<1>2. \A j \in Numbers : past[j] \subseteq past'[j]
    BY DEF Moves, FlowInv, FlowTypeOK
<1>3. Witnessed'
    BY <1>2 DEF Moves, pollVars, FlowInv, FlowTypeOK, Witnessed
<1>4. Earned'
  <2> SUFFICES ASSUME NEW j \in Numbers, verdict'[j] \in {"override", "ready"} PROVE Cleared(j)'
    BY DEF Earned
  <2>1. Cleared(j) /\ DependsOn[j] \subseteq Numbers
    BY FlowAssumption DEF Moves, FlowInv, Earned
  <2> QED
    BY <1>2, <2>1 DEF Cleared
<1> QED
    BY <1>1, <1>3, <1>4 DEF FlowInv

LEMMA HandleKeeps ==
    ASSUME FlowInv, NEW unread, NEW mute, NEW broken, HandleEvent(unread, mute, broken)
    PROVE  FlowInv'
<1>1. chan' \in Seq(FlowEvents) /\ UNCHANGED <<gh, past, snap, pend>>
    BY HeadTailProperties DEF HandleEvent, pollVars, FlowInv, FlowTypeOK
<1>2. CASE Maintain(unread, mute)
    BY <1>1, <1>2, MaintainKeeps
<1>3. CASE UNCHANGED <<cached, verdict>>
    BY <1>1, <1>3, PollKeeps DEF FlowInv, FlowTypeOK
<1> QED
    BY <1>2, <1>3 DEF HandleEvent

LEMMA FlowInvStep == FlowInv /\ [FlowNext]_flowVars => FlowInv'
<1> SUFFICES ASSUME FlowInv, [FlowNext]_flowVars PROVE FlowInv'
    OBVIOUS
<1>0. FlowTypeOK /\ Witnessed
    BY DEF FlowInv
<1>1. CASE UNCHANGED flowVars
    BY <1>0, <1>1, PollKeeps DEF flowVars, pollVars, FlowTypeOK
<1>2. CASE ListPRs
  <2>1. \A i \in Closed : [issue |-> i, labels |-> "none", whole |-> FALSE] \in FlowEvents
    BY DEF FlowEvents, Closed
  <2>2. pend' \subseteq FlowEvents
    BY <1>0, <1>2, <2>1 DEF ListPRs, FlowTypeOK
  <2> QED
    BY <1>0, <1>2, <2>2, PollKeeps DEF ListPRs, FlowTypeOK
<1>3. CASE EmitDone
  <2>1. [issue |-> 0, labels |-> "none", whole |-> FALSE] \in FlowEvents
    BY DEF FlowEvents
  <2>2. chan' \in Seq(FlowEvents)
    BY <1>0, <1>3, <2>1, AppendProperties DEF EmitDone, FlowTypeOK
  <2> QED
    BY <1>0, <1>3, <2>2, PollKeeps DEF EmitDone, FlowTypeOK
<1>4. CASE BackoffTick
    BY <1>0, <1>4, PollKeeps DEF BackoffTick, FlowTypeOK
<1>5. ASSUME NEW i \in Numbers, NEW failing, CommitOp(i, failing) PROVE FlowInv'
    BY <1>0, <1>5, PollKeeps DEF CommitOp, FlowTypeOK
<1>6. ASSUME NEW i \in Numbers, ResyncDue(i) \/ Recover(i) PROVE FlowInv'
    BY <1>0, <1>6, PollKeeps DEF ResyncDue, Recover, pollVars, FlowTypeOK
<1>7. ASSUME NEW shown \in SUBSET Numbers, ListIssues(shown) PROVE FlowInv'
  <2>1. \A i \in Numbers : Snapshot(i, gh[i]) \in BOOLEAN
    BY DEF Snapshot
  <2>2. pend' \subseteq FlowEvents
    BY <1>0, <1>7, <2>1 DEF ListIssues, FlowTypeOK, FlowEvents
  <2>3. snap' \in [Numbers -> FlowStates \cup {"none"}] /\ \A i \in Numbers : snap'[i] \in {gh[i], "none"}
    BY <1>0, <1>7 DEF ListIssues, FlowTypeOK
  <2> QED
    BY <1>0, <1>7, <2>2, <2>3, PollKeeps DEF ListIssues, FlowTypeOK
<1>8. ASSUME NEW e \in pend, Emit(e) PROVE FlowInv'
  <2>1. chan' \in Seq(FlowEvents)
    BY <1>0, <1>8, AppendProperties DEF Emit, FlowTypeOK
  <2> QED
    BY <1>0, <1>8, <2>1, PollKeeps DEF Emit, FlowTypeOK
<1>9. ASSUME NEW limited \in BOOLEAN, ReadFails(limited) PROVE FlowInv'
    BY <1>0, <1>9, PollKeeps DEF ReadFails, FlowTypeOK
<1>10. ASSUME NEW kept \in 0..Len(chan), Reload(kept) PROVE FlowInv'
  <2>1. chan' \in Seq(FlowEvents)
    BY <1>0, <1>10, SubSeqProperties DEF Reload, FlowTypeOK
  <2> QED
    BY <1>0, <1>10, <2>1, PollKeeps DEF Reload, FlowTypeOK
<1> QED
    BY <1>1, <1>2, <1>3, <1>4, <1>5, <1>6, <1>7, <1>8, <1>9, <1>10, MovesKeeps, HandleKeeps DEF FlowNext

(***************************************************************************)
(* What the poller and the cache know of an issue was true once, and a     *)
(* verdict that lets an issue pass was earned (runDependencyMaintenance).  *)
(***************************************************************************)
THEOREM VerdictsCorrect == FlowSpec => []FlowInv
BY FlowInvInit, FlowInvStep, PTL DEF FlowSpec

(***************************************************************************)
(* No issue is dispatched past a recorded verdict that gates it (IsBlocked *)
(* in the state machine), for any graph of dependencies.                   *)
(***************************************************************************)
THEOREM VerdictsHold == FlowSpec => NoneSlipsPastAVerdict
<1>1. FlowInv /\ FlowInv' /\ [FlowNext]_flowVars =>
        [\A i \in tasked' \ tasked : Cleared(i) \/ verdict'[i] = "none"]_flowVars
  <2> SUFFICES ASSUME FlowInv, FlowInv', FlowNext, NEW i \in tasked' \ tasked PROVE Cleared(i) \/ verdict'[i] = "none"
    OBVIOUS
  <2>1. ASSUME i \in Numbers, ~Gated(verdict'[i]), past' = past PROVE Cleared(i) \/ verdict'[i] = "none"
    BY <2>1 DEF FlowInv, FlowTypeOK, Earned, Gated, Cleared
  <2>2. ASSUME NEW unread, NEW mute, NEW broken, HandleEvent(unread, mute, broken) PROVE Cleared(i) \/ verdict'[i] = "none"
    <3>1. Head(chan) \in FlowEvents
      BY <2>2, HeadTailProperties DEF HandleEvent, FlowInv, FlowTypeOK
    <3>2. i = Head(chan).issue /\ i # 0 /\ ~Gated(verdict'[i]) /\ past' = past
      BY <2>2 DEF HandleEvent, EventDispatches
    <3> QED
      BY <2>1, <3>1, <3>2 DEF FlowEvents
  <2>3. ASSUME NEW j \in Numbers, Recover(j) PROVE Cleared(i) \/ verdict'[i] = "none"
    BY <2>1, <2>3 DEF Recover, EventDispatches
  <2>4. CASE UNCHANGED tasked
    BY <2>4
  <2> QED
    BY <2>2, <2>3, <2>4 DEF FlowNext, ListPRs, EmitDone, BackoffTick, Moves, CommitOp, ResyncDue, ListIssues, Emit, ReadFails, Reload
<1> QED
    BY <1>1, VerdictsCorrect, PTL DEF FlowSpec, NoneSlipsPastAVerdict

\* The labels x of issue i were reported last: by its last event in the
\* channel, or, without one there, by the last event handled.
Reported(i, x) ==
    \/ \E k \in 1..Len(chan) : /\ chan[k].issue = i /\ chan[k].labels = x
                               /\ \A m \in 1..Len(chan) : m > k => chan[m].issue # i
    \/ delivered[i] = x /\ \A m \in 1..Len(chan) : chan[m].issue # i

ToReport(i) == \E e \in pend : e.issue = i

PollPhases ==
    /\ pollAt \in {"idle", "listed", "commit"} /\ todo \subseteq Numbers
    /\ delivered \in [Numbers -> FlowStates \cup {"none"}]
    /\ pollAt = "idle" => pend = {} /\ snap = [i \in Numbers |-> "none"]
    /\ pollAt # "commit" => todo = {}
    /\ \A e \in pend : e.issue \in Numbers /\ e.labels = snap[e.issue]
    /\ pollAt = "listed" => \A e \in pend : snap[e.issue] # "none"

\* Everything listed was reported before or is about to be; the cache has
\* what was reported, or what the commit under way took from the listing.
ListedIsReported == \A i \in Numbers \ unsaved : snap[i] # "none" => Reported(i, snap[i]) \/ ToReport(i)
CacheIsReported ==
    \A i \in Numbers \ unsaved : cached[i] # "none" =>
        Reported(i, cached[i]) \/ (pollAt = "commit" /\ i \notin todo /\ cached[i] = snap[i])
PendingIsCommitted ==
    pollAt = "commit" => \A i \in Numbers \ unsaved : ToReport(i) /\ i \notin todo => cached[i] \in {snap[i], "none"}

Delivery == PollPhases /\ ListedIsReported /\ CacheIsReported /\ PendingIsCommitted
DeliveryInv == reloads \in Nat /\ (reloads = 0 => Delivery)

LEMMA ReportedThenAppended ==
    ASSUME chan \in Seq(FlowEvents), NEW e \in FlowEvents, chan' = Append(chan, e), delivered' = delivered, NEW i, NEW x
    PROVE  /\ e.issue # i /\ Reported(i, x) => Reported(i, x)'
           /\ e.issue = i => Reported(i, e.labels)'
<1>1. /\ Len(chan) \in Nat /\ Len(chan') = Len(chan) + 1 /\ chan'[Len(chan) + 1] = e
      /\ \A k \in 1..Len(chan) : chan'[k] = chan[k]
    BY AppendProperties
<1>2. ASSUME e.issue # i PROVE \A m \in 1..Len(chan') : chan'[m].issue = i => m \in 1..Len(chan)
    BY <1>1, <1>2
<1>3. ASSUME e.issue # i, NEW k \in 1..Len(chan), chan[k].issue = i, chan[k].labels = x,
             \A m \in 1..Len(chan) : m > k => chan[m].issue # i
      PROVE  Reported(i, x)'
    <2>1. k \in 1..Len(chan') /\ chan'[k].issue = i /\ chan'[k].labels = x
        BY <1>1, <1>3
    <2>2. \A m \in 1..Len(chan') : m > k => chan'[m].issue # i
        BY <1>1, <1>2, <1>3
    <2> QED
        BY <2>1, <2>2 DEF Reported
<1>4. ASSUME e.issue # i, delivered[i] = x, \A m \in 1..Len(chan) : chan[m].issue # i PROVE Reported(i, x)'
    <2>1. \A m \in 1..Len(chan') : chan'[m].issue # i
        BY <1>1, <1>2, <1>4
    <2> QED
        BY <1>4, <2>1 DEF Reported
<1>5. ASSUME e.issue = i PROVE Reported(i, e.labels)'
    <2> DEFINE k == Len(chan) + 1
    <2>1. k \in 1..Len(chan') /\ chan'[k].issue = i /\ chan'[k].labels = e.labels /\ \A m \in 1..Len(chan') : ~(m > k)
        BY <1>1, <1>5
    <2> QED
        BY <2>1 DEF Reported
<1> QED
    BY <1>3, <1>4, <1>5 DEF Reported

LEMMA ReportedThenHandled ==
    ASSUME FlowInv, delivered \in [Numbers -> FlowStates \cup {"none"}], chan # <<>>, chan' = Tail(chan),
           delivered' = IF Head(chan).issue = 0 THEN delivered
                        ELSE [delivered EXCEPT ![Head(chan).issue] = Head(chan).labels],
           NEW i \in Numbers, NEW x, Reported(i, x)
    PROVE  Reported(i, x)'
<1>0. chan \in Seq(FlowEvents) /\ i # 0
    BY FlowAssumption DEF FlowInv, FlowTypeOK
<1>1. /\ Len(chan) \in Nat \ {0} /\ Len(chan') = Len(chan) - 1 /\ Head(chan) = chan[1]
      /\ \A k \in 1..Len(chan') : chan'[k] = chan[k + 1]
    BY <1>0
<1>2. CASE \E k \in 1..Len(chan) : k > 1 /\ chan[k].issue = i /\ chan[k].labels = x
                                  /\ \A m \in 1..Len(chan) : m > k => chan[m].issue # i
    <2>1. PICK k \in 1..Len(chan) : k > 1 /\ chan[k].issue = i /\ chan[k].labels = x
                                   /\ \A m \in 1..Len(chan) : m > k => chan[m].issue # i
        BY <1>2
    <2>2. k - 1 \in 1..Len(chan') /\ chan'[k - 1] = chan[k]
        BY <1>1, <2>1
    <2>3. \A m \in 1..Len(chan') : m > k - 1 => chan'[m].issue # i
        BY <1>1, <2>1
    <2> QED
        BY <2>1, <2>2, <2>3 DEF Reported
<1>3. CASE /\ chan[1].issue = i /\ chan[1].labels = x /\ \A m \in 1..Len(chan) : m > 1 => chan[m].issue # i
    <2>1. delivered'[i] = x
        BY <1>0, <1>1, <1>3
    <2>2. \A m \in 1..Len(chan') : chan'[m].issue # i
        BY <1>1, <1>3
    <2> QED
        BY <2>1, <2>2 DEF Reported
<1>4. CASE delivered[i] = x /\ \A m \in 1..Len(chan) : chan[m].issue # i
    <2>1. delivered'[i] = x
        BY <1>0, <1>1, <1>4
    <2>2. \A m \in 1..Len(chan') : chan'[m].issue # i
        BY <1>1, <1>4
    <2> QED
        BY <2>1, <2>2 DEF Reported
<1> QED
    BY <1>1, <1>2, <1>3, <1>4 DEF Reported

LEMMA DeliveryInit == FlowInit => DeliveryInv
<1> SUFFICES ASSUME FlowInit PROVE DeliveryInv
    OBVIOUS
<1>1. PollPhases
    BY DEF FlowInit, PollPhases
<1>2. ListedIsReported /\ CacheIsReported /\ PendingIsCommitted
    BY DEF FlowInit, ListedIsReported, CacheIsReported, PendingIsCommitted
<1> QED
    BY <1>1, <1>2 DEF DeliveryInv, Delivery, FlowInit

\* Steps that leave the poll and the channel alone may empty the cache.
LEMMA RestKeepsDelivery ==
    ASSUME Delivery, UNCHANGED <<pollAt, snap, todo, pend, chan, delivered, unsaved>>,
           \A i \in Numbers : cached'[i] \in {cached[i], "none"}
    PROVE  Delivery'
<1>1. \A i, x : Reported(i, x)' <=> Reported(i, x)
    BY DEF Reported
<1>2. \A i : ToReport(i)' <=> ToReport(i)
    BY DEF ToReport
<1>3. PollPhases'
    BY DEF Delivery, PollPhases
<1>4. ListedIsReported'
    BY <1>1, <1>2 DEF Delivery, ListedIsReported
<1>5. CacheIsReported'
    BY <1>1 DEF Delivery, CacheIsReported
<1>6. PendingIsCommitted'
    BY <1>2 DEF Delivery, PendingIsCommitted
<1> QED
    BY <1>3, <1>4, <1>5, <1>6 DEF Delivery

LEMMA ListIssuesDelivers ==
    ASSUME FlowInv, Delivery, NEW shown \in SUBSET Numbers, ListIssues(shown)
    PROVE  Delivery'
<1>0. pollAt = "idle" /\ pollAt' = "listed" /\ UNCHANGED <<cached, todo, chan, delivered, unsaved, gh>> /\ todo = {} /\ gh \in [Numbers -> FlowStates]
    BY DEF ListIssues, Delivery, PollPhases, FlowInv, FlowTypeOK
<1>1. \A i, x : Reported(i, x)' <=> Reported(i, x)
    BY <1>0 DEF Reported
<1>2. /\ snap' = [i \in Numbers |-> IF i \in shown THEN gh[i] ELSE "none"]
      /\ pend' = {[issue |-> i, labels |-> gh[i], whole |-> Snapshot(i, gh[i])] :
                    i \in {j \in shown : cached[j] # gh[j] \/ Snapshot(j, gh[j])}}
    BY DEF ListIssues
<1>3. \A e \in pend' : e.issue \in shown /\ e.labels = gh[e.issue]
    BY <1>2
<1>4. \A i \in shown : cached[i] # gh[i] => ToReport(i)'
    <2> SUFFICES ASSUME NEW i \in shown, cached[i] # gh[i] PROVE ToReport(i)'
        OBVIOUS
    <2>1. [issue |-> i, labels |-> gh[i], whole |-> Snapshot(i, gh[i])] \in pend'
        BY <1>2
    <2> QED
        BY <2>1 DEF ToReport
<1>5. PollPhases'
    BY <1>0, <1>2, <1>3 DEF Delivery, PollPhases, FlowStates
<1>6. CacheIsReported'
    BY <1>0, <1>1 DEF Delivery, CacheIsReported
<1>7. ListedIsReported'
    BY <1>0, <1>1, <1>2, <1>4 DEF Delivery, ListedIsReported, CacheIsReported
<1>8. PendingIsCommitted'
    BY <1>0 DEF PendingIsCommitted
<1> QED
    BY <1>5, <1>6, <1>7, <1>8 DEF Delivery

LEMMA ListPRsDelivers == ASSUME FlowInv, Delivery, ListPRs PROVE Delivery'
<1>0. /\ pollAt = "listed" /\ pollAt' = "commit" /\ UNCHANGED <<cached, snap, chan, delivered, unsaved>>
      /\ todo' = Listed \cup Closed /\ Listed \subseteq Numbers /\ Closed \subseteq Numbers \ Listed
      /\ pend' = pend \cup {[issue |-> i, labels |-> "none", whole |-> FALSE] : i \in Closed}
    BY DEF ListPRs, Listed, Closed
<1>1. \A i, x : Reported(i, x)' <=> Reported(i, x)
    BY <1>0 DEF Reported
<1>2. \A i : ToReport(i) => ToReport(i)'
    BY <1>0 DEF ToReport
<1>3. \A e \in pend' : e.issue \in todo' /\ e.labels = snap[e.issue]
    <2> SUFFICES ASSUME NEW e \in pend' PROVE e.issue \in todo' /\ e.labels = snap[e.issue]
        OBVIOUS
    <2>1. CASE e \in pend
        BY <1>0, <2>1 DEF Delivery, PollPhases, Listed
    <2>2. ASSUME NEW i \in Closed, e = [issue |-> i, labels |-> "none", whole |-> FALSE] PROVE e.issue \in todo' /\ e.labels = snap[e.issue]
        BY <1>0, <2>2 DEF Listed
    <2> QED
        BY <1>0, <2>1, <2>2
<1>4. PollPhases'
    BY <1>0, <1>3 DEF Delivery, PollPhases
<1>5. CacheIsReported' /\ ListedIsReported'
    BY <1>0, <1>1, <1>2 DEF Delivery, CacheIsReported, ListedIsReported
<1>6. PendingIsCommitted'
    BY <1>3 DEF PendingIsCommitted, ToReport
<1> QED
    BY <1>4, <1>5, <1>6 DEF Delivery

LEMMA CommitDelivers == ASSUME FlowInv, Delivery, NEW i \in Numbers, NEW failing, CommitOp(i, failing) PROVE Delivery'
<1>0. /\ pollAt = "commit" /\ UNCHANGED <<pollAt, snap, pend, chan, delivered>> /\ todo' = todo \ {i}
      /\ \A j \in Numbers \ unsaved' : cached'[j] = (IF j = i THEN snap[i] ELSE cached[j])
      /\ unsaved \subseteq unsaved'
    BY DEF CommitOp, FlowInv, FlowTypeOK
<1>1. \A j, x : Reported(j, x)' <=> Reported(j, x)
    BY <1>0 DEF Reported
<1>2. \A j : ToReport(j)' <=> ToReport(j)
    BY <1>0 DEF ToReport
<1>3. PollPhases'
    BY <1>0 DEF Delivery, PollPhases
<1>4. ListedIsReported'
    BY <1>0, <1>1, <1>2 DEF Delivery, ListedIsReported
<1>5. CacheIsReported'
    BY <1>0, <1>1 DEF Delivery, CacheIsReported
<1>6. PendingIsCommitted'
    BY <1>0, <1>2 DEF Delivery, PendingIsCommitted
<1> QED
    BY <1>3, <1>4, <1>5, <1>6 DEF Delivery

\* An event carries what the cache has by then.
LEMMA EmitDelivers == ASSUME FlowInv, Delivery, NEW e \in pend, Emit(e) PROVE Delivery'
<1>0. /\ pollAt = "commit" /\ todo = {} /\ UNCHANGED <<cached, pollAt, snap, todo, delivered, unsaved>> /\ pend' = pend \ {e}
      /\ chan' = Append(chan, e) /\ chan \in Seq(FlowEvents) /\ e \in FlowEvents
      /\ e.issue \in Numbers /\ e.labels = snap[e.issue] /\ (e.issue \in unsaved \/ cached[e.issue] \in {snap[e.issue], "none"})
    <2>1. ToReport(e.issue)
        BY DEF ToReport
    <2> QED
        BY <2>1 DEF Emit, FlowInv, FlowTypeOK, Delivery, PollPhases, PendingIsCommitted
<1>1. \A i, x : e.issue # i /\ Reported(i, x) => Reported(i, x)'
    BY <1>0, ReportedThenAppended
<1>2. Reported(e.issue, snap[e.issue])'
    BY <1>0, ReportedThenAppended
<1>3. \A i : i # e.issue /\ ToReport(i) => ToReport(i)'
    BY <1>0 DEF ToReport
<1>4. \A i : ToReport(i)' => ToReport(i)
    BY <1>0 DEF ToReport
<1>5. PollPhases'
    BY <1>0 DEF Delivery, PollPhases
<1>6. ListedIsReported'
    BY <1>0, <1>1, <1>2, <1>3 DEF Delivery, ListedIsReported
<1>7. CacheIsReported'
    BY <1>0, <1>1, <1>2 DEF Delivery, CacheIsReported
<1>8. PendingIsCommitted'
    BY <1>0, <1>4 DEF Delivery, PendingIsCommitted
<1> QED
    BY <1>5, <1>6, <1>7, <1>8 DEF Delivery

LEMMA EmitDoneDelivers == ASSUME FlowInv, Delivery, EmitDone PROVE Delivery'
<1> DEFINE d == [issue |-> 0, labels |-> "none", whole |-> FALSE]
<1>0. /\ pollAt = "commit" /\ todo = {} /\ pend = {} /\ UNCHANGED <<cached, todo, pend, delivered, unsaved>>
      /\ chan' = Append(chan, d) /\ chan \in Seq(FlowEvents) /\ d \in FlowEvents
      /\ pollAt' = "idle" /\ snap' = [i \in Numbers |-> "none"] /\ 0 \notin Numbers
    BY FlowAssumption DEF EmitDone, FlowInv, FlowTypeOK, FlowEvents
<1>1. \A i \in Numbers : \A x : Reported(i, x) => Reported(i, x)'
    <2> HIDE DEF d
    <2>1. d.issue = 0
        BY DEF d
    <2> QED
        BY <1>0, <2>1, ReportedThenAppended
<1>2. \A i \in Numbers \ unsaved : cached[i] # "none" => Reported(i, cached[i])
    BY <1>0 DEF Delivery, CacheIsReported, ListedIsReported, ToReport
<1>3. PollPhases'
    BY <1>0 DEF Delivery, PollPhases
<1>4. ListedIsReported' /\ PendingIsCommitted'
    BY <1>0 DEF ListedIsReported, PendingIsCommitted
<1>5. CacheIsReported'
    BY <1>0, <1>1, <1>2 DEF CacheIsReported
<1> QED
    BY <1>3, <1>4, <1>5 DEF Delivery

LEMMA ReadFailsDelivers == ASSUME FlowInv, Delivery, NEW limited, ReadFails(limited) PROVE Delivery'
<1>0. /\ pollAt \in {"idle", "listed"} /\ pollAt' = "idle" /\ pend' = {} /\ snap' = [i \in Numbers |-> "none"]
      /\ UNCHANGED <<cached, todo, chan, delivered, unsaved>> /\ todo = {}
    BY DEF ReadFails, Delivery, PollPhases
<1>1. \A i, x : Reported(i, x)' <=> Reported(i, x)
    BY <1>0 DEF Reported
<1>2. PollPhases'
    BY <1>0 DEF Delivery, PollPhases
<1>3. ListedIsReported' /\ PendingIsCommitted'
    BY <1>0 DEF ListedIsReported, PendingIsCommitted
<1>4. CacheIsReported'
    BY <1>0, <1>1 DEF Delivery, CacheIsReported
<1> QED
    BY <1>2, <1>3, <1>4 DEF Delivery

LEMMA HandleDelivers ==
    ASSUME FlowInv, Delivery, NEW unread, NEW mute, NEW broken, HandleEvent(unread, mute, broken)
    PROVE  Delivery'
<1>0. /\ chan # <<>> /\ chan' = Tail(chan) /\ UNCHANGED <<pollAt, snap, todo, pend, unsaved>>
      /\ delivered' = IF Head(chan).issue = 0 THEN delivered ELSE [delivered EXCEPT ![Head(chan).issue] = Head(chan).labels]
      /\ delivered \in [Numbers -> FlowStates \cup {"none"}] /\ Head(chan) \in FlowEvents
    BY HeadTailProperties DEF HandleEvent, pollVars, Delivery, PollPhases, FlowInv, FlowTypeOK
<1>1. \A i \in Numbers : \A x : Reported(i, x) => Reported(i, x)'
    BY <1>0, ReportedThenHandled
<1>2. \A i \in Numbers : cached'[i] \in {cached[i], "none"}
    <2>1. CASE Maintain(unread, mute)
        BY <2>1 DEF Maintain
    <2>2. CASE UNCHANGED <<cached, verdict>>
        BY <2>2
    <2> QED
        BY <2>1, <2>2 DEF HandleEvent
<1>3. \A i : ToReport(i)' <=> ToReport(i)
    BY <1>0 DEF ToReport
<1>4. delivered' \in [Numbers -> FlowStates \cup {"none"}]
    BY <1>0 DEF FlowEvents
<1>5. PollPhases'
    BY <1>0, <1>4 DEF Delivery, PollPhases
<1>6. ListedIsReported'
    BY <1>0, <1>1, <1>3 DEF Delivery, ListedIsReported
<1>7. CacheIsReported'
    BY <1>0, <1>1, <1>2 DEF Delivery, CacheIsReported
<1>8. PendingIsCommitted'
    BY <1>0, <1>2, <1>3 DEF Delivery, PendingIsCommitted
<1> QED
    BY <1>5, <1>6, <1>7, <1>8 DEF Delivery

LEMMA DeliveryStep == FlowInv /\ DeliveryInv /\ [FlowNext]_flowVars => DeliveryInv'
<1> SUFFICES ASSUME FlowInv, DeliveryInv, [FlowNext]_flowVars PROVE DeliveryInv'
    OBVIOUS
<1>1. CASE \E kept \in 0..Len(chan) : Reload(kept)
    BY <1>1 DEF Reload, DeliveryInv
<1>2. CASE reloads' = reloads
    <2> SUFFICES ASSUME reloads = 0 PROVE Delivery'
        BY <1>2 DEF DeliveryInv
    <2>1. Delivery
        BY DEF DeliveryInv
    <2>2. CASE UNCHANGED flowVars \/ BackoffTick \/ \E i \in Numbers : ResyncDue(i) \/ Recover(i) \/ \E s \in FlowStates : Moves(i, s)
        BY <2>1, <2>2, RestKeepsDelivery DEF flowVars, pollVars, BackoffTick, ResyncDue, Recover, Moves
    <2>3. ASSUME NEW i \in Numbers, NEW s \in {"work", "forced", "done", "merged", "closed"}, Moves(i, s) PROVE s \in FlowStates
        BY DEF FlowStates
    <2> QED
        BY <2>1, <2>2, <2>3, <1>1, <1>2, ListIssuesDelivers, ListPRsDelivers, CommitDelivers, EmitDelivers, EmitDoneDelivers,
           ReadFailsDelivers, HandleDelivers DEF FlowNext, Reload, DeliveryInv
<1>3. reloads' = reloads \/ \E kept \in 0..Len(chan) : Reload(kept)
    BY DEF FlowNext, flowVars, ListPRs, EmitDone, BackoffTick, Moves, CommitOp, ResyncDue, Recover, ListIssues, Emit,
       HandleEvent, ReadFails
<1> QED
    BY <1>1, <1>2, <1>3

(***************************************************************************)
(* As long as nothing was lost by a reload, each label set in the cache of *)
(* the poller has reached the state machine once the poll is over and the  *)
(* channel is empty, for any capacity of the channel, truncated listings,  *)
(* failing reads and cache entries deleted meanwhile, unless the write of  *)
(* its own entry failed (poll).                                            *)
(***************************************************************************)
THEOREM CacheDelivered == FlowSpec => []CacheIsDelivered
<1>1. DeliveryInv => CacheIsDelivered
    BY DEF DeliveryInv, Delivery, CacheIsReported, CacheIsDelivered, Reported
<1> QED
    BY <1>1, DeliveryInit, DeliveryStep, VerdictsCorrect, PTL DEF FlowSpec

-----------------------------------------------------------------------------
(* Notifiers: one alert of a kind per window.                              *)

\* An alert of kind k that worker x has taken, and not sent to any sender yet:
\* in its batch, or as the message in hand.
Carries(x, how, k) == IF how = "batch" THEN k \in x.batch ELSE x.kind = k /\ x.left = Senders
Pending(hands, k) == {p \in Pool \X {"batch", "hand"} : Carries(hands[p[1]], p[2], k)}

SenderSet == {Senders[i] : i \in DOMAIN Senders}

HandOK(x) == DOMAIN x = DOMAIN Resting /\ x.left \in Seq(SenderSet) /\ Len(x.left) <= Len(Senders)

\* Each window lets one alert of a kind into the hands of a worker.
Spaced(r, out) ==
    \A k \in Kinds :
        /\ (out[k] + Cardinality(Pending(r.hand, k))) * Window <= r.dedup[k]
        /\ r.dedup[k] <= clock + Window

NotifierOK(r) ==
    /\ DOMAIN r = DOMAIN FreshNotifier /\ r.dedup \in [Kinds -> Nat]
    /\ DOMAIN r.hand = Pool /\ \A w \in Pool : HandOK(r.hand[w])

AlertInv ==
    /\ clock \in Nat /\ serving \in Nat /\ sent \in [Notes -> [Kinds -> Nat]] /\ DOMAIN notifiers = Notes
    /\ \A n \in Notes : NotifierOK(notifiers[n]) /\ Spaced(notifiers[n], sent[n])

LEMMA OneMore == \A a, w \in Nat : (a + 1) * w = a * w + w /\ a * w \in Nat
OBVIOUS

LEMMA NoMore == \A a, b, w \in Nat : a <= b => a * w <= b * w
OBVIOUS

LEMMA PerWindow == \A s, c \in Nat, w \in Nat \ {0} : s * w <= c + w => s <= 1 + c \div w
OBVIOUS

LEMMA PendingFinite == \A hands, k : IsFiniteSet(Pending(hands, k)) /\ Cardinality(Pending(hands, k)) \in Nat
<1>1. IsFiniteSet({"batch", "hand"})
  <2>1. IsFiniteSet({"batch"}) /\ {"batch", "hand"} = {"batch"} \cup {"hand"}
    BY FS_Singleton
  <2> QED
    BY <2>1, FS_AddElement
<1>2. IsFiniteSet(Pool \X {"batch", "hand"})
    BY <1>1, AlertsAssumption, FS_Product
<1>3. \A hands, k : Pending(hands, k) \subseteq Pool \X {"batch", "hand"}
    BY DEF Pending
<1> QED
    BY <1>2, <1>3, FS_Subset, FS_CardinalityType

LEMMA FewerPending ==
    ASSUME NEW hands, NEW others, NEW k, Pending(others, k) \subseteq Pending(hands, k)
    PROVE  Cardinality(Pending(others, k)) <= Cardinality(Pending(hands, k))
BY PendingFinite, FS_Subset

\* A worker changes what it holds of kind k by at most one alert.
LEMMA AtMostOneMore ==
    ASSUME NEW hands, NEW others, NEW k, NEW p, Pending(others, k) \subseteq Pending(hands, k) \cup {p}
    PROVE  Cardinality(Pending(others, k)) <= Cardinality(Pending(hands, k)) + 1
<1>1. IsFiniteSet(Pending(hands, k) \cup {p}) /\ Cardinality(Pending(hands, k) \cup {p}) <= Cardinality(Pending(hands, k)) + 1
    BY PendingFinite, FS_AddElement
<1> QED
    BY <1>1, PendingFinite, FS_Subset, FS_CardinalityType

LEMMA OneForOne ==
    ASSUME NEW hands, NEW others, NEW k, NEW p, NEW q, p \in Pending(hands, k),
           Pending(others, k) \subseteq (Pending(hands, k) \ {p}) \cup {q}
    PROVE  Cardinality(Pending(others, k)) <= Cardinality(Pending(hands, k))
<1> DEFINE rest == Pending(hands, k) \ {p}
<1>1. IsFiniteSet(rest) /\ Cardinality(rest) = Cardinality(Pending(hands, k)) - 1
    BY PendingFinite, FS_RemoveElement
<1>4. Pending(others, k) \subseteq rest \cup {q}
    OBVIOUS
<1> HIDE DEF rest
<1>2. IsFiniteSet(rest \cup {q}) /\ Cardinality(rest \cup {q}) <= Cardinality(rest) + 1 /\ Cardinality(rest \cup {q}) \in Nat
  <2>1. Cardinality(rest) \in Nat
    BY <1>1, FS_CardinalityType
  <2>2. /\ IsFiniteSet(rest \cup {q})
        /\ Cardinality(rest \cup {q}) = IF q \in rest THEN Cardinality(rest) ELSE Cardinality(rest) + 1
    BY <1>1, FS_AddElement
  <2> QED
    BY <2>1, <2>2
<1>3. Cardinality(Pending(others, k)) <= Cardinality(rest \cup {q})
    BY <1>2, <1>4, FS_Subset
<1> QED
    BY <1>1, <1>2, <1>3, PendingFinite

LEMMA OneLess ==
    ASSUME NEW hands, NEW others, NEW k, NEW p, p \in Pending(hands, k), Pending(others, k) \subseteq Pending(hands, k) \ {p}
    PROVE  Cardinality(Pending(others, k)) + 1 <= Cardinality(Pending(hands, k))
<1> DEFINE rest == Pending(hands, k) \ {p}
<1>1. IsFiniteSet(rest) /\ Cardinality(rest) = Cardinality(Pending(hands, k)) - 1
    BY PendingFinite, FS_RemoveElement
<1>2. Cardinality(Pending(others, k)) <= Cardinality(rest)
    BY <1>1, FS_Subset
<1> QED
    BY <1>1, <1>2, PendingFinite

\* As long as no more is sent or held, the spacing stays.
LEMMA SpacedStays ==
    ASSUME NEW r, NEW s, NEW out, NEW now, NEW k \in Kinds, clock \in Nat,
           r.dedup[k] \in Nat, out[k] \in Nat, now[k] \in Nat, s.dedup[k] = r.dedup[k],
           now[k] + Cardinality(Pending(s.hand, k)) <= out[k] + Cardinality(Pending(r.hand, k)),
           (out[k] + Cardinality(Pending(r.hand, k))) * Window <= r.dedup[k]
    PROVE  (now[k] + Cardinality(Pending(s.hand, k))) * Window <= s.dedup[k]
<1>1. Window \in Nat /\ Cardinality(Pending(s.hand, k)) \in Nat /\ Cardinality(Pending(r.hand, k)) \in Nat
    BY AlertsAssumption, PendingFinite
<1> DEFINE a == now[k] + Cardinality(Pending(s.hand, k))
           b == out[k] + Cardinality(Pending(r.hand, k))
<1>2. a \in Nat /\ b \in Nat /\ a <= b
    BY <1>1
<1> HIDE DEF a, b
<1>3. a * Window <= b * Window /\ a * Window \in Nat /\ b * Window \in Nat
    BY <1>1, <1>2, NoMore, OneMore
<1>4. b * Window <= r.dedup[k]
    BY DEF b
<1>5. a * Window <= s.dedup[k]
    BY <1>3, <1>4
<1> QED
    BY <1>5 DEF a

LEMMA AlertInvInit == AlertsInit => AlertInv
<1> SUFFICES ASSUME AlertsInit PROVE AlertInv
    OBVIOUS
<1>1. HandOK(Resting)
    BY AlertsAssumption, EmptySeq, LenProperties DEF HandOK, Resting, SenderSet
<1>2. \A k \in Kinds : Pending(FreshNotifier.hand, k) = {}
  <2> SUFFICES ASSUME NEW k \in Kinds, NEW p \in Pool \X {"batch", "hand"} PROVE ~Carries(FreshNotifier.hand[p[1]], p[2], k)
    BY DEF Pending
  <2>1. FreshNotifier.hand[p[1]] = Resting
    BY DEF FreshNotifier
  <2> QED
    BY <2>1 DEF Carries, Resting, Kinds
<1>3. \A k \in Kinds : Cardinality(Pending(FreshNotifier.hand, k)) = 0
    BY <1>2, FS_EmptySet
<1>4. ASSUME NEW n \in Notes
      PROVE  /\ DOMAIN notifiers[n] = DOMAIN FreshNotifier /\ notifiers[n].dedup = FreshNotifier.dedup
             /\ notifiers[n].hand = FreshNotifier.hand
    BY DEF AlertsInit, FreshNotifier
<1>5. FreshNotifier.dedup = [k \in Kinds |-> 0] /\ FreshNotifier.hand = [w \in Pool |-> Resting]
    BY DEF FreshNotifier
<1>6. \A n \in Notes : NotifierOK(notifiers[n])
    BY <1>1, <1>4, <1>5 DEF NotifierOK
<1>7. \A n \in Notes : Spaced(notifiers[n], sent[n])
  <2>1. Window \in Nat /\ clock = 0 /\ 0 * Window = 0
    BY AlertsAssumption DEF AlertsInit
  <2> SUFFICES ASSUME NEW n \in Notes, NEW k \in Kinds
               PROVE  /\ (sent[n][k] + Cardinality(Pending(notifiers[n].hand, k))) * Window <= notifiers[n].dedup[k]
                      /\ notifiers[n].dedup[k] <= clock + Window
    BY DEF Spaced
  <2>2. sent[n][k] = 0 /\ Cardinality(Pending(notifiers[n].hand, k)) = 0 /\ notifiers[n].dedup[k] = 0
    BY <1>3, <1>4, <1>5 DEF AlertsInit
  <2> QED
    BY <2>1, <2>2
<1> QED
    BY <1>6, <1>7 DEF AlertInv, AlertsInit

\* A step of one notifier.
LEMMA NotifierMoves ==
    ASSUME AlertInv, NEW n \in Notes, NEW r, Becomes(n, r), NotifierOK(r), UNCHANGED <<clock, serving>>,
           sent' \in [Notes -> [Kinds -> Nat]], \A m \in Notes : m # n => sent'[m] = sent[m],
           Spaced(r, sent'[n])
    PROVE  AlertInv'
<1>1. notifiers'[n] = r /\ DOMAIN notifiers' = Notes /\ \A m \in Notes : m # n => notifiers'[m] = notifiers[m]
    BY DEF AlertInv, Becomes
<1>2. \A m \in Notes : NotifierOK(notifiers'[m])
    BY <1>1 DEF AlertInv
<1>3. \A m \in Notes : Spaced(notifiers'[m], sent'[m])
    BY <1>1 DEF AlertInv
<1>4. \A m \in Notes : NotifierOK(notifiers[m])'
    BY <1>2 DEF NotifierOK, HandOK, FreshNotifier, Resting
<1>5. \A m \in Notes : Spaced(notifiers[m], sent[m])'
    BY <1>3 DEF Spaced
<1> QED
    BY <1>1, <1>4, <1>5 DEF AlertInv

\* A step that leaves the window and the hands of the notifier alone.
LEMMA SameHands ==
    ASSUME AlertInv, NEW n \in Notes, NEW r, Becomes(n, r), DOMAIN r = DOMAIN FreshNotifier,
           r.dedup = notifiers[n].dedup, r.hand = notifiers[n].hand, UNCHANGED <<clock, serving, sent>>
    PROVE  AlertInv'
<1>1. NotifierOK(r) /\ Spaced(r, sent'[n])
    BY DEF AlertInv, NotifierOK, Spaced
<1>2. sent' \in [Notes -> [Kinds -> Nat]]
    BY DEF AlertInv
<1> QED
    BY <1>1, <1>2, NotifierMoves

\* Worker w of notifier n holds h now.
LEMMA HandMoves ==
    ASSUME AlertInv, NEW n \in Notes, NEW w \in Pool, NEW h, HandOK(h), Holding(n, w, h), UNCHANGED <<clock, serving>>,
           sent' \in [Notes -> [Kinds -> Nat]], \A m \in Notes : m # n => sent'[m] = sent[m],
           \A k \in Kinds : sent'[n][k] + Cardinality(Pending(Hand(n, w, h), k))
                                <= sent[n][k] + Cardinality(Pending(notifiers[n].hand, k))
    PROVE  AlertInv'
<1> DEFINE r == [notifiers[n] EXCEPT !.hand = Hand(n, w, h)]
<1>0. NotifierOK(notifiers[n]) /\ Spaced(notifiers[n], sent[n])
    BY DEF AlertInv
<1>1. DOMAIN r = DOMAIN FreshNotifier /\ r.hand = Hand(n, w, h) /\ r.dedup = notifiers[n].dedup
    BY <1>0 DEF NotifierOK, FreshNotifier
<1>2. Becomes(n, r)
    BY DEF Holding
<1> HIDE DEF r
<1>3. DOMAIN Hand(n, w, h) = Pool /\ \A v \in Pool : HandOK(Hand(n, w, h)[v])
    BY <1>0 DEF NotifierOK, Hand
<1>4. NotifierOK(r)
    BY <1>0, <1>1, <1>3 DEF NotifierOK
<1>5. Spaced(r, sent'[n])
  <2> SUFFICES ASSUME NEW k \in Kinds
               PROVE  (sent'[n][k] + Cardinality(Pending(r.hand, k))) * Window <= r.dedup[k] /\ r.dedup[k] <= clock + Window
    BY DEF Spaced
  <2>1. sent[n][k] \in Nat /\ sent'[n][k] \in Nat /\ clock \in Nat /\ notifiers[n].dedup[k] \in Nat
    BY <1>0 DEF AlertInv, NotifierOK
  <2>2. (sent[n][k] + Cardinality(Pending(notifiers[n].hand, k))) * Window <= notifiers[n].dedup[k] /\ r.dedup[k] <= clock + Window
    BY <1>0, <1>1 DEF Spaced
  <2>3. sent'[n][k] + Cardinality(Pending(r.hand, k)) <= sent[n][k] + Cardinality(Pending(notifiers[n].hand, k))
    BY <1>1
  <2>4. r.dedup[k] = notifiers[n].dedup[k]
    BY <1>1
  <2> QED
    BY <2>1, <2>2, <2>3, <2>4, SpacedStays
<1> QED
    BY <1>2, <1>4, <1>5, NotifierMoves

\* What w held, and what the others hold.
LEMMA PendingOfHand ==
    ASSUME NEW n \in Notes, NEW w \in Pool, NEW h, DOMAIN notifiers[n].hand = Pool, NEW k, NEW p
    PROVE  p \in Pending(Hand(n, w, h), k) <=>
              /\ p \in Pool \X {"batch", "hand"}
              /\ IF p[1] = w THEN Carries(h, p[2], k) ELSE p \in Pending(notifiers[n].hand, k)
BY DEF Pending, Hand

LEMMA FlushKeeps == ASSUME AlertInv, NEW n \in Notes, NEW w \in Pool, Flush(n, w) PROVE AlertInv'
<1> DEFINE x == notifiers[n].hand[w]
<1>1. PICK kind \in x.batch : Holding(n, w, [batch |-> x.batch \ {kind}, kind |-> kind, left |-> Senders, tries |-> 0])
    BY DEF Flush
<1> DEFINE h == [batch |-> x.batch \ {kind}, kind |-> kind, left |-> Senders, tries |-> 0]
<1>2. x.kind = "none" /\ UNCHANGED <<clock, serving, sent>> /\ NotifierOK(notifiers[n]) /\ sent' \in [Notes -> [Kinds -> Nat]]
    BY DEF Flush, AlertInv
<1>3. HandOK(h)
    BY AlertsAssumption DEF HandOK, Resting, SenderSet
<1>4. ASSUME NEW k \in Kinds PROVE Cardinality(Pending(Hand(n, w, h), k)) <= Cardinality(Pending(notifiers[n].hand, k))
  <2>1. \A p \in Pool \X {"batch", "hand"} : p = <<p[1], p[2]>>
    OBVIOUS
  <2>2. h.batch = x.batch \ {kind} /\ h.kind = kind /\ h.left = Senders
    OBVIOUS
  <2>3. DOMAIN notifiers[n].hand = Pool
    BY <1>2 DEF NotifierOK
  <2> HIDE DEF h
  <2>4. CASE k = kind
    <3>1. <<w, "batch">> \in Pending(notifiers[n].hand, k)
      BY <2>4 DEF Pending, Carries
    <3>2. ASSUME NEW p \in Pending(Hand(n, w, h), k) PROVE p \in (Pending(notifiers[n].hand, k) \ {<<w, "batch">>}) \cup {<<w, "hand">>}
      BY <2>1, <2>2, <2>3, <2>4, <3>2, PendingOfHand DEF Carries
    <3> QED
      BY <3>1, <3>2, OneForOne
  <2>5. CASE k # kind
    <3>1. ASSUME NEW p \in Pending(Hand(n, w, h), k) PROVE p \in Pending(notifiers[n].hand, k)
      <4>1. p \in Pool \X {"batch", "hand"} /\ (p[1] = w => Carries(h, p[2], k)) /\ (p[1] # w => p \in Pending(notifiers[n].hand, k))
        BY <2>3, <3>1, PendingOfHand
      <4>2. Carries(h, p[2], k) => p[2] = "batch" /\ k \in x.batch
        BY <2>2, <2>5, <4>1 DEF Carries
      <4> QED
        BY <4>1, <4>2 DEF Pending, Carries
    <3> QED
      BY <3>1, FewerPending
  <2> QED
    BY <2>4, <2>5
<1>5. \A k \in Kinds : sent'[n][k] + Cardinality(Pending(Hand(n, w, h), k)) <= sent[n][k] + Cardinality(Pending(notifiers[n].hand, k))
  <2> HIDE DEF h
  <2>1. \A k \in Kinds : sent[n][k] \in Nat /\ sent'[n] = sent[n]
    BY <1>2 DEF AlertInv
  <2> QED
    BY <1>4, <2>1, PendingFinite
<1> HIDE DEF h
<1>6. \A m \in Notes : m # n => sent'[m] = sent[m]
    BY <1>2
<1>7. Holding(n, w, h)
    BY <1>1 DEF h
<1> QED
    BY <1>2, <1>3, <1>5, <1>6, <1>7, HandMoves

LEMMA PerKind ==
    ASSUME NEW f \in [Kinds -> Nat], NEW k, NEW v, k \in Kinds => v \in Nat
    PROVE  [f EXCEPT ![k] = v] \in [Kinds -> Nat]
<1>1. CASE k \in Kinds
    BY <1>1
<1>2. CASE k \notin Kinds
  <2>1. [f EXCEPT ![k] = v] = f
    BY <1>2
  <2> QED
    BY <2>1
<1> QED
    BY <1>1, <1>2

LEMMA WindowPassed ==
    ASSUME NEW s \in Nat, NEW p \in Nat, NEW q \in Nat, NEW W \in Nat, NEW d \in Nat, NEW c \in Nat,
           (s + p) * W <= d, d <= c, q <= p + 1
    PROVE  (s + q) * W <= c + W
<1> DEFINE a == s + p
<1>1. a \in Nat /\ s + q \in Nat /\ s + q <= a + 1 /\ a * W <= c /\ a + 1 \in Nat
    OBVIOUS
<1> HIDE DEF a
<1>2. (s + q) * W <= (a + 1) * W
    BY <1>1, NoMore
<1>3. (a + 1) * W = a * W + W /\ a * W \in Nat /\ (s + q) * W \in Nat
    BY <1>1, OneMore
<1> QED
    BY <1>1, <1>2, <1>3

LEMMA TakeKeeps == ASSUME AlertInv, NEW n \in Notes, NEW w \in Pool, Take(n, w) PROVE AlertInv'
<1> DEFINE x == notifiers[n].hand[w]
           kind == Head(notifiers[n].queue)
<1>1. NotifierOK(notifiers[n]) /\ Spaced(notifiers[n], sent[n]) /\ HandOK(x) /\ clock \in Nat /\ sent \in [Notes -> [Kinds -> Nat]]
    BY DEF AlertInv, NotifierOK
<1>2. UNCHANGED <<clock, serving, sent>> /\ x.kind = "none"
    BY DEF Take
<1>3. CASE ShouldDrop(n, kind)
  <2> DEFINE r == [notifiers[n] EXCEPT !.queue = Tail(@)]
  <2>1. Becomes(n, r)
    BY <1>3 DEF Take
  <2>2. DOMAIN r = DOMAIN FreshNotifier /\ r.dedup = notifiers[n].dedup /\ r.hand = notifiers[n].hand
    BY <1>1 DEF NotifierOK, FreshNotifier
  <2> HIDE DEF r
  <2> QED
    BY <1>2, <2>1, <2>2, SameHands
<1>4. CASE ~ShouldDrop(n, kind)
  <2> DEFINE h == [x EXCEPT !.batch = @ \cup {kind}]
             r == [notifiers[n] EXCEPT !.queue = Tail(@), !.dedup = Remembered(n, kind), !.hand = Hand(n, w, h)]
  <2>1. Becomes(n, r)
    BY <1>4 DEF Take
  <2>2. DOMAIN r = DOMAIN FreshNotifier /\ r.dedup = Remembered(n, kind) /\ r.hand = Hand(n, w, h)
    BY <1>1 DEF NotifierOK, FreshNotifier
  <2> HIDE DEF r
  <2>3. HandOK(h) /\ h.batch = x.batch \cup {kind} /\ h.kind = x.kind /\ h.left = x.left
    BY <1>1 DEF HandOK, Resting
  <2>4. h.kind = "none"
    BY <1>2, <2>3
  <2> HIDE DEF h
  <2>5. DOMAIN notifiers[n].hand = Pool /\ notifiers[n].dedup \in [Kinds -> Nat] /\ Window \in Nat
    BY <1>1, AlertsAssumption DEF NotifierOK
  <2>6. Remembered(n, kind) \in [Kinds -> Nat]
    BY <1>1, <2>5, PerKind DEF Remembered
  <2>7. DOMAIN Hand(n, w, h) = Pool /\ \A v \in Pool : HandOK(Hand(n, w, h)[v])
    BY <1>1, <2>3 DEF NotifierOK, Hand
  <2>8. NotifierOK(r)
    BY <2>2, <2>6, <2>7 DEF NotifierOK
  <2>9. \A p \in Pool \X {"batch", "hand"} : p = <<p[1], p[2]>>
    OBVIOUS
  <2>10. ASSUME NEW k \in Kinds
         PROVE  /\ (sent[n][k] + Cardinality(Pending(r.hand, k))) * Window <= r.dedup[k]
                /\ r.dedup[k] <= clock + Window
    <3>1. /\ (sent[n][k] + Cardinality(Pending(notifiers[n].hand, k))) * Window <= notifiers[n].dedup[k]
          /\ notifiers[n].dedup[k] <= clock + Window
      BY <1>1 DEF Spaced
    <3>2. sent[n][k] \in Nat /\ notifiers[n].dedup[k] \in Nat
      BY <1>1, <2>5
    <3>3. ASSUME NEW p \in Pending(Hand(n, w, h), k)
          PROVE  p \in Pending(notifiers[n].hand, k) \/ (p = <<w, "batch">> /\ k = kind)
      <4>1. p \in Pool \X {"batch", "hand"} /\ (p[1] = w => Carries(h, p[2], k)) /\ (p[1] # w => p \in Pending(notifiers[n].hand, k))
        BY <2>5, <3>3, PendingOfHand
      <4>2. Carries(h, p[2], k) => p[2] = "batch" /\ (k \in x.batch \/ k = kind)
        BY <2>3, <2>4, <4>1 DEF Carries, Kinds
      <4> QED
        BY <4>1, <4>2, <2>9 DEF Pending, Carries
    <3>4. CASE k = kind
      <4>0. Pending(Hand(n, w, h), k) \subseteq Pending(notifiers[n].hand, k) \cup {<<w, "batch">>}
        BY <3>3
      <4>1. Cardinality(Pending(Hand(n, w, h), k)) <= Cardinality(Pending(notifiers[n].hand, k)) + 1
        BY <4>0, AtMostOneMore
      <4>2. r.dedup[k] = clock + Window
        BY <2>2, <2>5, <3>4 DEF Remembered
      <4>3. notifiers[n].dedup[k] <= clock
        BY <1>1, <1>4, <3>2, <3>4 DEF ShouldDrop
      <4>4. (sent[n][k] + Cardinality(Pending(Hand(n, w, h), k))) * Window <= clock + Window
        BY <1>1, <2>5, <3>1, <3>2, <4>1, <4>3, WindowPassed, PendingFinite
      <4> QED
        BY <1>1, <2>2, <2>5, <4>2, <4>4
    <3>5. CASE k # kind
      <4>1. r.dedup[k] = notifiers[n].dedup[k]
        BY <2>2, <2>5, <3>5 DEF Remembered
      <4>2. Cardinality(Pending(r.hand, k)) <= Cardinality(Pending(notifiers[n].hand, k))
        BY <2>2, <3>3, <3>5, FewerPending
      <4>3. sent[n][k] + Cardinality(Pending(r.hand, k)) <= sent[n][k] + Cardinality(Pending(notifiers[n].hand, k))
        BY <3>2, <4>2, PendingFinite
      <4> QED
        BY <1>1, <3>1, <3>2, <4>1, <4>3, SpacedStays
    <3> QED
      BY <3>4, <3>5
  <2>11. Spaced(r, sent'[n])
    BY <1>2, <2>10 DEF Spaced
  <2>12. sent' \in [Notes -> [Kinds -> Nat]] /\ \A m \in Notes : m # n => sent'[m] = sent[m]
    BY <1>1, <1>2
  <2> QED
    BY <1>2, <2>1, <2>8, <2>11, <2>12, NotifierMoves
<1> QED
    BY <1>3, <1>4

\* Once a message has gone to its first sender it is not pending any more.
LEMMA AfterSenderHolds ==
    ASSUME NEW x, HandOK(x), x.left # <<>>
    PROVE  /\ HandOK(AfterSender(x)) /\ AfterSender(x).batch = x.batch
           /\ \A k \in Kinds : ~Carries(AfterSender(x), "hand", k)
<1>1. DOMAIN x = {"batch", "kind", "left", "tries"} /\ x.left \in Seq(SenderSet) /\ Len(x.left) <= Len(Senders) /\ Len(Senders) \in Nat
    BY AlertsAssumption, LenProperties DEF HandOK, Resting
<1>2. Tail(x.left) \in Seq(SenderSet) /\ Len(Tail(x.left)) = Len(x.left) - 1 /\ Len(x.left) \in Nat
    BY <1>1, HeadTailProperties, LenProperties
<1>3. CASE Len(x.left) > 1
  <2> DEFINE h == [x EXCEPT !.left = Tail(@), !.tries = 0]
  <2>1. AfterSender(x) = h
    BY <1>3 DEF AfterSender
  <2>2. DOMAIN h = {"batch", "kind", "left", "tries"} /\ h.left = Tail(x.left) /\ h.batch = x.batch
    BY <1>1
  <2> HIDE DEF h
  <2>3. Len(h.left) < Len(Senders) /\ Len(h.left) <= Len(Senders) /\ h.left # Senders
    BY <1>1, <1>2, <2>2
  <2> QED
    BY <1>1, <1>2, <2>1, <2>2, <2>3 DEF HandOK, Resting, Carries
<1>4. CASE ~(Len(x.left) > 1)
  <2> DEFINE h == [x EXCEPT !.kind = "none", !.left = <<>>, !.tries = 0]
  <2>1. AfterSender(x) = h
    BY <1>4 DEF AfterSender
  <2>2. DOMAIN h = {"batch", "kind", "left", "tries"} /\ h.left = <<>> /\ h.batch = x.batch /\ h.kind = "none"
    BY <1>1
  <2> HIDE DEF h
  <2>3. h.left \in Seq(SenderSet) /\ Len(h.left) = 0
    BY <2>2
  <2> QED
    BY <1>1, <2>1, <2>2, <2>3 DEF HandOK, Resting, Carries, Kinds
<1> QED
    BY <1>3, <1>4

LEMMA NoLongerPending ==
    ASSUME NEW n \in Notes, NEW w \in Pool, NotifierOK(notifiers[n]), notifiers[n].hand[w].left # <<>>, NEW k \in Kinds
    PROVE  Pending(Hand(n, w, AfterSender(notifiers[n].hand[w])), k) \subseteq Pending(notifiers[n].hand, k) \ {<<w, "hand">>}
<1> DEFINE x == notifiers[n].hand[w]
           h == AfterSender(x)
<1>1. HandOK(x) /\ DOMAIN notifiers[n].hand = Pool
    BY DEF NotifierOK
<1>2. h.batch = x.batch /\ ~Carries(h, "hand", k)
    BY <1>1, AfterSenderHolds
<1> HIDE DEF h
<1> SUFFICES ASSUME NEW p \in Pending(Hand(n, w, h), k) PROVE p \in Pending(notifiers[n].hand, k) \ {<<w, "hand">>}
    BY DEF h
<1>3. p \in Pool \X {"batch", "hand"} /\ (p[1] = w => Carries(h, p[2], k)) /\ (p[1] # w => p \in Pending(notifiers[n].hand, k))
    BY <1>1, PendingOfHand
<1>4. p[1] = w => p[2] = "batch" /\ k \in x.batch
    BY <1>2, <1>3 DEF Carries
<1>5. p = <<p[1], p[2]>>
    BY <1>3
<1> QED
    BY <1>3, <1>4, <1>5 DEF Pending, Carries

LEMMA SendKeeps == ASSUME AlertInv, NEW n \in Notes, NEW w \in Pool, Send(n, w) PROVE AlertInv'
<1> DEFINE x == notifiers[n].hand[w]
           h == AfterSender(x)
<1>1. NotifierOK(notifiers[n]) /\ HandOK(x) /\ x.left # <<>> /\ UNCHANGED <<clock, serving>> /\ Holding(n, w, h)
      /\ sent \in [Notes -> [Kinds -> Nat]]
    BY DEF AlertInv, NotifierOK, Send
<1>2. HandOK(h)
    BY <1>1, AfterSenderHolds
<1>3. \A k \in Kinds : Pending(Hand(n, w, h), k) \subseteq Pending(notifiers[n].hand, k) \ {<<w, "hand">>}
    BY <1>1, NoLongerPending
<1> HIDE DEF h
<1>4. sent' = IF x.left = Senders THEN [sent EXCEPT ![n] = [sent[n] EXCEPT ![x.kind] = sent[n][x.kind] + 1]] ELSE sent
    BY DEF Send
<1>5. sent' \in [Notes -> [Kinds -> Nat]] /\ \A m \in Notes : m # n => sent'[m] = sent[m]
  <2>1. [sent[n] EXCEPT ![x.kind] = sent[n][x.kind] + 1] \in [Kinds -> Nat]
    <3>1. sent[n] \in [Kinds -> Nat] /\ (x.kind \in Kinds => sent[n][x.kind] + 1 \in Nat)
      BY <1>1
    <3> QED
      BY <3>1, PerKind
  <2> QED
    BY <1>1, <1>4, <2>1
<1>6. ASSUME NEW k \in Kinds
      PROVE  sent'[n][k] + Cardinality(Pending(Hand(n, w, h), k)) <= sent[n][k] + Cardinality(Pending(notifiers[n].hand, k))
  <2>1. sent[n][k] \in Nat
    BY <1>1
  <2>2. CASE x.left = Senders /\ x.kind = k
    <3>1. sent'[n][k] = sent[n][k] + 1
      BY <1>1, <1>4, <2>2
    <3>2. <<w, "hand">> \in Pending(notifiers[n].hand, k)
      BY <2>2 DEF Pending, Carries
    <3>3. Cardinality(Pending(Hand(n, w, h), k)) + 1 <= Cardinality(Pending(notifiers[n].hand, k))
      BY <1>3, <3>2, OneLess
    <3> QED
      BY <2>1, <3>1, <3>3, PendingFinite
  <2>3. CASE ~(x.left = Senders /\ x.kind = k)
    <3>1. sent'[n][k] = sent[n][k]
      BY <1>1, <1>4, <2>3
    <3>2. Cardinality(Pending(Hand(n, w, h), k)) <= Cardinality(Pending(notifiers[n].hand, k))
      BY <1>3, FewerPending
    <3> QED
      BY <2>1, <3>1, <3>2, PendingFinite
  <2> QED
    BY <2>2, <2>3
<1> QED
    BY <1>1, <1>2, <1>5, <1>6, HandMoves

LEMMA SendErrorKeeps == ASSUME AlertInv, NEW n \in Notes, NEW w \in Pool, SendError(n, w) PROVE AlertInv'
<1> DEFINE x == notifiers[n].hand[w]
<1>1. NotifierOK(notifiers[n]) /\ HandOK(x) /\ x.left # <<>> /\ UNCHANGED <<clock, serving, sent>>
      /\ sent \in [Notes -> [Kinds -> Nat]]
    BY DEF AlertInv, NotifierOK, SendError
<1>2. ASSUME NEW h, HandOK(h), Holding(n, w, h), \A k \in Kinds : Pending(Hand(n, w, h), k) \subseteq Pending(notifiers[n].hand, k)
      PROVE  AlertInv'
  <2>1. \A k \in Kinds : Cardinality(Pending(Hand(n, w, h), k)) <= Cardinality(Pending(notifiers[n].hand, k))
    BY <1>2, FewerPending
  <2>2. ASSUME NEW k \in Kinds
        PROVE  sent'[n][k] + Cardinality(Pending(Hand(n, w, h), k)) <= sent[n][k] + Cardinality(Pending(notifiers[n].hand, k))
    <3>1. sent[n][k] \in Nat /\ sent'[n][k] = sent[n][k]
      BY <1>1
    <3> QED
      BY <2>1, <3>1, PendingFinite
  <2>3. sent' \in [Notes -> [Kinds -> Nat]] /\ \A m \in Notes : m # n => sent'[m] = sent[m]
    BY <1>1
  <2> QED
    BY <1>1, <1>2, <2>2, <2>3, HandMoves
<1>3. CASE x.tries + 1 < Attempts /\ ~notifiers[n].over
  <2> DEFINE h == [x EXCEPT !.tries = @ + 1]
  <2>1. Holding(n, w, h)
    BY <1>3 DEF SendError
  <2>2. HandOK(h) /\ h.batch = x.batch /\ h.kind = x.kind /\ h.left = x.left
    BY <1>1 DEF HandOK, Resting
  <2> HIDE DEF h
  <2>3. ASSUME NEW k \in Kinds, NEW p \in Pending(Hand(n, w, h), k) PROVE p \in Pending(notifiers[n].hand, k)
    <3>1. DOMAIN notifiers[n].hand = Pool
      BY <1>1 DEF NotifierOK
    <3>2. p \in Pool \X {"batch", "hand"} /\ (p[1] = w => Carries(h, p[2], k)) /\ (p[1] # w => p \in Pending(notifiers[n].hand, k))
      BY <2>3, <3>1, PendingOfHand
    <3> QED
      BY <2>2, <3>2 DEF Pending, Carries
  <2> QED
    BY <1>2, <2>1, <2>2, <2>3
<1>4. CASE ~(x.tries + 1 < Attempts /\ ~notifiers[n].over)
  <2>1. Holding(n, w, AfterSender(x))
    BY <1>4 DEF SendError
  <2> QED
    BY <1>1, <1>2, <2>1, AfterSenderHolds, NoLongerPending
<1> QED
    BY <1>3, <1>4

LEMMA PumpKeeps == ASSUME AlertInv, NEW n \in Notes, Pump(n) PROVE AlertInv'
<1> DEFINE r == [notifiers[n] EXCEPT !.queue = Enqueued(@, Alerting(n, Head(inbox[n]))),
                                     !.failures = IF Head(inbox[n]) = "failed" THEN 1 ELSE @]
<1>1. Becomes(n, r) /\ UNCHANGED <<clock, serving, sent>> /\ NotifierOK(notifiers[n])
    BY DEF Pump, AlertInv
<1>2. DOMAIN r = DOMAIN FreshNotifier /\ r.dedup = notifiers[n].dedup /\ r.hand = notifiers[n].hand
    BY <1>1 DEF NotifierOK, FreshNotifier
<1> HIDE DEF r
<1> QED
    BY <1>1, <1>2, SameHands

\* A step that only moves time, or a notifier's start and end.
LEMMA WindowStays ==
    ASSUME AlertInv, clock' \in Nat, clock <= clock', serving' \in Nat, sent' = sent, DOMAIN notifiers' = Notes,
           \A n \in Notes : /\ DOMAIN notifiers'[n] = DOMAIN notifiers[n] /\ notifiers'[n].dedup = notifiers[n].dedup
                            /\ notifiers'[n].hand = notifiers[n].hand
    PROVE  AlertInv'
<1>1. \A n \in Notes : NotifierOK(notifiers[n]) /\ Spaced(notifiers[n], sent[n])
    BY DEF AlertInv
<1>2. \A n \in Notes : NotifierOK(notifiers'[n])
    BY <1>1 DEF NotifierOK
<1>3. \A n \in Notes : NotifierOK(notifiers[n])'
    BY <1>2 DEF NotifierOK, HandOK, FreshNotifier, Resting
<1>4. ASSUME NEW n \in Notes, NEW k \in Kinds
      PROVE  /\ (sent'[n][k] + Cardinality(Pending(notifiers'[n].hand, k))) * Window <= notifiers'[n].dedup[k]
             /\ notifiers'[n].dedup[k] <= clock' + Window
  <2>1. /\ (sent[n][k] + Cardinality(Pending(notifiers[n].hand, k))) * Window <= notifiers[n].dedup[k]
        /\ notifiers[n].dedup[k] <= clock + Window
    BY <1>1 DEF Spaced
  <2>2. notifiers[n].dedup[k] \in Nat /\ clock \in Nat /\ Window \in Nat
    BY <1>1, AlertsAssumption DEF AlertInv, NotifierOK
  <2>3. notifiers'[n].dedup[k] <= clock' + Window
    BY <2>1, <2>2
  <2> QED
    BY <2>1, <2>3
<1>5. \A n \in Notes : Spaced(notifiers[n], sent[n])'
    BY <1>4 DEF Spaced, Pending, Carries
<1> QED
    BY <1>3, <1>5 DEF AlertInv

LEMMA AlertInvStep == AlertInv /\ [AlertsNext]_alertVars => AlertInv'
<1> SUFFICES ASSUME AlertInv, [AlertsNext]_alertVars PROVE AlertInv'
    OBVIOUS
<1>0. /\ DOMAIN notifiers = Notes /\ clock \in Nat /\ serving \in Nat
      /\ \A n \in Notes : DOMAIN notifiers[n] = {"on", "over", "queue", "failures", "dedup", "hand"}
    BY DEF AlertInv, NotifierOK, FreshNotifier
<1>1. ASSUME UNCHANGED <<notifiers, sent, clock, serving>> PROVE AlertInv'
    BY <1>0, <1>1, WindowStays
<1>2. CASE UNCHANGED alertVars
    BY <1>1, <1>2 DEF alertVars
<1>3. CASE \E p \in Publishers : Publish(p) \/ OfferEvent(p)
    BY <1>1, <1>3 DEF Publish, OfferEvent
<1>4. CASE \E w \in Watchers : Subscribe(w)
    BY <1>1, <1>4 DEF Subscribe
<1>5. CASE \E s \in Notes \cup Watchers : Unsubscribe(s)
    BY <1>1, <1>5 DEF Unsubscribe
<1>6. CASE StartNotifier
  <2>1. notifiers' = [notifiers EXCEPT ![serving + 1].on = TRUE] /\ UNCHANGED <<clock, serving, sent>>
    BY <1>6 DEF StartNotifier
  <2>2. /\ DOMAIN notifiers' = Notes
        /\ \A n \in Notes : /\ DOMAIN notifiers'[n] = DOMAIN notifiers[n] /\ notifiers'[n].dedup = notifiers[n].dedup
                            /\ notifiers'[n].hand = notifiers[n].hand
    BY <1>0, <2>1
  <2> QED
    BY <1>0, <2>1, <2>2, WindowStays
<1>7. CASE CancelPrevious
  <2>1. notifiers' = [notifiers EXCEPT ![serving].over = TRUE] /\ UNCHANGED <<clock, sent>> /\ serving' \in Nat
    BY <1>0, <1>7 DEF CancelPrevious
  <2>2. /\ DOMAIN notifiers' = Notes
        /\ \A n \in Notes : /\ DOMAIN notifiers'[n] = DOMAIN notifiers[n] /\ notifiers'[n].dedup = notifiers[n].dedup
                            /\ notifiers'[n].hand = notifiers[n].hand
    BY <1>0, <2>1
  <2> QED
    BY <1>0, <2>1, <2>2, WindowStays
<1>8. CASE \E n \in Notes : Pump(n) \/ \E w \in Pool : Take(n, w) \/ Flush(n, w) \/ Send(n, w) \/ SendError(n, w)
    BY <1>8, PumpKeeps, TakeKeeps, FlushKeeps, SendKeeps, SendErrorKeeps
<1>9. CASE Tick
  <2>1. clock' \in Nat /\ clock <= clock' /\ UNCHANGED <<serving, sent, notifiers>>
    BY <1>0, <1>9 DEF Tick
  <2> QED
    BY <1>0, <2>1, WindowStays
<1> QED
    BY <1>2, <1>3, <1>4, <1>5, <1>6, <1>7, <1>8, <1>9 DEF AlertsNext

(***************************************************************************)
(* What a notifier sends and what its workers hold fits in the windows     *)
(* that have begun (shouldDrop).                                           *)
(***************************************************************************)
THEOREM AlertsCorrect == AlertsSpec => []AlertInv
<1> QED
    BY AlertInvInit, AlertInvStep, PTL DEF AlertsSpec

(***************************************************************************)
(* A notifier sends an alert of a kind at most once per window, with any   *)
(* number of workers, senders, batches and retries.                        *)
(***************************************************************************)
THEOREM SentOncePerWindow == AlertsSpec => []OncePerWindow
<1>1. AlertInv => OncePerWindow
  <2> SUFFICES ASSUME AlertInv, NEW n \in Notes, NEW k \in Kinds PROVE sent[n][k] <= 1 + clock \div Window
    BY DEF OncePerWindow
  <2> DEFINE s == sent[n][k]
             c == Cardinality(Pending(notifiers[n].hand, k))
             d == notifiers[n].dedup[k]
  <2>1. s \in Nat /\ clock \in Nat /\ Window \in Nat \ {0} /\ c \in Nat /\ d \in Nat
    BY AlertsAssumption, PendingFinite DEF AlertInv, NotifierOK
  <2>2. (s + c) * Window <= d /\ d <= clock + Window
    BY DEF AlertInv, Spaced
  <2> HIDE DEF s, c, d
  <2>3. s * Window <= (s + c) * Window /\ s * Window \in Nat /\ (s + c) * Window \in Nat
    BY <2>1, NoMore, OneMore
  <2>4. s * Window <= clock + Window
    BY <2>1, <2>2, <2>3
  <2>5. s <= 1 + clock \div Window
    BY <2>1, <2>4, PerWindow
  <2> QED
    BY <2>5 DEF s
<1> QED
    BY <1>1, AlertsCorrect, PTL

-----------------------------------------------------------------------------
(* Session listings: the newest of the newest.                             *)

\* The sessions of S that are newer than s.
Above(S, s) == {t \in S : t > s}

\* A set of naturals has a least element.
LEMMA Least == ASSUME NEW T, T \subseteq Nat, T # {} PROVE \E x \in T : \A y \in T : x <= y
<1>1. \E x \in T : \A y \in T : ~(<<y, x>> \in OpToRel(<, Nat))
    BY NatLessThanWellFounded, WFMin
<1>2. PICK x \in T : \A y \in T : ~(<<y, x>> \in OpToRel(<, Nat))
    BY <1>1
<1>3. \A y \in T : ~(y < x)
    BY <1>2 DEF OpToRel
<1> QED
    BY <1>3

LEMMA AboveFinite ==
    ASSUME NEW S, IsFiniteSet(S), NEW s
    PROVE  IsFiniteSet(Above(S, s)) /\ Cardinality(Above(S, s)) \in Nat
BY FS_Subset, FS_CardinalityType DEF Above

LEMMA FewerAbove ==
    ASSUME NEW S, IsFiniteSet(S), NEW s, NEW T, T \subseteq Above(S, s)
    PROVE  Cardinality(T) \in Nat /\ Cardinality(T) <= Cardinality(Above(S, s))
BY AboveFinite, FS_Subset, FS_CardinalityType

\* Of finitely many sessions that are there at all one is the newest.
LEMMA Greatest ==
    ASSUME NEW C, C \subseteq Nat, IsFiniteSet(C), C # {}
    PROVE  \E t \in C : Above(C, t) = {}
<1> DEFINE T == {Cardinality(Above(C, t)) : t \in C}
<1>1. T \subseteq Nat /\ T # {}
    BY AboveFinite
<1>2. PICK x \in T : \A y \in T : x <= y
  <2> HIDE DEF T
  <2> QED
    BY <1>1, Least
<1>3. PICK t \in C : x = Cardinality(Above(C, t))
    BY <1>2
<1>4. ASSUME NEW u \in Above(C, t) PROVE FALSE
  <2>0. u \in C /\ u > t /\ u \in Nat /\ t \in Nat
    BY <1>4 DEF Above
  <2>1. u \notin Above(C, u) /\ Above(C, u) \subseteq Above(C, t)
    <3>1. ASSUME NEW v \in Above(C, u) PROVE v \in Above(C, t)
      BY <2>0, <3>1 DEF Above
    <3>2. u \notin Above(C, u)
      BY <2>0 DEF Above
    <3> QED
      BY <3>1, <3>2
  <2>2. Cardinality(Above(C, t)) <= Cardinality(Above(C, u))
    BY <1>2, <1>3, <2>0
  <2>3. Cardinality(Above(C, u)) = Cardinality(Above(C, t))
    BY <2>1, <2>2, AboveFinite, FewerAbove
  <2> QED
    BY <1>4, <2>1, <2>3, AboveFinite, FS_Subset
<1> QED
    BY <1>3, <1>4

LEMMA NewestIs == \A S, n : Newest(S, n) = {s \in S : Cardinality(Above(S, s)) < n}
BY DEF Newest, Above

\* Everything above one of the newest is among the newest.
LEMMA NewestIsUpward ==
    ASSUME NEW A, A \subseteq Nat, IsFiniteSet(A), NEW n \in Nat, NEW s \in Newest(A, n), NEW t \in A, t > s
    PROVE  t \in Newest(A, n)
<1>1. Above(A, t) \subseteq Above(A, s) /\ s \in A /\ Cardinality(Above(A, s)) < n
  <2>1. s \in A /\ Cardinality(Above(A, s)) < n
    BY NewestIs
  <2>2. ASSUME NEW u \in Above(A, t) PROVE u \in Above(A, s)
    BY <2>1, <2>2 DEF Above
  <2> QED
    BY <2>1, <2>2
<1>2. Cardinality(Above(A, t)) <= Cardinality(Above(A, s)) /\ Cardinality(Above(A, t)) \in Nat /\ Cardinality(Above(A, s)) \in Nat
    BY <1>1, AboveFinite, FewerAbove
<1> QED
    BY <1>1, <1>2, NewestIs

\* B is a part of A that keeps the n newest.
KeepsNewest(A, B, n) == A \subseteq Nat /\ IsFiniteSet(A) /\ B \subseteq A /\ Newest(A, n) \subseteq B

\* A part that keeps the n newest has the same m newest, for m up to n.
LEMMA NewestOfPart ==
    ASSUME NEW A, NEW B, NEW n \in Nat, KeepsNewest(A, B, n), NEW m \in Nat, m <= n
    PROVE  Newest(B, m) = Newest(A, m)
<1> USE DEF KeepsNewest
<1>0. IsFiniteSet(B)
    BY FS_Subset
<1>1. ASSUME NEW s \in Newest(A, n) PROVE Above(A, s) = Above(B, s)
  <2>1. \A t \in Above(A, s) : t \in B
    BY <1>1, NewestIsUpward DEF Above
  <2> QED
    BY <2>1 DEF Above
<1>2. ASSUME NEW s \in Newest(A, m) PROVE s \in Newest(B, m)
  <2>1. s \in A /\ Cardinality(Above(A, s)) < m /\ Cardinality(Above(A, s)) \in Nat
    BY <1>2, NewestIs, AboveFinite
  <2>2. s \in Newest(A, n)
    BY <2>1, NewestIs
  <2> QED
    BY <1>1, <2>1, <2>2, NewestIs
<1>3. ASSUME NEW s \in Newest(B, m), s \notin Newest(A, n) PROVE FALSE
  <2> DEFINE C == A \ Newest(A, n)
  <2>1. s \in C /\ C \subseteq Nat /\ IsFiniteSet(C) /\ s \in B /\ Cardinality(Above(B, s)) < m
    BY <1>3, FS_Subset, NewestIs
  <2>2. PICK t \in C : Above(C, t) = {}
    <3> HIDE DEF C
    <3> QED
      BY <2>1, Greatest
  <2>3. \A u \in Above(A, t) : u \in B
    BY <2>2 DEF Above
  <2>4. t >= s /\ t \in A /\ t \notin Newest(A, n)
    BY <2>1, <2>2 DEF Above
  <2>5. ASSUME NEW u \in Above(A, t) PROVE u \in Above(B, s)
    BY <2>1, <2>3, <2>4, <2>5 DEF Above
  <2>6. Cardinality(Above(A, t)) >= n
    BY <2>4, NewestIs, AboveFinite
  <2> QED
    BY <1>0, <2>1, <2>5, <2>6, FewerAbove, AboveFinite
<1>4. ASSUME NEW s \in Newest(B, m) PROVE s \in Newest(A, m)
  <2>1. s \in Newest(A, n) /\ s \in A /\ Cardinality(Above(B, s)) < m
    BY <1>3, <1>4, NewestIs
  <2> QED
    BY <1>1, <2>1, NewestIs
<1> QED
    BY <1>2, <1>4

\* There are at most n newest.
LEMMA NewestAreFew ==
    ASSUME NEW A, A \subseteq Nat, IsFiniteSet(A), NEW n \in Nat
    PROVE  IsFiniteSet(Newest(A, n)) /\ Cardinality(Newest(A, n)) \in Nat /\ Cardinality(Newest(A, n)) <= n
<1> DEFINE N == Newest(A, n)
<1>1. N \subseteq A /\ IsFiniteSet(N) /\ Cardinality(N) \in Nat /\ N \subseteq Nat
  <2>1. N \subseteq A
    BY NewestIs
  <2> QED
    BY <2>1, FS_Subset, FS_CardinalityType
<1>2. CASE N = {}
    BY <1>1, <1>2, FS_EmptySet
<1>3. CASE N # {}
  <2>1. PICK t \in N : \A u \in N : t <= u
    <3> HIDE DEF N
    <3> QED
      BY <1>1, <1>3, Least
  <2>2. Cardinality(Above(A, t)) < n /\ IsFiniteSet(Above(A, t)) /\ Cardinality(Above(A, t)) \in Nat /\ t \in Nat
    BY <1>1, <2>1, NewestIs, AboveFinite
  <2>3. N \subseteq Above(A, t) \cup {t}
    BY <1>1, <2>1 DEF Above
  <2>4. /\ IsFiniteSet(Above(A, t) \cup {t})
        /\ Cardinality(Above(A, t) \cup {t}) = IF t \in Above(A, t) THEN Cardinality(Above(A, t)) ELSE Cardinality(Above(A, t)) + 1
    BY <2>2, FS_AddElement
  <2>5. Cardinality(N) <= Cardinality(Above(A, t) \cup {t})
    BY <2>3, <2>4, FS_Subset
  <2>6. Cardinality(Above(A, t) \cup {t}) <= n
    BY <2>2, <2>4
  <2>7. Cardinality(Above(A, t) \cup {t}) \in Nat
    BY <2>4, FS_CardinalityType
  <2> QED
    BY <1>1, <2>5, <2>6, <2>7
<1> QED
    BY <1>1, <1>2, <1>3

LEMMA SumBelow ==
    ASSUME NEW a \in Nat, NEW b \in Nat, NEW c \in Nat, NEW o \in Nat, NEW l \in Nat, a <= b + c, b < l, c <= o
    PROVE  a < o + l
OBVIOUS

\* The page of a part that keeps offset + limit of the newest is the page of
\* the whole.
LEMMA SliceOfPart ==
    ASSUME NEW A, NEW B, NEW o \in Nat, NEW l \in Nat, KeepsNewest(A, B, o + l)
    PROVE  Newest(B \ Newest(B, o), l) = Newest(A \ Newest(A, o), l)
<1> DEFINE n == o + l
           N == Newest(A, o)
<1>0. n \in Nat /\ o <= n /\ l <= l /\ A \subseteq Nat /\ IsFiniteSet(A) /\ B \subseteq A /\ Newest(A, n) \subseteq B
    BY DEF KeepsNewest
<1>1. Newest(B, o) = N
  <2> HIDE DEF n
  <2>1. KeepsNewest(A, B, n)
    BY DEF n
  <2> QED
    BY <1>0, <2>1, NewestOfPart
<1>2. IsFiniteSet(N) /\ Cardinality(N) <= o /\ Cardinality(N) \in Nat
    BY <1>0, NewestAreFew
<1> HIDE DEF N
<1>3. A \ N \subseteq Nat /\ IsFiniteSet(A \ N) /\ B \ N \subseteq A \ N
    BY <1>0, FS_Subset
<1>4. ASSUME NEW s \in Newest(A \ N, l) PROVE s \in B \ N
  <2>1. s \in A \ N /\ Cardinality(Above(A \ N, s)) < l /\ IsFiniteSet(Above(A \ N, s)) /\ Cardinality(Above(A \ N, s)) \in Nat
    BY <1>3, <1>4, NewestIs, AboveFinite
  <2>2. Above(A, s) \subseteq Above(A \ N, s) \cup N
    BY DEF Above
  <2>3. /\ IsFiniteSet(Above(A \ N, s) \cup N)
        /\ Cardinality(Above(A \ N, s) \cup N) = Cardinality(Above(A \ N, s)) + Cardinality(N) - Cardinality(Above(A \ N, s) \cap N)
    BY <1>2, <2>1, FS_Union
  <2>4. Above(A \ N, s) \cap N = {} /\ Cardinality({}) = 0
    BY FS_EmptySet DEF Above
  <2>5. Cardinality(Above(A, s)) <= Cardinality(Above(A \ N, s) \cup N)
    BY <2>2, <2>3, FS_Subset
  <2>6. Cardinality(Above(A, s)) < n
    <3>0. Cardinality(Above(A \ N, s) \cap N) = 0
      BY <2>4
    <3>1. Cardinality(Above(A \ N, s) \cup N) = Cardinality(Above(A \ N, s)) + Cardinality(N)
      BY <1>2, <2>1, <2>3, <3>0
    <3> QED
      BY <1>0, <1>2, <2>1, <2>5, <3>1, AboveFinite, SumBelow
  <2> QED
    BY <1>0, <2>1, <2>6, NewestIs
<1>5. Newest(B \ N, l) = Newest(A \ N, l)
  <2> DEFINE AN == A \ N
             BN == B \ N
  <2>1. KeepsNewest(AN, BN, l)
    BY <1>3, <1>4 DEF KeepsNewest
  <2> HIDE DEF AN, BN
  <2>2. Newest(BN, l) = Newest(AN, l)
    BY <1>0, <2>1, NewestOfPart
  <2> QED
    BY <2>2 DEF AN, BN
<1> QED
    BY <1>1, <1>5 DEF N

\* What the workers of ws send together.
AllRows(ws, p) == UNION {WorkerRows(w, p) : w \in ws}
AllHeld(ws)    == UNION {Held(w) : w \in ws}

LEMMA MergedPage == ASSUME NEW ws, NEW p \in Pages PROVE Slice(AllRows(ws, p), p) = Slice(AllHeld(ws), p)
<1>1. p \in [offset : Nat, limit : Nat]
    BY ProxyAssumption
<1>2. CASE p.limit = 0
    BY <1>2 DEF AllRows, AllHeld, WorkerRows
<1>3. CASE p.limit # 0
  <2> DEFINE A == AllHeld(ws)
             B == AllRows(ws, p)
             o == p.offset
             l == p.limit
             n == o + l
  <2>0. n \in Nat /\ o \in Nat /\ l \in Nat
    BY <1>1
  <2>1. A \subseteq Nat /\ IsFiniteSet(A) /\ \A w : Held(w) \subseteq Nat /\ IsFiniteSet(Held(w))
    <3>1. A \subseteq Sessions /\ \A w : Held(w) \subseteq Sessions
      BY DEF AllHeld, Held
    <3> QED
      BY <3>1, ProxyAssumption, FS_Subset
  <2>2. \A w : WorkerRows(w, p) = Newest(Held(w), n)
    BY <1>3 DEF WorkerRows, Downstream
  <2>3. B \subseteq A
    BY <2>2, NewestIs DEF AllRows, AllHeld
  <2>4. ASSUME NEW s \in Newest(A, n) PROVE s \in B
    <3>1. s \in A /\ Cardinality(Above(A, s)) < n
      BY <2>4, NewestIs
    <3>2. PICK w \in ws : s \in Held(w)
      BY <3>1 DEF AllHeld
    <3>3. Above(Held(w), s) \subseteq Above(A, s)
      BY DEF AllHeld, Above
    <3>4. Cardinality(Above(Held(w), s)) < n
      BY <2>0, <2>1, <3>1, <3>3, FewerAbove, AboveFinite
    <3> QED
      BY <2>2, <3>2, <3>4, NewestIs DEF AllRows
  <2>5. KeepsNewest(A, B, o + l)
    BY <2>1, <2>3, <2>4 DEF KeepsNewest
  <2> HIDE DEF A, B, o, l
  <2>6. Newest(B \ Newest(B, o), l) = Newest(A \ Newest(A, o), l)
    BY <2>0, <2>5, SliceOfPart
  <2> QED
    BY <1>3, <2>6 DEF A, B, o, l, Slice
<1> QED
    BY <1>2, <1>3

\* What a request has merged so far, and what a finished one returns.
ListOK(r) ==
    /\ DOMAIN r = DOMAIN IdleList
    /\ r.at # "idle" => r.page \in Pages
    /\ r.at = "asking" => /\ r.todo \cap r.offline = {} /\ r.offline \subseteq r.asked /\ r.todo \subseteq r.asked
                          /\ r.rows = AllRows(r.asked \ (r.todo \cup r.offline), r.page)
    /\ r.at = "done" /\ r.offline = {} => r.rows = Slice(AllHeld(r.asked), r.page)

\* With a shared database the rows come from there: SinglePod.
ProxyInv ==
    ~SinglePod =>
        /\ DOMAIN list = Lists /\ DOMAIN cache = Pages
        /\ \A l \in Lists : ListOK(list[l])
        /\ \A p \in Pages : cache[p] # NoEntry => cache[p].rows = Slice(AllHeld(cache[p].asked), p)

LEMMA ProxyInvInit == ProxyInit => ProxyInv
BY DEF ProxyInit, ProxyInv, ListOK, IdleList

\* One request becomes r, and the cache only forgets.
LEMMA ListMoves ==
    ASSUME ProxyInv, ~SinglePod, NEW l \in Lists, NEW r, list' = [list EXCEPT ![l] = r], ListOK(r), cache' = cache
    PROVE  ProxyInv'
<1>1. \A m \in Lists : ListOK(list'[m])
    BY DEF ProxyInv
<1>2. \A m \in Lists : ListOK(list[m])'
    BY <1>1 DEF ListOK, IdleList
<1> QED
    BY <1>2 DEF ProxyInv, NoEntry

LEMMA CacheForgets ==
    ASSUME ProxyInv, ~SinglePod, list' = list, DOMAIN cache' = Pages, \A p \in Pages : cache'[p] \in {cache[p], NoEntry}
    PROVE  ProxyInv'
<1>1. \A m \in Lists : ListOK(list[m])'
    BY DEF ProxyInv, ListOK, IdleList
<1>2. \A p \in Pages : cache'[p] # NoEntry => cache'[p] = cache[p]
    OBVIOUS
<1>3. \A p \in Pages : cache'[p] # NoEntry => cache'[p].rows = Slice(AllHeld(cache'[p].asked), p)
    BY <1>2 DEF ProxyInv
<1> QED
    BY <1>1, <1>3 DEF ProxyInv, NoEntry

LEMMA AnswerKeeps == ASSUME ProxyInv, ~SinglePod, NEW l \in Lists, NEW w, Answers(l, w) PROVE ProxyInv'
<1> DEFINE x == list[l]
           r == [x EXCEPT !.todo = @ \ {w}, !.rows = @ \cup WorkerRows(w, x.page)]
<1>1. ListOK(x) /\ x.at = "asking" /\ w \in x.todo /\ list' = [list EXCEPT ![l] = r] /\ cache' = cache
    BY DEF ProxyInv, Answers
<1>2. DOMAIN x = {"at", "page", "todo", "asked", "local", "rows", "offline"}
    BY <1>1 DEF ListOK, IdleList
<1>3. /\ DOMAIN r = DOMAIN x /\ r.at = x.at /\ r.page = x.page /\ r.asked = x.asked /\ r.offline = x.offline
      /\ r.todo = x.todo \ {w} /\ r.rows = x.rows \cup WorkerRows(w, x.page)
    BY <1>2
<1> HIDE DEF r, x
<1>4. x.asked \ (r.todo \cup x.offline) = (x.asked \ (x.todo \cup x.offline)) \cup {w}
    BY <1>1, <1>3 DEF ListOK
<1>5. \A ws : AllRows(ws \cup {w}, x.page) = AllRows(ws, x.page) \cup WorkerRows(w, x.page)
    BY DEF AllRows
<1>6. r.rows = AllRows(r.asked \ (r.todo \cup r.offline), r.page)
    BY <1>1, <1>3, <1>4, <1>5 DEF ListOK
<1>7. ListOK(r)
    BY <1>1, <1>3, <1>6 DEF ListOK
<1> QED
    BY <1>1, <1>7, ListMoves

LEMMA OfflineKeeps == ASSUME ProxyInv, ~SinglePod, NEW l \in Lists, NEW w, IsOffline(l, w) PROVE ProxyInv'
<1> DEFINE x == list[l]
           r == [x EXCEPT !.todo = @ \ {w}, !.offline = @ \cup {w}]
<1>1. ListOK(x) /\ x.at = "asking" /\ w \in x.todo /\ list' = [list EXCEPT ![l] = r] /\ cache' = cache
    BY DEF ProxyInv, IsOffline
<1>2. DOMAIN x = {"at", "page", "todo", "asked", "local", "rows", "offline"}
    BY <1>1 DEF ListOK, IdleList
<1>3. /\ DOMAIN r = DOMAIN x /\ r.at = x.at /\ r.page = x.page /\ r.asked = x.asked /\ r.offline = x.offline \cup {w}
      /\ r.todo = x.todo \ {w} /\ r.rows = x.rows
    BY <1>2
<1> HIDE DEF r, x
<1>4. x.asked \ (r.todo \cup r.offline) = x.asked \ (x.todo \cup x.offline)
    BY <1>1, <1>3
<1>5. ListOK(r)
    BY <1>1, <1>3, <1>4 DEF ListOK
<1> QED
    BY <1>1, <1>5, ListMoves

LEMMA HitKeeps == ASSUME ProxyInv, ~SinglePod, NEW l \in Lists, NEW p \in Pages, CacheHit(l, p) PROVE ProxyInv'
<1> DEFINE x == list[l]
           r == [x EXCEPT !.at = "done", !.page = p, !.rows = cache[p].rows, !.asked = cache[p].asked]
<1>1. ListOK(x) /\ list' = [list EXCEPT ![l] = r] /\ cache' = cache /\ cache[p].rows = Slice(AllHeld(cache[p].asked), p)
    BY DEF ProxyInv, CacheHit
<1>2. DOMAIN x = {"at", "page", "todo", "asked", "local", "rows", "offline"}
    BY <1>1 DEF ListOK, IdleList
<1>3. DOMAIN r = DOMAIN x /\ r.at = "done" /\ r.page = p /\ r.rows = cache[p].rows /\ r.asked = cache[p].asked
    BY <1>2
<1> HIDE DEF r, x
<1>4. ListOK(r)
    BY <1>1, <1>3 DEF ListOK
<1> QED
    BY <1>1, <1>4, ListMoves

LEMMA FanOutKeeps == ASSUME ProxyInv, ~SinglePod, NEW l \in Lists, NEW p \in Pages, FanOut(l, p) PROVE ProxyInv'
<1> DEFINE rowed  == {w \in Workers : reg[w] # "absent"}
           remote == {w \in rowed : w \in live \/ (reg[w] = "url" /\ ~SinglePod)}
           r == [at |-> "asking", page |-> p, todo |-> remote, asked |-> remote, local |-> rowed # remote,
                 rows |-> {}, offline |-> {}]
<1>1. list' = [list EXCEPT ![l] = r] /\ cache' = cache
    BY DEF FanOut
<1>2. AllRows(remote \ (remote \cup {}), p) = {}
    BY DEF AllRows
<1>3. ListOK(r)
  <2> HIDE DEF remote, rowed
  <2> QED
    BY <1>2 DEF ListOK, IdleList
<1> HIDE DEF r
<1> QED
    BY <1>1, <1>3, ListMoves

LEMMA MergeKeeps == ASSUME ProxyInv, ~SinglePod, NEW l \in Lists, Merge(l) PROVE ProxyInv'
<1> DEFINE x == list[l]
           all == x.rows \cup (IF x.local THEN (IF x.page.limit = 0 THEN LocalRows ELSE Newest(LocalRows, Downstream(x.page))) ELSE {})
           page == Slice(all, x.page)
           r == [x EXCEPT !.at = "done", !.rows = page]
<1>1. /\ ListOK(x) /\ x.at = "asking" /\ x.todo = {} /\ list' = [list EXCEPT ![l] = r]
      /\ cache' = IF Cacheable(x) THEN [cache EXCEPT ![x.page] = [rows |-> page, asked |-> x.asked]] ELSE cache
    BY DEF ProxyInv, Merge
<1>2. DOMAIN x = {"at", "page", "todo", "asked", "local", "rows", "offline"} /\ x.page \in Pages
    BY <1>1 DEF ListOK, IdleList
<1>3. all = x.rows
    BY DEF LocalRows, Newest
<1>4. page = Slice(x.rows, x.page)
    BY <1>3
<1>5. DOMAIN r = DOMAIN x /\ r.at = "done" /\ r.page = x.page /\ r.asked = x.asked /\ r.offline = x.offline /\ r.rows = page
    BY <1>2
<1> HIDE DEF r, x, page, all
<1>6. x.offline = {} => page = Slice(AllHeld(x.asked), x.page)
  <2> SUFFICES ASSUME x.offline = {} PROVE page = Slice(AllHeld(x.asked), x.page)
    OBVIOUS
  <2>1. x.asked \ (x.todo \cup x.offline) = x.asked
    BY <1>1
  <2>2. x.rows = AllRows(x.asked, x.page)
    BY <1>1, <2>1 DEF ListOK
  <2> QED
    BY <1>2, <1>4, <2>2, MergedPage
<1>7. ListOK(r)
    BY <1>1, <1>2, <1>5, <1>6 DEF ListOK
<1>8. \A m \in Lists : ListOK(list'[m])
    BY <1>1, <1>7 DEF ProxyInv
<1>9. \A m \in Lists : ListOK(list[m])'
    BY <1>8 DEF ListOK, IdleList
<1>10. DOMAIN list' = Lists /\ DOMAIN cache' = Pages
    BY <1>1 DEF ProxyInv
<1>11. \A p \in Pages : cache'[p] # NoEntry => cache'[p].rows = Slice(AllHeld(cache'[p].asked), p)
  <2>1. CASE Cacheable(x)
    <3>1. page = Slice(AllHeld(x.asked), x.page)
      BY <1>6, <2>1 DEF Cacheable
    <3>2. cache' = [cache EXCEPT ![x.page] = [rows |-> page, asked |-> x.asked]]
      BY <1>1, <2>1
    <3> QED
      BY <1>2, <3>1, <3>2 DEF ProxyInv
  <2>2. CASE ~Cacheable(x)
    BY <1>1, <2>2 DEF ProxyInv
  <2> QED
    BY <2>1, <2>2
<1> QED
    BY <1>9, <1>10, <1>11 DEF ProxyInv, NoEntry

LEMMA ProxyInvStep == ProxyInv /\ [ProxyNext]_proxyVars => ProxyInv'
<1> SUFFICES ASSUME ProxyInv, [ProxyNext]_proxyVars, ~SinglePod PROVE ProxyInv'
    BY DEF ProxyInv
<1>0. DOMAIN cache = Pages
    BY DEF ProxyInv
<1>1. ASSUME list' = list, cache' = cache \/ DropCache \/ (\E p \in Pages : cache' = [cache EXCEPT ![p] = NoEntry]) PROVE ProxyInv'
  <2>1. DOMAIN cache' = Pages /\ \A p \in Pages : cache'[p] \in {cache[p], NoEntry}
    BY <1>0, <1>1 DEF DropCache
  <2> QED
    BY <1>1, <2>1, CacheForgets
<1>2. CASE UNCHANGED proxyVars
    BY <1>1, <1>2 DEF proxyVars
<1>3. CASE \E w \in Workers : UnregisterWorker(w) \/ TunnelFlips(w) \/ AuditFlips(w)
    BY <1>1, <1>3 DEF UnregisterWorker, TunnelFlips, AuditFlips
<1>4. CASE \E w \in Workers, k \in {"bare", "url"} : \E running \in SUBSET Held(w) : RegisterWorker(w, k, running)
    BY <1>1, <1>4 DEF RegisterWorker
<1>5. CASE \E s \in Sessions : AnnounceSession(s)
    BY <1>1, <1>5 DEF AnnounceSession
<1>6. CASE \E l \in Lists, p \in Pages : CacheHit(l, p) \/ FanOut(l, p)
    BY <1>6, HitKeeps, FanOutKeeps
<1>7. CASE \E p \in Pages : CacheExpires(p)
    BY <1>1, <1>7 DEF CacheExpires
<1>8. CASE \E l \in Lists, w \in Workers : Answers(l, w) \/ IsOffline(l, w)
    BY <1>8, AnswerKeeps, OfflineKeeps
<1>9. CASE \E l \in Lists : Merge(l)
    BY <1>9, MergeKeeps
<1> QED
    BY <1>2, <1>3, <1>4, <1>5, <1>6, <1>7, <1>8, <1>9 DEF ProxyNext

(***************************************************************************)
(* A listing has the newest rows of the workers that answered, and a kept  *)
(* result is a whole page (listings of the session proxy).                 *)
(***************************************************************************)
THEOREM ListingsCorrect == ProxySpec => []ProxyInv
<1> QED
    BY ProxyInvInit, ProxyInvStep, PTL DEF ProxySpec

(***************************************************************************)
(* A page without an offline worker is the page of all sessions, although  *)
(* each worker sends offset + limit rows only, for any number of workers,  *)
(* sessions and pages.                                                     *)
(***************************************************************************)
THEOREM PagesAreGlobal == ProxySpec => []PageIsGlobal
<1>1. ProxyInv => PageIsGlobal
    BY DEF ProxyInv, ListOK, PageIsGlobal, AllHeld
<1> QED
    BY <1>1, ListingsCorrect, PTL

\* A route leads to the worker that has the session: it is written by that
\* worker's own registration or announcement, and never changed.
RoutesAreOwners == \A s \in Sessions : route[s] \in {Nobody, OwnerOf[s]}

LEMMA RoutesStep == RoutesAreOwners /\ [ProxyNext]_proxyVars => RoutesAreOwners'
<1> SUFFICES ASSUME RoutesAreOwners, [ProxyNext]_proxyVars PROVE RoutesAreOwners'
    OBVIOUS
<1>1. ASSUME NEW w \in Workers, NEW kind, NEW running \in SUBSET Held(w), RegisterWorker(w, kind, running) PROVE RoutesAreOwners'
    BY <1>1 DEF RegisterWorker, RoutesAreOwners, Held
<1>2. ASSUME NEW s \in Sessions, AnnounceSession(s) PROVE RoutesAreOwners'
    BY <1>2 DEF AnnounceSession, RoutesAreOwners
<1>3. CASE UNCHANGED route
    BY <1>3 DEF RoutesAreOwners
<1> QED
    BY <1>1, <1>2, <1>3 DEF ProxyNext, proxyVars, UnregisterWorker, TunnelFlips, AuditFlips, CacheHit, FanOut, CacheExpires,
       Answers, IsOffline, Merge

(***************************************************************************)
(* A session that was announced is read from its worker as soon as that    *)
(* has a tunnel or an answering audit server, whatever it had when it      *)
(* registered and however often that changed (Resolver.Resolve).           *)
(***************************************************************************)
THEOREM AnnouncedIsRead == ProxySpec => []OwnerAnswers
<1>1. ProxyInit => RoutesAreOwners
    BY DEF ProxyInit, RoutesAreOwners
<1>2. RoutesAreOwners => OwnerAnswers
  <2> SUFFICES ASSUME RoutesAreOwners, NEW s \in Sessions, NEW w, w = OwnerOf[s], route[s] # Nobody, reg[w] # "absent",
                      w \in live \/ (reg[w] = "url" /\ w \in reachable)
               PROVE  Detail(s) = s
    BY DEF OwnerAnswers
  <2>1. route[s] = w /\ s \in Held(w)
    BY DEF RoutesAreOwners, Held
  <2>2. CASE w \in live
    BY <2>1, <2>2 DEF Detail, Resolve
  <2>3. CASE w \notin live
    BY <2>1, <2>3 DEF Detail, Resolve
  <2> QED
    BY <2>2, <2>3
<1> QED
    BY <1>1, <1>2, RoutesStep, PTL DEF ProxySpec

-----------------------------------------------------------------------------
(* Hooks: one pool at a time.                                              *)

HookCallers == Reloaders \cup {"stop"}

\* No goroutine of a hook is left.
NoHands == \A g \in Gens, h \in HookNames : ~Alive(hand[g][h])

HandsOK ==
    /\ DOMAIN hand = Gens
    /\ \A g \in Gens : DOMAIN hand[g] = HookNames /\ \A h \in HookNames : DOMAIN hand[g][h] = {"at", "ev", "ch"}

\* Reloads and Stop come one after the other.
OneTearDown ==
    /\ \A c, d \in HookCallers : caller[c] \in UnderWay /\ caller[d] \in UnderWay => c = d
    /\ \A c \in HookCallers : caller[c] \in UnderWay /\ caller[c] # "replaced" => started
    /\ \A c \in HookCallers : caller[c] = "returned" => NoHands

\* Only the pool of the current bindings has goroutines.
OnePool ==
    /\ \A g \in Gens, h \in HookNames : g # gen => ~Alive(hand[g][h])
    /\ ~started => NoHands

HookInv ==
    /\ gen \in Gens /\ DOMAIN caller = HookCallers /\ HandsOK
    /\ ~overlapped => OneTearDown /\ OnePool

LEMMA HookInvInit == HookInit => HookInv
<1> SUFFICES ASSUME HookInit PROVE HookInv
    OBVIOUS
<1>1. gen \in Gens /\ DOMAIN caller = HookCallers /\ \A c \in HookCallers : caller[c] = "idle"
    BY HookAssumption DEF HookInit, Gens, HookCallers
<1>2. HandsOK /\ NoHands
    BY DEF HookInit, HandsOK, NoHands, Unstarted, Alive
<1>3. OneTearDown /\ OnePool
    BY <1>1, <1>2 DEF OneTearDown, OnePool, UnderWay, NoHands
<1> QED
    BY <1>1, <1>2, <1>3 DEF HookInv

\* A goroutine that was alive becomes x.
LEMMA HandStep ==
    ASSUME HookInv, NEW g \in Gens, NEW h \in HookNames, NEW x, Alive(hand[g][h]), Serving(g, h, x),
           DOMAIN x = {"at", "ev", "ch"}, UNCHANGED <<gen, started, overlapped>>,
           DOMAIN caller' = HookCallers,
           \A c \in HookCallers : caller'[c] = caller[c] \/ (caller[c] = "waiting" /\ caller'[c] = "released")
    PROVE  HookInv'
<1>1. /\ DOMAIN hand' = Gens /\ hand'[g][h] = x /\ DOMAIN hand'[g] = HookNames
      /\ \A i \in Gens, k \in HookNames : i # g \/ k # h => hand'[i][k] = hand[i][k]
      /\ \A i \in Gens : i # g => hand'[i] = hand[i]
    BY DEF HookInv, HandsOK, Serving
<1>2. HandsOK'
    BY <1>1 DEF HookInv, HandsOK
<1>3. ASSUME ~overlapped PROVE OneTearDown' /\ OnePool'
  <2>1. OneTearDown /\ OnePool /\ ~NoHands /\ started /\ g = gen
    BY <1>3 DEF HookInv, NoHands, OnePool
  <2>2. \A c \in HookCallers : caller[c] # "returned"
    BY <2>1 DEF OneTearDown
  <2>3. \A c \in HookCallers : caller'[c] # "returned" /\ (caller'[c] \in UnderWay <=> caller[c] \in UnderWay)
    BY <2>2 DEF UnderWay
  <2>4. OneTearDown'
    BY <2>1, <2>3 DEF OneTearDown
  <2>5. OnePool'
    BY <1>1, <2>1 DEF OnePool
  <2> QED
    BY <2>4, <2>5
<1> QED
    BY <1>2, <1>3 DEF HookInv

\* A step that leaves the goroutines alone.
LEMMA CallerStep ==
    ASSUME HookInv, UNCHANGED <<gen, started, hand>>, DOMAIN caller' = HookCallers, ~overlapped' => OneTearDown' /\ ~overlapped
    PROVE  HookInv'
<1>1. HandsOK'
    BY DEF HookInv, HandsOK
<1>2. ~overlapped => OnePool'
    BY DEF HookInv, OnePool, NoHands, Alive
<1> QED
    BY <1>1, <1>2 DEF HookInv

LEMMA ReleaseIs ==
    ASSUME caller' = Release, DOMAIN caller = HookCallers
    PROVE  /\ DOMAIN caller' = HookCallers
           /\ \A c \in HookCallers : caller'[c] = caller[c] \/ (caller[c] = "waiting" /\ caller'[c] = "released")
<1>1. CASE caller' = caller
    BY <1>1
<1>2. CASE caller' = [c \in DOMAIN caller |-> IF caller[c] = "waiting" THEN "released" ELSE caller[c]]
    BY <1>2
<1> QED
    BY <1>1, <1>2 DEF Release

\* A caller leaves, or moves on while the pool stays.
LEMMA CallerMoves ==
    ASSUME HookInv, UNCHANGED <<gen, started, hand, overlapped>>, DOMAIN caller' = HookCallers,
           \A c \in HookCallers :
              \/ caller'[c] = caller[c] \/ caller'[c] \notin UnderWay
              \/ caller[c] \in {"waiting", "released"} /\ (caller'[c] = "released" \/ (caller'[c] = "returned" /\ NoHands))
    PROVE  HookInv'
<1>1. ASSUME ~overlapped PROVE OneTearDown'
  <2>1. OneTearDown
    BY <1>1 DEF HookInv
  <2>2. \A c \in HookCallers : /\ caller'[c] \in UnderWay => caller[c] \in UnderWay
                               /\ caller'[c] = "returned" => NoHands
                               /\ caller'[c] \in UnderWay /\ caller'[c] # "replaced" => caller[c] # "replaced"
    BY <2>1 DEF UnderWay, OneTearDown
  <2>3. NoHands => NoHands'
    BY DEF NoHands, Alive
  <2> QED
    BY <2>1, <2>2, <2>3 DEF OneTearDown
<1> QED
    BY <1>1, CallerStep

LEMMA TearDownKeeps ==
    ASSUME HookInv, NEW c \in HookCallers, TearDown(c), UNCHANGED <<gen, started, hand>>, NEW v,
           caller' = [caller EXCEPT ![c] = v], v \in {"waiting", "released"} => started, v \in {"waiting", "released", "done"}
    PROVE  HookInv'
<1>1. DOMAIN caller' = HookCallers /\ caller'[c] = v /\ \A d \in HookCallers : d # c => caller'[d] = caller[d]
    BY DEF HookInv
<1>2. ASSUME ~overlapped' PROVE OneTearDown' /\ ~overlapped
  <2>1. ~overlapped /\ \A d \in HookCallers : caller[d] \notin UnderWay
    BY <1>2 DEF TearDown, HookInv
  <2>2. \A d \in HookCallers : caller'[d] \in UnderWay => d = c
    BY <1>1, <2>1
  <2>3. \A d \in HookCallers : caller'[d] # "returned"
    BY <1>1, <2>1 DEF UnderWay
  <2> QED
    BY <1>1, <2>1, <2>2, <2>3 DEF OneTearDown, UnderWay
<1> QED
    BY <1>1, <1>2, CallerStep

LEMMA StartPoolKeeps ==
    ASSUME HookInv, StartPool, UNCHANGED <<gen, overlapped>>, DOMAIN caller' = HookCallers,
           \A c \in HookCallers : caller'[c] = caller[c] \/ caller'[c] \notin UnderWay
    PROVE  HookInv'
<1>1. ~started /\ started' = TRUE /\ hand' = [hand EXCEPT ![gen] = [h \in HookNames |-> Idle(gen)]]
    BY DEF StartPool
<1>2. /\ DOMAIN hand' = Gens /\ \A g \in Gens : g # gen => hand'[g] = hand[g]
      /\ hand'[gen] = [h \in HookNames |-> Idle(gen)]
    BY <1>1 DEF HookInv, HandsOK
<1>3. HandsOK'
    BY <1>2 DEF HookInv, HandsOK, Idle
<1>4. ASSUME ~overlapped PROVE OneTearDown' /\ OnePool'
  <2>1. OneTearDown /\ OnePool
    BY <1>4 DEF HookInv
  <2>2. \A c \in HookCallers : caller'[c] # "returned"
    BY <1>1, <2>1 DEF OneTearDown, UnderWay
  <2>3. OneTearDown'
    BY <1>1, <2>1, <2>2 DEF OneTearDown
  <2>4. OnePool'
    BY <1>1, <1>2, <2>1 DEF OnePool
  <2> QED
    BY <2>3, <2>4
<1> QED
    BY <1>3, <1>4 DEF HookInv

LEMMA ReplaceKeeps == ASSUME HookInv, NEW r \in Reloaders, ReloadReplaces(r) PROVE HookInv'
<1>1. /\ caller[r] = "returned" /\ gen' = gen + 1 /\ started' = FALSE /\ caller' = [caller EXCEPT ![r] = "replaced"]
      /\ UNCHANGED <<hand, overlapped>> /\ gen < MaxGens /\ r \in HookCallers
    BY DEF ReloadReplaces, HookCallers
<1>2. gen' \in Gens /\ DOMAIN caller' = HookCallers
    BY <1>1, HookAssumption DEF HookInv, Gens
<1>3. HandsOK'
    BY <1>1 DEF HookInv, HandsOK
<1>4. ASSUME ~overlapped PROVE OneTearDown' /\ OnePool'
  <2>1. OneTearDown /\ NoHands
    BY <1>1, <1>4 DEF HookInv, OneTearDown
  <2>2. NoHands'
    BY <1>1, <2>1 DEF NoHands, Alive
  <2>3. caller'[r] = "replaced" /\ \A d \in HookCallers : d # r => caller'[d] = caller[d] /\ caller[d] \notin UnderWay
    BY <1>1, <2>1 DEF HookInv, OneTearDown, UnderWay
  <2>4. OneTearDown'
    BY <2>2, <2>3 DEF OneTearDown
  <2> QED
    BY <2>2, <2>4 DEF OnePool, NoHands
<1> QED
    BY <1>1, <1>2, <1>3, <1>4 DEF HookInv

LEMMA HookInvStep == HookInv /\ [HookNext]_hookVars => HookInv'
<1> SUFFICES ASSUME HookInv, [HookNext]_hookVars PROVE HookInv'
    OBVIOUS
<1>0. DOMAIN caller = HookCallers /\ "stop" \in HookCallers /\ Reloaders \subseteq HookCallers /\ HandsOK
    BY DEF HookInv, HookCallers
<1>1. ASSUME UNCHANGED <<gen, started, hand, overlapped, caller>> PROVE HookInv'
    BY <1>0, <1>1, CallerMoves
<1>2. CASE UNCHANGED hookVars
    BY <1>1, <1>2 DEF hookVars
<1>3. CASE \E e \in HookEvents : PublishEvent(e)
    BY <1>1, <1>3 DEF PublishEvent
<1>4. CASE Boot
    BY <1>0, <1>4, StartPoolKeeps DEF Boot
<1>5. CASE StopBegins
  <2> DEFINE v == IF started /\ ~stopped THEN IF PoolIsGone THEN "released" ELSE "waiting" ELSE "done"
  <2>1. v \in {"waiting", "released", "done"} /\ (v \in {"waiting", "released"} => started)
    OBVIOUS
  <2>2. TearDown("stop") /\ caller' = [caller EXCEPT !["stop"] = v] /\ UNCHANGED <<gen, started, hand>>
    BY <1>5 DEF StopBegins
  <2> HIDE DEF v
  <2> QED
    BY <1>0, <2>1, <2>2, TearDownKeeps
<1>6. CASE StopReturns
    BY <1>0, <1>6, CallerMoves DEF StopReturns, UnderWay
<1>7. CASE \E g \in Gens : FanOutEvent(g)
    BY <1>1, <1>7 DEF FanOutEvent
<1>8. CASE \E g \in Gens : FanLeaves(g)
  <2>1. caller' = Release /\ UNCHANGED <<gen, started, hand, overlapped>>
    BY <1>8 DEF FanLeaves
  <2> QED
    BY <1>0, <2>1, ReleaseIs, CallerMoves
<1>9. ASSUME NEW g \in Gens, NEW h \in HookNames, TakeSlot(g, h) PROVE HookInv'
  <2>1. PICK e \in slot[g][h] : Serving(g, h, [hand[g][h] EXCEPT !.at = "busy", !.ev = e])
    BY <1>9 DEF TakeSlot
  <2> DEFINE x == [hand[g][h] EXCEPT !.at = "busy", !.ev = e]
  <2>2. DOMAIN x = {"at", "ev", "ch"} /\ Alive(hand[g][h]) /\ UNCHANGED <<gen, started, overlapped, caller>>
    BY <1>0, <1>9 DEF TakeSlot, HandsOK, Alive
  <2>3. Serving(g, h, x)
    BY <2>1
  <2> HIDE DEF x
  <2> QED
    BY <1>0, <2>2, <2>3, HandStep
<1>10. ASSUME NEW g \in Gens, NEW h \in HookNames, HandLeaves(g, h) PROVE HookInv'
  <2> DEFINE x == [hand[g][h] EXCEPT !.at = "gone"]
  <2>1. DOMAIN x = {"at", "ev", "ch"} /\ Alive(hand[g][h])
    BY <1>0, <1>10 DEF HandLeaves, HandsOK, Alive
  <2>2. Serving(g, h, x) /\ caller' = Release /\ UNCHANGED <<gen, started, overlapped>>
    BY <1>10 DEF HandLeaves
  <2> HIDE DEF x
  <2> QED
    BY <1>0, <2>1, <2>2, ReleaseIs, HandStep
<1>11. ASSUME NEW g \in Gens, NEW h \in HookNames, NEW result, ActionEnds(g, h, result) PROVE HookInv'
  <2>1. Serving(g, h, Idle(gen)) /\ Alive(hand[g][h]) /\ UNCHANGED <<gen, started, overlapped, caller>>
    BY <1>11 DEF ActionEnds, Alive
  <2>2. DOMAIN Idle(gen) = {"at", "ev", "ch"}
    BY DEF Idle
  <2> QED
    BY <1>0, <2>1, <2>2, HandStep
<1>12. ASSUME NEW r \in Reloaders, ReloadBegins(r) PROVE HookInv'
  <2> DEFINE v == IF PoolIsGone THEN "released" ELSE "waiting"
  <2>1. v \in {"waiting", "released", "done"} /\ started
    BY <1>12 DEF ReloadBegins
  <2>2. TearDown(r) /\ caller' = [caller EXCEPT ![r] = v] /\ UNCHANGED <<gen, started, hand>>
    BY <1>12 DEF ReloadBegins
  <2> HIDE DEF v
  <2> QED
    BY <1>0, <2>1, <2>2, TearDownKeeps
<1>13. ASSUME NEW r \in Reloaders, ReloadReturns(r) PROVE HookInv'
  <2>1. /\ caller[r] = "released" /\ NoHands /\ caller' = [caller EXCEPT ![r] = "returned"]
        /\ UNCHANGED <<gen, started, hand, overlapped>>
    BY <1>13 DEF ReloadReturns, PoolIsGone, NoHands
  <2> QED
    BY <1>0, <2>1, CallerMoves
<1>14. ASSUME NEW r \in Reloaders, ReloadStarts(r) PROVE HookInv'
  <2>1. caller' = [caller EXCEPT ![r] = "done"] /\ UNCHANGED <<gen, overlapped>>
    BY <1>14 DEF ReloadStarts
  <2>2. DOMAIN caller' = HookCallers /\ \A c \in HookCallers : caller'[c] = caller[c] \/ caller'[c] \notin UnderWay
    BY <1>0, <2>1 DEF UnderWay
  <2>3. CASE started
    BY <1>14, <2>1, <2>2, <2>3, CallerMoves DEF ReloadStarts
  <2>4. CASE ~started
    BY <1>14, <2>1, <2>2, <2>4, StartPoolKeeps DEF ReloadStarts
  <2> QED
    BY <2>3, <2>4
<1>15. CASE \E c \in Reloaders \cup {"stop"} : WaitPanics(c)
    BY <1>0, <1>15, CallerMoves DEF WaitPanics, UnderWay
<1> QED
    BY <1>2, <1>3, <1>4, <1>5, <1>6, <1>7, <1>8, <1>9, <1>10, <1>11, <1>12, <1>13, <1>14, <1>15, ReplaceKeeps DEF HookNext

(***************************************************************************)
(* As long as no two teardowns overlap, the goroutines of hooks all belong *)
(* to one pool, and none is left when a reload replaces the bindings.      *)
(***************************************************************************)
THEOREM PoolsCorrect == HookSpec => []HookInv
<1> QED
    BY HookInvInit, HookInvStep, PTL DEF HookSpec

(***************************************************************************)
(* The action of a hook never runs twice at once, across any number of     *)
(* reloads that do not overlap (Reload waits for the pool).                *)
(***************************************************************************)
THEOREM HooksRunOnce == HookSpec => []OneRunPerHook
<1>1. HookInv => OneRunPerHook
  <2> SUFFICES ASSUME HookInv, ~overlapped, NEW h \in HookNames
               PROVE  Cardinality({g \in Gens : hand[g][h].at = "busy"}) <= 1
    BY DEF OneRunPerHook
  <2>1. {g \in Gens : hand[g][h].at = "busy"} \subseteq {gen}
    BY DEF HookInv, OnePool, Alive
  <2>2. IsFiniteSet({gen}) /\ Cardinality({gen}) = 1
    BY FS_Singleton
  <2>3. \A S \in SUBSET {gen} : Cardinality(S) <= Cardinality({gen})
    BY <2>2, FS_Subset
  <2> QED
    BY <2>1, <2>2, <2>3
<1> QED
    BY <1>1, PoolsCorrect, PTL

-----------------------------------------------------------------------------
(* Cycle detection, for any declarations among any set of issues.          *)

(***************************************************************************)
(* The search keeps the path from the root on its stack.                   *)
(***************************************************************************)
Positions == 1 .. Len(stack)

SearchTypeOK ==
    /\ entries \in [Open -> SUBSET EntryForms] /\ finished \subseteq Open
    /\ colour \in [Open -> {"white", "gray", "black"}]
    /\ stack \in Seq(Open) /\ left \in [Open -> SUBSET Open]
    /\ marked \subseteq Open /\ searching \in BOOLEAN

StackIsPath ==
    /\ \A a, b \in Positions : stack[a] = stack[b] => a = b
    /\ \A i \in Open : colour[i] = "gray" <=> \E a \in Positions : stack[a] = i
    /\ \A a, b \in Positions : a < b => stack[b] \in Reaches(stack[a])

LeftIsLeft == \A i \in Open : left[i] \subseteq Successors(i)

MarkedIsOnCycle == \A i \in marked : i \in Reaches(i)

\* What the visit of an issue that is not on a cycle has looked at is black,
\* but for the issue it is visiting now.
LookedAt ==
    /\ \A k \in Open \ marked : colour[k] = "black" => \A n \in Successors(k) : colour[n] = "black"
    /\ \A a \in Positions : stack[a] \notin marked =>
           \A n \in Successors(stack[a]) \ left[stack[a]] :
               colour[n] = "black" \/ (a < Len(stack) /\ n = stack[a + 1])

\* Issues that were left without being marked are no circle: one of them
\* depends on none of the others.
BlackHasSink ==
    \A S \in SUBSET Open :
        S # {} /\ (\A k \in S : colour[k] = "black" /\ k \notin marked)
            => \E k \in S : Successors(k) \cap S = {}

AllBlack == ~searching => \A n \in Open : colour[n] = "black"

SearchInv ==
    /\ SearchTypeOK /\ StackIsPath /\ LeftIsLeft /\ MarkedIsOnCycle
    /\ LookedAt /\ BlackHasSink /\ AllBlack

(* What depends on what.                                                   *)

LEMMA ReachesIsClosed ==
    ASSUME NEW i \in Open, NEW k \in Reaches(i)
    PROVE  Successors(i) \subseteq Reaches(i) /\ Successors(k) \subseteq Reaches(i)
BY DEF Reaches, Successors

LEMMA ReachesIsLeast ==
    ASSUME NEW i \in Open, NEW S \in SUBSET Open,
           Successors(i) \subseteq S, \A k \in S : Successors(k) \subseteq S
    PROVE  Reaches(i) \subseteq S
BY DEF Reaches

LEMMA SuccessorIsReached ==
    ASSUME NEW i \in Open
    PROVE  Successors(i) \subseteq Reaches(i) /\ Reaches(i) \subseteq Open /\ Successors(i) \subseteq Open
BY DEF Reaches, Successors

LEMMA ReachesTransitive ==
    ASSUME NEW i \in Open, NEW j \in Reaches(i)
    PROVE  Reaches(j) \subseteq Reaches(i)
<1>1. Reaches(i) \subseteq Open /\ j \in Open
    BY SuccessorIsReached
<1>2. Successors(j) \subseteq Reaches(i) /\ \A k \in Reaches(i) : Successors(k) \subseteq Reaches(i)
    BY ReachesIsClosed
<1> QED
    BY <1>1, <1>2, ReachesIsLeast

\* The first step of the way.
LEMMA ReachesThrough ==
    ASSUME NEW i \in Open, NEW j \in Reaches(i)
    PROVE  \E n \in Successors(i) : j = n \/ j \in Reaches(n)
<1> DEFINE S == {x \in Open : \E n \in Successors(i) : x = n \/ x \in Reaches(n)}
<1>1. Successors(i) \subseteq S
    BY SuccessorIsReached
<1>2. ASSUME NEW k \in S PROVE Successors(k) \subseteq S
    <2>1. PICK n \in Successors(i) : k = n \/ k \in Reaches(n)
        BY <1>2
    <2>2. n \in Open /\ k \in Open
        BY SuccessorIsReached, <1>2
    <2>3. Successors(k) \subseteq Reaches(n)
        BY <2>1, <2>2, SuccessorIsReached, ReachesIsClosed
    <2> QED
        BY <2>1, <2>2, <2>3, SuccessorIsReached
<1>3. Reaches(i) \subseteq S
    BY <1>1, <1>2, ReachesIsLeast
<1> QED
    BY <1>3

(* The search.                                                             *)

LEMMA LowestIsMember ==
    ASSUME NEW S, S \subseteq Open, S # {}
    PROVE  Lowest(S) \in S
<1>1. S \subseteq Nat
    BY CyclesAssumption
<1>2. \E n \in S : \A m \in S : n <= m
    BY <1>1, Least
<1> QED
    BY <1>2 DEF Lowest

LEMMA SearchInitially == CyclesInit => SearchInv
<1> SUFFICES ASSUME CyclesInit PROVE SearchInv
    OBVIOUS
<1>1. stack = <<>> /\ Len(stack) = 0 /\ Positions = {}
    BY DEF CyclesInit, Positions
<1>2. SearchTypeOK
    BY DEF CyclesInit, SearchTypeOK
<1>3. StackIsPath /\ LookedAt
    BY <1>1 DEF CyclesInit, StackIsPath, LookedAt
<1>4. LeftIsLeft /\ MarkedIsOnCycle /\ BlackHasSink /\ AllBlack
    BY DEF CyclesInit, LeftIsLeft, MarkedIsOnCycle, BlackHasSink, AllBlack
<1> QED
    BY <1>2, <1>3, <1>4 DEF SearchInv

LEMMA SearchTypeStep == ASSUME SearchInv, [CyclesNext]_cycleVars PROVE SearchTypeOK' /\ AllBlack' /\ LeftIsLeft'
<1> USE DEF SearchInv, SearchTypeOK
<1>0. entries' = entries /\ \A i : Successors(i)' = Successors(i)
    BY DEF CyclesNext, StartRoot, Visit, LookAt, Leave, SearchEnds, cycleVars, Successors
<1>1. CASE StartRoot
    <2>1. PICK n \in Open : Visit(n)
        BY <1>1, LowestIsMember DEF StartRoot
    <2> QED
        BY <2>1, <1>1, <1>0, SuccessorIsReached DEF Visit, StartRoot, AllBlack, LeftIsLeft
<1>2. CASE LookAt
    <2> DEFINE top == Last(stack)
               n == Lowest(left[top])
    <2>1. top \in Open
        BY <1>2 DEF LookAt, Last
    <2>2. n \in left[top] /\ n \in Open
        BY <1>2, <2>1, LowestIsMember DEF LookAt
    <2>3. CyclePath(n) \subseteq Open
        BY DEF CyclePath
    <2>4. CASE colour[n] = "white"
        <3>1. /\ colour' = [colour EXCEPT ![n] = "gray"] /\ stack' = Append(stack, n)
              /\ left' = [[left EXCEPT ![top] = left[top] \ {n}] EXCEPT ![n] = Successors(n)]
              /\ UNCHANGED <<entries, finished, marked, searching>> /\ searching
            BY <2>4, <1>2 DEF LookAt
        <3>2. Successors(n) \subseteq Open
            BY <2>2, SuccessorIsReached
        <3>3. SearchTypeOK'
            BY <3>1, <3>2, <2>2
        <3>4. left' = [i \in Open |-> IF i = n THEN Successors(n) ELSE IF i = top THEN left[top] \ {n} ELSE left[i]]
            BY <3>1, <2>1, <2>2
        <3>5. LeftIsLeft'
            BY <3>4, <1>0, <2>1 DEF LeftIsLeft
        <3> QED
            BY <3>1, <3>3, <3>5 DEF AllBlack
    <2>5. CASE colour[n] # "white"
        BY <2>1, <2>2, <2>3, <2>5, <1>0, <1>2 DEF LookAt, AllBlack, LeftIsLeft
    <2> QED
        BY <2>4, <2>5
<1>3. CASE Leave
    BY <1>3, <1>0 DEF Leave, Front, Last, AllBlack, LeftIsLeft
<1>4. CASE SearchEnds
    BY <1>4, <1>0 DEF SearchEnds, AllBlack, LeftIsLeft
<1>5. CASE UNCHANGED cycleVars
    BY <1>5, <1>0 DEF cycleVars, AllBlack, LeftIsLeft
<1> QED
    BY <1>1, <1>2, <1>3, <1>4, <1>5 DEF CyclesNext

LEMMA ReachesStays ==
    ASSUME entries' = entries
    PROVE  \A i : Reaches(i)' = Reaches(i) /\ Successors(i)' = Successors(i)
BY DEF Reaches, Successors

\* An issue that turns gray lengthens the path.
LEMMA PathGrows ==
    ASSUME SearchInv, NEW n \in Open, colour[n] = "white", entries' = entries,
           colour' = [colour EXCEPT ![n] = "gray"], stack' = Append(stack, n),
           Len(stack) > 0 => n \in Reaches(stack[Len(stack)])
    PROVE  StackIsPath'
<1> USE DEF SearchInv, SearchTypeOK
<1> DEFINE m == Len(stack)
<1>1. /\ m \in Nat /\ Positions = 1 .. m /\ Positions' = 1 .. (m + 1)
      /\ stack' \in Seq(Open) /\ stack'[m + 1] = n /\ \A a \in 1 .. m : stack'[a] = stack[a] /\ stack[a] \in Open
    BY DEF Positions
<1>2. \A a \in 1 .. m : stack[a] # n
    BY <1>1 DEF StackIsPath
<1>3. \A a, b \in Positions' : stack'[a] = stack'[b] => a = b
    BY <1>1, <1>2 DEF StackIsPath
<1>4. ASSUME NEW i \in Open PROVE colour'[i] = "gray" <=> \E a \in Positions' : stack'[a] = i
    <2>1. CASE i = n
        BY <2>1, <1>1
    <2>2. CASE i # n
        BY <2>2, <1>1 DEF StackIsPath
    <2> QED
        BY <2>1, <2>2
<1>5. ASSUME NEW a \in Positions', NEW b \in Positions', a < b PROVE stack'[b] \in Reaches(stack'[a])
    <2>1. CASE b < m + 1
        BY <2>1, <1>1, <1>5 DEF StackIsPath
    <2>2. CASE b = m + 1
        <3>1. a \in 1 .. m /\ m \in 1 .. m /\ m > 0
            BY <2>2, <1>1, <1>5
        <3>2. n \in Reaches(stack[m])
            BY <3>1
        <3>3. CASE a = m
            BY <3>1, <3>2, <3>3, <2>2, <1>1
        <3>4. CASE a < m
            <4>1. stack[m] \in Reaches(stack[a])
                BY <3>1, <3>4, <1>1 DEF StackIsPath
            <4> QED
                BY <4>1, <3>1, <3>2, <2>2, <1>1, ReachesTransitive
        <3> QED
            BY <3>1, <3>3, <3>4, <1>1
    <2> QED
        BY <2>1, <2>2, <1>1
<1>6. \A a, b \in Positions' : a < b => (stack[b] \in Reaches(stack[a]))'
    BY <1>5 DEF Reaches, Successors
<1> QED
    BY <1>3, <1>4, <1>6 DEF StackIsPath

\* What is known of the black issues stays when a white one turns gray and is
\* the issue that the one on top visits.
LEMMA GrayLooksNowhere ==
    ASSUME SearchInv, NEW n \in Open, colour[n] = "white", entries' = entries, marked' = marked,
           colour' = [colour EXCEPT ![n] = "gray"], stack' = Append(stack, n), left'[n] = Successors(n),
           \A i \in Open \ {n} :
              left'[i] = left[i] \/ (Len(stack) > 0 /\ i = stack[Len(stack)] /\ left'[i] = left[i] \ {n})
    PROVE  LookedAt' /\ BlackHasSink'
<1> USE DEF SearchInv, SearchTypeOK
<1> DEFINE m == Len(stack)
<1>1. /\ m \in Nat /\ Positions = 1 .. m /\ Positions' = 1 .. (m + 1) /\ Len(stack') = m + 1
      /\ stack'[m + 1] = n /\ \A a \in 1 .. m : stack'[a] = stack[a] /\ stack[a] \in Open
    BY DEF Positions
<1>2. \A k \in Open : colour'[k] = "black" <=> colour[k] = "black"
    OBVIOUS
<1>3. \A i : Successors(i)' = Successors(i)
    BY ReachesStays
<1>4. \A k \in Open \ marked : colour'[k] = "black" => \A x \in Successors(k) : colour'[x] = "black"
    BY <1>2, SuccessorIsReached DEF LookedAt
<1>5. ASSUME NEW a \in 1 .. (m + 1), stack'[a] \notin marked,
             NEW x \in Successors(stack'[a]) \ left'[stack'[a]]
      PROVE  colour'[x] = "black" \/ (a < m + 1 /\ x = stack'[a + 1])
    <2>1. stack'[a] \in Open /\ x \in Open
        BY <1>1, SuccessorIsReached
    <2>2. a # m + 1
        BY <1>1
    <2>3. a \in 1 .. m /\ stack'[a] = stack[a] /\ stack[a] # n
        BY <2>2, <1>1 DEF StackIsPath
    <2>4. CASE x \notin left[stack[a]]
        <3>1. colour[x] = "black" \/ (a < m /\ x = stack[a + 1])
            BY <2>3, <2>4, <1>1, <1>5 DEF LookedAt
        <3> QED
            BY <3>1, <2>1, <2>3, <1>1, <1>2
    <2>5. CASE x \in left[stack[a]]
        <3>1. stack[a] = stack[m] /\ x = n /\ m > 0
            BY <2>1, <2>3, <2>5, <1>5
        <3>2. a = m
            BY <3>1, <2>3, <1>1 DEF StackIsPath
        <3> QED
            BY <3>1, <3>2, <1>1
    <2> QED
        BY <2>4, <2>5
<1>6. LookedAt'
    BY <1>1, <1>3, <1>4, <1>5 DEF LookedAt
<1>7. BlackHasSink'
    BY <1>2, <1>3 DEF BlackHasSink
<1> QED
    BY <1>6, <1>7

LEMMA StartRootKeeps ==
    ASSUME SearchInv, StartRoot
    PROVE  StackIsPath' /\ MarkedIsOnCycle' /\ LookedAt' /\ BlackHasSink'
<1>1. PICK n \in Open : Visit(n) /\ colour[n] = "white"
    BY LowestIsMember DEF StartRoot
<1>2. Len(stack) = 0
    BY DEF StartRoot
<1>3. left'[n] = Successors(n) /\ \A i \in Open \ {n} : left'[i] = left[i]
    BY <1>1 DEF Visit, SearchInv, SearchTypeOK
<1>4. entries' = entries /\ marked' = marked /\ stack' = Append(stack, n) /\ colour' = [colour EXCEPT ![n] = "gray"]
    BY <1>1 DEF Visit
<1>5. StackIsPath'
    <2>1. Len(stack) > 0 => n \in Reaches(stack[Len(stack)])
        BY <1>2
    <2> QED
        BY <2>1, <1>1, <1>4, PathGrows
<1>6. LookedAt' /\ BlackHasSink'
    BY <1>1, <1>3, <1>4, GrayLooksNowhere
<1>7. MarkedIsOnCycle'
    BY <1>4, ReachesStays DEF MarkedIsOnCycle, SearchInv
<1> QED
    BY <1>5, <1>6, <1>7

\* The issues from n to the top of the stack wait for each other when the one
\* on top depends on n.
LEMMA CycleIsClosed ==
    ASSUME SearchInv, Len(stack) > 0, NEW n \in Successors(stack[Len(stack)]), colour[n] = "gray",
           NEW i \in CyclePath(n)
    PROVE  i \in Open /\ i \in Reaches(i)
<1> USE DEF SearchInv, SearchTypeOK
<1> DEFINE m == Len(stack)
<1>1. m \in 1 .. m /\ Positions = 1 .. m /\ DOMAIN stack = 1 .. m /\ \A a \in 1 .. m : stack[a] \in Open
    BY DEF Positions
<1>2. PICK j \in 1 .. m : stack[j] = i /\ \E h \in 1 .. j : stack[h] = n
    BY <1>1 DEF CyclePath
<1>3. PICK h \in 1 .. j : stack[h] = n
    BY <1>2
<1>4. h \in 1 .. m /\ i \in Open /\ n \in Open
    BY <1>1, <1>2, <1>3
<1>5. n \in Reaches(stack[m]) /\ n \in Reaches(i)
    <2>1. n \in Reaches(stack[m])
        BY <1>1, SuccessorIsReached
    <2>2. CASE j = m
        BY <2>1, <2>2, <1>2
    <2>3. CASE j < m
        <3>1. stack[m] \in Reaches(i)
            BY <2>3, <1>1, <1>2 DEF StackIsPath
        <3> QED
            BY <2>1, <3>1, <1>4, ReachesTransitive
    <2> QED
        BY <2>1, <2>2, <2>3
<1>6. CASE h = j
    BY <1>6, <1>2, <1>3, <1>5
<1>7. CASE h < j
    <2>1. i \in Reaches(n)
        BY <1>7, <1>1, <1>2, <1>3, <1>4 DEF StackIsPath
    <2> QED
        BY <2>1, <1>4, <1>5, ReachesTransitive
<1> QED
    BY <1>4, <1>6, <1>7

LEMMA LookAtKeeps ==
    ASSUME SearchInv, LookAt
    PROVE  StackIsPath' /\ MarkedIsOnCycle' /\ LookedAt' /\ BlackHasSink'
<1> USE DEF SearchInv, SearchTypeOK
<1> DEFINE m == Len(stack)
           top == stack[m]
           n == Lowest(left[top])
<1>1. /\ m \in Nat /\ m > 0 /\ m \in Positions /\ Positions = 1 .. m /\ \A a \in 1 .. m : stack[a] \in Open
      /\ Last(stack) = top /\ top \in Open /\ left[top] # {}
    BY DEF LookAt, Last, Positions
<1>2. n \in left[top] /\ n \in Open /\ n \in Successors(top) /\ n \in Reaches(top)
    BY <1>1, LowestIsMember, SuccessorIsReached DEF LeftIsLeft
<1>3. entries' = entries /\ \A i : Reaches(i)' = Reaches(i) /\ Successors(i)' = Successors(i)
    BY ReachesStays DEF LookAt
<1>4. CASE colour[n] = "white"
    <2>1. /\ colour' = [colour EXCEPT ![n] = "gray"] /\ stack' = Append(stack, n) /\ marked' = marked
          /\ left' = [[left EXCEPT ![top] = left[top] \ {n}] EXCEPT ![n] = Successors(n)]
        BY <1>4, <1>1 DEF LookAt
    <2>2. left'[n] = Successors(n)
        BY <2>1, <1>2
    <2>3. \A i \in Open \ {n} : left'[i] = left[i] \/ (m > 0 /\ i = top /\ left'[i] = left[i] \ {n})
        BY <2>1, <1>1, <1>2
    <2>4. StackIsPath'
        BY <2>1, <1>2, <1>3, <1>4, PathGrows
    <2>5. LookedAt' /\ BlackHasSink'
        BY <2>1, <2>2, <2>3, <1>2, <1>3, <1>4, GrayLooksNowhere
    <2>6. MarkedIsOnCycle'
        BY <2>1, <1>3 DEF MarkedIsOnCycle
    <2> QED
        BY <2>4, <2>5, <2>6
<1>5. CASE colour[n] # "white"
    <2>1. /\ colour' = colour /\ stack' = stack /\ left' = [left EXCEPT ![top] = left[top] \ {n}]
          /\ marked' = IF colour[n] = "gray" THEN marked \cup CyclePath(n) ELSE marked
        BY <1>5, <1>1 DEF LookAt
    <2>2. StackIsPath'
        <3>1. Positions' = Positions
            BY <2>1 DEF Positions
        <3>2. \A a, b \in Positions' : a < b => (stack[b] \in Reaches(stack[a]))'
            BY <3>1, <2>1, <1>3 DEF Reaches, Successors, StackIsPath
        <3> QED
            BY <3>1, <3>2, <2>1 DEF StackIsPath
    <2>3. \A i \in marked' : i \in Open /\ i \in Reaches(i)
        BY <2>1, <1>1, <1>2, CycleIsClosed DEF MarkedIsOnCycle
    <2>4. marked \subseteq marked' /\ (colour[n] = "gray" => top \in marked')
        <3>1. ASSUME colour[n] = "gray" PROVE top \in CyclePath(n)
            <4>1. PICK h \in Positions : stack[h] = n
                BY <3>1, <1>2 DEF StackIsPath
            <4> QED
                BY <4>1, <1>1 DEF CyclePath
        <3> QED
            BY <3>1, <2>1
    <2>5. LookedAt'
        <3>1. \A k \in Open \ marked' : colour'[k] = "black" => \A x \in Successors(k) : colour'[x] = "black"
            BY <2>1, <2>4 DEF LookedAt
        <3>2. ASSUME NEW a \in 1 .. m, stack[a] \notin marked',
                     NEW x \in Successors(stack[a]) \ left'[stack[a]]
              PROVE  colour[x] = "black" \/ (a < m /\ x = stack[a + 1])
            <4>1. CASE x \notin left[stack[a]]
                BY <4>1, <3>2, <2>4, <1>1 DEF LookedAt
            <4>2. CASE x \in left[stack[a]]
                <5>1. stack[a] = top /\ x = n
                    BY <4>2, <3>2, <2>1, <1>1
                <5>2. colour[n] # "gray"
                    BY <5>1, <3>2, <2>4
                <5> QED
                    BY <5>1, <5>2, <1>2, <1>5
            <4> QED
                BY <4>1, <4>2
        <3>3. Positions' = 1 .. m /\ Len(stack') = m
            BY <2>1 DEF Positions
        <3> QED
            BY <3>1, <3>2, <3>3, <2>1, <1>3 DEF LookedAt
    <2>6. BlackHasSink'
        BY <2>1, <2>4, <1>3 DEF BlackHasSink
    <2>7. MarkedIsOnCycle'
        BY <2>3, <1>3 DEF MarkedIsOnCycle
    <2> QED
        BY <2>2, <2>5, <2>6, <2>7
<1> QED
    BY <1>4, <1>5

LEMMA FrontProperties ==
    ASSUME NEW S, NEW s \in Seq(S), Len(s) > 0
    PROVE  Len(Front(s)) = Len(s) - 1 /\ \A a \in 1 .. (Len(s) - 1) : Front(s)[a] = s[a]
<1>1. \A i \in 1 .. (Len(s) - 1) : s[i] \in S
    OBVIOUS
<1>2. PICK n \in Nat : n = Len(s) - 1
    OBVIOUS
<1>3. Front(s) = SubSeq(s, 1, n)
    BY <1>2 DEF Front
<1>4. /\ Len(SubSeq(s, 1, n)) = IF 1 <= n THEN n - 1 + 1 ELSE 0
      /\ \A i \in 1 .. n - 1 + 1 : SubSeq(s, 1, n)[i] = s[1 + i - 1]
    BY <1>1, <1>2, SubSeqProperties
<1>5. n - 1 + 1 = n /\ (~(1 <= n) => n = 0) /\ \A i \in 1 .. n : 1 + i - 1 = i
    OBVIOUS
<1> QED
    BY <1>2, <1>3, <1>4, <1>5

\* The issue on top has looked at all it depends on.
LEMMA LeaveKeeps ==
    ASSUME SearchInv, Leave
    PROVE  StackIsPath' /\ MarkedIsOnCycle' /\ LookedAt' /\ BlackHasSink'
<1> USE DEF SearchInv, SearchTypeOK
<1> DEFINE m == Len(stack)
           top == stack[m]
<1>1. /\ m \in Nat /\ m > 0 /\ m \in Positions /\ Positions = 1 .. m /\ \A a \in 1 .. m : stack[a] \in Open
      /\ Last(stack) = top /\ top \in Open /\ left[top] = {}
    BY DEF Leave, Last, Positions
<1>2. /\ colour' = [colour EXCEPT ![top] = "black"] /\ left' = left /\ marked' = marked
      /\ entries' = entries /\ stack' = Front(stack)
    BY <1>1 DEF Leave
<1>3. Len(stack') = m - 1 /\ Positions' = 1 .. (m - 1) /\ \A a \in 1 .. (m - 1) : stack'[a] = stack[a]
    <2>1. Len(stack') = m - 1 /\ \A a \in 1 .. (m - 1) : stack'[a] = stack[a]
        BY <1>1, <1>2, FrontProperties
    <2> QED
        BY <2>1 DEF Positions
<1>4. \A i : Reaches(i)' = Reaches(i) /\ Successors(i)' = Successors(i)
    BY <1>2, ReachesStays
<1>5. colour[top] = "gray"
    BY <1>1 DEF StackIsPath
<1>6. \A a \in 1 .. (m - 1) : stack[a] # top
    BY <1>1 DEF StackIsPath
<1>7. top \notin marked => \A n \in Successors(top) : colour[n] = "black"
    BY <1>1 DEF LookedAt
<1>8. StackIsPath'
    <2>1. \A a, b \in Positions' : stack'[a] = stack'[b] => a = b
        <3>1. \A a \in 1 .. (m - 1) : a \in Positions /\ stack'[a] = stack[a]
            BY <1>1, <1>3
        <3> QED
            BY <3>1, <1>3 DEF StackIsPath
    <2>2. ASSUME NEW i \in Open PROVE colour'[i] = "gray" <=> \E a \in Positions' : stack'[a] = i
        <3>1. CASE i = top
            BY <3>1, <1>2, <1>3, <1>6
        <3>2. CASE i # top
            BY <3>2, <1>1, <1>2, <1>3 DEF StackIsPath
        <3> QED
            BY <3>1, <3>2
    <2>3. \A a, b \in Positions' : a < b => stack[b] \in Reaches(stack[a])
        BY <1>1, <1>3 DEF StackIsPath
    <2>4. \A a, b \in Positions' : a < b => (stack[b] \in Reaches(stack[a]))'
        BY <2>3, <1>2, <1>3 DEF Reaches, Successors
    <2> QED
        BY <2>1, <2>2, <2>4 DEF StackIsPath
<1>9. LookedAt'
    <2>1. \A k \in Open \ marked : colour'[k] = "black" => \A x \in Successors(k) : colour'[x] = "black"
        BY <1>2, <1>7, SuccessorIsReached DEF LookedAt
    <2>2. ASSUME NEW a \in 1 .. (m - 1), stack[a] \notin marked, NEW x \in Successors(stack[a]) \ left[stack[a]]
          PROVE  colour'[x] = "black" \/ (a < m - 1 /\ x = stack[a + 1])
        <3>1. colour[x] = "black" \/ (a < m /\ x = stack[a + 1])
            BY <2>2, <1>1 DEF LookedAt
        <3>2. x \in Open
            BY <1>1, SuccessorIsReached
        <3>3. CASE a < m - 1
            BY <3>1, <3>2, <3>3, <1>2
        <3>4. CASE a = m - 1
            BY <3>1, <3>2, <3>4, <1>1, <1>2
        <3> QED
            BY <3>3, <3>4, <1>1
    <2>3. \A a \in Positions' : stack'[a] \notin marked =>
             \A x \in Successors(stack'[a]) \ left[stack'[a]] :
                colour'[x] = "black" \/ (a < Len(stack') /\ x = stack'[a + 1])
        <3>1. ASSUME NEW a \in 1 .. (m - 1), a < m - 1 PROVE stack'[a + 1] = stack[a + 1]
            BY <3>1, <1>1, <1>3
        <3> QED
            BY <2>2, <3>1, <1>3
    <2> QED
        BY <2>1, <2>3, <1>2, <1>4 DEF LookedAt
<1>10. BlackHasSink'
    <2> SUFFICES ASSUME NEW S \in SUBSET Open, S # {}, \A k \in S : colour'[k] = "black" /\ k \notin marked
                 PROVE  \E k \in S : Successors(k) \cap S = {}
        BY <1>2, <1>4 DEF BlackHasSink
    <2>1. \A k \in S \ {top} : colour[k] = "black"
        BY <1>2
    <2>2. \A k \in S \ {top} : top \notin Successors(k)
        BY <2>1, <1>1, <1>5 DEF LookedAt
    <2>3. CASE S \subseteq {top}
        <3>1. S = {top} /\ top \notin Successors(top)
            BY <2>3, <1>5, <1>7
        <3> QED
            BY <3>1
    <2>4. CASE ~(S \subseteq {top})
        <3> DEFINE R == S \ {top}
        <3>1. R # {} /\ R \in SUBSET Open /\ \A k \in R : colour[k] = "black" /\ k \notin marked
            BY <2>4, <2>1
        <3>2. PICK k \in R : Successors(k) \cap R = {}
            BY <3>1 DEF BlackHasSink
        <3> QED
            BY <3>2, <2>2
    <2> QED
        BY <2>3, <2>4
<1>11. MarkedIsOnCycle'
    BY <1>2, <1>4 DEF MarkedIsOnCycle
<1> QED
    BY <1>8, <1>9, <1>10, <1>11

LEMMA SearchStep == SearchInv /\ [CyclesNext]_cycleVars => SearchInv'
<1> SUFFICES ASSUME SearchInv, [CyclesNext]_cycleVars PROVE SearchInv'
    OBVIOUS
<1>1. SearchTypeOK' /\ AllBlack' /\ LeftIsLeft'
    BY SearchTypeStep
<1>2. CASE SearchEnds \/ UNCHANGED cycleVars
    <2>1. UNCHANGED <<entries, finished, colour, stack, left, marked>>
        BY <1>2 DEF SearchEnds, cycleVars
    <2>2. StackIsPath' /\ MarkedIsOnCycle' /\ LookedAt' /\ BlackHasSink'
        BY <2>1 DEF SearchInv, StackIsPath, MarkedIsOnCycle, LookedAt, BlackHasSink, Positions, Reaches, Successors
    <2> QED
        BY <1>1, <2>2 DEF SearchInv
<1> QED
    BY <1>1, <1>2, StartRootKeeps, LookAtKeeps, LeaveKeeps DEF SearchInv, CyclesNext

LEMMA SearchCorrect == CyclesSpec => []SearchInv
BY SearchInitially, SearchStep, PTL DEF CyclesSpec

\* When the search has ended, an issue that waits for itself is on a circle
\* with one that is put in front of a human, and only such issues are: for
\* every graph of declarations on every set of open issues (detectCycles).
THEOREM EveryCycleReported == CyclesSpec => []EveryCycleIsReported
<1>1. ASSUME SearchInv, ~searching,  NEW i \in Open, i \in Reaches(i)
      PROVE  \E j \in marked : j \in Reaches(i) /\ i \in Reaches(j)
    <2> SUFFICES ASSUME \A j \in marked : ~(j \in Reaches(i) /\ i \in Reaches(j)) PROVE FALSE
        OBVIOUS
    <2> DEFINE S == {j \in Open : j \in Reaches(i) /\ i \in Reaches(j)}
    <2>1. i \in S /\ S \in SUBSET Open /\ \A k \in S : colour[k] = "black" /\ k \notin marked
        BY <1>1 DEF SearchInv, AllBlack
    <2>2. PICK k \in S : Successors(k) \cap S = {}
        BY <2>1, <1>1 DEF SearchInv, BlackHasSink
    <2>3. PICK n \in Successors(k) : i = n \/ i \in Reaches(n)
        BY <2>2, ReachesThrough
    <2>4. n \in Open /\ n \in Reaches(i)
        BY <2>2, <2>3, SuccessorIsReached, ReachesIsClosed
    <2> QED
        BY <2>1, <2>2, <2>3, <2>4
<1>2. SearchInv => EveryCycleIsReported
    BY <1>1 DEF EveryCycleIsReported, SearchInv, SearchTypeOK, MarkedIsOnCycle
<1> QED
    BY <1>2, SearchCorrect, PTL

\* An issue that waits for itself, while none of the issues it waits for is
\* done, is not found ready (classifyOpenDependency).
THEOREM CyclesNotReady == CyclesSpec => []CyclesAreNotReady
<1>1. ASSUME NEW i \in Open, i \in Reaches(i), Reaches(i) \cap finished = {} PROVE VerdictOf(i) # "ready"
    <2>1. PICK d \in Successors(i) : TRUE
        BY <1>1, ReachesThrough
    <2>2. d \notin finished
        BY <1>1, SuccessorIsReached
    <2> QED
        BY <2>2 DEF VerdictOf, HoldsUp
<1>2. SearchInv => CyclesAreNotReady
    BY <1>1 DEF CyclesAreNotReady
<1> QED
    BY <1>2, SearchCorrect, PTL
=============================================================================
