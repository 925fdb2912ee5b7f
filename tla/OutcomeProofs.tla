--------------------------- MODULE OutcomeProofs ---------------------------
(* What is proved of the parts that act on what a run left behind, for every *)
(* number of runs, watchers, branches, processes and failing calls: the      *)
(* reports of a worker (Reporting), the sandboxed runs and their validation  *)
(* (SandboxRuns), the operator's incidents (OperatorInbox) and the recovery  *)
(* commands of a host (HostRecovery).  They share no variable; each has an   *)
(* inductive invariant of its own.                                           *)
EXTENDS Reporting, SandboxRuns, OperatorInbox, HostRecovery, TLAPS, FiniteSetTheorems, SequenceTheorems

-----------------------------------------------------------------------------
(* Reports (Reporting).                                                      *)

Early == {"claimed", "started", "works", "human", "verify", "submit", "report"}
ReportPcs == Early \cup {"dedup", "edit", "write", "record", "verdict", "over"}
ShownKinds == {"none", "success", "failure", "infra-error"}
Reasons == Why \cup {"none"}
Comments == [kind : ShownKinds \cup {"agent", "started", "human", "verdict"}, reason : Reasons,
             about : SUBSET Runs, there : BOOLEAN]
RunRecords == [pc : ReportPcs, end : Ends, since : Nat, tries : Nat, verified : {"none", "ok", "partial"},
               told : {"none", "completed", "failed", "nothing"}, shown : ShownKinds, wrote : Nat]

Readable(r) == \E i \in 1 .. Len(posts) : r \in posts[i].about /\ posts[i].kind = ending[r].shown

(* What one run knows of its report, by where it is.                         *)
RunIsReported(r) ==
    /\ ending[r].pc \in Early => ending[r].shown = "none"
    /\ ending[r].pc \in {"dedup", "edit", "record"} => ending[r].shown = "infra-error"
    /\ ending[r].shown # "none" => ending[r].shown = Status(r)
    /\ ending[r].pc = "edit" => dedupMu = r /\ dedup.id # 0 /\ dedup.reason = ending[r].end.reason
    /\ ending[r].pc = "record" =>
          /\ ending[r].wrote \in 1 .. Len(posts)
          /\ posts[ending[r].wrote].kind = "infra-error" /\ posts[ending[r].wrote].reason = ending[r].end.reason
    /\ ending[r].pc \in {"record", "verdict", "over"} /\ ending[r].shown # "none" /\ ghErrors = 0 => Readable(r)

(* What the comments and the memory of the last one have to do with it.      *)
CommentIsShared(i) ==
    /\ ghErrors = 0 => posts[i].there
    /\ posts[i].kind = "infra-error" =>
          \A r \in posts[i].about : ending[r].shown = "infra-error" /\ ending[r].end.reason = posts[i].reason
MemoryIsRight ==
    dedup.id # 0 => /\ dedup.id \in 1 .. Len(posts)
                    /\ posts[dedup.id].kind = "infra-error" /\ posts[dedup.id].reason = dedup.reason

ReportTypes ==
    /\ ending \in [Runs -> RunRecords] /\ posts \in Seq(Comments) /\ ghErrors \in Nat
    /\ dedup \in [id : Nat, reason : Reasons, seen : Nat] /\ tick \in Nat
    /\ dedupMu \in Runs \cup {Nobody}

ReportInv ==
    /\ ReportTypes
    /\ \A r \in Runs : RunIsReported(r)
    /\ \A i \in 1 .. Len(posts) : CommentIsShared(i)
    /\ MemoryIsRight

LEMMA EndFacts ==
    ASSUME NEW e \in Ends
    PROVE  e.mark \in {"success", "failure", "rejected", "infra"} /\ e.reason \in Reasons
    BY DEF Ends, Reasons

LEMMA NoEndIsEnd == NoEnd \in Ends
<1>1. {} \in SUBSET Claims /\ TRUE \in BOOLEAN
    OBVIOUS
<1> QED
    BY <1>1 DEF NoEnd, Ends

LEMMA StatusShown ==
    ASSUME ending \in [Runs -> RunRecords], NEW r \in Runs
    PROVE  Status(r) \in ShownKinds \ {"none"}
<1>1. ending[r].end.mark \in {"success", "failure", "rejected", "infra"}
    BY EndFacts DEF RunRecords
<1> QED
    BY <1>1 DEF Status, ShownKinds

(* Comments are added and grow, and none disappears without an error.        *)
PostsGrow ==
    /\ Len(posts) <= Len(posts')
    /\ \A i \in 1 .. Len(posts) : posts'[i].kind = posts[i].kind /\ posts'[i].reason = posts[i].reason
                                  /\ posts[i].about \subseteq posts'[i].about

(* A step of run r that leaves the memory to it, or alone.                   *)
LEMMA OthersKeep ==
    ASSUME ReportInv, ReportTypes', NEW r,
           \A q \in Runs \ {r} : ending'[q] = ending[q],
           PostsGrow, ghErrors' >= ghErrors,
           \/ dedupMu \in {Nobody, r}
           \/ dedupMu' = dedupMu /\ dedup' = dedup
    PROVE  \A q \in Runs \ {r} : RunIsReported(q)'
<1> SUFFICES ASSUME NEW q \in Runs \ {r}
             PROVE  RunIsReported(q)'
    OBVIOUS
<1>1. ending'[q] = ending[q] /\ RunIsReported(q)
    BY DEF ReportInv
<1>2. ghErrors' = 0 => ghErrors = 0
    BY DEF ReportInv, ReportTypes
<1>3. Status(q)' = Status(q)
    BY <1>1 DEF Status
<1>4. ending'[q].pc = "edit" => dedupMu' = q /\ dedup'.id # 0 /\ dedup'.reason = ending'[q].end.reason
    BY <1>1, ReportingAssumption DEF RunIsReported
<1>5. Len(posts) \in Nat /\ Len(posts') \in Nat
    BY DEF ReportInv, ReportTypes
<1>6. Readable(q) => Readable(q)'
    BY <1>1, <1>5 DEF Readable, PostsGrow
<1>7. ending'[q].pc = "record" =>
          /\ ending'[q].wrote \in 1 .. Len(posts')
          /\ posts'[ending'[q].wrote].kind = "infra-error" /\ posts'[ending'[q].wrote].reason = ending'[q].end.reason
    BY <1>1, <1>5 DEF RunIsReported, PostsGrow
<1> QED
    BY <1>1, <1>2, <1>3, <1>4, <1>6, <1>7 DEF RunIsReported

(* Enough for the invariant, when one run takes a step.                      *)
LEMMA StepKeeps ==
    ASSUME ReportInv, ReportTypes', NEW r \in Runs,
           \A q \in Runs \ {r} : ending'[q] = ending[q],
           PostsGrow, ghErrors' >= ghErrors,
           \/ dedupMu \in {Nobody, r}
           \/ dedupMu' = dedupMu /\ dedup' = dedup,
           ending[r].shown = "infra-error" =>
               ending'[r].shown = "infra-error" /\ ending'[r].end.reason = ending[r].end.reason,
           \A i \in 1 .. Len(posts') : (i \in 1 .. Len(posts) /\ posts'[i] = posts[i]) \/ CommentIsShared(i)',
           RunIsReported(r)', MemoryIsRight'
    PROVE  ReportInv'
<1>1. \A q \in Runs : RunIsReported(q)'
    BY OthersKeep
<1>2. ghErrors' = 0 => ghErrors = 0
    BY DEF ReportInv, ReportTypes
<1>3. ASSUME NEW i \in 1 .. Len(posts), posts'[i] = posts[i]
      PROVE  CommentIsShared(i)'
  <2>1. CommentIsShared(i)
    BY DEF ReportInv
  <2>2. posts[i].about \subseteq Runs
    <3>1. posts \in Seq(Comments)
      BY DEF ReportInv, ReportTypes
    <3>2. posts[i] \in Comments
      BY <3>1
    <3> QED
      BY <3>2 DEF Comments
  <2> QED
    BY <1>2, <1>3, <2>1, <2>2 DEF CommentIsShared
<1>4. \A i \in 1 .. Len(posts') : CommentIsShared(i)'
    BY <1>3
<1> QED
    BY <1>1, <1>4 DEF ReportInv

(* A step that writes no comment and leaves the memory alone.                *)
LEMMA QuietStepKeeps ==
    ASSUME ReportInv, NEW r \in Runs, ending' \in [Runs -> RunRecords],
           \A q \in Runs \ {r} : ending'[q] = ending[q],
           UNCHANGED <<posts, dedup, dedupMu, tick>>, ghErrors' \in Nat, ghErrors' >= ghErrors,
           ending[r].shown = "infra-error" =>
               ending'[r].shown = "infra-error" /\ ending'[r].end.reason = ending[r].end.reason,
           RunIsReported(r)'
    PROVE  ReportInv'
<1>1. ReportTypes'
  <2>1. ReportTypes
    BY DEF ReportInv
  <2> QED
    BY <2>1 DEF ReportTypes
<1>2. PostsGrow /\ Len(posts) \in Nat
    BY DEF PostsGrow, ReportInv, ReportTypes
<1>3. MemoryIsRight'
    BY DEF ReportInv, MemoryIsRight
<1> QED
    BY <1>1, <1>2, <1>3, StepKeeps

(* One record changes.                                                       *)
LEMMA BecomesFacts ==
    ASSUME ending \in [Runs -> RunRecords], NEW r \in Runs, NEW e \in RunRecords, Becomes(r, e)
    PROVE  /\ ending' \in [Runs -> RunRecords] /\ ending'[r] = e
           /\ \A q \in Runs \ {r} : ending'[q] = ending[q]
    BY DEF Becomes

LEMMA GHErrorFacts ==
    ASSUME ghErrors \in Nat, GHError \/ UNCHANGED ghErrors
    PROVE  ghErrors' \in Nat /\ ghErrors' >= ghErrors
    BY DEF GHError

(* Before the report nothing is shown.                                       *)
LEMMA EarlyKeeps ==
    ASSUME ReportInv, NEW r \in Runs, Prepare(r) \/ Verify(r) \/ Submit(r) \/ ReleaseAtShutdown(r)
    PROVE  ReportInv'
<1>1. /\ ending \in [Runs -> RunRecords] /\ ending[r] \in RunRecords /\ Len(posts) \in Nat
      /\ ghErrors \in Nat
    BY DEF ReportInv, ReportTypes
<1>2. ending[r].pc \in Early
    BY DEF Prepare, Verify, Submit, ReleaseAtShutdown, Early
<1>3. ending[r].shown = "none"
    BY <1>2 DEF ReportInv, RunIsReported
<1>4. UNCHANGED <<posts, dedup, dedupMu, tick>> /\ (GHError \/ UNCHANGED ghErrors)
  <2>1. Verify(r) => UNCHANGED <<posts, dedup, dedupMu, tick>> /\ (GHError \/ UNCHANGED ghErrors)
    BY DEF Verify
  <2> QED
    BY <2>1 DEF Prepare, Submit, ReleaseAtShutdown
<1>5. PICK e \in RunRecords : /\ Becomes(r, e) /\ e.shown = "none"
                              /\ e.pc \in {"started", "report", "submit", "over"}
  <2>1. CASE Prepare(r)
    <3>1. [ending[r] EXCEPT !.pc = "started", !.since = Len(posts)] \in RunRecords
      BY <1>1 DEF RunRecords, ReportPcs, Early
    <3>2. \A e \in Ends : [ending[r] EXCEPT !.pc = "report", !.end = e, !.told = "nothing"] \in RunRecords
      BY <1>1 DEF RunRecords, ReportPcs, Early
    <3>3. \/ Becomes(r, [ending[r] EXCEPT !.pc = "started", !.since = Len(posts)])
          \/ \E e \in Ends : Becomes(r, [ending[r] EXCEPT !.pc = "report", !.end = e, !.told = "nothing"])
      BY <2>1 DEF Prepare
    <3>4. CASE Becomes(r, [ending[r] EXCEPT !.pc = "started", !.since = Len(posts)])
      BY <1>1, <1>3, <3>1, <3>4 DEF RunRecords
    <3>5. CASE \E e \in Ends : Becomes(r, [ending[r] EXCEPT !.pc = "report", !.end = e, !.told = "nothing"])
      <4>1. PICK e \in Ends : Becomes(r, [ending[r] EXCEPT !.pc = "report", !.end = e, !.told = "nothing"])
        BY <3>5
      <4> QED
        BY <1>1, <1>3, <3>2, <4>1 DEF RunRecords
    <3> QED
      BY <3>3, <3>4, <3>5
  <2>2. CASE Verify(r)
    <3>1. PICK v \in {"none", "ok", "partial"} : Becomes(r, [ending[r] EXCEPT !.pc = "submit", !.verified = v])
      BY <2>2 DEF Verify
    <3>2. [ending[r] EXCEPT !.pc = "submit", !.verified = v] \in RunRecords
      BY <1>1 DEF RunRecords, ReportPcs, Early
    <3> QED
      BY <1>1, <1>3, <3>1, <3>2 DEF RunRecords
  <2>3. CASE Submit(r)
    <3>1. PICK told \in {"completed", "failed", "nothing"} : Becomes(r, [ending[r] EXCEPT !.pc = "report", !.told = told])
      BY <2>3 DEF Submit
    <3>2. [ending[r] EXCEPT !.pc = "report", !.told = told] \in RunRecords
      BY <1>1 DEF RunRecords, ReportPcs, Early
    <3> QED
      BY <1>1, <1>3, <3>1, <3>2 DEF RunRecords
  <2>4. CASE ReleaseAtShutdown(r)
    <3>1. [ending[r] EXCEPT !.pc = "over", !.told = "nothing"] \in RunRecords
      BY <1>1 DEF RunRecords, ReportPcs, Early
    <3> QED
      BY <1>1, <1>3, <2>4, <3>1 DEF ReleaseAtShutdown, RunRecords
  <2> QED
    BY <2>1, <2>2, <2>3, <2>4
<1>6. /\ ending' \in [Runs -> RunRecords] /\ ending'[r] = e
      /\ \A q \in Runs \ {r} : ending'[q] = ending[q]
    BY <1>1, <1>5, BecomesFacts
<1>7. RunIsReported(r)'
    BY <1>5, <1>6 DEF RunIsReported
<1>8. ghErrors' \in Nat /\ ghErrors' >= ghErrors
    BY <1>1, <1>4, GHErrorFacts
<1> QED
    BY <1>3, <1>4, <1>6, <1>7, <1>8, QuietStepKeeps

(* The agent's own comment is not an infra error.                            *)
LEMMA AppendFacts ==
    ASSUME posts \in Seq(Comments), NEW c \in Comments, posts' = Append(posts, c)
    PROVE  /\ posts' \in Seq(Comments) /\ Len(posts) \in Nat /\ Len(posts') = Len(posts) + 1
           /\ posts'[Len(posts) + 1] = c /\ \A i \in 1 .. Len(posts) : posts'[i] = posts[i]
           /\ PostsGrow
<1>1. /\ posts' \in Seq(Comments) /\ Len(posts) \in Nat /\ Len(posts') = Len(posts) + 1
      /\ posts'[Len(posts) + 1] = c /\ \A i \in 1 .. Len(posts) : posts'[i] = posts[i]
    OBVIOUS
<1> QED
    BY <1>1 DEF PostsGrow

(* A run writes a comment of its own.                                        *)
LEMMA AppendKeeps ==
    ASSUME ReportInv, NEW r \in Runs, ending' \in [Runs -> RunRecords],
           \A q \in Runs \ {r} : ending'[q] = ending[q],
           NEW c \in Comments, posts' = Append(posts, c), c.there, c.about = {r},
           UNCHANGED <<dedup, dedupMu, tick, ghErrors>>,
           ending[r].shown = "infra-error" =>
               ending'[r].shown = "infra-error" /\ ending'[r].end.reason = ending[r].end.reason,
           c.kind = "infra-error" => ending'[r].shown = "infra-error" /\ ending'[r].end.reason = c.reason,
           RunIsReported(r)'
    PROVE  ReportInv'
<1>1. ReportTypes
    BY DEF ReportInv
<1>2. /\ posts' \in Seq(Comments) /\ Len(posts) \in Nat /\ Len(posts') = Len(posts) + 1
      /\ posts'[Len(posts) + 1] = c /\ \A i \in 1 .. Len(posts) : posts'[i] = posts[i]
      /\ PostsGrow
    BY <1>1, AppendFacts DEF ReportTypes
<1>3. ReportTypes' /\ ghErrors' >= ghErrors
    BY <1>1, <1>2 DEF ReportTypes
<1>4. MemoryIsRight'
    BY <1>1, <1>2 DEF ReportInv, ReportTypes, MemoryIsRight
<1>5. ASSUME NEW i \in 1 .. Len(posts'), i \notin 1 .. Len(posts)
      PROVE  CommentIsShared(i)'
  <2>1. i = Len(posts) + 1
    BY <1>2, <1>5
  <2>2. posts'[i] = c
    BY <1>2, <2>1
  <2> QED
    BY <2>2 DEF CommentIsShared
<1>6. \A i \in 1 .. Len(posts') : (i \in 1 .. Len(posts) /\ posts'[i] = posts[i]) \/ CommentIsShared(i)'
    BY <1>2, <1>5
<1> QED
    BY <1>2, <1>3, <1>4, <1>6, StepKeeps

LEMMA AgentEndsKeeps ==
    ASSUME ReportInv, NEW r \in Runs, AgentEnds(r)
    PROVE  ReportInv'
<1>1. /\ ending \in [Runs -> RunRecords] /\ ending[r] \in RunRecords /\ posts \in Seq(Comments)
      /\ ghErrors \in Nat
    BY DEF ReportInv, ReportTypes
<1>2. ending[r].shown = "none"
    BY DEF ReportInv, RunIsReported, AgentEnds, Early
<1>3. PICK e \in Ends, pc \in {"human", "verify"} :
          /\ posts' = IF "comment" \in e.did THEN Append(posts, Post("agent", "none", r)) ELSE posts
          /\ Becomes(r, [ending[r] EXCEPT !.end = e, !.pc = pc])
    BY DEF AgentEnds
<1> DEFINE next == [ending[r] EXCEPT !.end = e, !.pc = pc]
<1>4. next \in RunRecords /\ next.shown = "none" /\ next.pc = pc
    BY <1>1, <1>2 DEF RunRecords, ReportPcs, Early
<1> HIDE DEF next
<1>5. /\ ending' \in [Runs -> RunRecords] /\ ending'[r] = next
      /\ \A q \in Runs \ {r} : ending'[q] = ending[q]
    BY <1>1, <1>3, <1>4, BecomesFacts DEF next
<1>6. RunIsReported(r)'
    BY <1>4, <1>5 DEF RunIsReported
<1>7. UNCHANGED <<dedup, dedupMu, tick, ghErrors>>
    BY DEF AgentEnds
<1> DEFINE c == Post("agent", "none", r)
<1>8. c \in Comments /\ c.there /\ c.about = {r} /\ c.kind = "agent"
    BY DEF Post, Comments, Reasons
<1> HIDE DEF c
<1>9. CASE posts' = posts
  <2>1. ghErrors' \in Nat /\ ghErrors' >= ghErrors
    BY <1>1, <1>7
  <2> QED
    BY <1>2, <1>5, <1>6, <1>7, <1>9, <2>1, QuietStepKeeps
<1>10. CASE posts' = Append(posts, c)
    BY <1>2, <1>5, <1>6, <1>7, <1>8, <1>10, AppendKeeps
<1> QED
    BY <1>3, <1>9, <1>10 DEF c

(* Report and tryDedup run with the lock of the memory free.                 *)
LEMMA ReportKeeps ==
    ASSUME ReportInv, NEW r \in Runs, Report(r)
    PROVE  ReportInv'
<1>1. /\ ReportTypes /\ ending \in [Runs -> RunRecords] /\ ending[r] \in RunRecords /\ posts \in Seq(Comments)
      /\ ghErrors \in Nat /\ Len(posts) \in Nat
    BY DEF ReportInv, ReportTypes
<1>2. ending[r].shown = "none"
    BY DEF ReportInv, RunIsReported, Report, Early
<1>3. UNCHANGED <<posts, dedupMu, tick, ghErrors>> /\ dedupMu = Nobody
    BY DEF Report
<1>4. PICK pc \in {"dedup", "write"} :
          /\ Becomes(r, [ending[r] EXCEPT !.shown = Status(r), !.tries = 0, !.since = 0, !.pc = pc])
          /\ pc = "dedup" => Status(r) = "infra-error"
    BY DEF Report
<1> DEFINE next == [ending[r] EXCEPT !.shown = Status(r), !.tries = 0, !.since = 0, !.pc = pc]
<1>5. next \in RunRecords /\ next.shown = Status(r) /\ next.pc = pc /\ next.end = ending[r].end
    BY <1>1, StatusShown DEF RunRecords, ReportPcs, Early
<1> HIDE DEF next
<1>6. /\ ending' \in [Runs -> RunRecords] /\ ending'[r] = next
      /\ \A q \in Runs \ {r} : ending'[q] = ending[q]
    BY <1>1, <1>4, <1>5, BecomesFacts DEF next
<1>7. Status(r)' = Status(r)
    BY <1>5, <1>6 DEF Status
<1>8. RunIsReported(r)'
    BY <1>4, <1>5, <1>6, <1>7 DEF RunIsReported, Early
<1>9. dedup' \in [id : Nat, reason : Reasons, seen : Nat] /\ MemoryIsRight'
  <2>1. NoDedup \in [id : Nat, reason : Reasons, seen : Nat] /\ NoDedup.id = 0
    BY DEF NoDedup, Reasons
  <2>2. dedup' = dedup \/ dedup' = NoDedup
    BY DEF Report
  <2> QED
    BY <1>1, <1>3, <2>1, <2>2 DEF ReportTypes, ReportInv, MemoryIsRight
<1>10. ReportTypes' /\ ghErrors' >= ghErrors
    BY <1>1, <1>3, <1>6, <1>9 DEF ReportTypes
<1>11. PostsGrow
    BY <1>1, <1>3 DEF PostsGrow
<1> QED
    BY <1>2, <1>3, <1>6, <1>8, <1>9, <1>10, <1>11, StepKeeps

LEMMA GotoFacts ==
    ASSUME ending \in [Runs -> RunRecords], NEW r \in Runs, NEW pc \in ReportPcs, Goto(r, pc)
    PROVE  /\ ending' \in [Runs -> RunRecords]
           /\ ending'[r].pc = pc /\ ending'[r].shown = ending[r].shown /\ ending'[r].end = ending[r].end
           /\ \A q \in Runs \ {r} : ending'[q] = ending[q]
<1> DEFINE next == [ending[r] EXCEPT !.pc = pc, !.tries = 0, !.since = IF pc = "over" THEN 0 ELSE @,
                                     !.wrote = IF pc = "over" THEN 0 ELSE @]
<1>1. next \in RunRecords /\ next.pc = pc /\ next.shown = ending[r].shown /\ next.end = ending[r].end
    BY DEF RunRecords
<1>2. Becomes(r, next)
    BY DEF Goto
<1> HIDE DEF next
<1> QED
    BY <1>1, <1>2, BecomesFacts

LEMMA TryDedupKeeps ==
    ASSUME ReportInv, NEW r \in Runs, tryDedup(r)
    PROVE  ReportInv'
<1>1. /\ ReportTypes /\ ending \in [Runs -> RunRecords] /\ posts \in Seq(Comments)
      /\ ghErrors \in Nat /\ Len(posts) \in Nat /\ dedup \in [id : Nat, reason : Reasons, seen : Nat] /\ tick \in Nat
    BY DEF ReportInv, ReportTypes
<1>2. ending[r].shown = "infra-error" /\ Status(r) = "infra-error"
    BY DEF ReportInv, RunIsReported, tryDedup
<1>3. UNCHANGED <<posts, tick, ghErrors>> /\ dedupMu = Nobody
    BY DEF tryDedup
<1>4. PICK pc \in {"edit", "write"} :
          /\ Goto(r, pc)
          /\ pc = "edit" => Repeats(r) /\ dedupMu' = r /\ dedup' = [dedup EXCEPT !.seen = tick]
          /\ pc = "write" => UNCHANGED <<dedup, dedupMu>>
    BY DEF tryDedup
<1>5. pc \in ReportPcs
    BY DEF ReportPcs
<1>6. /\ ending' \in [Runs -> RunRecords]
      /\ ending'[r].pc = pc /\ ending'[r].shown = ending[r].shown /\ ending'[r].end = ending[r].end
      /\ \A q \in Runs \ {r} : ending'[q] = ending[q]
    BY <1>1, <1>4, <1>5, GotoFacts
<1>7. Status(r)' = Status(r)
    BY <1>6 DEF Status
<1>8. /\ dedup' \in [id : Nat, reason : Reasons, seen : Nat] /\ dedup'.id = dedup.id /\ dedup'.reason = dedup.reason
      /\ dedupMu' \in Runs \cup {Nobody}
    BY <1>1, <1>3, <1>4
<1>9. MemoryIsRight'
    BY <1>3, <1>8 DEF ReportInv, MemoryIsRight
<1>10. RunIsReported(r)'
    BY <1>2, <1>4, <1>6, <1>7, <1>8 DEF RunIsReported, Early, Repeats
<1>11. ReportTypes' /\ ghErrors' >= ghErrors
    BY <1>1, <1>3, <1>6, <1>8 DEF ReportTypes
<1>12. PostsGrow
    BY <1>1, <1>3 DEF PostsGrow
<1> QED
    BY <1>3, <1>6, <1>9, <1>10, <1>11, <1>12, StepKeeps

(* A comment changes in place.                                               *)
LEMMA ExceptFacts ==
    ASSUME posts \in Seq(Comments), NEW i \in 1 .. Len(posts), NEW c \in Comments, posts' = [posts EXCEPT ![i] = c],
           c.kind = posts[i].kind, c.reason = posts[i].reason, posts[i].about \subseteq c.about
    PROVE  /\ posts' \in Seq(Comments) /\ Len(posts') = Len(posts) /\ Len(posts) \in Nat
           /\ posts'[i] = c /\ \A j \in 1 .. Len(posts) : j # i => posts'[j] = posts[j]
           /\ PostsGrow
<1>1. /\ posts' \in Seq(Comments) /\ Len(posts') = Len(posts) /\ Len(posts) \in Nat
      /\ posts'[i] = c /\ \A j \in 1 .. Len(posts) : j # i => posts'[j] = posts[j]
    BY ExceptSeq
<1> QED
    BY <1>1 DEF PostsGrow

(* The edit: the comment that the memory names is there, unless GitHub       *)
(* failed or a user deleted it.                                              *)
LEMMA EditKeeps ==
    ASSUME ReportInv, NEW r \in Runs, EditComment(r)
    PROVE  ReportInv'
<1>1. /\ ReportTypes /\ ending \in [Runs -> RunRecords] /\ posts \in Seq(Comments)
      /\ ghErrors \in Nat /\ Len(posts) \in Nat /\ "over" \in ReportPcs
    BY DEF ReportInv, ReportTypes, ReportPcs
<1>2. /\ ending[r].shown = "infra-error" /\ Status(r) = "infra-error" /\ dedupMu = r
      /\ dedup.id \in 1 .. Len(posts) /\ dedup.reason = ending[r].end.reason
      /\ posts[dedup.id].kind = "infra-error" /\ posts[dedup.id].reason = dedup.reason
      /\ ghErrors = 0 => posts[dedup.id].there
    BY DEF ReportInv, RunIsReported, EditComment, MemoryIsRight, CommentIsShared
<1>3. /\ ending' \in [Runs -> RunRecords]
      /\ ending'[r].pc = "over" /\ ending'[r].shown = ending[r].shown /\ ending'[r].end = ending[r].end
      /\ \A q \in Runs \ {r} : ending'[q] = ending[q]
    BY <1>1, GotoFacts DEF EditComment
<1>4. dedupMu' = Nobody /\ UNCHANGED <<dedup, tick>>
    BY DEF EditComment
<1>5. Status(r)' = "infra-error"
    BY <1>2, <1>3 DEF Status
<1>6. CASE /\ posts' = [posts EXCEPT ![dedup.id] = [posts[dedup.id] EXCEPT !.about = @ \cup {r}]]
           /\ UNCHANGED ghErrors
  <2> DEFINE i == dedup.id
             c == [posts[i] EXCEPT !.about = @ \cup {r}]
  <2>1. posts[i] \in Comments /\ i \in 1 .. Len(posts)
    BY <1>1, <1>2
  <2>2. /\ c \in Comments /\ c.kind = posts[i].kind /\ c.reason = posts[i].reason /\ c.there = posts[i].there
        /\ c.about = posts[i].about \cup {r}
    BY <2>1 DEF Comments
  <2>3. posts' = [posts EXCEPT ![i] = c] /\ i = dedup.id
    BY <1>6
  <2> HIDE DEF i, c
  <2>4. /\ posts' \in Seq(Comments) /\ Len(posts') = Len(posts)
        /\ posts'[i] = c /\ \A j \in 1 .. Len(posts) : j # i => posts'[j] = posts[j]
        /\ PostsGrow
    BY <1>1, <2>1, <2>2, <2>3, ExceptFacts
  <2>5. ReportTypes' /\ ghErrors' >= ghErrors
    BY <1>1, <1>3, <1>4, <1>6, <2>4 DEF ReportTypes
  <2>6. MemoryIsRight'
    BY <1>2, <1>4, <2>2, <2>3, <2>4 DEF MemoryIsRight
  <2>7. RunIsReported(r)'
    <3>1. Readable(r)'
      BY <1>2, <1>3, <2>1, <2>2, <2>3, <2>4 DEF Readable
    <3> QED
      BY <1>2, <1>3, <1>5, <3>1 DEF RunIsReported, Early
  <2>8. ASSUME NEW j \in 1 .. Len(posts'), ~(j \in 1 .. Len(posts) /\ posts'[j] = posts[j])
        PROVE  CommentIsShared(j)'
    <3>1. j = i
      BY <2>4, <2>8
    <3>2. CommentIsShared(j)
      BY <2>1, <3>1 DEF ReportInv
    <3>3. posts[j].about \subseteq Runs
      BY <2>1, <3>1 DEF Comments
    <3>4. \A q \in posts'[j].about : ending'[q].shown = "infra-error" /\ ending'[q].end.reason = posts'[j].reason
      BY <1>2, <1>3, <2>2, <2>3, <2>4, <3>1, <3>2, <3>3 DEF CommentIsShared
    <3> QED
      BY <1>6, <2>2, <2>4, <3>1, <3>2, <3>4 DEF CommentIsShared
  <2> QED
    BY <1>2, <1>3, <2>4, <2>5, <2>6, <2>7, <2>8, StepKeeps
<1>7. CASE UNCHANGED posts /\ (GHError \/ (~posts[dedup.id].there /\ UNCHANGED ghErrors))
  <2>1. ghErrors' \in Nat /\ ghErrors' >= ghErrors /\ ghErrors' # 0
    BY <1>1, <1>2, <1>7 DEF GHError
  <2>2. ReportTypes' /\ PostsGrow
    BY <1>1, <1>3, <1>4, <1>7, <2>1 DEF ReportTypes, PostsGrow
  <2>3. MemoryIsRight'
    BY <1>4, <1>7 DEF ReportInv, MemoryIsRight
  <2>4. RunIsReported(r)'
    BY <1>2, <1>3, <1>5, <2>1 DEF RunIsReported, Early
  <2> QED
    BY <1>2, <1>3, <1>7, <2>1, <2>2, <2>3, <2>4, StepKeeps
<1>8. dedup.id # 0
    BY <1>1, <1>2
<1> QED
    BY <1>6, <1>7, <1>8 DEF EditComment

(* A comment that is not written costs an error.                             *)
LEMMA NotWrittenKeeps ==
    ASSUME ReportInv, NEW r \in Runs, ending[r].pc \in {"started", "human", "write", "verdict"},
           Goto(r, AfterWrite(r, FALSE)), GHError, UNCHANGED <<posts, dedup, dedupMu, tick>>
    PROVE  ReportInv'
<1>1. ending \in [Runs -> RunRecords] /\ ghErrors \in Nat
    BY DEF ReportInv, ReportTypes
<1> DEFINE pc == AfterWrite(r, FALSE)
<1>2. /\ pc \in {"works", "verify", "verdict", "over"}
      /\ pc \in {"works", "verify"} <=> ending[r].pc \in {"started", "human"}
    BY DEF AfterWrite
<1>3. pc \in ReportPcs
    BY <1>2 DEF ReportPcs, Early
<1> HIDE DEF pc
<1>4. /\ ending' \in [Runs -> RunRecords]
      /\ ending'[r].pc = pc /\ ending'[r].shown = ending[r].shown /\ ending'[r].end = ending[r].end
      /\ \A q \in Runs \ {r} : ending'[q] = ending[q]
    BY <1>1, <1>3, GotoFacts DEF pc
<1>5. ghErrors' \in Nat /\ ghErrors' >= ghErrors /\ ghErrors' # 0
    BY <1>1 DEF GHError
<1>6. Status(r)' = Status(r)
    BY <1>4 DEF Status
<1>7. RunIsReported(r)'
    BY <1>2, <1>4, <1>5, <1>6 DEF ReportInv, RunIsReported, Early
<1> QED
    BY <1>4, <1>5, <1>7, QuietStepKeeps

LEMMA WriteKeeps ==
    ASSUME ReportInv, NEW r \in Runs, WriteComment(r)
    PROVE  ReportInv'
<1>1. /\ ending \in [Runs -> RunRecords] /\ ending[r] \in RunRecords /\ posts \in Seq(Comments) /\ Len(posts) \in Nat
      /\ ending[r].pc \in {"started", "human", "write", "verdict"} /\ UNCHANGED <<dedup, dedupMu, tick>>
    BY DEF ReportInv, ReportTypes, WriteComment
<1>2. CASE Goto(r, AfterWrite(r, FALSE)) /\ GHError /\ UNCHANGED posts
    BY <1>1, <1>2, NotWrittenKeeps
<1>3. ASSUME posts' = Append(posts, Post(Kind(r), Reported(r), r)), UNCHANGED ghErrors,
             Becomes(r, [ending[r] EXCEPT !.pc = AfterWrite(r, TRUE), !.tries = 0,
                                          !.wrote = IF AfterWrite(r, TRUE) = "record" THEN Len(posts) + 1 ELSE 0])
      PROVE  ReportInv'
  <2> DEFINE c == Post(Kind(r), Reported(r), r)
             pc == AfterWrite(r, TRUE)
             next == [ending[r] EXCEPT !.pc = pc, !.tries = 0, !.wrote = IF pc = "record" THEN Len(posts) + 1 ELSE 0]
  <2>1. ending[r].shown \in ShownKinds /\ ending[r].end.reason \in Reasons
    BY <1>1, EndFacts DEF RunRecords
  <2>2. Kind(r) \in ShownKinds \cup {"agent", "started", "human", "verdict"} /\ Reported(r) \in Reasons
    BY <1>1, <2>1 DEF Kind, Reported, Reasons
  <2>3. /\ c \in Comments /\ c.there /\ c.about = {r} /\ c.kind = Kind(r) /\ c.reason = Reported(r)
    BY <2>2 DEF Post, Comments
  <2>4. c.kind = "infra-error" => ending[r].pc = "write" /\ ending[r].shown = "infra-error" /\ c.reason = ending[r].end.reason
    BY <1>1, <2>3 DEF Kind, Reported
  <2>5. /\ pc \in {"works", "verify", "record", "verdict", "over"}
        /\ pc \in {"works", "verify"} <=> ending[r].pc \in {"started", "human"}
        /\ pc = "record" => ending[r].pc = "write" /\ ending[r].shown = "infra-error"
    BY <1>1 DEF AfterWrite
  <2>6. posts' = Append(posts, c) /\ Becomes(r, next)
    BY <1>3
  <2>7. ending[r].pc = "write" => c.kind = ending[r].shown /\ c.reason = ending[r].end.reason
    BY <2>3 DEF Kind, Reported
  <2> HIDE DEF c, pc
  <2>8. /\ next \in RunRecords /\ next.pc = pc /\ next.shown = ending[r].shown /\ next.end = ending[r].end
        /\ pc = "record" => next.wrote = Len(posts) + 1
    <3>1. pc \in ReportPcs
      BY <2>5 DEF ReportPcs, Early
    <3>2. (IF pc = "record" THEN Len(posts) + 1 ELSE 0) \in Nat
      BY <1>1
    <3> QED
      BY <1>1, <3>1, <3>2 DEF RunRecords
  <2> HIDE DEF next
  <2>9. /\ ending' \in [Runs -> RunRecords] /\ ending'[r] = next
        /\ \A q \in Runs \ {r} : ending'[q] = ending[q]
    BY <1>1, <2>6, <2>8, BecomesFacts
  <2>10. /\ Len(posts') = Len(posts) + 1
         /\ posts'[Len(posts) + 1] = c /\ \A i \in 1 .. Len(posts) : posts'[i] = posts[i]
    BY <1>1, <2>3, <2>6, AppendFacts
  <2>11. RunIsReported(r)'
    <3>1. RunIsReported(r)
      BY DEF ReportInv
    <3>2. Status(r)' = Status(r)
      BY <2>8, <2>9 DEF Status
    <3>3. Len(posts) + 1 \in 1 .. Len(posts')
      BY <1>1, <2>10
    <3>4. ending[r].pc = "write" => Readable(r)'
      BY <2>3, <2>7, <2>8, <2>9, <2>10, <3>3 DEF Readable
    <3>5. ending[r].pc = "verdict" /\ ending[r].shown # "none" /\ ghErrors' = 0 => Readable(r)'
      <4>1. ending[r].pc = "verdict" /\ ending[r].shown # "none" /\ ghErrors' = 0 => Readable(r)
        BY <1>3, <3>1 DEF RunIsReported
      <4>2. Readable(r) => Readable(r)'
        BY <1>1, <2>8, <2>9, <2>10 DEF Readable
      <4> QED
        BY <4>1, <4>2
    <3>6. pc = "record" =>
             /\ ending'[r].wrote \in 1 .. Len(posts')
             /\ posts'[ending'[r].wrote].kind = "infra-error" /\ posts'[ending'[r].wrote].reason = ending'[r].end.reason
      BY <2>5, <2>7, <2>8, <2>9, <2>10, <3>3
    <3>7. ending'[r].pc \in {"record", "verdict", "over"} => ending[r].pc \in {"write", "verdict"}
      BY <1>1, <2>5, <2>8, <2>9
    <3>8. ending'[r].pc \in Early => ending[r].pc \in Early
      BY <2>5, <2>8, <2>9 DEF Early
    <3> QED
      BY <2>5, <2>8, <2>9, <3>1, <3>2, <3>4, <3>5, <3>6, <3>7, <3>8 DEF RunIsReported
  <2> QED
    BY <1>1, <1>3, <2>3, <2>4, <2>6, <2>8, <2>9, <2>11, AppendKeeps
<1> QED
    BY <1>2, <1>3 DEF WriteComment

LEMMA RateLimitedKeeps ==
    ASSUME ReportInv, NEW r \in Runs, RateLimited(r)
    PROVE  ReportInv'
<1>1. /\ ending \in [Runs -> RunRecords] /\ ending[r] \in RunRecords /\ ghErrors \in Nat
      /\ ending[r].pc \in {"started", "human", "write", "verdict"} /\ UNCHANGED <<posts, dedup, dedupMu, tick>>
    BY DEF ReportInv, ReportTypes, RateLimited
<1>2. CASE Goto(r, AfterWrite(r, FALSE)) /\ GHError
    BY <1>1, <1>2, NotWrittenKeeps
<1>3. CASE Becomes(r, [ending[r] EXCEPT !.tries = (@ + 1) % (RetryLimit + 1)]) /\ UNCHANGED ghErrors
  <2> DEFINE next == [ending[r] EXCEPT !.tries = (@ + 1) % (RetryLimit + 1)]
  <2>1. ending[r].tries \in Nat
    BY <1>1 DEF RunRecords
  <2>2. (ending[r].tries + 1) % (RetryLimit + 1) \in Nat
    BY <2>1, ReportingAssumption
  <2>3. next \in RunRecords /\ next.pc = ending[r].pc /\ next.shown = ending[r].shown /\ next.end = ending[r].end
    BY <1>1, <2>2 DEF RunRecords
  <2> HIDE DEF next
  <2>4. /\ ending' \in [Runs -> RunRecords] /\ ending'[r] = next
        /\ \A q \in Runs \ {r} : ending'[q] = ending[q]
    BY <1>1, <1>3, <2>3, BecomesFacts DEF next
  <2>5. Status(r)' = Status(r) /\ (Readable(r) => Readable(r)')
    BY <1>1, <2>3, <2>4 DEF Status, Readable
  <2>6. RunIsReported(r)'
    BY <1>1, <1>3, <2>3, <2>4, <2>5 DEF ReportInv, RunIsReported
  <2>7. ghErrors' \in Nat /\ ghErrors' >= ghErrors
    BY <1>1, <1>3
  <2> QED
    BY <1>1, <2>3, <2>4, <2>6, <2>7, QuietStepKeeps
<1> QED
    BY <1>2, <1>3 DEF RateLimited

(* The number that is remembered is the one of the comment that was written. *)
LEMMA RecordKeeps ==
    ASSUME ReportInv, NEW r \in Runs, RecordComment(r)
    PROVE  ReportInv'
<1>1. /\ ReportTypes /\ ending \in [Runs -> RunRecords] /\ ending[r] \in RunRecords /\ posts \in Seq(Comments)
      /\ ghErrors \in Nat /\ Len(posts) \in Nat /\ tick \in Nat /\ "over" \in ReportPcs
    BY DEF ReportInv, ReportTypes, ReportPcs
<1>2. RunIsReported(r) /\ ending[r].pc = "record"
    BY DEF ReportInv, RecordComment
<1>3. dedupMu = Nobody /\ UNCHANGED <<posts, dedupMu, tick, ghErrors>>
    BY DEF RecordComment
<1>4. /\ ending' \in [Runs -> RunRecords]
      /\ ending'[r].pc = "over" /\ ending'[r].shown = ending[r].shown /\ ending'[r].end = ending[r].end
      /\ \A q \in Runs \ {r} : ending'[q] = ending[q]
    BY <1>1, GotoFacts DEF RecordComment
<1>5. PICK id \in {ending[r].wrote, 0} : dedup' = [id |-> id, reason |-> ending[r].end.reason, seen |-> tick]
    BY DEF RecordComment
<1>6. ending[r].end.reason \in Reasons /\ ending[r].wrote \in Nat
    BY <1>1, EndFacts DEF RunRecords
<1>7. dedup' \in [id : Nat, reason : Reasons, seen : Nat] /\ dedup'.id = id /\ dedup'.reason = ending[r].end.reason
    BY <1>1, <1>5, <1>6
<1>8. MemoryIsRight'
    BY <1>2, <1>3, <1>5, <1>7 DEF RunIsReported, MemoryIsRight
<1>9. Status(r)' = Status(r) /\ (Readable(r) => Readable(r)')
    BY <1>3, <1>4 DEF Status, Readable
<1>10. RunIsReported(r)'
    BY <1>2, <1>3, <1>4, <1>9 DEF RunIsReported, Early
<1>11. ReportTypes' /\ ghErrors' >= ghErrors
    BY <1>1, <1>3, <1>4, <1>7 DEF ReportTypes
<1>12. PostsGrow
    BY <1>1, <1>3 DEF PostsGrow
<1> QED
    BY <1>3, <1>4, <1>8, <1>10, <1>11, <1>12, StepKeeps

LEMMA DeleteKeeps ==
    ASSUME ReportInv, NEW i \in 1 .. Len(posts), DeleteComment(i)
    PROVE  ReportInv'
<1>1. /\ ReportTypes /\ posts \in Seq(Comments) /\ posts[i] \in Comments /\ ghErrors \in Nat
    BY DEF ReportInv, ReportTypes
<1>2. UNCHANGED <<ending, dedup, dedupMu, tick>> /\ ghErrors' \in Nat /\ ghErrors' >= ghErrors /\ ghErrors' # 0
    BY <1>1 DEF DeleteComment, GHError
<1> DEFINE c == [posts[i] EXCEPT !.there = FALSE]
<1>3. FALSE \in BOOLEAN
    BY Zenon
<1>4. c \in Comments /\ c.kind = posts[i].kind /\ c.reason = posts[i].reason /\ c.about = posts[i].about
    BY <1>1, <1>3 DEF Comments
<1>5. posts' = [posts EXCEPT ![i] = c]
    BY DEF DeleteComment
<1> HIDE DEF c
<1>6. /\ posts' \in Seq(Comments) /\ Len(posts') = Len(posts) /\ Len(posts) \in Nat
      /\ posts'[i] = c /\ \A j \in 1 .. Len(posts) : j # i => posts'[j] = posts[j]
      /\ PostsGrow
    BY <1>1, <1>4, <1>5, ExceptFacts
<1>7. ReportTypes'
    BY <1>1, <1>2, <1>6 DEF ReportTypes
<1>8. MemoryIsRight'
    BY <1>2, <1>6 DEF ReportInv, MemoryIsRight, PostsGrow
<1>9. ASSUME NEW j \in 1 .. Len(posts')
      PROVE  CommentIsShared(j)'
  <2>1. posts'[j].kind = posts[j].kind /\ posts'[j].reason = posts[j].reason /\ posts'[j].about = posts[j].about
    BY <1>4, <1>6, <1>9
  <2>2. CommentIsShared(j)
    BY <1>6, <1>9 DEF ReportInv
  <2> QED
    BY <1>2, <2>1, <2>2 DEF CommentIsShared
<1>10. \A q \in Runs : RunIsReported(q)'
  <2>1. \A q \in Runs \ {Nobody} : RunIsReported(q)'
    BY <1>2, <1>6, <1>7, OthersKeep
  <2> QED
    BY <2>1, ReportingAssumption
<1> QED
    BY <1>7, <1>8, <1>9, <1>10 DEF ReportInv

LEMMA ReportInductive ==
    ASSUME ReportInv, [ReportNext]_reportVars
    PROVE  ReportInv'
<1>1. ASSUME NEW r \in Runs, RunStep(r) \/ ReleaseAtShutdown(r)
      PROVE  ReportInv'
    BY <1>1, EarlyKeeps, AgentEndsKeeps, ReportKeeps, TryDedupKeeps, EditKeeps, WriteKeeps, RateLimitedKeeps,
       RecordKeeps DEF RunStep
<1>2. ASSUME NEW i \in DOMAIN posts, DeleteComment(i)
      PROVE  ReportInv'
  <2>1. i \in 1 .. Len(posts)
    BY DEF ReportInv, ReportTypes
  <2> QED
    BY <1>2, <2>1, DeleteKeeps
<1>3. CASE TickReport \/ UNCHANGED reportVars
  <2>1. UNCHANGED <<ending, posts, dedup, dedupMu, ghErrors>>
    BY <1>3 DEF TickReport, reportVars
  <2>2. ReportTypes'
    <3>1. ReportTypes
      BY DEF ReportInv
    <3>2. tick' \in Nat
      BY <1>3, <3>1 DEF ReportTypes, TickReport, reportVars
    <3> QED
      BY <2>1, <3>1, <3>2 DEF ReportTypes
  <2>3. MemoryIsRight' /\ \A i \in 1 .. Len(posts') : CommentIsShared(i)'
    BY <2>1 DEF ReportInv, MemoryIsRight, CommentIsShared
  <2>4. ASSUME NEW q \in Runs
        PROVE  RunIsReported(q)'
    <3>1. RunIsReported(q)
      BY DEF ReportInv
    <3>2. Status(q)' = Status(q) /\ (Readable(q) => Readable(q)')
      BY <2>1 DEF Status, Readable
    <3> QED
      BY <2>1, <3>1, <3>2 DEF RunIsReported
  <2> QED
    BY <2>2, <2>3, <2>4 DEF ReportInv
<1> QED
    BY <1>1, <1>2, <1>3 DEF ReportNext

(* Where each report is, and what the comments say of it.                    *)
THEOREM ReportsCorrect == ReportSpec => []ReportInv
<1>1. ReportInit => ReportInv
  <2> SUFFICES ASSUME ReportInit
               PROVE  ReportInv
    OBVIOUS
  <2>1. posts = <<>> /\ ghErrors = 0 /\ tick = 0 /\ dedup = NoDedup /\ dedupMu = Nobody
    BY DEF ReportInit
  <2>2. ending \in [Runs -> RunRecords] /\ \A r \in Runs : ending[r].pc = "claimed" /\ ending[r].shown = "none"
    BY NoEndIsEnd DEF ReportInit, RunRecords, ReportPcs, Early, ShownKinds
  <2>3. ReportTypes /\ Len(posts) = 0 /\ dedup.id = 0
    BY <2>1, <2>2 DEF ReportTypes, NoDedup, Reasons
  <2> QED
    BY <2>2, <2>3 DEF ReportInv, RunIsReported, MemoryIsRight
<1>2. ReportInv /\ [ReportNext]_reportVars => ReportInv'
    BY ReportInductive
<1> QED
    BY <1>1, <1>2, PTL DEF ReportSpec

(* As long as GitHub answers, the end of a run can be read on the issue:     *)
(* the comment that a repeated infra error edits instead of writing its own  *)
(* (tryDedupInfraComment) is there and is an infra error, because nobody     *)
(* changes the memory of it while the edit is under way.                     *)
THEOREM EndsVisible == ReportSpec => []EndsAreVisible
<1>1. ReportInv => EndsAreVisible
  <2> SUFFICES ASSUME ReportInv, NEW r \in Runs, ending[r].pc = "over", ending[r].shown # "none", ghErrors = 0
               PROVE  \E i \in DOMAIN posts : r \in posts[i].about /\ posts[i].kind = ending[r].shown
    BY DEF EndsAreVisible
  <2>1. Readable(r)
    BY DEF ReportInv, RunIsReported
  <2>2. DOMAIN posts = 1 .. Len(posts)
    BY DEF ReportInv, ReportTypes
  <2> QED
    BY <2>1, <2>2 DEF Readable
<1> QED
    BY <1>1, ReportsCorrect, PTL

(* A comment is about one reason only (tryDedupInfraComment,                 *)
(* writeAndRecordInfraComment), however many runs end together.              *)
THEOREM CommentsAreOfOneKind == ReportSpec => []CommentsDoNotMix
<1>1. ReportInv => CommentsDoNotMix
  <2> SUFFICES ASSUME ReportInv, NEW i \in DOMAIN posts, posts[i].kind = "infra-error", NEW r \in posts[i].about
               PROVE  ending[r].end.mark = "infra" /\ ending[r].end.reason = posts[i].reason
    BY DEF CommentsDoNotMix
  <2>1. posts \in Seq(Comments) /\ i \in 1 .. Len(posts) /\ ending \in [Runs -> RunRecords]
    BY DEF ReportInv, ReportTypes
  <2>2. posts[i] \in Comments
    BY <2>1
  <2>3. r \in Runs
    BY <2>2 DEF Comments
  <2>4. ending[r].shown = "infra-error" /\ ending[r].end.reason = posts[i].reason
    BY <2>1 DEF ReportInv, CommentIsShared
  <2>5. Status(r) = "infra-error"
    BY <2>3, <2>4 DEF ReportInv, RunIsReported
  <2>6. ending[r].end.mark \in {"success", "failure", "rejected", "infra"}
    BY <2>1, <2>3, EndFacts DEF RunRecords
  <2> QED
    BY <2>4, <2>5, <2>6 DEF Status
<1> QED
    BY <1>1, ReportsCorrect, PTL

(* A run is told to be completed by the submission only, and the claims of   *)
(* a run that is about to be were looked up after its end was known.         *)
Late == {"report", "dedup", "edit", "write", "record", "verdict", "over"}
Fulfilled(r) == ending[r].end.claims \ {"comment"} \subseteq ending[r].end.did
ClaimIsTrue(r) ==
    /\ ending[r].told = "completed" => ending[r].pc \in Late /\ Fulfilled(r)
    /\ ending[r].pc = "submit" /\ ending[r].end.mark = "success" /\ ending[r].verified = "ok" => Fulfilled(r)

LEMMA ClaimsStep ==
    ASSUME ReportInv, \A r \in Runs : ClaimIsTrue(r), [ReportNext]_reportVars
    PROVE  \A r \in Runs : ClaimIsTrue(r)'
<1>0. /\ ending \in [Runs -> RunRecords] /\ posts \in Seq(Comments)
      /\ \A r \in Runs : ending[r] \in RunRecords /\ ending[r].end \in Ends
    BY DEF ReportInv, ReportTypes, RunRecords
<1>1. CASE UNCHANGED ending
    BY <1>1 DEF ClaimIsTrue, Fulfilled
<1>2. ASSUME NEW r \in Runs, NEW e, Becomes(r, e),
             e.told = "completed" => e.pc \in Late /\ e.end.claims \ {"comment"} \subseteq e.end.did,
             e.pc = "submit" /\ e.end.mark = "success" /\ e.verified = "ok" => e.end.claims \ {"comment"} \subseteq e.end.did
      PROVE  \A q \in Runs : ClaimIsTrue(q)'
  <2>1. ending'[r] = e /\ \A q \in Runs \ {r} : ending'[q] = ending[q]
    BY <1>0, <1>2 DEF Becomes
  <2> QED
    BY <1>2, <2>1 DEF ClaimIsTrue, Fulfilled
\* The steps of a run that leave its end and what was told as they are.
<1>3. ASSUME NEW r \in Runs, NEW e, Becomes(r, e), e.told = ending[r].told, e.end = ending[r].end, e.pc # "submit",
             ending[r].pc \in Late => e.pc \in Late
      PROVE  \A q \in Runs : ClaimIsTrue(q)'
    BY <1>2, <1>3 DEF ClaimIsTrue, Fulfilled
<1>4. ASSUME NEW r \in Runs, NEW pc \in ReportPcs \ {"submit"}, Goto(r, pc), ending[r].pc \in Late => pc \in Late
      PROVE  \A q \in Runs : ClaimIsTrue(q)'
  <2> DEFINE e == [ending[r] EXCEPT !.pc = pc, !.tries = 0, !.since = IF pc = "over" THEN 0 ELSE @,
                                    !.wrote = IF pc = "over" THEN 0 ELSE @]
  <2>1. e.told = ending[r].told /\ e.end = ending[r].end /\ e.pc = pc
    BY <1>0 DEF RunRecords
  <2>2. Becomes(r, e)
    BY <1>4 DEF Goto
  <2> HIDE DEF e
  <2> QED
    BY <1>3, <1>4, <2>1, <2>2
<1>5. ASSUME NEW r \in Runs, Prepare(r) PROVE \A q \in Runs : ClaimIsTrue(q)'
  <2>1. CASE Becomes(r, [ending[r] EXCEPT !.pc = "started", !.since = Len(posts)])
    <3> DEFINE e == [ending[r] EXCEPT !.pc = "started", !.since = Len(posts)]
    <3>1. e.told = ending[r].told /\ e.end = ending[r].end /\ e.pc = "started" /\ ending[r].pc \notin Late
      BY <1>0, <1>5 DEF RunRecords, Prepare, Late
    <3> HIDE DEF e
    <3> QED
      BY <1>3, <2>1, <3>1 DEF e
  <2>2. ASSUME NEW end \in Ends, Becomes(r, [ending[r] EXCEPT !.pc = "report", !.end = end, !.told = "nothing"])
        PROVE  \A q \in Runs : ClaimIsTrue(q)'
    <3> DEFINE e == [ending[r] EXCEPT !.pc = "report", !.end = end, !.told = "nothing"]
    <3>1. e.told = "nothing" /\ e.pc = "report"
      BY <1>0 DEF RunRecords
    <3> HIDE DEF e
    <3> QED
      BY <1>2, <2>2, <3>1 DEF e
  <2> QED
    BY <1>5, <2>1, <2>2 DEF Prepare
<1>6. ASSUME NEW r \in Runs, AgentEnds(r) PROVE \A q \in Runs : ClaimIsTrue(q)'
  <2>1. PICK end \in Ends, pc \in {"human", "verify"} : Becomes(r, [ending[r] EXCEPT !.end = end, !.pc = pc])
    BY <1>6 DEF AgentEnds
  <2>2. ending[r].told # "completed"
    BY <1>6 DEF AgentEnds, ClaimIsTrue, Late
  <2> DEFINE e == [ending[r] EXCEPT !.end = end, !.pc = pc]
  <2>3. e.told = ending[r].told /\ e.pc = pc
    BY <1>0 DEF RunRecords
  <2> HIDE DEF e
  <2> QED
    BY <1>2, <2>1, <2>2, <2>3 DEF e
<1>7. ASSUME NEW r \in Runs, Verify(r) PROVE \A q \in Runs : ClaimIsTrue(q)'
  <2>1. PICK ok \in BOOLEAN, skew \in {0, 1} :
           Becomes(r, [ending[r] EXCEPT !.pc = "submit",
                !.verified = IF ending[r].end.mark # "success" THEN "none"
                             ELSE IF \A c \in ending[r].end.claims : Holds(r, c, ok, skew) THEN "ok" ELSE "partial"])
    BY <1>7 DEF Verify
  <2> DEFINE v == IF ending[r].end.mark # "success" THEN "none"
                  ELSE IF \A c \in ending[r].end.claims : Holds(r, c, ok, skew) THEN "ok" ELSE "partial"
             e == [ending[r] EXCEPT !.pc = "submit", !.verified = v]
  <2>2. v = "ok" => \A c \in ending[r].end.claims \ {"comment"} : c \in ending[r].end.did
    BY DEF Holds, InRepository
  <2>3. ending[r].told # "completed"
    BY <1>7 DEF Verify, ClaimIsTrue, Late
  <2> HIDE DEF v
  <2>4. e.told = ending[r].told /\ e.end = ending[r].end /\ e.pc = "submit" /\ e.verified = v
    BY <1>0 DEF RunRecords
  <2>5. Becomes(r, e)
    BY <2>1 DEF v
  <2> HIDE DEF e
  <2> QED
    BY <1>2, <2>2, <2>3, <2>4, <2>5
<1>8. ASSUME NEW r \in Runs, Submit(r) PROVE \A q \in Runs : ClaimIsTrue(q)'
  <2>1. PICK told \in {IF ending[r].end.mark = "success" /\ ending[r].verified = "ok" THEN "completed" ELSE "failed", "nothing"} :
           Becomes(r, [ending[r] EXCEPT !.pc = "report", !.told = told])
    BY <1>8 DEF Submit
  <2> DEFINE e == [ending[r] EXCEPT !.pc = "report", !.told = told]
  <2>2. e.told = told /\ e.end = ending[r].end /\ e.pc = "report"
    BY <1>0 DEF RunRecords
  <2>3. told = "completed" => Fulfilled(r)
    BY <1>8, <2>1 DEF Submit, ClaimIsTrue
  <2>4. Becomes(r, e)
    BY <2>1
  <2> HIDE DEF e
  <2> QED
    BY <1>2, <2>2, <2>3, <2>4 DEF Fulfilled, Late
<1>9. ASSUME NEW r \in Runs, ReleaseAtShutdown(r) PROVE \A q \in Runs : ClaimIsTrue(q)'
  <2> DEFINE e == [ending[r] EXCEPT !.pc = "over", !.told = "nothing"]
  <2>1. e.told = "nothing" /\ e.pc = "over"
    BY <1>0 DEF RunRecords
  <2>2. Becomes(r, e)
    BY <1>9 DEF ReleaseAtShutdown
  <2> HIDE DEF e
  <2> QED
    BY <1>2, <2>1, <2>2
<1>10. ASSUME NEW r \in Runs, Report(r) PROVE \A q \in Runs : ClaimIsTrue(q)'
  <2>1. PICK pc \in {"dedup", "write"}, shown \in {Status(r)} : Becomes(r, [ending[r] EXCEPT !.shown = shown, !.tries = 0, !.since = 0, !.pc = pc])
    BY <1>10 DEF Report
  <2> DEFINE e == [ending[r] EXCEPT !.shown = shown, !.tries = 0, !.since = 0, !.pc = pc]
  <2>2. e.told = ending[r].told /\ e.end = ending[r].end /\ e.pc = pc
    BY <1>0 DEF RunRecords
  <2> HIDE DEF e
  <2> QED
    BY <1>3, <2>1, <2>2 DEF Late, e
<1>11. ASSUME NEW r \in Runs, tryDedup(r) \/ EditComment(r) \/ RecordComment(r) PROVE \A q \in Runs : ClaimIsTrue(q)'
  <2>1. \E pc \in {"edit", "write", "over"} : Goto(r, pc)
    BY <1>11 DEF tryDedup, EditComment, RecordComment
  <2> QED
    BY <1>4, <2>1 DEF ReportPcs, Early, Late
<1>12. ASSUME NEW r \in Runs, WriteComment(r) \/ RateLimited(r) PROVE \A q \in Runs : ClaimIsTrue(q)'
  <2>1. ending[r].pc \in {"started", "human", "write", "verdict"}
    BY <1>12 DEF WriteComment, RateLimited
  <2>2. \A w \in BOOLEAN : /\ AfterWrite(r, w) \in {"works", "verify", "record", "verdict", "over"}
                           /\ ending[r].pc \in Late => AfterWrite(r, w) \in Late
    BY <2>1 DEF AfterWrite, Late
  <2>3. CASE Goto(r, AfterWrite(r, FALSE))
    BY <1>4, <2>2, <2>3 DEF ReportPcs, Early
  <2>4. CASE Becomes(r, [ending[r] EXCEPT !.pc = AfterWrite(r, TRUE), !.tries = 0,
                                          !.wrote = IF AfterWrite(r, TRUE) = "record" THEN Len(posts) + 1 ELSE 0])
    <3> DEFINE pc == AfterWrite(r, TRUE)
               n == IF pc = "record" THEN Len(posts) + 1 ELSE 0
               e == [ending[r] EXCEPT !.pc = pc, !.tries = 0, !.wrote = n]
    <3>1. pc \in {"works", "verify", "record", "verdict", "over"} /\ (ending[r].pc \in Late => pc \in Late)
      BY <2>2
    <3> HIDE DEF pc, n
    <3>2. e.told = ending[r].told /\ e.end = ending[r].end /\ e.pc = pc
      BY <1>0 DEF RunRecords
    <3>3. Becomes(r, e)
      BY <2>4 DEF pc, n
    <3> HIDE DEF e
    <3> QED
      BY <1>3, <3>1, <3>2, <3>3
  <2>5. CASE Becomes(r, [ending[r] EXCEPT !.tries = (@ + 1) % (RetryLimit + 1)])
    <3> DEFINE e == [ending[r] EXCEPT !.tries = (@ + 1) % (RetryLimit + 1)]
    <3>1. e.told = ending[r].told /\ e.end = ending[r].end /\ e.pc = ending[r].pc
      BY <1>0 DEF RunRecords
    <3> HIDE DEF e
    <3> QED
      BY <1>3, <2>1, <2>5, <3>1 DEF e
  <2> QED
    BY <1>12, <2>3, <2>4, <2>5 DEF WriteComment, RateLimited
<1> QED
    BY <1>1, <1>5, <1>6, <1>7, <1>8, <1>9, <1>10, <1>11, <1>12 DEF ReportNext, RunStep, reportVars, DeleteComment, TickReport

(* What the coordinator is told of as completed did what it claimed, but for *)
(* comments: claims that could not be looked up count as unmet (Verify), and *)
(* the end of a run does not change between the check and the submission.    *)
THEOREM CompletedIsTrue == ReportSpec => []ClaimsAreTrue
<1>1. ReportInit => \A r \in Runs : ClaimIsTrue(r)
    BY DEF ReportInit, ClaimIsTrue
<1>2. (\A r \in Runs : ClaimIsTrue(r)) => ClaimsAreTrue
    BY DEF ClaimIsTrue, ClaimsAreTrue, Fulfilled
<1>3. ReportInv /\ (\A r \in Runs : ClaimIsTrue(r)) /\ [ReportNext]_reportVars => (\A r \in Runs : ClaimIsTrue(r))'
    BY ClaimsStep
<1> QED
    BY <1>1, <1>2, <1>3, ReportsCorrect, PTL DEF ReportSpec

-----------------------------------------------------------------------------
(* Sandboxed runs (SandboxRuns).                                             *)

(* What the validation of a run that has ended says is right.                *)
Judged(s, r) ==
    Cardinality(r.pre) = 1 =>
        /\ (r.class = "human") <=> (r.post = r.pre /\ r.out.kind \in {"none", "success"} /\ r.post # {"failed"})
        /\ (r.class = "ok") <=> \E l \in Labels \ (r.pre \cup {"failed"}) : r.post = {l} /\ l \in Transitions[Trigger[s]]

(* A run remembers the labels it began with, its trigger among them, and is  *)
(* judged when it is over; a label that it is to write is a state.           *)
RunIsSound(s, r) ==
    /\ DOMAIN r = DOMAIN NoRun
    /\ r.pre \subseteq Labels /\ r.out \in Outputs
    /\ r.pc # "idle" => Trigger[s] \in r.pre
    /\ r.pc \in {"check", "list", "edit"} => r.out.next \in Labels
    /\ r.class # "none" => r.pc = "over" /\ Judged(s, r)

(* Nobody edited between the list and the edit of a run, or it is known.     *)
ListIsFresh ==
    ~disturbed => /\ \E l \in Labels : labels = {l}
                  /\ \A s \in Sandboxed : sandbox[s].pc = "edit" =>
                        sandbox[s].listed = labels \ {sandbox[s].out.next}

SandInv ==
    /\ labels \subseteq Labels
    /\ DOMAIN sandbox = Sandboxed
    /\ \A s \in Sandboxed : RunIsSound(s, sandbox[s])
    /\ ListIsFresh

LEMMA LabelsFinite == IsFiniteSet(Labels) /\ StateOrder \in Seq(Labels)
<1>1. StateOrder \in Seq(Labels)
    BY SandboxAssumption
<1>2. StateOrder \in [1 .. Len(StateOrder) -> Labels] /\ Len(StateOrder) \in Nat
    BY <1>1
<1>3. Labels = {StateOrder[i] : i \in 1 .. Len(StateOrder)}
    BY <1>1 DEF Labels, ToSet
<1>4. StateOrder \in Surjection(1 .. Len(StateOrder), Labels)
    BY <1>2, <1>3 DEF Surjection
<1>5. IsFiniteSet(1 .. Len(StateOrder))
    BY <1>2, FS_Interval
<1> QED
    BY <1>1, <1>4, <1>5, FS_Surjection

(* The first of one state.                                                   *)
LEMMA FirstOfOne ==
    ASSUME NEW l \in Labels
    PROVE  First({l}) = l
<1>1. PICK i \in DOMAIN StateOrder : StateOrder[i] = l
    BY DEF Labels, ToSet
<1>2. DOMAIN StateOrder = 1 .. Len(StateOrder) /\ Len(StateOrder) \in Nat
    BY LabelsFinite
<1>3. \A m \in 1 .. i - 1 : StateOrder[m] # l
    BY <1>1, <1>2, SandboxAssumption
<1>4. \E n \in DOMAIN StateOrder : StateOrder[n] \in {l} /\ \A m \in 1 .. n - 1 : StateOrder[m] \notin {l}
    BY <1>1, <1>3
<1> QED
    BY <1>4 DEF First

LEMMA SingleSet ==
    ASSUME NEW S \in SUBSET Labels, Cardinality(S) = 1
    PROVE  \E l \in Labels : S = {l}
<1>1. IsFiniteSet(S)
    BY LabelsFinite, FS_Subset
<1>2. \E l : S = {l}
    BY <1>1, FS_Singleton
<1> QED
    BY <1>2

LEMMA SingleCardinality ==
    ASSUME NEW l
    PROVE  Cardinality({l}) = 1
    BY FS_Singleton

(* The validation itself.                                                    *)
LEMMA ClassifyRight ==
    ASSUME NEW s \in Sandboxed, NEW r, r.pre \subseteq Labels, Trigger[s] \in r.pre, r.post \subseteq Labels,
           r.class = Classify(r.pre, r.post, r.out.kind \in {"none", "success"}, Trigger[s])
    PROVE  Judged(s, r)
<1> SUFFICES ASSUME Cardinality(r.pre) = 1
             PROVE  /\ (r.class = "human") <=> (r.post = r.pre /\ r.out.kind \in {"none", "success"} /\ r.post # {"failed"})
                    /\ (r.class = "ok") <=> \E l \in Labels \ (r.pre \cup {"failed"}) : r.post = {l} /\ l \in Transitions[Trigger[s]]
    BY DEF Judged
<1> DEFINE cur == Trigger[s]
<1>1. r.pre = {cur} /\ cur \in Labels
    BY SingleSet
<1>2. matchStates(r.pre) = {cur} /\ matchStates(r.post) = r.post
    BY <1>1 DEF matchStates
<1>3. ResolveCurrent(r.pre, cur) = cur
    BY <1>1, <1>2, FirstOfOne DEF ResolveCurrent, selectPrimary
<1> HIDE DEF cur
<1>4. r.class = IF "failed" \in r.post THEN "failed"
                ELSE IF r.post = {cur} THEN (IF r.out.kind \in {"none", "success"} THEN "human" ELSE "retry")
                ELSE IF Cardinality(r.post) = 1 /\ r.post \subseteq Transitions[cur] THEN "ok" ELSE "unexpected"
    BY <1>2, <1>3 DEF Classify, cur
<1>5. (r.class = "human") <=> (r.post = r.pre /\ r.out.kind \in {"none", "success"} /\ r.post # {"failed"})
    BY <1>1, <1>4
<1>6. (r.class = "ok") <=> \E l \in Labels \ (r.pre \cup {"failed"}) : r.post = {l} /\ l \in Transitions[cur]
  <2>1. ASSUME r.class = "ok"
        PROVE  \E l \in Labels \ (r.pre \cup {"failed"}) : r.post = {l} /\ l \in Transitions[cur]
    <3>1. Cardinality(r.post) = 1 /\ r.post \subseteq Transitions[cur] /\ "failed" \notin r.post /\ r.post # {cur}
      BY <1>4, <2>1
    <3>2. PICK l \in Labels : r.post = {l}
      BY <3>1, SingleSet
    <3> QED
      BY <1>1, <3>1, <3>2
  <2>2. ASSUME NEW l \in Labels \ (r.pre \cup {"failed"}), r.post = {l}, l \in Transitions[cur]
        PROVE  r.class = "ok"
    BY <1>1, <1>4, <2>2, SingleCardinality
  <2> QED
    BY <2>1, <2>2
<1> QED
    BY <1>5, <1>6 DEF cur

(* One run changes, and the labels are what its list says they are.          *)
LEMMA MoveKeeps ==
    ASSUME SandInv, NEW s \in Sandboxed, NEW r, Move(s, r), RunIsSound(s, r), UNCHANGED labels,
           disturbed' = disturbed \/ disturbed' = TRUE,
           r.pc = "edit" => disturbed' = TRUE \/ r.listed = labels \ {r.out.next}
    PROVE  SandInv'
<1>1. DOMAIN sandbox' = Sandboxed /\ sandbox'[s] = r /\ \A t \in Sandboxed \ {s} : sandbox'[t] = sandbox[t]
    BY DEF Move, SandInv
<1>2. \A t \in Sandboxed : RunIsSound(t, sandbox'[t])
    BY <1>1 DEF SandInv
<1>3. ListIsFresh'
    BY <1>1 DEF SandInv, ListIsFresh
<1>4. (\A t \in Sandboxed : RunIsSound(t, sandbox[t]))'
    BY <1>2 DEF RunIsSound, Judged
<1> QED
    BY <1>1, <1>3, <1>4 DEF SandInv

LEMMA NoRunFields ==
    /\ DOMAIN NoRun = {"pc", "round", "unmet", "out", "listed", "pre", "post", "class", "cancelled", "exited", "closed", "tmp"}
    /\ NoRun.class = "none" /\ NoRun.out = NoOutput /\ NoOutput \in Outputs
    BY DEF NoRun, NoOutput, Outputs

LEMMA OutputFacts ==
    ASSUME NEW o \in Outputs
    PROVE  (o.next # "" => o.next \in Labels) /\ [kind |-> o.kind, next |-> ""] \in Outputs
<1>1. CASE o = NoOutput
    BY <1>1 DEF Outputs, NoOutput
<1>2. CASE o = [kind |-> "bad", next |-> ""]
    BY <1>2 DEF Outputs
<1>3. CASE o \in [kind : {"success", "failure"}, next : Labels \cup {""}]
  <2>1. o.kind \in {"success", "failure"} /\ o.next \in Labels \cup {""} /\ "" \in Labels \cup {""}
    BY <1>3
  <2>2. [kind |-> o.kind, next |-> ""] \in [kind : {"success", "failure"}, next : Labels \cup {""}]
    BY <2>1
  <2> QED
    BY <2>1, <2>2 DEF Outputs
<1> QED
    BY <1>1, <1>2, <1>3 DEF Outputs

(* Steps of the process and its session.                                     *)
LEMMA ProcessKeeps ==
    ASSUME SandInv, NEW s \in Sandboxed, NewSession(s) \/ ProcessExits(s) \/ CancelRun(s)
    PROVE  SandInv'
<1>1. UNCHANGED <<labels, disturbed>>
    BY DEF NewSession, ProcessExits, CancelRun
<1>2. RunIsSound(s, sandbox[s]) /\ labels \subseteq Labels
    BY DEF SandInv
<1>3. CASE NewSession(s)
  <2> DEFINE r == [NoRun EXCEPT !.pc = "runs", !.round = 1, !.pre = labels, !.tmp = TRUE]
  <2>1. Move(s, r) /\ Trigger[s] \in labels
    BY <1>3 DEF NewSession
  <2>2. DOMAIN r = DOMAIN NoRun /\ r.pc = "runs" /\ r.pre = labels /\ r.class = "none" /\ r.out = NoOutput
    BY NoRunFields
  <2> HIDE DEF r
  <2>3. RunIsSound(s, r)
    BY <1>2, <2>1, <2>2, NoRunFields DEF RunIsSound
  <2> QED
    BY <1>1, <2>1, <2>2, <2>3, MoveKeeps
<1>4. CASE ProcessExits(s)
  <2>1. PICK first \in Outputs, last \in Outputs : \E tmp :
            Move(s, [[sandbox[s] EXCEPT !.exited = TRUE, !.out = scanStdout(first, last)] EXCEPT !.tmp = tmp])
    BY <1>4 DEF ProcessExits
  <2>2. PICK tmp :
            Move(s, [[sandbox[s] EXCEPT !.exited = TRUE, !.out = scanStdout(first, last)] EXCEPT !.tmp = tmp])
    BY <2>1
  <2> DEFINE out == scanStdout(first, last)
             r == [[sandbox[s] EXCEPT !.exited = TRUE, !.out = out] EXCEPT !.tmp = tmp]
  <2>3. out \in Outputs
    BY DEF scanStdout
  <2>4. sandbox[s].pc = "runs" /\ sandbox[s].class = "none"
    BY <1>2, <1>4 DEF ProcessExits, RunIsSound
  <2>5. Move(s, r)
    BY <2>2
  <2> HIDE DEF out
  <2>6. DOMAIN r = DOMAIN NoRun /\ r.pc = "runs" /\ r.pre = sandbox[s].pre /\ r.class = "none" /\ r.out = out
    BY <1>2, <2>4, NoRunFields DEF RunIsSound
  <2> HIDE DEF r
  <2>7. RunIsSound(s, r)
    BY <1>2, <2>3, <2>4, <2>6 DEF RunIsSound
  <2> QED
    BY <1>1, <2>5, <2>6, <2>7, MoveKeeps
<1>5. CASE CancelRun(s)
  <2>1. PICK tmp : Move(s, [[sandbox[s] EXCEPT !.cancelled = TRUE, !.closed = TRUE] EXCEPT !.tmp = tmp])
    BY <1>5 DEF CancelRun
  <2> DEFINE r == [[sandbox[s] EXCEPT !.cancelled = TRUE, !.closed = TRUE] EXCEPT !.tmp = tmp]
  <2>2. sandbox[s].pc = "runs" /\ sandbox[s].class = "none"
    BY <1>2, <1>5 DEF CancelRun, RunIsSound
  <2>3. Move(s, r)
    BY <2>1
  <2>4. DOMAIN r = DOMAIN NoRun /\ r.pc = "runs" /\ r.pre = sandbox[s].pre /\ r.class = "none" /\ r.out = sandbox[s].out
    BY <1>2, <2>2, NoRunFields DEF RunIsSound
  <2> HIDE DEF r
  <2>5. RunIsSound(s, r)
    BY <1>2, <2>2, <2>4 DEF RunIsSound
  <2> QED
    BY <1>1, <2>3, <2>4, <2>5, MoveKeeps
<1> QED
    BY <1>3, <1>4, <1>5

(* A run on its way to the edit of the label.                                *)
LEMMA PhaseKeeps ==
    ASSUME SandInv, NEW s \in Sandboxed, NEW pc \in {"check", "list", "observe"},
           Move(s, [sandbox[s] EXCEPT !.pc = pc]), UNCHANGED <<labels, disturbed>>,
           sandbox[s].pc \in {"runs", "check"}, pc \in {"check", "list"} => sandbox[s].out.next \in Labels
    PROVE  SandInv'
<1>1. RunIsSound(s, sandbox[s])
    BY DEF SandInv
<1> DEFINE r == [sandbox[s] EXCEPT !.pc = pc]
<1>2. /\ DOMAIN r = DOMAIN NoRun /\ r.pc = pc /\ r.pre = sandbox[s].pre /\ r.class = sandbox[s].class
      /\ r.out = sandbox[s].out
    BY <1>1, NoRunFields DEF RunIsSound
<1>3. Move(s, r)
    OBVIOUS
<1> HIDE DEF r
<1>4. RunIsSound(s, r)
    BY <1>1, <1>2 DEF RunIsSound
<1> QED
    BY <1>2, <1>3, <1>4, MoveKeeps

LEMMA ResolveKeeps ==
    ASSUME SandInv, NEW s \in Sandboxed, Resolve(s) \/ Check(s)
    PROVE  SandInv'
<1>1. RunIsSound(s, sandbox[s])
    BY DEF SandInv
<1>2. CASE Resolve(s)
  <2>1. sandbox[s].out.next # "" => sandbox[s].out.next \in Labels
    BY <1>1, OutputFacts DEF RunIsSound
  <2>2. PICK pc \in {"check", "observe"} :
            Move(s, [sandbox[s] EXCEPT !.pc = pc]) /\ (pc = "check" => sandbox[s].out.next # "")
    BY <1>2 DEF Resolve
  <2>3. UNCHANGED <<labels, disturbed>> /\ sandbox[s].pc = "runs"
    BY <1>2 DEF Resolve
  <2> QED
    BY <2>1, <2>2, <2>3, PhaseKeeps
<1>3. CASE Check(s)
  <2>1. PICK pc \in {"list", "observe"} : Move(s, [sandbox[s] EXCEPT !.pc = pc])
    BY <1>3 DEF Check
  <2>2. UNCHANGED <<labels, disturbed>> /\ sandbox[s].pc = "check" /\ sandbox[s].out.next \in Labels
    BY <1>1, <1>3 DEF Check, RunIsSound
  <2> QED
    BY <2>1, <2>2, PhaseKeeps
<1> QED
    BY <1>2, <1>3

LEMMA ListKeeps ==
    ASSUME SandInv, NEW s \in Sandboxed, List(s)
    PROVE  SandInv'
<1>1. RunIsSound(s, sandbox[s]) /\ sandbox[s].pc = "list" /\ UNCHANGED labels
    BY DEF SandInv, List
<1>2. PICK listed : /\ Move(s, [sandbox[s] EXCEPT !.pc = "edit", !.listed = listed])
                    /\ \/ listed = labels \ {sandbox[s].out.next} /\ disturbed' = disturbed
                       \/ disturbed' = TRUE
    BY DEF List, staleStatusLabels
<1> DEFINE r == [sandbox[s] EXCEPT !.pc = "edit", !.listed = listed]
<1>3. /\ DOMAIN r = DOMAIN NoRun /\ r.pc = "edit" /\ r.pre = sandbox[s].pre /\ r.class = sandbox[s].class
      /\ r.out = sandbox[s].out /\ r.listed = listed
    BY <1>1, NoRunFields DEF RunIsSound
<1>4. Move(s, r)
    BY <1>2
<1> HIDE DEF r
<1>5. RunIsSound(s, r)
    BY <1>1, <1>3 DEF RunIsSound
<1> QED
    BY <1>1, <1>2, <1>3, <1>4, <1>5, MoveKeeps

(* The edit replaces the one label by the next one, unless another writer    *)
(* came between; then the others know.                                       *)
LEMMA EditLabelKeeps ==
    ASSUME SandInv, NEW s \in Sandboxed, Edit(s)
    PROVE  SandInv'
<1>1. /\ RunIsSound(s, sandbox[s]) /\ sandbox[s].pc = "edit" /\ sandbox[s].out.next \in Labels
      /\ labels \subseteq Labels /\ DOMAIN sandbox = Sandboxed /\ ListIsFresh
    BY DEF SandInv, Edit, RunIsSound
<1> DEFINE r == [sandbox[s] EXCEPT !.pc = "observe", !.listed = {}]
<1>2. /\ DOMAIN r = DOMAIN NoRun /\ r.pc = "observe" /\ r.pre = sandbox[s].pre /\ r.class = sandbox[s].class
      /\ r.out = sandbox[s].out
    BY <1>1, NoRunFields DEF RunIsSound
<1>3. Move(s, r)
    BY DEF Edit
<1> HIDE DEF r
<1>4. RunIsSound(s, r)
    BY <1>1, <1>2 DEF RunIsSound
<1>5. CASE UNCHANGED <<labels, disturbed>>
    BY <1>2, <1>3, <1>4, <1>5, MoveKeeps
<1>6. CASE /\ labels' = (labels \cup {sandbox[s].out.next}) \ sandbox[s].listed
           /\ disturbed' = (disturbed \/ Between(s))
  <2>1. labels' \subseteq Labels
    BY <1>1, <1>6
  <2>2. sandbox'[s] = r /\ DOMAIN sandbox' = Sandboxed /\ \A t \in Sandboxed \ {s} : sandbox'[t] = sandbox[t]
    BY <1>1, <1>3 DEF Move
  <2>3. (\A t \in Sandboxed : RunIsSound(t, sandbox[t]))'
    <3>1. \A t \in Sandboxed : RunIsSound(t, sandbox'[t])
      BY <1>4, <2>2 DEF SandInv
    <3> QED
      BY <3>1 DEF RunIsSound, Judged
  <2>4. ASSUME ~disturbed'
        PROVE  labels' = {sandbox[s].out.next} /\ \A t \in Sandboxed : sandbox'[t].pc # "edit"
    <3>1. ~disturbed /\ ~Between(s)
      BY <1>6, <2>4
    <3>2. sandbox[s].listed = labels \ {sandbox[s].out.next}
      BY <1>1, <3>1 DEF ListIsFresh
    <3>3. labels' = {sandbox[s].out.next}
      BY <1>6, <3>2
    <3>4. \A t \in Sandboxed : sandbox'[t].pc # "edit"
      BY <1>2, <2>2, <3>1 DEF Between
    <3> QED
      BY <3>3, <3>4
  <2>5. ListIsFresh'
    BY <1>1, <2>4 DEF ListIsFresh
  <2> QED
    BY <2>1, <2>2, <2>3, <2>5 DEF SandInv
<1> QED
    BY <1>5, <1>6 DEF Edit

LEMMA PersonKeeps ==
    ASSUME SandInv, PersonMoves
    PROVE  SandInv'
<1>1. PICK l \in Labels : labels' = {l}
    BY DEF PersonMoves
<1>2. UNCHANGED sandbox /\ disturbed' = (disturbed \/ \E t \in Sandboxed : sandbox[t].pc = "edit")
    BY DEF PersonMoves
<1>3. ListIsFresh'
    BY <1>1, <1>2 DEF ListIsFresh
<1>4. (\A t \in Sandboxed : RunIsSound(t, sandbox[t]))'
    BY <1>2 DEF SandInv, RunIsSound, Judged
<1> QED
    BY <1>1, <1>2, <1>3, <1>4 DEF SandInv

(* The loop ends or starts the agent again.                                  *)
LEMMA ObserveKeeps ==
    ASSUME SandInv, NEW s \in Sandboxed, Observe(s)
    PROVE  SandInv'
<1>1. RunIsSound(s, sandbox[s]) /\ UNCHANGED <<labels, disturbed>> /\ sandbox[s].pc = "observe"
    BY DEF SandInv, Observe
<1> DEFINE r == sandbox[s]
           ended == [r EXCEPT !.pc = "ends", !.round = 0, !.unmet = {}, !.out = [kind |-> r.out.kind, next |-> ""]]
<1>2. Move(s, ended) \/ \E unmet : Move(s, Resumed(r, unmet))
    BY DEF Observe
<1>3. CASE Move(s, ended)
  <2>1. [kind |-> r.out.kind, next |-> ""] \in Outputs
    BY <1>1, OutputFacts DEF RunIsSound
  <2>2. /\ DOMAIN ended = DOMAIN NoRun /\ ended.pc = "ends" /\ ended.pre = r.pre /\ ended.class = r.class
        /\ ended.out = [kind |-> r.out.kind, next |-> ""]
    BY <1>1, NoRunFields DEF RunIsSound
  <2> HIDE DEF ended
  <2>3. RunIsSound(s, ended)
    BY <1>1, <2>1, <2>2 DEF RunIsSound
  <2> QED
    BY <1>1, <1>3, <2>2, <2>3, MoveKeeps
<1>4. ASSUME NEW unmet, Move(s, Resumed(r, unmet))
      PROVE  SandInv'
  <2> DEFINE again == Resumed(r, unmet)
  <2>1. /\ DOMAIN again = DOMAIN NoRun /\ again.pc = "runs" /\ again.pre = r.pre /\ again.class = "none"
        /\ again.out = NoOutput
    BY NoRunFields DEF Resumed
  <2> HIDE DEF again
  <2>2. RunIsSound(s, again)
    BY <1>1, <2>1, NoRunFields DEF RunIsSound
  <2> QED
    BY <1>1, <1>4, <2>1, <2>2, MoveKeeps DEF again
<1> QED
    BY <1>2, <1>3, <1>4

(* The validation judges the labels of now.                                  *)
LEMMA FinalizeKeeps ==
    ASSUME SandInv, NEW s \in Sandboxed, Finalize(s)
    PROVE  SandInv'
<1>1. /\ RunIsSound(s, sandbox[s]) /\ UNCHANGED <<labels, disturbed>> /\ sandbox[s].pc = "ends" /\ labels \subseteq Labels
    BY DEF SandInv, Finalize
<1> DEFINE verdict == Classify(sandbox[s].pre, labels, sandbox[s].out.kind \in {"none", "success"}, Trigger[s])
           next(post, class, tmp) == [[sandbox[s] EXCEPT !.pc = "over", !.closed = TRUE, !.post = post, !.class = class]
                                         EXCEPT !.tmp = tmp]
<1>2. \E tmp : Move(s, next(labels, verdict, tmp)) \/ Move(s, next({}, "none", tmp))
    BY DEF Finalize
<1>3. ASSUME NEW post, NEW class, NEW tmp
      PROVE  /\ DOMAIN next(post, class, tmp) = DOMAIN NoRun /\ next(post, class, tmp).pc = "over"
             /\ next(post, class, tmp).pre = sandbox[s].pre /\ next(post, class, tmp).class = class
             /\ next(post, class, tmp).out = sandbox[s].out /\ next(post, class, tmp).post = post
    BY <1>1, NoRunFields DEF RunIsSound
<1>4. ASSUME NEW tmp, Move(s, next({}, "none", tmp))
      PROVE  SandInv'
  <2> DEFINE r == next({}, "none", tmp)
  <2>1. /\ DOMAIN r = DOMAIN NoRun /\ r.pc = "over" /\ r.pre = sandbox[s].pre /\ r.out = sandbox[s].out
        /\ r.class = "none"
    BY <1>3
  <2>2. Move(s, r)
    BY <1>4
  <2> HIDE DEF r
  <2>3. RunIsSound(s, r)
    BY <1>1, <2>1 DEF RunIsSound
  <2> QED
    BY <1>1, <2>1, <2>2, <2>3, MoveKeeps
<1>5. ASSUME NEW tmp, Move(s, next(labels, verdict, tmp))
      PROVE  SandInv'
  <2> DEFINE r == next(labels, verdict, tmp)
  <2>1. /\ DOMAIN r = DOMAIN NoRun /\ r.pc = "over" /\ r.pre = sandbox[s].pre /\ r.out = sandbox[s].out /\ r.post = labels
        /\ r.class = Classify(r.pre, r.post, r.out.kind \in {"none", "success"}, Trigger[s])
    BY <1>3
  <2> HIDE DEF r
  <2>2. Judged(s, r)
    BY <1>1, <2>1, ClassifyRight DEF RunIsSound
  <2>3. RunIsSound(s, r)
    BY <1>1, <2>1, <2>2 DEF RunIsSound
  <2> QED
    BY <1>1, <1>5, <2>1, <2>3, MoveKeeps DEF r
<1> QED
    BY <1>2, <1>4, <1>5

(* What a run remembers, and what the writers of the label know.             *)
THEOREM SandboxCorrect == SandSpec => []SandInv
<1>1. SandInit => SandInv
  <2> SUFFICES ASSUME SandInit
               PROVE  SandInv
    OBVIOUS
  <2>1. PICK s \in Sandboxed : labels = {Trigger[s]}
    BY DEF SandInit
  <2>2. Trigger[s] \in Labels
    BY SandboxAssumption
  <2>3. DOMAIN sandbox = Sandboxed /\ \A t \in Sandboxed : sandbox[t] = NoRun
    BY DEF SandInit
  <2>4. NoRun.pc = "idle" /\ NoRun.pre = {}
    BY DEF NoRun
  <2>5. \A t \in Sandboxed : RunIsSound(t, sandbox[t])
    BY <2>3, <2>4, NoRunFields DEF RunIsSound
  <2> QED
    BY <2>1, <2>2, <2>3, <2>4, <2>5 DEF SandInv, ListIsFresh
<1>2. SandInv /\ [SandNext]_sandVars => SandInv'
  <2> SUFFICES ASSUME SandInv, [SandNext]_sandVars
               PROVE  SandInv'
    OBVIOUS
  <2>1. ASSUME NEW s \in Sandboxed, NewSession(s) \/ CancelRun(s) \/ SandStep(s)
        PROVE  SandInv'
    BY <2>1, ProcessKeeps, ResolveKeeps, ListKeeps, EditLabelKeeps, ObserveKeeps, FinalizeKeeps DEF SandStep
  <2>2. CASE UNCHANGED sandVars
    <3>1. UNCHANGED <<sandbox, labels, disturbed>>
      BY <2>2 DEF sandVars
    <3> QED
      BY <3>1 DEF SandInv, RunIsSound, Judged, ListIsFresh
  <2> QED
    BY <2>1, <2>2, PersonKeeps DEF SandNext
<1> QED
    BY <1>1, <1>2, PTL DEF SandSpec

(* The verdict on a run that began with one status label (Classify): a human *)
(* is called for exactly when it succeeded and the issue is where it began, a*)
(* transition is approved exactly when the workflow allows it, whatever other*)
(* runs and people did to the labels.                                        *)
THEOREM ValidationRight == SandSpec => []ValidationIsRight
<1>1. SandInv => ValidationIsRight
    BY DEF SandInv, RunIsSound, Judged, ValidationIsRight
<1> QED
    BY <1>1, SandboxCorrect, PTL

(* The issue has one status label unless a list failed or another writer came*)
(* between a list and an edit (applyViaGH, staleStatusLabels).               *)
THEOREM OneLabel == SandSpec => []OneStatusLabel
<1>1. SandInv => OneStatusLabel
    BY SingleCardinality DEF SandInv, ListIsFresh, OneStatusLabel
<1> QED
    BY <1>1, SandboxCorrect, PTL

-----------------------------------------------------------------------------
(* The operator's incidents (OperatorInbox).                                 *)

Alerts == [kind : Rules, ts : Nat]
Logged == {alertLog[i] : i \in 1 .. Len(alertLog)}
DetectorPcs == {"off", "idle", "emit", "write", "chmod", "ended", "failed"}

InboxTypes ==
    /\ now \in Nat /\ alertLog \in Seq(Alerts)
    /\ detector \in [pc : DetectorPcs, startup : BOOLEAN, queue : Seq(Alerts), since : Nat]
    /\ box \in [{"inbox", "processing", "processed", "failed"} -> SUBSET Alerts]
    /\ watch \in [Watchers -> [pc : {"down", "scan", "run"}, file : Alerts \cup {NoIncident}]]

\* The log is in the order of detection and has no alert twice.
LogIsOrdered ==
    /\ \A i \in 1 .. Len(alertLog) : alertLog[i].ts <= now
    /\ \A i, j \in 1 .. Len(alertLog) : i < j => alertLog[i].ts <= alertLog[j].ts /\ alertLog[i] # alertLog[j]

\* What is left of a pass was found at one time, after all that is logged.
QueueIsLatest ==
    /\ detector.pc \in {"emit", "write", "chmod"} => detector.queue # <<>>
    /\ \A n \in 1 .. Len(detector.queue) :
         /\ detector.queue[n].ts = detector.queue[1].ts /\ detector.queue[n].ts <= now
         /\ \A i \in 1 .. Len(alertLog) : alertLog[i].ts <= detector.queue[n].ts

\* What lies in the inbox has not been handed out; what is about to be written
\* there is neither there nor has been handed out.
InboxIsNew ==
    /\ box.inbox \cup handed \subseteq Logged /\ box.inbox \cap handed = {}
    /\ detector.pc = "write" => Head(detector.queue) \in Logged /\ Head(detector.queue) \notin box.inbox \cup handed

InboxInv == InboxTypes /\ LogIsOrdered /\ QueueIsLatest /\ InboxIsNew

LEMMA RulesFinite == IsFiniteSet(Rules)
<1>1. IsFiniteSet({})
    BY FS_EmptySet
<1>2. IsFiniteSet({} \cup {"lease_expired"})
    BY <1>1, FS_AddElement
<1>3. IsFiniteSet({} \cup {"lease_expired"} \cup {"task_stuck"})
    BY <1>2, FS_AddElement
<1>4. IsFiniteSet({} \cup {"lease_expired"} \cup {"task_stuck"} \cup {"missing_label"})
    BY <1>3, FS_AddElement
<1>5. IsFiniteSet({} \cup {"lease_expired"} \cup {"task_stuck"} \cup {"missing_label"} \cup {"cache_stale"})
    BY <1>4, FS_AddElement
<1>6. IsFiniteSet({} \cup {"lease_expired"} \cup {"task_stuck"} \cup {"missing_label"} \cup {"cache_stale"}
                     \cup {"coordinator_restart_gap"})
    BY <1>5, FS_AddElement
<1>7. IsFiniteSet({} \cup {"lease_expired"} \cup {"task_stuck"} \cup {"missing_label"} \cup {"cache_stale"}
                     \cup {"coordinator_restart_gap"} \cup {"worker_missing"})
    BY <1>6, FS_AddElement
<1>8. Rules = {} \cup {"lease_expired"} \cup {"task_stuck"} \cup {"missing_label"} \cup {"cache_stale"}
                     \cup {"coordinator_restart_gap"} \cup {"worker_missing"}
    BY DEF Rules
<1> QED
    BY <1>7, <1>8

\* An alert that the check does not find among the recent ones is not in the
\* log at all: the alerts logged after it would be of its time and all of
\* different kinds, more than there are.
LEMMA NotDuplicateIsNew ==
    ASSUME InboxInv, detector.pc = "emit", ~isDuplicate(Head(detector.queue))
    PROVE  Head(detector.queue) \notin Logged
<1> DEFINE a == Head(detector.queue)
           N == Len(alertLog)
<1> SUFFICES ASSUME NEW i \in 1 .. N, alertLog[i] = a PROVE FALSE
    BY DEF Logged
<1>1. N \in Nat /\ \A p \in 1 .. N : alertLog[p] \in Alerts
    BY DEF InboxInv, InboxTypes
<1>2. a = detector.queue[1] /\ 1 \in 1 .. Len(detector.queue)
    BY DEF InboxInv, InboxTypes, QueueIsLatest
<1>3. \A p \in i .. N : alertLog[p].ts = a.ts
  <2> SUFFICES ASSUME NEW p \in i .. N PROVE alertLog[p].ts = a.ts
    OBVIOUS
  <2>1. p \in 1 .. N /\ alertLog[p].ts \in Nat /\ alertLog[i].ts \in Nat
    BY <1>1 DEF Alerts
  <2>2. alertLog[p].ts <= a.ts
    BY <1>2, <2>1 DEF InboxInv, QueueIsLatest
  <2>3. alertLog[i].ts <= alertLog[p].ts
    BY <2>1, <1>1 DEF InboxInv, LogIsOrdered
  <2> QED
    BY <2>1, <2>2, <2>3
<1>4. a.ts + DedupWindow >= a.ts
    BY <1>1, InboxAssumption DEF Alerts
<1>5. i + RecentAlerts <= N
    BY <1>1, <1>4, InboxAssumption DEF isDuplicate
<1> DEFINE P == i .. (i + RecentAlerts)
           kindAt == [p \in P |-> alertLog[p].kind]
<1>6. P \subseteq i .. N /\ P \subseteq 1 .. N
    BY <1>1, <1>5, InboxAssumption
<1>7. IsFiniteSet(P) /\ Cardinality(P) = RecentAlerts + 1
  <2> DEFINE last == i + RecentAlerts
  <2>1. i \in Int /\ last \in Int /\ ~(i > last) /\ last - i + 1 = RecentAlerts + 1
    BY <1>1, InboxAssumption
  <2> HIDE DEF last
  <2>2. IsFiniteSet(i .. last) /\ Cardinality(i .. last) = last - i + 1
    BY <2>1, FS_Interval
  <2> QED
    BY <2>1, <2>2 DEF last
<1>8. kindAt \in [P -> Rules]
  <2> HIDE DEF P, N, kindAt
  <2>1. \A p \in P : alertLog[p] \in Alerts
    BY <1>1, <1>6
  <2>2. \A p \in P : alertLog[p].kind \in Rules
    BY <2>1 DEF Alerts
  <2> QED
    BY <2>2 DEF kindAt
<1>9. Cardinality(Rules) \in Nat /\ Cardinality(Rules) < Cardinality(P)
    BY <1>7, RulesFinite, FS_CardinalityType, InboxAssumption
<1> HIDE DEF P, a, N, kindAt
<1>10. PICK p, q \in P : p # q /\ kindAt[p] = kindAt[q]
    BY <1>7, <1>8, <1>9, RulesFinite, FS_PigeonHole
<1>11. alertLog[p].kind = alertLog[q].kind /\ alertLog[p].ts = alertLog[q].ts
    BY <1>3, <1>6, <1>10 DEF kindAt
<1>12. alertLog[p] = alertLog[q]
  <2>1. alertLog[p] \in Alerts /\ alertLog[q] \in Alerts
    BY <1>1, <1>6, <1>10
  <2>2. \A x, y \in Alerts : x.kind = y.kind /\ x.ts = y.ts => x = y
    BY DEF Alerts
  <2> QED
    BY <1>11, <2>1, <2>2
<1> QED
    BY <1>1, <1>6, <1>10, <1>12 DEF InboxInv, LogIsOrdered, N

LEMMA DetectedIsNow ==
    ASSUME NEW startup, now \in Nat
    PROVE  /\ Detected(startup) \in Seq(Alerts)
           /\ \A n \in 1 .. Len(Detected(startup)) : Detected(startup)[n].ts = now
<1> DEFINE Now == [kind : Rules, ts : {now}]
<1>1. \A k \in Rules : Found(k, startup) \in Seq(Now)
  <2> SUFFICES ASSUME NEW k \in Rules PROVE Found(k, startup) \in Seq(Now)
    OBVIOUS
  <2> DEFINE alert == [kind |-> k, ts |-> now]
  <2>1. alert \in Now
    OBVIOUS
  <2> HIDE DEF Now, alert
  <2>2. <<alert>> \in Seq(Now) /\ <<>> \in Seq(Now)
    BY <2>1
  <2> QED
    BY <2>2 DEF Found, alert
<1> HIDE DEF Now
<1>2. Detected(startup) \in Seq(Now)
    BY <1>1 DEF Detected, Rules
<1>3. \A a \in Now : a \in Alerts /\ a.ts = now
    BY DEF Now, Alerts
<1> QED
    BY <1>2, <1>3

\* A step that touches neither the detector's work nor the inbox.
LEMMA InboxRests ==
    ASSUME InboxInv, UNCHANGED <<alertLog, handed>>, now' \in Nat, now' >= now,
           box' \in [{"inbox", "processing", "processed", "failed"} -> SUBSET Alerts], box'.inbox = box.inbox,
           watch' \in [Watchers -> [pc : {"down", "scan", "run"}, file : Alerts \cup {NoIncident}]],
           \/ detector' = detector
           \/ /\ detector' \in [pc : DetectorPcs, startup : BOOLEAN, queue : Seq(Alerts), since : Nat]
              /\ detector'.queue = <<>> /\ detector'.pc \notin {"emit", "write", "chmod"}
    PROVE  InboxInv'
<1>1. InboxTypes'
    BY DEF InboxInv, InboxTypes
<1>2. \A i \in 1 .. Len(alertLog) : alertLog[i] \in Alerts
    BY DEF InboxInv, InboxTypes
<1>3. LogIsOrdered'
    BY <1>2 DEF InboxInv, InboxTypes, LogIsOrdered, Alerts
<1>4. QueueIsLatest'
  <2>1. CASE detector' = detector
    <3>1. \A n \in 1 .. Len(detector.queue) : detector.queue[n] \in Alerts
      BY DEF InboxInv, InboxTypes
    <3> QED
      BY <2>1, <3>1 DEF InboxInv, InboxTypes, QueueIsLatest, Alerts
  <2>2. CASE detector'.queue = <<>> /\ detector'.pc \notin {"emit", "write", "chmod"}
    BY <2>2 DEF QueueIsLatest
  <2> QED
    BY <2>1, <2>2
<1>5. InboxIsNew'
    BY DEF InboxInv, InboxIsNew, Logged
<1> QED
    BY <1>1, <1>3, <1>4, <1>5 DEF InboxInv

LEMMA RestingType ==
    ASSUME InboxTypes
    PROVE  \A pc \in DetectorPcs : \A d \in {Resting(detector), [Resting(detector) EXCEPT !.pc = pc]} :
              /\ d \in [pc : DetectorPcs, startup : BOOLEAN, queue : Seq(Alerts), since : Nat]
              /\ d.queue = <<>> /\ d.pc \in {"idle", pc}
<1>1. <<>> \in Seq(Alerts) /\ "idle" \in DetectorPcs
    BY DEF DetectorPcs
<1>2. detector \in [pc : DetectorPcs, startup : BOOLEAN, queue : Seq(Alerts), since : Nat]
    BY DEF InboxTypes
<1> DEFINE r == Resting(detector)
<1>3. r \in [pc : DetectorPcs, startup : BOOLEAN, queue : Seq(Alerts), since : Nat] /\ r.queue = <<>> /\ r.pc = "idle"
    BY <1>1, <1>2 DEF Resting
<1> HIDE DEF r
<1>4. ASSUME NEW pc \in DetectorPcs
      PROVE  LET d == [r EXCEPT !.pc = pc] IN
             /\ d \in [pc : DetectorPcs, startup : BOOLEAN, queue : Seq(Alerts), since : Nat]
             /\ d.queue = <<>> /\ d.pc = pc
    BY <1>3
<1> QED
    BY <1>3, <1>4 DEF r

LEMMA DetectorKeepsInboxInv ==
    ASSUME InboxInv, BootDetector \/ DetectorNext \/ DetectorFails
    PROVE  InboxInv'
<1> DEFINE Records == [pc : DetectorPcs, startup : BOOLEAN, queue : Seq(Alerts), since : Nat]
<1>0. /\ InboxTypes /\ detector \in Records /\ Len(alertLog) \in Nat /\ alertLog \in Seq(Alerts)
      /\ detector.queue \in Seq(Alerts) /\ now \in Nat
    BY DEF InboxInv, InboxTypes
<1>1. UNCHANGED <<now, watch, handed>>
    BY DEF BootDetector, DetectorNext, DetectorFails, RunPass, Emit, WriteInbox, ChmodInbox, Others
<1>2. /\ watch \in [Watchers -> [pc : {"down", "scan", "run"}, file : Alerts \cup {NoIncident}]]
      /\ box \in [{"inbox", "processing", "processed", "failed"} -> SUBSET Alerts]
    BY DEF InboxInv, InboxTypes
\* A detector that goes on to the next alert, or rests.
<1>3. ASSUME detector.pc \in {"emit", "write", "chmod"}, detector' = After(detector), UNCHANGED <<alertLog, box>>
      PROVE  InboxInv'
  <2>1. CASE Len(detector.queue) = 1
    <3>1. /\ detector' = Resting(detector)
      BY <1>3, <2>1 DEF After
    <3>2. detector' \in Records /\ detector'.queue = <<>> /\ detector'.pc \notin {"emit", "write", "chmod"}
      BY <1>0, <3>1, RestingType DEF DetectorPcs
    <3> QED
      BY <1>0, <1>1, <1>2, <1>3, <3>2, InboxRests
  <2>2. CASE Len(detector.queue) # 1
    <3> DEFINE rest == Tail(detector.queue)
    <3>1. detector.queue # <<>> /\ rest \in Seq(Alerts) /\ Len(rest) = Len(detector.queue) - 1 /\ rest # <<>>
          /\ \A n \in 1 .. Len(rest) : rest[n] = detector.queue[n + 1] /\ n + 1 \in 1 .. Len(detector.queue)
      <4> DEFINE q == detector.queue
      <4>1. q \in Seq(Alerts) /\ q # <<>> /\ Len(q) # 1
        BY <1>0, <1>3, <2>2 DEF InboxInv, QueueIsLatest
      <4> HIDE DEF q
      <4>2. Len(q) \in Nat /\ Len(q) >= 2
        <5>1. Len(q) \in Nat \ {0}
          BY <4>1, EmptySeq
        <5>2. \A n \in Nat \ {0} : n # 1 => n >= 2
          OBVIOUS
        <5> QED
          BY <4>1, <5>1, <5>2
      <4>3. Tail(q) \in Seq(Alerts)
        BY <4>1
      <4>4. Len(Tail(q)) = Len(q) - 1
        BY <4>1
      <4>5. \A n \in 1 .. Len(q) - 1 : Tail(q)[n] = q[n + 1]
        BY <4>1
      <4>6. Tail(q) # <<>>
        <5>1. Len(Tail(q)) # 0
          BY <4>2, <4>4
        <5> QED
          BY <4>3, <5>1, EmptySeq
      <4>7. \A n \in 1 .. Len(q) - 1 : n + 1 \in 1 .. Len(q)
        BY <4>2
      <4>8. rest = Tail(q) /\ detector.queue = q
        BY DEF q
      <4> HIDE DEF rest
      <4> QED
        BY <4>1, <4>3, <4>4, <4>5, <4>6, <4>7, <4>8
    <3>2. detector' = [detector EXCEPT !.pc = "emit", !.queue = rest]
      BY <1>3, <2>2 DEF After
    <3> HIDE DEF rest
    <3>3. detector' \in Records /\ detector'.queue = rest /\ detector'.pc = "emit"
      BY <1>0, <3>1, <3>2 DEF DetectorPcs
    <3>4. InboxTypes'
      BY <1>0, <1>1, <1>2, <1>3, <3>3 DEF InboxTypes
    <3>5. LogIsOrdered'
      BY <1>1, <1>3 DEF InboxInv, LogIsOrdered
    <3>6. QueueIsLatest'
      <4>1. 1 \in 1 .. Len(rest)
        BY <3>1
      <4>2. \A n \in 1 .. Len(rest) : rest[n].ts = detector.queue[1].ts /\ rest[n].ts <= now
                /\ \A i \in 1 .. Len(alertLog) : alertLog[i].ts <= rest[n].ts
        BY <3>1 DEF InboxInv, QueueIsLatest
      <4> QED
        BY <1>1, <1>3, <3>1, <3>3, <4>1, <4>2 DEF QueueIsLatest
    <3>7. InboxIsNew'
      BY <1>1, <1>3, <3>3 DEF InboxInv, InboxIsNew, Logged
    <3> QED
      BY <3>4, <3>5, <3>6, <3>7 DEF InboxInv
  <2> QED
    BY <2>1, <2>2
<1>4. CASE BootDetector
  <2>1. /\ detector' = [pc |-> "idle", startup |-> TRUE, queue |-> <<>>, since |-> Len(alertLog)]
        /\ UNCHANGED <<alertLog, box>>
    BY <1>4 DEF BootDetector
  <2>2. detector' \in Records /\ detector'.queue = <<>> /\ detector'.pc = "idle"
    BY <1>0, <2>1 DEF DetectorPcs
  <2> QED
    BY <1>0, <1>1, <1>2, <2>1, <2>2, InboxRests
<1>5. CASE DetectorFails
  <2>1. detector' = [Resting(detector) EXCEPT !.pc = "failed"] /\ UNCHANGED <<alertLog, box>>
    BY <1>5 DEF DetectorFails
  <2>2. detector' \in Records /\ detector'.queue = <<>> /\ detector'.pc \notin {"emit", "write", "chmod"}
    BY <1>0, <2>1, RestingType DEF DetectorPcs
  <2> QED
    BY <1>0, <1>1, <1>2, <2>1, <2>2, InboxRests
<1>6. CASE RunPass
  <2> DEFINE found == Detected(detector.startup)
  <2>1. UNCHANGED <<alertLog, box>> /\ detector.pc = "idle"
    BY <1>6 DEF RunPass
  <2>2. found \in Seq(Alerts) /\ \A n \in 1 .. Len(found) : found[n].ts = now
    BY <1>0, DetectedIsNow
  <2>3. detector' = IF found = <<>> THEN Resting(detector) ELSE [detector EXCEPT !.pc = "emit", !.queue = found]
    BY <1>6 DEF RunPass
  <2> HIDE DEF found
  <2>4. CASE found = <<>>
    <3>1. detector' \in Records /\ detector'.queue = <<>> /\ detector'.pc \notin {"emit", "write", "chmod"}
      BY <1>0, <2>3, <2>4, RestingType DEF DetectorPcs
    <3> QED
      BY <1>0, <1>1, <1>2, <2>1, <3>1, InboxRests
  <2>5. CASE found # <<>>
    <3>1. detector' \in Records /\ detector'.queue = found /\ detector'.pc = "emit"
      BY <1>0, <2>2, <2>3, <2>5 DEF DetectorPcs
    <3>2. InboxTypes'
      BY <1>0, <1>1, <1>2, <2>1, <3>1 DEF InboxTypes
    <3>3. LogIsOrdered'
      BY <1>1, <2>1 DEF InboxInv, LogIsOrdered
    <3>4. 1 \in 1 .. Len(found)
      BY <2>2, <2>5
    <3>5. QueueIsLatest'
      BY <1>0, <1>1, <2>1, <2>2, <2>5, <3>1, <3>4 DEF InboxInv, QueueIsLatest, LogIsOrdered
    <3>6. InboxIsNew'
      BY <1>1, <2>1, <3>1 DEF InboxInv, InboxIsNew, Logged
    <3> QED
      BY <3>2, <3>3, <3>5, <3>6 DEF InboxInv
  <2> QED
    BY <2>4, <2>5
<1>7. CASE Emit
  <2> DEFINE alert == Head(detector.queue)
  <2>1. detector.pc = "emit" /\ UNCHANGED box
    BY <1>7 DEF Emit
  <2>2. CASE isDuplicate(alert)
    BY <1>3, <1>7, <2>1, <2>2 DEF Emit
  <2>3. CASE ~isDuplicate(alert)
    <3>1. alertLog' = Append(alertLog, alert) /\ detector' = [detector EXCEPT !.pc = "write"]
      BY <1>7, <2>3 DEF Emit
    <3>2. alert \notin Logged
      BY <2>1, <2>3, NotDuplicateIsNew
    <3>3. alert \in Alerts /\ alert = detector.queue[1] /\ 1 \in 1 .. Len(detector.queue)
      BY <1>0, <2>1 DEF InboxInv, QueueIsLatest
    <3>4. detector' \in Records /\ detector'.pc = "write" /\ detector'.queue = detector.queue
      BY <1>0, <3>1 DEF DetectorPcs
    <3> HIDE DEF alert
    <3>5. /\ alertLog' \in Seq(Alerts) /\ Len(alertLog') = Len(alertLog) + 1
          /\ \A i \in 1 .. Len(alertLog') : alertLog'[i] = IF i <= Len(alertLog) THEN alertLog[i] ELSE alert
      BY <1>0, <3>1, <3>3
    <3>6. InboxTypes'
      BY <1>0, <1>1, <1>2, <2>1, <3>4, <3>5 DEF InboxTypes
    <3>7. /\ alert.ts <= now /\ \A i \in 1 .. Len(alertLog) : alertLog[i].ts <= alert.ts
          /\ alert.ts \in Nat /\ \A n \in 1 .. Len(detector.queue) : detector.queue[n].ts = alert.ts
      BY <1>0, <3>3 DEF InboxInv, QueueIsLatest, Alerts
    <3>8. \A i \in 1 .. Len(alertLog) : alertLog[i] # alert
      BY <3>2 DEF Logged
    <3>9. LogIsOrdered'
      <4> DEFINE log2 == alertLog'
      <4>1. \A i \in 1 .. Len(alertLog) : alertLog[i].ts <= now
        BY DEF InboxInv, LogIsOrdered
      <4>2. \A i, j \in 1 .. Len(alertLog) : i < j => alertLog[i].ts <= alertLog[j].ts /\ alertLog[i] # alertLog[j]
        BY DEF InboxInv, LogIsOrdered
      <4>3. ASSUME NEW i \in 1 .. Len(log2) PROVE log2[i].ts <= now
        BY <1>0, <3>5, <3>7, <4>1
      <4>4. ASSUME NEW i \in 1 .. Len(log2), NEW j \in 1 .. Len(log2), i < j
            PROVE  log2[i].ts <= log2[j].ts /\ log2[i] # log2[j]
        <5>1. i \in 1 .. Len(alertLog) /\ log2[i] = alertLog[i]
          BY <1>0, <3>5, <4>4
        <5>2. CASE j \in 1 .. Len(alertLog)
          BY <1>0, <3>5, <4>2, <4>4, <5>1, <5>2
        <5>3. CASE j \notin 1 .. Len(alertLog)
          <6>1. log2[j] = alert
            BY <1>0, <3>5, <5>3
          <6> QED
            BY <3>7, <3>8, <5>1, <6>1
        <5> QED
          BY <5>2, <5>3
      <4> QED
        BY <1>1, <4>3, <4>4 DEF LogIsOrdered
    <3>10. QueueIsLatest'
      <4>1. \A i \in 1 .. Len(alertLog') : alertLog'[i].ts <= alert.ts
        BY <1>0, <3>5, <3>7
      <4>2. detector.queue # <<>> /\ \A n \in 1 .. Len(detector.queue) : detector.queue[n].ts = detector.queue[1].ts
        BY <2>1 DEF InboxInv, QueueIsLatest
      <4> QED
        BY <1>1, <3>4, <3>7, <4>1, <4>2 DEF QueueIsLatest
    <3>11. Logged' = Logged \cup {alert}
      <4>1. \A i \in 1 .. Len(alertLog') : alertLog'[i] \in Logged \cup {alert}
        BY <1>0, <3>5 DEF Logged
      <4>2. alertLog'[Len(alertLog) + 1] = alert /\ Len(alertLog) + 1 \in 1 .. Len(alertLog')
        BY <1>0, <3>5
      <4>3. \A i \in 1 .. Len(alertLog) : i \in 1 .. Len(alertLog') /\ alertLog'[i] = alertLog[i]
        BY <1>0, <3>5
      <4> QED
        BY <4>1, <4>2, <4>3 DEF Logged
    <3>12. InboxIsNew'
      BY <1>1, <2>1, <3>2, <3>4, <3>11 DEF InboxInv, InboxIsNew, alert
    <3> QED
      BY <3>6, <3>9, <3>10, <3>12 DEF InboxInv
  <2> QED
    BY <2>2, <2>3
<1>8. CASE WriteInbox
  <2> DEFINE alert == Head(detector.queue)
  <2>1. /\ detector.pc = "write" /\ UNCHANGED alertLog /\ detector' = [detector EXCEPT !.pc = "chmod"]
        /\ box' = [box EXCEPT !.inbox = @ \cup {alert}]
    BY <1>8 DEF WriteInbox
  <2>2. alert \in Alerts
    BY <1>0, <2>1 DEF InboxInv, QueueIsLatest
  <2>3. detector' \in Records /\ detector'.pc = "chmod" /\ detector'.queue = detector.queue
    BY <1>0, <2>1 DEF DetectorPcs
  <2>4. box' \in [{"inbox", "processing", "processed", "failed"} -> SUBSET Alerts] /\ box'.inbox = box.inbox \cup {alert}
    BY <1>2, <2>1, <2>2
  <2>5. InboxTypes'
    BY <1>0, <1>1, <1>2, <2>1, <2>3, <2>4 DEF InboxTypes
  <2>6. LogIsOrdered' /\ QueueIsLatest'
    BY <1>1, <2>1, <2>3 DEF InboxInv, LogIsOrdered, QueueIsLatest
  <2>7. InboxIsNew'
    BY <1>1, <2>1, <2>3, <2>4 DEF InboxInv, InboxIsNew, Logged
  <2> QED
    BY <2>5, <2>6, <2>7 DEF InboxInv
<1>9. CASE ChmodInbox
  <2>1. UNCHANGED <<alertLog, box>> /\ detector.pc = "chmod"
    BY <1>9 DEF ChmodInbox
  <2>2. CASE detector' = After(detector)
    BY <1>3, <2>1, <2>2
  <2>3. CASE detector' = [Resting(detector) EXCEPT !.pc = "ended"]
    <3>1. detector' \in Records /\ detector'.queue = <<>> /\ detector'.pc \notin {"emit", "write", "chmod"}
      BY <1>0, <2>3, RestingType DEF DetectorPcs
    <3> QED
      BY <1>0, <1>1, <1>2, <2>1, <3>1, InboxRests
  <2> QED
    BY <1>9, <2>2, <2>3 DEF ChmodInbox
<1> QED
    BY <1>4, <1>5, <1>6, <1>7, <1>8, <1>9 DEF DetectorNext

\* The watchers: what they claim was in the inbox and leaves it.
LEMMA WatchersKeepInboxInv ==
    ASSUME InboxInv, NEW w \in Watchers,
           StartWatch(w) \/ WatchNext(w) \/ WatchCrashes(w)
    PROVE  /\ InboxInv'
           /\ \A v \in Watchers : watch[v].pc # "run" /\ watch'[v].pc = "run" => watch'[v].file \notin handed
<1> DEFINE Recs == [pc : {"down", "scan", "run"}, file : Alerts \cup {NoIncident}]
           Boxes == [{"inbox", "processing", "processed", "failed"} -> SUBSET Alerts]
<1>0. /\ watch \in [Watchers -> Recs] /\ box \in Boxes /\ now \in Nat
    BY DEF InboxInv, InboxTypes
<1>1. UNCHANGED <<now, alertLog, detector>>
    BY DEF StartWatch, WatchNext, ClaimIncident, SessionEnds, WatchCrashes, Rest
<1>2. ASSUME NEW rec \in Recs, rec.pc # "run", watch' = [watch EXCEPT ![w] = rec] \/ watch' = watch,
             box' \in Boxes, box'.inbox = box.inbox, handed' = handed
      PROVE  /\ InboxInv'
             /\ \A v \in Watchers : watch[v].pc # "run" /\ watch'[v].pc = "run" => watch'[v].file \notin handed
  <2>1. watch' \in [Watchers -> Recs] /\ \A v \in Watchers : watch'[v] = watch[v] \/ watch'[v] = rec
    BY <1>0, <1>2
  <2>2. InboxInv'
    BY <1>0, <1>1, <1>2, <2>1, InboxRests
  <2> QED
    BY <1>2, <2>1, <2>2
<1>3. Down \in Recs /\ Down.pc = "down" /\ [pc |-> "scan", file |-> NoIncident] \in Recs
    BY DEF Down
<1>4. CASE StartWatch(w)
  <2>1. box' = recoverProcessingFiles(box) /\ watch' = [watch EXCEPT ![w] = [pc |-> "scan", file |-> NoIncident]] /\ handed' = handed
    BY <1>4 DEF StartWatch
  <2>2. box' \in Boxes /\ box'.inbox = box.inbox
    BY <1>0, <2>1 DEF recoverProcessingFiles
  <2> QED
    BY <1>2, <1>3, <2>1, <2>2
<1>5. CASE WatchCrashes(w)
    BY <1>0, <1>2, <1>3, <1>5 DEF WatchCrashes
<1>6. ASSUME NEW outcome \in Outcomes, SessionEnds(w, outcome)
      PROVE  /\ InboxInv'
             /\ \A v \in Watchers : watch[v].pc # "run" /\ watch'[v].pc = "run" => watch'[v].file \notin handed
  <2> DEFINE a == watch[w].file
             to == DirectoryFor(outcome)
  <2>1. handed' = handed /\ watch[w].pc = "run"
    BY <1>6 DEF SessionEnds
  <2>2. CASE a \in box.processing
    <3>1. box' = [box EXCEPT !.processing = @ \ {a}, ![to] = @ \cup {a}] /\ watch' = [watch EXCEPT ![w] = [pc |-> "scan", file |-> NoIncident]]
      BY <1>6, <2>2 DEF SessionEnds
    <3>2. to \in {"processed", "failed"} /\ a \in Alerts
      BY <1>0, <2>2 DEF DirectoryFor
    <3> HIDE DEF a, to
    <3>3. box' \in Boxes /\ box'.inbox = box.inbox
      BY <1>0, <3>1, <3>2
    <3> QED
      BY <1>2, <1>3, <2>1, <3>1, <3>3
  <2>3. CASE a \notin box.processing
    BY <1>0, <1>2, <1>3, <1>6, <2>1, <2>3 DEF SessionEnds
  <2> QED
    BY <2>2, <2>3
<1>7. CASE ClaimIncident(w)
  <2>1. PICK a \in Pending :
          /\ box' = [box EXCEPT !.inbox = @ \ {a}, !.processing = @ \cup {a}]
          /\ watch' = [watch EXCEPT ![w] = [pc |-> "run", file |-> a]]
          /\ handed' = handed \cup {a}
    BY <1>7 DEF ClaimIncident
  <2>2. a \in box.inbox /\ a \in Alerts /\ a \notin handed
    BY <1>0 DEF Pending, InboxInv, InboxIsNew
  <2>3. /\ box' \in Boxes /\ box'.inbox = box.inbox \ {a} /\ watch' \in [Watchers -> Recs]
        /\ \A v \in Watchers : watch'[v] = IF v = w THEN [pc |-> "run", file |-> a] ELSE watch[v]
    BY <1>0, <2>1, <2>2
  <2>4. InboxTypes'
    BY <1>1, <2>3 DEF InboxInv, InboxTypes
  <2>5. LogIsOrdered' /\ QueueIsLatest'
    BY <1>1 DEF InboxInv, LogIsOrdered, QueueIsLatest
  <2>6. InboxIsNew'
    BY <1>1, <2>1, <2>2, <2>3 DEF InboxInv, InboxIsNew, Logged
  <2> QED
    BY <2>2, <2>3, <2>4, <2>5, <2>6 DEF InboxInv
<1> QED
    BY <1>4, <1>5, <1>6, <1>7 DEF WatchNext

LEMMA InboxStep ==
    ASSUME InboxInv, [InboxNext]_inboxVars
    PROVE  /\ InboxInv'
           /\ \A v \in Watchers : watch[v].pc # "run" /\ watch'[v].pc = "run" => watch'[v].file \notin handed
<1>0. /\ watch \in [Watchers -> [pc : {"down", "scan", "run"}, file : Alerts \cup {NoIncident}]]
      /\ box \in [{"inbox", "processing", "processed", "failed"} -> SUBSET Alerts] /\ now \in Nat
    BY DEF InboxInv, InboxTypes
<1>1. CASE UNCHANGED inboxVars \/ WorldChanges \/ TimePasses \/ Pause
  <2>1. UNCHANGED <<alertLog, handed, box, watch, detector>> /\ (now' = now \/ now' = now + 1)
    BY <1>1 DEF inboxVars, WorldChanges, TimePasses, Pause, Rest
  <2> QED
    BY <1>0, <2>1, InboxRests
<1>2. CASE BootDetector \/ DetectorNext \/ DetectorFails
  <2>1. watch' = watch
    BY <1>2 DEF BootDetector, DetectorNext, DetectorFails, RunPass, Emit, WriteInbox, ChmodInbox, Others
  <2> QED
    BY <1>2, <2>1, DetectorKeepsInboxInv
<1> QED
    BY <1>1, <1>2, WatchersKeepInboxInv DEF InboxNext

(* The log is in the order of time, and what is in the inbox is new.         *)
THEOREM InboxCorrect == InboxSpec => []InboxInv
<1>1. InboxInit => InboxInv
  <2> SUFFICES ASSUME InboxInit PROVE InboxInv
    OBVIOUS
  <2>1. InboxTypes
    BY DEF InboxInit, InboxTypes, DetectorPcs, Down
  <2>2. Logged = {}
    BY DEF InboxInit, Logged
  <2> QED
    BY <2>1, <2>2 DEF InboxInit, InboxInv, LogIsOrdered, QueueIsLatest, InboxIsNew
<1>2. InboxInv /\ [InboxNext]_inboxVars => InboxInv'
    BY InboxStep
<1> QED
    BY <1>1, <1>2, PTL DEF InboxSpec

(* No incident is handed to two sessions or to one twice (operator-watch:    *)
(* the rename claims it), with any number of watchers that crash and restart *)
(* and a detector that starts again.                                         *)
THEOREM IncidentsHandedOnce == InboxSpec => HandedOnce
<1>1. InboxInv /\ [InboxNext]_inboxVars =>
         [\A w \in Watchers : watch[w].pc # "run" /\ watch'[w].pc = "run" => watch'[w].file \notin handed]_inboxVars
    BY InboxStep
<1> QED
    BY <1>1, InboxCorrect, PTL DEF InboxSpec, HandedOnce

(* An alert that the check lets through is later, by more than the window,   *)
(* than every alert of its kind: also than one that the check does not see,  *)
(* because the alerts it does see would all be in one window and of          *)
(* different kinds, more than there are.                                     *)
LEMMA NotDuplicateIsLater ==
    ASSUME InboxInv, AlertsAreSpaced, detector.pc = "emit", ~isDuplicate(Head(detector.queue)),
           NEW i \in 1 .. Len(alertLog), alertLog[i].kind = Head(detector.queue).kind
    PROVE  Head(detector.queue).ts > alertLog[i].ts + DedupWindow
<1> DEFINE a == Head(detector.queue)
           N == Len(alertLog)
           T == alertLog[i].ts
<1>1. N \in Nat /\ a \in Alerts /\ \A p \in 1 .. N : alertLog[p] \in Alerts
  <2>1. alertLog \in Seq(Alerts) /\ detector.queue \in Seq(Alerts) /\ detector.queue # <<>>
    BY DEF InboxInv, InboxTypes, QueueIsLatest
  <2>2. a \in Alerts
    BY <2>1, HeadTailProperties
  <2> HIDE DEF a
  <2> QED
    BY <2>1, <2>2
<1>2. a = detector.queue[1] /\ 1 \in 1 .. Len(detector.queue)
    BY DEF InboxInv, InboxTypes, QueueIsLatest
<1>3. a.ts \in Nat /\ T \in Nat /\ DedupWindow \in Nat /\ \A p \in 1 .. N : alertLog[p].ts \in Nat
  <2> HIDE DEF a
  <2> QED
    BY <1>1, InboxAssumption DEF Alerts
<1> SUFFICES ASSUME ~(a.ts > T + DedupWindow) PROVE FALSE
    OBVIOUS
<1>4. a.ts <= T + DedupWindow
    BY <1>3
<1>5. \A p \in i .. N : T <= alertLog[p].ts /\ alertLog[p].ts <= T + DedupWindow
  <2> SUFFICES ASSUME NEW p \in i .. N PROVE T <= alertLog[p].ts /\ alertLog[p].ts <= T + DedupWindow
    OBVIOUS
  <2>1. p \in 1 .. N
    BY <1>1
  <2>2. alertLog[p].ts <= a.ts
    BY <1>2, <2>1 DEF InboxInv, QueueIsLatest
  <2>3. T <= alertLog[p].ts
    BY <1>1, <1>3, <2>1 DEF InboxInv, LogIsOrdered
  <2> HIDE DEF a, T, N
  <2> QED
    BY <1>3, <1>4, <2>1, <2>2, <2>3
<1>6. i + RecentAlerts <= N
  <2>1. ~(i + RecentAlerts > N)
    BY <1>3, <1>4 DEF isDuplicate
  <2> HIDE DEF N
  <2> QED
    BY <1>1, <2>1, InboxAssumption
<1> DEFINE P == i .. (i + RecentAlerts)
           kindAt == [p \in P |-> alertLog[p].kind]
<1>7. P \subseteq i .. N /\ P \subseteq 1 .. N
    BY <1>1, <1>6, InboxAssumption
<1>8. IsFiniteSet(P) /\ Cardinality(P) = RecentAlerts + 1
  <2> DEFINE last == i + RecentAlerts
  <2>1. i \in Int /\ last \in Int /\ ~(i > last) /\ last - i + 1 = RecentAlerts + 1
    BY <1>1, InboxAssumption
  <2> HIDE DEF last
  <2>2. IsFiniteSet(i .. last) /\ Cardinality(i .. last) = last - i + 1
    BY <2>1, FS_Interval
  <2> QED
    BY <2>1, <2>2 DEF last
<1>9. kindAt \in [P -> Rules]
  <2> HIDE DEF P, N, kindAt, a, T
  <2>1. \A p \in P : alertLog[p] \in Alerts
    BY <1>1, <1>7
  <2>2. \A p \in P : alertLog[p].kind \in Rules
    BY <2>1 DEF Alerts
  <2> QED
    BY <2>2 DEF kindAt
<1>10. Cardinality(Rules) \in Nat /\ Cardinality(Rules) < Cardinality(P)
    BY <1>8, RulesFinite, FS_CardinalityType, InboxAssumption
<1> HIDE DEF P, a, N, T, kindAt
<1>11. PICK p, q \in P : p # q /\ kindAt[p] = kindAt[q]
    BY <1>8, <1>9, <1>10, RulesFinite, FS_PigeonHole
<1>12. PICK m, n \in P : m < n /\ alertLog[m].kind = alertLog[n].kind
  <2>1. p \in Nat /\ q \in Nat
    BY <1>1, <1>7
  <2> QED
    BY <2>1, <1>11 DEF kindAt
<1>13. alertLog[n].ts > alertLog[m].ts + DedupWindow
    BY <1>7, <1>12 DEF AlertsAreSpaced, N
<1>14. /\ T <= alertLog[m].ts /\ alertLog[n].ts <= T + DedupWindow
       /\ T \in Nat /\ DedupWindow \in Nat /\ alertLog[m].ts \in Nat /\ alertLog[n].ts \in Nat
    BY <1>3, <1>5, <1>7
<1> QED
    BY <1>13, <1>14

(***************************************************************************)
(* Two alerts of one kind about one resource are further apart than the     *)
(* dedup window, although the check reads the last alerts only and the      *)
(* coordinator forgets what it has raised when it restarts                  *)
(* (detector.go, isDuplicate).                                              *)
(***************************************************************************)
THEOREM AlertsSpaced == InboxSpec => []AlertsAreSpaced
<1>1. InboxInit => AlertsAreSpaced
    BY DEF InboxInit, AlertsAreSpaced
<1>2. InboxInv /\ AlertsAreSpaced /\ [InboxNext]_inboxVars => AlertsAreSpaced'
  <2> SUFFICES ASSUME InboxInv, AlertsAreSpaced, [InboxNext]_inboxVars PROVE AlertsAreSpaced'
    OBVIOUS
  <2>1. CASE UNCHANGED alertLog
    BY <2>1 DEF AlertsAreSpaced
  <2>2. CASE Emit /\ alertLog' # alertLog
    <3> DEFINE a == Head(detector.queue)
               N == Len(alertLog)
    <3>1. detector.pc = "emit" /\ ~isDuplicate(a) /\ alertLog' = Append(alertLog, a)
      BY <2>2 DEF Emit
    <3>2. \A i \in 1 .. N : alertLog[i].kind = a.kind => a.ts > alertLog[i].ts + DedupWindow
      BY <3>1, NotDuplicateIsLater
    <3>3. alertLog \in Seq(Alerts) /\ a \in Alerts
      BY <3>1, HeadTailProperties DEF InboxInv, InboxTypes, QueueIsLatest
    <3> HIDE DEF a, N
    <3>4. N \in Nat /\ Len(alertLog') = N + 1 /\ alertLog'[N + 1] = a /\ \A i \in 1 .. N : alertLog'[i] = alertLog[i]
      BY <3>1, <3>3, AppendProperties DEF N
    <3>5. ASSUME NEW i \in 1 .. Len(alertLog'), NEW j \in 1 .. Len(alertLog'), i < j, alertLog'[i].kind = alertLog'[j].kind
          PROVE  alertLog'[j].ts > alertLog'[i].ts + DedupWindow
      <4>1. i \in 1 .. N /\ j \in 1 .. N + 1
        BY <3>4, <3>5
      <4>2. CASE j = N + 1
        BY <3>2, <3>4, <3>5, <4>1, <4>2
      <4>3. CASE j \in 1 .. N
        BY <3>4, <3>5, <4>1, <4>3 DEF AlertsAreSpaced, N
      <4> QED
        BY <3>4, <4>1, <4>2, <4>3
    <3> QED
      BY <3>5 DEF AlertsAreSpaced
  <2> QED
    BY <2>1, <2>2 DEF InboxNext, inboxVars, WorldChanges, TimePasses, BootDetector, DetectorNext, DetectorFails, RunPass,
       WriteInbox, ChmodInbox, Others, StartWatch, WatchNext, ClaimIncident, SessionEnds, WatchCrashes, Pause, Rest
<1> QED
    BY <1>1, <1>2, InboxCorrect, PTL DEF InboxSpec

-----------------------------------------------------------------------------
(* Recovery of a host (HostRecovery).                                        *)

(* What a command may still take away is not in review: the listing of pull  *)
(* requests it acts on holds every branch that has been in review since the  *)
(* command was typed, unless the listing was cut off before it.              *)
ReviewedIsSpared ==
    /\ DOMAIN command = DOMAIN Idle
    /\ held \subseteq git.prs /\ held \subseteq git.refs
    /\ command.at = 2 => held \subseteq command.prs
    /\ command.at = 3 => held \cap command.todo = {}

RecoveryInv == RecoveryTypeOK /\ ReviewedIsSpared

Repository == [{"dirs", "registered", "refs", "remote", "prs"} -> SUBSET Branches]

(* The commands in their different phases.                                   *)
LEMMA PhaseFacts ==
    ASSUME NEW c, DOMAIN c = DOMAIN Idle
    PROVE  /\ DOMAIN Advance(c) = DOMAIN Idle /\ Advance(c).at = 0
           /\ DOMAIN Abort(c) = DOMAIN Idle /\ Abort(c).at = 0
           /\ \A n : DOMAIN [c EXCEPT !.at = n] = DOMAIN Idle /\ [c EXCEPT !.at = n].at = n
           /\ \A n, t : /\ DOMAIN [[c EXCEPT !.at = n] EXCEPT !.seen = t] = DOMAIN Idle
                        /\ [[c EXCEPT !.at = n] EXCEPT !.seen = t].at = n
                        /\ DOMAIN [[c EXCEPT !.at = n] EXCEPT !.todo = t] = DOMAIN Idle
                        /\ [[c EXCEPT !.at = n] EXCEPT !.todo = t].at = n
                        /\ [[c EXCEPT !.at = n] EXCEPT !.todo = t].todo = t
                        /\ DOMAIN [[c EXCEPT !.at = n] EXCEPT !.prs = t] = DOMAIN Idle
                        /\ [[c EXCEPT !.at = n] EXCEPT !.prs = t].at = n
                        /\ [[c EXCEPT !.at = n] EXCEPT !.prs = t].prs = t
           /\ \A t : /\ DOMAIN [c EXCEPT !.todo = t] = DOMAIN Idle
                     /\ [c EXCEPT !.todo = t].at = c.at
                     /\ [c EXCEPT !.todo = t].todo = t
           /\ \A t : /\ DOMAIN [Advance(c) EXCEPT !.seen = t] = DOMAIN Idle
                     /\ [Advance(c) EXCEPT !.seen = t].at = 0
<1>1. DOMAIN Idle = {"what", "plan", "passed", "dry", "consent", "at", "seen", "prs", "todo", "result"}
    BY DEF Idle
<1>2. DOMAIN Advance(c) = DOMAIN Idle /\ Advance(c).at = 0
    BY <1>1 DEF Advance
<1>3. DOMAIN Abort(c) = DOMAIN Idle /\ Abort(c).at = 0
    BY <1>1 DEF Abort
<1> QED
    BY <1>1, <1>2, <1>3

(* A step that leaves the repository and what is held alone, and ends a      *)
(* step of the command.                                                      *)
LEMMA RestedKeeps ==
    ASSUME RecoveryInv, UNCHANGED <<git, held>>, db' \subseteq Tables,
           DOMAIN command' = DOMAIN Idle, command'.at \in {0, 1}
    PROVE  RecoveryInv'
    BY DEF RecoveryInv, RecoveryTypeOK, ReviewedIsSpared

(* A step of the surroundings or of a command.                               *)
LEMMA StartKeeps ==
    ASSUME RecoveryInv, StartCommand
    PROVE  RecoveryInv'
<1>1. DOMAIN Idle = {"what", "plan", "passed", "dry", "consent", "at", "seen", "prs", "todo", "result"} /\ Idle.at = 0
    BY DEF Idle
<1>2. UNCHANGED <<git, db>> /\ held' = git.prs \cap git.refs
    BY DEF StartCommand
<1>3. DOMAIN command' = DOMAIN Idle /\ command'.at = 0
  <2>1. ASSUME NEW flags, NEW dry, NEW consent, StartRecover(flags, dry, consent)
        PROVE  DOMAIN command' = DOMAIN Idle /\ command'.at = 0
    BY <1>1, <2>1 DEF StartRecover
  <2>2. ASSUME NEW dry, NEW remote, StartRestart(dry, remote)
        PROVE  DOMAIN command' = DOMAIN Idle /\ command'.at = 0
    BY <1>1, <2>2 DEF StartRestart
  <2>3. ASSUME NEW dry, StartInvalidate(dry)
        PROVE  DOMAIN command' = DOMAIN Idle /\ command'.at = 0
    BY <1>1, <2>3 DEF StartInvalidate
  <2> QED
    BY <2>1, <2>2, <2>3 DEF StartCommand
<1>4. git.prs \cap git.refs \subseteq Branches
    BY DEF RecoveryInv, RecoveryTypeOK
<1> QED
    BY <1>2, <1>3, <1>4 DEF RecoveryInv, RecoveryTypeOK, ReviewedIsSpared

(* The steps of a command that leave repository and tables to others.        *)
LEMMA QuietKeeps ==
    ASSUME RecoveryInv,
           \/ ListProcesses \/ TerminateProcess \/ ListManaged \/ ListRemote \/ OpenPRsUnavailable
           \/ ResetDB \/ Inspect \/ DeleteRow \/ LogRestart \/ clearCoordinatorInflight \/ CallFails
    PROVE  RecoveryInv' /\ UNCHANGED git
<1>0. DOMAIN command = DOMAIN Idle /\ db \subseteq Tables /\ "events" \in Tables
    BY DEF RecoveryInv, RecoveryTypeOK, ReviewedIsSpared, Tables
<1> DEFINE Rested == UNCHANGED <<git, held>> /\ db' \subseteq Tables /\ DOMAIN command' = DOMAIN Idle
                     /\ command'.at \in {0, 1}
<1>1. ASSUME NEW step, NEW n, StepFails(step, n)
      PROVE  Rested
    BY <1>0, <1>1, PhaseFacts DEF StepFails, surroundings
<1>2. CASE ListProcesses
    BY <1>0, <1>2, PhaseFacts, RestedKeeps DEF ListProcesses, Phase, CommandStep, surroundings
<1>3. CASE TerminateProcess
  <2>1. command.at = 1
    BY <1>3 DEF TerminateProcess, At
  <2>2. Rested
    BY <1>0, <1>3, <2>1, PhaseFacts DEF TerminateProcess, CommandStep, surroundings
  <2> QED
    BY <2>2, RestedKeeps
<1>4. CASE ListManaged \/ ListRemote
  <2>1. UNCHANGED <<git, held, db>>
    BY <1>4 DEF ListManaged, ListRemote, CommandStep, surroundings
  <2>2. command' = Advance(command) \/ \E seen : command' = [[command EXCEPT !.at = 1] EXCEPT !.seen = seen]
    BY <1>4 DEF ListManaged, ListRemote, Phase
  <2>3. DOMAIN command' = DOMAIN Idle /\ command'.at \in {0, 1}
    <3>1. ASSUME NEW seen, command' = [[command EXCEPT !.at = 1] EXCEPT !.seen = seen]
          PROVE  DOMAIN command' = DOMAIN Idle /\ command'.at \in {0, 1}
      BY <1>0, <3>1, PhaseFacts
    <3> QED
      BY <1>0, <2>2, <3>1, PhaseFacts
  <2> QED
    BY <1>0, <2>1, <2>3, RestedKeeps
<1>5. CASE OpenPRsUnavailable
    BY <1>1, <1>5, RestedKeeps DEF OpenPRsUnavailable
<1>6. CASE ResetDB \/ LogRestart \/ clearCoordinatorInflight
    BY <1>0, <1>6, PhaseFacts, RestedKeeps DEF ResetDB, LogRestart, clearCoordinatorInflight, CommandStep, surroundings
<1>7. CASE Inspect \/ DeleteRow
  <2>1. UNCHANGED <<git, held>> /\ db' \subseteq Tables
    BY <1>0, <1>7 DEF Inspect, DeleteRow, CommandStep, surroundings
  <2>2. command' = Advance(command) \/ \E seen : command' = [Advance(command) EXCEPT !.seen = seen]
    BY <1>7 DEF Inspect, DeleteRow
  <2>3. DOMAIN command' = DOMAIN Idle /\ command'.at = 0
    <3>1. ASSUME NEW seen, command' = [Advance(command) EXCEPT !.seen = seen]
          PROVE  DOMAIN command' = DOMAIN Idle /\ command'.at = 0
      BY <1>0, <3>1, PhaseFacts
    <3> QED
      BY <1>0, <2>2, <3>1, PhaseFacts
  <2> QED
    BY <2>1, <2>3, RestedKeeps
<1>8. CASE CallFails
    BY <1>1, <1>8, RestedKeeps DEF CallFails
<1> QED
    BY <1>2, <1>3, <1>4, <1>5, <1>6, <1>7, <1>8

(* The listing of pull requests holds what is held.                          *)
LEMMA ListOpenPRsKeeps ==
    ASSUME RecoveryInv, ListOpenPRs
    PROVE  RecoveryInv' /\ UNCHANGED git
<1>1. PICK page \in Listings :
          /\ command' = [Phase(2) EXCEPT !.prs = page]
          /\ held' = IF page = git.prs THEN held ELSE held \cap page
    BY DEF ListOpenPRs
<1>2. UNCHANGED <<git, db>>
    BY DEF ListOpenPRs
<1>3. DOMAIN command = DOMAIN Idle
    BY DEF RecoveryInv, ReviewedIsSpared
<1>4. DOMAIN command' = DOMAIN Idle /\ command'.at = 2 /\ command'.prs = page
    BY <1>1, <1>3, PhaseFacts DEF Phase
<1>5. held' \subseteq held /\ held' \subseteq page
    BY <1>1 DEF RecoveryInv, ReviewedIsSpared
<1> QED
    BY <1>2, <1>4, <1>5 DEF RecoveryInv, RecoveryTypeOK, ReviewedIsSpared

(* What is picked for removal is not held.                                   *)
LEMMA PickKeeps ==
    ASSUME RecoveryInv, PickTrees \/ PickBranches
    PROVE  RecoveryInv' /\ UNCHANGED git
<1>1. UNCHANGED <<git, db, held>> /\ command.at = 2
    BY DEF PickTrees, PickBranches, At, CommandStep, surroundings
<1>2. DOMAIN command = DOMAIN Idle /\ held \subseteq command.prs /\ held \subseteq git.refs /\ db \subseteq Tables
    BY <1>1 DEF RecoveryInv, RecoveryTypeOK, ReviewedIsSpared
<1>3. PICK todo : /\ held \cap todo = {}
                  /\ \/ command' = Advance(command)
                     \/ command' = [Phase(3) EXCEPT !.todo = todo]
  <2>1. CASE PickTrees
    <3> DEFINE gone == {b \in command.seen : ~(b \in git.refs /\ b \in command.prs)}
    <3>1. held \cap gone = {}
      BY <1>2
    <3> QED
      BY <2>1, <3>1 DEF PickTrees
  <2>2. CASE PickBranches
    <3>1. held \cap (command.seen \ command.prs) = {}
      BY <1>2
    <3> QED
      BY <2>2, <3>1 DEF PickBranches
  <2> QED
    BY <2>1, <2>2
<1>4. CASE command' = Advance(command)
    BY <1>1, <1>2, <1>4, PhaseFacts, RestedKeeps
<1>5. CASE command' = [Phase(3) EXCEPT !.todo = todo]
  <2>1. DOMAIN command' = DOMAIN Idle /\ command'.at = 3 /\ command'.todo = todo
    BY <1>2, <1>5, PhaseFacts DEF Phase
  <2> QED
    BY <1>1, <1>3, <2>1 DEF RecoveryInv, RecoveryTypeOK, ReviewedIsSpared
<1> QED
    BY <1>1, <1>3, <1>4, <1>5

(* Trees and branches that are held stay; removing others keeps the rest.    *)
LEMMA RemovalKeeps ==
    ASSUME RecoveryInv, RemoveTree \/ PruneTrees \/ DeleteBranch
    PROVE  /\ RecoveryInv'
           /\ \A b \in held : (b \in git.dirs => b \in git'.dirs) /\ (b \in git.remote => b \in git'.remote)
<1>1. UNCHANGED <<db, held>> /\ command.at = 3
    BY DEF RemoveTree, PruneTrees, DeleteBranch, At, CommandStep, surroundings
<1>2. /\ DOMAIN command = DOMAIN Idle /\ git \in Repository /\ held \subseteq Branches /\ db \subseteq Tables
      /\ held \subseteq git.prs /\ held \subseteq git.refs /\ held \cap command.todo = {}
    BY <1>1 DEF RecoveryInv, RecoveryTypeOK, ReviewedIsSpared, Repository
<1>3. ASSUME NEW left, left \subseteq command.todo, command' = [command EXCEPT !.todo = left]
      PROVE  DOMAIN command' = DOMAIN Idle /\ command'.at = 3 /\ held \cap command'.todo = {}
    BY <1>1, <1>2, <1>3, PhaseFacts
<1>4. CASE RemoveTree
  <2>1. PICK b \in command.todo, clean \in BOOLEAN :
            /\ git' = [git EXCEPT !.dirs = @ \ {b}, !.registered = IF clean THEN @ \ {b} ELSE @]
            /\ command' = [command EXCEPT !.todo = @ \ {b}]
    BY <1>4 DEF RemoveTree
  <2>2. git' \in Repository /\ git'.dirs = git.dirs \ {b} /\ git'.refs = git.refs /\ git'.remote = git.remote /\ git'.prs = git.prs
    BY <1>2, <2>1 DEF Repository
  <2>3. command' = [command EXCEPT !.todo = command.todo \ {b}]
    BY <2>1
  <2>4. DOMAIN command' = DOMAIN Idle /\ command'.at = 3 /\ held \cap command'.todo = {}
    BY <1>3, <2>3
  <2> QED
    BY <1>1, <1>2, <2>2, <2>4 DEF RecoveryInv, RecoveryTypeOK, ReviewedIsSpared, Repository
<1>5. CASE PruneTrees
  <2>1. git' = [git EXCEPT !.registered = @ \cap git.dirs] /\ command' = Advance(command)
    BY <1>5 DEF PruneTrees
  <2>2. git' \in Repository /\ git'.dirs = git.dirs /\ git'.refs = git.refs /\ git'.remote = git.remote /\ git'.prs = git.prs
    BY <1>2, <2>1 DEF Repository
  <2>3. DOMAIN command' = DOMAIN Idle /\ command'.at = 0
    BY <1>2, <2>1, PhaseFacts
  <2> QED
    BY <1>1, <1>2, <2>2, <2>3 DEF RecoveryInv, RecoveryTypeOK, ReviewedIsSpared, Repository
<1>6. CASE DeleteBranch
  <2>1. PICK b \in command.todo :
          IF b \in git.remote
          THEN /\ git' = [git EXCEPT !.remote = @ \ {b}, !.refs = @ \ {b}, !.prs = @ \ {b}]
               /\ command' = IF command.todo = {b} THEN Advance(command)
                             ELSE [command EXCEPT !.todo = @ \ {b}]
          ELSE command' = Abort(command) /\ UNCHANGED git
    BY <1>6 DEF DeleteBranch
  <2>2. b \notin held
    BY <1>2, <2>1
  <2>3. CASE b \in git.remote
    <3>1. /\ git' \in Repository /\ git'.dirs = git.dirs
          /\ git'.refs = git.refs \ {b} /\ git'.remote = git.remote \ {b} /\ git'.prs = git.prs \ {b}
      BY <1>2, <2>1, <2>3 DEF Repository
    <3>2. CASE command' = Advance(command)
      <4>1. DOMAIN command' = DOMAIN Idle /\ command'.at = 0
        BY <1>2, <3>2, PhaseFacts
      <4> QED
        BY <1>1, <1>2, <2>2, <3>1, <4>1 DEF RecoveryInv, RecoveryTypeOK, ReviewedIsSpared, Repository
    <3>3. CASE command' = [command EXCEPT !.todo = command.todo \ {b}]
      <4>1. DOMAIN command' = DOMAIN Idle /\ command'.at = 3 /\ held \cap command'.todo = {}
        BY <1>3, <3>3
      <4> QED
        BY <1>1, <1>2, <2>2, <3>1, <4>1 DEF RecoveryInv, RecoveryTypeOK, ReviewedIsSpared, Repository
    <3> QED
      BY <2>1, <2>3, <3>2, <3>3
  <2>4. CASE b \notin git.remote
    BY <1>1, <1>2, <2>1, <2>4, PhaseFacts, RestedKeeps
  <2> QED
    BY <2>3, <2>4
<1> QED
    BY <1>4, <1>5, <1>6

(* A branch whose pull request closes is not held any more.                  *)
LEMMA GitMovesKeeps ==
    ASSUME RecoveryInv, GitMoves
    PROVE  /\ RecoveryInv'
           /\ \A b \in held \cap held' : (b \in git.dirs => b \in git'.dirs) /\ (b \in git.remote => b \in git'.remote)
<1>1. UNCHANGED <<db, command>>
    BY DEF GitMoves
<1>2. /\ git \in Repository /\ held \subseteq Branches /\ db \subseteq Tables
      /\ held \subseteq git.prs /\ held \subseteq git.refs
    BY <1>1 DEF RecoveryInv, RecoveryTypeOK, ReviewedIsSpared, Repository
<1>3. /\ git' \in Repository /\ held' \subseteq held /\ held' \subseteq git'.prs /\ held' \subseteq git'.refs
      /\ \A b \in held \cap held' : (b \in git.dirs => b \in git'.dirs) /\ (b \in git.remote => b \in git'.remote)
  <2>1. PICK b \in Branches :
          \/ git' = [git EXCEPT !.dirs = @ \cup {b}, !.registered = @ \cup {b}] /\ held' = held
          \/ git' = [git EXCEPT !.remote = @ \cup {b}, !.refs = @ \cup {b}] /\ held' = held
          \/ git' = [git EXCEPT !.prs = @ \cup {b}] /\ held' = held
          \/ /\ \E gone \in SUBSET {b} : git' = [git EXCEPT !.prs = @ \ {b}, !.remote = @ \ gone]
             /\ held' = held \ {b}
    BY DEF GitMoves
  <2>2. CASE git' = [git EXCEPT !.dirs = @ \cup {b}, !.registered = @ \cup {b}] /\ held' = held
    BY <1>2, <2>2 DEF Repository
  <2>3. CASE git' = [git EXCEPT !.remote = @ \cup {b}, !.refs = @ \cup {b}] /\ held' = held
    BY <1>2, <2>3 DEF Repository
  <2>4. CASE git' = [git EXCEPT !.prs = @ \cup {b}] /\ held' = held
    BY <1>2, <2>4 DEF Repository
  <2>5. CASE /\ \E gone \in SUBSET {b} : git' = [git EXCEPT !.prs = @ \ {b}, !.remote = @ \ gone]
             /\ held' = held \ {b}
    <3>1. PICK gone \in SUBSET {b} : git' = [git EXCEPT !.prs = @ \ {b}, !.remote = @ \ gone]
      BY <2>5
    <3> QED
      BY <1>2, <2>5, <3>1 DEF Repository
  <2> QED
    BY <2>1, <2>2, <2>3, <2>4, <2>5
<1> QED
    BY <1>1, <1>2, <1>3 DEF RecoveryInv, RecoveryTypeOK, ReviewedIsSpared, Repository

LEMMA RecoveryInductive ==
    ASSUME RecoveryInv, [RecoveryNext]_hostVars
    PROVE  /\ RecoveryInv'
           /\ \A b \in held \cap held' : (b \in git.dirs => b \in git'.dirs) /\ (b \in git.remote => b \in git'.remote)
<1>1. CASE StartCommand
    BY <1>1, StartKeeps DEF StartCommand
<1>2. CASE CommandNext
    BY <1>2, QuietKeeps, ListOpenPRsKeeps, PickKeeps, RemovalKeeps DEF CommandNext
<1>3. CASE GitMoves
    BY <1>3, GitMovesKeeps
<1>4. CASE CoordinatorPolls
  <2>1. UNCHANGED <<git, held, command>> /\ db' \subseteq Tables
    BY <1>4 DEF CoordinatorPolls, RecoveryInv, RecoveryTypeOK, Tables
  <2> QED
    BY <2>1 DEF RecoveryInv, RecoveryTypeOK, ReviewedIsSpared
<1>5. CASE ProcessDies \/ ProcessStarts \/ UNCHANGED hostVars
  <2>1. UNCHANGED <<git, held, command, db>>
    BY <1>5 DEF ProcessDies, ProcessStarts, hostVars
  <2> QED
    BY <2>1 DEF RecoveryInv, RecoveryTypeOK, ReviewedIsSpared
<1> QED
    BY <1>1, <1>2, <1>3, <1>4, <1>5 DEF RecoveryNext

(* What a command decided from spares the work in review.                    *)
THEOREM RecoveryCorrect == RecoverySpec => []RecoveryInv
<1>1. HostInit => RecoveryInv
  <2> SUFFICES ASSUME HostInit
               PROVE  RecoveryInv
    OBVIOUS
  <2>1. /\ command = Idle /\ held = {} /\ db = Tables /\ Idle.at = 0
    BY DEF HostInit, Idle
  <2>2. git \in Repository
    BY DEF HostInit, Repository
  <2> QED
    BY <2>1, <2>2 DEF RecoveryInv, RecoveryTypeOK, ReviewedIsSpared, Repository
<1>2. RecoveryInv /\ [RecoveryNext]_hostVars => RecoveryInv'
    BY RecoveryInductive
<1> QED
    BY <1>1, <1>2, PTL DEF RecoverySpec

(* recover keeps the worktree and the remote branch of what was in review    *)
(* when it was typed and has been since (pruneWorktrees, pruneRemoteBranches),*)
(* for any branches, changes meanwhile and failing calls.                    *)
THEOREM ReviewedWorkStays == RecoverySpec => WorkInReviewStays
<1>1. RecoveryInv /\ [RecoveryNext]_hostVars
          => [\A b \in held \cap held' :
                /\ b \in git.dirs => b \in git'.dirs
                /\ b \in git.remote => b \in git'.remote]_hostVars
    BY RecoveryInductive
<1> QED
    BY <1>1, RecoveryCorrect, PTL DEF RecoverySpec, WorkInReviewStays

-----------------------------------------------------------------------------
(* The zombies of a host (HostRecovery).                                     *)

(* The processes that ran outside the tree of the shell when the command was *)
(* typed and still run.                                                      *)
Outsiders == {p \in Alive(host) : host[p].id \in outside}

(* The parent of a process that runs runs, or is init; two processes never   *)
(* have one number, and the next process gets a new one.                     *)
HostSound ==
    /\ host \in [Pids -> Process] /\ moves \in Nat
    /\ \A p \in Alive(host) :
          /\ host[p].parent \in Alive(host) \cup {Init1} /\ host[p].id < 100 + moves
          /\ \A q \in Alive(host) : host[p].id = host[q].id => p = q

(* Whatever dies and starts, the outsiders stay outside of the tree.         *)
OutsideSound ==
    /\ outside \subseteq Nat /\ \A i \in outside : i < 100 + moves
    /\ \A p \in Outsiders :
          host[p].inside /\ matchesTarget(host[p]) /\ p # Self /\ Shell \notin Ancestors(host, p)

(* The step that kills has all of them on its list, and leaves none.         *)
KillSound ==
    /\ DOMAIN command = DOMAIN Idle
    /\ At("kill", 1) => Outsiders \subseteq command.todo
    /\ "kill" \in command.passed /\ ~command.dry => Outsiders = {}

ZombieInv == HostSound /\ OutsideSound /\ KillSound

(* A process is outside of the tree when a set that holds its chain of       *)
(* parents does not hold the shell.                                          *)
Chain(h, p) == {chain \in SUBSET (Pids \cup {0, Init1}) :
                    p \in chain /\ \A q \in chain \cap Alive(h) : h[q].parent \in chain}

LEMMA OutsideByChain ==
    ASSUME NEW h, NEW p
    PROVE  Shell \notin Ancestors(h, p) <=> \E chain \in Chain(h, p) : Shell \notin chain
    BY HostAssumption DEF Ancestors, Chain

LEMMA ToInit ==
    ASSUME NEW x \in Process
    PROVE  LET y == [x EXCEPT !.parent = Init1] IN
           y \in Process /\ y.parent = Init1 /\ y.kind = x.kind /\ y.id = x.id /\ y.inside = x.inside
    BY DEF Process, Init1

(* A process that disappears leaves the others their place.                  *)
LEMMA WithoutFacts ==
    ASSUME NEW h \in [Pids -> Process], NEW p,
           \A q \in Alive(h) : h[q].parent \in Alive(h) \cup {Init1}
    PROVE  /\ Without(h, p) \in [Pids -> Process] /\ Alive(Without(h, p)) = Alive(h) \ {p}
           /\ \A q \in Alive(h) \ {p} :
                 LET v == Without(h, p)[q] IN
                 /\ v.parent \in (Alive(h) \ {p}) \cup {Init1}
                 /\ v.id = h[q].id /\ v.kind = h[q].kind /\ v.inside = h[q].inside
                 /\ Shell \notin Ancestors(h, q) => Shell \notin Ancestors(Without(h, p), q)
<1> DEFINE w == Without(h, p)
<1>0. Free \in Process /\ Free.kind = "free"
    BY DEF Free, Process
<1>1. \A q \in Pids : w[q] = IF q = p THEN Free ELSE IF h[q].parent = p THEN [h[q] EXCEPT !.parent = Init1] ELSE h[q]
    BY DEF Without
<1>2. \A q \in Pids : [h[q] EXCEPT !.parent = Init1] \in Process
    BY ToInit
<1>3. w \in [Pids -> Process]
    BY <1>0, <1>2 DEF Without
<1>4. \A q \in Pids : q # p => /\ w[q].kind = h[q].kind /\ w[q].id = h[q].id /\ w[q].inside = h[q].inside
                               /\ w[q].parent = IF h[q].parent = p THEN Init1 ELSE h[q].parent
  <2> SUFFICES ASSUME NEW q \in Pids, q # p
               PROVE  /\ w[q].kind = h[q].kind /\ w[q].id = h[q].id /\ w[q].inside = h[q].inside
                      /\ w[q].parent = IF h[q].parent = p THEN Init1 ELSE h[q].parent
    OBVIOUS
  <2>1. w[q] = IF h[q].parent = p THEN [h[q] EXCEPT !.parent = Init1] ELSE h[q]
    BY <1>1
  <2>2. h[q] \in Process
    OBVIOUS
  <2> QED
    BY <2>1, <2>2, ToInit
<1>5. \A q \in Pids : q = p => w[q].kind = "free"
    BY <1>0, <1>1
<1> HIDE DEF w
<1>6. Alive(w) = Alive(h) \ {p}
    BY <1>4, <1>5 DEF Alive
<1>7. ASSUME NEW q \in Alive(h) \ {p}
      PROVE  w[q].parent \in (Alive(h) \ {p}) \cup {Init1}
    BY <1>4, <1>7 DEF Alive
<1>8. ASSUME NEW q \in Alive(h) \ {p}, Shell \notin Ancestors(h, q)
      PROVE  Shell \notin Ancestors(w, q)
  <2>1. PICK chain \in Chain(h, q) : Shell \notin chain
    BY <1>8, OutsideByChain
  <2>2. ASSUME NEW r \in (chain \cup {Init1}) \cap Alive(w)
        PROVE  w[r].parent \in chain \cup {Init1}
    <3>1. r \in Alive(h) /\ r # p /\ r \in Pids /\ r \in chain
      BY <1>6, HostAssumption DEF Alive
    <3> QED
      BY <1>4, <2>1, <3>1 DEF Chain
  <2>3. chain \cup {Init1} \in Chain(w, q)
    BY <2>1, <2>2 DEF Chain
  <2>4. Shell # Init1
    BY HostAssumption
  <2> QED
    BY <2>1, <2>3, <2>4, OutsideByChain
<1> QED
    BY <1>3, <1>4, <1>6, <1>7, <1>8 DEF w, Alive

(* A process disappears: by itself or killed.                                *)
LEMMA DyingKeeps ==
    ASSUME HostSound, OutsideSound, NEW p, host' = Without(host, p), UNCHANGED outside, moves' \in {moves, moves + 1}
    PROVE  HostSound' /\ OutsideSound' /\ Outsiders' = Outsiders \ {p}
<1>1. /\ host' \in [Pids -> Process] /\ Alive(host') = Alive(host) \ {p}
      /\ \A q \in Alive(host) \ {p} :
            /\ host'[q].parent \in (Alive(host) \ {p}) \cup {Init1}
            /\ host'[q].id = host[q].id /\ host'[q].kind = host[q].kind /\ host'[q].inside = host[q].inside
            /\ Shell \notin Ancestors(host, q) => Shell \notin Ancestors(host', q)
    BY WithoutFacts DEF HostSound
<1>2. \A q \in Alive(host) : host[q].id \in Nat
    BY DEF HostSound, Alive, Process
<1>3. moves \in Nat /\ moves' \in Nat /\ moves <= moves'
    BY DEF HostSound
<1>4. HostSound'
    BY <1>1, <1>2, <1>3 DEF HostSound
<1>5. Outsiders' = Outsiders \ {p}
    BY <1>1 DEF Outsiders
<1>6. OutsideSound'
  <2>1. outside' \subseteq Nat /\ \A i \in outside' : i < 100 + moves'
    <3>1. \A i \in outside : i \in Nat /\ i < 100 + moves
      BY DEF OutsideSound
    <3> QED
      BY <1>3, <3>1
  <2>2. ASSUME NEW q \in Outsiders'
        PROVE  host'[q].inside /\ matchesTarget(host'[q]) /\ q # Self /\ Shell \notin Ancestors(host', q)
    BY <1>1, <1>5, <2>2 DEF OutsideSound, Outsiders, matchesTarget
  <2> QED
    BY <2>1, <2>2 DEF OutsideSound
<1> QED
    BY <1>4, <1>5, <1>6

(* A process that starts has a new number and is nobody's parent yet.        *)
LEMMA StartingKeeps ==
    ASSUME HostSound, OutsideSound, ProcessStarts
    PROVE  HostSound' /\ OutsideSound' /\ Outsiders' = Outsiders
<1>1. PICK p \in Pids \ Alive(host), parent \in Alive(host) \cup {Init1} :
          host' = [host EXCEPT ![p] = [kind |-> "codex", parent |-> parent, age |-> 0,
                                       inside |-> TRUE, id |-> 100 + moves]]
    BY DEF ProcessStarts
<1>2. moves' = moves + 1 /\ moves \in Nat /\ UNCHANGED outside
    BY DEF ProcessStarts, Moves, HostSound
<1>3. \A q \in Alive(host) : q \in Pids /\ q # p /\ host[q].id \in Nat /\ host[q].id < 100 + moves /\ host'[q] = host[q]
    BY <1>1 DEF HostSound, Alive, Process
<1>4. host' \in [Pids -> Process] /\ host'[p].kind = "codex" /\ host'[p].parent = parent /\ host'[p].id = 100 + moves
  <2>1. [kind |-> "codex", parent |-> parent, age |-> 0, inside |-> TRUE, id |-> 100 + moves] \in Process
    BY <1>2 DEF Process, Alive, Init1
  <2> QED
    BY <1>1, <2>1 DEF HostSound
<1>5. Alive(host') = Alive(host) \cup {p}
    BY <1>1, <1>4 DEF Alive, HostSound
<1>6. HostSound'
  <2>1. ASSUME NEW q \in Alive(host')
        PROVE  /\ host'[q].parent \in Alive(host') \cup {Init1} /\ host'[q].id < 100 + moves'
               /\ \A r \in Alive(host') : host'[q].id = host'[r].id => q = r
    <3>1. CASE q = p
      BY <1>2, <1>3, <1>4, <1>5, <3>1
    <3>2. CASE q \in Alive(host)
      BY <1>2, <1>3, <1>4, <1>5, <3>2 DEF HostSound
    <3> QED
      BY <1>5, <3>1, <3>2
  <2> QED
    BY <1>2, <1>4, <2>1 DEF HostSound
<1>7. \A i \in outside : i \in Nat /\ i < 100 + moves
    BY DEF OutsideSound
<1>8. Outsiders' = Outsiders
    BY <1>2, <1>3, <1>4, <1>5, <1>7 DEF Outsiders
<1>9. ASSUME NEW q \in Outsiders
      PROVE  Shell \notin Ancestors(host', q)
  <2>1. q \in Alive(host) /\ Shell \notin Ancestors(host, q)
    BY <1>9 DEF OutsideSound, Outsiders
  <2>2. PICK chain \in Chain(host, q) : Shell \notin chain
    BY <2>1, OutsideByChain
  <2> DEFINE live == chain \cap (Alive(host) \cup {Init1})
  <2>3. ASSUME NEW r \in live \cap Alive(host')
        PROVE  host'[r].parent \in live
    <3>1. r \in Alive(host) /\ r \in chain
      BY <1>1, <1>5, HostAssumption DEF Alive
    <3> QED
      BY <1>3, <2>2, <3>1 DEF Chain, HostSound
  <2>4. live \in Chain(host', q)
    BY <2>1, <2>2, <2>3 DEF Chain
  <2> QED
    BY <2>2, <2>4, OutsideByChain
<1>10. OutsideSound'
    BY <1>2, <1>3, <1>7, <1>8, <1>9 DEF OutsideSound, Outsiders
<1> QED
    BY <1>6, <1>8, <1>10

(* The commands in their different phases: what they have passed, and        *)
(* whether they are a dry run.                                               *)
LEMMA AdvanceFacts ==
    ASSUME NEW c, DOMAIN c = DOMAIN Idle
    PROVE  /\ DOMAIN Advance(c) = DOMAIN Idle /\ Advance(c).at = 0
           /\ Advance(c).dry = c.dry /\ Advance(c).passed = c.passed \cup {Head(c.plan)}
<1>1. DOMAIN Idle = {"what", "plan", "passed", "dry", "consent", "at", "seen", "prs", "todo", "result"}
    BY DEF Idle
<1> QED
    BY <1>1 DEF Advance

LEMMA AbortFacts ==
    ASSUME NEW c, DOMAIN c = DOMAIN Idle
    PROVE  DOMAIN Abort(c) = DOMAIN Idle /\ Abort(c).at = 0 /\ Abort(c).dry = c.dry /\ Abort(c).passed = c.passed
<1>1. DOMAIN Idle = {"what", "plan", "passed", "dry", "consent", "at", "seen", "prs", "todo", "result"}
    BY DEF Idle
<1> QED
    BY <1>1 DEF Abort

LEMMA FieldFacts ==
    ASSUME NEW c, DOMAIN c = DOMAIN Idle, NEW t, NEW d,
           \/ d = [c EXCEPT !.at = t] \/ d = [c EXCEPT !.seen = t]
           \/ d = [c EXCEPT !.todo = t] \/ d = [c EXCEPT !.prs = t]
    PROVE  DOMAIN d = DOMAIN Idle /\ d.plan = c.plan /\ d.passed = c.passed /\ d.dry = c.dry
<1>1. DOMAIN Idle = {"what", "plan", "passed", "dry", "consent", "at", "seen", "prs", "todo", "result"}
    BY DEF Idle
<1> QED
    BY <1>1

LEMMA SeenFacts ==
    ASSUME NEW c, DOMAIN c = DOMAIN Idle, NEW t, NEW d, d = [c EXCEPT !.seen = t]
    PROVE  DOMAIN d = DOMAIN Idle /\ d.at = c.at /\ d.passed = c.passed /\ d.dry = c.dry
<1>1. DOMAIN Idle = {"what", "plan", "passed", "dry", "consent", "at", "seen", "prs", "todo", "result"}
    BY DEF Idle
<1> QED
    BY <1>1

(* A step of a command that is not one of killing.                           *)
Harmless ==
    /\ UNCHANGED <<host, outside, moves>>
    /\ DOMAIN command' = DOMAIN Idle
    /\ command'.at = 1 => command'.plan = <<>> \/ Head(command'.plan) # "kill"
    /\ command'.dry = command.dry
    /\ "kill" \in command'.passed => "kill" \in command.passed

LEMMA HarmlessKeeps ==
    ASSUME ZombieInv, Harmless
    PROVE  ZombieInv'
<1>1. UNCHANGED <<host, outside, moves>>
    BY DEF Harmless
<1>2. HostSound' /\ OutsideSound' /\ Outsiders' = Outsiders
    BY <1>1 DEF ZombieInv, HostSound, OutsideSound, Outsiders
<1>3. KillSound'
    BY <1>2 DEF ZombieInv, KillSound, Harmless, At, Doing, Running
<1> QED
    BY <1>2, <1>3 DEF ZombieInv

LEMMA CommandsAreHarmless ==
    ASSUME DOMAIN command = DOMAIN Idle,
           \/ ListManaged \/ ListRemote \/ ListOpenPRs \/ OpenPRsUnavailable
           \/ PickTrees \/ RemoveTree \/ PruneTrees \/ PickBranches \/ DeleteBranch
           \/ ResetDB \/ Inspect \/ DeleteRow \/ LogRestart \/ clearCoordinatorInflight \/ CallFails
    PROVE  Harmless
<1>1. ASSUME NEW step, NEW n, StepFails(step, n)
      PROVE  Harmless
    BY <1>1, AbortFacts DEF StepFails, Harmless, surroundings
<1>2. ASSUME NEW step, NEW n, step # "kill", At(step, n), UNCHANGED <<host, outside, moves>>, command' = Advance(command)
      PROVE  Harmless
    BY <1>2, AdvanceFacts DEF Harmless, At, Doing
<1>3. ASSUME NEW step, NEW n, step # "kill", At(step, n), UNCHANGED <<host, outside, moves>>, NEW m, NEW t,
             \/ command' = [[command EXCEPT !.at = m] EXCEPT !.seen = t]
             \/ command' = [[command EXCEPT !.at = m] EXCEPT !.todo = t]
             \/ command' = [[command EXCEPT !.at = m] EXCEPT !.prs = t]
             \/ command' = [command EXCEPT !.todo = t]
      PROVE  Harmless
  <2>1. PICK c : /\ c = command \/ c = [command EXCEPT !.at = m]
                 /\ \/ command' = [c EXCEPT !.seen = t]
                    \/ command' = [c EXCEPT !.todo = t]
                    \/ command' = [c EXCEPT !.prs = t]
    BY <1>3
  <2>2. DOMAIN c = DOMAIN Idle /\ c.plan = command.plan /\ c.passed = command.passed /\ c.dry = command.dry
    BY <2>1, FieldFacts
  <2>3. DOMAIN command' = DOMAIN Idle /\ command'.plan = command.plan /\ command'.passed = command.passed
        /\ command'.dry = command.dry
    BY <2>1, <2>2, FieldFacts
  <2> QED
    BY <1>3, <2>3 DEF Harmless, At, Doing
<1>4. CASE ListManaged
    BY <1>2, <1>3, <1>4 DEF ListManaged, Phase, CommandStep, surroundings
<1>5. CASE ListRemote
    BY <1>2, <1>3, <1>5 DEF ListRemote, Phase, CommandStep, surroundings
<1>6. CASE ListOpenPRs
    BY <1>3, <1>6 DEF ListOpenPRs, Phase
<1>7. CASE OpenPRsUnavailable
    BY <1>1, <1>7 DEF OpenPRsUnavailable
<1>8. CASE PickTrees
    BY <1>2, <1>3, <1>8 DEF PickTrees, Phase, CommandStep, surroundings
<1>9. CASE RemoveTree
  <2>1. PICK b \in command.todo : command' = [command EXCEPT !.todo = @ \ {b}]
    BY <1>9 DEF RemoveTree
  <2>2. command' = [command EXCEPT !.todo = command.todo \ {b}]
    BY <2>1
  <2>3. At("trees", 3) /\ UNCHANGED <<host, outside, moves>>
    BY <1>9 DEF RemoveTree, CommandStep, surroundings
  <2> QED
    BY <1>3, <2>2, <2>3
<1>10. CASE PruneTrees
    BY <1>2, <1>10 DEF PruneTrees, CommandStep, surroundings
<1>11. CASE PickBranches
    BY <1>2, <1>3, <1>11 DEF PickBranches, Phase, CommandStep, surroundings
<1>12. CASE DeleteBranch
  <2>1. At("branches", 3) /\ UNCHANGED <<host, outside, moves>>
    BY <1>12 DEF DeleteBranch, CommandStep, surroundings
  <2>2. PICK b \in command.todo :
           command' = Advance(command) \/ command' = [command EXCEPT !.todo = @ \ {b}] \/ command' = Abort(command)
    BY <1>12 DEF DeleteBranch
  <2>3. CASE command' = [command EXCEPT !.todo = @ \ {b}]
    <3>1. command' = [command EXCEPT !.todo = command.todo \ {b}]
      BY <2>3
    <3> QED
      BY <1>3, <2>1, <3>1
  <2>4. CASE command' = Abort(command)
    BY <2>1, <2>4, AbortFacts DEF Harmless
  <2> QED
    BY <1>2, <2>1, <2>2, <2>3, <2>4
<1>13. CASE ResetDB \/ LogRestart \/ clearCoordinatorInflight
    BY <1>2, <1>13 DEF ResetDB, LogRestart, clearCoordinatorInflight, CommandStep, surroundings
<1>14. CASE Inspect \/ DeleteRow
  <2>1. UNCHANGED <<host, outside, moves>> /\ Head(command.plan) # "kill"
    BY <1>14 DEF Inspect, DeleteRow, CommandStep, surroundings, At, Doing, Tables
  <2>2. command' = Advance(command) \/ \E seen : command' = [Advance(command) EXCEPT !.seen = seen]
    BY <1>14 DEF Inspect, DeleteRow
  <2>3. DOMAIN command' = DOMAIN Idle /\ command'.at = 0 /\ command'.dry = command.dry
        /\ command'.passed = command.passed \cup {Head(command.plan)}
    <3>1. ASSUME NEW seen, command' = [Advance(command) EXCEPT !.seen = seen]
          PROVE  DOMAIN command' = DOMAIN Idle /\ command'.at = 0 /\ command'.dry = command.dry
                 /\ command'.passed = command.passed \cup {Head(command.plan)}
      BY <3>1, AdvanceFacts, SeenFacts
    <3> QED
      BY <2>2, <3>1, AdvanceFacts
  <2> QED
    BY <2>1, <2>3 DEF Harmless
<1>15. CASE CallFails
    BY <1>1, <1>15 DEF CallFails
<1> QED
    BY <1>4, <1>5, <1>6, <1>7, <1>8, <1>9, <1>10, <1>11, <1>12, <1>13, <1>14, <1>15

(* The command is typed: who runs outside of the tree is noted.              *)
LEMMA TypedKeeps ==
    ASSUME ZombieInv, StartCommand
    PROVE  ZombieInv'
<1>1. UNCHANGED <<host, moves>>
    BY DEF StartCommand
<1>2. outside' = {host[p].id : p \in {q \in Alive(host) :
                       host[q].inside /\ matchesTarget(host[q]) /\ q # Self /\ Shell \notin Ancestors(host, q)}}
    BY DEF StartCommand
<1>3. \A q \in Alive(host) : host[q].id \in Nat /\ host[q].id < 100 + moves
    BY DEF ZombieInv, HostSound, Alive, Process
<1>4. \A q \in Outsiders' : q \in Alive(host) /\ host[q].inside /\ matchesTarget(host[q]) /\ q # Self /\ Shell \notin Ancestors(host, q)
    BY <1>1, <1>2 DEF ZombieInv, HostSound, Outsiders
<1>5. HostSound' /\ OutsideSound'
  <2>1. outside' \subseteq Nat /\ \A i \in outside' : i < 100 + moves'
    BY <1>1, <1>2, <1>3
  <2>2. HostSound'
    BY <1>1 DEF ZombieInv, HostSound
  <2> QED
    BY <1>1, <1>4, <2>1, <2>2 DEF OutsideSound
<1>6. DOMAIN command' = DOMAIN Idle /\ command'.at = 0 /\ command'.passed = {}
  <2>1. DOMAIN Idle = {"what", "plan", "passed", "dry", "consent", "at", "seen", "prs", "todo", "result"}
        /\ Idle.at = 0 /\ Idle.passed = {}
    BY DEF Idle
  <2>2. ASSUME NEW flags, NEW dry, NEW consent, StartRecover(flags, dry, consent)
        PROVE  DOMAIN command' = DOMAIN Idle /\ command'.at = 0 /\ command'.passed = {}
    BY <2>1, <2>2 DEF StartRecover
  <2>3. ASSUME NEW dry, NEW remote, StartRestart(dry, remote)
        PROVE  DOMAIN command' = DOMAIN Idle /\ command'.at = 0 /\ command'.passed = {}
    BY <2>1, <2>3 DEF StartRestart
  <2>4. ASSUME NEW dry, StartInvalidate(dry)
        PROVE  DOMAIN command' = DOMAIN Idle /\ command'.at = 0 /\ command'.passed = {}
    BY <2>1, <2>4 DEF StartInvalidate
  <2> QED
    BY <2>2, <2>3, <2>4 DEF StartCommand
<1> QED
    BY <1>5, <1>6 DEF ZombieInv, KillSound, At

(* The listing holds every outsider, for all of them match.                  *)
LEMMA ListedKeeps ==
    ASSUME ZombieInv, ListProcesses
    PROVE  ZombieInv'
<1> DEFINE victims == {p \in Alive(host) : isRecoverableProcess(host, p) /\ host[p].inside}
<1>1. At("kill", 0) /\ UNCHANGED <<host, outside, moves>>
    BY DEF ListProcesses, CommandStep, surroundings
<1>2. command' = IF command.dry \/ victims = {} THEN Advance(command) ELSE [[command EXCEPT !.at = 1] EXCEPT !.todo = victims]
    BY DEF ListProcesses, Phase
<1>3. HostSound' /\ OutsideSound' /\ Outsiders' = Outsiders
    BY <1>1 DEF ZombieInv, HostSound, OutsideSound, Outsiders
<1>4. Outsiders \subseteq victims
    BY DEF ZombieInv, OutsideSound, Outsiders, isRecoverableProcess, isDescendantOf
<1>5. DOMAIN command = DOMAIN Idle /\ ("kill" \in command.passed /\ ~command.dry => Outsiders = {})
    BY DEF ZombieInv, KillSound
<1> HIDE DEF victims
<1>6. CASE command.dry \/ victims = {}
  <2>1. DOMAIN command' = DOMAIN Idle /\ command'.at = 0 /\ command'.dry = command.dry
    BY <1>2, <1>5, <1>6, AdvanceFacts
  <2> QED
    BY <1>3, <1>4, <1>6, <2>1 DEF ZombieInv, KillSound, At
<1>7. CASE ~(command.dry \/ victims = {})
  <2>1. command' = [[command EXCEPT !.at = 1] EXCEPT !.todo = victims]
    BY <1>2, <1>7
  <2>2. command'.todo = victims
    BY <1>5, <2>1, PhaseFacts
  <2>3. DOMAIN command' = DOMAIN Idle /\ command'.dry = command.dry /\ command'.passed = command.passed
    <3>1. PICK c : c = [command EXCEPT !.at = 1] /\ command' = [c EXCEPT !.todo = victims]
      BY <2>1
    <3>2. DOMAIN c = DOMAIN Idle /\ c.passed = command.passed /\ c.dry = command.dry
      BY <1>5, <3>1, FieldFacts
    <3> QED
      BY <3>1, <3>2, FieldFacts
  <2> QED
    BY <1>3, <1>4, <1>5, <2>2, <2>3 DEF ZombieInv, KillSound
<1> QED
    BY <1>6, <1>7

(* The next of the list is killed; after the last one none is left.          *)
LEMMA KilledKeeps ==
    ASSUME ZombieInv, TerminateProcess
    PROVE  ZombieInv'
<1>1. At("kill", 1) /\ UNCHANGED <<outside, moves>>
    BY DEF TerminateProcess, CommandStep, surroundings
<1>2. PICK p : /\ host' = Without(host, p)
               /\ command' = IF command.todo \ {p} = {} THEN Advance(command)
                             ELSE [command EXCEPT !.todo = command.todo \ {p}]
    BY DEF TerminateProcess
<1>3. HostSound' /\ OutsideSound' /\ Outsiders' = Outsiders \ {p}
    BY <1>1, <1>2, DyingKeeps DEF ZombieInv
<1>4. DOMAIN command = DOMAIN Idle /\ Outsiders \subseteq command.todo /\ ("kill" \in command.passed /\ ~command.dry => Outsiders = {})
    BY <1>1 DEF ZombieInv, KillSound
<1>5. CASE command.todo \ {p} = {}
  <2>1. DOMAIN command' = DOMAIN Idle /\ command'.at = 0 /\ command'.dry = command.dry
    BY <1>2, <1>4, <1>5, AdvanceFacts
  <2> QED
    BY <1>3, <1>4, <1>5, <2>1 DEF ZombieInv, KillSound, At
<1>6. CASE command.todo \ {p} # {}
  <2>1. command' = [command EXCEPT !.todo = command.todo \ {p}]
    BY <1>2, <1>6
  <2>2. command'.todo = command.todo \ {p}
    BY <1>4, <2>1, PhaseFacts
  <2>3. DOMAIN command' = DOMAIN Idle /\ command'.dry = command.dry /\ command'.passed = command.passed
    <3>1. ASSUME NEW d, d = [command EXCEPT !.todo = command.todo \ {p}]
          PROVE  DOMAIN d = DOMAIN Idle /\ d.dry = command.dry /\ d.passed = command.passed
      BY <1>4, <3>1, FieldFacts
    <3> QED
      BY <2>1, <3>1
  <2> QED
    BY <1>3, <1>4, <2>2, <2>3 DEF ZombieInv, KillSound
<1> QED
    BY <1>5, <1>6

(* Around the command processes die and start.                               *)
LEMMA AroundKeeps ==
    ASSUME ZombieInv, ProcessDies \/ ProcessStarts \/ GitMoves \/ CoordinatorPolls
    PROVE  ZombieInv'
<1>1. UNCHANGED command /\ UNCHANGED outside /\ moves' = moves + 1
    BY DEF ProcessDies, ProcessStarts, GitMoves, CoordinatorPolls, Moves
<1>2. HostSound' /\ OutsideSound' /\ Outsiders' \subseteq Outsiders
  <2>1. CASE ProcessDies
    <3>1. PICK p : host' = Without(host, p)
      BY <2>1 DEF ProcessDies
    <3> QED
      BY <1>1, <3>1, DyingKeeps DEF ZombieInv
  <2>2. CASE ProcessStarts
    BY <2>2, StartingKeeps DEF ZombieInv
  <2>3. CASE GitMoves \/ CoordinatorPolls
    <3>1. UNCHANGED host
      BY <2>3 DEF GitMoves, CoordinatorPolls
    <3>2. Outsiders' = Outsiders
      BY <1>1, <3>1 DEF Outsiders
    <3>3. moves \in Nat /\ moves' \in Nat /\ moves < moves'
      BY <1>1 DEF ZombieInv, HostSound
    <3>4. \A q \in Alive(host) : host[q].id \in Nat
      BY DEF ZombieInv, HostSound, Alive, Process
    <3>5. HostSound'
      BY <3>1, <3>3, <3>4 DEF ZombieInv, HostSound
    <3>6. \A i \in outside : i \in Nat /\ i < 100 + moves
      BY DEF ZombieInv, OutsideSound
    <3>7. OutsideSound'
      BY <1>1, <3>1, <3>2, <3>3, <3>6 DEF ZombieInv, OutsideSound
    <3> QED
      BY <3>2, <3>5, <3>7
  <2> QED
    BY <2>1, <2>2, <2>3
<1> QED
    BY <1>1, <1>2 DEF ZombieInv, KillSound, At, Doing, Running

LEMMA ZombiesInitially == HostInit => ZombieInv
<1> SUFFICES ASSUME HostInit PROVE ZombieInv
    OBVIOUS
<1>1. host = FirstProcs /\ outside = {} /\ moves = 0 /\ command = Idle
    BY DEF HostInit
<1>2. HostSound
    BY <1>1, HostAssumption DEF HostSound
<1>3. OutsideSound /\ Outsiders = {}
    BY <1>1 DEF OutsideSound, Outsiders
<1>4. Idle.at = 0
    BY DEF Idle
<1> QED
    BY <1>1, <1>2, <1>3, <1>4 DEF ZombieInv, KillSound, At

LEMMA ZombieStep == ZombieInv /\ [RecoveryNext]_hostVars => ZombieInv'
<1> SUFFICES ASSUME ZombieInv, [RecoveryNext]_hostVars PROVE ZombieInv'
    OBVIOUS
<1>1. DOMAIN command = DOMAIN Idle
    BY DEF ZombieInv, KillSound
<1>2. CASE CommandNext
    BY <1>1, <1>2, CommandsAreHarmless, HarmlessKeeps, ListedKeeps, KilledKeeps DEF CommandNext
<1>3. CASE UNCHANGED hostVars
    BY <1>3 DEF hostVars, ZombieInv, HostSound, OutsideSound, KillSound, Outsiders, At, Doing, Running
<1> QED
    BY <1>2, <1>3, TypedKeeps, AroundKeeps DEF RecoveryNext

(* When the kill step of recover has ended well, no codex or serve process   *)
(* of the repository that ran outside the operator's shell when the command  *)
(* was typed still runs, for any processes, deaths, starts and reused pids   *)
(* meanwhile (killZombies).                                                  *)
THEOREM NoZombieLeft == RecoverySpec => []NoZombieRemains
<1>1. ZombieInv => NoZombieRemains
    BY DEF ZombieInv, KillSound, Outsiders, NoZombieRemains
<1> QED
    BY <1>1, ZombiesInitially, ZombieStep, PTL DEF RecoverySpec

=============================================================================
