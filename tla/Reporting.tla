----------------------------- MODULE Reporting -----------------------------
(***************************************************************************)
(* What a worker does with a run that has ended: it recommends a human     *)
(* when the labels did not move, checks the claims the agent made, submits *)
(* the result and reports it on the issue.  Runs of one issue exclude each *)
(* other only while the agent works, so the ends of two runs overlap, and  *)
(* they share the memory through which repeated infra errors edit one      *)
(* comment.  All comments here are on one issue, by one agent.             *)
(***************************************************************************)
EXTENDS Naturals, Sequences, FiniteSets, SequencesExt

CONSTANTS
    Runs,          \* runs of the issue, each a task that a worker executes
    Why,           \* reasons of infra failures
    Claims,        \* what an agent may claim to have done
    dedupTTL,      \* infraDedupTTL, in ticks
    RetryLimit,    \* rateLimitRetryLimit
    MaxTicks,      \* bound: clock
    MaxGHErrors    \* bound: calls of GitHub that fail, comments users delete

Nobody == "nobody"

\* "comment": posted a comment; "labels": changed labels without saying which;
\* any other claim names something that can be looked up.
ASSUME ReportingAssumption ==
    /\ Claims \subseteq {"comment", "labels", "artifact"}
    /\ Nobody \notin Runs
    /\ dedupTTL \in Nat /\ RetryLimit \in Nat /\ MaxTicks \in Nat /\ MaxGHErrors \in Nat

VARIABLES
    ending,        \* each run: where its execution is and what it found out
    posts,         \* the comments of the issue, oldest first
    agentTurn,     \* the run that holds the lock of the issue
    dedup,         \* infraDedup: the comment that a repeat edits
    dedupMu,       \* infraDedupMu: the run that holds it
    tick, ghErrors

reportVars == <<ending, posts, agentTurn, dedup, dedupMu, tick, ghErrors>>

NoDedup == [id |-> 0, reason |-> "none", seen |-> 0]

\* How an agent ends; "failure" stands for a timeout and a spent retry budget
\* too, "rejected" for a failure with a verdict that the next agent is to read.  A run that could not get its worktree never starts it.
Ends ==
    [mark : {"success"}, reason : {"none"}, claims : SUBSET Claims, did : SUBSET Claims, big : {FALSE}, moved : BOOLEAN]
    \cup [mark : {"failure", "rejected"}, reason : {"none"}, claims : {{}}, did : {{}}, big : BOOLEAN, moved : {FALSE}]
    \cup [mark : {"infra"}, reason : Why, claims : {{}}, did : {{}}, big : BOOLEAN, moved : {FALSE}]
NoEnd == [mark |-> "success", reason |-> "none", claims |-> {}, did |-> {}, big |-> FALSE, moved |-> TRUE]

ReportTypeOK ==
    /\ ending \in [Runs -> [pc : STRING, end : Ends, since : Nat, tries : 0..RetryLimit, verified : {"none", "ok", "partial"},
                            told : {"none", "completed", "failed", "nothing"}, shown : STRING, wrote : Nat]]
    /\ agentTurn \in Runs \cup {Nobody} /\ dedupMu \in Runs \cup {Nobody}
    /\ dedup.id \in 0..Len(posts) /\ tick \in 0..MaxTicks /\ ghErrors \in 0..MaxGHErrors

ReportInit ==
    /\ ending = [r \in Runs |-> [pc |-> "claimed", end |-> NoEnd, since |-> 0, tries |-> 0, verified |-> "none",
                                 told |-> "none", shown |-> "none", wrote |-> 0]]
    /\ posts = <<>> /\ agentTurn = Nobody /\ dedup = NoDedup /\ dedupMu = Nobody /\ tick = 0 /\ ghErrors = 0

\* What the execution of one run is now.
Becomes(r, e) == ending' = [ending EXCEPT ![r] = e]
Goto(r, pc) == Becomes(r, [ending[r] EXCEPT !.pc = pc, !.tries = 0, !.since = IF pc = "over" THEN 0 ELSE @,
                                               !.wrote = IF pc = "over" THEN 0 ELSE @])
GHError == ghErrors < MaxGHErrors /\ ghErrors' = ghErrors + 1

\* A comment on the issue: who wrote it, what about and for which runs.
Post(kind, reason, r) == [kind |-> kind, reason |-> reason, about |-> {r}, there |-> TRUE]

-----------------------------------------------------------------------------
(* Before the report.                                                      *)

\* The worktree is there: "Agent Started" is posted next.  Otherwise the run
\* ends with an infra error, which is reported before the task is released.
Prepare(r) ==
    /\ ending[r].pc = "claimed" /\ agentTurn = Nobody
    /\ \/ /\ agentTurn' = r
          /\ Becomes(r, [ending[r] EXCEPT !.pc = "started", !.since = Len(posts)])
       \/ /\ \E e \in Ends : /\ e.mark = "infra" /\ ~e.big
                             /\ Becomes(r, [ending[r] EXCEPT !.pc = "report", !.end = e, !.told = "nothing"])
          /\ UNCHANGED agentTurn
    /\ UNCHANGED <<posts, dedup, dedupMu, tick, ghErrors>>

\* The agent has done its work, a comment of its own included.  Its worktree
\* is removed with the lock.  A run that succeeded without moving a label is
\* recommended to a human.
AgentEnds(r) ==
    /\ ending[r].pc = "works" /\ agentTurn' = Nobody
    /\ \E e \in Ends :
         /\ posts' = IF "comment" \in e.did THEN Append(posts, Post("agent", "none", r)) ELSE posts
         /\ Becomes(r, [ending[r] EXCEPT !.end = e, !.pc = IF e.mark = "success" /\ ~e.moved THEN "human" ELSE "verify"])
    /\ UNCHANGED <<dedup, dedupMu, tick, ghErrors>>

\* The worker shuts down: the task goes back and nothing is reported.
ReleaseAtShutdown(r) ==
    /\ ending[r].pc = "verify" /\ Becomes(r, [ending[r] EXCEPT !.pc = "over", !.told = "nothing"])
    /\ UNCHANGED <<posts, agentTurn, dedup, dedupMu, tick, ghErrors>>

\* Who wrote the last comment, and when: everything this worker and its agents
\* post carries one login.  A comment from just before the start of the run is
\* within the tolerance of the window.
commentWithinRunWindow(r, skew) == Len(posts) + skew > ending[r].since /\ posts # <<>>

\* A branch on the remote, a file in or the subject of the last commit.
InRepository(r, c) == c \in ending[r].end.did

\* Mutant: a claim that could not be looked up counts as verified.
HoldsUnlessRefuted(r, c, ok, skew) == ~ok \/ CASE c = "comment" -> commentWithinRunWindow(r, skew)
                                               [] c = "labels"  -> FALSE
                                               [] OTHER         -> InRepository(r, c)
\* One claim against GitHub or git.  A claim that does not say which labels it
\* changed is never verified.
Holds(r, c, ok, skew) ==
    /\ ok
    /\ CASE c = "comment" -> commentWithinRunWindow(r, skew)
         [] c = "labels"  -> FALSE
         [] OTHER         -> InRepository(r, c)

\* Only a run that succeeded is checked.
Verify(r) ==
    /\ ending[r].pc = "verify"
    /\ \E ok \in BOOLEAN, skew \in {0, 1} :
         /\ IF ok THEN UNCHANGED ghErrors ELSE GHError
         /\ Becomes(r, [ending[r] EXCEPT !.pc = "submit",
                !.verified = IF ending[r].end.mark # "success" THEN "none"
                             ELSE IF \A c \in ending[r].end.claims : Holds(r, c, ok, skew) THEN "ok" ELSE "partial"])
    /\ UNCHANGED <<posts, agentTurn, dedup, dedupMu, tick>>

\* The result reaches the coordinator, or the task is released after the report.
Submit(r) ==
    /\ ending[r].pc = "submit"
    /\ \E told \in {IF ending[r].end.mark = "success" /\ ending[r].verified = "ok" THEN "completed" ELSE "failed", "nothing"} :
         Becomes(r, [ending[r] EXCEPT !.pc = "report", !.told = told])
    /\ UNCHANGED <<posts, agentTurn, dedup, dedupMu, tick, ghErrors>>

-----------------------------------------------------------------------------
(* The report.                                                             *)

\* The status that the comment shows.  The caller has verified the claims, so
\* the report does not verify them again and its status stays as it was.
Status(r) ==
    CASE ending[r].end.mark = "infra" -> "infra-error" [] ending[r].end.mark = "rejected" -> "failure"
      [] OTHER -> ending[r].end.mark

\* A body that is too long for a comment is cut.  The worktree into which the
\* full text would be committed is gone, so the short one has no link.
Overflows(r) == ending[r].end.big

\* Every report but an infra error that fits a comment ends the storm of errors.
Report(r) ==
    /\ ending[r].pc = "report" /\ dedupMu = Nobody
    /\ Becomes(r, [ending[r] EXCEPT !.shown = Status(r), !.tries = 0, !.since = 0,
                                       !.pc = IF Status(r) = "infra-error" /\ ~Overflows(r) THEN "dedup" ELSE "write"])
    /\ dedup' = IF Status(r) = "infra-error" /\ ~Overflows(r) THEN dedup ELSE NoDedup
    /\ UNCHANGED <<posts, agentTurn, dedupMu, tick, ghErrors>>

\* Mutant: a comment whose number is not known is edited too.
RepeatsAnyNumber(r) == dedup.reason = ending[r].end.reason /\ tick - dedup.seen <= dedupTTL
\* Mutant: the reason is not compared.
RepeatsAnyReason(r) == dedup.id # 0 /\ tick - dedup.seen <= dedupTTL
\* The error is the one that the last comment is about.
Repeats(r) == dedup.id # 0 /\ dedup.reason = ending[r].end.reason /\ tick - dedup.seen <= dedupTTL

\* The lock is kept while GitHub is called.
tryDedup(r) ==
    /\ ending[r].pc = "dedup" /\ dedupMu = Nobody
    /\ IF Repeats(r)
       THEN Goto(r, "edit") /\ dedupMu' = r /\ dedup' = [dedup EXCEPT !.seen = tick]
       ELSE Goto(r, "write") /\ UNCHANGED <<dedup, dedupMu>>
    /\ UNCHANGED <<posts, agentTurn, tick, ghErrors>>

\* The edit fails when the comment is not there any more, and the report is lost.
EditComment(r) ==
    /\ ending[r].pc = "edit" /\ Goto(r, "over") /\ dedupMu' = Nobody
    /\ \/ /\ dedup.id # 0 /\ posts[dedup.id].there
          /\ posts' = [posts EXCEPT ![dedup.id] = [posts[dedup.id] EXCEPT !.about = @ \cup {r}]]
          /\ UNCHANGED ghErrors
       \/ dedup.id # 0 /\ posts[dedup.id].there /\ GHError /\ UNCHANGED posts
       \/ (dedup.id = 0 \/ ~posts[dedup.id].there) /\ UNCHANGED <<posts, ghErrors>>
    /\ UNCHANGED <<agentTurn, dedup, tick>>

\* Where a run goes on after a comment, whether it was written or not.
AfterWrite(r, written) ==
    CASE ending[r].pc = "started" -> "works"
      [] ending[r].pc = "human"   -> "verify"
      [] ending[r].pc = "write"   -> IF written /\ ending[r].shown = "infra-error" /\ ~Overflows(r) THEN "record"
                                     ELSE IF ending[r].end.mark = "rejected" /\ ending[r].told # "nothing" THEN "verdict" ELSE "over"
      [] ending[r].pc = "verdict" -> "over"

Kind(r) == IF ending[r].pc = "write" THEN ending[r].shown ELSE ending[r].pc
Reported(r) == IF ending[r].pc = "write" THEN ending[r].end.reason ELSE "none"

WriteComment(r) ==
    /\ ending[r].pc \in {"started", "human", "write", "verdict"}
    /\ \/ /\ posts' = Append(posts, Post(Kind(r), Reported(r), r))
          /\ Becomes(r, [ending[r] EXCEPT !.pc = AfterWrite(r, TRUE), !.tries = 0,
                                              !.wrote = IF AfterWrite(r, TRUE) = "record" THEN Len(posts) + 1 ELSE 0])
          /\ UNCHANGED ghErrors
       \/ Goto(r, AfterWrite(r, FALSE)) /\ GHError /\ UNCHANGED posts
    /\ UNCHANGED <<agentTurn, dedup, dedupMu, tick>>

\* Mutant: a rate limit is waited out for ever.
TriesLeftAlways(r) == ending[r].pc = "started"
\* Only the first comment waits the limit out: the others are given less time
\* than the shortest of the pauses.
TriesLeft(r) == ending[r].pc = "started" /\ ending[r].tries < RetryLimit

RateLimited(r) ==
    /\ ending[r].pc \in {"started", "human", "write", "verdict"}
    /\ IF TriesLeft(r)
       THEN Becomes(r, [ending[r] EXCEPT !.tries = (@ + 1) % (RetryLimit + 1)]) /\ UNCHANGED ghErrors
       ELSE Goto(r, AfterWrite(r, FALSE)) /\ GHError
    /\ UNCHANGED <<posts, agentTurn, dedup, dedupMu, tick>>

\* The number of the new comment is remembered, or 0 when the output of gh did
\* not tell it.
RecordComment(r) ==
    /\ ending[r].pc = "record" /\ dedupMu = Nobody /\ Goto(r, "over")
    /\ \E id \in {ending[r].wrote, 0} : dedup' = [id |-> id, reason |-> ending[r].end.reason, seen |-> tick]
    /\ UNCHANGED <<posts, agentTurn, dedupMu, tick, ghErrors>>

-----------------------------------------------------------------------------
DeleteComment(i) ==
    /\ posts[i].there /\ GHError /\ posts' = [posts EXCEPT ![i] = [posts[i] EXCEPT !.there = FALSE]]
    /\ UNCHANGED <<ending, agentTurn, dedup, dedupMu, tick>>

TickReport ==
    /\ tick < MaxTicks /\ tick' = tick + 1
    /\ UNCHANGED <<ending, posts, agentTurn, dedup, dedupMu, ghErrors>>

RunStep(r) == Prepare(r) \/ AgentEnds(r) \/ Verify(r) \/ Submit(r) \/ Report(r) \/ tryDedup(r) \/ EditComment(r)
                \/ WriteComment(r) \/ RateLimited(r) \/ RecordComment(r)
ReportNext == \/ \E r \in Runs : RunStep(r) \/ ReleaseAtShutdown(r)
              \/ (\E i \in DOMAIN posts : DeleteComment(i)) \/ TickReport

\* The worker goes on: each call of GitHub returns, the agent ends, a lock is
\* taken by whoever waits long enough.
ReportFairness == \A r \in Runs : SF_reportVars(RunStep(r))
ReportSpec == ReportInit /\ [][ReportNext]_reportVars /\ ReportFairness

-----------------------------------------------------------------------------
\* A comment never mixes errors: the runs it is about all failed for the reason
\* it gives, although runs end together and edit it in turns
\* (tryDedupInfraComment, writeAndRecordInfraComment).
CommentsDoNotMix ==
    \A i \in DOMAIN posts : posts[i].kind = "infra-error" =>
        \A r \in posts[i].about : ending[r].end.mark = "infra" /\ ending[r].end.reason = posts[i].reason

\* As long as GitHub answers, the end of every run that is not released at a
\* shutdown can be read on the issue, in a comment of its own or as a repeat.
EndsAreVisible ==
    \A r \in Runs : ending[r].pc = "over" /\ ending[r].shown # "none" /\ ghErrors = 0 =>
        \E i \in DOMAIN posts : r \in posts[i].about /\ posts[i].kind = ending[r].shown

\* A run that the coordinator is told has completed did what it claimed, but
\* for comments (Verify, before the result is submitted).
ClaimsAreTrue ==
    \A r \in Runs : ending[r].told = "completed" => ending[r].end.claims \ {"comment"} \subseteq ending[r].end.did

\* Every run comes to its end, whatever GitHub answers (writeWithRateLimitRetry).
ReportsEnd == \A r \in Runs : <>(ending[r].pc = "over")

\* A run with a claim that failed verification is reported as partial.
PartialIsMarked == \A r \in Runs : ending[r].verified = "partial" /\ ending[r].shown # "none" => ending[r].shown = "partial"

\* A run that claims a comment which it did not write is not completed.
MissingCommentIsFound ==
    \A r \in Runs : ending[r].told = "completed" => (("comment" \in ending[r].end.claims) => ("comment" \in ending[r].end.did))
=============================================================================
