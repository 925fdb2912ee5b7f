----------------------------- MODULE IssueClaim -----------------------------
(***************************************************************************)
(* The persistent per-issue dispatch claim: the issue_claim table shared   *)
(* by several coordinators, the token each state machine remembers for the *)
(* row it holds, and the inflight group a coordinator dispatches under it. *)
(*                                                                         *)
(* A coordinator is named by its claimer id, host and pid: one that comes  *)
(* back under the same host and pid is the same coordinator here.  Its     *)
(* event loop acquires claims while HTTP handlers, the periodic recovery   *)
(* and shutdown release them; the token map is locked, but neither the     *)
(* table nor the inflight map is locked together with it.                  *)
(*                                                                         *)
(* lease[c][i] says that less than the lease has passed since c last       *)
(* wrote expires_at; a row is expired when its owner's lease has passed.   *)
(***************************************************************************)
EXTENDS Naturals

CONSTANTS
    Coords,       \* claimer ids
    Issues,
    Tokens,       \* claim tokens
    NoToken,      \* the empty token, and the row that is not there
    PidOf,        \* PidOf[c]: the pid in the claimer id
    MaxReleases,  \* bound: releases of an issue one coordinator has under way
    MaxRestarts   \* bound: restart-issue commands of the operator

ASSUME ClaimAssumption ==
    /\ NoToken \notin Tokens
    /\ MaxReleases \in Nat
    /\ MaxRestarts \in Nat

VARIABLES
    claim,     \* issue_claim: owner and token of each issue's row, or NoRow
    lease,     \* the leases the coordinators took, see above
    phase,     \* each process: "off", "sweeping", "up", "stopping" or "exited"
    swept,     \* rows the start-up sweep selected and has yet to delete
    acq,       \* token AcquireIssueClaim returned, not in the token map yet
    held,      \* claimTokens
    granted,   \* dispatches that have the claim and not yet a group
    group,     \* issues with an inflight group
    releases,  \* releaseIssueClaim calls that have not taken the token yet
    taken,     \* tokens taken from the map whose row is to be deleted
    restarts   \* restart-issue commands so far

vars == <<claim, lease, phase, swept, acq, held, granted, group, releases, taken, restarts>>

NoRow == [owner |-> NoToken, token |-> NoToken]
Row   == [owner: Coords, token: Tokens] \cup {NoRow}

InMemory == {"up", "stopping"}

Live(i) == claim[i] # NoRow /\ lease[claim[i].owner][i]

\* generateClaimToken: 16 random bytes, new among the tokens in use.
Fresh == {t \in Tokens :
            /\ \A i \in Issues : claim[i].token # t
            /\ \A c \in Coords, i \in Issues :
                  acq[c][i] # t /\ held[c][i] # t /\ t \notin taken[c][i]}

Init ==
    /\ claim = [i \in Issues |-> NoRow]
    /\ lease = [c \in Coords |-> [i \in Issues |-> FALSE]]
    /\ phase = [c \in Coords |-> "off"]
    /\ swept = [c \in Coords |-> {}]
    /\ acq = [c \in Coords |-> [i \in Issues |-> NoToken]]
    /\ held = [c \in Coords |-> [i \in Issues |-> NoToken]]
    /\ granted = [c \in Coords |-> {}]
    /\ group = [c \in Coords |-> {}]
    /\ releases = [c \in Coords |-> [i \in Issues |-> 0]]
    /\ taken = [c \in Coords |-> [i \in Issues |-> {}]]
    /\ restarts = 0

-----------------------------------------------------------------------------
(* Dispatching.                                                            *)

\* Entering another state forgets the inflight group but keeps the claim.
EnterState(c, i) ==
    /\ phase[c] \in InMemory
    /\ acq[c][i] = NoToken /\ i \notin granted[c]
    /\ i \in group[c]
    /\ group' = [group EXCEPT ![c] = @ \ {i}]
    /\ UNCHANGED <<claim, lease, phase, swept, acq, held, granted, releases, taken, restarts>>

AcquireKeepsToken(c, i, t) ==
    /\ phase[c] \in InMemory
    /\ acq[c][i] = NoToken /\ i \notin granted[c]
    /\ \/ /\ claim[i] = NoRow
          /\ t \in Fresh
       \/ /\ claim[i] # NoRow /\ (claim[i].owner = c \/ ~Live(i))
          /\ t = claim[i].token
    /\ claim' = [claim EXCEPT ![i] = [owner |-> c, token |-> t]]
    /\ lease' = [lease EXCEPT ![c][i] = TRUE]
    /\ acq' = [acq EXCEPT ![c][i] = t]
    /\ UNCHANGED <<phase, swept, held, granted, group, releases, taken, restarts>>

\* One transaction: no row or an expired one is taken with a fresh token, an
\* own unexpired one is extended under its token; somebody else's blocks.
AcquireIssueClaim(c, i, t) ==
    /\ phase[c] \in InMemory
    /\ acq[c][i] = NoToken /\ i \notin granted[c]
    /\ \/ /\ ~Live(i)
          /\ t \in Fresh
       \/ /\ claim[i].owner = c /\ Live(i)
          /\ t = claim[i].token
    /\ claim' = [claim EXCEPT ![i] = [owner |-> c, token |-> t]]
    /\ lease' = [lease EXCEPT ![c][i] = TRUE]
    /\ acq' = [acq EXCEPT ![c][i] = t]
    /\ UNCHANGED <<phase, swept, held, granted, group, releases, taken, restarts>>

\* isBlockedByIssueClaim remembers the token ...
RecordToken(c, i) ==
    /\ acq[c][i] # NoToken
    /\ held' = [held EXCEPT ![c][i] = acq[c][i]]
    /\ acq' = [acq EXCEPT ![c][i] = NoToken]
    /\ granted' = [granted EXCEPT ![c] = @ \cup {i}]
    /\ UNCHANGED <<claim, lease, phase, swept, group, releases, taken, restarts>>

\* ... and dispatchStateAgents opens the inflight group and queues its
\* requests, or returns, keeping the claim, when there is a group already.
OpenGroup(c, i) ==
    /\ i \in granted[c]
    /\ granted' = [granted EXCEPT ![c] = @ \ {i}]
    /\ group' = [group EXCEPT ![c] = @ \cup {i}]
    /\ UNCHANGED <<claim, lease, phase, swept, acq, held, releases, taken, restarts>>

-----------------------------------------------------------------------------
(* Releasing.                                                              *)

\* A group is over (its agents completed, its task is gone, an operator
\* cleared it, its requests met a cancelled context), or a completion finds
\* none: in each case the claim is to be released, after the inflight map
\* was unlocked.
EndGroup(c, i) ==
    /\ phase[c] \in InMemory
    /\ releases[c][i] < MaxReleases
    /\ group' = [group EXCEPT ![c] = @ \ {i}]
    /\ releases' = [releases EXCEPT ![c][i] = @ + 1]
    /\ UNCHANGED <<claim, lease, phase, swept, acq, held, granted, taken, restarts>>

TakeTokenUnchecked(c, i) ==
    /\ releases[c][i] > 0
    /\ releases' = [releases EXCEPT ![c][i] = @ - 1]
    /\ held' = [held EXCEPT ![c][i] = NoToken]
    /\ taken' = [taken EXCEPT ![c][i] = @ \cup {held[c][i]}]
    /\ UNCHANGED <<claim, lease, phase, swept, acq, granted, group, restarts>>

\* releaseIssueClaim: the token leaves the map ...
TakeToken(c, i) ==
    /\ releases[c][i] > 0
    /\ releases' = [releases EXCEPT ![c][i] = @ - 1]
    /\ held' = [held EXCEPT ![c][i] = NoToken]
    /\ taken' = [taken EXCEPT ![c][i] = @ \cup ({held[c][i]} \ {NoToken})]
    /\ UNCHANGED <<claim, lease, phase, swept, acq, granted, group, restarts>>

ReleaseByIssue(c, i, t) ==
    /\ t \in taken[c][i]
    /\ taken' = [taken EXCEPT ![c][i] = @ \ {t}]
    /\ claim' = [claim EXCEPT ![i] = NoRow]
    /\ UNCHANGED <<lease, phase, swept, acq, held, granted, group, releases, restarts>>

\* ... and the row with this owner and token is deleted; an error of the
\* database is only logged.
ReleaseIssueClaim(c, i, t) ==
    /\ t \in taken[c][i]
    /\ taken' = [taken EXCEPT ![c][i] = @ \ {t}]
    /\ \/ /\ claim[i] = [owner |-> c, token |-> t]
          /\ claim' = [claim EXCEPT ![i] = NoRow]
       \/ UNCHANGED claim
    /\ UNCHANGED <<lease, phase, swept, acq, held, granted, group, releases, restarts>>

\* SIGTERM: ReleaseAllIssueClaims takes every token; the event loop and the
\* handlers are still running.
ReleaseAllIssueClaims(c) ==
    /\ phase[c] = "up"
    /\ phase' = [phase EXCEPT ![c] = "stopping"]
    /\ held' = [held EXCEPT ![c] = [i \in Issues |-> NoToken]]
    /\ taken' = [taken EXCEPT ![c] = [i \in Issues |-> @[i] \cup ({held[c][i]} \ {NoToken})]]
    /\ UNCHANGED <<claim, lease, swept, acq, granted, group, releases, restarts>>

\* The memory of process c is gone.
Forget(c) ==
    /\ swept' = [swept EXCEPT ![c] = {}]
    /\ acq' = [acq EXCEPT ![c] = [i \in Issues |-> NoToken]]
    /\ held' = [held EXCEPT ![c] = [i \in Issues |-> NoToken]]
    /\ granted' = [granted EXCEPT ![c] = {}]
    /\ group' = [group EXCEPT ![c] = {}]
    /\ releases' = [releases EXCEPT ![c] = [i \in Issues |-> 0]]
    /\ taken' = [taken EXCEPT ![c] = [i \in Issues |-> {}]]

\* The process exits once the releases of ReleaseAllIssueClaims and of the
\* handlers are done; nobody waits for the event loop.
Exit(c) ==
    /\ phase[c] = "stopping"
    /\ \A i \in Issues : taken[c][i] = {} /\ releases[c][i] = 0
    /\ phase' = [phase EXCEPT ![c] = "exited"]
    /\ Forget(c)
    /\ UNCHANGED <<claim, lease, restarts>>

Crash(c) ==
    /\ phase[c] \in InMemory \cup {"sweeping"}
    /\ phase' = [phase EXCEPT ![c] = "off"]
    /\ Forget(c)
    /\ UNCHANGED <<claim, lease, restarts>>

-----------------------------------------------------------------------------
(* Start-up, the operator and the clock.                                   *)

\* DeleteStaleCoordinatorIssueClaims selects the rows of other pids, on
\* whatever host ...
StartSweep(c) ==
    /\ phase[c] \in {"off", "exited"}
    /\ phase' = [phase EXCEPT ![c] = "sweeping"]
    /\ swept' = [swept EXCEPT ![c] = {i \in Issues : claim[i] # NoRow /\ PidOf[claim[i].owner] # PidOf[c]}]
    /\ UNCHANGED <<claim, lease, acq, held, granted, group, releases, taken, restarts>>

\* ... and deletes each by repo and issue, whoever owns it by then.
SweepDelete(c, i) ==
    /\ i \in swept[c]
    /\ swept' = [swept EXCEPT ![c] = @ \ {i}]
    /\ claim' = [claim EXCEPT ![i] = NoRow]
    /\ UNCHANGED <<lease, phase, acq, held, granted, group, releases, taken, restarts>>

\* Then the pollers start; a database error of the sweep is only logged.
SweepDone(c) ==
    /\ phase[c] = "sweeping"
    /\ phase' = [phase EXCEPT ![c] = "up"]
    /\ swept' = [swept EXCEPT ![c] = {}]
    /\ UNCHANGED <<claim, lease, acq, held, granted, group, releases, taken, restarts>>

\* admin restart-issue deletes the row, whoever owns it.
RestartIssue(i) ==
    /\ restarts < MaxRestarts
    /\ claim[i] # NoRow
    /\ claim' = [claim EXCEPT ![i] = NoRow]
    /\ restarts' = restarts + 1
    /\ UNCHANGED <<lease, phase, swept, acq, held, granted, group, releases, taken>>

LeaseElapses(c, i) ==
    /\ lease[c][i]
    /\ lease' = [lease EXCEPT ![c][i] = FALSE]
    /\ UNCHANGED <<claim, phase, swept, acq, held, granted, group, releases, taken, restarts>>

-----------------------------------------------------------------------------
IssueStep(c, i) ==
    \/ EnterState(c, i)
    \/ \E t \in Tokens : AcquireIssueClaim(c, i, t)
    \/ RecordToken(c, i)
    \/ OpenGroup(c, i)
    \/ EndGroup(c, i)
    \/ TakeToken(c, i)
    \/ \E t \in Tokens : ReleaseIssueClaim(c, i, t)
    \/ SweepDelete(c, i)
    \/ LeaseElapses(c, i)

CoordStep(c) ==
    \/ ReleaseAllIssueClaims(c)
    \/ Exit(c)
    \/ Crash(c)
    \/ StartSweep(c)
    \/ SweepDone(c)

Next ==
    \/ \E c \in Coords, i \in Issues : IssueStep(c, i)
    \/ \E c \in Coords : CoordStep(c)
    \/ \E i \in Issues : RestartIssue(i)

Spec == Init /\ [][Next]_vars

-----------------------------------------------------------------------------
\* Every variable keeps its shape; only a running coordinator has tokens,
\* groups and releases.
TypeOK ==
    /\ claim \in [Issues -> Row]
    /\ lease \in [Coords -> [Issues -> BOOLEAN]]
    /\ phase \in [Coords -> {"off", "sweeping", "up", "stopping", "exited"}]
    /\ swept \in [Coords -> SUBSET Issues]
    /\ acq \in [Coords -> [Issues -> Tokens \cup {NoToken}]]
    /\ held \in [Coords -> [Issues -> Tokens \cup {NoToken}]]
    /\ granted \in [Coords -> SUBSET Issues]
    /\ group \in [Coords -> SUBSET Issues]
    /\ releases \in [Coords -> [Issues -> 0..MaxReleases]]
    /\ taken \in [Coords -> [Issues -> SUBSET Tokens]]
    /\ restarts \in 0..MaxRestarts

\* The tokens coordinator c has of issue i in any hand.
TokensOf(c, i) == {acq[c][i], held[c][i]} \cup taken[c][i]

\* The token is a fence: whatever expired, was overwritten, released late,
\* swept or restarted, a token is never known to two coordinators, and a
\* row with a token some coordinator knows belongs to that coordinator.
TokensAreFences ==
    \A i, j \in Issues, c \in Coords :
        \A t \in TokensOf(c, i) \ {NoToken} :
            /\ \A d \in Coords : d # c => t \notin TokensOf(d, j)
            /\ claim[j].token = t => claim[j].owner = c /\ j = i

\* A coordinator loses an unexpired claim only through its own release, a
\* starting coordinator's sweep or the operator: neither a competing
\* acquisition nor the late release of a coordinator whose expired claim was
\* overwritten takes it away.
LiveClaimIsSafe ==
    [][\A i \in Issues :
        (Live(i) /\ claim'[i].owner # claim[i].owner) =>
            \/ claim[i].token \in taken[claim[i].owner][i]
            \/ \E c \in Coords : i \in swept[c]
            \/ restarts' # restarts]_vars

\* c dispatches agents on i, and the lease it took has not passed.
Dispatches(c, i) == phase[c] = "up" /\ i \in group[c] /\ lease[c][i]

\* "only one coordinator can hold a dispatch lease on a given (repo, issue)
\* pair at a time": no two coordinators that are up have an inflight group
\* for the same issue, each within the lease it took.
OneHolder ==
    \A i \in Issues, c, d \in Coords : Dispatches(c, i) /\ Dispatches(d, i) => c = d
=============================================================================
