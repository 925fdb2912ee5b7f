---------------------------- MODULE HostRecovery ----------------------------
(* The operator's repair commands on one host: `workbuddy recover` (kill     *)
(* left-over processes, prune worktrees, reset the runtime tables, delete    *)
(* orphaned remote branches), `workbuddy issue restart` and `workbuddy cache *)
(* invalidate`.  They run beside everything they repair: processes die and   *)
(* start, agents push and open pull requests, the coordinator polls.         *)
(*                                                                           *)
(* A command is a plan, the sequence of what is left to do; a failing step   *)
(* ends it.  Everything it decides from is a listing that is old when it is  *)
(* acted on, so listings and acts are separate steps.  A branch stands for   *)
(* the worktree checked out on it; the tables hold the rows of one issue.    *)
EXTENDS Naturals, FiniteSets, Sequences, SequencesExt

CONSTANTS
    Pids,           \* process ids other than init, which is 1
    Shell,          \* the shell the operator typed the command into
    Self,           \* the command itself
    FirstProcs,     \* the processes the host runs at first: pid -> process
    Branches,       \* workbuddy/issue-* branches
    PRLimit,        \* how many open pull requests one listing returns
    MaxMoves,       \* steps of the surroundings
    MaxHostFaults,  \* calls that fail
    MaxCommands     \* commands typed

Init1 == 1
Process == [kind: {"free", "shell", "recover", "serve", "codex"}, parent: Pids \cup {0, Init1}, age: Nat, inside: BOOLEAN, id: Nat]
Free == [kind |-> "free", parent |-> 0, age |-> 0, inside |-> FALSE, id |-> 0]
Tables == {"events", "task_queue", "issue_cache", "issue_dependency_state",
           "issue_claim", "issue_cycle_state"}
runtimeTables == {"events", "task_queue", "issue_cache", "issue_dependency_state"}
RecoverSteps == <<"kill", "trees", "db", "branches">>

VARIABLES
    host,       \* pid -> the process running under it
    git,        \* [dirs, registered: worktrees; refs: remote-tracking refs;
                \*  remote: branches of origin; prs: open pull requests]
    db,         \* the tables with rows of the issue
    inflight,   \* the coordinator's in-memory entry of the issue
    command,    \* [what, plan, passed, dry, consent, at,
                \*  seen, prs, todo, result]
    outside,    \* processes that ran outside the shell's tree at the start
    held,       \* branches pushed and under an open pull request ever since
    dispatched, \* the issue was dispatched since the command started
    moves, hostFaults, commands
hostVars == <<host, git, db, inflight, command, outside, held, dispatched,
              moves, hostFaults, commands>>
surroundings == <<outside, held, dispatched, moves>>

Alive(h) == {p \in Pids : h[p].kind # "free"}

(* At first the processes are numbered below the ones that start later (the  *)
(* number tells two processes under one pid apart), and nobody's parent is a *)
(* pid that is free.                                                         *)
ASSUME HostAssumption ==
    /\ Init1 \notin Pids /\ Shell \in Pids
    /\ FirstProcs \in [Pids -> Process]
    /\ \A p \in Alive(FirstProcs) :
          /\ FirstProcs[p].parent \in Alive(FirstProcs) \cup {Init1} /\ FirstProcs[p].id < 100
          /\ \A q \in Alive(FirstProcs) : FirstProcs[p].id = FirstProcs[q].id => p = q

(* The chain of parents of a process, as far as the listing knows it: the    *)
(* least set that holds the process and the parent of each member alive.     *)
Ancestors(h, p) ==
    {a \in Pids \cup {0, Init1} : \A chain \in SUBSET (Pids \cup {0, Init1}) :
        p \in chain /\ (\A q \in chain \cap Alive(h) : h[q].parent \in chain) => a \in chain}

isDescendantOf(h, p, ancestor) == ancestor \in Ancestors(h, p)

(* codex, or workbuddy serve.                                                *)
matchesTarget(process) == process.kind \in {"codex", "serve"}

isRecoverableProcessPPIDOnly(h, p) ==
    /\ p # Self
    /\ matchesTarget(h[p])
    /\ \/ h[p].parent = Init1
       \/ Shell \in Alive(h) /\ h[p].age > h[Shell].age

isRecoverableProcess(h, p) ==
    /\ p # Self
    /\ matchesTarget(h[p])
    /\ \/ h[p].parent = Init1
       \/ ~isDescendantOf(h, p, Shell)
       \/ Shell \in Alive(h) /\ h[p].age > h[Shell].age

(* A process disappears and its children pass to init.                       *)
Without(h, p) ==
    [q \in Pids |-> IF q = p THEN Free
                    ELSE IF h[q].parent = p THEN [h[q] EXCEPT !.parent = Init1]
                    ELSE h[q]]

Idle == [what |-> "none", plan |-> <<>>, passed |-> {}, dry |-> FALSE, consent |-> "ask", at |-> 0,
         seen |-> {}, prs |-> {}, todo |-> {}, result |-> "none"]
Running == command.plan # <<>>
Doing(step) == Running /\ Head(command.plan) = step
At(step, n) == Doing(step) /\ command.at = n

(* The next step of the plan; the command is done after the last one.        *)
Advance(c) ==
    [c EXCEPT !.plan = Tail(c.plan), !.passed = @ \cup {Head(c.plan)}, !.at = 0, !.seen = {}, !.prs = {}, !.todo = {},
              !.result = IF Len(c.plan) = 1 THEN "done" ELSE "none"]
Abort(c) == [c EXCEPT !.plan = <<>>, !.at = 0, !.seen = {}, !.prs = {}, !.todo = {},
                      !.result = "failed"]
Phase(n) == [command EXCEPT !.at = n]

(* A step that fails ends the command and changes nothing else.              *)
StepFails(step, n) ==
    /\ At(step, n)
    /\ hostFaults < MaxHostFaults
    /\ hostFaults' = hostFaults + 1
    /\ command' = Abort(command)
    /\ UNCHANGED <<host, git, db, inflight, commands, surroundings>>

(* What every step of a command leaves alone.                                *)
CommandStep == UNCHANGED <<surroundings, hostFaults, commands>>

-----------------------------------------------------------------------------
(* Typing a command.                                                         *)

(* The steps of recover are always done in the same order.                   *)
RecoverPlan(steps) == SelectSeq(RecoverSteps, LAMBDA s : s \in steps)

(* None of the flags stands for the first three.  With --non-interactive the *)
(* command refuses to prune remote branches unless forced or a dry run.      *)
StartRecover(flags, dry, consent) ==
    LET steps == IF flags = {} THEN {"kill", "trees", "db"} ELSE flags IN
    /\ ~("branches" \in steps /\ consent = "refuse" /\ ~dry)
    /\ command' = [Idle EXCEPT !.what = "recover", !.dry = dry, !.consent = consent,
                       !.plan = RecoverPlan(steps)]

(* A preview, the confirmation, then what it found row by row, the event,    *)
(* and with --coordinator the in-memory entry.  A command the operator does  *)
(* not confirm changes nothing and is one not typed.                         *)
StartRestart(dry, remote) ==
    command' = [Idle EXCEPT !.what = "restart", !.dry = dry,
        !.plan = <<"inspect">> \o
                 (IF dry THEN <<>>
                  ELSE <<"issue_cache", "issue_dependency_state", "issue_claim",
                         "issue_cycle_state", "event">>
                       \o (IF remote THEN <<"clear-inflight">> ELSE <<>>))]

StartInvalidate(dry) ==
    command' = [Idle EXCEPT !.what = "invalidate", !.dry = dry,
        !.plan = <<"inspect">> \o
                 (IF dry THEN <<>> ELSE <<"issue_cache", "issue_dependency_state", "event">>)]

StartCommand ==
    /\ ~Running
    /\ commands < MaxCommands
    /\ commands' = commands + 1
    /\ \/ \E flags \in SUBSET Range(RecoverSteps), dry \in BOOLEAN,
             consent \in {"force", "ask", "skip", "refuse"} :
             StartRecover(flags, dry, consent)
       \/ \E dry, remote \in BOOLEAN : StartRestart(dry, remote)
       \/ \E dry \in BOOLEAN : StartInvalidate(dry)
    /\ outside' = {host[p].id : p \in {q \in Alive(host) :
                       host[q].inside /\ matchesTarget(host[q]) /\ q # Self
                       /\ Shell \notin Ancestors(host, q)}}
    /\ held' = git.prs \cap git.refs
    /\ dispatched' = FALSE
    /\ UNCHANGED <<host, git, db, inflight, moves, hostFaults>>

-----------------------------------------------------------------------------
(* killZombies.                                                              *)

(* ps, then for each row the working directory of whoever has the pid now.   *)
ListProcesses ==
    /\ At("kill", 0)
    /\ LET victims == {p \in Alive(host) : isRecoverableProcess(host, p) /\ host[p].inside}
       IN  command' = IF command.dry \/ victims = {} THEN Advance(command)
                      ELSE [Phase(1) EXCEPT !.todo = victims]
    /\ CommandStep
    /\ UNCHANGED <<host, git, db, inflight>>

(* SIGTERM, two seconds, SIGKILL: in the order of the listing, whoever runs  *)
(* under the pid by then.                                                    *)
TerminateProcess ==
    /\ At("kill", 1)
    /\ LET p == CHOOSE q \in command.todo : \A r \in command.todo : q <= r
           left == command.todo \ {p}
       IN  /\ host' = Without(host, p)
           /\ command' = IF left = {} THEN Advance(command)
                         ELSE [command EXCEPT !.todo = left]
    /\ CommandStep
    /\ UNCHANGED <<git, db, inflight>>

-----------------------------------------------------------------------------
(* pruneWorktrees and pruneRemoteBranches.                                   *)

(* gh pr list --limit: when there are more, some are missing.                *)
Listings == {page \in SUBSET git.prs :
                Cardinality(page) = (IF Cardinality(git.prs) < PRLimit
                                     THEN Cardinality(git.prs) ELSE PRLimit)}
ListManaged ==
    /\ At("trees", 0)
    /\ command' = IF git.registered = {} THEN Advance(command)
                  ELSE [Phase(1) EXCEPT !.seen = git.registered]
    /\ CommandStep
    /\ UNCHANGED <<host, git, db, inflight>>

ListRemote ==
    /\ At("branches", 0)
    /\ command' = IF git.refs = {} THEN Advance(command)
                  ELSE [Phase(1) EXCEPT !.seen = git.refs]
    /\ CommandStep
    /\ UNCHANGED <<host, git, db, inflight>>

(* Both steps then ask GitHub for the open pull requests.                    *)
ListOpenPRs ==
    /\ At("trees", 1) \/ At("branches", 1)
    /\ \E page \in Listings :
          /\ command' = [Phase(2) EXCEPT !.prs = page]
          /\ held' = IF page = git.prs THEN held ELSE held \cap page
    /\ UNCHANGED <<host, git, db, inflight, outside, dispatched, moves, hostFaults, commands>>

(* When that fails the command ends: no list is not an empty list.           *)
OpenPRsUnavailableQuietly ==
    /\ At("trees", 1) \/ At("branches", 1)
    /\ hostFaults < MaxHostFaults
    /\ hostFaults' = hostFaults + 1
    /\ command' = [Phase(2) EXCEPT !.prs = {}]
    /\ UNCHANGED <<host, git, db, inflight, commands, surroundings>>

OpenPRsUnavailable == StepFails("trees", 1) \/ StepFails("branches", 1)

(* A worktree stays only when its branch is pushed and under an open PR.     *)
PickTrees ==
    /\ At("trees", 2)
    /\ LET gone == {b \in command.seen : ~(b \in git.refs /\ b \in command.prs)} IN
       command' = IF command.dry THEN Advance(command)
                  ELSE [Phase(3) EXCEPT !.todo = gone]
    /\ CommandStep
    /\ UNCHANGED <<host, git, db, inflight>>

(* git worktree remove --force, or else the directory alone.                 *)
RemoveTree ==
    /\ At("trees", 3)
    /\ \E b \in command.todo, clean \in BOOLEAN :
          /\ git' = [git EXCEPT !.dirs = @ \ {b},
                                !.registered = IF clean THEN @ \ {b} ELSE @]
          /\ command' = [command EXCEPT !.todo = @ \ {b}]
    /\ CommandStep
    /\ UNCHANGED <<host, db, inflight>>

PruneTrees ==
    /\ At("trees", 3)
    /\ command.todo = {}
    /\ git' = [git EXCEPT !.registered = @ \cap git.dirs]
    /\ command' = Advance(command)
    /\ CommandStep
    /\ UNCHANGED <<host, db, inflight>>

(* Without --force the operator is asked, or, without a terminal, the        *)
(* deletion is skipped.                                                      *)
PickBranches ==
    /\ At("branches", 2)
    /\ LET orphans == command.seen \ command.prs
           go == [Phase(3) EXCEPT !.todo = orphans]
       IN  IF orphans = {} \/ command.dry \/ command.consent \in {"skip", "refuse"}
           THEN command' = Advance(command)
           ELSE \/ command' = go
                \/ command.consent = "ask" /\ command' = Advance(command)
    /\ CommandStep
    /\ UNCHANGED <<host, git, db, inflight>>

(* git push --delete, which fails when origin no longer has the branch; the  *)
(* pull request of a deleted branch closes.                                  *)
DeleteBranch ==
    /\ At("branches", 3)
    /\ \E b \in command.todo :
          IF b \in git.remote
          THEN /\ git' = [git EXCEPT !.remote = @ \ {b}, !.refs = @ \ {b}, !.prs = @ \ {b}]
               /\ command' = IF command.todo = {b} THEN Advance(command)
                             ELSE [command EXCEPT !.todo = @ \ {b}]
          ELSE /\ command' = Abort(command)
               /\ UNCHANGED git
    /\ CommandStep
    /\ UNCHANGED <<host, db, inflight>>

-----------------------------------------------------------------------------
(* The database.                                                             *)

(* One transaction clears the four runtime tables, claims and counters stay. *)
ResetDB ==
    /\ At("db", 0)
    /\ db' = IF command.dry THEN db ELSE db \ runtimeTables
    /\ command' = Advance(command)
    /\ CommandStep
    /\ UNCHANGED <<host, git, inflight>>

(* issue restart and cache invalidate note which rows exist...               *)
Inspect ==
    /\ At("inspect", 0)
    /\ command' = IF command.dry THEN Advance(command)
                  ELSE [Advance(command) EXCEPT !.seen = db]
    /\ CommandStep
    /\ UNCHANGED <<host, git, db, inflight>>

(* ... and delete those, one statement each, in the order of the plan.       *)
DeleteRow ==
    /\ Running
    /\ Head(command.plan) \in Tables
    /\ LET table == Head(command.plan) IN
       /\ db' = IF table \in command.seen \/ command.what = "invalidate"
                THEN db \ {table} ELSE db
       /\ command' = [Advance(command) EXCEPT !.seen = command.seen]
    /\ CommandStep
    /\ UNCHANGED <<host, git, inflight>>

LogRestart ==
    /\ At("event", 0)
    /\ db' = db \cup {"events"}
    /\ command' = Advance(command)
    /\ CommandStep
    /\ UNCHANGED <<host, git, inflight>>

clearCoordinatorInflight ==
    /\ At("clear-inflight", 0)
    /\ inflight' = FALSE
    /\ command' = Advance(command)
    /\ CommandStep
    /\ UNCHANGED <<host, git, db>>

(* Any other call of a command may fail.                                     *)
CallFails ==
    \/ \E step \in {"kill", "trees"}, n \in {0, 1, 3} :
          /\ <<step, n>> # <<"trees", 1>>
          /\ StepFails(step, n)
    \/ \E n \in {0, 3} : StepFails("branches", n)
    \/ \E step \in Tables \cup {"db", "inspect", "event", "clear-inflight"} :
          StepFails(step, 0)

-----------------------------------------------------------------------------
(* The surroundings, external to the commands.                               *)

Moves == moves < MaxMoves /\ moves' = moves + 1

ProcessDies ==
    /\ Moves
    /\ \E p \in Alive(host) \ {Self, Shell} : host' = Without(host, p)
    /\ UNCHANGED <<git, db, inflight, command, outside, held, dispatched, hostFaults, commands>>

(* A pid may be used again.                                                  *)
ProcessStarts ==
    /\ Moves
    /\ \E p \in Pids \ Alive(host), parent \in Alive(host) \cup {Init1} :
          host' = [host EXCEPT ![p] = [kind |-> "codex", parent |-> parent, age |-> 0,
                                       inside |-> TRUE, id |-> 100 + moves]]
    /\ UNCHANGED <<git, db, inflight, command, outside, held, dispatched, hostFaults, commands>>

(* A worker checks a branch out, an agent pushes it and opens a pull         *)
(* request, a reviewer closes or merges it.                                  *)
GitMoves ==
    /\ Moves
    /\ \E b \in Branches :
          \/ /\ b \notin git.registered
             /\ git' = [git EXCEPT !.dirs = @ \cup {b}, !.registered = @ \cup {b}]
             /\ UNCHANGED held
          \/ /\ b \in git.dirs
             /\ git' = [git EXCEPT !.remote = @ \cup {b}, !.refs = @ \cup {b}]
             /\ UNCHANGED held
          \/ /\ b \in git.remote \ git.prs
             /\ git' = [git EXCEPT !.prs = @ \cup {b}]
             /\ UNCHANGED held
          \/ /\ b \in git.prs
             /\ \E gone \in SUBSET {b} :
                   git' = [git EXCEPT !.prs = @ \ {b}, !.remote = @ \ gone]
             /\ held' = held \ {b}
    /\ UNCHANGED <<host, db, inflight, command, outside, dispatched, hostFaults, commands>>

(* A poll that finds no cached snapshot delivers the issue as new; the       *)
(* dispatch is refused while somebody holds the claim.                       *)
CoordinatorPolls ==
    /\ Moves
    /\ "issue_cache" \notin db
    /\ LET goes == "issue_claim" \notin db IN
       /\ db' = db \cup {"issue_cache", "issue_dependency_state", "events"}
                   \cup (IF goes THEN {"task_queue", "issue_claim"} ELSE {})
       /\ dispatched' = (dispatched \/ goes)
       /\ inflight' = (inflight \/ goes)
    /\ UNCHANGED <<host, git, command, outside, held, hostFaults, commands>>

-----------------------------------------------------------------------------
HostInit ==
    /\ host = FirstProcs
    /\ \E trees, pushed \in SUBSET Branches : \E reviewed \in SUBSET pushed :
          git = [dirs |-> trees, registered |-> trees, refs |-> pushed, remote |-> pushed, prs |-> reviewed]
    /\ db = Tables /\ inflight = TRUE
    /\ command = Idle
    /\ outside = {} /\ held = {} /\ dispatched = FALSE
    /\ moves = 0 /\ hostFaults = 0 /\ commands = 0

CommandNext ==
    \/ ListProcesses \/ TerminateProcess
    \/ ListManaged \/ ListRemote \/ ListOpenPRs \/ OpenPRsUnavailable
    \/ PickTrees \/ RemoveTree \/ PruneTrees \/ PickBranches \/ DeleteBranch
    \/ ResetDB \/ Inspect \/ DeleteRow \/ LogRestart \/ clearCoordinatorInflight
    \/ CallFails

RecoveryNext ==
    \/ StartCommand
    \/ CommandNext
    \/ ProcessDies \/ ProcessStarts \/ GitMoves \/ CoordinatorPolls

RecoverySpec == HostInit /\ [][RecoveryNext]_hostVars

-----------------------------------------------------------------------------
(* Listings and tables keep their shapes.                                    *)
RecoveryTypeOK ==
    /\ git \in [{"dirs", "registered", "refs", "remote", "prs"} -> SUBSET Branches]
    /\ db \subseteq Tables
    /\ held \subseteq Branches

(* recover never takes away work in review: a branch that was pushed and     *)
(* under an open pull request when the command was typed, and has been ever  *)
(* since, keeps its worktree and its remote branch whatever else changes or  *)
(* fails meanwhile, as long as the listing of pull requests was not cut off  *)
(* before it (recover.go pruneWorktrees, pruneRemoteBranches).               *)
WorkInReviewStays ==
    [][\A b \in held \cap held' :
          /\ b \in git.dirs => b \in git'.dirs
          /\ b \in git.remote => b \in git'.remote]_hostVars

(* When the kill step has ended well, no codex or serve process of this      *)
(* repository that ran outside the operator's shell when the command was     *)
(* typed still runs: not the ones below a process that was itself killed     *)
(* either (recover.go killZombies).                                          *)
NoZombieRemains ==
    command.what = "recover" /\ ~command.dry /\ "kill" \in command.passed
        => \A p \in Alive(host) : host[p].id \notin outside

(* A completed `issue restart` makes the next poll cycle treat the issue as  *)
(* fresh (the command's help text): the issue was dispatched since, or its   *)
(* snapshot is gone.  The claim is deleted after the snapshot, so a poll in  *)
(* between is refused by the claim and caches the issue again.               *)
RestartTakesEffect ==
    command.what = "restart" /\ ~command.dry /\ command.result = "done"
        => dispatched \/ "issue_cache" \notin db
=============================================================================
