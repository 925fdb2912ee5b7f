----------------------------- MODULE Worktrees ------------------------------
(***************************************************************************)
(* The worktree manager of a worker: one git worktree and branch per issue *)
(* or, for a rollout, one nested below the directory of the issue.  Create *)
(* adds or reuses a worktree and counts a reference, Remove gives one back *)
(* and deletes worktree and branch with the last.  The counts live in      *)
(* memory; a start of the worker prunes what is left on disk.              *)
(*                                                                         *)
(* A tree <<i, k>> stands for the directory, the worktree and the branch   *)
(* of issue i, k = 0, or of its rollout k.  Git itself is external: no two *)
(* branches may be a path and a prefix of it.                              *)
(***************************************************************************)
EXTENDS Naturals, FiniteSets

CONSTANTS
    TreeIssues,    \* issues
    Rollouts,      \* rollout indices besides 0, possibly none
    Runners,       \* runs that use the manager
    MaxWorkerCrashes    \* bound: crashes of the worker

ASSUME TreeAssumption ==
    Rollouts \subseteq Nat \ {0} /\ IsFiniteSet(Runners) /\ MaxWorkerCrashes \in Nat

Trees == TreeIssues \X ({0} \cup Rollouts)
Parent(p) == <<p[1], 0>>

VARIABLES
    dirs,       \* directories under .workbuddy/worktrees
    listed,     \* worktrees that git has registered
    heads,      \* local branches
    dirty,      \* trees with uncommitted changes or on another branch
    refs,       \* reference counts of the manager
    using,      \* the tree each runner works in, {} when none
    refused,    \* runners whose Create failed
    workerCrashes,
    rolled      \* history: issues that had a rollout

treeVars == <<dirs, listed, heads, dirty, refs, using, refused, workerCrashes, rolled>>

TreeInit ==
    /\ dirs = {} /\ listed = {} /\ heads = {} /\ dirty = {}
    /\ refs = [p \in Trees |-> 0] /\ using = [r \in Runners |-> {}] /\ refused = {}
    /\ workerCrashes = 0 /\ rolled = {}

\* git refuses a branch that is a prefix of another one.
BranchFits(p) == \A q \in heads : q[1] = p[1] => (q = p \/ (q[2] # 0 /\ p[2] # 0))

\* An existing directory is used when it is a registered worktree without
\* uncommitted changes; else the worktree is added, with its branch.
Usable(p)    == p \in listed \cap dirs /\ p \notin dirty
Creatable(p) == IF p \in dirs THEN Usable(p) ELSE p \in heads \/ BranchFits(p)

\* git worktree prune forgets worktrees whose directory is gone.  An existing
\* worktree is brought up to date, which may fail; the directory above a
\* new one is made before git is asked.
CreateTree(r, p, synced) ==
    /\ using[r] = {} /\ r \notin refused
    /\ IF Creatable(p) /\ (p \in dirs => synced)
         THEN /\ dirs' = dirs \cup {p, Parent(p)} /\ listed' = (listed \cap dirs) \cup {p}
              /\ heads' = heads \cup {p} /\ refs' = [refs EXCEPT ![p] = @ + 1]
              /\ using' = [using EXCEPT ![r] = {p}] /\ refused' = refused
         ELSE /\ refused' = refused \cup {r} /\ listed' = listed \cap dirs
              /\ dirs' = IF p \in dirs \/ p = Parent(p) THEN dirs ELSE dirs \cup {Parent(p)}
              /\ UNCHANGED <<heads, refs, using>>
    /\ rolled' = IF p[2] # 0 THEN rolled \cup {p[1]} ELSE rolled
    /\ UNCHANGED <<dirty, workerCrashes>>

\* The task of a refused run is released and tried again later.
RetryLater(r) ==
    /\ r \in refused /\ refused' = refused \ {r}
    /\ UNCHANGED <<dirs, listed, heads, dirty, refs, using, workerCrashes, rolled>>

\* The agent edits files or leaves the branch, or commits or reverts.
Edits(r) ==
    /\ \E p \in using[r] : dirty' = IF p \in dirty THEN dirty \ {p} ELSE dirty \cup {p}
    /\ UNCHANGED <<dirs, listed, heads, refs, using, refused, workerCrashes, rolled>>

\* Mutant: the worktree is removed without force, which fails for a dirty one.
DeletedIfClean(p) ==
    IF p \in dirty THEN [dirs |-> dirs, listed |-> listed, heads |-> heads, dirty |-> dirty] ELSE
    [dirs |-> dirs \ {p}, listed |-> listed \ {p}, heads |-> heads \ {p}, dirty |-> dirty \ {p}]

Deleted(p) == [dirs |-> dirs \ {p}, listed |-> listed \ {p}, heads |-> heads \ {p}, dirty |-> dirty \ {p}]

\* git worktree remove --force and git branch -D.
RemoveGit(p) ==
    /\ dirs' = Deleted(p).dirs /\ listed' = Deleted(p).listed
    /\ heads' = Deleted(p).heads /\ dirty' = Deleted(p).dirty

\* Mutant: the references are not looked at.
LastRefAlways(p) == TRUE
LastRef(p) == refs[p] <= 1

RemoveTree(r) ==
    /\ \E p \in using[r] :
         /\ refs' = [refs EXCEPT ![p] = IF @ > 0 THEN @ - 1 ELSE 0]
         /\ IF LastRef(p) THEN RemoveGit(p) ELSE UNCHANGED <<dirs, listed, heads, dirty>>
    /\ using' = [using EXCEPT ![r] = {}]
    /\ UNCHANGED <<refused, workerCrashes, rolled>>

\* The directories that Prune deletes: those directly below the base that are
\* not registered, with everything in them.
Orphans == {p \in dirs : Parent(p) \notin listed}

\* The worker dies, its runs end without Remove; it starts again with fresh
\* counts and prunes.
Restart ==
    /\ workerCrashes < MaxWorkerCrashes /\ workerCrashes' = workerCrashes + 1
    /\ using' = [r \in Runners |-> {}] /\ refs' = [p \in Trees |-> 0] /\ refused' = {}
    /\ dirs' = dirs \ Orphans /\ dirty' = dirty \ Orphans /\ listed' = listed \cap dirs
    /\ UNCHANGED <<heads, rolled>>

TreeNext ==
    \/ Restart
    \/ \E r \in Runners : RetryLater(r) \/ Edits(r) \/ RemoveTree(r) \/ \E p \in Trees, synced \in BOOLEAN : CreateTree(r, p, synced)

TreeSpec == TreeInit /\ [][TreeNext]_treeVars

-----------------------------------------------------------------------------
(* Properties.                                                             *)

\* A run keeps its directory, worktree and branch until it gives them back,
\* also when an earlier run on the same issue ends in between, a rollout of
\* the issue is set up, or another issue is cleaned up (Manager.refs).
HeldTreesStay == \A r \in Runners : using[r] \subseteq dirs \cap listed \cap heads

\* An issue without rollouts can be run again on a worker that has not
\* restarted: whatever the agent left in the worktree is cleared away with
\* the last reference (Remove).
IssuesRunAgain ==
    \A i \in TreeIssues \ rolled : workerCrashes = 0 /\ refs[<<i, 0>>] = 0 => Creatable(<<i, 0>>)

\* "It only removes directories that are NOT still registered as valid git
\* worktrees" (Prune): a registered worktree survives the start of a worker.
PruneKeepsWorktrees == [][workerCrashes' > workerCrashes => listed \cap dirs \subseteq dirs']_treeVars
=============================================================================
