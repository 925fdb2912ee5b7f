---------------------------- MODULE Deployments ----------------------------
(***************************************************************************)
(* The deployment commands (install, redeploy, upgrade, start, stop,       *)
(* delete, the three-unit bundle, rollback) and the updater that `deploy   *)
(* watch` runs.  Each command is a script of steps on the files of a host  *)
(* and on systemd; a step that fails, or a kill, ends the script there and *)
(* nothing that was done is undone.  All units share one binary.           *)
(***************************************************************************)
EXTENDS Naturals, Sequences, FiniteSetsExt, SequencesExt

CONSTANTS
    WatchedUnits,      \* units the updater restarts
    Own,          \* version of the executable an operator runs the commands from
    MaxVersion,   \* bound: releases
    MaxMishaps,   \* bound: steps that fail
    MaxOrders     \* bound: commands an operator runs

\* The units of a bundle, in the order in which it installs them.
Bundle == <<"supervisor", "coordinator", "worker">>
Units == ToSet(Bundle)

ASSUME DeployAssumption ==
    /\ WatchedUnits \subseteq Units /\ MaxVersion \in Nat \ {0} /\ Own \in 1..MaxVersion
    /\ MaxMishaps \in Nat /\ MaxOrders \in Nat

VARIABLES
    host,         \* files: binary, previous, current, unit files and manifests
    unitUp,           \* version each unit runs, 0 when it is stopped
    latest,       \* the newest release
    order,        \* the command an operator runs
    updater,      \* the updater: what it has left to do
    everBinary,   \* versions that have been the binary (history)
    mishaps, orders

deployVars == <<host, unitUp, latest, order, updater, everBinary, mishaps, orders>>

Absent == [there |-> FALSE, started |-> FALSE]
Manifests == [there : BOOLEAN, started : BOOLEAN]
NoOrder == [todo |-> <<>>, loaded |-> [u \in Units |-> Absent], start |-> FALSE, ver |-> 0, keep |-> 0]
Quiet == [todo |-> <<>>, ver |-> 0]

DeployTypeOK ==
    /\ host \in [binary : 0..MaxVersion, previous : 0..MaxVersion, current : 0..MaxVersion,
                 unit : SUBSET Units, manifest : [Units -> Manifests]]
    /\ unitUp \in [Units -> 0..MaxVersion] /\ latest \in 1..MaxVersion
    /\ order.ver \in 0..MaxVersion /\ order.keep \in 0..MaxVersion /\ updater.ver \in 0..MaxVersion
    /\ everBinary \subseteq 1..MaxVersion /\ mishaps \in 0..MaxMishaps /\ orders \in 0..MaxOrders

\* A host before the first installation, or with an installation of the time
\* before there was a supervisor.
DeployInit ==
    /\ \/ /\ host = [binary |-> 0, previous |-> 0, current |-> 0, unit |-> {}, manifest |-> [u \in Units |-> Absent]]
          /\ unitUp = [u \in Units |-> 0] /\ everBinary = {}
       \/ /\ host = [binary |-> 1, previous |-> 0, current |-> 0, unit |-> {"coordinator", "worker"},
                     manifest |-> [u \in Units |-> [there |-> u # "supervisor", started |-> u # "supervisor"]]]
          /\ unitUp = [u \in Units |-> IF u = "supervisor" THEN 0 ELSE 1] /\ everBinary = {1}
    /\ latest = 1 /\ order = NoOrder /\ updater = Quiet /\ mishaps = 0 /\ orders = 0

Mishap == mishaps < MaxMishaps /\ mishaps' = mishaps + 1

-----------------------------------------------------------------------------
(* The scripts.                                                            *)

\* Reloading systemd and enabling a unit change nothing that is kept here: a
\* failure of theirs leaves the state that a failure of the next step leaves.
Install == <<"copy", "unit", "new", "startIfAsked">>
\* The settings of the bundle are written over those of the installation.
Patch == <<"load", "unit", "save", "restart">>
BundleUnit == Install \o Patch
SupervisorUnit == <<"copy", "unit", "newStarted", "start">> \o Patch
Redeploy == <<"copy", "unit", "save", "restartUnlessKept">>
Upgrade == <<"download", "unit", "save", "restartUnlessKept">>
Stop == <<"stop", "markStopped">>
StartUnit == <<"start", "markStarted">>
\* Mutant: the manifest goes first.
DeleteListedFirst == <<"rmManifest", "disable", "rmUnit">>
Delete == <<"disable", "rmUnit", "rmManifest">>
\* The order in which a rollback exchanges the two binaries.
Rollback == <<"putBack", "rotate">>

On(script, u) == [i \in DOMAIN script |-> <<script[i], u>>]
OnEach(script, us) == FoldLeft(LAMBDA acc, u : acc \o On(script, u), <<>>, us)

Installed(u) == host.manifest[u].there
InstalledOf(us) == SelectSeq(us, Installed)

\* What one order does.  A command on every deployment loads all manifests
\* first; an upgrade of a host without a supervisor installs that unit at its
\* end; an uninstallation takes the units in reverse and skips absent ones.
Legacy == ~Installed("supervisor") /\ \E u \in Units : Installed(u)
Orders ==
    {On(Install, u) : u \in Units}
        \cup {OnEach(BundleUnit, Bundle)}
        \cup {On(<<"load">> \o s, u) : s \in {Redeploy, Stop, StartUnit, Delete}, u \in {v \in Units : Installed(v)}}
        \cup {On(<<"load">> \o Upgrade, u) \o (IF Legacy THEN On(SupervisorUnit, "supervisor") ELSE <<>>) : u \in {v \in Units : Installed(v)}}
        \cup {OnEach(<<"load">>, InstalledOf(Bundle)) \o OnEach(Redeploy, InstalledOf(Bundle))}
        \cup {OnEach(<<"load">> \o Delete, InstalledOf(Reverse(Bundle)))}
        \cup (IF host.previous = 0 THEN {} ELSE {On(Rollback, "worker") \o OnEach(<<"restartAny">>, SetToSeq(WatchedUnits))})

\* A rollback reads both binaries before it writes one.
GiveOrder ==
    /\ order.todo = <<>> /\ orders < MaxOrders /\ orders' = orders + 1
    /\ \E todo \in Orders \ {<<>>}, start \in BOOLEAN :
         order' = [NoOrder EXCEPT !.todo = todo, !.start = start, !.ver = host.previous, !.keep = host.binary]
    /\ UNCHANGED <<host, unitUp, latest, updater, everBinary, mishaps>>

-----------------------------------------------------------------------------
(* The steps.                                                              *)

\* The files after a step.
Filed(step, u, ver) ==
    CASE step = "copy"        -> [host EXCEPT !.binary = Own]
      [] step = "download"    -> [host EXCEPT !.binary = latest]
      [] step = "putBack"     -> [host EXCEPT !.binary = ver]
      [] step = "rotate"      -> [host EXCEPT !.previous = order.keep]
      [] step = "unit"        -> [host EXCEPT !.unit = @ \cup {u}]
      [] step = "rmUnit"      -> [host EXCEPT !.unit = @ \ {u}]
      [] step = "new"         -> [host EXCEPT !.manifest[u] = [there |-> TRUE, started |-> order.start]]
      [] step = "newStarted"  -> [host EXCEPT !.manifest[u] = [there |-> TRUE, started |-> TRUE]]
      [] step = "save"        -> [host EXCEPT !.manifest[u] = order.loaded[u]]
      [] step = "markStopped" -> [host EXCEPT !.manifest[u] = [order.loaded[u] EXCEPT !.started = FALSE]]
      [] step = "markStarted" -> [host EXCEPT !.manifest[u] = [order.loaded[u] EXCEPT !.started = TRUE]]
      [] step = "rmManifest"  -> [host EXCEPT !.manifest[u] = Absent]
      [] step = "backup"      -> [host EXCEPT !.previous = host.binary]
      [] step = "install"     -> [host EXCEPT !.binary = ver]
      [] step = "record"      -> [host EXCEPT !.current = ver]
      [] OTHER                -> host

\* What systemd runs after a step.  A restart leaves alone a unit whose
\* manifest says stopped and, unless it is asked for, the supervisor.
Kept(u) == u = "supervisor" /\ ~order.start
Ran(step, u) ==
    IF \/ step = "startIfAsked" /\ order.start /\ unitUp[u] = 0
       \/ step = "start" /\ unitUp[u] = 0
       \/ step = "restart" /\ order.loaded[u].started
       \/ step = "restartUnlessKept" /\ order.loaded[u].started /\ ~Kept(u)
       \/ step = "restartAny"
    THEN [unitUp EXCEPT ![u] = host.binary]
    ELSE IF step \in {"stop", "disable"} THEN [unitUp EXCEPT ![u] = 0] ELSE unitUp

\* Steps that systemd refuses for a unit whose file is gone.
NeedsUnit == {"startIfAsked", "start", "stop", "disable", "restart", "restartUnlessKept", "restartAny"}
Possible(step, u) == (step \in NeedsUnit => u \in host.unit) /\ (step = "load" => Installed(u))

Perform(step, u, ver) ==
    /\ host' = Filed(step, u, ver) /\ unitUp' = Ran(step, u)
    /\ everBinary' = everBinary \cup ({host'.binary} \ {0})

OrderStep ==
    /\ order.todo # <<>>
    /\ LET step == Head(order.todo)[1]
           u == Head(order.todo)[2]
           rest == [order EXCEPT !.todo = Tail(@), !.loaded = IF step = "load" THEN [@ EXCEPT ![u] = host.manifest[u]] ELSE @]
       IN  /\ Possible(step, u) /\ Perform(step, u, order.ver)
           /\ order' = IF rest.todo = <<>> THEN NoOrder ELSE rest
    /\ UNCHANGED <<latest, updater, mishaps, orders>>

\* A step that fails, or that systemd refuses, ends the command.
OrderFails ==
    /\ order.todo # <<>> /\ order' = NoOrder
    /\ IF Possible(Head(order.todo)[1], Head(order.todo)[2]) THEN Mishap ELSE mishaps' = mishaps
    /\ UNCHANGED <<host, unitUp, latest, updater, everBinary, orders>>

-----------------------------------------------------------------------------
(* The updater.                                                            *)

\* Mutant: the version is recorded before the binary is in place.
UpdateRecordFirst == <<"fetch", "backup", "record", "install">>
\* The archive is fetched and compared with its checksum before anything is
\* written; the old binary is kept, the new one put in its place, the version
\* recorded.
Update == <<"fetch", "backup", "install", "record">>

semverGreater(a, b) == a > b

\* A tick that finds a release newer than the recorded version.
WatchFinds ==
    /\ updater.todo = <<>> /\ semverGreater(latest, host.current)
    /\ updater' = [todo |-> On(Update, "worker") \o OnEach(<<"restartAny">>, SetToSeq(WatchedUnits)), ver |-> latest]
    /\ UNCHANGED <<host, unitUp, latest, order, everBinary, mishaps, orders>>

WatchStep ==
    /\ updater.todo # <<>>
    /\ LET step == Head(updater.todo)[1]
           u == Head(updater.todo)[2]
       IN  Possible(step, u) /\ Perform(step, u, updater.ver)
    /\ updater' = IF Len(updater.todo) = 1 THEN Quiet ELSE [updater EXCEPT !.todo = Tail(@)]
    /\ UNCHANGED <<latest, order, mishaps, orders>>

\* An error is logged and the next tick begins again; a crash of the updater,
\* which systemd starts again, does the same.
WatchFails ==
    /\ updater.todo # <<>> /\ updater' = Quiet
    /\ IF Possible(Head(updater.todo)[1], Head(updater.todo)[2]) THEN Mishap ELSE mishaps' = mishaps
    /\ UNCHANGED <<host, unitUp, latest, order, everBinary, orders>>

NewRelease ==
    /\ latest < MaxVersion /\ latest' = latest + 1
    /\ UNCHANGED <<host, unitUp, order, updater, everBinary, mishaps, orders>>

DeployNext ==
    \/ GiveOrder \/ OrderStep \/ OrderFails
    \/ WatchFinds \/ WatchStep \/ WatchFails \/ NewRelease

\* The updater is a service that systemd keeps running and its loop ticks for
\* ever.
DeployFairness == WF_deployVars(WatchFinds) /\ WF_deployVars(WatchStep) /\ WF_deployVars(WatchFails)

DeploySpec == DeployInit /\ [][DeployNext]_deployVars /\ DeployFairness

-----------------------------------------------------------------------------
\* A unit that runs has a manifest, by which `deploy list`, `stop` and
\* `delete` find it, wherever a command stopped half-way; units the updater
\* restarts are left out, because it may restart one between the two ends of
\* a deletion.
UnitsAreListed == \A u \in Units \ WatchedUnits : unitUp[u] # 0 => Installed(u)

\* The newest release comes to be the binary of the host, whatever failed on
\* the way: a failed or killed upgrade is not taken for done.
ReleaseIsInstalled == <>[](latest \in everBinary)
=============================================================================
