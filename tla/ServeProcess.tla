---------------------------- MODULE ServeProcess ----------------------------
(***************************************************************************)
(* `workbuddy serve`: one process that starts the coordinator, waits until *)
(* it answers, starts a worker, and ends when a signal arrives, its        *)
(* context ends or one of the two ends.  The coordinator boots in the      *)
(* order of runCoordinatorWithOpts and, when told to, takes itself down:   *)
(* it cancels its context, stops the runtimes of the repositories (which   *)
(* gives their claims back), closes the HTTP server and then the store.    *)
(***************************************************************************)
EXTENDS Naturals

CONSTANTS
    MaxBreaks,    \* bound: steps that fail
    MaxGrabs      \* bound: claims the runtime takes

ASSUME ServeAssumption == MaxBreaks \in Nat /\ MaxGrabs \in Nat

VARIABLES
    serve,        \* where serve is
    woke,         \* what its select took
    signalled,    \* a signal is in the channel
    cancelled,    \* the context of the process has ended
    coord,        \* where the coordinator is
    coordCh,      \* its result is in the channel
    coordOff,     \* the coordinator has cancelled its own context
    storeOpen, httpUp,
    runtime,      \* the goroutines of the repositories
    owned,        \* issue claims of the runtime in the database
    stale,        \* claims and running tasks of the process before
    workerAt,     \* where the worker is
    workerCh,     \* its result is in the channel
    breaks, grabs

serveVars == <<serve, woke, signalled, cancelled, coord, coordCh, coordOff, storeOpen, httpUp,
               runtime, owned, stale, workerAt, workerCh, breaks, grabs>>

\* Mutant: the registrations are loaded before the recovery.
NextStepLoadFirst == [config |-> "store", store |-> "security", security |-> "hooks", hooks |-> "notifier", notifier |-> "load",
                      load |-> "claims", claims |-> "tasks", tasks |-> "loops", loops |-> "bootstrap", bootstrap |-> "listen",
                      listen |-> "running"]

\* The steps of runCoordinatorWithOpts: where each goes next, and which of
\* them end the coordinator when they fail.
NextStep == [config |-> "store", store |-> "claims", claims |-> "tasks", tasks |-> "security", security |-> "hooks",
             hooks |-> "notifier", notifier |-> "loops", loops |-> "load", load |-> "bootstrap", bootstrap |-> "listen",
             listen |-> "running"]
Fatal == {"config", "store", "security", "hooks", "notifier", "load", "bootstrap"}

CoordSteps == DOMAIN NextStep \cup {"running", "stopRuntimes", "awaitRuntimes", "stopHTTP", "close", "ended"}

ServeTypeOK ==
    /\ serve \in {"health", "select", "drainCoord", "drainWorker", "returned"}
    /\ woke \in {"none", "signal", "coord", "worker"} /\ coord \in CoordSteps
    /\ {signalled, cancelled, coordCh, coordOff, storeOpen, httpUp, owned, stale, workerCh} \subseteq BOOLEAN
    /\ runtime \in {"none", "runs", "ended"} /\ workerAt \in {"off", "boots", "polls", "drains", "ended"}
    /\ breaks \in 0..MaxBreaks /\ grabs \in 0..MaxGrabs

ServeInit ==
    /\ serve = "health" /\ woke = "none" /\ signalled = FALSE /\ cancelled = FALSE
    /\ coord = "config" /\ coordCh = FALSE /\ coordOff = FALSE /\ storeOpen = FALSE /\ httpUp = FALSE
    /\ runtime = "none" /\ owned = FALSE /\ stale \in BOOLEAN
    /\ workerAt = "off" /\ workerCh = FALSE /\ breaks = 0 /\ grabs = 0

Breaks == breaks < MaxBreaks /\ breaks' = breaks + 1

-----------------------------------------------------------------------------
(* The coordinator.                                                        *)

Off == cancelled \/ coordOff

\* A step of the start.  The claims and tasks of the process before are
\* recovered before a repository runs; registrations that exist are loaded
\* before the one of the configuration is started.
BootStep ==
    /\ coord \in DOMAIN NextStep /\ coord' = NextStep[coord]
    /\ storeOpen' = (storeOpen \/ coord = "store")
    /\ \/ stale' = (stale /\ coord # "tasks") /\ breaks' = breaks
       \/ coord \in {"claims", "tasks"} /\ Breaks /\ stale' = stale     \* recovery that fails is logged
    /\ runtime' = IF coord \in {"load", "bootstrap"} THEN "runs" ELSE runtime
    /\ \/ httpUp' = (httpUp \/ coord = "listen")
       \/ coord = "listen" /\ httpUp' = FALSE       \* the port is taken: logged
    /\ UNCHANGED <<serve, woke, signalled, cancelled, coordCh, coordOff, owned, workerAt, workerCh, grabs>>

\* A step that fails returns; the deferred calls cancel the context and close
\* the store, and do not stop the runtimes that were started.
BootFails ==
    /\ coord \in Fatal /\ Breaks /\ coord' = "close" /\ coordOff' = TRUE
    /\ UNCHANGED <<serve, woke, signalled, cancelled, coordCh, storeOpen, httpUp, runtime, owned, stale, workerAt, workerCh, grabs>>

\* The state machine claims an issue that it dispatches; an event that has
\* begun is handled to its end.
GrabClaim ==
    /\ runtime = "runs" /\ storeOpen /\ ~owned /\ grabs < MaxGrabs /\ grabs' = grabs + 1 /\ owned' = TRUE
    /\ UNCHANGED <<serve, woke, signalled, cancelled, coord, coordCh, coordOff, storeOpen, httpUp, runtime, stale, workerAt, workerCh, breaks>>

\* The goroutines of the runtimes see that their context has ended.
RuntimeEnds ==
    /\ runtime = "runs" /\ (Off \/ coord = "awaitRuntimes") /\ runtime' = "ended"
    /\ UNCHANGED <<serve, woke, signalled, cancelled, coord, coordCh, coordOff, storeOpen, httpUp, owned, stale, workerAt, workerCh, breaks, grabs>>

CoordStops ==
    /\ coord = "running" /\ Off /\ coord' = "stopRuntimes" /\ coordOff' = TRUE
    /\ UNCHANGED <<serve, woke, signalled, cancelled, coordCh, storeOpen, httpUp, runtime, owned, stale, workerAt, workerCh, breaks, grabs>>

\* stopRepo: the claims are given back, the runtime is cancelled, ...
StopRuntimes ==
    /\ coord = "stopRuntimes" /\ coord' = "awaitRuntimes" /\ owned' = FALSE
    /\ UNCHANGED <<serve, woke, signalled, cancelled, coordCh, coordOff, storeOpen, httpUp, runtime, stale, workerAt, workerCh, breaks, grabs>>

\* ... and awaited for five seconds.
RuntimesAwaited ==
    /\ coord = "awaitRuntimes" /\ coord' = "stopHTTP"
    /\ \/ runtime # "runs" /\ breaks' = breaks
       \/ runtime = "runs" /\ Breaks
    /\ UNCHANGED <<serve, woke, signalled, cancelled, coordCh, coordOff, storeOpen, httpUp, runtime, owned, stale, workerAt, workerCh, grabs>>

StopHTTP ==
    /\ coord = "stopHTTP" /\ coord' = "close" /\ httpUp' = FALSE
    /\ UNCHANGED <<serve, woke, signalled, cancelled, coordCh, coordOff, storeOpen, runtime, owned, stale, workerAt, workerCh, breaks, grabs>>

CoordReturns ==
    /\ coord = "close" /\ coord' = "ended" /\ storeOpen' = FALSE /\ coordCh' = TRUE
    /\ UNCHANGED <<serve, woke, signalled, cancelled, coordOff, httpUp, runtime, owned, stale, workerAt, workerCh, breaks, grabs>>

-----------------------------------------------------------------------------
(* The worker, whose bindings and tasks are the subject of WorkerHost.     *)

WorkerBoots ==
    /\ workerAt = "boots"
    /\ \/ httpUp /\ ~cancelled /\ workerAt' = "polls" /\ breaks' = breaks
       \/ (~httpUp \/ cancelled) /\ workerAt' = "drains" /\ breaks' = breaks
       \/ Breaks /\ workerAt' = "drains"
    /\ UNCHANGED <<serve, woke, signalled, cancelled, coord, coordCh, coordOff, storeOpen, httpUp, runtime, owned, stale, workerCh, grabs>>

\* A poll that fails, or the end of the context, ends the loop.
WorkerStopsPolling ==
    /\ workerAt = "polls" /\ workerAt' = "drains"
    /\ \/ (cancelled \/ ~httpUp) /\ breaks' = breaks
       \/ Breaks
    /\ UNCHANGED <<serve, woke, signalled, cancelled, coord, coordCh, coordOff, storeOpen, httpUp, runtime, owned, stale, workerCh, grabs>>

WorkerReturns ==
    /\ workerAt = "drains" /\ workerAt' = "ended" /\ workerCh' = TRUE
    /\ UNCHANGED <<serve, woke, signalled, cancelled, coord, coordCh, coordOff, storeOpen, httpUp, runtime, owned, stale, breaks, grabs>>

-----------------------------------------------------------------------------
(* runServeWithOutput.                                                     *)

Signal ==
    /\ serve # "returned" /\ ~signalled /\ signalled' = TRUE
    /\ UNCHANGED <<serve, woke, cancelled, coord, coordCh, coordOff, storeOpen, httpUp, runtime, owned, stale, workerAt, workerCh, breaks, grabs>>

\* waitForCoordinatorHealth: an answer within five seconds starts the worker.
Healthy ==
    /\ serve = "health" /\ httpUp /\ serve' = "select" /\ workerAt' = "boots"
    /\ UNCHANGED <<woke, signalled, cancelled, coord, coordCh, coordOff, storeOpen, httpUp, runtime, owned, stale, workerCh, breaks, grabs>>

\* Without it serve cancels the coordinator and returns, without waiting.
Unhealthy ==
    /\ serve = "health" /\ ~httpUp /\ serve' = "returned" /\ cancelled' = TRUE
    /\ UNCHANGED <<woke, signalled, coord, coordCh, coordOff, storeOpen, httpUp, runtime, owned, stale, workerAt, workerCh, breaks, grabs>>

\* Mutant: the signal is noted and the two are left running.
TakeSignalQuietly ==
    /\ serve = "select" /\ signalled /\ signalled' = FALSE
    /\ serve' = "drainCoord" /\ woke' = "signal" /\ cancelled' = cancelled
    /\ UNCHANGED <<coord, coordCh, coordOff, storeOpen, httpUp, runtime, owned, stale, workerAt, workerCh, breaks, grabs>>

TakeSignal ==
    /\ serve = "select" /\ signalled /\ signalled' = FALSE
    /\ serve' = "drainCoord" /\ woke' = "signal" /\ cancelled' = TRUE
    /\ UNCHANGED <<coord, coordCh, coordOff, storeOpen, httpUp, runtime, owned, stale, workerAt, workerCh, breaks, grabs>>

\* The select takes the only result a component sends.
TakeResult ==
    /\ serve = "select" /\ serve' = "drainCoord" /\ cancelled' = TRUE
    /\ \/ coordCh /\ coordCh' = FALSE /\ woke' = "coord" /\ workerCh' = workerCh
       \/ workerCh /\ workerCh' = FALSE /\ woke' = "worker" /\ coordCh' = coordCh
    /\ UNCHANGED <<signalled, coord, coordOff, storeOpen, httpUp, runtime, owned, stale, workerAt, breaks, grabs>>

\* After the select serve receives from both channels, in this order.
DrainCoord ==
    /\ serve = "drainCoord" /\ coordCh /\ coordCh' = FALSE /\ serve' = "drainWorker"
    /\ UNCHANGED <<woke, signalled, cancelled, coord, coordOff, storeOpen, httpUp, runtime, owned, stale, workerAt, workerCh, breaks, grabs>>

DrainWorker ==
    /\ serve = "drainWorker" /\ workerCh /\ workerCh' = FALSE /\ serve' = "returned"
    /\ UNCHANGED <<woke, signalled, cancelled, coord, coordCh, coordOff, storeOpen, httpUp, runtime, owned, stale, workerAt, breaks, grabs>>

ServeSteps ==
    \/ BootStep \/ RuntimeEnds \/ CoordStops \/ StopRuntimes \/ RuntimesAwaited \/ StopHTTP \/ CoordReturns
    \/ WorkerBoots \/ WorkerReturns \/ WorkerStopsPolling \/ Healthy \/ TakeSignal \/ TakeResult \/ DrainCoord \/ DrainWorker

ServeNext == ServeSteps \/ BootFails \/ GrabClaim \/ Signal \/ Unhealthy

\* The goroutines of the process and its servers run; what is said of them
\* while serve lives (a process that has returned has none).
ServeFairness ==
    /\ WF_serveVars(BootStep) /\ WF_serveVars(RuntimeEnds) /\ WF_serveVars(CoordStops) /\ WF_serveVars(StopRuntimes)
    /\ WF_serveVars(RuntimesAwaited) /\ WF_serveVars(StopHTTP) /\ WF_serveVars(CoordReturns) /\ WF_serveVars(WorkerBoots)
    /\ WF_serveVars(WorkerReturns) /\ WF_serveVars(WorkerStopsPolling /\ breaks' = breaks) /\ WF_serveVars(Healthy)
    /\ WF_serveVars(TakeSignal) /\ WF_serveVars(TakeResult) /\ WF_serveVars(DrainCoord) /\ WF_serveVars(DrainWorker)

ServeSpec == ServeInit /\ [][ServeNext]_serveVars /\ ServeFairness

-----------------------------------------------------------------------------
(* Properties.                                                             *)

\* A signal that serve takes ends the process: the coordinator and the worker
\* both stop and send their results (runServeWithOutput).
SignalEndsServe == woke = "signal" ~> serve = "returned"

\* No repository is polled and no worker answered while claims and running
\* tasks of the process before are in the store, unless their recovery failed
\* (runCoordinatorWithOpts recovers them first).
RecoveredFirst == stale /\ (runtime = "runs" \/ httpUp) => breaks > 0

\* Shutdown "ensure[s] claim-release cleanup finishes before the store closes".
\* The claims are given back before the goroutines have ended.
ClaimsReleasedAtExit == [][CoordReturns /\ woke = "signal" /\ breaks = 0 => ~owned]_serveVars

\* serve ends when one of its components has ended.  It receives the result
\* of that component in the select and then waits for it once more.
ExitEndsServe == woke \in {"coord", "worker"} ~> serve = "returned"
============================================================================
