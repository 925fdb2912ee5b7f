------------------------------- MODULE Hooks --------------------------------
(***************************************************************************)
(* The hooks dispatcher: events of the event log fan out to user-defined   *)
(* commands and webhooks.  PublishEvent never blocks; one fan-in goroutine *)
(* hands each event to a one-slot queue per hook; one goroutine per hook   *)
(* runs the action.  Reload tears the pool down and builds a new one, Stop *)
(* tears it down for good.                                                 *)
(*                                                                         *)
(* Every replacement of the bindings makes new hook objects, a new queue   *)
(* map and a new stop channel, which are numbered together: generation g.  *)
(* Goroutines read the stop channel field anew on each round of their      *)
(* loop, so a goroutine remembers the channel of its current round.        *)
(***************************************************************************)
EXTENDS Naturals, Sequences, FiniteSets

CONSTANTS
    HookNames,     \* the hooks of the configuration
    Slow,          \* the hooks whose action may never return
    MaxEvents,     \* bound: the events that get published, numbered in order
    HookDef,       \* HookDef[h]: event types, "*" for all; repositories and severities
                   \* of the match filter, {} for no filter
    EventDef,      \* EventDef[e]: type, repository and severity ("" for none)
    Cap,           \* capacity of the central channel
    Threshold,     \* consecutive failures that disable a hook
    RingSize,      \* invocations remembered per hook
    Reloaders,     \* concurrent callers of Reload
    MaxGens        \* bound: replacements of the bindings, the first included

ASSUME HookAssumption ==
    /\ Slow \subseteq HookNames /\ MaxEvents \in Nat
    /\ DOMAIN HookDef = HookNames /\ DOMAIN EventDef = 1..MaxEvents
    /\ Cap \in Nat \ {0} /\ Threshold \in Nat \ {0} /\ RingSize \in Nat \ {0} /\ MaxGens \in Nat \ {0}

Gens   == 1..MaxGens
HookEvents == 1..MaxEvents

VARIABLES
    inq,        \* the central channel
    gen,        \* the generation the dispatcher's fields hold
    started, stopped,
    closed,     \* stop channels that were closed
    slot,       \* slot[g][h]: the queue of one event
    bound,      \* bound[g][h]: failures in a row, disabled, the ring of results
    fan,        \* fan[g]: the fan-in goroutine, by the generation that started it
    hand,       \* hand[g][h]: the goroutine of hook h, and the event it executes
    fate,       \* fate[h][e]: what became of event e at hook h
    caller,     \* where each caller of Reload and the caller of Stop is
    overlapped  \* history: two of Stop and the Reloads were under way at once

hookVars == <<inq, gen, started, stopped, closed, slot, bound, fan, hand, fate, caller, overlapped>>

Final    == {"ok", "failed", "filtered", "disabled", "overflow"}
Alive(x) == x.at \in {"idle", "busy"}
Unstarted == [at |-> "none", ev |-> 0, ch |-> 0]
Idle(g)  == [at |-> "idle", ev |-> 0, ch |-> g]
UnderWay == {"waiting", "released", "returned", "replaced"}
NewHook  == [fails |-> 0, disabled |-> FALSE, ring |-> <<>>]

HookInit ==
    /\ inq = <<>> /\ gen = 1 /\ started = FALSE /\ stopped = FALSE /\ closed = {}
    /\ slot  = [g \in Gens |-> [h \in HookNames |-> {}]]
    /\ bound = [g \in Gens |-> [h \in HookNames |-> NewHook]]
    /\ fan   = [g \in Gens |-> Unstarted]
    /\ hand  = [g \in Gens |-> [h \in HookNames |-> Unstarted]]
    /\ fate  = [h \in HookNames |-> [e \in HookEvents |-> "new"]]
    /\ caller = [r \in Reloaders \cup {"stop"} |-> "idle"] /\ overlapped = FALSE

-----------------------------------------------------------------------------
(* HookEvents.                                                             *)

\* An event is logged and published: into the channel, or dropped.
PublishEvent(e) ==
    /\ \A h \in HookNames : fate[h][e] = "new" /\ \A d \in 1..(e - 1) : fate[h][d] # "new"
    /\ IF Len(inq) < Cap
         THEN inq' = Append(inq, e) /\ fate' = [h \in HookNames |-> [fate[h] EXCEPT ![e] = "in"]]
         ELSE inq' = inq /\ fate' = [h \in HookNames |-> [fate[h] EXCEPT ![e] = "dropped"]]
    /\ UNCHANGED <<gen, started, stopped, closed, slot, bound, fan, hand, caller, overlapped>>

MatchesEvent(h, e) == "*" \in HookDef[h].events \/ EventDef[e].type \in HookDef[h].events

\* The repository filter; the severity filter looks at alerts only.
MatchesFilter(h, e) ==
    /\ HookDef[h].repos = {} \/ EventDef[e].repo \in HookDef[h].repos
    /\ \/ HookDef[h].severity = {} \/ EventDef[e].type # "alert"
       \/ EventDef[e].severity \in HookDef[h].severity

\* What the fan-in does with event e for hook h of the current bindings.
Route(h, e) ==
    IF ~MatchesEvent(h, e) THEN "unmatched"
    ELSE IF bound[gen][h].disabled THEN "disabled"
    ELSE IF ~MatchesFilter(h, e) THEN "filtered"
    ELSE IF slot[gen][h] # {} THEN "overflow" ELSE "slot"

Remember(b, result) ==
    LET r == Append(b.ring, result)
    IN  [b EXCEPT !.ring = IF Len(r) > RingSize THEN Tail(r) ELSE r]

\* Mutant: fanOut waits for the slot of a hook instead of dropping the event.
FanOutEventBlocking(g) ==
    /\ fan[g].at = "idle" /\ inq # <<>> /\ started
    /\ \A h \in HookNames : Route(h, Head(inq)) # "overflow"
    /\ LET e == Head(inq) IN
         /\ fate' = [h \in HookNames |-> [fate[h] EXCEPT ![e] = Route(h, e)]]
         /\ slot' = [slot EXCEPT ![gen] =
                [h \in HookNames |-> IF Route(h, e) = "slot" THEN {e} ELSE slot[gen][h]]]
         /\ bound' = bound
    /\ inq' = Tail(inq) /\ fan' = [fan EXCEPT ![g].ch = gen]
    /\ UNCHANGED <<gen, started, stopped, closed, hand, caller, overlapped>>

\* The fan-in goroutine of pool g takes an event and goes through the hooks
\* and the queues that the fields hold now.  Between the replacement of the
\* bindings and the start of the new pool the queue map is empty.
FanOutEvent(g) ==
    /\ fan[g].at = "idle" /\ inq # <<>>
    /\ LET e == Head(inq)
           to(h) == IF Route(h, e) \in {"slot", "overflow"} /\ ~started THEN "noqueue" ELSE Route(h, e)
       IN /\ fate' = [h \in HookNames |-> [fate[h] EXCEPT ![e] = to(h)]]
          /\ slot' = [slot EXCEPT ![gen] =
                [h \in HookNames |-> IF to(h) = "slot" THEN {e} ELSE slot[gen][h]]]
          /\ bound' = [bound EXCEPT ![gen] = [h \in HookNames |->
                IF to(h) = "overflow" THEN Remember(bound[gen][h], "overflow") ELSE bound[gen][h]]]
    /\ inq' = Tail(inq) /\ fan' = [fan EXCEPT ![g].ch = gen]
    /\ UNCHANGED <<gen, started, stopped, closed, hand, caller, overlapped>>

\* The goroutine of hook h of pool g becomes x.
Serving(g, h, x) == hand' = [hand EXCEPT ![g] = [hand[g] EXCEPT ![h] = x]]

\* The goroutine of a hook takes the queued event and starts the action, also
\* when the hook was disabled after the event was queued.
TakeSlot(g, h) ==
    /\ hand[g][h].at = "idle"
    /\ \E e \in slot[g][h] :
         /\ Serving(g, h, [hand[g][h] EXCEPT !.at = "busy", !.ev = e])
         /\ fate' = [fate EXCEPT ![h][e] = "running"]
    /\ slot' = [slot EXCEPT ![g][h] = {}]
    /\ UNCHANGED <<inq, gen, started, stopped, closed, bound, fan, caller, overlapped>>

\* Mutant: a success leaves the failure count as it is.
SucceededStill(b) == Remember(b, "ok")

Succeeded(b) == [Remember(b, "ok") EXCEPT !.fails = 0]

HasFailed(b) ==
    [Remember(b, "failed") EXCEPT !.fails = @ + 1, !.disabled = @ \/ b.fails + 1 >= Threshold]

\* A command fails unless it exits with 0: any other exit, a signal, the
\* timeout (SIGTERM, then SIGKILL) and a program that does not start.
CommandResult(end) == IF end = 0 THEN "ok" ELSE "failed"

\* A webhook fails unless the answer is a 2xx; 0 stands for no answer.
WebhookResult(code) == IF code \in 200..299 THEN "ok" ELSE "failed"

Results(h) ==
    IF HookDef[h].action = "command" THEN {CommandResult(x) : x \in {0, 1}}
    ELSE {WebhookResult(x) : x \in {0, 204, 300}}

\* The command exits, the webhook answers, or the timeout ends them.
ActionEnds(g, h, result) ==
    /\ hand[g][h].at = "busy"
    /\ fate' = [fate EXCEPT ![h][hand[g][h].ev] = result]
    /\ bound' = [bound EXCEPT ![g][h] = IF result = "ok" THEN Succeeded(@) ELSE HasFailed(@)]
    /\ Serving(g, h, Idle(gen))
    /\ UNCHANGED <<inq, gen, started, stopped, closed, slot, fan, caller, overlapped>>

-----------------------------------------------------------------------------
(* The pool.                                                               *)

StartPool ==
    /\ ~started /\ started' = TRUE
    /\ hand' = [hand EXCEPT ![gen] = [h \in HookNames |-> Idle(gen)]]
    /\ fan'  = [fan EXCEPT ![gen] = Idle(gen)]

Boot ==
    /\ gen = 1 /\ StartPool
    /\ UNCHANGED <<inq, gen, stopped, closed, slot, bound, fate, caller, overlapped>>

PoolIsGone == \A g \in Gens : ~Alive(fan[g]) /\ \A h \in HookNames : ~Alive(hand[g][h])

\* The last goroutine that leaves releases everyone who waits for the pool.
Release == IF PoolIsGone' THEN [c \in DOMAIN caller |-> IF caller[c] = "waiting" THEN "released" ELSE caller[c]]
                          ELSE caller

\* A goroutine that waits on a closed stop channel leaves.
FanLeaves(g) ==
    /\ fan[g].at = "idle" /\ fan[g].ch \in closed
    /\ fan' = [fan EXCEPT ![g].at = "gone"] /\ hand' = hand /\ caller' = Release
    /\ UNCHANGED <<inq, gen, started, stopped, closed, slot, bound, fate, overlapped>>

HandLeaves(g, h) ==
    /\ hand[g][h].at = "idle" /\ hand[g][h].ch \in closed
    /\ Serving(g, h, [hand[g][h] EXCEPT !.at = "gone"]) /\ fan' = fan /\ caller' = Release
    /\ UNCHANGED <<inq, gen, started, stopped, closed, slot, bound, fate, overlapped>>

\* Mutant: the stop channel is closed only while a goroutine is busy.
TearDownIdle(c) ==
    /\ caller[c] = "idle"
    /\ closed' = IF started /\ ~stopped /\ \E h \in HookNames : hand[gen][h].at = "busy"
                 THEN closed \cup {gen} ELSE closed
    /\ stopped' = TRUE
    /\ overlapped' = (overlapped \/ \E q \in DOMAIN caller : caller[q] \in UnderWay)

\* Stop, and the first half of Reload: the stop channel is closed unless it
\* already is, and the caller waits for the pool.
TearDown(c) ==
    /\ caller[c] = "idle"
    /\ closed' = IF started /\ ~stopped THEN closed \cup {gen} ELSE closed
    /\ stopped' = TRUE
    /\ overlapped' = (overlapped \/ \E q \in DOMAIN caller : caller[q] \in UnderWay)

StopBegins ==
    /\ TearDown("stop")
    /\ caller' = [caller EXCEPT !["stop"] =
            IF started /\ ~stopped THEN IF PoolIsGone THEN "released" ELSE "waiting" ELSE "done"]
    /\ UNCHANGED <<inq, gen, started, slot, bound, fan, hand, fate>>

\* A wait that returns while the pool runs again panics.
WaitPanics(c) ==
    /\ caller[c] = "released" /\ ~PoolIsGone
    /\ caller' = [caller EXCEPT ![c] = "panicked"]
    /\ UNCHANGED <<inq, gen, started, stopped, closed, slot, bound, fan, hand, fate, overlapped>>

StopReturns ==
    /\ caller["stop"] = "released" /\ PoolIsGone
    /\ caller' = [caller EXCEPT !["stop"] = "done"]
    /\ UNCHANGED <<inq, gen, started, stopped, closed, slot, bound, fan, hand, fate, overlapped>>

ReloadBegins(r) ==
    /\ started /\ gen < MaxGens /\ TearDown(r)
    /\ caller' = [caller EXCEPT ![r] = IF PoolIsGone THEN "released" ELSE "waiting"]
    /\ UNCHANGED <<inq, gen, started, slot, bound, fan, hand, fate>>

\* Mutant: the bindings are replaced without waiting for the pool to end.
ReloadReplacesAtOnce(r) ==
    /\ caller[r] \in {"waiting", "released"} /\ gen < MaxGens
    /\ gen' = gen + 1 /\ started' = FALSE /\ stopped' = FALSE
    /\ caller' = [caller EXCEPT ![r] = "replaced"]
    /\ UNCHANGED <<inq, closed, slot, bound, fan, hand, fate, overlapped>>

\* The wait returns, and some time later, under the lock again, new bindings,
\* an empty queue map and a new stop channel replace the old ones.
ReloadReturns(r) ==
    /\ caller[r] = "released" /\ PoolIsGone
    /\ caller' = [caller EXCEPT ![r] = "returned"]
    /\ UNCHANGED <<inq, gen, started, stopped, closed, slot, bound, fan, hand, fate, overlapped>>

ReloadReplaces(r) ==
    /\ caller[r] = "returned" /\ gen < MaxGens
    /\ gen' = gen + 1 /\ started' = FALSE /\ stopped' = FALSE
    /\ caller' = [caller EXCEPT ![r] = "replaced"]
    /\ UNCHANGED <<inq, closed, slot, bound, fan, hand, fate, overlapped>>

ReloadStarts(r) ==
    /\ caller[r] = "replaced"
    /\ IF started THEN UNCHANGED <<started, hand, fan>> ELSE StartPool
    /\ caller' = [caller EXCEPT ![r] = "done"]
    /\ UNCHANGED <<inq, gen, stopped, closed, slot, bound, fate, overlapped>>

HookNext ==
    \/ \E e \in HookEvents : PublishEvent(e)
    \/ Boot \/ StopBegins \/ StopReturns
    \/ \E g \in Gens : FanOutEvent(g) \/ FanLeaves(g)
    \/ \E g \in Gens, h \in HookNames : TakeSlot(g, h) \/ HandLeaves(g, h)
    \/ \E g \in Gens, h \in HookNames : \E result \in Results(h) : ActionEnds(g, h, result)
    \/ \E r \in Reloaders : ReloadBegins(r) \/ ReloadReturns(r) \/ ReloadReplaces(r) \/ ReloadStarts(r)
    \/ \E c \in Reloaders \cup {"stop"} : WaitPanics(c)

\* Every goroutine runs on; the timeout ends an action, except the actions in
\* Slow, for which nothing is assumed.
HookFairness ==
    /\ \A g \in Gens : WF_hookVars(FanOutEvent(g) \/ FanLeaves(g))
    /\ \A g \in Gens, h \in HookNames : WF_hookVars(TakeSlot(g, h) \/ HandLeaves(g, h))
    /\ \A g \in Gens, h \in HookNames \ Slow :
         WF_hookVars(\E result \in Results(h) : ActionEnds(g, h, result))
    /\ WF_hookVars(StopReturns)
    /\ \A r \in Reloaders : WF_hookVars(ReloadReturns(r) \/ ReloadReplaces(r) \/ ReloadStarts(r))

HookSpec == HookInit /\ [][HookNext]_hookVars /\ HookFairness

-----------------------------------------------------------------------------
(* Properties.                                                             *)

\* The executions of hook h of generation g, in order, without the drops.
Executed(g, h) == SelectSeq(bound[g][h].ring, LAMBDA r : r # "overflow")

\* A hook is disabled exactly when, since it was bound, as many executions in
\* a row as the threshold asks for have failed: other failures, drops and
\* failures before a reload do not count (executeOne, Reload).  A ring that is
\* full may have forgotten them.
DisabledIsEarned ==
    \A g \in Gens, h \in HookNames :
        LET s == Executed(g, h) IN
        Len(bound[g][h].ring) < RingSize =>
            (bound[g][h].disabled <=>
                \E i \in 0..(Len(s) - Threshold) : Len(s) >= Threshold
                    /\ \A k \in 1..Threshold : s[i + k] = "failed")

\* The action of a hook never runs twice at once, across a reload either: the
\* old pool is waited for, unless two teardowns overlapped (Reload).
OneRunPerHook ==
    overlapped \/ \A h \in HookNames : Cardinality({g \in Gens : hand[g][h].at = "busy"}) <= 1

\* A hook whose action never returns does not hold up the others: an event
\* that reached the channel is settled for every hook that is not slow,
\* unless the pool is torn down meanwhile (fanOut drops instead of waiting).
OthersProceed ==
    \A h \in HookNames \ Slow, e \in HookEvents :
        (fate[h][e] = "in" /\ started) ~> (fate[h][e] \in Final \cup {"unmatched"} \/ stopped \/ gen > 1)

\* Stop returns once the running actions do, as long as no two teardowns
\* overlapped: then goroutines may be left that no channel ends, or the wait
\* panics.
StopEnds ==
    (caller["stop"] = "waiting") ~>
        \/ caller["stop"] = "done" \/ overlapped
        \/ \E g \in Gens, h \in Slow : hand[g][h].at = "busy"
=============================================================================
