------------------------------- MODULE Alerts -------------------------------
(***************************************************************************)
(* The alert bus and the task hub, which are the same code, their          *)
(* subscribers (notifiers, and clients of /tasks/watch), and the notifier: *)
(* a pump that turns events into alerts, a queue, workers that drop what   *)
(* was sent within the window and deliver the rest to every sender, and    *)
(* the reload that puts a new notifier in the place of the old one.        *)
(***************************************************************************)
EXTENDS Naturals, Sequences, FiniteSets

CONSTANTS
    Watchers,       \* clients of /tasks/watch
    Publishers,     \* goroutines that publish
    Pool,           \* workers of a notifier (4)
    Senders,        \* the senders, in order
    Batching,       \* batch_window is set: one worker that collects
    NotifySuccess,  \* notifications.success
    Buffer,         \* capacity of a subscriber's channel (1 in the hub, 64 in the bus)
    QueueSize,      \* notifierQueueSize (64)
    Attempts,       \* defaultRetryAttempts (3)
    Window,         \* dedup_window
    MaxClock,       \* bound: time
    MaxPublished,   \* bound: events
    MaxApplies,     \* bound: notifiers
    MaxNotSent      \* bound: sends that fail

ASSUME AlertsAssumption ==
    /\ {Buffer, QueueSize, Attempts, Window, MaxApplies} \subseteq Nat \ {0}
    /\ {MaxClock, MaxPublished, MaxNotSent} \subseteq Nat /\ Batching \in BOOLEAN /\ NotifySuccess \in BOOLEAN
    /\ Batching => Cardinality(Pool) = 1
    /\ Watchers \subseteq Nat \ 0..MaxApplies
    /\ IsFiniteSet(Pool) /\ Senders \in Seq({Senders[i] : i \in DOMAIN Senders})

VARIABLES
    subs,        \* registered subscribers
    shut,        \* subscribers whose channel is closed
    inbox,       \* the channels
    pub,         \* what each publisher has still to send, and to whom
    panics,      \* publishers that sent on a closed channel
    notifiers,   \* the notifiers
    serving,     \* the notifier the runtime would cancel
    applying,    \* a reload has started a notifier and not yet cancelled the other
    clock,
    sent,        \* how often each notifier sent each alert to each sender (history)
    events, notSent

alertVars == <<subs, shut, inbox, pub, panics, notifiers, serving, applying, clock, sent, events, notSent>>

Notes == 1..MaxApplies
Kinds == {"exit", "repeat", "success"}
Outcomes == {"ok", "failed"}
Resting == [batch |-> {}, kind |-> "none", left |-> <<>>, tries |-> 0]
NoPub == [to |-> {}, what |-> "none"]

\* A notifier before its start: nothing seen, nothing remembered.
FreshNotifier == [on |-> FALSE, over |-> FALSE, queue |-> <<>>, failures |-> 0, dedup |-> [k \in Kinds |-> 0], hand |-> [w \in Pool |-> Resting]]

AlertsTypeOK ==
    /\ subs \subseteq Notes \cup Watchers /\ shut \subseteq Notes \cup Watchers
    /\ \A s \in Notes \cup Watchers : inbox[s] \in Seq(Outcomes) /\ Len(inbox[s]) <= Buffer
    /\ \A p \in Publishers : pub[p].to \subseteq Notes \cup Watchers /\ pub[p].what \in Outcomes \cup {"none"}
    /\ panics \subseteq Publishers /\ serving \in 0..MaxApplies /\ applying \in BOOLEAN
    /\ \A n \in Notes : Len(notifiers[n].queue) <= QueueSize
    /\ clock \in 0..MaxClock /\ events \in 0..MaxPublished /\ notSent \in 0..MaxNotSent

AlertsInit ==
    /\ subs = {1} /\ shut = {} /\ inbox = [s \in Notes \cup Watchers |-> <<>>]
    /\ pub = [p \in Publishers |-> NoPub] /\ panics = {}
    /\ notifiers = [n \in Notes |-> IF n = 1 THEN [FreshNotifier EXCEPT !.on = TRUE] ELSE FreshNotifier]
    /\ serving = 1 /\ applying = FALSE /\ clock = 0 /\ events = 0 /\ notSent = 0
    /\ sent = [n \in Notes |-> [k \in Kinds |-> 0]]

-----------------------------------------------------------------------------
(* Bus and Hub.                                                            *)

\* Publish copies the list of subscribers under the lock ...
Publish(p) ==
    /\ pub[p] = NoPub /\ p \notin panics /\ events < MaxPublished /\ events' = events + 1
    /\ \E what \in Outcomes : pub' = [pub EXCEPT ![p] = [to |-> subs, what |-> what]]
    /\ UNCHANGED <<subs, shut, inbox, panics, notifiers, serving, applying, clock, sent, notSent>>

Rest(p, s) == IF pub[p].to = {s} THEN NoPub ELSE [pub[p] EXCEPT !.to = @ \ {s}]

\* Mutant: the publisher waits for room.
OfferBlocking(p, s) ==
    /\ Len(inbox[s]) < Buffer /\ inbox' = [inbox EXCEPT ![s] = Append(@, pub[p].what)]
    /\ pub' = [pub EXCEPT ![p] = Rest(p, s)] /\ panics' = panics

\* ... and offers the event to each of them without waiting: a full channel
\* loses it.  A channel that was closed since the copy makes the send panic.
Offer(p, s) ==
    IF s \in shut
    THEN panics' = panics \cup {p} /\ pub' = [pub EXCEPT ![p] = NoPub] /\ inbox' = inbox
    ELSE /\ inbox' = IF Len(inbox[s]) < Buffer THEN [inbox EXCEPT ![s] = Append(@, pub[p].what)] ELSE inbox
         /\ pub' = [pub EXCEPT ![p] = Rest(p, s)] /\ panics' = panics

OfferEvent(p) ==
    /\ \E s \in pub[p].to : Offer(p, s)
    /\ UNCHANGED <<subs, shut, notifiers, serving, applying, clock, sent, events, notSent>>

\* A client of /tasks/watch subscribes, leaves after its first event, or is
\* disconnected.
Subscribe(w) ==
    /\ w \notin subs \cup shut /\ subs' = subs \cup {w}
    /\ UNCHANGED <<shut, inbox, pub, panics, notifiers, serving, applying, clock, sent, events, notSent>>

Unsubscribe(s) ==
    /\ s \in subs /\ subs' = subs \ {s} /\ shut' = shut \cup {s}
    /\ s \in Notes => notifiers[s].over
    /\ inbox' = [inbox EXCEPT ![s] = <<>>]
    /\ UNCHANGED <<pub, panics, notifiers, serving, applying, clock, sent, events, notSent>>

-----------------------------------------------------------------------------
(* NotifierRuntime.Apply.                                                  *)

\* The new notifier is started, and subscribed, ...
StartNotifier ==
    /\ ~applying /\ serving < MaxApplies /\ applying' = TRUE
    /\ notifiers' = [notifiers EXCEPT ![serving + 1].on = TRUE] /\ subs' = subs \cup {serving + 1}
    /\ UNCHANGED <<shut, inbox, pub, panics, serving, clock, sent, events, notSent>>

\* ... and then the other one is cancelled, with what it has queued.
CancelPrevious ==
    /\ applying /\ applying' = FALSE /\ serving' = serving + 1
    /\ notifiers' = [notifiers EXCEPT ![serving].over = TRUE]
    /\ UNCHANGED <<subs, shut, inbox, pub, panics, clock, sent, events, notSent>>

-----------------------------------------------------------------------------
(* The notifier.                                                           *)

Becomes(n, r) == notifiers' = [notifiers EXCEPT ![n] = r]
Hand(n, w, h) == [notifiers[n].hand EXCEPT ![w] = h]
Holding(n, w, h) == Becomes(n, [notifiers[n] EXCEPT !.hand = Hand(n, w, h)])

\* The kinds of alert an event becomes: a second failure of an issue is
\* announced before it.
Alerting(n, what) ==
    CASE what = "failed" -> (IF notifiers[n].failures > 0 THEN <<"repeat">> ELSE <<>>) \o <<"exit">>
      [] what = "ok"     -> IF NotifySuccess THEN <<"success">> ELSE <<>>

Enqueued(queue, kinds) == SubSeq(queue \o kinds, 1, IF Len(queue \o kinds) > QueueSize THEN QueueSize ELSE Len(queue \o kinds))

Pump(n) ==
    /\ n \in subs /\ inbox[n] # <<>> /\ inbox' = [inbox EXCEPT ![n] = Tail(@)]
    /\ Becomes(n, [notifiers[n] EXCEPT !.queue = Enqueued(@, Alerting(n, Head(inbox[n]))),
                                       !.failures = IF Head(inbox[n]) = "failed" THEN 1 ELSE @])
    /\ UNCHANGED <<subs, shut, pub, panics, serving, applying, clock, sent, events, notSent>>

\* Mutant: an alert is remembered when it has been sent.
RememberedLater(n, kind) == notifiers[n].dedup

\* shouldDrop: known and not expired; otherwise it is remembered at once,
\* under the lock, whether or not it can be sent later.
ShouldDrop(n, kind) == clock < notifiers[n].dedup[kind]
Remembered(n, kind) == [notifiers[n].dedup EXCEPT ![kind] = clock + Window]

Take(n, w) ==
    /\ notifiers[n].on /\ notifiers[n].queue # <<>>
    /\ LET held == notifiers[n].hand[w]
           kind == Head(notifiers[n].queue)
       IN  /\ held.kind = "none" /\ (held.batch # {} => Batching)
           /\ IF ShouldDrop(n, kind)
                THEN Becomes(n, [notifiers[n] EXCEPT !.queue = Tail(@)])
                ELSE Becomes(n, [notifiers[n] EXCEPT !.queue = Tail(@), !.dedup = Remembered(n, kind),
                                    !.hand = Hand(n, w, [held EXCEPT !.batch = held.batch \cup {kind}])])
    /\ UNCHANGED <<subs, shut, inbox, pub, panics, serving, applying, clock, sent, events, notSent>>

\* One message per kind of the batch: when the window of the batch has
\* passed, when it is full, or when the notifier is cancelled.
Flush(n, w) ==
    /\ notifiers[n].hand[w].kind = "none"
    /\ \E kind \in notifiers[n].hand[w].batch :
         Holding(n, w, [batch |-> notifiers[n].hand[w].batch \ {kind}, kind |-> kind, left |-> Senders, tries |-> 0])
    /\ UNCHANGED <<subs, shut, inbox, pub, panics, serving, applying, clock, sent, events, notSent>>

AfterSender(held) ==
    IF Len(held.left) > 1 THEN [held EXCEPT !.left = Tail(@), !.tries = 0] ELSE [held EXCEPT !.kind = "none", !.left = <<>>, !.tries = 0]

\* The message goes to one sender after the other.
Send(n, w) ==
    /\ notifiers[n].hand[w].left # <<>> /\ ~notifiers[n].over
    /\ sent' = IF notifiers[n].hand[w].left = Senders THEN [sent EXCEPT ![n][notifiers[n].hand[w].kind] = @ + 1] ELSE sent
    /\ Holding(n, w, AfterSender(notifiers[n].hand[w]))
    /\ UNCHANGED <<subs, shut, inbox, pub, panics, serving, applying, clock, events, notSent>>

\* A send that fails is tried again; the last failure is logged, as is the
\* failure of every send once the notifier is cancelled.
SendError(n, w) ==
    /\ notifiers[n].hand[w].left # <<>>
    /\ IF notifiers[n].over THEN notSent' = notSent ELSE notSent < MaxNotSent /\ notSent' = notSent + 1
    /\ LET held == notifiers[n].hand[w] IN
       Holding(n, w, IF held.tries + 1 < Attempts /\ ~notifiers[n].over THEN [held EXCEPT !.tries = @ + 1] ELSE AfterSender(held))
    /\ UNCHANGED <<subs, shut, inbox, pub, panics, serving, applying, clock, sent, events>>

Tick ==
    /\ clock < MaxClock /\ clock' = clock + 1
    /\ UNCHANGED <<subs, shut, inbox, pub, panics, notifiers, serving, applying, sent, events, notSent>>

AlertsNext ==
    \/ \E p \in Publishers : Publish(p) \/ OfferEvent(p)
    \/ \E w \in Watchers : Subscribe(w)
    \/ \E s \in Notes \cup Watchers : Unsubscribe(s)
    \/ StartNotifier \/ CancelPrevious
    \/ \E n \in Notes : Pump(n) \/ \E w \in Pool : Take(n, w) \/ Flush(n, w) \/ Send(n, w) \/ SendError(n, w)
    \/ Tick

\* A goroutine that publishes goes on; no sender is assumed to answer.
AlertsFairness == \A p \in Publishers : WF_alertVars(OfferEvent(p))

AlertsSpec == AlertsInit /\ [][AlertsNext]_alertVars /\ AlertsFairness

-----------------------------------------------------------------------------
\* A notifier sends an alert at most once per window, however many workers
\* take alerts of the same kind from its queue at the same time.
OncePerWindow == \A n \in Notes, k \in Kinds : sent[n][k] <= 1 + clock \div Window

\* A goroutine that publishes gets through, whatever the subscribers do: a
\* sender that never answers does not hold up the task result behind it.
PublishersGetThrough == \A p \in Publishers : (pub[p] # NoPub) ~> (pub[p] = NoPub)

\* Across a reload, too, an alert is sent at most once per window.
OncePerWindowOverall ==
    \A k \in Kinds : \A n, m \in Notes : n # m => sent[n][k] + sent[m][k] <= 1 + clock \div Window
=============================================================================
