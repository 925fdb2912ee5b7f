--------------------------- MODULE CodexSessions ----------------------------
(***************************************************************************)
(* The codex backend of a worker: all sessions share one WebSocket to the  *)
(* codex app-server.  A session dials on first use, starts a thread and a  *)
(* turn with JSON-RPC calls and then waits; the read loop of the           *)
(* connection routes answers to calls and notifications to sessions.  The  *)
(* backend is one-shot: a connection that ends makes it dead for good and  *)
(* finishes every session.                                                 *)
(*                                                                         *)
(* The server (external) answers calls and completes turns over the        *)
(* connection they were made on, or does not.                              *)
(***************************************************************************)
EXTENDS Naturals

CONSTANTS
    Chats,       \* sessions, one task each
    EventCap,    \* capacity of the events channel of a session
    MaxFrames,   \* bound: notifications that carry an event
    MaxLinks     \* bound: connections dialled

ASSUME CodexAssumption == EventCap \in Nat \ {0} /\ MaxFrames \in Nat /\ MaxLinks \in Nat

Links == 1..MaxLinks

VARIABLES
    server,     \* the appServer: started, closed, dead, initErr, readDone
    wire,       \* its conn field
    dialled,    \* connections made so far
    open,       \* connections that work
    loop,       \* loop[c]: the connection that the read loop started for c reads, 0 if none
    chatAt,         \* where the goroutine of each session is
    rpc,       \* the connection its outstanding rpc was written to, 0 for none
    failed,     \* its rpc has failed
    thread,     \* threads map: the session is registered
    turn,       \* the connection of the turn that the server works on, 0 for none
    fin,        \* the outcome once done is closed: none, ok or failed (interrupted too)
    evs,        \* the events channel: [n, closed]
    notes,     \* notifications so far
    closer,     \* the goroutine that archives the thread and closes the events runs
    crashed     \* the worker panicked: readDone was closed twice

codexVars == <<server, wire, dialled, open, loop, chatAt, rpc, failed, thread, turn, fin, evs,
               notes, closer, crashed>>

Gone == {"refused", "done"}

CodexInit ==
    /\ server = [started |-> FALSE, closed |-> FALSE, dead |-> FALSE, initErr |-> FALSE, readDone |-> FALSE]
    /\ wire = 0 /\ dialled = 0 /\ open = {} /\ loop = [c \in Links |-> 0]
    /\ chatAt = [s \in Chats |-> "idle"] /\ rpc = [s \in Chats |-> 0] /\ failed = [s \in Chats |-> FALSE]
    /\ thread = [s \in Chats |-> FALSE] /\ turn = [s \in Chats |-> 0]
    /\ fin = [s \in Chats |-> "none"] /\ evs = [s \in Chats |-> [n |-> 0, closed |-> FALSE]]
    /\ notes = 0 /\ closer = [s \in Chats |-> FALSE]
    /\ crashed = FALSE

\* Mutant: the outcome is set again by everyone who finishes the session.
FinishAgain(s, outcome) == fin' = [fin EXCEPT ![s] = outcome]

\* finishOnce: the first outcome is the outcome.
Finish(s, outcome) == fin' = [fin EXCEPT ![s] = IF @ = "none" THEN outcome ELSE @]
\* The thread leaves the map; what the server does in it no longer matters.
Unregister(s) == thread' = [thread EXCEPT ![s] = FALSE] /\ turn' = [turn EXCEPT ![s] = 0]
CloseEvents(s) == evs' = [evs EXCEPT ![s].closed = TRUE]
ChatGoto(s, p)     == chatAt' = [chatAt EXCEPT ![s] = p]

-----------------------------------------------------------------------------
(* Connecting and calling.                                                 *)

\* ensureConnected: the fields are read under the lock, which is released
\* before the dial.
Ensure(s) ==
    /\ chatAt[s] = "idle" /\ ~crashed
    /\ ChatGoto(s, IF server.dead THEN "refused"
               ELSE IF server.started THEN "thread"
               ELSE IF server.initErr THEN "refused" ELSE "dial")
    /\ UNCHANGED <<server, wire, dialled, open, loop, rpc, failed, thread, turn, fin, evs, notes, closer, crashed>>

\* The dial succeeds: the connection becomes the current one and a read loop
\* starts.
Dials(s) ==
    /\ chatAt[s] = "dial" /\ dialled < MaxLinks /\ ~crashed
    /\ dialled' = dialled + 1 /\ wire' = dialled' /\ open' = open \cup {dialled'}
    /\ loop' = [loop EXCEPT ![dialled'] = dialled']
    /\ server' = [server EXCEPT !.started = TRUE] /\ ChatGoto(s, "init")
    /\ UNCHANGED <<rpc, failed, thread, turn, fin, evs, notes, closer, crashed>>

DialFails(s) ==
    /\ chatAt[s] = "dial" /\ ~crashed /\ ChatGoto(s, "refused")
    /\ UNCHANGED <<server, wire, dialled, open, loop, rpc, failed, thread, turn, fin, evs, notes, closer, crashed>>

\* rpc: refused when the server is closed or dead; else the frame is
\* written and the answer awaited.
SendsCall(s) ==
    /\ chatAt[s] \in {"init", "thread", "turn"} /\ rpc[s] = 0 /\ ~failed[s] /\ ~crashed
    /\ IF server.closed \/ server.dead
         THEN failed' = [failed EXCEPT ![s] = TRUE] /\ UNCHANGED <<rpc, turn>>
         ELSE /\ rpc' = [rpc EXCEPT ![s] = wire] /\ UNCHANGED failed
              /\ turn' = IF chatAt[s] = "turn" /\ wire \in open
                           THEN [turn EXCEPT ![s] = wire] ELSE turn
    /\ UNCHANGED <<server, wire, dialled, open, loop, chatAt, thread, fin, evs, notes, closer, crashed>>

Heard(c) == c \in open /\ \E l \in Links : loop[l] = c

\* A read loop goes round: it reads from what is the current connection then.
NextRound(c) == loop' = [l \in Links |-> IF loop[l] = c THEN wire ELSE loop[l]]

\* The answer of the server arrives and the caller goes on: initialised, the
\* thread registered, the turn running.
Answered(s) ==
    /\ rpc[s] # 0 /\ Heard(rpc[s]) /\ ~failed[s] /\ ~crashed
    /\ rpc' = [rpc EXCEPT ![s] = 0] /\ NextRound(rpc[s])
    /\ ChatGoto(s, CASE chatAt[s] = "init" -> "thread" [] chatAt[s] = "thread" -> "register" [] chatAt[s] = "turn" -> "running")
    /\ UNCHANGED <<server, wire, dialled, open, failed, thread, turn, fin, evs, notes, closer, crashed>>

Registers(s) ==
    /\ chatAt[s] = "register" /\ ~crashed
    /\ thread' = [thread EXCEPT ![s] = TRUE] /\ ChatGoto(s, "turn")
    /\ UNCHANGED <<server, wire, dialled, open, loop, rpc, failed, turn, fin, evs, notes, closer, crashed>>

\* An error answer, the end of the context or a timeout of 10 to 15 seconds.
CallFails(s) ==
    /\ rpc[s] # 0 /\ ~failed[s] /\ ~crashed
    /\ failed' = [failed EXCEPT ![s] = TRUE] /\ rpc' = [rpc EXCEPT ![s] = 0]
    /\ UNCHANGED <<server, wire, dialled, open, loop, chatAt, thread, turn, fin, evs, notes, closer, crashed>>

\* NewSession gives up: after a failed initialize the connection is closed,
\* after a failed turn the thread is archived and unregistered.
SessionStartFails(s) ==
    /\ failed[s] /\ chatAt[s] \in {"init", "thread", "turn"} /\ ~crashed
    /\ server' = IF chatAt[s] = "init" THEN [server EXCEPT !.initErr = TRUE] ELSE server
    /\ open' = IF chatAt[s] = "init" THEN open \ {wire} ELSE open
    /\ Unregister(s)
    /\ IF chatAt[s] = "init" THEN UNCHANGED <<fin, evs>> ELSE Finish(s, "failed") /\ CloseEvents(s)
    /\ ChatGoto(s, "refused")
    /\ UNCHANGED <<wire, dialled, loop, rpc, failed, notes, closer, crashed>>

-----------------------------------------------------------------------------
(* The read loop.                                                          *)

\* A notification: an event, dropped when the channel is full or closed.
\* Notifications of a thread that is not registered are dropped.
Notified(s) ==
    /\ turn[s] # 0 /\ Heard(turn[s]) /\ thread[s] /\ notes < MaxFrames /\ ~crashed
    /\ notes' = notes + 1 /\ NextRound(turn[s])
    /\ evs' = IF ~evs[s].closed /\ evs[s].n < EventCap THEN [evs EXCEPT ![s].n = @ + 1] ELSE evs
    /\ UNCHANGED <<server, wire, dialled, open, chatAt, rpc, failed, thread, turn, fin, closer, crashed>>

\* turn/completed: the session is finished and a goroutine cleans up.
TurnCompletes(s, outcome) ==
    /\ turn[s] # 0 /\ Heard(turn[s]) /\ thread[s] /\ ~crashed
    /\ turn' = [turn EXCEPT ![s] = 0] /\ NextRound(turn[s])
    /\ Finish(s, outcome) /\ closer' = [closer EXCEPT ![s] = TRUE]
    /\ UNCHANGED <<server, wire, dialled, open, chatAt, rpc, failed, thread, evs, notes, crashed>>

\* Mutant: the clean-up leaves the events channel open.
CleansUpHalf(s) ==
    /\ closer[s] /\ closer' = [closer EXCEPT ![s] = FALSE] /\ ~crashed
    /\ Unregister(s) /\ evs' = evs
    /\ UNCHANGED <<server, wire, dialled, open, loop, chatAt, rpc, failed, fin, notes, crashed>>

CleansUp(s) ==
    /\ closer[s] /\ closer' = [closer EXCEPT ![s] = FALSE] /\ ~crashed
    /\ Unregister(s) /\ CloseEvents(s)
    /\ UNCHANGED <<server, wire, dialled, open, loop, chatAt, rpc, failed, fin, notes, crashed>>

ConnDrops(c) ==
    /\ c \in open /\ open' = open \ {c} /\ ~crashed
    /\ UNCHANGED <<server, wire, dialled, loop, chatAt, rpc, failed, thread, turn, fin, evs, notes, closer, crashed>>

\* The read fails: onConnectionClosed, once, then the loop closes readDone.
LoopEnds(l) ==
    /\ loop[l] # 0 /\ loop[l] \notin open /\ ~crashed
    /\ loop' = [loop EXCEPT ![l] = 0]
    /\ server' = [server EXCEPT !.dead = TRUE, !.readDone = TRUE]
    /\ crashed' = server.readDone
    /\ IF server.dead THEN UNCHANGED <<failed, rpc, thread, turn, fin, evs>>
       ELSE /\ failed' = [s \in Chats |-> failed[s] \/ rpc[s] # 0] /\ rpc' = [s \in Chats |-> 0]
            /\ thread' = [s \in Chats |-> FALSE] /\ turn' = [s \in Chats |-> 0]
            /\ fin' = [s \in Chats |-> IF thread[s] /\ fin[s] = "none" THEN "failed" ELSE fin[s]]
            /\ evs' = [s \in Chats |-> IF thread[s] THEN [evs[s] EXCEPT !.closed = TRUE] ELSE evs[s]]
    /\ UNCHANGED <<wire, dialled, open, chatAt, notes, closer>>

\* Mutant: the shutdown closes readDone as well as the loop.
ShutdownMarksDone ==
    /\ ~server.closed /\ ~crashed
    /\ server' = [server EXCEPT !.closed = TRUE, !.readDone = TRUE]
    /\ open' = IF server.started THEN open \ {wire} ELSE open
    /\ UNCHANGED <<wire, dialled, loop, chatAt, rpc, failed, thread, turn, fin, evs, notes, closer, crashed>>

\* The worker shuts the backend down: the current connection is closed.
Shutdown ==
    /\ ~server.closed /\ ~crashed
    /\ server' = [server EXCEPT !.closed = TRUE]
    /\ open' = IF server.started THEN open \ {wire} ELSE open
    /\ UNCHANGED <<wire, dialled, loop, chatAt, rpc, failed, thread, turn, fin, evs, notes, closer, crashed>>

-----------------------------------------------------------------------------
(* Waiting for the end (runCore).                                          *)

\* Wait returns the outcome.
Waited(s) ==
    /\ chatAt[s] = "running" /\ fin[s] # "none" /\ ~crashed /\ ChatGoto(s, "draining")
    /\ UNCHANGED <<server, wire, dialled, open, loop, rpc, failed, thread, turn, fin, evs, notes, closer, crashed>>

\* The context of the task ends and so does Wait: the session is closed.
Cancel(s) ==
    /\ chatAt[s] = "running" /\ ~crashed /\ ChatGoto(s, "closing")
    /\ UNCHANGED <<server, wire, dialled, open, loop, rpc, failed, thread, turn, fin, evs, notes, closer, crashed>>

\* Close: interrupt, finish, archive, unregister, close the events.
Closes(s) ==
    /\ chatAt[s] = "closing" /\ ~crashed
    /\ Finish(s, "failed") /\ Unregister(s) /\ CloseEvents(s)
    /\ ChatGoto(s, "draining")
    /\ UNCHANGED <<server, wire, dialled, open, loop, rpc, failed, notes, closer, crashed>>

\* The pump forwards an event.
Pumps(s) ==
    /\ chatAt[s] \in {"running", "closing", "draining"} /\ evs[s].n > 0 /\ ~crashed
    /\ evs' = [evs EXCEPT ![s].n = @ - 1]
    /\ UNCHANGED <<server, wire, dialled, open, loop, chatAt, rpc, failed, thread, turn, fin, notes, closer, crashed>>

\* The pump has ended and Run returns; the executor closes the session.
Returns(s) ==
    /\ chatAt[s] = "draining" /\ evs[s].n = 0 /\ evs[s].closed /\ ~crashed
    /\ Finish(s, "failed") /\ Unregister(s) /\ ChatGoto(s, "done")
    /\ UNCHANGED <<server, wire, dialled, open, loop, rpc, failed, evs, notes, closer, crashed>>

CodexNext ==
    \/ Shutdown \/ (\E c \in Links : ConnDrops(c) \/ LoopEnds(c))
    \/ \E s \in Chats :
         \/ Ensure(s) \/ Dials(s) \/ DialFails(s) \/ SendsCall(s) \/ Answered(s) \/ Registers(s)
         \/ CallFails(s) \/ SessionStartFails(s) \/ Notified(s) \/ CleansUp(s)
         \/ Cancel(s) \/ Waited(s) \/ Closes(s) \/ Pumps(s) \/ Returns(s)
         \/ \E outcome \in {"ok", "failed"} : TurnCompletes(s, outcome)

\* Goroutines run on, calls time out, and the watchdog or the timeout of the
\* task cancels a run that does not end; nothing is assumed of the server.
CodexFairness ==
    /\ \A c \in Links : WF_codexVars(LoopEnds(c))
    /\ \A s \in Chats :
         /\ WF_codexVars(Ensure(s) \/ Dials(s) \/ DialFails(s) \/ SendsCall(s) \/ Registers(s) \/ SessionStartFails(s))
         /\ WF_codexVars(CallFails(s)) /\ WF_codexVars(CleansUp(s)) /\ WF_codexVars(Cancel(s))
         /\ WF_codexVars(Waited(s) \/ Closes(s) \/ Returns(s)) /\ WF_codexVars(Pumps(s))

CodexSpec == CodexInit /\ [][CodexNext]_codexVars /\ CodexFairness

-----------------------------------------------------------------------------
(* Properties.                                                             *)

\* The outcome of a session is decided once: a turn that completed stays ok
\* when the connection ends or the executor closes the session afterwards,
\* and a lost connection is not made good by a late turn (finishOnce).
OutcomeStays == [][\A s \in Chats : fin[s] # "none" => fin'[s] = fin[s]]_codexVars

\* Every session that was asked for ends, whatever the server does, also
\* when the events of the turn, the loss of the connection, the cancel and
\* the clean-up come in any order: nobody waits for a channel that no one
\* closes (runCore waits for the pump, the pump for the events channel).
ChatsEnd == \A s \in Chats : chatAt[s] # "idle" ~> (chatAt[s] \in Gone \/ crashed)

\* The worker panics on the second close of readDone only when two sessions
\* dialled at the same time, before the first of them had connected.
OnlyDoubleDialPanics == crashed => dialled > 1
=============================================================================
