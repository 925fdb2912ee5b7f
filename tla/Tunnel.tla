------------------------------- MODULE Tunnel -------------------------------
(***************************************************************************)
(* The reverse tunnel of a worker.  The worker dials the coordinator; the  *)
(* coordinator sends HTTP requests through the connection as frames with a *)
(* stream id and waits for the response frame with that id.  Each side has *)
(* an endpoint with a read loop and a keepalive; the coordinator registers *)
(* the newest endpoint of the worker and closes the one it replaces.       *)
(*                                                                         *)
(* A connection can be closed by a middlebox, which both sides notice, or  *)
(* cut: nothing arrives any more and only a ping that fails tells.         *)
(***************************************************************************)
EXTENDS Integers, FiniteSets

CONSTANTS
    MaxConns,    \* bound: connections the worker opens, one after the other
    Calls,       \* calls of Registry.Do
    MaxCuts      \* bound: faults of the network

ASSUME TunnelAssumption == MaxConns \in Nat /\ MaxCuts \in Nat

Conns  == 1..MaxConns
Sides  == {"coord", "worker"}
NoCall == "none"

VARIABLES
    ep,        \* endpoint per side and connection: "none", "open" or "failed"
    sock,      \* its socket is open
    isCut,     \* the connection carries nothing any more
    handler,   \* HandleWorkerTunnel of a connection: where it is
    tunnels,   \* the registry: connection of the worker's endpoint, 0 for none
    status,    \* workers.status
    streams,   \* stream ids that wait for a response, per connection
    next,      \* the id counter of each endpoint
    frames,    \* frames in flight
    held,      \* the request the worker has read and not yet queued
    serving,   \* requests its handlers work on
    call,      \* the calls: where they are, connection, id, buffered answer
    cuts       \* faults left

tunVars == <<ep, sock, isCut, handler, tunnels, status, streams, next, frames, held, serving, call, cuts>>

Frame    == [conn: Conns, id: 1..Cardinality(Calls), call: Calls]
NoFrame  == [conn |-> 0, id |-> 0, call |-> NoCall]
CallType == [at: {"idle", "found", "open", "waiting", "ok", "err"}, conn: 0..MaxConns,
             id: 0..Cardinality(Calls), answer: Calls \cup {NoCall}]

TunInit ==
    /\ ep = [s \in Sides |-> [c \in Conns |-> "none"]]
    /\ sock = [s \in Sides |-> [c \in Conns |-> FALSE]]
    /\ isCut = [c \in Conns |-> FALSE]
    /\ handler = [c \in Conns |-> "none"]
    /\ tunnels = 0 /\ status = "offline"
    /\ streams = [c \in Conns |-> {}] /\ next = [c \in Conns |-> 0]
    /\ frames = {} /\ held = NoFrame /\ serving = {}
    /\ call = [r \in Calls |-> [at |-> "idle", conn |-> 0, id |-> 0, answer |-> NoCall]]
    /\ cuts = MaxCuts

Other(s) == IF s = "coord" THEN "worker" ELSE "coord"

\* Mutant: the channels of waiting calls stay open.
FailEpKeepsStreams(s, c) ==
    /\ ep' = [ep EXCEPT ![s][c] = IF @ = "none" THEN @ ELSE "failed"]
    /\ streams' = streams
    /\ sock' = [sock EXCEPT ![s][c] = FALSE]

\* Endpoint.fail: the endpoint is closed and the channels of its streams too.
FailEp(s, c) ==
    /\ ep' = [ep EXCEPT ![s][c] = IF @ = "none" THEN @ ELSE "failed"]
    /\ streams' = IF s = "coord" THEN [streams EXCEPT ![c] = {}] ELSE streams
    /\ sock' = [sock EXCEPT ![s][c] = FALSE]

-----------------------------------------------------------------------------
(* Connections.                                                            *)

\* runWorkerTunnelLoop dials when its last connection has ended.
Dial(c) ==
    /\ ep["worker"][c] = "none"
    /\ held = NoFrame /\ \A d \in Conns : d < c => ep["worker"][d] = "failed"
    /\ ep' = [s \in Sides |-> [ep[s] EXCEPT ![c] = "open"]]
    /\ sock' = [s \in Sides |-> [sock[s] EXCEPT ![c] = TRUE]]
    /\ handler' = [handler EXCEPT ![c] = "accepted"]
    /\ UNCHANGED <<isCut, tunnels, status, streams, next, frames, held, serving, call, cuts>>

\* Registry.Register: the new endpoint replaces the old one, which is closed.
RegisterEp(c) ==
    /\ handler[c] = "accepted"
    /\ handler' = [handler EXCEPT ![c] = "registered"]
    /\ tunnels' = c
    /\ IF tunnels = 0 THEN UNCHANGED <<ep, sock, streams>> ELSE FailEp("coord", tunnels)
    /\ UNCHANGED <<isCut, status, next, frames, held, serving, call, cuts>>

MarkOnline(c) ==
    /\ handler[c] = "registered"
    /\ handler' = [handler EXCEPT ![c] = "running"]
    /\ status' = "online"
    /\ UNCHANGED <<ep, sock, isCut, tunnels, streams, next, frames, held, serving, call, cuts>>

\* conn.Read returns an error: closed here, or by the peer and that was heard.
ReadFails(s, c) ==
    /\ ep[s][c] # "none" /\ (s = "coord" => handler[c] = "running")
    /\ s = "worker" => ep[s][c] = "open"
    /\ ~sock[s][c] \/ (~isCut[c] /\ ~sock[Other(s)][c])
    /\ FailEp(s, c)
    /\ handler' = IF s = "coord" THEN [handler EXCEPT ![c] = "returned"] ELSE handler
    /\ UNCHANGED <<isCut, tunnels, status, next, frames, held, serving, call, cuts>>

\* A ping without pong fails the endpoint and closes the connection.
Keepalive(s, c) ==
    /\ ep[s][c] = "open" /\ isCut[c] /\ (s = "coord" => handler[c] = "running")
    /\ FailEp(s, c)
    /\ UNCHANGED <<isCut, handler, tunnels, status, next, frames, held, serving, call, cuts>>

\* Mutant: the entry is removed whatever endpoint it has.
RemoveEpBlind(c) ==
    /\ handler[c] = "returned"
    /\ tunnels' = 0
    /\ handler' = [handler EXCEPT ![c] = "removed"]
    /\ UNCHANGED <<ep, sock, isCut, status, streams, next, frames, held, serving, call, cuts>>

\* Registry.Remove takes the entry away only if it is this endpoint.
RemoveEp(c) ==
    /\ handler[c] = "returned"
    /\ tunnels' = IF tunnels = c THEN 0 ELSE tunnels
    /\ handler' = [handler EXCEPT ![c] = IF tunnels = c THEN "removed" ELSE "done"]
    /\ UNCHANGED <<ep, sock, isCut, status, streams, next, frames, held, serving, call, cuts>>

MarkOffline(c) ==
    /\ handler[c] = "removed"
    /\ handler' = [handler EXCEPT ![c] = "done"]
    /\ status' = "offline"
    /\ UNCHANGED <<ep, sock, isCut, tunnels, streams, next, frames, held, serving, call, cuts>>

\* The network: frames under way are lost with the connection.
NetFails(c, silently) ==
    /\ cuts > 0 /\ ~isCut[c] /\ \E s \in Sides : sock[s][c]
    /\ cuts' = cuts - 1
    /\ isCut' = [isCut EXCEPT ![c] = silently]
    /\ sock' = IF silently THEN sock ELSE [s \in Sides |-> [sock[s] EXCEPT ![c] = FALSE]]
    /\ frames' = {f \in frames : f.conn # c}
    /\ UNCHANGED <<ep, handler, tunnels, status, streams, next, held, serving, call>>

-----------------------------------------------------------------------------
(* A call through the tunnel.                                              *)

EndCall(r, res) == call' = [call EXCEPT ![r].at = res]
CallOnly == UNCHANGED <<ep, sock, isCut, handler, tunnels, status, held, serving, cuts>>

\* Registry.Do takes the endpoint that is registered now.
Lookup(r) ==
    /\ call[r].at = "idle"
    /\ IF tunnels = 0 THEN EndCall(r, "err")
       ELSE call' = [call EXCEPT ![r] = [call[r] EXCEPT !.at = "found", !.conn = tunnels]]
    /\ CallOnly /\ UNCHANGED <<streams, next, frames>>

\* Endpoint.Do enters its channel under a new id, unless fail was first.
OpenStream(r) ==
    LET c == call[r].conn IN
    /\ call[r].at = "found"
    /\ next' = [next EXCEPT ![c] = @ + 1]
    /\ IF ep["coord"][c] = "failed" THEN EndCall(r, "err") /\ UNCHANGED streams
       ELSE /\ call' = [call EXCEPT ![r] = [call[r] EXCEPT !.at = "open", !.id = next[c] + 1]]
            /\ streams' = [streams EXCEPT ![c] = @ \cup {next[c] + 1}]
    /\ CallOnly /\ UNCHANGED frames

RemoveStream(r) == streams' = [streams EXCEPT ![call[r].conn] = @ \ {call[r].id}]

\* send: what is written to a connection that is cut goes nowhere.
SendRequest(r) ==
    LET c == call[r].conn IN
    /\ call[r].at = "open"
    /\ IF ep["coord"][c] = "failed" \/ ~sock["coord"][c]
       THEN EndCall(r, "err") /\ RemoveStream(r) /\ UNCHANGED frames
       ELSE /\ EndCall(r, "waiting")
            /\ frames' = IF isCut[c] THEN frames
                         ELSE frames \cup {[dir |-> "request", frame |-> [conn |-> c, id |-> call[r].id, call |-> r], conn |-> c]}
            /\ UNCHANGED streams
    /\ CallOnly /\ UNCHANGED next

\* The channel has the response, or was closed without one.
Receive(r) ==
    /\ call[r].at = "waiting"
    /\ \/ call[r].answer # NoCall /\ EndCall(r, "ok")
       \/ call[r].answer = NoCall /\ call[r].id \notin streams[call[r].conn] /\ EndCall(r, "err")
    /\ CallOnly /\ UNCHANGED <<streams, next, frames>>

\* The caller's context ends.  The close frame it sends has no effect: the
\* worker has no stream of that id, and its handler goes on.
GiveUp(r) ==
    /\ call[r].at = "waiting"
    /\ EndCall(r, "err") /\ RemoveStream(r)
    /\ CallOnly /\ UNCHANGED <<next, frames>>

-----------------------------------------------------------------------------
(* The worker's and the coordinator's read loops.                          *)

WorkerReads(f) ==
    /\ f \in frames /\ f.dir = "request" /\ held = NoFrame
    /\ ep["worker"][f.conn] = "open" /\ sock["worker"][f.conn]
    /\ frames' = frames \ {f} /\ held' = f.frame
    /\ UNCHANGED <<ep, sock, isCut, handler, tunnels, status, streams, next, serving, call, cuts>>

\* The request goes into the channel and a handler starts.  When the
\* keepalive has closed the channel, the send panics and the process dies
\* with all its handlers.
WorkerQueues ==
    /\ held # NoFrame
    /\ held' = NoFrame
    /\ IF ep["worker"][held.conn] = "open"
       THEN serving' = serving \cup {held} /\ UNCHANGED <<ep, sock>>
       ELSE /\ serving' = {}
            /\ ep' = [ep EXCEPT !["worker"] = [c \in Conns |-> IF @[c] = "none" THEN "none" ELSE "failed"]]
            /\ sock' = [sock EXCEPT !["worker"] = [c \in Conns |-> FALSE]]
    /\ UNCHANGED <<isCut, handler, tunnels, status, streams, next, frames, call, cuts>>

\* Mutant: the answer goes out on the worker's newest connection.
ReplyConnNewest(f) == CHOOSE c \in Conns : \A d \in Conns : ep["worker"][d] # "none" => d <= c

\* serveOne answers on the endpoint that the request came from.
ReplyConn(f) == f.conn

Reply(f) ==
    LET c == ReplyConn(f) IN
    /\ f \in serving
    /\ serving' = serving \ {f}
    /\ frames' = IF ep["worker"][c] = "open" /\ sock["worker"][c] /\ ~isCut[c]
                 THEN frames \cup {[dir |-> "response", frame |-> f, conn |-> c]} ELSE frames
    /\ UNCHANGED <<ep, sock, isCut, handler, tunnels, status, streams, next, held, call, cuts>>

\* The stream of the id is taken out of the map and gets the response; a
\* response that nobody waits for is dropped.
CoordReads(f) ==
    /\ f \in frames /\ f.dir = "response" /\ handler[f.conn] = "running" /\ sock["coord"][f.conn]
    /\ frames' = frames \ {f}
    /\ streams' = [streams EXCEPT ![f.conn] = @ \ {f.frame.id}]
    /\ call' = [r \in Calls |->
                  IF call[r].conn = f.conn /\ call[r].id = f.frame.id /\ f.frame.id \in streams[f.conn]
                  THEN [call[r] EXCEPT !.answer = f.frame.call] ELSE call[r]]
    /\ UNCHANGED <<ep, sock, isCut, handler, tunnels, status, next, held, serving, cuts>>

-----------------------------------------------------------------------------
Frames == [dir: {"request", "response"}, frame: Frame, conn: Conns]

TunNext ==
    \/ \E c \in Conns : Dial(c) \/ RegisterEp(c) \/ MarkOnline(c) \/ RemoveEp(c) \/ MarkOffline(c)
    \/ \E c \in Conns, s \in Sides : ReadFails(s, c) \/ Keepalive(s, c)
    \/ \E c \in Conns, b \in BOOLEAN : NetFails(c, b)
    \/ \E r \in Calls : Lookup(r) \/ OpenStream(r) \/ SendRequest(r) \/ Receive(r) \/ GiveUp(r)
    \/ \E f \in frames : WorkerReads(f) \/ CoordReads(f)
    \/ WorkerQueues
    \/ \E f \in serving : Reply(f)

\* Goroutines go on and handlers answer; no caller need give up, no worker
\* need dial.
Endpoints(c) == RegisterEp(c) \/ MarkOnline(c) \/ \E s \in Sides : ReadFails(s, c) \/ Keepalive(s, c)
Carries == WorkerQueues \/ (\E f \in frames : WorkerReads(f) \/ CoordReads(f)) \/ (\E f \in serving : Reply(f))
Works(r) == OpenStream(r) \/ SendRequest(r) \/ Receive(r)

TunFairness ==
    /\ \A c \in Conns : WF_tunVars(Endpoints(c))
    /\ WF_tunVars(Carries)
    /\ \A r \in Calls : WF_tunVars(Works(r))

TunSpec == TunInit /\ [][TunNext]_tunVars /\ TunFairness

-----------------------------------------------------------------------------
TunTypeOK ==
    /\ ep \in [Sides -> [Conns -> {"none", "open", "failed"}]]
    /\ sock \in [Sides -> [Conns -> BOOLEAN]] /\ isCut \in [Conns -> BOOLEAN]
    /\ handler \in [Conns -> {"none", "accepted", "registered", "running", "returned", "removed", "done"}]
    /\ tunnels \in 0..MaxConns /\ status \in {"online", "offline"}
    /\ streams \in [Conns -> SUBSET (1..Cardinality(Calls))]
    /\ next \in [Conns -> 0..Cardinality(Calls)]
    /\ frames \subseteq Frames /\ serving \subseteq Frame /\ held \in Frame \cup {NoFrame}
    /\ call \in [Calls -> CallType]

\* A call that returns a response returns the one to its own request, though
\* every connection counts its ids from 1, calls give up and their ids' late
\* responses arrive, and handlers outlive the connection they answer to.
AnswersMatch == \A r \in Calls : call[r].at = "ok" => call[r].answer = r

\* An endpoint that the coordinator reads from is the one it sends through:
\* the end of a replaced connection never takes away the tunnel that
\* replaced it.
OpenTunnelIsUsed == \A c \in Conns : handler[c] = "running" /\ ep["coord"][c] = "open" => tunnels = c

\* A call without deadline ends: a connection that is cut under it is found
\* out by the keepalive, and a panic of the worker by the closed connection.
CallsEnd == \A r \in Calls : call[r].at # "idle" ~> (call[r].at \in {"ok", "err"})
=============================================================================
