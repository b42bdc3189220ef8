------------------------------ MODULE TunnelStream ------------------------------
(***************************************************************************)
(* The data plane: the calls that share one tunnel.                        *)
(*                                                                         *)
(* Gateway side (internal/gateway): session.request registers a response   *)
(* channel under a stream id, writes the request frame and leaves a        *)
(* watcher behind that turns the end of the caller's context into a cancel *)
(* frame; session.readLoop hands every response frame to the channel of    *)
(* its stream id, and drops it when that channel is full.  Three callers   *)
(* wait on the channel in three ways: handleMCP ("mcp"), invokeTool        *)
(* ("invoke") and refreshDiscovery ("refresh").                            *)
(*                                                                         *)
(* Connect side (internal/connect): serveTunnel starts one goroutine per   *)
(* request frame.  The goroutine itself enters its cancel function in      *)
(* active, runs the connector and writes the response frames.              *)
(*                                                                         *)
(* The WebSocket is a pair of FIFO queues that break together.             *)
(***************************************************************************)
EXTENDS Integers, Sequences, Functions

CONSTANTS
  Requests,            \* calls of session.request on this tunnel
  Kind,                \* which caller makes the call
  StreamIDs,           \* clock readings a stream id can be formatted from
  ChanCap,             \* capacity of a response channel (8 in the code)
  MaxFrames,           \* bound: frames the upstream answers one call with
  DistinctTimestamps,  \* no two calls read the same nanosecond
  NoReq, NoID          \* null values

ASSUME TunnelAssumption ==
  /\ Kind \in [Requests -> {"mcp", "invoke", "refresh"}]
  /\ ChanCap \in Nat \ {0}
  /\ MaxFrames \in Nat \ {0}
  /\ DistinctTimestamps \in BOOLEAN
  /\ NoReq \notin Requests
  /\ NoID \notin StreamIDs

VARIABLES
  pc,          \* where each caller stands
  id,          \* its stream id
  ctxDone,     \* its context is over: client gone, deadline, or returned
  watcher,     \* the goroutine session.request leaves behind
  chan,        \* its response channel
  chanClosed,  \* that channel was closed by readLoop's deferred function
  got,         \* frames the caller has received
  outcome,     \* how the call ended
  pending,     \* session.pending: stream id -> call
  closed,      \* readLoop has returned
  routed,      \* the session is in Gateway.sessions, its conn not yet closed
  up,          \* the connection carries frames
  downlink,    \* frames on the way to the daemon
  uplink,      \* frames on the way to the gateway
  work,        \* the daemon's goroutine for the call
  active,      \* serveTunnel's active: stream id -> call
  cancelled,   \* the goroutine's requestCtx was cancelled by a cancel frame
  emitted      \* frames the goroutine has produced

gatewayVars == <<pc, id, ctxDone, watcher, chan, chanClosed, got, outcome, pending>>
sessionVars == <<closed, routed>>
daemonVars == <<work, active, cancelled, emitted>>
vars == <<gatewayVars, sessionVars, up, downlink, uplink, daemonVars>>

\* A response frame.  src and n are not on the wire: they say which call the
\* upstream answered and the position of the frame in that answer.
Frame == [id : StreamIDs, src : Requests, n : Nat, eos : BOOLEAN, err : BOOLEAN]

\* A frame to the daemon.  req stands for the payload of a request.
Control == [type : {"request", "cancel"}, id : StreamIDs, req : Requests]

TypeOK ==
  /\ pc \in [Requests -> {"idle", "found", "registered", "waiting", "done"}]
  /\ id \in [Requests -> StreamIDs \cup {NoID}]
  /\ ctxDone \in [Requests -> BOOLEAN]
  /\ watcher \in [Requests -> {"none", "watching", "sent", "gone"}]
  /\ chan \in [Requests -> Seq(Frame)]
  /\ chanClosed \in [Requests -> BOOLEAN]
  /\ got \in [Requests -> Seq(Frame)]
  /\ outcome \in [Requests -> {"none", "unrouted", "send_failed", "complete",
                               "answer", "error", "tunnel_closed", "ctx_done"}]
  /\ pending \in [StreamIDs -> Requests \cup {NoReq}]
  /\ closed \in BOOLEAN
  /\ routed \in BOOLEAN
  /\ up \in BOOLEAN
  /\ downlink \in Seq(Control)
  /\ uplink \in Seq(Frame)
  /\ work \in [Requests -> {"none", "spawned", "active", "ended"}]
  /\ active \in [StreamIDs -> Requests \cup {NoReq}]
  /\ cancelled \in [Requests -> BOOLEAN]
  /\ emitted \in [Requests -> Nat]

Init ==
  /\ pc = [r \in Requests |-> "idle"]
  /\ id = [r \in Requests |-> NoID]
  /\ ctxDone = [r \in Requests |-> FALSE]
  /\ watcher = [r \in Requests |-> "none"]
  /\ chan = [r \in Requests |-> <<>>]
  /\ chanClosed = [r \in Requests |-> FALSE]
  /\ got = [r \in Requests |-> <<>>]
  /\ outcome = [r \in Requests |-> "none"]
  /\ pending = [i \in StreamIDs |-> NoReq]
  /\ closed = FALSE
  /\ routed = TRUE
  /\ up = TRUE
  /\ downlink = <<>>
  /\ uplink = <<>>
  /\ work = [r \in Requests |-> "none"]
  /\ active = [i \in StreamIDs |-> NoReq]
  /\ cancelled = [r \in Requests |-> FALSE]
  /\ emitted = [r \in Requests |-> 0]
-----------------------------------------------------------------------------
(***************************************************************************)
(* The callers.                                                            *)
(***************************************************************************)

\* The caller looks its session up in Gateway.sessions and keeps the pointer.
Lookup(r) ==
  /\ pc[r] = "idle"
  /\ pc' = [pc EXCEPT ![r] = IF routed THEN "found" ELSE "done"]
  /\ outcome' = [outcome EXCEPT ![r] = IF routed THEN @ ELSE "unrouted"]
  /\ UNCHANGED <<id, ctxDone, watcher, chan, chanClosed, got, pending,
                 sessionVars, up, downlink, uplink, daemonVars>>

MutStreamIDFor(r) == StreamIDs

MutStreamIDUnset(r) == {NoID}

\* time.Now().Format("20060102150405.000000000"): a new reading each time, or
\* one that another call has read as well.
StreamIDFor(r) == {i \in StreamIDs : DistinctTimestamps => \A q \in Requests : id[q] # i}

\* session.request, first half: the channel is registered under the id.
Register(r) ==
  /\ pc[r] = "found"
  /\ \E i \in StreamIDFor(r) :
       /\ id' = [id EXCEPT ![r] = i]
       /\ pending' = [pending EXCEPT ![i] = r]
  /\ pc' = [pc EXCEPT ![r] = "registered"]
  /\ UNCHANGED <<ctxDone, watcher, chan, chanClosed, got, outcome,
                 sessionVars, up, downlink, uplink, daemonVars>>

\* A frame written to a connection whose peer is gone is lost.
Carry(f) == IF up THEN Append(downlink, f) ELSE downlink

\* session.request, second half: the frame is written and the watcher started.
\* A write to a connection the peer has left can still succeed; one to a
\* connection this side has closed cannot.
SendOK(r) ==
  /\ pc[r] = "registered"
  /\ up \/ routed
  /\ downlink' = Carry([type |-> "request", id |-> id[r], req |-> r])
  /\ watcher' = [watcher EXCEPT ![r] = "watching"]
  /\ pc' = [pc EXCEPT ![r] = "waiting"]
  /\ UNCHANGED <<id, ctxDone, chan, chanClosed, got, outcome, pending,
                 sessionVars, up, uplink, daemonVars>>

MutUnregister(r) == pending

\* delete(s.pending, f.StreamID): by key, whoever's channel is there.
Unregister(r) == [pending EXCEPT ![id[r]] = NoReq]

SendFails(r) ==
  /\ pc[r] = "registered"
  /\ ~up
  /\ pending' = Unregister(r)
  /\ pc' = [pc EXCEPT ![r] = "done"]
  /\ outcome' = [outcome EXCEPT ![r] = "send_failed"]
  /\ ctxDone' = [ctxDone EXCEPT ![r] = TRUE]
  /\ UNCHANGED <<id, watcher, chan, chanClosed, got,
                 sessionVars, up, downlink, uplink, daemonVars>>

\* The caller returns: its deferred cleanup and cancel run.
Return(r, o) ==
  /\ pc' = [pc EXCEPT ![r] = "done"]
  /\ outcome' = [outcome EXCEPT ![r] = o]
  /\ pending' = Unregister(r)
  /\ ctxDone' = [ctxDone EXCEPT ![r] = TRUE]

\* How a caller that has taken frame f ends, or "none" when it waits for more:
\* handleMCP forwards frames up to the end of the stream, the two others take
\* one frame for the whole answer.
Verdict(r, f) ==
  IF Kind[r] = "mcp" THEN (IF f.eos THEN "complete" ELSE "none")
                     ELSE (IF f.err THEN "error" ELSE "answer")

ReceiveFrame(r) ==
  /\ pc[r] = "waiting"
  /\ chan[r] # <<>>
  /\ got' = [got EXCEPT ![r] = Append(@, Head(chan[r]))]
  /\ chan' = [chan EXCEPT ![r] = Tail(@)]
  /\ LET v == Verdict(r, Head(chan[r])) IN
       IF v = "none" THEN UNCHANGED <<pc, outcome, pending, ctxDone>> ELSE Return(r, v)
  /\ UNCHANGED <<id, watcher, chanClosed, sessionVars, up, downlink, uplink, daemonVars>>

\* A receive from the closed, drained channel.  handleMCP and refreshDiscovery
\* look at the second result of the receive; invokeTool does not, and takes the
\* zero frame, whose Error is empty, for an answer.
ReceiveClosed(r) ==
  /\ pc[r] = "waiting"
  /\ chan[r] = <<>>
  /\ chanClosed[r]
  /\ Return(r, IF Kind[r] = "invoke" THEN "answer" ELSE "tunnel_closed")
  /\ UNCHANGED <<id, watcher, chan, chanClosed, got,
                 sessionVars, up, downlink, uplink, daemonVars>>

MutReceiveCtxDone(r) == FALSE /\ UNCHANGED vars

\* case <-ctx.Done(), which only handleMCP's select has.
ReceiveCtxDone(r) ==
  /\ pc[r] = "waiting"
  /\ Kind[r] = "mcp"
  /\ ctxDone[r]
  /\ Return(r, "ctx_done")
  /\ UNCHANGED <<id, watcher, chan, chanClosed, got,
                 sessionVars, up, downlink, uplink, daemonVars>>

Receive(r) == ReceiveFrame(r) \/ ReceiveClosed(r) \/ ReceiveCtxDone(r)

\* The context ends under the caller: its five minutes (handleMCP) or thirty
\* seconds (refreshDiscovery) are over, or the HTTP client has gone.
ContextEnds(r) ==
  /\ pc[r] \in {"registered", "waiting"}
  /\ ~ctxDone[r]
  /\ ctxDone' = [ctxDone EXCEPT ![r] = TRUE]
  /\ UNCHANGED <<pc, id, watcher, chan, chanClosed, got, outcome, pending,
                 sessionVars, up, downlink, uplink, daemonVars>>

MutWatcherFires(r) == TRUE

WatcherFires(r) == ctxDone[r]

\* The watcher's select: the cancel frame, or nothing once the session closed.
WatcherCancels(r) ==
  /\ watcher[r] = "watching"
  /\ WatcherFires(r)
  /\ watcher' = [watcher EXCEPT ![r] = "sent"]
  /\ downlink' = Carry([type |-> "cancel", id |-> id[r], req |-> r])
  /\ UNCHANGED <<pc, id, ctxDone, chan, chanClosed, got, outcome, pending,
                 sessionVars, up, uplink, daemonVars>>

WatcherLeaves(r) ==
  /\ watcher[r] = "watching"
  /\ closed
  /\ watcher' = [watcher EXCEPT ![r] = "gone"]
  /\ UNCHANGED <<pc, id, ctxDone, chan, chanClosed, got, outcome, pending,
                 sessionVars, up, downlink, uplink, daemonVars>>
-----------------------------------------------------------------------------
(***************************************************************************)
(* The gateway's read loop and the end of the tunnel.                      *)
(***************************************************************************)

MutOfferNewest(ch, f) == IF Len(ch) < ChanCap THEN Append(ch, f) ELSE Append(Tail(ch), f)

MutOfferLast(ch, f) ==
  IF f.eos THEN <<f>> ELSE IF Len(ch) < ChanCap THEN Append(ch, f) ELSE ch

MutOfferFront(ch, f) == IF Len(ch) < ChanCap THEN <<f>> \o ch ELSE ch

\* select { case ch <- f: default: }
Offer(ch, f) == IF Len(ch) < ChanCap THEN Append(ch, f) ELSE ch

\* One iteration of readLoop for a response frame.
GatewayRead ==
  /\ ~closed
  /\ uplink # <<>>
  /\ LET f == Head(uplink)
         r == pending[f.id]
     IN chan' = IF r = NoReq THEN chan ELSE [chan EXCEPT ![r] = Offer(@, f)]
  /\ uplink' = Tail(uplink)
  /\ UNCHANGED <<pc, id, ctxDone, watcher, chanClosed, got, outcome, pending,
                 sessionVars, up, downlink, daemonVars>>

\* The connection breaks, or the daemon closes it.  What was in flight is lost:
\* frames that still arrive are read before the break.
ConnLost ==
  /\ up
  /\ up' = FALSE
  /\ downlink' = <<>>
  /\ uplink' = <<>>
  /\ UNCHANGED <<gatewayVars, sessionVars, daemonVars>>

MutWoken == [r \in Requests |-> chanClosed[r]]

\* for _, ch := range s.pending { close(ch) }
Woken == [r \in Requests |-> chanClosed[r] \/ (\E i \in StreamIDs : pending[i] = r)]

\* readLoop's deferred function, after the read error.
ReadLoopExit ==
  /\ ~up
  /\ ~closed
  /\ closed' = TRUE
  /\ chanClosed' = Woken
  /\ pending' = [i \in StreamIDs |-> NoReq]
  /\ UNCHANGED <<pc, id, ctxDone, watcher, chan, got, outcome,
                 routed, up, downlink, uplink, daemonVars>>

\* The rest of handleTunnel: the routes go, and conn is closed on this side.
Unroute ==
  /\ closed
  /\ routed
  /\ routed' = FALSE
  /\ UNCHANGED <<gatewayVars, closed, up, downlink, uplink, daemonVars>>
-----------------------------------------------------------------------------
(***************************************************************************)
(* The daemon.                                                             *)
(***************************************************************************)

\* A response frame is written to the tunnel, or fails with it.
Reply(r, eos, err) ==
  uplink' = IF up THEN Append(uplink, [id |-> id[r], src |-> r, n |-> emitted[r] + 1,
                                       eos |-> eos, err |-> err])
                  ELSE uplink

\* A request frame for a running component starts a goroutine.
DaemonSpawns ==
  /\ up
  /\ downlink # <<>>
  /\ Head(downlink).type = "request"
  /\ work' = [work EXCEPT ![Head(downlink).req] = "spawned"]
  /\ downlink' = Tail(downlink)
  /\ UNCHANGED <<gatewayVars, sessionVars, up, uplink, active, cancelled, emitted>>

\* A request frame for a component that has no runtime any more: 404.
DaemonRefuses ==
  /\ up
  /\ downlink # <<>>
  /\ Head(downlink).type = "request"
  /\ LET r == Head(downlink).req IN
       /\ Reply(r, TRUE, TRUE)
       /\ emitted' = [emitted EXCEPT ![r] = @ + 1]
       /\ work' = [work EXCEPT ![r] = "ended"]
  /\ downlink' = Tail(downlink)
  /\ UNCHANGED <<gatewayVars, sessionVars, up, active, cancelled>>

\* A cancel frame ends the call entered in active under its id, if there is one.
DaemonCancels ==
  /\ up
  /\ downlink # <<>>
  /\ Head(downlink).type = "cancel"
  /\ LET i == Head(downlink).id
         r == active[i]
     IN IF r = NoReq THEN UNCHANGED <<active, cancelled>>
        ELSE /\ cancelled' = [cancelled EXCEPT ![r] = TRUE]
             /\ active' = [active EXCEPT ![i] = NoReq]
  /\ downlink' = Tail(downlink)
  /\ UNCHANGED <<gatewayVars, sessionVars, up, uplink, work, emitted>>

\* The goroutine's first lines: its cancel function goes into active.
WorkStarts(r) ==
  /\ work[r] = "spawned"
  /\ work' = [work EXCEPT ![r] = "active"]
  /\ active' = [active EXCEPT ![id[r]] = r]
  /\ UNCHANGED <<gatewayVars, sessionVars, up, downlink, uplink, cancelled, emitted>>

\* HandleStream emits a chunk of the body.  The tunnel being gone fails it.
EmitChunk(r) ==
  /\ work[r] = "active"
  /\ up
  /\ emitted[r] + 1 < MaxFrames
  /\ Reply(r, FALSE, FALSE)
  /\ emitted' = [emitted EXCEPT ![r] = @ + 1]
  /\ UNCHANGED <<gatewayVars, sessionVars, up, downlink, work, active, cancelled>>

\* The last frame, of an answer or of an error, and the deferred delete.
EmitLast(r, err) ==
  /\ work[r] = "active"
  /\ Reply(r, TRUE, err)
  /\ emitted' = [emitted EXCEPT ![r] = @ + 1]
  /\ work' = [work EXCEPT ![r] = "ended"]
  /\ active' = [active EXCEPT ![id[r]] = NoReq]
  /\ UNCHANGED <<gatewayVars, sessionVars, up, downlink, cancelled>>
-----------------------------------------------------------------------------
Caller(r) == Lookup(r) \/ Register(r) \/ SendOK(r) \/ SendFails(r) \/ Receive(r)

Next ==
  \/ \E r \in Requests :
       \/ Caller(r)
       \/ ContextEnds(r)
       \/ WatcherCancels(r)
       \/ WatcherLeaves(r)
       \/ WorkStarts(r)
       \/ EmitChunk(r)
       \/ \E err \in BOOLEAN : EmitLast(r, err)
  \/ GatewayRead
  \/ ConnLost
  \/ ReadLoopExit
  \/ Unroute
  \/ DaemonSpawns
  \/ DaemonRefuses
  \/ DaemonCancels

Spec == Init /\ [][Next]_vars

(***************************************************************************)
(* Goroutines that can run do run, and a deadline that was set passes.     *)
(* Nothing is assumed of the upstream, of the network or of HTTP clients,  *)
(* nor of the daemon.                                                      *)
(***************************************************************************)
Fairness ==
  /\ \A r \in Requests : WF_vars(Caller(r))
  /\ \A r \in Requests : Kind[r] # "invoke" => WF_vars(ContextEnds(r))
  /\ WF_vars(GatewayRead)
  /\ WF_vars(ReadLoopExit)

FairSpec == Spec /\ Fairness
-----------------------------------------------------------------------------
(***************************************************************************)
(* Properties.                                                             *)
(***************************************************************************)

\* A caller only ever receives frames that the upstream produced for its own
\* request, although all calls share one connection and one pending map
\* (session.readLoop, session.request): streams do not cross.
StreamIsolation ==
  \A r \in Requests : \A f \in Range(got[r]) : f.src = r

\* What a caller receives is in the order the connector emitted it, and nothing
\* comes twice, whatever readLoop dropped in between.
OrderedDelivery ==
  \A r \in Requests : \A j, k \in DOMAIN got[r] : j < k => got[r][j].n < got[r][k].n

\* The first frame a caller receives is the first one the connector emitted, the
\* one that carries status and headers: handleMCP writes the response header
\* from whatever frame comes first, so readLoop must never drop that one.
StatusFrameFirst ==
  \A r \in Requests : got[r] # <<>> => got[r][1].n = 1

\* session.pending holds only calls still in flight: each way a call can end
\* (a failed write, the last frame, a closed tunnel, a deadline) takes its
\* entry out, so the map cannot grow with the number of calls served.
PendingOnlyInFlight ==
  \A i \in StreamIDs :
    pending[i] # NoReq => pc[pending[i]] \in {"registered", "waiting"}

\* The daemon cancels an upstream call only when the context of the caller it
\* belongs to is over: a cancel frame, which can arrive late and out of step
\* with the calls it overtakes, never stops a call somebody still waits for.
CancelOnlyAbandoned ==
  \A r \in Requests : cancelled[r] => ctxDone[r]

\* handleMCP always answers its HTTP client: whatever the upstream, the daemon
\* and the tunnel do, a call that waits comes to an end.
MCPReturns ==
  \A r \in Requests : Kind[r] = "mcp" => (pc[r] = "waiting" ~> pc[r] = "done")

\* When the tunnel is lost under a call of any kind that waits for its answer,
\* readLoop's deferred function wakes it and the call ends.
TunnelLossWakesWaiters ==
  \A r \in Requests : (pc[r] = "waiting" /\ ~up /\ ~closed) ~> pc[r] = "done"

\* A response that handleMCP forwarded up to the end of the stream has every
\* frame of the answer, if the answer fits in the response channel: frames are
\* lost to a slow client only, and only from a longer answer on.
ShortAnswerComplete ==
  \A r \in Requests : outcome[r] = "complete" /\ emitted[r] <= ChanCap =>
    Len(got[r]) = emitted[r]

\* Once the daemon has read the cancel frame of a call, the upstream work for it
\* has ended or its context is cancelled.
CancelStopsUpstream ==
  \A r \in Requests :
    /\ up
    /\ watcher[r] = "sent"
    /\ \A f \in Range(downlink) : f.req # r
    => work[r] = "ended" \/ cancelled[r]

\* The abstract promise, read off this state.
RS == INSTANCE ResponseStream WITH
  produced <- emitted,
  delivered <- [r \in Requests |->
                  [k \in 1..Len(got[r]) |-> <<got[r][k].src, got[r][k].n>>]],
  ended <- [r \in Requests |-> pc[r] = "done"]

\* Session, channels, daemon and connection together keep the promise made by
\* ResponseStream: each step of theirs is one of its steps or invisible to it.
ImplementsResponseStream == RS!Spec
=============================================================================
