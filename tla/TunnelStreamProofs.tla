-------------------------- MODULE TunnelStreamProofs --------------------------
(***************************************************************************)
(* The data plane's types, and that streams do not cross, for any number   *)
(* of calls, any channel capacity and answers of any length.               *)
(***************************************************************************)
EXTENDS TunnelStream, SequenceTheorems, TLAPS

-----------------------------------------------------------------------------
(***************************************************************************)
(* Queues.                                                                 *)
(***************************************************************************)

\* Appending to a queue (a write to the connection, a send to a channel) adds
\* that one element and keeps the queue's type.
LEMMA AppendRange ==
  ASSUME NEW S, NEW s \in Seq(S), NEW e \in S
  PROVE  /\ Append(s, e) \in Seq(S)
         /\ Range(Append(s, e)) \subseteq Range(s) \cup {e}
<1>1. /\ Append(s, e) \in Seq(S)
      /\ Len(Append(s, e)) = Len(s) + 1
      /\ \A k \in 1..Len(s) : Append(s, e)[k] = s[k]
      /\ Append(s, e)[Len(s) + 1] = e
  BY AppendProperties
<1>2. /\ Len(s) \in Nat
      /\ DOMAIN s = 1..Len(s)
      /\ DOMAIN Append(s, e) = 1..(Len(s) + 1)
  BY <1>1, LenProperties
<1>3. \A k \in 1..(Len(s) + 1) : k \in 1..Len(s) \/ k = Len(s) + 1
  BY <1>2
<1> QED
  BY <1>1, <1>2, <1>3 DEF Range

\* Taking the head off a nonempty queue (a read, a receive) yields one of its
\* elements and leaves others of them.
LEMMA TailRange ==
  ASSUME NEW S, NEW s \in Seq(S), s # <<>>
  PROVE  /\ Head(s) \in S
         /\ Head(s) \in Range(s)
         /\ Tail(s) \in Seq(S)
         /\ Range(Tail(s)) \subseteq Range(s)
<1>1. /\ Head(s) \in S
      /\ Tail(s) \in Seq(S)
      /\ Len(Tail(s)) = Len(s) - 1
      /\ \A k \in 1..Len(Tail(s)) : Tail(s)[k] = s[k + 1]
  BY HeadTailProperties
<1>2. /\ Len(s) \in Nat \ {0}
      /\ DOMAIN s = 1..Len(s)
      /\ DOMAIN Tail(s) = 1..(Len(s) - 1)
  BY <1>1, LenProperties, EmptySeq
<1>3. Head(s) = s[1] /\ 1 \in DOMAIN s
  BY <1>2
<1>4. \A k \in 1..(Len(s) - 1) : k + 1 \in 1..Len(s)
  BY <1>2
<1> QED
  BY <1>1, <1>2, <1>3, <1>4 DEF Range
-----------------------------------------------------------------------------
(***************************************************************************)
(* The inductive invariant.                                                *)
(***************************************************************************)

\* A call has a stream id from session.request on, and only such calls have a
\* watcher or work at the daemon.
IdAssigned ==
  \A r \in Requests :
    /\ pc[r] \in {"idle", "found"} => id[r] = NoID
    /\ pc[r] \in {"registered", "waiting"} => id[r] \in StreamIDs
    /\ watcher[r] = "watching" => id[r] \in StreamIDs
    /\ work[r] \in {"spawned", "active"} => id[r] \in StreamIDs

TypeInv == TypeOK /\ IdAssigned /\ \A f \in Range(downlink) : f.id = id[f.req]
-----------------------------------------------------------------------------
(***************************************************************************)
(* Type correctness.                                                       *)
(***************************************************************************)

\* A gateway and a daemon that have just connected: types hold, no request is in
\* flight.
LEMMA TypeInit == Init => TypeInv
<1> SUFFICES ASSUME Init PROVE TypeInv
  OBVIOUS
<1>1. <<>> \in Seq(Frame) /\ <<>> \in Seq(Control)
  BY EmptySeq
<1>2. Range(downlink) = {}
  BY DEF Init, Range
<1>3. TypeOK
  BY <1>1, Zenon DEF Init, TypeOK
<1> QED
  BY <1>2, <1>3 DEF Init, TypeInv, IdAssigned

\* Every step of callers, sessions and daemon keeps the types, and a frame to the
\* daemon carries the stream id of its call.
LEMMA TypeStep == TypeInv /\ [Next]_vars => TypeInv'
<1> SUFFICES ASSUME TypeInv, [Next]_vars PROVE TypeInv'
  OBVIOUS
<1> USE TunnelAssumption DEF TypeInv, TypeOK, IdAssigned
<1>0. Range(downlink) \subseteq Control
  BY RangeOfSeq
<1>1. ASSUME NEW r \in Requests, Lookup(r) PROVE TypeInv'
  BY <1>1 DEF Lookup, sessionVars, daemonVars
<1>2. ASSUME NEW r \in Requests, Register(r) PROVE TypeInv'
  <2>1. PICK i \in StreamIDs : /\ id' = [id EXCEPT ![r] = i]
                               /\ pending' = [pending EXCEPT ![i] = r]
    BY <1>2, ZenonT(60) DEF Register, StreamIDFor
  <2>2. TypeOK'
    BY <2>1, <1>2 DEF Register, sessionVars, daemonVars
  <2>3. IdAssigned'
    BY <2>1, <1>2 DEF Register, sessionVars, daemonVars
  <2>4. ASSUME NEW f \in Range(downlink) PROVE f.req # r
    BY <1>0, <1>2 DEF Register, Control
  <2>5. \A f \in Range(downlink') : f.id = id'[f.req]
    BY <1>0, <2>1, <2>4, <1>2 DEF Register, Control
  <2> QED
    BY <2>2, <2>3, <2>5, SMTT(60)
<1>3. ASSUME NEW r \in Requests, SendOK(r) PROVE TypeInv'
  <2> DEFINE f == [type |-> "request", id |-> id[r], req |-> r]
  <2>1. f \in Control
    BY <1>3 DEF SendOK, Control
  <2>2. downlink' \in Seq(Control) /\ Range(downlink') \subseteq Range(downlink) \cup {f}
    BY <2>1, <1>3, AppendRange, SMTT(60) DEF SendOK, Carry
  <2> QED
    BY <2>2, <1>3 DEF SendOK, sessionVars, daemonVars
<1>4. ASSUME NEW r \in Requests, SendFails(r) PROVE TypeInv'
  BY <1>4, SMTT(60) DEF SendFails, Unregister, sessionVars, daemonVars
<1>5. ASSUME NEW r \in Requests, ReceiveFrame(r) PROVE TypeInv'
  <2>1. Head(chan[r]) \in Frame /\ Tail(chan[r]) \in Seq(Frame)
    BY <1>5, TailRange DEF ReceiveFrame
  <2>2. Append(got[r], Head(chan[r])) \in Seq(Frame)
    BY <2>1, AppendRange, SMTT(60)
  <2> QED
    <3>1. CASE Verdict(r, Head(chan[r])) = "none"
      BY <2>1, <2>2, <3>1, <1>5, SMTT(60) DEF ReceiveFrame, sessionVars, daemonVars
    <3>2. CASE Verdict(r, Head(chan[r])) # "none"
      <4>1. Verdict(r, Head(chan[r])) \in {"complete", "answer", "error"}
        BY <3>2 DEF Verdict
      <4> QED
        <5>1. Return(r, Verdict(r, Head(chan[r])))
          BY <3>2, <1>5, SMTT(60) DEF ReceiveFrame
        <5>2. TypeOK'
          <6>1. /\ chan' = [chan EXCEPT ![r] = Tail(chan[r])]
                /\ got' = [got EXCEPT ![r] = Append(got[r], Head(chan[r]))]
                /\ UNCHANGED <<id, watcher, chanClosed, closed, routed, up, downlink, uplink>>
                /\ UNCHANGED <<work, active, cancelled, emitted>>
            BY <1>5, SMTT(60) DEF ReceiveFrame, sessionVars, daemonVars
          <6>2. /\ pc' = [pc EXCEPT ![r] = "done"]
                /\ outcome' = [outcome EXCEPT ![r] = Verdict(r, Head(chan[r]))]
                /\ pending' = [pending EXCEPT ![id[r]] = NoReq]
                /\ ctxDone' = [ctxDone EXCEPT ![r] = TRUE]
            BY <5>1, Zenon DEF Return, Unregister
          <6>3. chan' \in [Requests -> Seq(Frame)] /\ got' \in [Requests -> Seq(Frame)]
            <7>1. chan \in [Requests -> Seq(Frame)] /\ got \in [Requests -> Seq(Frame)]
              BY Zenon
            <7> HIDE DEF TypeInv, TypeOK, IdAssigned
            <7> QED
              BY <2>1, <2>2, <6>1, <7>1, Zenon
          <6>4. pending' \in [StreamIDs -> Requests \cup {NoReq}]
            <7>1. pending \in [StreamIDs -> Requests \cup {NoReq}] /\ NoReq \in Requests \cup {NoReq}
              BY Zenon
            <7> HIDE DEF TypeInv, TypeOK, IdAssigned
            <7> QED
              BY <6>2, <7>1, Zenon
          <6> QED
            BY <4>1, <6>1, <6>2, <6>3, <6>4, SMTT(60)
        <5>3. /\ pc' = [pc EXCEPT ![r] = "done"]
              /\ UNCHANGED <<id, watcher, work, downlink>>
          BY <5>1, <1>5, Zenon DEF ReceiveFrame, Return, daemonVars
        <5>4. IdAssigned'
          BY <5>3, SMTT(60)
        <5>5. \A f \in Range(downlink') : f.id = id'[f.req]
          BY <5>3, Zenon
        <5> HIDE DEF TypeOK, IdAssigned
        <5> QED
          BY <5>2, <5>4, <5>5, Zenon
    <3> QED
      BY <3>1, <3>2, Zenon
<1>6. ASSUME NEW r \in Requests, ReceiveClosed(r) PROVE TypeInv'
  BY <1>6, SMTT(60) DEF ReceiveClosed, Return, Unregister, sessionVars, daemonVars
<1>7. ASSUME NEW r \in Requests, ReceiveCtxDone(r) PROVE TypeInv'
  BY <1>7, SMTT(60) DEF ReceiveCtxDone, Return, Unregister, sessionVars, daemonVars
<1>8. ASSUME NEW r \in Requests, ContextEnds(r) PROVE TypeInv'
  BY <1>8, SMTT(60) DEF ContextEnds, sessionVars, daemonVars
<1>9. ASSUME NEW r \in Requests, WatcherCancels(r) PROVE TypeInv'
  <2> DEFINE f == [type |-> "cancel", id |-> id[r], req |-> r]
  <2>1. f \in Control
    BY <1>9 DEF WatcherCancels, Control
  <2>2. downlink' \in Seq(Control) /\ Range(downlink') \subseteq Range(downlink) \cup {f}
    BY <2>1, <1>9, AppendRange, SMTT(60) DEF WatcherCancels, Carry
  <2> QED
    BY <2>2, <1>9, SMTT(60) DEF WatcherCancels, sessionVars, daemonVars
<1>10. ASSUME NEW r \in Requests, WatcherLeaves(r) PROVE TypeInv'
  BY <1>10, SMTT(60) DEF WatcherLeaves, sessionVars, daemonVars
<1>11. ASSUME NEW r \in Requests, WorkStarts(r) PROVE TypeInv'
  BY <1>11 DEF WorkStarts, gatewayVars, sessionVars
<1>12. ASSUME NEW r \in Requests, NEW eos \in BOOLEAN, NEW err \in BOOLEAN,
              id[r] \in StreamIDs, Reply(r, eos, err)
       PROVE  uplink' \in Seq(Frame)
  <2>1. [id |-> id[r], src |-> r, n |-> emitted[r] + 1, eos |-> eos, err |-> err] \in Frame
    BY <1>12, SMTT(60) DEF Frame
  <2> QED
    BY <2>1, <1>12, AppendRange, SMTT(60) DEF Reply
<1>13. ASSUME NEW r \in Requests, EmitChunk(r) PROVE TypeInv'
  <2>1. uplink' \in Seq(Frame)
    BY <1>13, <1>12, Zenon DEF EmitChunk
  <2> QED
    BY <2>1, <1>13, SMTT(60) DEF EmitChunk, gatewayVars, sessionVars
<1>14. ASSUME NEW r \in Requests, NEW err \in BOOLEAN, EmitLast(r, err) PROVE TypeInv'
  <2>1. uplink' \in Seq(Frame)
    <3>1. id[r] \in StreamIDs /\ Reply(r, TRUE, err)
      BY <1>14, Zenon DEF EmitLast
    <3> HIDE TunnelAssumption DEF TypeInv, TypeOK, IdAssigned
    <3> QED
      BY <3>1, <1>12, Zenon
  <2>2. /\ emitted' = [emitted EXCEPT ![r] = emitted[r] + 1]
        /\ work' = [work EXCEPT ![r] = "ended"]
        /\ active' = [active EXCEPT ![id[r]] = NoReq]
        /\ UNCHANGED <<pc, id, ctxDone, watcher, chan, chanClosed, got, outcome, pending>>
        /\ UNCHANGED <<closed, routed, up, downlink, cancelled>>
    BY <1>14, Zenon DEF EmitLast, gatewayVars, sessionVars
  <2>3. emitted' \in [Requests -> Nat] /\ work' \in [Requests -> {"none", "spawned", "active", "ended"}]
    BY <2>2, SMTT(60)
  <2>4. active' \in [StreamIDs -> Requests \cup {NoReq}]
    <3>1. active \in [StreamIDs -> Requests \cup {NoReq}] /\ NoReq \in Requests \cup {NoReq}
      BY Zenon
    <3> HIDE DEF TypeInv, TypeOK, IdAssigned
    <3> QED
      BY <2>2, <3>1, Zenon
  <2>5. IdAssigned'
    BY <2>2, SMTT(60)
  <2> HIDE DEF IdAssigned
  <2> QED
    BY <2>1, <2>2, <2>3, <2>4, <2>5, Zenon
<1>15. CASE GatewayRead
  <2>1. Head(uplink) \in Frame /\ Tail(uplink) \in Seq(Frame)
    <3>1. uplink \in Seq(Frame) /\ uplink # <<>>
      BY <1>15, Zenon DEF GatewayRead
    <3> HIDE DEF TypeInv, TypeOK, IdAssigned
    <3> QED
      BY <3>1, TailRange, Zenon
  <2>2. ASSUME NEW r \in Requests PROVE Offer(chan[r], Head(uplink)) \in Seq(Frame)
    BY <2>1, AppendRange DEF Offer
  <2>3. pending[Head(uplink).id] \in Requests \cup {NoReq}
    BY <2>1, SMTT(60) DEF Frame
  <2>4. chan' \in [Requests -> Seq(Frame)]
    BY <2>2, <2>3, <1>15 DEF GatewayRead
  <2>5. /\ UNCHANGED <<pc, id, ctxDone, watcher, chanClosed, got, outcome, pending, closed, routed>>
        /\ UNCHANGED <<up, downlink, work, active, cancelled, emitted>>
        /\ uplink' = Tail(uplink)
    BY <1>15, Zenon DEF GatewayRead, sessionVars, daemonVars
  <2> QED
    BY <2>1, <2>4, <2>5, Zenon
<1>16. CASE ConnLost
  <2>1. downlink' \in Seq(Control) /\ uplink' \in Seq(Frame) /\ Range(downlink') = {}
    BY <1>16, EmptySeq, SMTT(60) DEF ConnLost, Range
  <2> QED
    BY <2>1, <1>16, Zenon DEF ConnLost, gatewayVars, sessionVars, daemonVars
<1>17. CASE ReadLoopExit
  BY <1>17 DEF ReadLoopExit, Woken, daemonVars
<1>18. CASE Unroute
  BY <1>18, ZenonT(60) DEF Unroute, gatewayVars, daemonVars
<1>19. ASSUME up, downlink # <<>>
       PROVE  /\ Head(downlink) \in Control
              /\ Tail(downlink) \in Seq(Control)
              /\ Range(Tail(downlink)) \subseteq Range(downlink)
              /\ Head(downlink).req \in Requests
              /\ id[Head(downlink).req] \in StreamIDs
              /\ Head(downlink).id = id[Head(downlink).req]
  <2>1. /\ Head(downlink) \in Control
        /\ Head(downlink) \in Range(downlink)
        /\ Tail(downlink) \in Seq(Control)
        /\ Range(Tail(downlink)) \subseteq Range(downlink)
    BY <1>19, TailRange
  <2> QED
    BY <2>1, SMTT(60) DEF Control
<1>20. CASE DaemonSpawns
  <2>1. PICK r \in Requests : /\ id[r] \in StreamIDs
                              /\ work' = [work EXCEPT ![r] = "spawned"]
    BY <1>20, <1>19, Zenon DEF DaemonSpawns
  <2>2. /\ downlink' \in Seq(Control) /\ Range(downlink') \subseteq Range(downlink)
        /\ UNCHANGED <<pc, id, ctxDone, watcher, chan, chanClosed, got, outcome, pending, closed, routed>>
        /\ UNCHANGED <<up, uplink, active, cancelled, emitted>>
    BY <1>20, <1>19, Zenon DEF DaemonSpawns, gatewayVars, sessionVars
  <2>3. IdAssigned' /\ work' \in [Requests -> {"none", "spawned", "active", "ended"}]
    BY <2>1, <2>2, SMTT(60)
  <2> HIDE DEF IdAssigned
  <2> QED
    BY <2>2, <2>3, Zenon
<1>21. CASE DaemonRefuses
  <2>1. uplink' \in Seq(Frame)
    BY <1>21, <1>19, <1>12, Zenon DEF DaemonRefuses
  <2> QED
    <3>1. PICK r \in Requests : /\ r = Head(downlink).req
                                /\ emitted' = [emitted EXCEPT ![r] = @ + 1]
                                /\ work' = [work EXCEPT ![r] = "ended"]
      BY <1>21, <1>19, Zenon DEF DaemonRefuses
    <3>2. /\ downlink' \in Seq(Control) /\ Range(downlink') \subseteq Range(downlink)
          /\ UNCHANGED <<pc, id, ctxDone, watcher, chan, chanClosed, got, outcome, pending, closed, routed>>
          /\ UNCHANGED <<up, active, cancelled>>
      BY <1>21, <1>19, Zenon DEF DaemonRefuses, gatewayVars, sessionVars
    <3>3. /\ IdAssigned' /\ emitted' \in [Requests -> Nat]
          /\ work' \in [Requests -> {"none", "spawned", "active", "ended"}]
      BY <3>1, <3>2, SMTT(60)
    <3> HIDE DEF IdAssigned
    <3> QED
      BY <2>1, <3>2, <3>3, Zenon
<1>22. CASE DaemonCancels
  BY <1>22, <1>19, ZenonT(60) DEF DaemonCancels, gatewayVars, sessionVars
<1>23. CASE UNCHANGED vars
  BY <1>23 DEF vars, gatewayVars, sessionVars, daemonVars
<1> HIDE DEF TypeInv, TypeOK, IdAssigned
<1>24. CASE \E r \in Requests, err \in BOOLEAN : EmitLast(r, err)
  BY <1>14, <1>24, Zenon
<1> QED
  BY <1>1, <1>2, <1>3, <1>4, <1>5, <1>6, <1>7, <1>8, <1>9, <1>10, <1>11, <1>13,
     <1>15, <1>16, <1>17, <1>18, <1>20, <1>21, <1>22, <1>23, <1>24, ZenonT(60)
     DEF Next, Caller, Receive

\* Every variable of the data plane keeps its type: queues hold frames, maps
\* lead from stream ids to calls, and no call is sent without a stream id.
THEOREM TypeCorrect == Spec => []TypeOK
<1>1. Spec => []TypeInv
  BY TypeInit, TypeStep, PTL DEF Spec
<1>2. TypeInv => TypeOK
  BY DEF TypeInv
<1> QED
  BY <1>1, <1>2, PTL
-----------------------------------------------------------------------------
(***************************************************************************)
(* The inductive invariant.                                                *)
(***************************************************************************)

\* Frames in flight, map entries and channels carry the id of their call.
IdsAgree ==
  /\ \A i \in StreamIDs : pending[i] # NoReq => id[pending[i]] = i
  /\ \A i \in StreamIDs : active[i] # NoReq => id[active[i]] = i
  /\ \A f \in Range(downlink) : f.id = id[f.req]
  /\ \A f \in Range(uplink) : f.id = id[f.src]
  /\ \A r \in Requests : \A f \in Range(chan[r]) : f.src = r

IdsDistinct ==
  \A r, q \in Requests : id[r] = id[q] /\ id[r] # NoID => r = q

\* A cancel frame in flight belongs to a call whose context is over.
CancelsAbandoned ==
  \A f \in Range(downlink) : f.type = "cancel" => ctxDone[f.req]

StreamInv ==
  /\ IdsAgree
  /\ IdsDistinct
  /\ CancelsAbandoned
  /\ StreamIsolation
  /\ PendingOnlyInFlight
  /\ CancelOnlyAbandoned
-----------------------------------------------------------------------------
(***************************************************************************)
(* Streams do not cross, and only abandoned calls are cancelled.           *)
(***************************************************************************)

\* Before the first call no map and no queue holds anything.
LEMMA StreamInit == Init => StreamInv
<1> SUFFICES ASSUME Init PROVE StreamInv
  OBVIOUS
<1>1. Range(<<>>) = {}
  BY DEF Range
<1> QED
  BY <1>1, TunnelAssumption DEF Init, StreamInv, IdsAgree, IdsDistinct, CancelsAbandoned,
     StreamIsolation, PendingOnlyInFlight, CancelOnlyAbandoned

\* A caller that returns (deferred cleanup and cancel) disturbs nobody else.
LEMMA ReturnStep ==
  ASSUME TypeInv, StreamInv, NEW r \in Requests, NEW o, Return(r, o), pc[r] = "waiting",
         UNCHANGED <<id, downlink, cancelled>>
  PROVE  /\ \A i \in StreamIDs : pending'[i] # NoReq => id'[pending'[i]] = i
         /\ PendingOnlyInFlight'
         /\ CancelsAbandoned'
         /\ CancelOnlyAbandoned'
<1> USE TunnelAssumption DEF TypeInv, TypeOK, StreamInv
<1>1. id[r] \in StreamIDs
  BY DEF IdAssigned
<1>2. \A i \in StreamIDs : pending'[i] # NoReq =>
        pending'[i] = pending[i] /\ pending[i] \in Requests /\ pending[i] # r
  BY <1>1 DEF Return, Unregister, IdsAgree
<1>3. \A q \in Requests : ctxDone[q] => ctxDone'[q]
  BY DEF Return
<1>4. Range(downlink) \subseteq Control
  BY RangeOfSeq
<1>5. PendingOnlyInFlight'
  BY <1>2 DEF PendingOnlyInFlight, Return
<1>6. CancelsAbandoned'
  BY <1>3, <1>4, SMTT(60) DEF CancelsAbandoned, Control
<1> QED
  BY <1>2, <1>3, <1>5, <1>6, SMTT(60) DEF IdsAgree, CancelOnlyAbandoned

\* If clock readings differ, every step keeps ids, maps and frames in agreement.
LEMMA StreamStep ==
  ASSUME DistinctTimestamps, TypeInv, StreamInv, [Next]_vars
  PROVE  StreamInv'
<1>t. /\ pc \in [Requests -> {"idle", "found", "registered", "waiting", "done"}]
      /\ id \in [Requests -> StreamIDs \cup {NoID}] /\ IdAssigned
      /\ ctxDone \in [Requests -> BOOLEAN] /\ cancelled \in [Requests -> BOOLEAN]
      /\ pending \in [StreamIDs -> Requests \cup {NoReq}]
      /\ active \in [StreamIDs -> Requests \cup {NoReq}]
      /\ chan \in [Requests -> Seq(Frame)] /\ got \in [Requests -> Seq(Frame)]
      /\ downlink \in Seq(Control) /\ uplink \in Seq(Frame) /\ emitted \in [Requests -> Nat]
  BY DEF TypeInv, TypeOK
<1> USE <1>t, TunnelAssumption
<1>0. /\ Range(downlink) \subseteq Control
      /\ Range(uplink) \subseteq Frame
      /\ \A r \in Requests : Range(chan[r]) \subseteq Frame /\ Range(got[r]) \subseteq Frame
  BY RangeOfSeq
\* Steps of the connection, the read loop and the daemon: no caller moves.
<1>f. ASSUME UNCHANGED <<pc, id, ctxDone, got, pending, cancelled>>,
             Range(downlink') \subseteq Range(downlink),
             \A i \in StreamIDs : active'[i] # NoReq => id[active'[i]] = i,
             \A g \in Range(uplink') : g.id = id[g.src],
             \A r \in Requests : \A g \in Range(chan'[r]) : g.src = r
      PROVE  StreamInv'
  <2> HIDE <1>t, TunnelAssumption
  <2>1. IdsAgree'
    BY <1>f, Zenon DEF StreamInv, IdsAgree
  <2>2. CancelsAbandoned'
    BY <1>f, Zenon DEF StreamInv, CancelsAbandoned
  <2>3. IdsDistinct' /\ StreamIsolation'
    BY <1>f, Zenon DEF StreamInv, IdsDistinct, StreamIsolation
  <2>4. PendingOnlyInFlight' /\ CancelOnlyAbandoned'
    BY <1>f, Zenon DEF StreamInv, PendingOnlyInFlight, CancelOnlyAbandoned
  <2> QED
    BY <2>1, <2>2, <2>3, <2>4, Zenon DEF StreamInv
<1>a. /\ \A i \in StreamIDs : active[i] # NoReq => id[active[i]] = i
      /\ \A g \in Range(uplink) : g.id = id[g.src]
      /\ \A r \in Requests : \A g \in Range(chan[r]) : g.src = r
  BY Zenon DEF StreamInv, IdsAgree
\* Steps of a caller after its registration, or of its watcher.
<1>g. ASSUME UNCHANGED <<id, active, uplink, cancelled, chan, got>>,
             \A g \in Range(downlink') : /\ g.id = id[g.req]
                                         /\ g.type = "cancel" => ctxDone'[g.req],
             \A q \in Requests : ctxDone[q] => ctxDone'[q],
             \A i \in StreamIDs : pending'[i] # NoReq =>
               id[pending'[i]] = i /\ pc'[pending'[i]] \in {"registered", "waiting"}
      PROVE  StreamInv'
  <2> HIDE <1>t, TunnelAssumption
  <2>1. IdsAgree'
    BY <1>g, Zenon DEF StreamInv, IdsAgree
  <2>2. CancelsAbandoned' /\ PendingOnlyInFlight'
    BY <1>g, Zenon DEF CancelsAbandoned, PendingOnlyInFlight
  <2>3. IdsDistinct' /\ StreamIsolation'
    BY <1>g, Zenon DEF StreamInv, IdsDistinct, StreamIsolation
  <2>4. CancelOnlyAbandoned'
    BY <1>g, Zenon DEF StreamInv, CancelOnlyAbandoned
  <2> QED
    BY <2>1, <2>2, <2>3, <2>4, Zenon DEF StreamInv
<1>b. /\ \A g \in Range(downlink) : g.id = id[g.req] /\ (g.type = "cancel" => ctxDone[g.req])
      /\ \A i \in StreamIDs : pending[i] # NoReq =>
           id[pending[i]] = i /\ pc[pending[i]] \in {"registered", "waiting"}
  BY Zenon DEF StreamInv, IdsAgree, CancelsAbandoned, PendingOnlyInFlight
<1>c. \A g \in Range(downlink) : g.req \in Requests
  BY <1>0, SMTT(60) DEF Control
<1>1. ASSUME NEW r \in Requests, Lookup(r) PROVE StreamInv'
  BY <1>1 DEF Lookup, sessionVars, daemonVars, StreamInv, IdsAgree, IdsDistinct, CancelsAbandoned, StreamIsolation,
     PendingOnlyInFlight, CancelOnlyAbandoned
<1>2. ASSUME NEW r \in Requests, Register(r) PROVE StreamInv'
  <2>1. PICK i \in StreamIDs : /\ id' = [id EXCEPT ![r] = i]
                               /\ pending' = [pending EXCEPT ![i] = r]
                               /\ \A q \in Requests : id[q] # i
    BY <1>2, Zenon DEF Register, StreamIDFor
  <2>2. id[r] = NoID /\ pc[r] = "found"
    BY <1>2 DEF Register, IdAssigned
  <2>3. IdsDistinct'
    BY <2>1, SMTT(60) DEF StreamInv, IdsDistinct
  <2>4. \A q \in Requests : q # r => id'[q] = id[q]
    BY <2>1
  <2>5. \A j \in StreamIDs : /\ pending[j] # NoReq => pending[j] # r
                             /\ active[j] # NoReq => active[j] # r
    BY <2>2 DEF StreamInv, IdsAgree
  <2>6. /\ \A f \in Range(downlink) : f.req # r
        /\ \A f \in Range(uplink) : f.src # r
    BY <1>0, <2>2, SMTT(60) DEF StreamInv, IdsAgree, Control, Frame
  <2>7. IdsAgree'
    <3>1. \A j \in StreamIDs : pending'[j] # NoReq => id'[pending'[j]] = j
      BY <2>1, <2>4, <2>5, SMTT(60) DEF StreamInv, IdsAgree
    <3>2. \A j \in StreamIDs : active'[j] # NoReq => id'[active'[j]] = j
      BY <2>4, <2>5, <1>2, SMTT(60) DEF StreamInv, IdsAgree, Register, daemonVars
    <3>3. /\ \A f \in Range(downlink') : f.id = id'[f.req]
          /\ \A f \in Range(uplink') : f.id = id'[f.src]
      BY <1>0, <2>4, <2>6, <1>2, SMTT(60) DEF StreamInv, IdsAgree, Register, Control, Frame
    <3> QED
      BY <3>1, <3>2, <3>3, <1>2, SMTT(60) DEF StreamInv, IdsAgree, Register
  <2>8. PendingOnlyInFlight'
    BY <2>1, <1>2, SMTT(60) DEF StreamInv, PendingOnlyInFlight, Register
  <2> QED
    BY <2>3, <2>7, <2>8, <1>2, SMTT(60) DEF Register, daemonVars, StreamInv, CancelsAbandoned,
       StreamIsolation, CancelOnlyAbandoned
<1>3. ASSUME NEW r \in Requests, SendOK(r) PROVE StreamInv'
  <2> DEFINE f == [type |-> "request", id |-> id[r], req |-> r]
  <2>1. f \in Control
    BY <1>3 DEF SendOK, Control, IdAssigned
  <2>2. Range(downlink') \subseteq Range(downlink) \cup {f}
    BY <2>1, <1>3, AppendRange, SMTT(60) DEF SendOK, Carry
  <2>3. f.id = id[f.req] /\ f.type # "cancel"
    BY SMTT(60)
  <2>4. UNCHANGED <<id, active, uplink, cancelled, chan, got, pending, ctxDone>>
        /\ pc' = [pc EXCEPT ![r] = "waiting"]
    BY <1>3, Zenon DEF SendOK, daemonVars
  <2>5. \A i \in StreamIDs : pending[i] # NoReq => pc'[pending[i]] \in {"registered", "waiting"}
    BY <2>4, <1>b, SMTT(60)
  <2> HIDE <1>t, TunnelAssumption DEF f
  <2> QED
    BY <2>2, <2>3, <2>4, <2>5, <1>b, <1>g, Zenon
<1>4. ASSUME NEW r \in Requests, SendFails(r) PROVE StreamInv'
  <2>1. id[r] \in StreamIDs
    BY <1>4 DEF SendFails, IdAssigned
  <2>2. \A i \in StreamIDs : pending'[i] # NoReq =>
          pending'[i] = pending[i] /\ pending[i] \in Requests /\ pending[i] # r
    BY <2>1, <1>4 DEF SendFails, Unregister, StreamInv, IdsAgree
  <2>3. UNCHANGED <<id, active, uplink, cancelled, chan, got, downlink>>
        /\ pc' = [pc EXCEPT ![r] = "done"] /\ ctxDone' = [ctxDone EXCEPT ![r] = TRUE]
    BY <1>4, Zenon DEF SendFails, daemonVars
  <2>4. (\A q \in Requests : q # r => pc'[q] = pc[q]) /\ (\A q \in Requests : ctxDone[q] => ctxDone'[q])
    BY <2>3, SMTT(60)
  <2> HIDE <1>t, TunnelAssumption
  <2>5. \A i \in StreamIDs : pending'[i] # NoReq =>
          id[pending'[i]] = i /\ pc'[pending'[i]] \in {"registered", "waiting"}
    <3> SUFFICES ASSUME NEW i \in StreamIDs, pending'[i] # NoReq
                 PROVE  id[pending'[i]] = i /\ pc'[pending'[i]] \in {"registered", "waiting"}
      BY Zenon
    <3>1. pending'[i] = pending[i] /\ pending[i] \in Requests /\ pending[i] # r
      BY <2>2, Zenon
    <3>2. id[pending[i]] = i /\ pc[pending[i]] \in {"registered", "waiting"}
      BY <3>1, <1>b, Zenon
    <3> QED
      BY <3>1, <3>2, <2>4, SMTT(60)
  <2>6. \A g \in Range(downlink) : g.type = "cancel" => ctxDone'[g.req]
    BY <2>4, <1>b, <1>c, Zenon
  <2> QED
    BY <2>3, <2>4, <2>5, <2>6, <1>b, <1>g, Zenon
<1>5. ASSUME NEW r \in Requests, ReceiveFrame(r) PROVE StreamInv'
  <2>1. /\ Head(chan[r]) \in Range(chan[r])
        /\ Head(chan[r]) \in Frame
        /\ Range(Tail(chan[r])) \subseteq Range(chan[r])
    BY <1>5, TailRange DEF ReceiveFrame
  <2>2. Range(Append(got[r], Head(chan[r]))) \subseteq Range(got[r]) \cup {Head(chan[r])}
    BY <2>1, AppendRange, SMTT(60)
  <2>7. /\ got' = [got EXCEPT ![r] = Append(got[r], Head(chan[r]))]
        /\ chan' = [chan EXCEPT ![r] = Tail(chan[r])]
    BY <1>5, Zenon DEF ReceiveFrame
  <2>8. /\ \A q \in Requests : q # r => got'[q] = got[q] /\ chan'[q] = chan[q]
        /\ got'[r] = Append(got[r], Head(chan[r])) /\ chan'[r] = Tail(chan[r])
    BY <2>7, Zenon
  <2>3. StreamIsolation' /\ \A q \in Requests : \A f \in Range(chan'[q]) : f.src = q
    <3> HIDE <1>t, TunnelAssumption
    <3>1. /\ \A q \in Requests : Range(chan'[q]) \subseteq Range(chan[q])
          /\ \A q \in Requests : q # r => Range(got'[q]) = Range(got[q])
          /\ Range(got'[r]) \subseteq Range(got[r]) \cup {Head(chan[r])}
          /\ Head(chan[r]).src = r
      BY <2>1, <2>2, <2>8, <1>a, Zenon
    <3>2. \A q \in Requests : \A f \in Range(got'[q]) : f.src = q
      BY <3>1, Zenon DEF StreamInv, StreamIsolation
    <3> QED
      BY <3>1, <3>2, <1>a, Zenon DEF StreamIsolation
  <2>4. UNCHANGED <<id, active, downlink, uplink, cancelled>>
    BY <1>5 DEF ReceiveFrame, daemonVars
  <2>5. CASE Verdict(r, Head(chan[r])) = "none"
    <3>1. UNCHANGED <<pc, pending, ctxDone>>
      BY <2>5, <1>5, SMTT(60) DEF ReceiveFrame
    <3> HIDE <1>t, TunnelAssumption
    <3>2. IdsAgree' /\ IdsDistinct'
      BY <2>3, <2>4, <3>1, Zenon DEF StreamInv, IdsAgree, IdsDistinct
    <3>3. CancelsAbandoned' /\ PendingOnlyInFlight' /\ CancelOnlyAbandoned'
      BY <2>4, <3>1, Zenon DEF StreamInv, CancelsAbandoned, PendingOnlyInFlight, CancelOnlyAbandoned
    <3> QED
      BY <2>3, <3>2, <3>3, Zenon DEF StreamInv
  <2>6. CASE Return(r, Verdict(r, Head(chan[r])))
    <3>1. pc[r] = "waiting"
      BY <1>5, Zenon DEF ReceiveFrame
    <3> HIDE <1>t, TunnelAssumption
    <3>2. /\ \A i \in StreamIDs : pending'[i] # NoReq => id'[pending'[i]] = i
          /\ PendingOnlyInFlight' /\ CancelsAbandoned' /\ CancelOnlyAbandoned'
      BY <2>4, <2>6, <3>1, ReturnStep, Zenon
    <3>3. IdsAgree' /\ IdsDistinct'
      BY <2>3, <2>4, <3>2, Zenon DEF StreamInv, IdsAgree, IdsDistinct
    <3> QED
      BY <2>3, <3>2, <3>3, Zenon DEF StreamInv
  <2> QED
    BY <2>5, <2>6, <1>5, SMTT(60) DEF ReceiveFrame
<1>6. ASSUME NEW r \in Requests, ReceiveClosed(r) \/ ReceiveCtxDone(r) PROVE StreamInv'
  <2> HIDE <1>t, TunnelAssumption
  <2>1. PICK o : Return(r, o)
    BY <1>6, Zenon DEF ReceiveClosed, ReceiveCtxDone
  <2>2. pc[r] = "waiting" /\ UNCHANGED <<id, active, uplink, cancelled, chan, got, downlink>>
    BY <1>6, Zenon DEF ReceiveClosed, ReceiveCtxDone, daemonVars
  <2>3. /\ \A i \in StreamIDs : pending'[i] # NoReq => id'[pending'[i]] = i
        /\ PendingOnlyInFlight' /\ CancelsAbandoned' /\ CancelOnlyAbandoned'
    BY <2>1, <2>2, ReturnStep, Zenon
  <2>4. IdsAgree' /\ IdsDistinct' /\ StreamIsolation'
    BY <2>2, <2>3, Zenon DEF StreamInv, IdsAgree, IdsDistinct, StreamIsolation
  <2> QED
    BY <2>3, <2>4, Zenon DEF StreamInv
<1>8. ASSUME NEW r \in Requests, ContextEnds(r) PROVE StreamInv'
  <2>1. UNCHANGED <<id, active, uplink, cancelled, chan, got, downlink, pending, pc>>
        /\ ctxDone' = [ctxDone EXCEPT ![r] = TRUE]
    BY <1>8, Zenon DEF ContextEnds, daemonVars
  <2>2. \A q \in Requests : ctxDone[q] => ctxDone'[q]
    BY <2>1, SMTT(60)
  <2> HIDE <1>t, TunnelAssumption
  <2> QED
    BY <2>1, <2>2, <1>b, <1>c, <1>g, Zenon
<1>9. ASSUME NEW r \in Requests, WatcherCancels(r) PROVE StreamInv'
  <2> DEFINE f == [type |-> "cancel", id |-> id[r], req |-> r]
  <2>1. f \in Control
    BY <1>9, SMTT(60) DEF WatcherCancels, Control, IdAssigned
  <2>2. Range(downlink') \subseteq Range(downlink) \cup {f}
    BY <2>1, <1>9, AppendRange, SMTT(60) DEF WatcherCancels, Carry
  <2>3. f.id = id[f.req] /\ f.req = r
    BY SMTT(60)
  <2>4. UNCHANGED <<id, active, uplink, cancelled, chan, got, pending, pc, ctxDone>> /\ ctxDone[r]
    BY <1>9, Zenon DEF WatcherCancels, WatcherFires, daemonVars
  <2> HIDE <1>t, TunnelAssumption DEF f
  <2> QED
    BY <2>2, <2>3, <2>4, <1>b, <1>g, Zenon
<1>10. ASSUME NEW r \in Requests, WatcherLeaves(r) PROVE StreamInv'
  <2> HIDE <1>t, TunnelAssumption
  <2>1. UNCHANGED <<pc, id, ctxDone, got, pending, cancelled, downlink, active, uplink, chan>>
    BY <1>10, Zenon DEF WatcherLeaves, daemonVars
  <2> QED
    BY <2>1, <1>a, <1>f, Zenon
<1>11. ASSUME NEW r \in Requests, WorkStarts(r) PROVE StreamInv'
  <2>1. UNCHANGED <<pc, id, ctxDone, got, pending, cancelled, downlink, uplink, chan>>
        /\ active' = [active EXCEPT ![id[r]] = r] /\ work[r] = "spawned"
    BY <1>11, Zenon DEF WorkStarts, gatewayVars
  <2>2. \A i \in StreamIDs : active'[i] # NoReq => id[active'[i]] = i
    BY <2>1, <1>a, SMTT(60) DEF IdAssigned
  <2> HIDE <1>t, TunnelAssumption
  <2> QED
    BY <2>1, <2>2, <1>a, <1>f, Zenon
<1>12. ASSUME NEW r \in Requests, NEW eos \in BOOLEAN, NEW err \in BOOLEAN,
              id[r] \in StreamIDs, Reply(r, eos, err), UNCHANGED id
       PROVE  \A f \in Range(uplink') : f.id = id'[f.src]
  <2> DEFINE f == [id |-> id[r], src |-> r, n |-> emitted[r] + 1, eos |-> eos, err |-> err]
  <2>1. f \in Frame
    BY <1>12, SMTT(60) DEF Frame
  <2>2. Range(uplink') \subseteq Range(uplink) \cup {f}
    BY <2>1, <1>12, AppendRange, SMTT(60) DEF Reply
  <2>3. f.id = id[f.src]
    BY SMTT(60)
  <2> HIDE <1>t, TunnelAssumption DEF f
  <2> QED
    BY <2>2, <2>3, <1>12, <1>a, Zenon
<1>13. ASSUME NEW r \in Requests, EmitChunk(r) PROVE StreamInv'
  <2>1. \A f \in Range(uplink') : f.id = id'[f.src]
    <3>1. id[r] \in StreamIDs /\ Reply(r, FALSE, FALSE) /\ UNCHANGED id
      BY <1>13, ZenonT(60) DEF EmitChunk, gatewayVars, IdAssigned
    <3> HIDE <1>t, TunnelAssumption
    <3> QED
      BY <3>1, <1>12, Zenon
  <2>2. UNCHANGED <<pc, id, ctxDone, got, pending, cancelled, downlink, active, chan>>
    BY <1>13, Zenon DEF EmitChunk, gatewayVars
  <2> HIDE <1>t, TunnelAssumption
  <2> QED
    BY <2>1, <2>2, <1>a, <1>f, Zenon
<1>14. ASSUME NEW r \in Requests, NEW err \in BOOLEAN, EmitLast(r, err) PROVE StreamInv'
  <2>1. \A f \in Range(uplink') : f.id = id'[f.src]
    <3>1. id[r] \in StreamIDs /\ Reply(r, TRUE, err) /\ UNCHANGED id
      BY <1>14, ZenonT(60) DEF EmitLast, gatewayVars, IdAssigned
    <3> HIDE <1>t, TunnelAssumption
    <3> QED
      BY <3>1, <1>12, Zenon
  <2>2. UNCHANGED <<pc, id, ctxDone, got, pending, cancelled, downlink, chan>>
        /\ active' = [active EXCEPT ![id[r]] = NoReq]
    BY <1>14, Zenon DEF EmitLast, gatewayVars
  <2>3. \A i \in StreamIDs : active'[i] # NoReq => id[active'[i]] = i
    BY <2>2, <1>a, SMTT(60)
  <2> HIDE <1>t, TunnelAssumption
  <2> QED
    BY <2>1, <2>2, <2>3, <1>a, <1>f, Zenon
<1>15. CASE GatewayRead
  <2>1. /\ Head(uplink) \in Frame
        /\ Head(uplink) \in Range(uplink)
        /\ Range(Tail(uplink)) \subseteq Range(uplink)
    <3>1. uplink # <<>>
      BY <1>15, Zenon DEF GatewayRead
    <3> QED
      BY <3>1, TailRange, SMTT(60)
  <2>2. ASSUME NEW r \in Requests, pending[Head(uplink).id] = r
        PROVE  Head(uplink).src = r
    <3> DEFINE i == Head(uplink).id
               q == Head(uplink).src
    <3>1. i \in StreamIDs /\ q \in Requests /\ i # NoID
      BY <2>1, SMTT(60) DEF Frame
    <3>2. id[r] = i
      BY <2>2, <3>1 DEF StreamInv, IdsAgree
    <3>3. id[q] = i
      BY <2>1 DEF StreamInv, IdsAgree
    <3> HIDE DEF i, q
    <3>4. q = r
      BY <3>1, <3>2, <3>3 DEF StreamInv, IdsDistinct
    <3> QED
      BY <3>4, SMTT(60) DEF q
  <2>3. ASSUME NEW r \in Requests
        PROVE  Range(Offer(chan[r], Head(uplink))) \subseteq Range(chan[r]) \cup {Head(uplink)}
    BY <2>1, AppendRange, SMTT(60) DEF Offer
  <2>4. \A r \in Requests : \A f \in Range(chan'[r]) : f.src = r
    <3>1. pending[Head(uplink).id] \in Requests \cup {NoReq}
      BY <2>1, SMTT(60) DEF Frame
    <3>2. CASE pending[Head(uplink).id] = NoReq
      BY <3>2, <1>15, SMTT(60) DEF GatewayRead, StreamInv, IdsAgree
    <3>3. CASE pending[Head(uplink).id] \in Requests
      <4> DEFINE q == pending[Head(uplink).id]
      <4>1. chan' = [chan EXCEPT ![q] = Offer(chan[q], Head(uplink))]
        BY <3>3, <1>15, SMTT(60) DEF GatewayRead
      <4>2. q \in Requests /\ Head(uplink).src = q
        BY <3>3, <2>2, Zenon
      <4> HIDE DEF q
      <4>3. /\ \A r \in Requests : r # q => chan'[r] = chan[r]
            /\ chan'[q] = Offer(chan[q], Head(uplink))
        BY <4>1, <4>2, Zenon
      <4> HIDE <1>t, TunnelAssumption
      <4> QED
        BY <4>2, <4>3, <2>3, <1>a, SMTT(60)
    <3> QED
      BY <3>1, <3>2, <3>3, ZenonT(60)
  <2>5. UNCHANGED <<pc, id, ctxDone, got, pending, cancelled, downlink, active>> /\ uplink' = Tail(uplink)
    BY <1>15, Zenon DEF GatewayRead, daemonVars
  <2> HIDE <1>t, TunnelAssumption
  <2> QED
    BY <2>1, <2>4, <2>5, <1>a, <1>f, Zenon
<1>16. CASE ConnLost
  <2>1. Range(downlink') = {} /\ Range(uplink') = {}
    BY <1>16, SMTT(60) DEF ConnLost, Range
  <2>2. UNCHANGED <<pc, id, ctxDone, got, pending, cancelled, active, chan>>
    BY <1>16, Zenon DEF ConnLost, gatewayVars, daemonVars
  <2> HIDE <1>t, TunnelAssumption
  <2> QED
    BY <2>1, <2>2, <1>a, <1>f, Zenon
<1>17. CASE ReadLoopExit
  BY <1>17, SMTT(60) DEF ReadLoopExit, daemonVars, StreamInv, IdsAgree, IdsDistinct, CancelsAbandoned, StreamIsolation,
     PendingOnlyInFlight, CancelOnlyAbandoned
<1>18. CASE Unroute
  <2> HIDE <1>t, TunnelAssumption
  <2>1. UNCHANGED <<pc, id, ctxDone, got, pending, cancelled, downlink, active, uplink, chan>>
    BY <1>18, Zenon DEF Unroute, gatewayVars, daemonVars
  <2> QED
    BY <2>1, <1>a, <1>f, Zenon
<1>19. ASSUME downlink # <<>>
       PROVE  /\ Head(downlink) \in Range(downlink)
              /\ Head(downlink) \in Control
              /\ Range(Tail(downlink)) \subseteq Range(downlink)
  BY <1>19, TailRange, SMTT(60)
<1>20. CASE DaemonSpawns
  <2>1. UNCHANGED <<pc, id, ctxDone, got, pending, cancelled, active, uplink, chan>>
        /\ downlink # <<>> /\ downlink' = Tail(downlink)
    BY <1>20, Zenon DEF DaemonSpawns, gatewayVars
  <2> HIDE <1>t, TunnelAssumption
  <2> QED
    BY <2>1, <1>19, <1>a, <1>f, Zenon
<1>21. CASE DaemonRefuses
  <2>1. Head(downlink) \in Control /\ Head(downlink) \in Range(downlink)
    BY <1>21, <1>19, SMTT(60) DEF DaemonRefuses
  <2>2. Head(downlink).req \in Requests /\ id[Head(downlink).req] \in StreamIDs
    BY <2>1, SMTT(60) DEF StreamInv, IdsAgree, Control
  <2>3. Reply(Head(downlink).req, TRUE, TRUE) /\ UNCHANGED id
    BY <1>21, Zenon DEF DaemonRefuses, gatewayVars
  <2>4. \A f \in Range(uplink') : f.id = id'[f.src]
    <3> HIDE <1>t, TunnelAssumption
    <3> QED
      BY <2>2, <2>3, <1>12, ZenonT(60)
  <2>5. UNCHANGED <<pc, id, ctxDone, got, pending, cancelled, active, chan>>
        /\ downlink # <<>> /\ downlink' = Tail(downlink)
    BY <1>21, Zenon DEF DaemonRefuses, gatewayVars
  <2> HIDE <1>t, TunnelAssumption
  <2> QED
    BY <2>4, <2>5, <1>19, <1>a, <1>f, Zenon
<1>22. CASE DaemonCancels
  <2>1. /\ Head(downlink).type = "cancel"
        /\ ctxDone[Head(downlink).req]
        /\ Head(downlink).id = id[Head(downlink).req]
        /\ Head(downlink).req \in Requests
        /\ Head(downlink).id \in StreamIDs
    <3>1. Head(downlink).type = "cancel" /\ downlink # <<>>
      BY <1>22, Zenon DEF DaemonCancels
    <3> HIDE <1>t, TunnelAssumption
    <3>2. Head(downlink) \in Control /\ Head(downlink) \in Range(downlink)
      BY <3>1, <1>19, Zenon
    <3>3. ctxDone[Head(downlink).req] /\ Head(downlink).id = id[Head(downlink).req]
      BY <3>1, <3>2, <1>b, Zenon
    <3> QED
      BY <3>1, <3>2, <3>3, SMTT(60) DEF Control
  <2>2. active[Head(downlink).id] # NoReq => active[Head(downlink).id] = Head(downlink).req
    BY <2>1, SMTT(60) DEF StreamInv, IdsAgree, IdsDistinct
  <2>3. CancelOnlyAbandoned'
    <3> DEFINE i == Head(downlink).id
               r == active[i]
    <3>1. CASE r = NoReq
      BY <3>1, <1>22, SMTT(60) DEF DaemonCancels, gatewayVars, StreamInv, CancelOnlyAbandoned
    <3>2. CASE r # NoReq
      <4>1. cancelled' = [cancelled EXCEPT ![r] = TRUE] /\ UNCHANGED ctxDone
        BY <3>2, <1>22, SMTT(60) DEF DaemonCancels, gatewayVars
      <4>2. r \in Requests /\ ctxDone[r]
        BY <3>2, <2>1, <2>2, SMTT(60)
      <4> HIDE DEF r
      <4>3. \A q \in Requests : cancelled'[q] => q = r \/ cancelled[q]
        BY <4>1, Zenon
      <4> HIDE <1>t, TunnelAssumption
      <4> QED
        BY <4>1, <4>2, <4>3, Zenon DEF StreamInv, CancelOnlyAbandoned
    <3> QED
      BY <3>1, <3>2, Zenon
  <2>4. \A i \in StreamIDs : active'[i] # NoReq => active'[i] = active[i]
    BY <2>1, <1>22, SMTT(60) DEF DaemonCancels
  <2> QED
    BY <2>3, <2>4, <1>22, <1>19, SMTT(60) DEF DaemonCancels, gatewayVars, StreamInv, IdsAgree,
       IdsDistinct, CancelsAbandoned, StreamIsolation, PendingOnlyInFlight
<1>23. CASE UNCHANGED vars
  <2> HIDE <1>t, TunnelAssumption
  <2>1. UNCHANGED <<pc, id, ctxDone, got, pending, cancelled, downlink, active, uplink, chan>>
    BY <1>23, Zenon DEF vars, gatewayVars, daemonVars
  <2> QED
    BY <2>1, <1>a, <1>f, Zenon
<1> HIDE <1>t, TunnelAssumption
<1>24. CASE \E r \in Requests, err \in BOOLEAN : EmitLast(r, err)
  BY <1>14, <1>24, Zenon
<1> QED
  BY <1>1, <1>2, <1>3, <1>4, <1>5, <1>6, <1>8, <1>9, <1>10, <1>11, <1>13,
     <1>15, <1>16, <1>17, <1>18, <1>20, <1>21, <1>22, <1>23, <1>24, ZenonT(60)
     DEF Next, Caller, Receive

\* So they agree in every state.
LEMMA StreamInvariant ==
  ASSUME DistinctTimestamps
  PROVE  Spec => [](TypeInv /\ StreamInv)
<1>1. TypeInv /\ StreamInv /\ [Next]_vars => TypeInv' /\ StreamInv'
  BY TypeStep, StreamStep
<1> QED
  BY <1>1, TypeInit, StreamInit, PTL DEF Spec

\* As long as no two calls are stamped with the same nanosecond, no caller ever
\* receives a frame of another call's answer (session.readLoop's lookup by
\* stream id): for any number of concurrent calls on the tunnel.
THEOREM StreamsIsolated ==
  ASSUME DistinctTimestamps
  PROVE  Spec => []StreamIsolation
<1>1. StreamInv => StreamIsolation
  BY DEF StreamInv
<1> QED
  BY <1>1, StreamInvariant, PTL

\* Under the same condition a cancel frame only ever stops the upstream call of
\* a caller whose context is over (session.request's watcher, serveTunnel's
\* active map).
THEOREM CancelsOnlyAbandoned ==
  ASSUME DistinctTimestamps
  PROVE  Spec => []CancelOnlyAbandoned
<1>1. StreamInv => CancelOnlyAbandoned
  BY DEF StreamInv
<1> QED
  BY <1>1, StreamInvariant, PTL

\* Under the same condition session.pending never keeps an entry of a call that
\* has returned, whichever way it returned.
THEOREM PendingInFlight ==
  ASSUME DistinctTimestamps
  PROVE  Spec => []PendingOnlyInFlight
<1>1. StreamInv => PendingOnlyInFlight
  BY DEF StreamInv
<1> QED
  BY <1>1, StreamInvariant, PTL
=============================================================================
