------------------------ MODULE TunnelStreamOrderProofs ------------------------
(***************************************************************************)
(* The order of delivery in the data plane, that short answers arrive      *)
(* whole, and that TunnelStream implements ResponseStream, for any number  *)
(* of calls, any channel capacity and answers of any length.               *)
(***************************************************************************)
EXTENDS TunnelStreamProofs

-----------------------------------------------------------------------------
(***************************************************************************)
(* The inductive invariant.                                                *)
(***************************************************************************)

\* What readLoop has put into the channel of a call so far, received or not.
Accepted(r) == got[r] \o chan[r]

InFlight(r) == pc[r] \in {"registered", "waiting"}

\* A broken connection carries nothing.
LinkDown == ~up => uplink = <<>>

\* While the connection is up, a call in flight is in pending.
InPending == \A r \in Requests : up /\ InFlight(r) => pending[id[r]] = r

\* Before its request frame is written the daemon knows nothing of a call.
NotSent ==
  \A r \in Requests : pc[r] \in {"idle", "found", "registered"} =>
    /\ emitted[r] = 0 /\ work[r] = "none" /\ watcher[r] = "none"
    /\ \A f \in Range(downlink) : f.req # r

\* A request frame is written once, and in flight until the daemon starts on it.
OneRequest ==
  /\ \A f \in Range(downlink) : f.type = "request" => work[f.req] = "none"
  /\ \A j, k \in 1..Len(downlink) :
       /\ downlink[j].type = "request" /\ downlink[k].type = "request"
       /\ downlink[j].req = downlink[k].req
       => j = k

CallsInv == LinkDown /\ InPending /\ NotSent /\ OneRequest

\* A frame that ends the stream is the last one the goroutine produces.
LastFrame(f) == f.eos => f.n = emitted[f.src] /\ work[f.src] = "ended"

\* On the way to the gateway the frames of a call are in order.
UplinkOrder ==
  \A j, k \in 1..Len(uplink) :
    j < k /\ uplink[j].src = uplink[k].src => uplink[j].n < uplink[k].n

UplinkProduced == \A f \in Range(uplink) : f.n \in 1..emitted[f.src] /\ LastFrame(f)

\* In the channel too, and frame k is at place k up to the channel's capacity.
AcceptedOrder ==
  \A r \in Requests :
    /\ \A j, k \in 1..Len(Accepted(r)) : j < k => Accepted(r)[j].n < Accepted(r)[k].n
    /\ \A k \in 1..Len(Accepted(r)) :
         k <= Accepted(r)[k].n /\ (k <= ChanCap => Accepted(r)[k].n = k)

\* What has been accepted was produced before what is still under way.
AcceptedProduced ==
  \A r \in Requests : \A f \in Range(Accepted(r)) :
    /\ f.src = r /\ f.n <= emitted[r] /\ LastFrame(f)
    /\ \A g \in Range(uplink) : g.src = r => f.n < g.n

\* As long as fewer frames than the channel holds were accepted, none is lost.
NothingLost ==
  \A r \in Requests : up /\ InFlight(r) /\ Len(Accepted(r)) < ChanCap =>
    \A n \in (Len(Accepted(r)) + 1)..emitted[r] :
      \E g \in Range(uplink) : g.src = r /\ g.n = n

FramesInv == UplinkOrder /\ UplinkProduced /\ AcceptedOrder /\ AcceptedProduced /\ NothingLost

\* A complete call got its last frame, and all of them if they fit the channel.
CompleteInv ==
  \A r \in Requests : outcome[r] = "complete" =>
    /\ work[r] = "ended" /\ pc[r] = "done"
    /\ emitted[r] <= ChanCap => Len(got[r]) = emitted[r]

OrderInv == TypeInv /\ StreamInv /\ CallsInv /\ FramesInv /\ CompleteInv
-----------------------------------------------------------------------------
(***************************************************************************)
(* Queues, by position.                                                    *)
(***************************************************************************)

\* A write to a queue puts one element at its end.
LEMMA AppendAt ==
  ASSUME NEW S, NEW s \in Seq(S), NEW e \in S
  PROVE  /\ Append(s, e) \in Seq(S)
         /\ Len(s) \in Nat /\ Len(Append(s, e)) = Len(s) + 1
         /\ \A k \in 1..Len(s) : Append(s, e)[k] = s[k]
         /\ Append(s, e)[Len(s) + 1] = e
         /\ Range(Append(s, e)) = Range(s) \cup {e}
<1>1. /\ Append(s, e) \in Seq(S)
      /\ Len(Append(s, e)) = Len(s) + 1
      /\ \A k \in 1..Len(s) : Append(s, e)[k] = s[k]
      /\ Append(s, e)[Len(s) + 1] = e
  BY AppendProperties
<1>2. /\ Len(s) \in Nat
      /\ DOMAIN s = 1..Len(s)
      /\ DOMAIN Append(s, e) = 1..(Len(s) + 1)
  BY <1>1, LenProperties
<1>3. 1..(Len(s) + 1) = 1..Len(s) \cup {Len(s) + 1}
  BY <1>2
<1>4. Range(Append(s, e)) = Range(s) \cup {e}
  BY <1>1, <1>2, <1>3 DEF Range
<1> QED
  BY <1>1, <1>2, <1>4

\* A read from a queue takes the first element, and the others move up.
LEMMA TailAt ==
  ASSUME NEW S, NEW s \in Seq(S), s # <<>>
  PROVE  /\ Head(s) \in S /\ Tail(s) \in Seq(S)
         /\ Len(s) \in Nat \ {0} /\ Len(Tail(s)) = Len(s) - 1
         /\ Head(s) = s[1]
         /\ \A k \in 1..Len(Tail(s)) : Tail(s)[k] = s[k + 1]
         /\ Range(s) = {Head(s)} \cup Range(Tail(s))
<1>1. /\ Head(s) \in S /\ Tail(s) \in Seq(S)
      /\ Len(Tail(s)) = Len(s) - 1
      /\ \A k \in 1..Len(Tail(s)) : Tail(s)[k] = s[k + 1]
  BY HeadTailProperties
<1>2. /\ Len(s) \in Nat \ {0}
      /\ DOMAIN s = 1..Len(s)
      /\ DOMAIN Tail(s) = 1..(Len(s) - 1)
  BY <1>1, LenProperties, EmptySeq
<1>3. Head(s) = s[1]
  OBVIOUS
<1>4. /\ 1 \in 1..Len(s)
      /\ \A k \in 1..(Len(s) - 1) : k + 1 \in 1..Len(s)
      /\ \A k \in 1..Len(s) : k = 1 \/ (k - 1 \in 1..(Len(s) - 1) /\ s[k] = Tail(s)[k - 1])
  BY <1>1, <1>2
<1>5. Range(s) = {Head(s)} \cup Range(Tail(s))
  <2>1. ASSUME NEW e \in Range(s) PROVE e \in {Head(s)} \cup Range(Tail(s))
    <3>1. PICK k \in 1..Len(s) : e = s[k]
      BY <1>2 DEF Range
    <3>2. CASE k = 1
      BY <1>3, <3>1, <3>2
    <3>3. CASE k - 1 \in 1..(Len(s) - 1) /\ s[k] = Tail(s)[k - 1]
      BY <1>2, <3>1, <3>3, Zenon DEF Range
    <3> QED
      BY <1>4, <3>2, <3>3
  <2>2. ASSUME NEW e \in Range(Tail(s)) PROVE e \in Range(s)
    <3>1. PICK k \in 1..(Len(s) - 1) : e = Tail(s)[k]
      BY <1>2 DEF Range
    <3>2. e = s[k + 1] /\ k + 1 \in 1..Len(s)
      BY <1>1, <1>4, <3>1
    <3> QED
      BY <1>2, <3>2 DEF Range
  <2>3. Head(s) \in Range(s)
    BY <1>2, <1>3, <1>4 DEF Range
  <2> QED
    BY <2>1, <2>2, <2>3
<1> QED
  BY <1>1, <1>2, <1>3, <1>5

\* The element at a place is an element, and every element has a place.
LEMMA AtPlace ==
  ASSUME NEW S, NEW s \in Seq(S)
  PROVE  /\ \A k \in 1..Len(s) : s[k] \in Range(s)
         /\ \A e \in Range(s) : \E k \in 1..Len(s) : s[k] = e
         /\ Range(s) \subseteq S
  BY LenProperties, RangeOfSeq DEF Range

\* Receiving moves a frame within what was accepted; offering one adds it there.
LEMMA AcceptedMoves ==
  ASSUME NEW S, NEW g \in Seq(S), NEW c \in Seq(S)
  PROVE  /\ g \o c \in Seq(S)
         /\ Len(g \o c) = Len(g) + Len(c)
         /\ \A k \in 1..Len(g) : (g \o c)[k] = g[k]
         /\ c # <<>> => Append(g, Head(c)) \o Tail(c) = g \o c
         /\ c # <<>> => (g \o c)[Len(g) + 1] = Head(c)
         /\ \A f \in S : g \o Append(c, f) = Append(g \o c, f)
<1>1. /\ g \o c \in Seq(S)
      /\ Len(g \o c) = Len(g) + Len(c)
      /\ \A k \in 1..Len(g) : (g \o c)[k] = g[k]
  BY ConcatProperties, LenProperties
<1>2. ASSUME c # <<>> PROVE Append(g, Head(c)) \o Tail(c) = g \o c
  BY <1>2
<1>3. ASSUME c # <<>> PROVE (g \o c)[Len(g) + 1] = Head(c)
  BY <1>3
<1>4. ASSUME NEW f \in S PROVE g \o Append(c, f) = Append(g \o c, f)
  BY SMTT(60)
<1> QED
  BY <1>1, <1>2, <1>3, <1>4, Zenon
-----------------------------------------------------------------------------
(***************************************************************************)
(* The calls and the control frames.                                       *)
(***************************************************************************)

\* A caller that returns leaves pending and stays known to the daemon.
LEMMA ReturnCalls ==
  ASSUME TypeInv, StreamInv, CallsInv, NEW r \in Requests, NEW o, Return(r, o), pc[r] = "waiting",
         UNCHANGED <<id, up, emitted, work, watcher, downlink>>
  PROVE  InPending' /\ NotSent'
<1>1. /\ pc \in [Requests -> {"idle", "found", "registered", "waiting", "done"}]
      /\ pending \in [StreamIDs -> Requests \cup {NoReq}]
  BY DEF TypeInv, TypeOK
<1>2. /\ pc' = [pc EXCEPT ![r] = "done"] /\ pending' = [pending EXCEPT ![id[r]] = NoReq]
  BY DEF Return, Unregister
<1>3. InPending'
  <2> SUFFICES ASSUME NEW q \in Requests, up, InFlight(q)' PROVE pending'[id[q]] = q
    BY DEF InPending
  <2>1. q # r /\ InFlight(q)
    BY <1>1, <1>2 DEF InFlight
  <2>2. id[q] # NoID /\ id[q] \in StreamIDs /\ id[q] # id[r]
    BY <2>1, TunnelAssumption DEF InFlight, TypeInv, TypeOK, IdAssigned, StreamInv, IdsDistinct
  <2>3. pending[id[q]] = q
    BY <2>1 DEF CallsInv, InPending
  <2> QED
    BY <1>1, <1>2, <2>2, <2>3
<1>4. NotSent'
  BY <1>1, <1>2 DEF CallsInv, NotSent
<1> QED
  BY <1>3, <1>4

\* Every step keeps the calls and the control frames in order.
LEMMA CallsStep ==
  ASSUME DistinctTimestamps, TypeInv, StreamInv, CallsInv, [Next]_vars
  PROVE  CallsInv'
<1>t. /\ pc \in [Requests -> {"idle", "found", "registered", "waiting", "done"}]
      /\ id \in [Requests -> StreamIDs \cup {NoID}]
      /\ pending \in [StreamIDs -> Requests \cup {NoReq}]
      /\ downlink \in Seq(Control) /\ uplink \in Seq(Frame) /\ emitted \in [Requests -> Nat]
      /\ work \in [Requests -> {"none", "spawned", "active", "ended"}]
      /\ watcher \in [Requests -> {"none", "watching", "sent", "gone"}]
  BY DEF TypeInv, TypeOK
<1>c. LinkDown /\ InPending /\ NotSent /\ OneRequest
  BY DEF CallsInv
<1>d. Range(downlink) \subseteq Control /\ \A f \in Control : f.req \in Requests
  BY <1>t, AtPlace, ZenonT(60) DEF Control
\* What a step leaves alone it keeps.
<1>l. UNCHANGED <<up, uplink>> => LinkDown'
  BY <1>c, SMT DEF LinkDown
<1>p. UNCHANGED <<up, pc, pending, id>> => InPending'
  BY <1>c, SMT DEF InPending, InFlight
<1>n. UNCHANGED <<pc, emitted, work, watcher, downlink>> => NotSent'
  BY <1>c, Zenon DEF NotSent
<1>o. UNCHANGED <<work, downlink>> => OneRequest'
  BY <1>c, Zenon DEF OneRequest
<1>u. UNCHANGED <<up, uplink, pc, pending, id, emitted, work, watcher, downlink>> => CallsInv'
  BY <1>l, <1>p, <1>n, <1>o, Zenon DEF CallsInv
<1>1. ASSUME NEW r \in Requests, Lookup(r) PROVE CallsInv'
  <2>1. /\ UNCHANGED <<up, uplink, pending, id, emitted, work, watcher, downlink>>
        /\ pc[r] = "idle"
        /\ pc' = [pc EXCEPT ![r] = "found"] \/ pc' = [pc EXCEPT ![r] = "done"]
    BY <1>1, Zenon DEF Lookup, daemonVars
  <2>2. InPending'
    BY <1>t, <1>c, <2>1 DEF InPending, InFlight
  <2>3. NotSent'
    BY <1>t, <1>c, <2>1 DEF NotSent
  <2> QED
    BY <2>1, <2>2, <2>3, <1>l, <1>o, Zenon DEF CallsInv
<1>2. ASSUME NEW r \in Requests, Register(r) PROVE CallsInv'
  <2>1. PICK i \in StreamIDs : /\ id' = [id EXCEPT ![r] = i]
                               /\ pending' = [pending EXCEPT ![i] = r]
                               /\ \A q \in Requests : id[q] # i
    BY <1>2, Zenon DEF Register, StreamIDFor
  <2>2. /\ UNCHANGED <<up, uplink, emitted, work, watcher, downlink>>
        /\ pc[r] = "found" /\ pc' = [pc EXCEPT ![r] = "registered"]
    BY <1>2, Zenon DEF Register, daemonVars
  <2>3. InPending'
    <3> SUFFICES ASSUME NEW q \in Requests, up, InFlight(q)' PROVE pending'[id'[q]] = q
      BY <2>2 DEF InPending
    <3>1. CASE q = r
      BY <1>t, <2>1, <3>1
    <3>2. CASE q # r
      <4>1. InFlight(q) /\ pending[id[q]] = q
        BY <1>t, <1>c, <2>2, <3>2 DEF InFlight, InPending
      <4>2. id[q] # i /\ id[q] \in StreamIDs /\ id'[q] = id[q]
        BY <1>t, <2>1, <3>2, <4>1 DEF InFlight, TypeInv, IdAssigned
      <4> QED
        BY <1>t, <2>1, <4>1, <4>2
    <3> QED
      BY <3>1, <3>2
  <2>4. NotSent'
    BY <1>t, <1>c, <2>2 DEF NotSent
  <2> QED
    BY <2>2, <2>3, <2>4, <1>l, <1>o, Zenon DEF CallsInv
<1>3. ASSUME NEW r \in Requests, SendOK(r) PROVE CallsInv'
  <2> DEFINE f == [type |-> "request", id |-> id[r], req |-> r]
  <2>1. /\ UNCHANGED <<up, uplink, id, pending, emitted, work>>
        /\ pc[r] = "registered" /\ pc' = [pc EXCEPT ![r] = "waiting"]
        /\ watcher' = [watcher EXCEPT ![r] = "watching"]
    BY <1>3, Zenon DEF SendOK, daemonVars
  <2>2. downlink' = Append(downlink, f) \/ downlink' = downlink
    BY <1>3 DEF SendOK, Carry
  <2>3. f \in Control /\ f.req = r /\ f.type = "request"
    BY <1>t, <2>1 DEF Control, TypeInv, IdAssigned
  <2>4. work[r] = "none" /\ \A g \in Range(downlink) : g.req # r
    BY <1>c, <2>1 DEF NotSent
  <2> HIDE DEF f
  <2>5. InPending'
    BY <1>t, <1>c, <2>1 DEF InPending, InFlight
  <2>6. NotSent'
    <3> SUFFICES ASSUME NEW q \in Requests, pc'[q] \in {"idle", "found", "registered"}
                 PROVE  /\ emitted[q] = 0 /\ work[q] = "none" /\ watcher'[q] = "none"
                        /\ \A g \in Range(downlink') : g.req # q
      BY <2>1 DEF NotSent
    <3>1. q # r /\ pc'[q] = pc[q] /\ watcher'[q] = watcher[q]
      BY <1>t, <2>1
    <3>2. Range(Append(downlink, f)) = Range(downlink) \cup {f}
      BY <1>t, <2>3, AppendAt
    <3>3. Range(downlink') \subseteq Range(downlink) \cup {f}
      BY <2>2, <3>2, Zenon
    <3> QED
      BY <3>1, <3>3, <2>3, <1>c DEF NotSent
  <2>7. OneRequest'
    <3>1. CASE downlink' = downlink
      BY <3>1, <2>1, <1>o
    <3>2. CASE downlink' = Append(downlink, f)
      <4>1. /\ Len(downlink) \in Nat /\ Len(downlink') = Len(downlink) + 1
            /\ \A k \in 1..Len(downlink) : downlink'[k] = downlink[k] /\ downlink[k] \in Range(downlink)
            /\ downlink'[Len(downlink) + 1] = f
            /\ Range(downlink') = Range(downlink) \cup {f}
        BY <1>t, <3>2, <2>3, AppendAt, AtPlace
      <4>2. \A k \in 1..(Len(downlink) + 1) : k \in 1..Len(downlink) \/ k = Len(downlink) + 1
        BY <4>1
      <4>3. \A g \in Range(downlink') : g.type = "request" => work'[g.req] = "none"
        BY <4>1, <2>1, <2>3, <2>4, <1>c DEF OneRequest
      <4>4. ASSUME NEW j \in 1..Len(downlink'), NEW k \in 1..Len(downlink'),
                   downlink'[j].type = "request", downlink'[k].type = "request",
                   downlink'[j].req = downlink'[k].req
            PROVE  j = k
        BY <4>4, <4>1, <4>2, <2>3, <2>4, <1>c DEF OneRequest
      <4> QED
        BY <4>3, <4>4 DEF OneRequest
    <3> QED
      BY <3>1, <3>2, <2>2
  <2> QED
    BY <2>1, <2>5, <2>6, <2>7, <1>l, Zenon DEF CallsInv
<1>4. ASSUME NEW r \in Requests, SendFails(r) PROVE CallsInv'
  <2>1. /\ UNCHANGED <<up, uplink, id, emitted, work, watcher, downlink>> /\ ~up
        /\ pc[r] = "registered" /\ pc' = [pc EXCEPT ![r] = "done"]
    BY <1>4, Zenon DEF SendFails, daemonVars
  <2>2. InPending'
    BY <2>1 DEF InPending
  <2>3. NotSent'
    BY <1>t, <1>c, <2>1 DEF NotSent
  <2> QED
    BY <2>1, <2>2, <2>3, <1>l, <1>o, Zenon DEF CallsInv
<1>5. ASSUME NEW r \in Requests, Receive(r) PROVE CallsInv'
  <2>1. /\ UNCHANGED <<up, uplink, id, emitted, work, watcher, downlink>>
        /\ pc[r] = "waiting"
        /\ UNCHANGED <<pc, pending>> \/ \E o : Return(r, o)
    <3>1. CASE ReceiveFrame(r)
      BY <3>1, Zenon DEF ReceiveFrame, daemonVars
    <3>2. CASE ReceiveClosed(r)
      BY <3>2, Zenon DEF ReceiveClosed, daemonVars
    <3>3. CASE ReceiveCtxDone(r)
      BY <3>3, Zenon DEF ReceiveCtxDone, daemonVars
    <3> QED
      BY <1>5, <3>1, <3>2, <3>3, Zenon DEF Receive
  <2>2. CASE UNCHANGED <<pc, pending>>
    BY <2>1, <2>2, <1>u, Zenon
  <2>3. CASE \E o : Return(r, o)
    BY <2>1, <2>3, ReturnCalls, <1>l, <1>o, Zenon DEF CallsInv
  <2> QED
    BY <2>1, <2>2, <2>3, Zenon
<1>6. ASSUME NEW r \in Requests, ContextEnds(r) PROVE CallsInv'
  BY <1>6, <1>u, Zenon DEF ContextEnds, daemonVars
<1>7. ASSUME NEW r \in Requests, WatcherCancels(r) PROVE CallsInv'
  <2> DEFINE f == [type |-> "cancel", id |-> id[r], req |-> r]
  <2>1. /\ UNCHANGED <<up, uplink, id, pc, pending, emitted, work>>
        /\ watcher[r] = "watching" /\ watcher' = [watcher EXCEPT ![r] = "sent"]
    BY <1>7, Zenon DEF WatcherCancels, daemonVars
  <2>2. downlink' = Append(downlink, f) \/ downlink' = downlink
    BY <1>7 DEF WatcherCancels, Carry
  <2>3. f \in Control /\ f.req = r /\ f.type = "cancel"
    BY <1>t, <2>1 DEF Control, TypeInv, IdAssigned
  <2>4. pc[r] \notin {"idle", "found", "registered"}
    BY <1>c, <2>1 DEF NotSent
  <2> HIDE DEF f
  <2>5. NotSent'
    <3> SUFFICES ASSUME NEW q \in Requests, pc[q] \in {"idle", "found", "registered"}
                 PROVE  /\ emitted[q] = 0 /\ work[q] = "none" /\ watcher'[q] = "none"
                        /\ \A g \in Range(downlink') : g.req # q
      BY <2>1 DEF NotSent
    <3>1. q # r /\ watcher'[q] = watcher[q]
      BY <1>t, <2>1, <2>4
    <3>2. Range(Append(downlink, f)) = Range(downlink) \cup {f}
      BY <1>t, <2>3, AppendAt
    <3>3. Range(downlink') \subseteq Range(downlink) \cup {f}
      BY <2>2, <3>2, Zenon
    <3> QED
      BY <3>1, <3>3, <2>3, <1>c DEF NotSent
  <2>6. OneRequest'
    <3>1. CASE downlink' = downlink
      BY <3>1, <2>1, <1>o
    <3>2. CASE downlink' = Append(downlink, f)
      <4>1. /\ Len(downlink) \in Nat /\ Len(downlink') = Len(downlink) + 1
            /\ \A k \in 1..Len(downlink) : downlink'[k] = downlink[k]
            /\ downlink'[Len(downlink) + 1] = f
            /\ Range(downlink') = Range(downlink) \cup {f}
        BY <1>t, <3>2, <2>3, AppendAt
      <4>2. \A k \in 1..(Len(downlink) + 1) : k \in 1..Len(downlink) \/ k = Len(downlink) + 1
        BY <4>1
      <4> QED
        BY <4>1, <4>2, <2>1, <2>3, <1>c, SMTT(60) DEF OneRequest
    <3> QED
      BY <3>1, <3>2, <2>2
  <2> QED
    BY <2>1, <2>5, <2>6, <1>l, <1>p, Zenon DEF CallsInv
<1>8. ASSUME NEW r \in Requests, WatcherLeaves(r) PROVE CallsInv'
  <2>1. /\ UNCHANGED <<up, uplink, id, pc, pending, emitted, work, downlink>>
        /\ watcher[r] = "watching" /\ watcher' = [watcher EXCEPT ![r] = "gone"]
    BY <1>8, Zenon DEF WatcherLeaves, daemonVars
  <2>2. NotSent'
    BY <1>t, <1>c, <2>1 DEF NotSent
  <2> QED
    BY <2>1, <2>2, <1>l, <1>p, <1>o, Zenon DEF CallsInv
<1>9. ASSUME NEW r \in Requests, WorkStarts(r) PROVE CallsInv'
  <2>1. /\ UNCHANGED <<up, uplink, id, pc, pending, emitted, downlink, watcher>>
        /\ work[r] = "spawned" /\ work' = [work EXCEPT ![r] = "active"]
    BY <1>9, Zenon DEF WorkStarts, gatewayVars
  <2>2. NotSent'
    BY <1>t, <1>c, <2>1, SMTT(60) DEF NotSent
  <2>3. OneRequest'
    BY <1>t, <1>c, <1>d, <2>1 DEF OneRequest
  <2> QED
    BY <2>1, <2>2, <2>3, <1>l, <1>p, Zenon DEF CallsInv
\* A frame is emitted on a connection that is up, or lost.
<1>10. ASSUME NEW r \in Requests, NEW eos \in BOOLEAN, NEW err \in BOOLEAN, Reply(r, eos, err), UNCHANGED up
       PROVE  LinkDown'
  <2>1. CASE up
    BY <2>1, <1>10 DEF LinkDown
  <2>2. CASE ~up
    BY <2>2, <1>10, <1>c DEF Reply, LinkDown
  <2> QED
    BY <2>1, <2>2
<1>11. ASSUME NEW r \in Requests, EmitChunk(r) PROVE CallsInv'
  <2>1. /\ UNCHANGED <<up, id, pc, pending, work, downlink, watcher>>
        /\ work[r] = "active" /\ emitted' = [emitted EXCEPT ![r] = @ + 1]
        /\ Reply(r, FALSE, FALSE)
    BY <1>11, Zenon DEF EmitChunk, gatewayVars
  <2>2. NotSent'
    BY <1>t, <1>c, <2>1 DEF NotSent
  <2> QED
    BY <2>1, <2>2, <1>10, <1>p, <1>o, Zenon DEF CallsInv
<1>12. ASSUME NEW r \in Requests, NEW err \in BOOLEAN, EmitLast(r, err) PROVE CallsInv'
  <2>1. /\ UNCHANGED <<up, id, pc, pending, downlink, watcher>>
        /\ work[r] = "active" /\ work' = [work EXCEPT ![r] = "ended"]
        /\ emitted' = [emitted EXCEPT ![r] = @ + 1]
        /\ Reply(r, TRUE, err)
    BY <1>12, Zenon DEF EmitLast, gatewayVars
  <2>2. NotSent'
    BY <1>t, <1>c, <2>1, SMTT(60) DEF NotSent
  <2>3. OneRequest'
    BY <1>t, <1>c, <1>d, <2>1, SMTT(60) DEF OneRequest
  <2> QED
    BY <2>1, <2>2, <2>3, <1>10, <1>p, Zenon DEF CallsInv
<1>13. ASSUME GatewayRead PROVE CallsInv'
  <2>1. UNCHANGED <<up, id, pc, pending, emitted, work, downlink, watcher>> /\ uplink # <<>>
    BY <1>13, Zenon DEF GatewayRead, daemonVars
  <2>2. LinkDown'
    BY <1>c, <2>1, SMT DEF LinkDown
  <2> QED
    BY <2>1, <2>2, <1>p, <1>n, <1>o, Zenon DEF CallsInv
<1>14. ASSUME ConnLost PROVE CallsInv'
  <2>1. /\ UNCHANGED <<id, pc, pending, emitted, work, watcher>>
        /\ ~up' /\ uplink' = <<>> /\ downlink' = <<>>
    BY <1>14, Zenon DEF ConnLost, gatewayVars, daemonVars
  <2>2. Range(downlink') = {} /\ Len(downlink') = 0
    BY <2>1 DEF Range
  <2>3. LinkDown' /\ InPending'
    BY <2>1, Zenon DEF LinkDown, InPending
  <2>4. NotSent' /\ OneRequest'
    BY <1>c, <2>1, <2>2 DEF NotSent, OneRequest
  <2> QED
    BY <2>3, <2>4 DEF CallsInv
<1>15. ASSUME ReadLoopExit PROVE CallsInv'
  <2>1. UNCHANGED <<up, uplink, id, pc, emitted, work, downlink, watcher>> /\ ~up
    BY <1>15, Zenon DEF ReadLoopExit, daemonVars
  <2>2. InPending'
    BY <2>1, SMT DEF InPending
  <2> QED
    BY <2>1, <2>2, <1>l, <1>n, <1>o, Zenon DEF CallsInv
<1>16. ASSUME Unroute PROVE CallsInv'
  BY <1>16, <1>u, Zenon DEF Unroute, gatewayVars, daemonVars
\* The daemon takes a frame off the connection.
<1>17. ASSUME downlink # <<>>, downlink' = Tail(downlink)
       PROVE  /\ Head(downlink) \in Control /\ Head(downlink) = downlink[1]
              /\ Len(downlink) \in Nat \ {0} /\ Len(downlink') = Len(downlink) - 1
              /\ \A k \in 1..Len(downlink') : downlink'[k] = downlink[k + 1] /\ downlink'[k] \in Range(downlink')
              /\ Head(downlink) \in Range(downlink) /\ Range(downlink') \subseteq Range(downlink)
              /\ \A f \in Range(downlink') : \E k \in 1..Len(downlink') : f = downlink'[k]
  <2>1. /\ Head(downlink) \in Control /\ Tail(downlink) \in Seq(Control)
        /\ Len(downlink) \in Nat \ {0} /\ Len(Tail(downlink)) = Len(downlink) - 1
        /\ Head(downlink) = downlink[1]
        /\ \A k \in 1..Len(Tail(downlink)) : Tail(downlink)[k] = downlink[k + 1]
        /\ Range(downlink) = {Head(downlink)} \cup Range(Tail(downlink))
    BY <1>t, <1>17, TailAt, Zenon
  <2>2. /\ \A k \in 1..Len(Tail(downlink)) : Tail(downlink)[k] \in Range(Tail(downlink))
        /\ \A e \in Range(Tail(downlink)) : \E k \in 1..Len(Tail(downlink)) : Tail(downlink)[k] = e
    BY <2>1, AtPlace, ZenonT(60)
  <2> QED
    BY <1>17, <2>1, <2>2, Zenon
<1>18. ASSUME downlink # <<>>, downlink' = Tail(downlink),
              \/ work' = work
              \/ /\ Head(downlink).type = "request"
                 /\ \E w : work' = [work EXCEPT ![Head(downlink).req] = w]
       PROVE  OneRequest'
  <2>1. \A k \in 1..Len(downlink') : k + 1 \in 1..Len(downlink) /\ k + 1 # 1
    BY <1>17, <1>18
  <2>2. ASSUME NEW f \in Range(downlink'), f.type = "request" PROVE work'[f.req] = "none"
    <3>1. f.req \in Requests /\ Head(downlink).req \in Requests /\ work[f.req] = "none"
      BY <1>17, <1>18, <2>2, <1>d, <1>c, SMTT(60) DEF OneRequest
    <3>2. CASE work' = work
      BY <3>1, <3>2, SMTT(60)
    <3>3. CASE Head(downlink).type = "request" /\ \E w : work' = [work EXCEPT ![Head(downlink).req] = w]
      <4>1. PICK k \in 1..Len(downlink') : f = downlink[k + 1]
        BY <1>17, <1>18
      <4>2. f.req # Head(downlink).req
        BY <1>c, <1>17, <1>18, <2>1, <2>2, <3>3, <4>1 DEF OneRequest
      <4> QED
        BY <1>t, <3>1, <3>3, <4>2
    <3> QED
      BY <1>18, <3>2, <3>3, ZenonT(60)
  <2>3. ASSUME NEW j \in 1..Len(downlink'), NEW k \in 1..Len(downlink'),
               downlink'[j].type = "request", downlink'[k].type = "request",
               downlink'[j].req = downlink'[k].req
        PROVE  j = k
    <3>1. j + 1 = k + 1
      BY <1>c, <1>17, <1>18, <2>1, <2>3 DEF OneRequest
    <3> QED
      BY <3>1, SMTT(60)
  <2> QED
    BY <2>2, <2>3 DEF OneRequest
<1>19. ASSUME DaemonSpawns PROVE CallsInv'
  <2>1. /\ UNCHANGED <<up, uplink, id, pc, pending, emitted, watcher>>
        /\ downlink # <<>> /\ downlink' = Tail(downlink) /\ Head(downlink).type = "request"
        /\ work' = [work EXCEPT ![Head(downlink).req] = "spawned"]
    BY <1>19, ZenonT(60) DEF DaemonSpawns, gatewayVars
  <2>2. NotSent'
    BY <1>t, <1>c, <1>17, <2>1 DEF NotSent
  <2> QED
    BY <2>1, <2>2, <1>18, <1>l, <1>p, Zenon DEF CallsInv
<1>20. ASSUME DaemonRefuses PROVE CallsInv'
  <2> DEFINE r == Head(downlink).req
  <2>1. /\ UNCHANGED <<up, id, pc, pending, watcher>>
        /\ downlink # <<>> /\ downlink' = Tail(downlink) /\ Head(downlink).type = "request"
        /\ work' = [work EXCEPT ![r] = "ended"]
        /\ emitted' = [emitted EXCEPT ![r] = @ + 1]
        /\ Reply(r, TRUE, TRUE)
    BY <1>20, ZenonT(60) DEF DaemonRefuses, gatewayVars
  <2>2. r \in Requests /\ pc[r] \notin {"idle", "found", "registered"}
    BY <1>c, <1>d, <1>17, <2>1 DEF NotSent
  <2>3. LinkDown'
    BY <2>1, <2>2, <1>10, Zenon
  <2>4. OneRequest'
    BY <2>1, <1>18, Zenon
  <2>5. Range(downlink') \subseteq Range(downlink)
    BY <2>1, <1>17, ZenonT(60)
  <2> HIDE DEF r
  <2>6. NotSent'
    BY <1>t, <1>c, <2>1, <2>2, <2>5 DEF NotSent
  <2> QED
    BY <2>1, <2>3, <2>4, <2>6, <1>p, Zenon DEF CallsInv
<1>21. ASSUME DaemonCancels PROVE CallsInv'
  <2>1. /\ UNCHANGED <<up, uplink, id, pc, pending, emitted, watcher, work>>
        /\ downlink # <<>> /\ downlink' = Tail(downlink)
    BY <1>21, ZenonT(60) DEF DaemonCancels, gatewayVars
  <2>2. NotSent'
    BY <1>c, <1>17, <2>1 DEF NotSent
  <2> QED
    BY <2>1, <2>2, <1>18, <1>l, <1>p, Zenon DEF CallsInv
<1>22. ASSUME UNCHANGED vars PROVE CallsInv'
  BY <1>22, <1>u, Zenon DEF vars, gatewayVars, daemonVars
<1> QED
  BY <1>1, <1>2, <1>3, <1>4, <1>5, <1>6, <1>7, <1>8, <1>9, <1>11, <1>12, <1>13, <1>14, <1>15,
     <1>16, <1>19, <1>20, <1>21, <1>22, ZenonT(60) DEF Next, Caller
-----------------------------------------------------------------------------
(***************************************************************************)
(* The response frames.                                                    *)
(***************************************************************************)

\* What was accepted are frames, among them those in the channel.
LEMMA AcceptedType ==
  ASSUME TypeInv, NEW r \in Requests
  PROVE  /\ Accepted(r) \in Seq(Frame) /\ Len(Accepted(r)) \in Nat
         /\ Len(got[r]) \in Nat /\ Len(chan[r]) \in Nat
         /\ Len(Accepted(r)) = Len(got[r]) + Len(chan[r])
         /\ \A k \in 1..Len(Accepted(r)) : Accepted(r)[k] \in Range(Accepted(r))
         /\ \A f \in Range(Accepted(r)) : \E k \in 1..Len(Accepted(r)) : Accepted(r)[k] = f
         /\ Range(Accepted(r)) \subseteq Frame
<1>1. got[r] \in Seq(Frame) /\ chan[r] \in Seq(Frame)
  BY DEF TypeInv, TypeOK
<1>2. Accepted(r) \in Seq(Frame) /\ Len(Accepted(r)) = Len(got[r]) + Len(chan[r])
  BY <1>1, AcceptedMoves DEF Accepted
<1>3. Len(got[r]) \in Nat /\ Len(chan[r]) \in Nat /\ Len(Accepted(r)) \in Nat
  BY <1>1, <1>2, LenProperties, ZenonT(60)
<1> QED
  BY <1>2, <1>3, AtPlace, ZenonT(60)

\* Steps that neither produce, carry nor accept a response frame.
LEMMA FramesKept ==
  ASSUME FramesInv, UNCHANGED <<uplink, emitted>>, up' => up,
         \A r \in Requests : Accepted(r)' = Accepted(r),
         \A r \in Requests : work[r] = "ended" => work'[r] = "ended",
         \A r \in Requests : InFlight(r)' => InFlight(r) \/ emitted[r] = 0,
         TypeInv
  PROVE  FramesInv'
<1>1. \A f \in Frame : LastFrame(f) => LastFrame(f)'
  <2>1. \A f \in Frame : f.src \in Requests
    BY DEF Frame
  <2> QED
    BY <2>1, Zenon DEF LastFrame
<1>2. UplinkOrder'
  BY DEF FramesInv, UplinkOrder
<1>3. UplinkProduced'
  <2>1. Range(uplink) \subseteq Frame
    BY AtPlace DEF TypeInv, TypeOK
  <2> QED
    BY <1>1, <2>1, ZenonT(60) DEF FramesInv, UplinkProduced
<1>4. AcceptedOrder'
  BY Zenon DEF FramesInv, AcceptedOrder
<1>5. AcceptedProduced'
  BY <1>1, AcceptedType, Zenon DEF FramesInv, AcceptedProduced
<1>6. NothingLost'
  <2> SUFFICES ASSUME NEW r \in Requests, up', InFlight(r)', Len(Accepted(r)) < ChanCap,
                      NEW n \in (Len(Accepted(r)) + 1)..emitted[r]
               PROVE  \E g \in Range(uplink) : g.src = r /\ g.n = n
    BY ZenonT(60) DEF NothingLost
  <2>1. emitted[r] # 0
    BY AcceptedType
  <2> QED
    BY <2>1, ZenonT(60) DEF FramesInv, NothingLost
<1> QED
  BY <1>2, <1>3, <1>4, <1>5, <1>6 DEF FramesInv

\* The daemon produces a frame, which the connection carries or loses.
LEMMA FramesEmitted ==
  ASSUME TypeInv, LinkDown, FramesInv, NEW r \in Requests, NEW eos \in BOOLEAN, NEW err \in BOOLEAN,
         id[r] \in StreamIDs, work[r] # "ended", eos => work'[r] = "ended",
         Reply(r, eos, err), emitted' = [emitted EXCEPT ![r] = @ + 1],
         UNCHANGED <<up, pc>>, \A q \in Requests : Accepted(q)' = Accepted(q),
         \A q \in Requests : work[q] = "ended" => work'[q] = "ended"
  PROVE  FramesInv'
<1>1. /\ uplink \in Seq(Frame) /\ emitted \in [Requests -> Nat]
      /\ Range(uplink) \subseteq Frame /\ Len(uplink) \in Nat
      /\ \A k \in 1..Len(uplink) : uplink[k] \in Range(uplink)
  BY AtPlace, LenProperties DEF TypeInv, TypeOK
<1>2. /\ emitted'[r] = emitted[r] + 1 /\ \A q \in Requests : q # r => emitted'[q] = emitted[q]
      /\ \A q \in Requests : emitted[q] \in Nat /\ emitted'[q] \in Nat /\ emitted[q] <= emitted'[q]
  BY <1>1
<1>0. PICK new \in Frame :
        new = [id |-> id[r], src |-> r, n |-> emitted[r] + 1, eos |-> eos, err |-> err]
  <2>1. [id |-> id[r], src |-> r, n |-> emitted[r] + 1, eos |-> eos, err |-> err] \in Frame
    BY <1>1, SMTT(60) DEF Frame
  <2> QED
    BY <2>1, ZenonT(60)
<1>3. /\ new \in Frame /\ new.src = r /\ new.n = emitted[r] + 1 /\ new.eos = eos
      /\ \A f \in Frame : f.src \in Requests /\ f.n \in Nat
  BY <1>0 DEF Frame
<1>4. \A f \in Frame : LastFrame(f) => LastFrame(f)'
  BY <1>2, <1>3, Zenon DEF LastFrame
<1>5. LastFrame(new)'
  BY <1>2, <1>3, ZenonT(60) DEF LastFrame
<1>6. uplink' = Append(uplink, new) \/ (~up /\ uplink' = uplink /\ uplink = <<>>)
  <2>1. CASE up
    BY <1>0, <2>1, SMTT(60) DEF Reply
  <2>2. CASE ~up
    BY <2>2 DEF Reply, LinkDown
  <2> QED
    BY <2>1, <2>2
<1>7. /\ Len(Append(uplink, new)) = Len(uplink) + 1
      /\ \A k \in 1..Len(uplink) : Append(uplink, new)[k] = uplink[k]
      /\ Append(uplink, new)[Len(uplink) + 1] = new
      /\ Range(Append(uplink, new)) = Range(uplink) \cup {new}
  BY <1>1, <1>3, AppendAt
<1>8. Range(uplink) \subseteq Range(uplink') /\ Range(uplink') \subseteq Range(uplink) \cup {new}
  BY <1>6, <1>7, ZenonT(60)
<1>9. UplinkOrder'
  <2>1. CASE uplink' = uplink
    BY <2>1, SMTT(60) DEF FramesInv, UplinkOrder
  <2>2. CASE uplink' = Append(uplink, new)
    <3> SUFFICES ASSUME NEW j \in 1..(Len(uplink) + 1), NEW k \in 1..(Len(uplink) + 1),
                        j < k, uplink'[j].src = uplink'[k].src
                 PROVE  uplink'[j].n < uplink'[k].n
      BY <1>7, <2>2, ZenonT(60) DEF UplinkOrder
    <3>1. j \in 1..Len(uplink) /\ uplink'[j] = uplink[j]
      BY <1>1, <1>7, <2>2, SMTT(60)
    <3>2. CASE k \in 1..Len(uplink)
      BY <1>7, <2>2, <3>1, <3>2, SMTT(60) DEF FramesInv, UplinkOrder
    <3>3. CASE k = Len(uplink) + 1
      <4>1. uplink'[k] = new /\ uplink[j].src = r
        BY <1>3, <1>7, <2>2, <3>1, <3>3, SMTT(60)
      <4>2. uplink[j].n \in 1..emitted[r]
        BY <1>1, <3>1, <4>1, SMTT(60) DEF FramesInv, UplinkProduced
      <4> QED
        BY <1>2, <1>3, <3>1, <4>1, <4>2, SMTT(60)
    <3> QED
      BY <1>1, <3>2, <3>3
  <2> QED
    BY <1>6, <2>1, <2>2, SMTT(60)
<1>10. UplinkProduced'
  <2> SUFFICES ASSUME NEW f \in Range(uplink') PROVE f.n \in 1..emitted'[f.src] /\ LastFrame(f)'
    BY DEF UplinkProduced
  <2>1. CASE f = new
    <3>1. new.n \in 1..emitted'[new.src]
      BY <1>2, <1>3, SMTT(60)
    <3> QED
      BY <1>5, <2>1, <3>1, ZenonT(60)
  <2>2. CASE f \in Range(uplink)
    BY <1>1, <1>2, <1>3, <1>4, <2>2 DEF FramesInv, UplinkProduced
  <2> QED
    BY <1>8, <2>1, <2>2, SMTT(60)
<1>11. AcceptedOrder'
  BY Zenon DEF FramesInv, AcceptedOrder
<1>12. AcceptedProduced'
  <2> SUFFICES ASSUME NEW q \in Requests, NEW f \in Range(Accepted(q))
               PROVE  /\ f.src = q /\ f.n <= emitted'[q] /\ LastFrame(f)'
                      /\ \A g \in Range(uplink') : g.src = q => f.n < g.n
    BY Zenon DEF AcceptedProduced
  <2>1. /\ f \in Frame /\ f.src = q /\ f.n <= emitted[q] /\ LastFrame(f)
        /\ \A g \in Range(uplink) : g.src = q => f.n < g.n
    BY AcceptedType, ZenonT(60) DEF FramesInv, AcceptedProduced
  <2>2. f.n <= emitted'[q]
    BY <1>2, <1>3, <2>1, SMTT(60)
  <2>3. new.src = q => f.n < new.n
    BY <1>2, <1>3, <2>1, SMTT(60)
  <2> QED
    BY <1>4, <1>8, <2>1, <2>2, <2>3, Zenon
<1>13. NothingLost'
  <2> SUFFICES ASSUME NEW q \in Requests, up', InFlight(q)', Len(Accepted(q)) < ChanCap,
                      NEW n \in (Len(Accepted(q)) + 1)..emitted'[q]
               PROVE  \E g \in Range(uplink') : g.src = q /\ g.n = n
    BY DEF NothingLost
  <2>1. up /\ InFlight(q)
    BY SMTT(60) DEF InFlight
  <2>2. uplink' = Append(uplink, new)
    BY <1>6, <2>1
  <2>3. CASE q = r /\ n = emitted[r] + 1
    BY <1>3, <1>7, <2>2, <2>3, ZenonT(60)
  <2>4. CASE n \in (Len(Accepted(q)) + 1)..emitted[q]
    <3>1. PICK g \in Range(uplink) : g.src = q /\ g.n = n
      BY <2>1, <2>4, SMTT(60) DEF FramesInv, NothingLost
    <3> QED
      BY <1>8, <3>1, SMTT(60)
  <2>5. Len(Accepted(q)) \in Nat
    BY AcceptedType
  <2> QED
    BY <1>2, <2>3, <2>4, <2>5, SMTT(60)
<1> QED
  BY <1>9, <1>10, <1>11, <1>12, <1>13 DEF FramesInv

\* readLoop takes a frame off the connection and offers it to the channel of its call.
LEMMA FramesRead ==
  ASSUME TypeInv, StreamInv, CallsInv, FramesInv, GatewayRead
  PROVE  FramesInv'
<1>1. /\ uplink \in Seq(Frame) /\ uplink # <<>> /\ uplink' = Tail(uplink) /\ up
      /\ UNCHANGED <<up, pc, emitted, work, got>>
      /\ emitted \in [Requests -> Nat] /\ pending \in [StreamIDs -> Requests \cup {NoReq}]
      /\ got \in [Requests -> Seq(Frame)] /\ chan \in [Requests -> Seq(Frame)]
  BY DEF GatewayRead, daemonVars, CallsInv, LinkDown, TypeInv, TypeOK
<1>2. PICK f \in Frame : f = Head(uplink)
  BY <1>1, TailAt
<1>3. /\ Len(uplink) \in Nat \ {0} /\ Len(uplink') = Len(uplink) - 1
      /\ f = uplink[1] /\ \A k \in 1..Len(uplink') : uplink'[k] = uplink[k + 1]
      /\ Range(uplink) = {f} \cup Range(uplink') /\ Range(uplink) \subseteq Frame
      /\ uplink' \in Seq(Frame)
  BY <1>1, <1>2, TailAt, AtPlace, SMTT(60)
<1>4. /\ f.id \in StreamIDs /\ f.src \in Requests /\ f.n \in Nat
      /\ f.id = id[f.src] /\ f.n \in 1..emitted[f.src] /\ LastFrame(f)
  BY <1>3 DEF Frame, StreamInv, IdsAgree, FramesInv, UplinkProduced
<1>5. \A g \in Range(uplink') : g.src = f.src => f.n < g.n
  <2> SUFFICES ASSUME NEW g \in Range(uplink'), g.src = f.src PROVE f.n < g.n
    OBVIOUS
  <2>1. PICK k \in 1..Len(uplink') : g = uplink'[k]
    BY <1>3, AtPlace
  <2>2. k + 1 \in 1..Len(uplink) /\ 1 \in 1..Len(uplink) /\ 1 < k + 1 /\ g = uplink[k + 1]
    BY <1>3, <2>1
  <2> QED
    BY <1>3, <2>2, SMTT(60) DEF FramesInv, UplinkOrder
<1>6. UplinkOrder'
  <2> SUFFICES ASSUME NEW j \in 1..Len(uplink'), NEW k \in 1..Len(uplink'),
                      j < k, uplink'[j].src = uplink'[k].src
               PROVE  uplink'[j].n < uplink'[k].n
    BY DEF UplinkOrder
  <2>1. j + 1 \in 1..Len(uplink) /\ k + 1 \in 1..Len(uplink) /\ j + 1 < k + 1
    BY <1>3
  <2> QED
    BY <1>3, <2>1, SMTT(60) DEF FramesInv, UplinkOrder
<1>7. \A g \in Frame : LastFrame(g)' <=> LastFrame(g)
  BY <1>1, Zenon DEF LastFrame
<1>8. UplinkProduced'
  BY <1>1, <1>3, <1>7, Zenon DEF FramesInv, UplinkProduced
\* The call it is offered to is the one it answers.
<1>9. pending[f.id] # NoReq => pending[f.id] = f.src
  <2> SUFFICES ASSUME NEW q \in Requests, q = pending[f.id] PROVE q = f.src
    BY <1>1, <1>4, SMTT(60)
  <2>1. id[q] = f.id /\ f.id # NoID
    BY <1>4, TunnelAssumption DEF StreamInv, IdsAgree
  <2> QED
    BY <1>4, <2>1, SMTT(60) DEF StreamInv, IdsDistinct
<1>10. \A r \in Requests : r # f.src \/ pending[f.id] # r => Accepted(r)' = Accepted(r)
  <2> SUFFICES ASSUME NEW r \in Requests, r # f.src \/ pending[f.id] # r PROVE chan'[r] = chan[r]
    BY <1>1, ZenonT(60) DEF Accepted
  <2>1. CASE pending[f.id] = NoReq
    BY <1>2, <2>1, SMTT(60) DEF GatewayRead
  <2>2. CASE pending[f.id] # NoReq
    BY <1>1, <1>2, <1>9, <2>2 DEF GatewayRead
  <2> QED
    BY <2>1, <2>2
<1>11. ASSUME NEW r \in Requests, r = f.src, pending[f.id] = r
       PROVE  IF Len(chan[r]) < ChanCap THEN Accepted(r)' = Append(Accepted(r), f)
                                        ELSE Accepted(r)' = Accepted(r)
  <2>1. chan'[r] = Offer(chan[r], f) /\ got'[r] = got[r]
    BY <1>1, <1>2, <1>11, TunnelAssumption, SMTT(60) DEF GatewayRead
  <2>2. CASE Len(chan[r]) < ChanCap
    BY <1>1, <2>1, <2>2, AcceptedMoves, SMTT(60) DEF Offer, Accepted
  <2>3. CASE ~(Len(chan[r]) < ChanCap)
    BY <2>1, <2>3, ZenonT(60) DEF Offer, Accepted
  <2> QED
    BY <2>2, <2>3, SMTT(60)
\* A call that accepts nothing keeps what it has, and loses nothing it needs.
<1> DEFINE Takes(r) == r = f.src /\ pending[f.id] = r /\ Len(chan[r]) < ChanCap
<1>12. \A r \in Requests : ~Takes(r) => Accepted(r)' = Accepted(r)
  BY <1>10, <1>11, Zenon
<1>13. \A r \in Requests : Takes(r) => Accepted(r)' = Append(Accepted(r), f)
  BY <1>11, Zenon
<1>14. ASSUME NEW r \in Requests, InFlight(r), r = f.src, Len(Accepted(r)) < ChanCap PROVE Takes(r)
  BY <1>1, <1>4, <1>14, AcceptedType, TunnelAssumption DEF CallsInv, InPending
<1> HIDE DEF Takes
\* What the call that takes the frame has accepted comes before it.
<1>15. \A r \in Requests : /\ Accepted(r) \in Seq(Frame) /\ Len(Accepted(r)) \in Nat
                           /\ Range(Accepted(r)) \subseteq Frame
                           /\ \A k \in 1..Len(Accepted(r)) : Accepted(r)[k] \in Range(Accepted(r))
  BY AcceptedType, ZenonT(60)
<1>16. ASSUME NEW r \in Requests, r = f.src
       PROVE  \A k \in 1..Len(Accepted(r)) : k <= Accepted(r)[k].n /\ Accepted(r)[k].n < f.n
  <2> TAKE k \in 1..Len(Accepted(r))
  <2>1. Accepted(r)[k] \in Range(Accepted(r)) /\ f \in Range(uplink)
    BY <1>3, <1>15
  <2> QED
    BY <1>16, <2>1 DEF FramesInv, AcceptedOrder, AcceptedProduced
<1>17. ASSUME NEW r \in Requests, r = f.src PROVE Len(Accepted(r)) + 1 <= f.n
  <2>1. Len(Accepted(r)) \in Nat /\ f.n \in Nat \ {0} /\ emitted[r] \in Nat
    BY <1>1, <1>4, <1>15, <1>17
  <2>2. CASE Len(Accepted(r)) = 0
    BY <2>1, <2>2
  <2>3. CASE Len(Accepted(r)) # 0
    <3> DEFINE k == Len(Accepted(r))
    <3>1. k \in 1..Len(Accepted(r)) /\ Accepted(r)[k] \in Frame
      BY <1>15, <2>1, <2>3, SMTT(60)
    <3>2. k <= Accepted(r)[k].n /\ Accepted(r)[k].n < f.n
      BY <1>16, <1>17, <3>1, SMTT(60)
    <3>3. Accepted(r)[k].n \in Nat
      BY <3>1, SMTT(60) DEF Frame
    <3> QED
      BY <2>1, <3>2, <3>3, SMTT(60)
  <2> QED
    BY <2>2, <2>3, SMTT(60)
<1>18. ASSUME NEW r \in Requests, Takes(r) PROVE r = f.src /\ InFlight(r)
  BY <1>4, <1>18, TunnelAssumption, SMTT(60) DEF Takes, StreamInv, PendingOnlyInFlight, InFlight
<1>19. ASSUME NEW r \in Requests, Takes(r), Len(Accepted(r)) < ChanCap PROVE f.n = Len(Accepted(r)) + 1
  <2> DEFINE n == Len(Accepted(r)) + 1
  <2>1. n \in (Len(Accepted(r)) + 1)..emitted[r]
    BY <1>1, <1>4, <1>15, <1>17, <1>18, <1>19, SMTT(60)
  <2>2. PICK g \in Range(uplink) : g.src = r /\ g.n = n
    BY <1>1, <1>18, <1>19, <2>1, SMTT(60) DEF FramesInv, NothingLost
  <2>3. g = f \/ f.n < g.n
    BY <1>3, <1>5, <1>18, <1>19, <2>2, SMTT(60)
  <2> QED
    BY <1>4, <1>15, <1>17, <1>18, <1>19, <2>2, <2>3, SMTT(60)
<1>20. ASSUME NEW r \in Requests, Takes(r)
       PROVE  /\ Len(Accepted(r)') = Len(Accepted(r)) + 1
              /\ \A k \in 1..Len(Accepted(r)) : Accepted(r)'[k] = Accepted(r)[k]
              /\ Accepted(r)'[Len(Accepted(r)) + 1] = f
              /\ Range(Accepted(r)') = Range(Accepted(r)) \cup {f}
  <2>1. Accepted(r)' = Append(Accepted(r), f) /\ Accepted(r) \in Seq(Frame)
    BY <1>13, <1>15, <1>20, SMTT(60)
  <2>2. /\ Len(Append(Accepted(r), f)) = Len(Accepted(r)) + 1
        /\ \A k \in 1..Len(Accepted(r)) : Append(Accepted(r), f)[k] = Accepted(r)[k]
        /\ Append(Accepted(r), f)[Len(Accepted(r)) + 1] = f
        /\ Range(Append(Accepted(r), f)) = Range(Accepted(r)) \cup {f}
    BY <2>1, AppendAt, SMTT(60)
  <2> QED
    BY <2>1, <2>2, Zenon
<1>21. AcceptedOrder'
  <2> SUFFICES ASSUME NEW r \in Requests
               PROVE  /\ \A j, k \in 1..Len(Accepted(r)') : j < k => Accepted(r)'[j].n < Accepted(r)'[k].n
                      /\ \A k \in 1..Len(Accepted(r)') :
                           k <= Accepted(r)'[k].n /\ (k <= ChanCap => Accepted(r)'[k].n = k)
    BY SMTT(60) DEF AcceptedOrder
  <2>1. CASE ~Takes(r)
    BY <1>12, <2>1, SMTT(60) DEF FramesInv, AcceptedOrder
  <2>2. CASE Takes(r)
    <3> DEFINE L == Len(Accepted(r))
    <3>1. L \in Nat /\ ChanCap \in Nat /\ f.n \in Nat /\ r = f.src
      BY <1>4, <1>15, <1>18, <2>2, TunnelAssumption, SMTT(60)
    <3>2. \A k \in 1..(L + 1) : k \in 1..L \/ k = L + 1
      BY <3>1, SMTT(60)
    <3>3. ASSUME NEW j \in 1..(L + 1), NEW k \in 1..(L + 1), j < k
          PROVE  Accepted(r)'[j].n < Accepted(r)'[k].n
      <4>1. j \in 1..L /\ Accepted(r)'[j] = Accepted(r)[j]
        BY <1>20, <2>2, <3>1, <3>3, SMTT(60)
      <4>2. CASE k \in 1..L
        BY <1>20, <2>2, <3>3, <4>1, <4>2, SMTT(60) DEF FramesInv, AcceptedOrder
      <4>3. CASE k = L + 1
        BY <1>16, <1>20, <2>2, <3>1, <4>1, <4>3, SMTT(60)
      <4> QED
        BY <3>2, <4>2, <4>3, SMTT(60)
    <3>4. ASSUME NEW k \in 1..(L + 1)
          PROVE  k <= Accepted(r)'[k].n /\ (k <= ChanCap => Accepted(r)'[k].n = k)
      <4>1. CASE k \in 1..L
        BY <1>20, <2>2, <4>1, SMTT(60) DEF FramesInv, AcceptedOrder
      <4>2. CASE k = L + 1
        BY <1>17, <1>19, <1>20, <2>2, <3>1, <4>2, SMTT(60)
      <4> QED
        BY <3>2, <4>1, <4>2, SMTT(60)
    <3> QED
      BY <1>20, <2>2, <3>3, <3>4, SMTT(60)
  <2> QED
    BY <2>1, <2>2, SMTT(60)
<1>22. AcceptedProduced'
  <2> SUFFICES ASSUME NEW r \in Requests, NEW h \in Range(Accepted(r)')
               PROVE  /\ h.src = r /\ h.n <= emitted[r] /\ LastFrame(h)'
                      /\ \A g \in Range(uplink') : g.src = r => h.n < g.n
    BY <1>1 DEF AcceptedProduced
  <2>1. CASE h \in Range(Accepted(r))
    BY <1>3, <1>7, <1>15, <2>1, Zenon DEF FramesInv, AcceptedProduced
  <2>2. CASE Takes(r) /\ h = f
    <3>1. h.n <= emitted[r] /\ h.src = r
      BY <1>1, <1>4, <1>18, <2>2, SMTT(60)
    <3> QED
      BY <1>4, <1>5, <1>7, <1>18, <2>2, <3>1, ZenonT(60)
  <2> QED
    <3>1. CASE Takes(r)
      BY <1>20, <2>1, <2>2, <3>1, SMTT(60)
    <3>2. CASE ~Takes(r)
      BY <1>12, <2>1, <3>2, SMTT(60)
    <3> QED
      BY <3>1, <3>2, SMTT(60)
<1>23. NothingLost'
  <2> SUFFICES ASSUME NEW r \in Requests, InFlight(r), Len(Accepted(r)') < ChanCap,
                      NEW n \in (Len(Accepted(r)') + 1)..emitted[r]
               PROVE  \E g \in Range(uplink') : g.src = r /\ g.n = n
    BY <1>1, SMTT(60) DEF NothingLost, InFlight
  <2>1. CASE ~Takes(r)
    <3>1. Accepted(r)' = Accepted(r) /\ r # f.src
      BY <1>12, <1>14, <2>1, SMTT(60)
    <3>2. PICK g \in Range(uplink) : g.src = r /\ g.n = n
      BY <1>1, <3>1, SMTT(60) DEF FramesInv, NothingLost
    <3> QED
      BY <1>3, <3>1, <3>2, SMTT(60)
  <2>2. CASE Takes(r)
    <3>1. Len(Accepted(r)) < ChanCap /\ n \in (Len(Accepted(r)) + 1)..emitted[r] /\ n # Len(Accepted(r)) + 1
      BY <1>15, <1>20, <2>2, TunnelAssumption, SMTT(60)
    <3>2. PICK g \in Range(uplink) : g.src = r /\ g.n = n
      BY <1>1, <3>1, SMTT(60) DEF FramesInv, NothingLost
    <3>3. g # f
      BY <1>19, <2>2, <3>1, <3>2, SMTT(60)
    <3> QED
      BY <1>3, <3>2, <3>3, SMTT(60)
  <2> QED
    BY <2>1, <2>2, SMTT(60)
<1> QED
  BY <1>6, <1>8, <1>21, <1>22, <1>23, SMTT(60) DEF FramesInv
-----------------------------------------------------------------------------
(***************************************************************************)
(* What each step does to the answers and to the callers.                  *)
(***************************************************************************)

\* A request frame the daemon reads is for a call it has no goroutine of.
LEMMA RequestHead ==
  ASSUME TypeInv, CallsInv, downlink # <<>>, Head(downlink).type = "request"
  PROVE  /\ Head(downlink).req \in Requests /\ work[Head(downlink).req] = "none"
         /\ id[Head(downlink).req] \in StreamIDs
<1>1. Head(downlink) \in Control /\ Head(downlink) \in Range(downlink)
  BY TailRange DEF TypeInv, TypeOK
<1>2. Head(downlink).req \in Requests /\ Head(downlink).id \in StreamIDs
  BY <1>1 DEF Control
<1> QED
  BY <1>1, <1>2, ZenonT(60) DEF CallsInv, OneRequest, TypeInv

\* The daemon produces a frame of an answer.
Emits(r) ==
  \E eos, err \in BOOLEAN :
    /\ id[r] \in StreamIDs /\ work[r] # "ended" /\ (eos => work'[r] = "ended")
    /\ Reply(r, eos, err) /\ emitted' = [emitted EXCEPT ![r] = @ + 1]
    /\ UNCHANGED <<pc, got, chan, outcome, up>>

\* A caller goes on, or returns without a frame.
Moves(r) ==
  /\ pc[r] # "done"
  /\ \E next \in {"found", "registered", "waiting", "done"} :
       /\ pc' = [pc EXCEPT ![r] = next]
       /\ next \in {"registered", "waiting"} => InFlight(r) \/ pc[r] = "found"
  /\ \E o : outcome' = [outcome EXCEPT ![r] = o] /\ (o = "complete" => outcome[r] = "complete")
  /\ UNCHANGED <<got, chan, uplink, up, emitted>>

Quiet == UNCHANGED <<pc, got, chan, outcome, uplink, up, emitted>>

StepKind ==
  \/ \E r \in Requests : Emits(r) \/ Moves(r) \/ ReceiveFrame(r)
  \/ GatewayRead \/ ConnLost \/ Quiet

\* Every step is of one of these kinds, and a goroutine that has ended stays so.
LEMMA StepKinds ==
  ASSUME TypeInv, CallsInv, [Next]_vars
  PROVE  StepKind /\ \A q \in Requests : work[q] = "ended" => work'[q] = "ended"
<1>t. /\ work \in [Requests -> {"none", "spawned", "active", "ended"}]
      /\ outcome \in [Requests -> {"none", "unrouted", "send_failed", "complete",
                                   "answer", "error", "tunnel_closed", "ctx_done"}]
  BY DEF TypeInv, TypeOK
<1> DEFINE Kept == \A q \in Requests : work[q] = "ended" => work'[q] = "ended"
<1>0. \A r \in Requests : outcome = [outcome EXCEPT ![r] = outcome[r]]
  BY <1>t
<1>1. ASSUME NEW r \in Requests, Lookup(r) PROVE StepKind /\ Kept
  <2>1. /\ pc[r] = "idle" /\ \E next \in {"found", "done"} : pc' = [pc EXCEPT ![r] = next]
        /\ \E o : outcome' = [outcome EXCEPT ![r] = o] /\ (o = "complete" => outcome[r] = "complete")
    <3>1. CASE routed
      BY <1>1, <3>1, Zenon DEF Lookup
    <3>2. CASE ~routed
      <4>1. /\ pc[r] = "idle" /\ pc' = [pc EXCEPT ![r] = "done"]
            /\ outcome' = [outcome EXCEPT ![r] = "unrouted"]
        BY <1>1, <3>2 DEF Lookup
      <4>2. "unrouted" # "complete"
        OBVIOUS
      <4> QED
        BY <4>1, <4>2, Zenon
    <3> QED
      BY <3>1, <3>2
  <2>2. UNCHANGED <<got, chan, uplink, up, emitted, work>>
    BY <1>1, Zenon DEF Lookup, daemonVars
  <2>3. Moves(r)
    BY <2>1, <2>2, Zenon DEF Moves
  <2> QED
    BY <2>2, <2>3, Zenon DEF StepKind
<1>2. ASSUME NEW r \in Requests, Register(r) PROVE StepKind /\ Kept
  <2>1. /\ pc[r] = "found" /\ pc' = [pc EXCEPT ![r] = "registered"]
        /\ UNCHANGED <<outcome, got, chan, uplink, up, emitted, work>>
    BY <1>2, Zenon DEF Register, daemonVars
  <2>2. Moves(r)
    BY <1>0, <2>1 DEF Moves
  <2> QED
    BY <2>1, <2>2, Zenon DEF StepKind
<1>3. ASSUME NEW r \in Requests, SendOK(r) PROVE StepKind /\ Kept
  <2>1. /\ pc[r] = "registered" /\ pc' = [pc EXCEPT ![r] = "waiting"]
        /\ UNCHANGED <<outcome, got, chan, uplink, up, emitted, work>>
    BY <1>3, Zenon DEF SendOK, daemonVars
  <2>2. Moves(r)
    BY <1>0, <2>1, SMTT(60) DEF Moves, InFlight
  <2> QED
    BY <2>1, <2>2, Zenon DEF StepKind
<1>4. ASSUME NEW r \in Requests, SendFails(r) \/ ReceiveClosed(r) \/ ReceiveCtxDone(r)
      PROVE  StepKind /\ Kept
  <2>1. /\ pc[r] \in {"registered", "waiting"} /\ pc' = [pc EXCEPT ![r] = "done"]
        /\ \E o \in {"send_failed", "answer", "tunnel_closed", "ctx_done"} :
             outcome' = [outcome EXCEPT ![r] = o]
    BY <1>4 DEF SendFails, ReceiveClosed, ReceiveCtxDone, Return
  <2>2. UNCHANGED <<got, chan, uplink, up, emitted, work>>
    BY <1>4, Zenon DEF SendFails, ReceiveClosed, ReceiveCtxDone, daemonVars
  <2>3. Moves(r)
    BY <2>1, <2>2, Zenon DEF Moves
  <2> QED
    BY <2>2, <2>3, Zenon DEF StepKind
<1>5. ASSUME NEW r \in Requests, ReceiveFrame(r) PROVE StepKind /\ Kept
  BY <1>5, Zenon DEF StepKind, ReceiveFrame, daemonVars
<1>6. ASSUME NEW r \in Requests, ContextEnds(r) \/ WatcherCancels(r) \/ WatcherLeaves(r)
      PROVE  StepKind /\ Kept
  BY <1>6, Zenon DEF StepKind, Quiet, ContextEnds, WatcherCancels, WatcherLeaves, daemonVars
<1>7. ASSUME GatewayRead \/ ConnLost PROVE StepKind /\ Kept
  BY <1>7, Zenon DEF StepKind, GatewayRead, ConnLost, daemonVars
<1>8. ASSUME ReadLoopExit \/ Unroute \/ DaemonCancels \/ UNCHANGED vars PROVE StepKind /\ Kept
  BY <1>8, Zenon DEF StepKind, Quiet, ReadLoopExit, Unroute, DaemonCancels, vars, gatewayVars, daemonVars
<1>9. ASSUME NEW r \in Requests, WorkStarts(r) PROVE StepKind /\ Kept
  <2>1. work' = [work EXCEPT ![r] = "active"] /\ work[r] = "spawned"
    BY <1>9, Zenon DEF WorkStarts
  <2>2. Kept
    BY <1>t, <2>1
  <2> QED
    BY <1>9, <2>2, Zenon DEF WorkStarts, StepKind, Quiet, gatewayVars
<1>10. ASSUME NEW r \in Requests, EmitChunk(r) PROVE StepKind /\ Kept
  <2>1. id[r] \in StreamIDs /\ work[r] # "ended"
    BY <1>10 DEF EmitChunk, TypeInv, IdAssigned
  <2>2. Emits(r) /\ UNCHANGED work
    BY <1>10, <2>1, Zenon DEF EmitChunk, Emits, gatewayVars
  <2> QED
    BY <2>2, ZenonT(60) DEF StepKind
<1>11. ASSUME NEW r \in Requests, NEW err \in BOOLEAN, EmitLast(r, err) PROVE StepKind /\ Kept
  <2>1. id[r] \in StreamIDs /\ work[r] # "ended" /\ work' = [work EXCEPT ![r] = "ended"]
    BY <1>11 DEF EmitLast, TypeInv, IdAssigned
  <2>2. \A q \in Requests : work[q] = "ended" \/ q = r => work'[q] = "ended"
    BY <1>t, <2>1
  <2>3. Emits(r)
    BY <1>11, <2>1, <2>2, Zenon DEF EmitLast, Emits, gatewayVars
  <2> QED
    BY <2>2, <2>3, ZenonT(60) DEF StepKind
<1>12. ASSUME DaemonSpawns PROVE StepKind /\ Kept
  <2>1. /\ downlink # <<>> /\ Head(downlink).type = "request"
        /\ work' = [work EXCEPT ![Head(downlink).req] = "spawned"]
    BY <1>12, ZenonT(60) DEF DaemonSpawns
  <2>2. Kept
    BY <1>t, <2>1, RequestHead
  <2> QED
    BY <1>12, <2>2, Zenon DEF DaemonSpawns, StepKind, Quiet, gatewayVars
<1>13. ASSUME DaemonRefuses PROVE StepKind /\ Kept
  <2>1. PICK r \in Requests : r = Head(downlink).req /\ work[r] = "none" /\ id[r] \in StreamIDs
    BY <1>13, RequestHead, Zenon DEF DaemonRefuses
  <2>2. work' = [work EXCEPT ![r] = "ended"]
    BY <1>13, <2>1, Zenon DEF DaemonRefuses
  <2>3. \A q \in Requests : work[q] = "ended" \/ q = r => work'[q] = "ended"
    BY <1>t, <2>2
  <2>4. Emits(r)
    BY <1>13, <2>1, <2>3, Zenon DEF DaemonRefuses, Emits, gatewayVars
  <2> QED
    BY <2>3, <2>4, Zenon DEF StepKind
<1> HIDE DEF Kept
<1>14. StepKind /\ Kept
  BY <1>1, <1>2, <1>3, <1>4, <1>5, <1>6, <1>7, <1>8, <1>9, <1>10, <1>11, <1>12, <1>13, ZenonT(60)
     DEF Next, Caller, Receive
<1> QED
  BY <1>14, ZenonT(60) DEF Kept

\* Every step keeps the response frames in order.
LEMMA FramesStep ==
  ASSUME TypeInv, StreamInv, CallsInv, FramesInv, [Next]_vars
  PROVE  FramesInv'
<1>t. /\ pc \in [Requests -> {"idle", "found", "registered", "waiting", "done"}]
      /\ got \in [Requests -> Seq(Frame)] /\ chan \in [Requests -> Seq(Frame)]
  BY DEF TypeInv, TypeOK
<1>k. StepKind /\ \A q \in Requests : work[q] = "ended" => work'[q] = "ended"
  BY StepKinds, Zenon
<1>s. UNCHANGED <<got, chan>> => \A q \in Requests : Accepted(q)' = Accepted(q)
  BY Zenon DEF Accepted
<1>1. ASSUME NEW r \in Requests, Emits(r) PROVE FramesInv'
  <2>1. PICK eos \in BOOLEAN, err \in BOOLEAN :
          /\ id[r] \in StreamIDs /\ work[r] # "ended" /\ (eos => work'[r] = "ended")
          /\ Reply(r, eos, err) /\ emitted' = [emitted EXCEPT ![r] = @ + 1]
          /\ UNCHANGED <<pc, got, chan, up>>
    BY <1>1, ZenonT(60) DEF Emits
  <2> QED
    BY <1>k, <1>s, <2>1, FramesEmitted, Zenon DEF CallsInv
<1>2. ASSUME NEW r \in Requests, Moves(r) PROVE FramesInv'
  <2>1. \A q \in Requests : InFlight(q)' => InFlight(q) \/ emitted[q] = 0
    <3>1. PICK next \in {"found", "registered", "waiting", "done"} :
            /\ pc' = [pc EXCEPT ![r] = next]
            /\ next \in {"registered", "waiting"} => InFlight(r) \/ pc[r] = "found"
      BY <1>2, Zenon DEF Moves
    <3>2. pc[r] = "found" => emitted[r] = 0
      BY DEF CallsInv, NotSent
    <3> QED
      BY <1>t, <3>1, <3>2 DEF InFlight
  <2>2. UNCHANGED <<got, chan, uplink, up, emitted>>
    BY <1>2, ZenonT(60) DEF Moves
  <2> QED
    BY <1>k, <1>s, <2>1, <2>2, FramesKept, SMTT(60)
<1>3. ASSUME NEW r \in Requests, ReceiveFrame(r) PROVE FramesInv'
  <2>1. /\ UNCHANGED <<uplink, up, emitted>> /\ pc[r] = "waiting" /\ chan[r] # <<>>
        /\ got' = [got EXCEPT ![r] = Append(got[r], Head(chan[r]))]
        /\ chan' = [chan EXCEPT ![r] = Tail(chan[r])]
        /\ pc' = pc \/ pc' = [pc EXCEPT ![r] = "done"]
    BY <1>3, Zenon DEF ReceiveFrame, Return, daemonVars
  <2>2. \A q \in Requests : Accepted(q)' = Accepted(q)
    <3> SUFFICES ASSUME NEW q \in Requests PROVE got'[q] \o chan'[q] = got[q] \o chan[q]
      BY ZenonT(60) DEF Accepted
    <3>1. CASE q = r
      BY <1>t, <2>1, <3>1, AcceptedMoves, SMTT(60)
    <3>2. CASE q # r
      BY <1>t, <2>1, <3>2
    <3> QED
      BY <3>1, <3>2, Zenon
  <2>3. \A q \in Requests : InFlight(q)' => InFlight(q)
    BY <1>t, <2>1 DEF InFlight
  <2> QED
    BY <1>k, <2>1, <2>2, <2>3, FramesKept
<1>4. ASSUME ConnLost PROVE FramesInv'
  <2>1. uplink' = <<>> /\ UNCHANGED <<emitted, work, got, chan>> /\ ~up'
    BY <1>4, Zenon DEF ConnLost, gatewayVars, daemonVars
  <2>2. Range(uplink') = {} /\ Len(uplink') = 0
    BY <2>1 DEF Range
  <2>3. \A f \in Frame : LastFrame(f) => LastFrame(f)'
    BY <2>1, Zenon DEF LastFrame
  <2>4. UplinkOrder' /\ UplinkProduced'
    BY <2>2 DEF UplinkOrder, UplinkProduced
  <2>5. AcceptedOrder'
    BY <1>s, <2>1, Zenon DEF FramesInv, AcceptedOrder
  <2>6. AcceptedProduced'
    <3> SUFFICES ASSUME NEW q \in Requests, NEW f \in Range(Accepted(q))
                 PROVE  f.src = q /\ f.n <= emitted[q] /\ LastFrame(f)'
      BY <1>s, <2>1, <2>2, Zenon DEF AcceptedProduced
    <3> QED
      BY <2>3, AcceptedType, Zenon DEF FramesInv, AcceptedProduced
  <2>7. NothingLost'
    BY <2>1, ZenonT(60) DEF NothingLost
  <2> QED
    BY <2>4, <2>5, <2>6, <2>7 DEF FramesInv
<1>5. ASSUME Quiet PROVE FramesInv'
  <2>1. \A q \in Requests : InFlight(q)' => InFlight(q)
    BY <1>5, Zenon DEF Quiet, InFlight
  <2>2. UNCHANGED <<got, chan, uplink, up, emitted>>
    BY <1>5, Zenon DEF Quiet
  <2> QED
    BY <1>k, <1>s, <2>1, <2>2, FramesKept
<1> QED
  BY <1>k, <1>1, <1>2, <1>3, <1>4, <1>5, FramesRead, ZenonT(60) DEF StepKind

\* A call completes with a frame that ends its stream, and then stays as it is.
LEMMA CompleteStep ==
  ASSUME TypeInv, StreamInv, CallsInv, FramesInv, CompleteInv, [Next]_vars
  PROVE  CompleteInv'
<1>t. /\ pc \in [Requests -> {"idle", "found", "registered", "waiting", "done"}]
      /\ got \in [Requests -> Seq(Frame)] /\ chan \in [Requests -> Seq(Frame)]
      /\ outcome \in [Requests -> {"none", "unrouted", "send_failed", "complete",
                                   "answer", "error", "tunnel_closed", "ctx_done"}]
      /\ emitted \in [Requests -> Nat]
  BY DEF TypeInv, TypeOK
<1>k. StepKind /\ \A q \in Requests : work[q] = "ended" => work'[q] = "ended"
  BY StepKinds, ZenonT(60)
\* Calls that were complete, if nothing moves them.
<1>1. ASSUME NEW q \in Requests, outcome[q] = "complete",
             pc[q] = "done" => pc'[q] = "done" /\ got'[q] = got[q],
             work[q] = "ended" => emitted'[q] = emitted[q]
      PROVE  /\ work'[q] = "ended" /\ pc'[q] = "done"
             /\ emitted'[q] <= ChanCap => Len(got'[q]) = emitted'[q]
  BY <1>k, <1>1 DEF CompleteInv
<1>2. ASSUME NEW r \in Requests, Emits(r) PROVE CompleteInv'
  <2>1. /\ UNCHANGED <<pc, got, outcome>> /\ work[r] # "ended"
        /\ emitted' = [emitted EXCEPT ![r] = @ + 1]
    BY <1>2, ZenonT(60) DEF Emits
  <2>2. \A q \in Requests : work[q] = "ended" => emitted'[q] = emitted[q]
    BY <1>t, <2>1
  <2> QED
    BY <1>1, <2>1, <2>2, Zenon DEF CompleteInv
<1>3. ASSUME NEW r \in Requests, Moves(r) PROVE CompleteInv'
  <2>1. UNCHANGED <<got, emitted>> /\ pc[r] # "done"
    BY <1>3, Zenon DEF Moves
  <2>2. \A q \in Requests : q # r => pc'[q] = pc[q]
    BY <1>t, <1>3 DEF Moves
  <2>3. \A q \in Requests : outcome'[q] = "complete" => outcome[q] = "complete"
    <3>1. PICK o : outcome' = [outcome EXCEPT ![r] = o] /\ (o = "complete" => outcome[r] = "complete")
      BY <1>3, ZenonT(60) DEF Moves
    <3> QED
      BY <1>t, <3>1
  <2> QED
    BY <1>1, <2>1, <2>2, <2>3, ZenonT(60) DEF CompleteInv
<1>4. ASSUME NEW r \in Requests, ReceiveFrame(r) PROVE CompleteInv'
  <2> DEFINE f == Head(chan[r])
  <2>1. /\ UNCHANGED emitted /\ pc[r] = "waiting" /\ chan[r] # <<>>
        /\ got' = [got EXCEPT ![r] = Append(got[r], f)]
        /\ IF Verdict(r, f) = "none"
           THEN UNCHANGED <<pc, outcome>>
           ELSE pc' = [pc EXCEPT ![r] = "done"] /\ outcome' = [outcome EXCEPT ![r] = Verdict(r, f)]
    BY <1>4, SMTT(60) DEF ReceiveFrame, Return, daemonVars
  <2>2. ASSUME NEW q \in Requests, q # r, outcome'[q] = "complete"
        PROVE  /\ work'[q] = "ended" /\ pc'[q] = "done"
               /\ emitted'[q] <= ChanCap => Len(got'[q]) = emitted'[q]
    <3>1. outcome[q] = "complete" /\ pc'[q] = pc[q] /\ got'[q] = got[q]
      BY <1>t, <2>1, <2>2, SMTT(60)
    <3> QED
      BY <1>1, <2>1, <3>1, SMTT(60)
  <2>3. ASSUME outcome'[r] = "complete"
        PROVE  /\ work'[r] = "ended" /\ pc'[r] = "done"
               /\ emitted'[r] <= ChanCap => Len(got'[r]) = emitted'[r]
    <3>1. Verdict(r, f) = "complete"
      <4>1. outcome[r] # "complete"
        BY <2>1 DEF CompleteInv
      <4> QED
        BY <1>t, <2>1, <2>3, <4>1, SMTT(60)
    <3>2. f.eos
      BY <3>1 DEF Verdict
    <3> DEFINE k == Len(got[r]) + 1
    <3>3. /\ f = Accepted(r)[k] /\ k \in 1..Len(Accepted(r)) /\ f \in Range(Accepted(r))
          /\ Len(got'[r]) = k /\ f \in Frame
      <4>1. f = Accepted(r)[k]
        BY <1>t, <2>1, AcceptedMoves DEF Accepted
      <4>2. k \in 1..Len(Accepted(r))
        <5>1. Len(chan[r]) # 0
          BY <1>t, <2>1, TailAt
        <5>2. /\ Len(got[r]) \in Nat /\ Len(chan[r]) \in Nat
              /\ Len(Accepted(r)) = Len(got[r]) + Len(chan[r])
          BY AcceptedType, Zenon
        <5>3. \A a, b \in Nat : b # 0 => a + 1 \in 1..(a + b)
          BY SMTT(60)
        <5> QED
          BY <5>1, <5>2, <5>3, ZenonT(60)
      <4>3. Len(Append(got[r], f)) = k /\ f \in Frame
        BY <1>t, <2>1, TailAt, AppendAt, SMTT(60)
      <4>4. got'[r] = Append(got[r], f)
        BY <1>t, <2>1, SMTT(60)
      <4> QED
        BY <4>1, <4>2, <4>3, <4>4, AcceptedType, ZenonT(60)
    <3>4. f.src = r /\ f.n = emitted[r] /\ work[r] = "ended"
      BY <3>2, <3>3, SMTT(60) DEF FramesInv, AcceptedProduced, LastFrame
    <3>5. k <= f.n /\ (k <= ChanCap => f.n = k)
      BY <3>3, SMTT(60) DEF FramesInv, AcceptedOrder
    <3>6. f.n \in Nat /\ k \in Nat /\ ChanCap \in Nat
      BY <3>3, AcceptedType, TunnelAssumption DEF Frame
    <3>7. emitted[r] <= ChanCap => k = emitted[r]
      BY <3>4, <3>5, <3>6
    <3>8. pc'[r] = "done"
      BY <1>t, <2>1, <3>1
    <3> QED
      BY <1>k, <2>1, <3>3, <3>4, <3>7, <3>8, SMTT(60)
  <2> QED
    BY <2>2, <2>3, SMTT(60) DEF CompleteInv
<1>5. ASSUME GatewayRead \/ ConnLost \/ Quiet PROVE CompleteInv'
  <2>1. UNCHANGED <<pc, got, outcome, emitted>>
    BY <1>5, Zenon DEF GatewayRead, ConnLost, Quiet, gatewayVars, daemonVars
  <2> QED
    BY <1>1, <2>1, Zenon DEF CompleteInv
<1> QED
  BY <1>k, <1>2, <1>3, <1>4, <1>5, ZenonT(60) DEF StepKind
-----------------------------------------------------------------------------
(***************************************************************************)
(* The theorems.                                                           *)
(***************************************************************************)

\* Before the first call every queue is empty and nothing was produced.
LEMMA OrderInit == Init => OrderInv
<1> SUFFICES ASSUME Init PROVE OrderInv
  OBVIOUS
<1>1. Range(<<>>) = {} /\ Len(<<>>) = 0
  BY DEF Range
<1>2. \A r \in Requests : Accepted(r) = <<>>
  BY DEF Init, Accepted
<1>3. LinkDown /\ InPending
  BY SMTT(60) DEF Init, LinkDown, InPending, InFlight
<1>4. NotSent /\ OneRequest
  BY <1>1, SMTT(60) DEF Init, NotSent, OneRequest
<1>5. UplinkOrder /\ UplinkProduced
  BY <1>1, SMTT(60) DEF Init, UplinkOrder, UplinkProduced
<1>6. AcceptedOrder /\ AcceptedProduced
  BY <1>1, <1>2, SMTT(60) DEF AcceptedOrder, AcceptedProduced
<1>7. NothingLost
  BY DEF Init, NothingLost, InFlight
<1>8. CompleteInv
  BY DEF Init, CompleteInv
<1> QED
  BY <1>3, <1>4, <1>5, <1>6, <1>7, <1>8, TypeInit, StreamInit DEF OrderInv, CallsInv, FramesInv

\* Every step of callers, sessions and daemon keeps the whole invariant.
LEMMA OrderStep ==
  ASSUME DistinctTimestamps, OrderInv, [Next]_vars
  PROVE  OrderInv'
  BY TypeStep, StreamStep, CallsStep, FramesStep, CompleteStep, Zenon DEF OrderInv

\* Frames of one call are in order wherever they are.
LEMMA OrderInvariant ==
  ASSUME DistinctTimestamps
  PROVE  Spec => []OrderInv
<1>1. OrderInv /\ [Next]_vars => OrderInv'
  BY OrderStep
<1> QED
  BY <1>1, OrderInit, PTL DEF Spec

\* What a caller has received is the beginning of what was accepted.
LEMMA ReceivedFirst ==
  ASSUME TypeInv, NEW r \in Requests
  PROVE  /\ DOMAIN got[r] = 1..Len(got[r])
         /\ \A k \in 1..Len(got[r]) : got[r][k] = Accepted(r)[k] /\ k \in 1..Len(Accepted(r))
<1>1. got[r] \in Seq(Frame) /\ chan[r] \in Seq(Frame)
  BY DEF TypeInv, TypeOK
<1>2. \A k \in 1..Len(got[r]) : got[r][k] = Accepted(r)[k]
  BY <1>1, AcceptedMoves, ZenonT(60) DEF Accepted
<1>3. /\ Len(got[r]) \in Nat /\ Len(chan[r]) \in Nat
      /\ Len(Accepted(r)) = Len(got[r]) + Len(chan[r])
  BY AcceptedType, Zenon
<1>4. DOMAIN got[r] = 1..Len(got[r])
  BY <1>1, LenProperties
<1>5. \A a, b \in Nat : \A k \in 1..a : k \in 1..(a + b)
  OBVIOUS
<1> QED
  BY <1>2, <1>3, <1>4, <1>5, Zenon

\* A caller receives the frames of its answer in the order the connector emitted
\* them, none twice, however readLoop drops frames and whoever else uses the tunnel.
THEOREM DeliveryOrdered ==
  ASSUME DistinctTimestamps
  PROVE  Spec => []OrderedDelivery
<1>1. OrderInv => OrderedDelivery
  <2> SUFFICES ASSUME OrderInv, NEW r \in Requests, NEW j \in DOMAIN got[r], NEW k \in DOMAIN got[r], j < k
               PROVE  got[r][j].n < got[r][k].n
    BY SMTT(60) DEF OrderedDelivery
  <2>1. /\ got[r][j] = Accepted(r)[j] /\ j \in 1..Len(Accepted(r))
        /\ got[r][k] = Accepted(r)[k] /\ k \in 1..Len(Accepted(r))
    BY ReceivedFirst, SMTT(60) DEF OrderInv
  <2> QED
    BY <2>1 DEF OrderInv, FramesInv, AcceptedOrder
<1> QED
  BY <1>1, OrderInvariant, PTL

\* The first frame a caller receives is the first of the answer, the one with
\* status and headers: readLoop never drops it.
THEOREM FirstFrameKept ==
  ASSUME DistinctTimestamps
  PROVE  Spec => []StatusFrameFirst
<1>1. OrderInv => StatusFrameFirst
  <2> SUFFICES ASSUME OrderInv, NEW r \in Requests, got[r] # <<>> PROVE got[r][1].n = 1
    BY SMTT(60) DEF StatusFrameFirst
  <2>1. 1 \in 1..Len(got[r])
    BY TailAt DEF OrderInv, TypeInv, TypeOK
  <2>2. got[r][1] = Accepted(r)[1] /\ 1 \in 1..Len(Accepted(r))
    BY <2>1, ReceivedFirst DEF OrderInv
  <2>3. 1 <= ChanCap
    BY TunnelAssumption
  <2> QED
    BY <2>2, <2>3 DEF OrderInv, FramesInv, AcceptedOrder
<1> QED
  BY <1>1, OrderInvariant, PTL

\* An answer no longer than the channel's capacity that handleMCP forwarded to
\* its end was forwarded whole.
THEOREM ShortAnswersWhole ==
  ASSUME DistinctTimestamps
  PROVE  Spec => []ShortAnswerComplete
<1>1. OrderInv => ShortAnswerComplete
  BY DEF OrderInv, CompleteInv, ShortAnswerComplete
<1> QED
  BY <1>1, OrderInvariant, PTL
-----------------------------------------------------------------------------
(***************************************************************************)
(* TunnelStream implements ResponseStream.                                 *)
(***************************************************************************)

\* What ResponseStream sees of frames received, and of the callers.
Seen(s) == [k \in 1..Len(s) |-> <<s[k].src, s[k].n>>]

Delivered == [r \in Requests |-> Seen(got[r])]

Ended == [r \in Requests |-> pc[r] = "done"]

\* A frame received is one more frame seen, and the last.
LEMMA SeenGrows ==
  ASSUME NEW s \in Seq(Frame), NEW f \in Frame
  PROVE  /\ Seen(Append(s, f)) = Append(Seen(s), <<f.src, f.n>>)
         /\ Len(Seen(s)) = Len(s)
         /\ Seen(s) = <<>> => s = <<>>
<1>1. /\ Append(s, f) \in Seq(Frame) /\ Len(s) \in Nat /\ Len(Append(s, f)) = Len(s) + 1
      /\ \A k \in 1..Len(s) : Append(s, f)[k] = s[k]
      /\ Append(s, f)[Len(s) + 1] = f
  BY AppendAt
<1>2. ASSUME NEW q \in Seq(Frame) PROVE Seen(q) \in Seq(Requests \X Nat) /\ Len(Seen(q)) = Len(q)
  <2>1. \A k \in 1..Len(q) : <<q[k].src, q[k].n>> \in Requests \X Nat
    <3>1. \A k \in 1..Len(q) : q[k] \in Frame
      BY ElementOfSeq
    <3>2. \A g \in Frame : <<g.src, g.n>> \in Requests \X Nat
      BY DEF Frame
    <3> QED
      BY <3>1, <3>2, Zenon
  <2>2. Len(q) \in Nat
    BY LenProperties
  <2>3. Seen(q) \in [1..Len(q) -> Requests \X Nat]
    BY <2>1 DEF Seen
  <2>4. Seen(q) \in Seq(Requests \X Nat)
    BY <2>2, <2>3, SeqDef
  <2>5. DOMAIN Seen(q) = 1..Len(q)
    BY DEF Seen
  <2> QED
    BY <2>2, <2>4, <2>5, LenProperties
<1> DEFINE e == <<f.src, f.n>>
<1>3. e \in Requests \X Nat /\ Seen(s) \in Seq(Requests \X Nat)
  <2>1. f.src \in Requests /\ f.n \in Nat
    BY SMTT(60) DEF Frame
  <2> QED
    BY <1>2, <2>1, Zenon
<1>4. /\ Append(Seen(s), e) \in Seq(Requests \X Nat) /\ Len(Append(Seen(s), e)) = Len(Seen(s)) + 1
      /\ \A k \in 1..Len(Seen(s)) : Append(Seen(s), e)[k] = Seen(s)[k]
      /\ Append(Seen(s), e)[Len(Seen(s)) + 1] = e
  <2> DEFINE T == Requests \X Nat
  <2>1. e \in T /\ Seen(s) \in Seq(T)
    BY <1>3, Zenon
  <2>2. SUFFICES /\ Append(Seen(s), e) \in Seq(T) /\ Len(Append(Seen(s), e)) = Len(Seen(s)) + 1
                 /\ \A k \in 1..Len(Seen(s)) : Append(Seen(s), e)[k] = Seen(s)[k]
                 /\ Append(Seen(s), e)[Len(Seen(s)) + 1] = e
    BY Zenon
  <2> HIDE DEF e, T
  <2> QED
    BY <2>1, AppendProperties, SMTT(60)
<1>5. \A k \in 1..(Len(s) + 1) : Seen(Append(s, f))[k] = Append(Seen(s), e)[k]
  <2> SUFFICES ASSUME NEW k \in 1..(Len(s) + 1) PROVE Seen(Append(s, f))[k] = Append(Seen(s), e)[k]
    BY ZenonT(60)
  <2>1. Seen(Append(s, f))[k] = <<Append(s, f)[k].src, Append(s, f)[k].n>>
    BY <1>1 DEF Seen
  <2>2. CASE k \in 1..Len(s)
    <3>1. Seen(s)[k] = <<s[k].src, s[k].n>>
      BY <2>2, SMTT(60) DEF Seen
    <3>2. Append(Seen(s), e)[k] = Seen(s)[k]
      BY <1>2, <1>4, <2>2, SMTT(60)
    <3> QED
      BY <1>1, <2>1, <2>2, <3>1, <3>2, ZenonT(60)
  <2>3. CASE k = Len(s) + 1
    BY <1>1, <1>2, <1>4, <2>1, <2>3, SMTT(60)
  <2>4. \A a \in Nat : \A j \in 1..(a + 1) : j \in 1..a \/ j = a + 1
    OBVIOUS
  <2> QED
    BY <1>1, <2>2, <2>3, <2>4, Zenon
<1> HIDE DEF e
<1>6. Seen(Append(s, f)) = Append(Seen(s), e)
  <2>1. /\ Seen(Append(s, f)) \in Seq(Requests \X Nat)
        /\ Len(Seen(Append(s, f))) = Len(s) + 1 /\ Len(Append(Seen(s), e)) = Len(s) + 1
    BY <1>1, <1>2, <1>4, ZenonT(60)
  <2> QED
    BY <1>4, <1>5, <2>1, SeqEqual, ZenonT(60)
<1>7. Seen(s) = <<>> => s = <<>>
  BY <1>2, EmptySeq
<1> QED
  BY <1>2, <1>6, <1>7, SMTT(60) DEF e

\* Every step is one that ResponseStream allows, or invisible to it.
LEMMA RefinementStep ==
  ASSUME OrderInv, [Next]_vars
  PROVE  [RS!Next]_(RS!vars)
<1>t. /\ pc \in [Requests -> {"idle", "found", "registered", "waiting", "done"}]
      /\ got \in [Requests -> Seq(Frame)] /\ chan \in [Requests -> Seq(Frame)]
  BY DEF OrderInv, TypeInv, TypeOK
<1>k. StepKind
  BY StepKinds, Zenon DEF OrderInv
<1>u. UNCHANGED <<emitted, got, pc>> => UNCHANGED RS!vars
  BY Zenon DEF RS!vars
<1>1. ASSUME NEW r \in Requests, Emits(r) PROVE RS!Next
  <2>1. emitted' = [emitted EXCEPT ![r] = @ + 1] /\ UNCHANGED <<pc, got>>
    BY <1>1, Zenon DEF Emits
  <2>2. RS!Produce(r)
    BY <2>1, Zenon DEF RS!Produce
  <2> QED
    BY <2>2, Zenon DEF RS!Next
<1>2. ASSUME NEW r \in Requests, Moves(r) PROVE [RS!Next]_(RS!vars)
  <2>1. PICK next \in {"found", "registered", "waiting", "done"} : pc' = [pc EXCEPT ![r] = next]
    BY <1>2, Zenon DEF Moves
  <2>2. UNCHANGED <<got, emitted>> /\ pc[r] # "done"
    BY <1>2, Zenon DEF Moves
  <2>3. CASE next = "done"
    <3>1. Ended' = [Ended EXCEPT ![r] = TRUE] /\ ~Ended[r]
      BY <1>t, <2>1, <2>2, <2>3, ZenonT(60) DEF Ended
    <3>2. RS!End(r)
      BY <2>2, <3>1, SMTT(60) DEF RS!End, Ended
    <3> QED
      BY <3>2, Zenon DEF RS!Next
  <2>4. CASE next # "done"
    <3>1. Ended' = Ended
      BY <1>t, <2>1, <2>2, <2>4, SMTT(60) DEF Ended
    <3> QED
      BY <2>2, <3>1, SMTT(60) DEF RS!vars, Ended
  <2> QED
    BY <2>3, <2>4
<1>3. ASSUME NEW r \in Requests, ReceiveFrame(r) PROVE RS!Next
  <2>1. /\ UNCHANGED emitted /\ pc[r] = "waiting" /\ chan[r] # <<>>
        /\ got' = [got EXCEPT ![r] = Append(got[r], Head(chan[r]))]
        /\ pc' = pc \/ pc' = [pc EXCEPT ![r] = "done"]
    BY <1>3, ZenonT(60) DEF ReceiveFrame, Return, daemonVars
  <2>2. PICK f \in Frame : f = Head(chan[r])
    BY <1>t, <2>1, TailAt
  <2> DEFINE k == Len(got[r]) + 1
  <2>3. f = Accepted(r)[k] /\ k \in 1..Len(Accepted(r)) /\ f \in Range(Accepted(r))
    <3>1. f = Accepted(r)[k]
      BY <1>t, <2>1, <2>2, AcceptedMoves, SMTT(60) DEF Accepted
    <3>2. Len(chan[r]) # 0
      BY <1>t, <2>1, TailAt
    <3>3. /\ Len(got[r]) \in Nat /\ Len(chan[r]) \in Nat
          /\ Len(Accepted(r)) = Len(got[r]) + Len(chan[r])
          /\ \A j \in 1..Len(Accepted(r)) : Accepted(r)[j] \in Range(Accepted(r))
      BY AcceptedType, Zenon DEF OrderInv
    <3>4. \A a, b \in Nat : b # 0 => a + 1 \in 1..(a + b)
      BY SMTT(60)
    <3> QED
      BY <3>1, <3>2, <3>3, <3>4, ZenonT(60)
  <2>4. f.src = r /\ f.n <= emitted[r]
    BY <2>3, SMTT(60) DEF OrderInv, FramesInv, AcceptedProduced
  <2>5. f.n \in Nat \ {0} /\ emitted[r] \in Nat /\ Len(got[r]) \in Nat
    <3>1. k <= f.n
      BY <2>3, SMTT(60) DEF OrderInv, FramesInv, AcceptedOrder
    <3>2. f.n \in Nat /\ emitted[r] \in Nat /\ Len(got[r]) \in Nat
      BY <1>t, LenProperties, SMTT(60) DEF Frame, OrderInv, TypeInv, TypeOK
    <3> QED
      BY <3>1, <3>2, SMTT(60)
  <2>6. got[r] = <<>> => f.n = 1
    <3>1. got[r] = <<>> => k = 1
      OBVIOUS
    <3>2. 1 <= ChanCap
      BY TunnelAssumption, SMTT(60)
    <3> QED
      BY <2>3, <3>1, <3>2, SMTT(60) DEF OrderInv, FramesInv, AcceptedOrder
  <2>7. Len(got[r]) # 0 => got[r][Len(got[r])].n < f.n /\ got[r][Len(got[r])].n \in Nat
    <3> SUFFICES ASSUME Len(got[r]) # 0
                 PROVE  got[r][Len(got[r])].n < f.n /\ got[r][Len(got[r])].n \in Nat
      OBVIOUS
    <3>1. Len(got[r]) \in 1..Len(got[r]) /\ Len(got[r]) < k
      BY <2>5, SMTT(60)
    <3>2. got[r][Len(got[r])] = Accepted(r)[Len(got[r])] /\ Len(got[r]) \in 1..Len(Accepted(r))
      BY <3>1, ReceivedFirst, SMTT(60) DEF OrderInv
    <3>3. got[r][Len(got[r])] \in Frame
      BY <1>t, <3>1, ElementOfSeq, SMTT(60)
    <3> QED
      BY <2>3, <3>1, <3>2, <3>3, SMTT(60) DEF Frame, OrderInv, FramesInv, AcceptedOrder
  <2>8. Delivered' = [Delivered EXCEPT ![r] = Append(Delivered[r], <<r, f.n>>)]
    <3>1. Seen(Append(got[r], f)) = Append(Seen(got[r]), <<r, f.n>>)
      BY <1>t, <2>4, SeenGrows, SMTT(60)
    <3>2. /\ got'[r] = Append(got[r], f)
          /\ \A q \in Requests : q # r => got'[q] = got[q]
      BY <1>t, <2>1, <2>2, SMTT(60)
    <3>3. Delivered' = [q \in Requests |-> Seen(got'[q])]
      BY SMTT(60) DEF Delivered, Seen
    <3> QED
      BY <3>1, <3>2, <3>3, ZenonT(60) DEF Delivered
  <2>9. ~Ended[r] /\ \E e \in BOOLEAN : Ended' = [Ended EXCEPT ![r] = e]
    <3>1. CASE pc' = pc
      <4>1. Ended' = [Ended EXCEPT ![r] = FALSE]
        BY <1>t, <2>1, <3>1, Zenon DEF Ended
      <4> QED
        BY <2>1, <4>1, Zenon DEF Ended
    <3>2. CASE pc' = [pc EXCEPT ![r] = "done"]
      <4>1. Ended' = [Ended EXCEPT ![r] = TRUE]
        BY <1>t, <2>1, <3>2, ZenonT(60) DEF Ended
      <4> QED
        BY <2>1, <4>1, Zenon DEF Ended
    <3> QED
      BY <2>1, <3>1, <3>2
  <2> DEFINE last == IF Delivered[r] = <<>> THEN 0 ELSE Delivered[r][Len(Delivered[r])][2]
  <2>10. f.n \in (last + 1)..emitted[r] /\ (Delivered[r] = <<>> => f.n = 1)
    <3>1. Delivered[r] = Seen(got[r]) /\ Len(Seen(got[r])) = Len(got[r]) /\ (Seen(got[r]) = <<>> => got[r] = <<>>)
      BY <1>t, SeenGrows, SMTT(60) DEF Delivered
    <3>2. CASE got[r] = <<>>
      <4>1. Len(Seen(got[r])) = 0 /\ Seen(got[r]) = <<>>
        BY <3>1, <3>2, SMTT(60) DEF Seen
      <4> QED
        BY <2>4, <2>5, <2>6, <3>1, <3>2, <4>1, SMTT(60)
    <3>3. CASE got[r] # <<>>
      <4>1. Delivered[r] # <<>> /\ Len(got[r]) # 0 /\ Len(got[r]) \in 1..Len(got[r])
        BY <1>t, <2>5, <3>1, <3>3, EmptySeq, SMTT(60)
      <4>2. last = got[r][Len(got[r])].n
        BY <3>1, <4>1, SMTT(60) DEF Seen
      <4> HIDE DEF last
      <4> QED
        BY <2>4, <2>5, <2>7, <4>1, <4>2, SMTT(60)
    <3> QED
      BY <3>2, <3>3, SMTT(60)
  <2>11. RS!Deliver(r)
    BY <2>1, <2>8, <2>9, <2>10, Zenon DEF RS!Deliver, RS!LastOf, Delivered, Seen, Ended
  <2> QED
    BY <2>11, Zenon DEF RS!Next
<1>4. ASSUME GatewayRead \/ ConnLost \/ Quiet PROVE UNCHANGED RS!vars
  <2>1. UNCHANGED <<pc, got, emitted>>
    BY <1>4, Zenon DEF GatewayRead, ConnLost, Quiet, gatewayVars, daemonVars
  <2> QED
    BY <1>u, <2>1, Zenon
<1> QED
  BY <1>k, <1>1, <1>2, <1>3, <1>4, ZenonT(60) DEF StepKind

\* Initially nothing was produced, delivered or ended.
LEMMA RefinementInit == Init => RS!Init
<1> SUFFICES ASSUME Init PROVE RS!Init
  OBVIOUS
<1>1. emitted = [r \in Requests |-> 0]
  BY Zenon DEF Init
<1>2. Delivered = [r \in Requests |-> <<>>]
  <2>1. Seen(<<>>) = <<>>
    BY DEF Seen
  <2>2. \A r \in Requests : got[r] = <<>>
    BY Zenon DEF Init
  <2> QED
    BY <2>1, <2>2, Zenon DEF Delivered
<1>3. Ended = [r \in Requests |-> FALSE]
  BY Zenon DEF Init, Ended
<1> QED
  BY <1>1, <1>2, <1>3, Zenon DEF RS!Init, Delivered, Seen, Ended

\* Session, channels, connection and daemon together implement the abstract
\* stream: frames of its own answer only reach a caller, in order, none twice,
\* the first one first, and none after it has returned.
THEOREM StreamImplemented ==
  ASSUME DistinctTimestamps
  PROVE  Spec => ImplementsResponseStream
<1>1. OrderInv /\ [Next]_vars => [RS!Next]_(RS!vars)
  BY RefinementStep
<1> QED
  BY <1>1, OrderInvariant, RefinementInit, PTL DEF Spec, ImplementsResponseStream, RS!Spec
=============================================================================
