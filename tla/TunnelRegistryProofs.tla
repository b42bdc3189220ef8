-------------------------- MODULE TunnelRegistryProofs --------------------------
(***************************************************************************)
(* Theorems about TunnelRegistry, for any tunnels, tenants and components, *)
(* with or without stores, with any number of restarts: what the registry  *)
(* shows, where the routes lead, and who owns a name and a route.          *)
(***************************************************************************)
EXTENDS TunnelRegistry, TLAPS

\* Initially the variables have their types.
LEMMA TypeInit == Init => TypeOK
  BY RegistryAssumption DEF Init, TypeOK, Empty, Status

\* The keys built from a hello are keys of the maps.
LEMMA HelloKeys ==
  ASSUME NEW h \in Hello
  PROVE  /\ ConnectKey(h) \in ConnectKeys
         /\ ComponentKey(h) \in ComponentKeys
         /\ RouteKey(h) \in RouteKeys
  BY DEF Hello, ConnectKey, ComponentKey, RouteKey, ConnectKeys, ComponentKeys, RouteKeys

\* SetStatus keeps a map of statuses one, and changes only given entries that
\* exist.
LEMMA SetStatusFact ==
  ASSUME NEW S, NEW map \in [S -> Status], NEW keys, NEW status \in Status
  PROVE  /\ SetStatus(map, keys, status) \in [S -> Status]
         /\ \A k \in S : SetStatus(map, keys, status)[k] =
                           IF k \in keys /\ map[k] # "absent" THEN status ELSE map[k]
  BY DEF SetStatus

\* Every step keeps the types.
LEMMA TypeStep == TypeOK /\ (\A t \in Tunnels : pc[t] \in {"store", "publish"} => frame[t] \in Hello)
                         /\ (\A t \in Tunnels : pc[t] = "disconnect" => ident[t] \in ConnectKeys)
                         /\ [Next]_vars => TypeOK'
  <1> SUFFICES ASSUME TypeOK, [Next]_vars,
                      \A t \in Tunnels : pc[t] \in {"store", "publish"} => frame[t] \in Hello,
                      \A t \in Tunnels : pc[t] = "disconnect" => ident[t] \in ConnectKeys
               PROVE  TypeOK'
    OBVIOUS
  <1> USE RegistryAssumption
  <1>s. {"absent", "online", "offline"} = Status
    BY DEF Status
  <1>1. ASSUME NEW t \in Tunnels, Open(t) PROVE TypeOK'
    BY <1>1 DEF TypeOK, Open, Goto, registryVars, storeVars, loopVars
  <1>2. ASSUME NEW t \in Tunnels, NEW h \in HelloOf[t], HelloRejected(t, h) PROVE TypeOK'
    BY <1>2, HelloKeys DEF TypeOK, HelloRejected, registryVars, storeVars, loopVars
  <1>3. ASSUME NEW t \in Tunnels, NEW h \in HelloOf[t], HelloRegistered(t, h) PROVE TypeOK'
    <2>1. h \in Hello /\ h.name \in Names
      BY DEF Hello
    <2>2. connects' \in [ConnectKeys -> Status] /\ compStatus' \in [ComponentKeys -> Status]
                /\ compName' \in [ComponentKeys -> Names \cup {None}]
      BY <1>3, <2>1, HelloKeys DEF TypeOK, HelloRegistered, RegistryRegister, Status
    <2>3. ident' \in [Tunnels -> ConnectKeys \cup {None}]
      BY <1>3, <2>1, HelloKeys DEF TypeOK, HelloRegistered
    <2> QED
      BY <1>3, <2>1, <2>2, <2>3 DEF TypeOK, HelloRegistered, Goto, storeVars, loopVars
  <1>4. ASSUME NEW t \in Tunnels, NEW h \in HelloOf[t], Heartbeat(t, h) PROVE TypeOK'
    <2>1. h \in Hello
      OBVIOUS
    <2>2. connects' \in [ConnectKeys -> Status] /\ compStatus' \in [ComponentKeys -> Status]
      BY <1>4, SetStatusFact, <1>s DEF TypeOK, Heartbeat, RegistryHeartbeat
    <2>3. presence' \in SUBSET (ConnectKeys \cup ComponentKeys)
      BY <1>4, <2>1, HelloKeys DEF TypeOK, Heartbeat, SetPresence, KeysOf
    <2> QED
      BY <1>4, <2>2, <2>3, Zenon DEF TypeOK, Heartbeat, RegistryHeartbeat, storeVars, loopVars
  <1>5. ASSUME NEW t \in Tunnels, StoreCommits(t) PROVE TypeOK'
    <2>1. frame[t] \in Hello /\ frame[t].name \in Names
      BY <1>5 DEF StoreCommits, Hello
    <2>2. dbConnects' \in SUBSET ConnectKeys /\ dbNames' \in [ComponentKeys -> Names \cup {None}]
      BY <1>5, <2>1, HelloKeys DEF TypeOK, StoreCommits
    <2> QED
      BY <1>5, <2>2 DEF TypeOK, StoreCommits, Goto, registryVars, loopVars
  <1>6. ASSUME NEW t \in Tunnels, StoreFails(t) PROVE TypeOK'
    BY <1>6 DEF TypeOK, StoreFails, Goto, registryVars, storeVars, loopVars
  <1>7. ASSUME NEW t \in Tunnels, Publish(t) PROVE TypeOK'
    <2>1. frame[t] \in Hello
      BY <1>7 DEF Publish
    <2>2. sessions' \in [RouteKeys -> Tunnels \cup {None}]
      BY <1>7, <2>1, HelloKeys DEF TypeOK, Publish
    <2>3. presence' \in SUBSET (ConnectKeys \cup ComponentKeys)
      BY <1>7, <2>1, HelloKeys DEF TypeOK, Publish, SetPresence, KeysOf
    <2> QED
      BY <1>7, <2>2, <2>3 DEF TypeOK, Publish, Goto, registryVars, storeVars, loopVars
  <1>8. ASSUME NEW t \in Tunnels, Lost(t) PROVE TypeOK'
    BY <1>8 DEF TypeOK, Lost, Goto, registryVars, storeVars, loopVars
  <1>9. ASSUME NEW t \in Tunnels, Disconnect(t) PROVE TypeOK'
    <2>1. connects' \in [ConnectKeys -> Status] /\ compStatus' \in [ComponentKeys -> Status]
      BY <1>9, SetStatusFact, <1>s DEF TypeOK, Disconnect, RegistryDisconnect
    <2> QED
      BY <1>9, <2>1, Zenon DEF TypeOK, Disconnect, RegistryDisconnect, Goto, storeVars, loopVars
  <1>10. ASSUME NEW t \in Tunnels, ClearConnect(t) PROVE TypeOK'
    BY <1>10 DEF TypeOK, ClearConnect, Goto, registryVars, storeVars, loopVars
  <1>11. ASSUME NEW t \in Tunnels, Unroute(t) PROVE TypeOK'
    BY <1>11 DEF TypeOK, Unroute, RoutesWithout, Goto, registryVars, storeVars, loopVars
  <1>12. ASSUME Expire PROVE TypeOK'
    <2>1. connects' \in [ConnectKeys -> Status] /\ compStatus' \in [ComponentKeys -> Status]
      BY <1>12, SetStatusFact, <1>s DEF TypeOK, Expire
    <2> QED
      BY <1>12, <2>1 DEF TypeOK, Expire, storeVars, loopVars
  <1>13. ASSUME NEW k, KeyExpires(k) PROVE TypeOK'
    BY <1>13 DEF TypeOK, KeyExpires, registryVars, storeVars, loopVars
  <1>14. ASSUME PresenceCheck PROVE TypeOK'
    BY <1>14 DEF TypeOK, PresenceCheck, registryVars, storeVars
  <1>15. ASSUME PresenceAct PROVE TypeOK'
    <2>1. connects' \in [ConnectKeys -> Status] /\ compStatus' \in [ComponentKeys -> Status]
             /\ UNCHANGED compName
      BY <1>15, SetStatusFact, <1>s DEF TypeOK, PresenceAct, RegistryDisconnect
    <2> QED
      BY <1>15, <2>1 DEF TypeOK, PresenceAct, storeVars
  <1>16. ASSUME Crash PROVE TypeOK'
    BY <1>16 DEF TypeOK, Crash, Empty, Status, storeVars
  <1>17. ASSUME RestoreList PROVE TypeOK'
    BY <1>17 DEF TypeOK, RestoreList, registryVars, storeVars
  <1>18. ASSUME NEW k \in ConnectKeys, RestoreConnect(k) PROVE TypeOK'
    BY <1>18 DEF TypeOK, RestoreConnect, Status, storeVars
  <1>19. ASSUME UNCHANGED vars PROVE TypeOK'
    BY <1>19 DEF TypeOK, vars, registryVars, storeVars, loopVars
  <1> QED
    BY <1>1, <1>2, <1>3, <1>4, <1>5, <1>6, <1>7, <1>8, <1>9, <1>10, <1>11, <1>12, <1>13,
       <1>14, <1>15, <1>16, <1>17, <1>18, <1>19 DEF Next, Cleanup
-----------------------------------------------------------------------------
(***************************************************************************)
(* The inductive invariant.  RouteServed needs to know that the hello a    *)
(* handler is about to publish has been registered (FramesRegistered), and *)
(* that a tunnel speaks for one connect instance all its life              *)
(* (IdentFixed): otherwise a second hello could leave its old routes       *)
(* behind, or Disconnect would miss a component it announced.              *)
(***************************************************************************)
IdentFixed ==
  \A t \in Tunnels : ident[t] # None => \A h \in HelloOf[t] : ident[t] = ConnectKey(h)

FramesRegistered ==
  \A t \in Tunnels : pc[t] \in {"store", "publish"} =>
    /\ frame[t] \in HelloOf[t]
    /\ ident[t] = ConnectKey(frame[t])
    /\ compName[ComponentKey(frame[t])] # None

IdentKnown == \A t \in Tunnels : pc[t] \in {"disconnect", "clear"} => ident[t] # None

TunnelInv == TypeOK /\ IdentFixed /\ FramesRegistered /\ IdentKnown

RegistryInv == TunnelInv /\ RouteServed /\ NameUnique /\ OnlineHasTunnel

\* The invariant holds initially.
LEMMA RegistryInit == Init => RegistryInv
  <1> SUFFICES ASSUME Init PROVE RegistryInv
    OBVIOUS
  <1>1. TypeOK
    BY TypeInit
  <1> QED
    BY <1>1 DEF RegistryInv, TunnelInv, IdentFixed, FramesRegistered, IdentKnown, RouteServed,
                NameUnique, OnlineHasTunnel, Init, Empty

\* Every step keeps what each handler knows about itself.
LEMMA TunnelStep == TunnelInv /\ [Next]_vars => TunnelInv'
  <1> SUFFICES ASSUME TunnelInv, [Next]_vars PROVE TunnelInv'
    OBVIOUS
  <1> USE RegistryAssumption
  <1>t. TypeOK'
    <2>1. \A t \in Tunnels : pc[t] \in {"store", "publish"} => frame[t] \in Hello
      BY DEF TunnelInv, FramesRegistered
    <2>2. \A t \in Tunnels : pc[t] = "disconnect" => ident[t] \in ConnectKeys
      BY DEF TunnelInv, TypeOK, IdentKnown
    <2> QED
      BY <2>1, <2>2, TypeStep DEF TunnelInv
  <1>h. \A t \in Tunnels : \A g, h \in HelloOf[t] : ConnectKey(g) = ConnectKey(h)
    BY DEF ConnectKey
  <1>k. \A t \in Tunnels : \A h \in HelloOf[t] : ConnectKey(h) # None /\ ComponentKey(h) \in ComponentKeys
    BY HelloKeys
  <1>p. /\ pc \in [Tunnels -> {"idle", "read", "store", "publish", "disconnect",
                        "clear", "unroute", "done"}]
        /\ frame \in [Tunnels -> Hello \cup {None}]
    BY Zenon DEF TunnelInv, TypeOK
  <1> DEFINE Facts == IdentFixed /\ FramesRegistered /\ IdentKnown
  <1>1. ASSUME NEW t \in Tunnels,
               Open(t) \/ StoreCommits(t) \/ StoreFails(t) \/ Publish(t) \/ Lost(t) \/ Cleanup(t)
        PROVE  Facts'
    <2>1. UNCHANGED <<ident, compName>>
      BY <1>1 DEF Open, StoreCommits, StoreFails, Publish, Lost, Cleanup, Disconnect, ClearConnect,
                  Unroute, RegistryDisconnect, registryVars
    <2>2. IdentFixed'
      BY <2>1, Zenon DEF TunnelInv, IdentFixed
    <2>a. ASSUME Lost(t) PROVE Goto(t, "unroute") \/ (Goto(t, "disconnect") /\ ident[t] # None)
      <3> HIDE RegistryAssumption
      <3>1. Goto(t, IF ident[t] = None THEN "unroute" ELSE "disconnect")
        BY <2>a, Zenon DEF Lost
      <3> QED
        BY <3>1, Zenon
    <2>b. \/ Goto(t, "read") \/ Goto(t, "unroute") \/ Goto(t, "done")
          \/ Goto(t, "publish") /\ pc[t] = "store" /\ frame' = frame
          \/ Goto(t, "disconnect") /\ ident[t] # None
          \/ Goto(t, "clear") /\ pc[t] = "disconnect"
      BY <1>1, <2>a, ZenonT(60) DEF Open, StoreCommits, StoreFails, Publish, Cleanup, Disconnect, ClearConnect,
                  Unroute
    <2>c. frame' = frame \/ frame' = [frame EXCEPT ![t] = None]
      BY <1>1, ZenonT(60) DEF Open, StoreCommits, StoreFails, Publish, Lost, Cleanup, Disconnect, ClearConnect,
                  Unroute
    <2>3. \A s \in Tunnels \ {t} : pc'[s] = pc[s] /\ frame'[s] = frame[s]
      BY <1>p, <2>b, <2>c, SMTT(60) DEF Goto
    <2>4. pc'[t] # "store"
      BY <1>p, <2>b, SMTT(60) DEF Goto
    <2>5. pc'[t] = "publish" => pc[t] = "store" /\ frame'[t] = frame[t]
      BY <1>p, <2>b, SMTT(60) DEF Goto
    <2>6. pc'[t] \in {"disconnect", "clear"} => ident[t] # None
      BY <1>p, <2>b, SMTT(60) DEF Goto, TunnelInv, IdentKnown
    <2> QED
      BY <2>1, <2>2, <2>3, <2>4, <2>5, <2>6, SMTT(60) DEF TunnelInv, FramesRegistered, IdentKnown
  <1>2. ASSUME NEW t \in Tunnels, NEW h \in HelloOf[t], HelloRejected(t, h) PROVE Facts'
    BY <1>2, <1>h, <1>k DEF HelloRejected, TunnelInv, TypeOK, IdentFixed, FramesRegistered, IdentKnown,
                  registryVars
  <1>3. ASSUME NEW t \in Tunnels, NEW h \in HelloOf[t], HelloRegistered(t, h) PROVE Facts'
    <2>1. ident' = [ident EXCEPT ![t] = ConnectKey(h)] /\ frame' = [frame EXCEPT ![t] = h]
          /\ compName' = [compName EXCEPT ![ComponentKey(h)] = h.name]
          /\ pc' = [pc EXCEPT ![t] = IF UseStore THEN "store" ELSE "publish"]
      BY <1>3 DEF HelloRegistered, RegistryRegister, Goto
    <2>2. h.name \in Names /\ h.name # None
      BY DEF Hello
    <2>3. IdentFixed'
      BY <2>1, <1>h DEF TunnelInv, TypeOK, IdentFixed
    <2>4. \A k \in ComponentKeys : compName[k] # None => compName'[k] # None
      BY <2>1, <2>2, SMTT(60) DEF TunnelInv, TypeOK
    <2>5. FramesRegistered'
      BY <2>1, <2>2, <2>4, <1>k, SMTT(60) DEF TunnelInv, TypeOK, FramesRegistered
    <2>6. IdentKnown'
      BY <2>1, <1>k, SMTT(60) DEF TunnelInv, TypeOK, IdentKnown
    <2> QED
      BY <2>3, <2>5, <2>6
  <1>4. ASSUME UNCHANGED <<pc, frame, ident, compName>> PROVE Facts'
    BY <1>4, SMTT(60) DEF TunnelInv, IdentFixed, FramesRegistered, IdentKnown
  <1>5. ASSUME Crash PROVE Facts'
    BY <1>5 DEF Crash, TunnelInv, TypeOK, IdentFixed, FramesRegistered, IdentKnown
  <1>6. Facts'
    <2>1. ASSUME NEW t \in Tunnels, NEW h \in HelloOf[t], Heartbeat(t, h)
          PROVE  UNCHANGED <<pc, frame, ident, compName>>
      BY <2>1 DEF Heartbeat, RegistryHeartbeat
    <2>2. ASSUME \/ Expire \/ PresenceCheck \/ PresenceAct \/ RestoreList \/ UNCHANGED vars
                 \/ \E k \in ConnectKeys \cup ComponentKeys : KeyExpires(k)
                 \/ \E k \in ConnectKeys : RestoreConnect(k)
          PROVE  UNCHANGED <<pc, frame, ident, compName>>
      BY <2>2 DEF Expire, PresenceCheck, PresenceAct, RegistryDisconnect, RestoreList, KeyExpires,
                  RestoreConnect, registryVars, vars
    <2> HIDE DEF Facts
    <2> QED
      BY <1>1, <1>2, <1>3, <1>4, <1>5, <2>1, <2>2 DEF Next
  <1> QED
    BY <1>t, <1>6 DEF TunnelInv

\* Every step keeps the routes served.
LEMMA RouteStep == TunnelInv /\ RouteServed /\ [Next]_vars => RouteServed'
  <1> SUFFICES ASSUME TunnelInv, RouteServed, [Next]_vars PROVE RouteServed'
    OBVIOUS
  <1> USE RegistryAssumption
  <1>k. \A h \in Hello : RouteKey(h) \in RouteKeys /\ ComponentKey(h) \in ComponentKeys
                         /\ ConnectKey(h) # None
    BY HelloKeys, SMTT(60)
  <1>p. /\ pc \in [Tunnels -> {"idle", "read", "store", "publish", "disconnect",
                        "clear", "unroute", "done"}]
        /\ sessions \in [RouteKeys -> Tunnels \cup {None}]
        /\ compName \in [ComponentKeys -> Names \cup {None}]
    BY Zenon DEF TunnelInv, TypeOK
  <1>1. ASSUME UNCHANGED <<sessions, ident, compName>>,
               \A t \in Tunnels : pc'[t] \in {"idle", "done"} => pc[t] \in {"idle", "done"}
        PROVE  RouteServed'
    <2> HIDE RegistryAssumption
    <2>1. \A k \in RouteKeys : sessions[k] # None => sessions[k] \in Tunnels
      BY <1>p, Zenon
    <2> QED
      BY <1>1, <2>1, SMTT(60) DEF RouteServed
  <1>2. ASSUME NEW t \in Tunnels, NEW h \in HelloOf[t], HelloRejected(t, h) \/ HelloRegistered(t, h)
        PROVE  RouteServed'
    <2>1. sessions' = sessions /\ \A s \in Tunnels : ident[s] # None => ident'[s] = ident[s]
      BY <1>2 DEF HelloRejected, HelloRegistered, TunnelInv, TypeOK, IdentFixed
    <2>2. \A s \in Tunnels : pc[s] \notin {"idle", "done"} => pc'[s] \notin {"idle", "done"}
      BY <1>2, SMTT(60) DEF HelloRejected, HelloRegistered, Goto, TunnelInv, TypeOK
    <2>3. \A k \in ComponentKeys : compName[k] # None => compName'[k] # None
      <3>1. h.name # None /\ ComponentKey(h) \in ComponentKeys
        BY HelloKeys DEF Hello
      <3> QED
        <4>1. compName' = compName \/ compName' = [compName EXCEPT ![ComponentKey(h)] = h.name]
          BY <1>2, Zenon DEF HelloRejected, HelloRegistered, RegistryRegister, registryVars
        <4> QED
          BY <1>p, <3>1, <4>1, SMTT(60)
    <2>4. \A k \in RouteKeys : \A c \in ConnectKeys : <<k[1], c[2], k[2]>> \in ComponentKeys
      BY SMTT(60) DEF RouteKeys, ConnectKeys, ComponentKeys
    <2> SUFFICES ASSUME NEW k \in RouteKeys, NEW s \in Tunnels, s = sessions[k]
                 PROVE  /\ pc'[s] \notin {"idle", "done"} /\ ident'[s] # None
                        /\ ident'[s][1] = k[1] /\ compName'[<<k[1], ident'[s][2], k[2]>>] # None
      BY <1>p, <2>1, SMTT(60) DEF RouteServed
    <2>5. /\ s # None /\ pc[s] \notin {"idle", "done"} /\ ident[s] # None
          /\ ident[s][1] = k[1] /\ compName[<<k[1], ident[s][2], k[2]>>] # None
      BY DEF RouteServed
    <2>6. ident[s] \in ConnectKeys /\ ident'[s] = ident[s]
      BY <2>1, <2>5, SMTT(60) DEF TunnelInv, TypeOK
    <2> QED
      BY <2>2, <2>3, <2>4, <2>5, <2>6
  <1>3. ASSUME NEW t \in Tunnels, Publish(t) PROVE RouteServed'
    <2>1. PICK h \in Hello : /\ h = frame[t] /\ ident[t] = ConnectKey(h)
                             /\ compName[ComponentKey(h)] # None
      <3>1. pc[t] = "publish"
        BY <1>3, Zenon DEF Publish
      <3> QED
        BY <3>1, SMTT(60) DEF TunnelInv, FramesRegistered
    <2>2. /\ sessions' = [sessions EXCEPT ![RouteKey(h)] = t]
          /\ pc' = [pc EXCEPT ![t] = "read"]
          /\ UNCHANGED <<ident, compName>>
      BY <1>3, <2>1 DEF Publish, Goto, registryVars
    <2>3. ConnectKey(h) # None /\ ConnectKey(h)[1] = RouteKey(h)[1]
          /\ <<RouteKey(h)[1], ConnectKey(h)[2], RouteKey(h)[2]>> = ComponentKey(h)
      BY <1>k, Zenon DEF ConnectKey, RouteKey, ComponentKey
    <2>4. \A k \in RouteKeys : k # RouteKey(h) => sessions'[k] = sessions[k]
      BY <2>2 DEF TunnelInv, TypeOK
    <2>5. sessions'[RouteKey(h)] = t /\ pc'[t] = "read"
      BY <2>2, <1>k DEF TunnelInv, TypeOK
    <2>6. \A s \in Tunnels : pc[s] \notin {"idle", "done"} => pc'[s] \notin {"idle", "done"}
      BY <2>2, SMTT(60) DEF TunnelInv, TypeOK
    <2> QED
      BY <2>1, <2>2, <2>3, <2>4, <2>5, <2>6, SMTT(60) DEF TunnelInv, TypeOK, RouteServed
  <1>4. ASSUME NEW t \in Tunnels, Unroute(t) PROVE RouteServed'
    BY <1>4 DEF Unroute, RoutesWithout, Goto, registryVars, TunnelInv, TypeOK, RouteServed
  <1>5. ASSUME Crash PROVE RouteServed'
    BY <1>5 DEF Crash, Empty, RouteServed
  <1>6. ASSUME NEW t \in Tunnels, \/ Open(t) \/ StoreCommits(t) \/ StoreFails(t) \/ Lost(t)
                                 \/ Disconnect(t) \/ ClearConnect(t)
                                 \/ \E h \in HelloOf[t] : Heartbeat(t, h)
        PROVE  RouteServed'
    <2>1. UNCHANGED <<sessions, ident, compName>>
      BY <1>6, ZenonT(60) DEF Open, StoreCommits, StoreFails, Lost, Disconnect, ClearConnect, Heartbeat,
                  RegistryDisconnect, RegistryHeartbeat, registryVars
    <2>2. \A s \in Tunnels : pc'[s] \in {"idle", "done"} => pc[s] \in {"idle", "done"}
      <3>1. ASSUME Lost(t) PROVE Goto(t, "unroute") \/ Goto(t, "disconnect")
        BY <3>1, SMTT(60) DEF Lost
      <3>2. \/ pc' = pc \/ Goto(t, "read") \/ Goto(t, "publish") \/ Goto(t, "clear") \/ Goto(t, "unroute")
            \/ Goto(t, "disconnect")
        BY <1>6, <3>1, ZenonT(60) DEF Open, StoreCommits, StoreFails, Disconnect, ClearConnect, Heartbeat
      <3> QED
        BY <1>p, <3>2, SMTT(60) DEF Goto
    <2> QED
      BY <2>1, <2>2, <1>1
  <1>7. ASSUME \/ Expire \/ PresenceCheck \/ PresenceAct \/ RestoreList \/ UNCHANGED vars
               \/ \E k \in ConnectKeys \cup ComponentKeys : KeyExpires(k)
               \/ \E k \in ConnectKeys : RestoreConnect(k)
        PROVE  RouteServed'
    <2>1. UNCHANGED <<sessions, ident, compName, pc>>
      BY <1>7 DEF Expire, PresenceCheck, PresenceAct, RegistryDisconnect, RestoreList, KeyExpires,
                  RestoreConnect, registryVars, vars
    <2> QED
      BY <2>1, <1>1, SMTT(60)
  <1> HIDE DEF RouteServed
  <1> QED
    BY <1>2, <1>3, <1>4, <1>5, <1>6, <1>7 DEF Next, Cleanup

\* Every step keeps the names unique.
LEMMA NameStep == TunnelInv /\ NameUnique /\ [Next]_vars => NameUnique'
  <1> SUFFICES ASSUME TunnelInv, NameUnique, [Next]_vars PROVE NameUnique'
    OBVIOUS
  <1> USE RegistryAssumption
  <1>1. ASSUME NEW t \in Tunnels, NEW h \in HelloOf[t], HelloRegistered(t, h) PROVE NameUnique'
    <2>0. h \in Hello
      OBVIOUS
    <2>1. PICK m \in ComponentKeys : m = ComponentKey(h) /\ m[1] = h.tenant
      BY <2>0, HelloKeys, ZenonT(60) DEF ComponentKey
    <2>2. compName' = [compName EXCEPT ![m] = h.name]
      BY <1>1, <2>1, SMTT(60) DEF HelloRegistered, RegistryRegister
    <2>3. \A k \in ComponentKeys : k[1] = m[1] /\ compName[k] = h.name => k = m
      BY <1>1, <2>1, SMTT(60) DEF HelloRegistered, NameTaken
    <2> QED
      BY <2>2, <2>3 DEF TunnelInv, TypeOK, NameUnique
  <1>2. ASSUME Crash PROVE NameUnique'
    BY <1>2 DEF Crash, Empty, NameUnique
  <1>3. ASSUME UNCHANGED compName PROVE NameUnique'
    BY <1>3 DEF NameUnique
  <1>4. ASSUME NEW t \in Tunnels, \/ Open(t) \/ StoreCommits(t) \/ StoreFails(t) \/ Lost(t)
                                 \/ Publish(t) \/ Cleanup(t)
                                 \/ \E h \in HelloOf[t] : Heartbeat(t, h) \/ HelloRejected(t, h)
        PROVE  UNCHANGED compName
    BY <1>4, ZenonT(60) DEF Open, StoreCommits, StoreFails, Lost, Publish, Cleanup, Disconnect, ClearConnect,
                Unroute, Heartbeat, HelloRejected, RegistryDisconnect, RegistryHeartbeat, registryVars
  <1>5. ASSUME \/ Expire \/ PresenceCheck \/ PresenceAct \/ RestoreList \/ UNCHANGED vars
               \/ \E k \in ConnectKeys \cup ComponentKeys : KeyExpires(k)
               \/ \E k \in ConnectKeys : RestoreConnect(k)
        PROVE  UNCHANGED compName
    BY <1>5, SMTT(60) DEF Expire, PresenceCheck, PresenceAct, RegistryDisconnect, RestoreList, KeyExpires,
                RestoreConnect, registryVars, vars
  <1> HIDE DEF NameUnique
  <1> QED
    BY <1>1, <1>2, <1>3, <1>4, <1>5, SMTT(60) DEF Next
-----------------------------------------------------------------------------
\* Every step keeps a tunnel behind each online component.
LEMMA OnlineStep == TunnelInv /\ OnlineHasTunnel /\ [Next]_vars => OnlineHasTunnel'
  <1> SUFFICES ASSUME TunnelInv, OnlineHasTunnel, [Next]_vars PROVE OnlineHasTunnel'
    OBVIOUS
  <1> USE RegistryAssumption
  <1> DEFINE Open4 == {"read", "store", "publish", "disconnect"}
             Back(t, k) == ident[t] = <<k[1], k[2]>> /\ pc[t] \in Open4
  <1>s. "online" \in Status /\ "offline" \in Status /\ "online" # "offline"
    BY SMTT(60) DEF Status
  <1>0. \A k \in ComponentKeys : compStatus[k] = "online" => \E t \in Tunnels : Back(t, k)
    BY SMTT(60) DEF OnlineHasTunnel
  \* No component comes online, and every tunnel that backs one still does.
  <1>1. ASSUME \A k \in ComponentKeys : compStatus'[k] = "online" => compStatus[k] = "online",
               \A t \in Tunnels : pc[t] \in Open4 /\ ident[t] # None =>
                                  pc'[t] \in Open4 /\ ident'[t] = ident[t]
        PROVE  OnlineHasTunnel'
    <2> SUFFICES ASSUME NEW k \in ComponentKeys, compStatus'[k] = "online"
                 PROVE  \E t \in Tunnels : ident'[t] = <<k[1], k[2]>> /\ pc'[t] \in Open4
      BY SMTT(60) DEF OnlineHasTunnel
    <2>1. PICK t \in Tunnels : Back(t, k)
      BY <1>0, <1>1, Zenon
    <2>2. <<k[1], k[2]>> \in ConnectKeys
      BY DEF ConnectKeys, ComponentKeys
    <2> QED
      BY <1>1, <2>1, <2>2
  \* A tunnel brings a component of its own connect instance online.
  <1>2. ASSUME NEW t \in Tunnels, NEW h \in HelloOf[t], pc'[t] \in Open4, ident'[t] = ConnectKey(h),
               \A s \in Tunnels \ {t} : pc'[s] = pc[s] /\ ident'[s] = ident[s],
               ident[t] # None => ident[t] = ident'[t],
               \A k \in ComponentKeys \ {ComponentKey(h)} :
                  compStatus'[k] = "online" => compStatus[k] = "online"
        PROVE  OnlineHasTunnel'
    <2> SUFFICES ASSUME NEW k \in ComponentKeys, compStatus'[k] = "online"
                 PROVE  \E s \in Tunnels : ident'[s] = <<k[1], k[2]>> /\ pc'[s] \in Open4
      BY SMTT(60) DEF OnlineHasTunnel
    <2>1. CASE k = ComponentKey(h)
      BY <1>2, <2>1 DEF ConnectKey, ComponentKey
    <2>2. CASE k # ComponentKey(h)
      <3>1. PICK s \in Tunnels : Back(s, k)
        BY <1>0, <1>2, <2>2, ZenonT(60)
      <3>2. <<k[1], k[2]>> \in ConnectKeys
        BY SMTT(60) DEF ConnectKeys, ComponentKeys
      <3> QED
        BY <1>2, <3>1, <3>2
    <2> QED
      BY <2>1, <2>2
  <1>3. ASSUME NEW t \in Tunnels, NEW h \in HelloOf[t], HelloRegistered(t, h) PROVE OnlineHasTunnel'
    <2>0. h \in Hello
      OBVIOUS
    <2>1. pc'[t] \in Open4 /\ ident'[t] = ConnectKey(h)
          /\ \A s \in Tunnels \ {t} : pc'[s] = pc[s] /\ ident'[s] = ident[s]
      BY <1>3, SMTT(60) DEF HelloRegistered, Goto, TunnelInv, TypeOK
    <2>2. ident[t] # None => ident[t] = ident'[t]
      BY <2>1, SMTT(60) DEF TunnelInv, IdentFixed
    <2>3. \A k \in ComponentKeys \ {ComponentKey(h)} : compStatus'[k] = compStatus[k]
      BY <1>3, <2>0, HelloKeys, SMTT(60) DEF HelloRegistered, RegistryRegister, TunnelInv, TypeOK
    <2> QED
      BY <2>1, <2>2, <2>3, <1>2, SMTT(60)
  <1>4. ASSUME NEW t \in Tunnels, NEW h \in HelloOf[t], Heartbeat(t, h) PROVE OnlineHasTunnel'
    <2>0. pc' = pc /\ ident' = ident /\ pc[t] = "read" /\ ident[t] # None
      BY <1>4, Zenon DEF Heartbeat
    <2>a. ident[t] = ConnectKey(h)
      BY <2>0, Zenon DEF TunnelInv, IdentFixed
    <2>1. pc'[t] \in Open4 /\ ident'[t] = ConnectKey(h) /\ pc' = pc /\ ident' = ident
      BY <2>0, <2>a, Zenon
    <2>2. \A k \in ComponentKeys \ {ComponentKey(h)} : compStatus'[k] = compStatus[k]
      BY <1>4, <1>s, SetStatusFact, SMTT(60) DEF Heartbeat, RegistryHeartbeat, TunnelInv, TypeOK
    <2> QED
      BY <2>1, <2>2, <1>2, SMTT(60)
  <1>5. ASSUME NEW t \in Tunnels, Disconnect(t) PROVE OnlineHasTunnel'
    <2> SUFFICES ASSUME NEW k \in ComponentKeys, compStatus'[k] = "online"
                 PROVE  \E s \in Tunnels : ident'[s] = <<k[1], k[2]>> /\ pc'[s] \in Open4
      BY ZenonT(60) DEF OnlineHasTunnel
    <2>1. k \notin ComponentsOf(ident[t]) /\ compStatus[k] = "online"
      BY <1>5, <1>s, SetStatusFact DEF Disconnect, RegistryDisconnect, TunnelInv, TypeOK
    <2>2. <<k[1], k[2]>> # ident[t]
      BY <2>1 DEF ComponentsOf
    <2>3. PICK s \in Tunnels : Back(s, k)
      BY <1>0, <2>1, ZenonT(60)
    <2>4. s # t /\ pc'[s] = pc[s] /\ ident'[s] = ident[s]
      BY <1>5, <2>2, <2>3, SMTT(60) DEF Disconnect, Goto, TunnelInv, TypeOK
    <2> QED
      BY <2>3, <2>4, SMTT(60)
  <1>6. ASSUME NEW t \in Tunnels, \/ Open(t) \/ StoreCommits(t) \/ StoreFails(t) \/ Publish(t) \/ Lost(t)
                                 \/ ClearConnect(t) \/ Unroute(t)
                                 \/ \E h \in HelloOf[t] : HelloRejected(t, h)
        PROVE  OnlineHasTunnel'
    <2>1. compStatus' = compStatus
      BY <1>6, ZenonT(60) DEF Open, StoreCommits, StoreFails, Publish, Lost, ClearConnect, Unroute, HelloRejected,
                  registryVars
    <2>2. \A s \in Tunnels : ident[s] # None => ident'[s] = ident[s]
      <3>1. CASE \E h \in HelloOf[t] : HelloRejected(t, h)
        <4>1. PICK h \in HelloOf[t] : ident' = [ident EXCEPT ![t] = ConnectKey(h)]
          BY <3>1, Zenon DEF HelloRejected
        <4>2. ident[t] # None => ident[t] = ConnectKey(h)
          BY Zenon DEF TunnelInv, IdentFixed
        <4> QED
          BY <4>1, <4>2 DEF TunnelInv, TypeOK
      <3>2. CASE Open(t) \/ StoreCommits(t) \/ StoreFails(t) \/ Publish(t) \/ Lost(t) \/ ClearConnect(t)
                 \/ Unroute(t)
        <4>1. ident' = ident
          BY <3>2, Zenon DEF Open, StoreCommits, StoreFails, Publish, Lost, ClearConnect, Unroute
        <4> QED
          BY <4>1, Zenon
      <3> QED
        BY <1>6, <3>1, <3>2, Zenon
    <2>3. \A s \in Tunnels : pc[s] \in Open4 /\ ident[s] # None => pc'[s] \in Open4
      BY <1>6, ZenonT(60) DEF Open, StoreCommits, StoreFails, Publish, Lost, ClearConnect, Unroute, HelloRejected,
                  Goto, TunnelInv, TypeOK
    <2> QED
      BY <2>1, <2>2, <2>3, <1>1
  <1>7. ASSUME \/ PresenceCheck \/ RestoreList \/ UNCHANGED vars \/ Expire \/ PresenceAct
               \/ \E k \in ConnectKeys \cup ComponentKeys : KeyExpires(k)
               \/ \E k \in ConnectKeys : RestoreConnect(k)
        PROVE  OnlineHasTunnel'
    <2>1. pc' = pc /\ ident' = ident
      BY <1>7, SMTT(60) DEF Expire, PresenceCheck, PresenceAct, RestoreList, KeyExpires, RestoreConnect, vars
    <2>2. compStatus' = compStatus \/ \E ks : compStatus' = SetStatus(compStatus, ks, "offline")
      BY <1>7, SMTT(60) DEF Expire, PresenceCheck, PresenceAct, RegistryDisconnect, RestoreList, KeyExpires,
                  RestoreConnect, registryVars, vars
    <2>3. \A k \in ComponentKeys : compStatus'[k] = "online" => compStatus[k] = "online"
      BY <2>2, <1>s, SetStatusFact, SMTT(60) DEF TunnelInv, TypeOK
    <2> QED
      BY <2>1, <2>3, <1>1, ZenonT(60)
  <1>8. ASSUME Crash PROVE OnlineHasTunnel'
    BY <1>8 DEF Crash, Empty, OnlineHasTunnel
  <1> HIDE DEF OnlineHasTunnel
  <1> QED
    BY <1>3, <1>4, <1>5, <1>6, <1>7, <1>8 DEF Next, Cleanup

\* The invariant holds in every reachable state.
LEMMA RegistryInvariant == Spec => []RegistryInv
  <1>1. RegistryInv /\ [Next]_vars => RegistryInv'
    BY TunnelStep, RouteStep, NameStep, OnlineStep DEF RegistryInv
  <1> QED
    BY <1>1, RegistryInit, PTL DEF Spec
-----------------------------------------------------------------------------
\* Type correctness of the control plane.
THEOREM TypeCorrect == Spec => []TypeOK
  <1>1. RegistryInv => TypeOK
    BY DEF RegistryInv, TunnelInv
  <1> QED
    BY <1>1, RegistryInvariant, PTL

\* handleTunnel never leaves a dangling route: with any number of tunnels,
\* reconnects and restarts, a route leads to a session that is being served,
\* is of the route's tenant, and registered the component.
THEOREM RoutesServed == Spec => []RouteServed
  <1>1. RegistryInv => RouteServed
    BY DEF RegistryInv
  <1> QED
    BY <1>1, RegistryInvariant, PTL

\* Registry.Register keeps names unique within a tenant.
THEOREM NamesUnique == Spec => []NameUnique
  <1>1. RegistryInv => NameUnique
    BY DEF RegistryInv
  <1> QED
    BY <1>1, RegistryInvariant, PTL

\* No component stays online without a tunnel of its connect instance whose
\* Registry.Disconnect is still to come.
THEOREM OnlineBacked == Spec => []OnlineHasTunnel
  <1>1. RegistryInv => OnlineHasTunnel
    BY SMTT(60) DEF RegistryInv
  <1> QED
    BY <1>1, RegistryInvariant, PTL

\* A route disappears only with the tunnel it leads to.
THEOREM RoutesDropWithTunnel == Spec => RouteDropsWithTunnel
  <1> DEFINE Drops == \A k \in RouteKeys :
                        sessions[k] # None /\ sessions'[k] = None => pc'[sessions[k]] = "done"
  <1>1. RegistryInv /\ [Next]_vars => [Drops]_vars
    <2> SUFFICES ASSUME RegistryInv, Next PROVE Drops
      BY SMTT(60)
    <2> USE RegistryAssumption
    <2>1. ASSUME NEW t \in Tunnels, Unroute(t) PROVE Drops
      BY <2>1, SMTT(60) DEF Unroute, RoutesWithout, Goto, RegistryInv, TunnelInv, TypeOK
    <2>2. ASSUME NEW t \in Tunnels, Publish(t) PROVE Drops
      <3>1. frame[t] \in Hello
        BY <2>2, SMTT(60) DEF Publish, RegistryInv, TunnelInv, FramesRegistered
      <3>2. PICK m \in RouteKeys : sessions' = [sessions EXCEPT ![m] = t]
        BY <2>2, <3>1, HelloKeys, ZenonT(60) DEF Publish
      <3> QED
        BY <3>2, SMTT(60) DEF RegistryInv, TunnelInv, TypeOK
    <2>3. ASSUME Crash PROVE Drops
      <3> SUFFICES ASSUME NEW k \in RouteKeys, sessions[k] # None PROVE pc'[sessions[k]] = "done"
        BY SMTT(60)
      <3>1. sessions[k] \in Tunnels /\ pc[sessions[k]] # "idle"
        BY ZenonT(60) DEF RegistryInv, RouteServed, TunnelInv, TypeOK
      <3> QED
        BY <2>3, <3>1, Zenon DEF Crash
    <2>4. ASSUME sessions' = sessions PROVE Drops
      BY <2>4
    <2>5. ASSUME NEW t \in Tunnels,
                 \/ Open(t) \/ StoreCommits(t) \/ StoreFails(t) \/ Lost(t) \/ Disconnect(t) \/ ClearConnect(t)
                 \/ \E h \in HelloOf[t] : Heartbeat(t, h) \/ HelloRejected(t, h) \/ HelloRegistered(t, h)
          PROVE  sessions' = sessions
      BY <2>5, ZenonT(60) DEF Open, StoreCommits, StoreFails, Lost, Disconnect, ClearConnect, Heartbeat,
                  HelloRejected, HelloRegistered
    <2>6. ASSUME \/ Expire \/ PresenceCheck \/ PresenceAct \/ RestoreList
                 \/ \E k \in ConnectKeys \cup ComponentKeys : KeyExpires(k)
                 \/ \E k \in ConnectKeys : RestoreConnect(k)
          PROVE  sessions' = sessions
      BY <2>6 DEF Expire, PresenceCheck, PresenceAct, RestoreList, KeyExpires, RestoreConnect
    <2> HIDE DEF Drops
    <2> QED
      BY <2>1, <2>2, <2>3, <2>4, <2>5, <2>6, SMTT(60) DEF Next, Cleanup
  <1> QED
    BY <1>1, RegistryInvariant, PTL DEF Spec, RouteDropsWithTunnel

-----------------------------------------------------------------------------
(***************************************************************************)
(* What the daemon's naming adds.  The daemon announces every component    *)
(* under its name, as ComponentID and as ComponentName; a name conflict is *)
(* then a route conflict, and Register's check protects the route too.     *)
(***************************************************************************)
NamesAreIds == \A t \in Tunnels : \A h \in HelloOf[t] : h.name = h.comp

NamedByIds == \A k \in ComponentKeys : compName[k] # None => compName[k] = k[3]

\* With the daemon's naming, a component is registered under its identifier.
LEMMA NamedByIdsInvariant == ASSUME NamesAreIds PROVE Spec => []NamedByIds
  <1>1. Init => NamedByIds
    BY DEF Init, Empty, NamedByIds
  <1>2. RegistryInv /\ NamedByIds /\ [Next]_vars => NamedByIds'
    <2> SUFFICES ASSUME RegistryInv, NamedByIds, [Next]_vars PROVE NamedByIds'
      OBVIOUS
    <2>1. ASSUME NEW t \in Tunnels, NEW h \in HelloOf[t], HelloRegistered(t, h) PROVE NamedByIds'
      <3>1. h \in Hello /\ h.name = h.comp
        BY RegistryAssumption DEF NamesAreIds
      <3>2. PICK m \in ComponentKeys : m = ComponentKey(h) /\ m[3] = h.comp
        BY <3>1, HelloKeys, Zenon DEF ComponentKey
      <3>3. compName' = [compName EXCEPT ![m] = h.name]
        BY <2>1, <3>2 DEF HelloRegistered, RegistryRegister
      <3> QED
        BY <3>1, <3>2, <3>3 DEF RegistryInv, TunnelInv, TypeOK, NamedByIds
    <2>2. ASSUME Crash PROVE NamedByIds'
      BY <2>2 DEF Crash, Empty, NamedByIds
    <2>3. ASSUME compName' = compName PROVE NamedByIds'
      BY <2>3 DEF NamedByIds
    <2>4. ASSUME NEW t \in Tunnels, \/ Open(t) \/ StoreCommits(t) \/ StoreFails(t) \/ Lost(t)
                                   \/ Publish(t) \/ Cleanup(t)
                                   \/ \E h \in HelloOf[t] : Heartbeat(t, h) \/ HelloRejected(t, h)
          PROVE  compName' = compName
      BY <2>4, Zenon DEF Open, StoreCommits, StoreFails, Lost, Publish, Cleanup, Disconnect, ClearConnect,
                  Unroute, Heartbeat, HelloRejected, RegistryDisconnect, RegistryHeartbeat, registryVars
    <2>5. ASSUME \/ Expire \/ PresenceCheck \/ PresenceAct \/ RestoreList \/ UNCHANGED vars
                 \/ \E k \in ConnectKeys \cup ComponentKeys : KeyExpires(k)
                 \/ \E k \in ConnectKeys : RestoreConnect(k)
          PROVE  compName' = compName
      BY <2>5 DEF Expire, PresenceCheck, PresenceAct, RegistryDisconnect, RestoreList, KeyExpires,
                  RestoreConnect, registryVars, vars
    <2> HIDE DEF NamedByIds
    <2> QED
      BY <2>1, <2>2, <2>3, <2>4, <2>5 DEF Next
  <1> QED
    BY <1>1, <1>2, RegistryInvariant, PTL DEF Spec

\* With the daemon's naming a route in use is never handed to another connect
\* instance.
THEOREM RoutesNotStolen == ASSUME NamesAreIds PROVE Spec => NoRouteTheft
  <1> DEFINE Kept == \A k \in RouteKeys :
         sessions[k] # None /\ sessions'[k] # None => ident[sessions[k]] = ident'[sessions'[k]]
  <1>1. RegistryInv /\ NamedByIds /\ [Next]_vars => [Kept]_vars
    <2> SUFFICES ASSUME RegistryInv, NamedByIds, Next PROVE Kept
      OBVIOUS
    <2> USE RegistryAssumption
    <2>0. \A k \in RouteKeys : sessions[k] # None => sessions[k] \in Tunnels /\ ident[sessions[k]] # None
      BY ZenonT(60) DEF RegistryInv, TunnelInv, TypeOK, RouteServed
    <2>1. ASSUME NEW t \in Tunnels, Publish(t) PROVE Kept
      <3>1. PICK h \in Hello : /\ h = frame[t] /\ ident[t] = ConnectKey(h)
                               /\ compName[ComponentKey(h)] # None
        BY <2>1 DEF Publish, RegistryInv, TunnelInv, FramesRegistered
      <3>2. PICK m \in RouteKeys : m = RouteKey(h) /\ m[1] = h.tenant /\ m[2] = h.comp
        BY <3>1, HelloKeys, ZenonT(60) DEF RouteKey
      <3>3. sessions' = [sessions EXCEPT ![m] = t] /\ ident' = ident
        BY <2>1, <3>1, <3>2 DEF Publish
      <3>4. ASSUME sessions[m] # None PROVE ident[sessions[m]] = ident[t]
        <4>1. PICK s \in Tunnels : s = sessions[m]
          BY <2>0, <3>4
        <4>2. /\ ident[s] \in ConnectKeys /\ ident[s][1] = h.tenant
              /\ compName[<<h.tenant, ident[s][2], h.comp>>] # None
          BY <3>2, <3>4, <4>1, ZenonT(60) DEF RegistryInv, RouteServed, TunnelInv, TypeOK
        <4>3. PICK j \in ComponentKeys : j = <<h.tenant, ident[s][2], h.comp>>
          BY <4>2 DEF Hello, ConnectKeys, ComponentKeys
        <4>4. PICK k \in ComponentKeys : k = ComponentKey(h)
          BY HelloKeys
        <4>5. compName[j] = h.comp /\ compName[k] = h.comp /\ j[1] = k[1] /\ compName[j] # None
          BY <3>1, <4>2, <4>3, <4>4 DEF NamedByIds, ComponentKey
        <4>6. j = k
          BY <4>5 DEF RegistryInv, NameUnique
        <4>7. ident[s][2] = h.connect
          BY <4>3, <4>4, <4>6 DEF ComponentKey
        <4>8. ident[s] = <<ident[s][1], ident[s][2]>>
          BY <4>2 DEF ConnectKeys
        <4>9. ident[s] = <<h.tenant, h.connect>>
          BY <4>2, <4>7, <4>8, Zenon
        <4> QED
          BY <3>1, <4>1, <4>9, Zenon DEF ConnectKey
      <3> QED
        BY <3>3, <3>4 DEF RegistryInv, TunnelInv, TypeOK
    <2>2. ASSUME NEW t \in Tunnels, NEW h \in HelloOf[t], HelloRejected(t, h) \/ HelloRegistered(t, h)
          PROVE  Kept
      <3>1. sessions' = sessions /\ \A s \in Tunnels : ident[s] # None => ident'[s] = ident[s]
        BY <2>2 DEF HelloRejected, HelloRegistered, RegistryInv, TunnelInv, TypeOK, IdentFixed
      <3> QED
        BY <3>1, <2>0
    <2>3. ASSUME NEW t \in Tunnels, Unroute(t) PROVE Kept
      BY <2>3 DEF Unroute, RoutesWithout
    <2>4. ASSUME Crash PROVE Kept
      BY <2>4 DEF Crash, Empty
    <2>5. ASSUME sessions' = sessions, ident' = ident PROVE Kept
      BY <2>5, SMTT(60)
    <2>6. ASSUME NEW t \in Tunnels,
                 \/ Open(t) \/ StoreCommits(t) \/ StoreFails(t) \/ Lost(t) \/ Disconnect(t) \/ ClearConnect(t)
                 \/ \E h \in HelloOf[t] : Heartbeat(t, h)
          PROVE  sessions' = sessions /\ ident' = ident
      BY <2>6 DEF Open, StoreCommits, StoreFails, Lost, Disconnect, ClearConnect, Heartbeat
    <2>7. ASSUME \/ Expire \/ PresenceCheck \/ PresenceAct \/ RestoreList
                 \/ \E k \in ConnectKeys \cup ComponentKeys : KeyExpires(k)
                 \/ \E k \in ConnectKeys : RestoreConnect(k)
          PROVE  sessions' = sessions /\ ident' = ident
      BY <2>7 DEF Expire, PresenceCheck, PresenceAct, RestoreList, KeyExpires, RestoreConnect
    <2> HIDE DEF Kept
    <2> QED
      BY <2>1, <2>2, <2>3, <2>4, <2>5, <2>6, <2>7 DEF Next, Cleanup
  <1> QED
    BY <1>1, RegistryInvariant, NamedByIdsInvariant, PTL DEF Spec, NoRouteTheft

\* What PostgreSQL knows, the registry knows; restarts would break this.
StoredIsRegistered ==
  \A k \in ComponentKeys : dbNames[k] # None => dbNames[k] = k[3] /\ compName[k] # None

\* Until the gateway restarts, PostgreSQL and the registry name the same owner
\* for every name.
THEOREM OwnersInAgreement == ASSUME NamesAreIds, MaxCrashes = 0 PROVE Spec => []OwnersAgree
  <1>1. Init => StoredIsRegistered
    BY DEF Init, Empty, StoredIsRegistered
  <1>2. RegistryInv /\ NamedByIds /\ StoredIsRegistered /\ [Next]_vars => StoredIsRegistered'
    <2> SUFFICES ASSUME RegistryInv, NamedByIds, StoredIsRegistered, [Next]_vars
                 PROVE  StoredIsRegistered'
      OBVIOUS
    <2> USE RegistryAssumption
    <2>1. ASSUME NEW t \in Tunnels, NEW h \in HelloOf[t], HelloRegistered(t, h)
          PROVE  StoredIsRegistered'
      <3>1. h \in Hello /\ h.name # None
        BY DEF Hello
      <3>2. PICK m \in ComponentKeys : compName' = [compName EXCEPT ![m] = h.name]
        BY <2>1, <3>1, HelloKeys, Zenon DEF HelloRegistered, RegistryRegister
      <3>3. dbNames' = dbNames
        BY <2>1 DEF HelloRegistered, storeVars
      <3> QED
        BY <3>1, <3>2, <3>3 DEF RegistryInv, TunnelInv, TypeOK, StoredIsRegistered
    <2>2. ASSUME NEW t \in Tunnels, StoreCommits(t) PROVE StoredIsRegistered'
      <3>1. PICK h \in HelloOf[t] : h = frame[t] /\ compName[ComponentKey(h)] # None
        BY <2>2 DEF StoreCommits, RegistryInv, TunnelInv, FramesRegistered
      <3>2. h \in Hello /\ h.name = h.comp
        BY DEF NamesAreIds
      <3>3. PICK m \in ComponentKeys : m = ComponentKey(h) /\ m[3] = h.comp
        BY <3>2, HelloKeys, Zenon DEF ComponentKey
      <3>4. dbNames' = [dbNames EXCEPT ![m] = h.name] /\ compName' = compName
        BY <2>2, <3>1, <3>3 DEF StoreCommits, registryVars
      <3> QED
        BY <3>1, <3>2, <3>3, <3>4 DEF RegistryInv, TunnelInv, TypeOK, StoredIsRegistered
    <2>3. ASSUME Crash PROVE FALSE
      BY <2>3 DEF Crash, RegistryInv, TunnelInv, TypeOK
    <2>4. ASSUME compName' = compName, dbNames' = dbNames PROVE StoredIsRegistered'
      BY <2>4 DEF StoredIsRegistered
    <2>5. ASSUME NEW t \in Tunnels, \/ Open(t) \/ StoreFails(t) \/ Lost(t) \/ Publish(t) \/ Cleanup(t)
                                   \/ \E h \in HelloOf[t] : Heartbeat(t, h) \/ HelloRejected(t, h)
          PROVE  compName' = compName /\ dbNames' = dbNames
      BY <2>5, ZenonT(60) DEF Open, StoreFails, Lost, Publish, Cleanup, Disconnect, ClearConnect, Unroute, Heartbeat,
                  HelloRejected, RegistryDisconnect, RegistryHeartbeat, registryVars, storeVars
    <2>6. ASSUME \/ Expire \/ PresenceCheck \/ PresenceAct \/ RestoreList \/ UNCHANGED vars
                 \/ \E k \in ConnectKeys \cup ComponentKeys : KeyExpires(k)
                 \/ \E k \in ConnectKeys : RestoreConnect(k)
          PROVE  compName' = compName /\ dbNames' = dbNames
      BY <2>6 DEF Expire, PresenceCheck, PresenceAct, RegistryDisconnect, RestoreList, KeyExpires,
                  RestoreConnect, registryVars, storeVars, vars
    <2> HIDE DEF StoredIsRegistered
    <2> QED
      BY <2>1, <2>2, <2>3, <2>4, <2>5, <2>6 DEF Next
  <1>3. RegistryInv /\ NamedByIds /\ StoredIsRegistered => OwnersAgree
    BY DEF RegistryInv, NameUnique, NamedByIds, StoredIsRegistered, OwnersAgree
  <1> QED
    BY <1>1, <1>2, <1>3, RegistryInvariant, NamedByIdsInvariant, PTL DEF Spec
=============================================================================
