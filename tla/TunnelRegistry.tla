----------------------------- MODULE TunnelRegistry -----------------------------
(***************************************************************************)
(* The control plane of the gateway: which components exist, who owns      *)
(* their names, which tunnel serves their public route, and what status    *)
(* the registry shows for them.                                            *)
(*                                                                         *)
(* handleTunnel runs once per tunnel: hello frames register components in  *)
(* the registry, in PostgreSQL and in Redis and then publish the route;    *)
(* heartbeats refresh them; when the connection ends the registry entry is *)
(* marked, the presence key removed and the routes taken down, in separate *)
(* critical sections.  Beside the tunnels run Registry.Expire,             *)
(* presenceLoop, and after a restart restore.                              *)
(*                                                                         *)
(* Time is not modelled: an entry may be found older than its TTL whenever *)
(* somebody looks, unless Timely says that every peer heartbeats in time.  *)
(***************************************************************************)
EXTENDS Integers

CONSTANTS
  Tunnels,             \* connections that may be made
  Tenants, Connects, Components, Names,
  HelloOf,             \* the components the peer behind each tunnel announces
  UseStore, UseRedis,  \* PostgreSQL and Redis are configured
  Timely,              \* no TTL runs out on an entry that is heartbeated
  MaxCrashes,          \* bound: restarts of the gateway
  None                 \* null value

\* Keys of the maps: connectKey, componentKey and routeKey.
ConnectKeys == Tenants \X Connects
ComponentKeys == Tenants \X Connects \X Components
RouteKeys == Tenants \X Components

Hello == [tenant : Tenants, connect : Connects, comp : Components, name : Names]

ASSUME RegistryAssumption ==
  /\ HelloOf \in [Tunnels -> SUBSET Hello]
  /\ \A t \in Tunnels : \A g, h \in HelloOf[t] : g.tenant = h.tenant /\ g.connect = h.connect
  /\ UseStore \in BOOLEAN /\ UseRedis \in BOOLEAN /\ Timely \in BOOLEAN
  /\ MaxCrashes \in Nat
  /\ None \notin Tunnels \cup Hello \cup Names \cup ConnectKeys \cup ComponentKeys

VARIABLES
  pc,          \* where handleTunnel stands for each tunnel
  frame,       \* the hello frame it is working on
  ident,       \* its variables tenantID and connectID
  connects,    \* Registry.connects: status of each connect instance
  compStatus,  \* Registry.components: status ...
  compName,    \* ... and name of each component
  sessions,    \* Gateway.sessions: route -> tunnel
  dbConnects,  \* rows of the table connects
  dbNames,     \* rows of the table components, with their name column
  presence,    \* heartbeat keys in Redis
  doomed,      \* the entry presenceLoop has found without a key
  restorePc,   \* where restore stands
  rows,        \* what restore has read from connects and not yet applied
  crashes      \* restarts so far

registryVars == <<connects, compStatus, compName>>
storeVars == <<dbConnects, dbNames>>
loopVars == <<doomed, restorePc, rows>>
vars == <<pc, frame, ident, registryVars, sessions, storeVars, presence, loopVars, crashes>>

Status == {"absent", "online", "offline"}

TypeOK ==
  /\ pc \in [Tunnels -> {"idle", "read", "store", "publish", "disconnect",
                         "clear", "unroute", "done"}]
  /\ frame \in [Tunnels -> Hello \cup {None}]
  /\ ident \in [Tunnels -> ConnectKeys \cup {None}]
  /\ connects \in [ConnectKeys -> Status]
  /\ compStatus \in [ComponentKeys -> Status]
  /\ compName \in [ComponentKeys -> Names \cup {None}]
  /\ sessions \in [RouteKeys -> Tunnels \cup {None}]
  /\ dbConnects \in SUBSET ConnectKeys
  /\ dbNames \in [ComponentKeys -> Names \cup {None}]
  /\ presence \in SUBSET (ConnectKeys \cup ComponentKeys)
  /\ doomed \in ConnectKeys \cup ComponentKeys \cup {None}
  /\ restorePc \in {"list", "apply"}
  /\ rows \in [ConnectKeys -> Status]
  /\ crashes \in 0..MaxCrashes

\* A map that holds the same value everywhere, as when the gateway has started.
Empty(keys, value) == [k \in keys |-> value]

Init ==
  /\ pc = Empty(Tunnels, "idle")
  /\ frame = Empty(Tunnels, None)
  /\ ident = Empty(Tunnels, None)
  /\ connects = Empty(ConnectKeys, "absent")
  /\ compStatus = Empty(ComponentKeys, "absent")
  /\ compName = Empty(ComponentKeys, None)
  /\ sessions = Empty(RouteKeys, None)
  /\ dbConnects = {}
  /\ dbNames = Empty(ComponentKeys, None)
  /\ presence = {}
  /\ doomed = None
  /\ restorePc = "list"
  /\ rows = Empty(ConnectKeys, "absent")
  /\ crashes = 0
-----------------------------------------------------------------------------
(***************************************************************************)
(* Registry operations, each one critical section of Registry.mu.          *)
(***************************************************************************)

MutConnectKey(h) == <<h.tenant, None>>

\* tenantID and connectID as handleTunnel derives them from a hello.
ConnectKey(h) == <<h.tenant, h.connect>>

ComponentKey(h) == <<h.tenant, h.connect, h.comp>>

MutRouteKey(h) == <<h.tenant, CHOOSE c \in Components : TRUE>>

RouteKey(h) == <<h.tenant, h.comp>>

MutNameTaken(h) ==
  \E k \in ComponentKeys : compName[k] = h.name /\ k[1] = h.tenant /\ k[3] # h.comp

\* Register's check: the name belongs to another component of the tenant.
NameTaken(h) ==
  \E k \in ComponentKeys : k[1] = h.tenant /\ compName[k] = h.name /\ k # ComponentKey(h)

RegistryRegister(h) ==
  /\ connects' = [connects EXCEPT ![ConnectKey(h)] = "online"]
  /\ compStatus' = [compStatus EXCEPT ![ComponentKey(h)] = "online"]
  /\ compName' = [compName EXCEPT ![ComponentKey(h)] = h.name]

\* Marks the entries that exist among those given.
SetStatus(map, keys, status) ==
  [k \in DOMAIN map |-> IF k \in keys /\ map[k] # "absent" THEN status ELSE map[k]]

MutRegistryHeartbeat(h) ==
  /\ connects' = SetStatus(connects, {ConnectKey(h)}, "online")
  /\ UNCHANGED <<compStatus, compName>>

RegistryHeartbeat(h) ==
  /\ connects' = SetStatus(connects, {ConnectKey(h)}, "online")
  /\ compStatus' = SetStatus(compStatus, {ComponentKey(h)}, "online")
  /\ UNCHANGED compName

ComponentsOf(c) == {k \in ComponentKeys : <<k[1], k[2]>> = c}

MutRegistryDisconnect(c) ==
  /\ connects' = SetStatus(connects, {c}, "offline")
  /\ UNCHANGED <<compStatus, compName>>

\* A connect instance goes offline with all its components.
RegistryDisconnect(c) ==
  /\ connects' = SetStatus(connects, {c}, "offline")
  /\ compStatus' = SetStatus(compStatus, ComponentsOf(c), "offline")
  /\ UNCHANGED compName
-----------------------------------------------------------------------------
(***************************************************************************)
(* handleTunnel.                                                           *)
(***************************************************************************)

Goto(t, label) == pc' = [pc EXCEPT ![t] = label]

Open(t) ==
  /\ pc[t] = "idle"
  /\ Goto(t, "read")
  /\ UNCHANGED <<frame, ident, registryVars, sessions, storeVars, presence, loopVars, crashes>>

\* A hello whose name is taken is answered with an error frame.  connectID is
\* set by then.
HelloRejected(t, h) ==
  /\ pc[t] = "read"
  /\ NameTaken(h)
  /\ ident' = [ident EXCEPT ![t] = ConnectKey(h)]
  /\ UNCHANGED <<pc, frame, registryVars, sessions, storeVars, presence, loopVars, crashes>>

HelloRegistered(t, h) ==
  /\ pc[t] = "read"
  /\ ~NameTaken(h)
  /\ ident' = [ident EXCEPT ![t] = ConnectKey(h)]
  /\ RegistryRegister(h)
  /\ frame' = [frame EXCEPT ![t] = h]
  /\ Goto(t, IF UseStore THEN "store" ELSE "publish")
  /\ UNCHANGED <<sessions, storeVars, presence, loopVars, crashes>>

\* UNIQUE (tenant_id, name) of the table components.
NameStored(h) ==
  \E k \in ComponentKeys : k[1] = h.tenant /\ dbNames[k] = h.name /\ k # ComponentKey(h)

\* ConnectStore.RegisterConnect commits its transaction ...
StoreCommits(t) ==
  LET h == frame[t] IN
  /\ pc[t] = "store"
  /\ ~NameStored(h)
  /\ dbConnects' = dbConnects \cup {ConnectKey(h)}
  /\ dbNames' = [dbNames EXCEPT ![ComponentKey(h)] = h.name]
  /\ Goto(t, "publish")
  /\ UNCHANGED <<frame, ident, registryVars, sessions, presence, loopVars, crashes>>

\* ... or fails, on that constraint or because the database cannot be reached:
\* an error frame, and the handler waits for the next frame.
StoreFails(t) ==
  /\ pc[t] = "store"
  /\ frame' = [frame EXCEPT ![t] = None]
  /\ Goto(t, "read")
  /\ UNCHANGED <<ident, registryVars, sessions, storeVars, presence, loopVars, crashes>>

KeysOf(h) == IF UseRedis THEN {ConnectKey(h), ComponentKey(h)} ELSE {}

\* SetConnectHeartbeat and SetComponentHeartbeat; their errors are dropped.
SetPresence(h) == \E ks \in SUBSET KeysOf(h) : presence' = presence \cup ks

\* Presence keys, then the route.
Publish(t) ==
  LET h == frame[t] IN
  /\ pc[t] = "publish"
  /\ SetPresence(h)
  /\ sessions' = [sessions EXCEPT ![RouteKey(h)] = t]
  /\ frame' = [frame EXCEPT ![t] = None]
  /\ Goto(t, "read")
  /\ UNCHANGED <<ident, registryVars, storeVars, loopVars, crashes>>

\* A heartbeat frame, from a peer that has said hello.  ConnectStore.Heartbeat
\* leaves $3 of its first statement unused, which PostgreSQL refuses: no row
\* changes, and the error is dropped.
Heartbeat(t, h) ==
  /\ pc[t] = "read"
  /\ ident[t] # None
  /\ RegistryHeartbeat(h)
  /\ SetPresence(h)
  /\ UNCHANGED <<pc, frame, ident, sessions, storeVars, loopVars, crashes>>

\* readLoop returns: the peer has gone, or its token was refused.
Lost(t) ==
  /\ pc[t] = "read"
  /\ Goto(t, IF ident[t] = None THEN "unroute" ELSE "disconnect")
  /\ UNCHANGED <<frame, ident, registryVars, sessions, storeVars, presence, loopVars, crashes>>

Disconnect(t) ==
  /\ pc[t] = "disconnect"
  /\ RegistryDisconnect(ident[t])
  /\ Goto(t, "clear")
  /\ UNCHANGED <<frame, ident, sessions, storeVars, presence, loopVars, crashes>>

\* ConnectStore.Disconnect moves last_seen_at only; ClearConnect drops the
\* key, unless Redis cannot be reached.
ClearConnect(t) ==
  /\ pc[t] = "clear"
  /\ presence' \in {presence, presence \ {ident[t]}}
  /\ Goto(t, "unroute")
  /\ UNCHANGED <<frame, ident, registryVars, sessions, storeVars, loopVars, crashes>>

MutRoutesWithout(t) ==
  [k \in RouteKeys |-> IF /\ sessions[k] # None
                          /\ ident[sessions[k]] = ident[t] THEN None ELSE sessions[k]]

\* The routes that lead to this session, and only those, are deleted.
RoutesWithout(t) ==
  [k \in RouteKeys |-> IF sessions[k] = t THEN None ELSE sessions[k]]

MutUnroute(t) ==
  /\ pc[t] = "unroute"
  /\ Goto(t, "done")
  /\ UNCHANGED <<frame, ident, registryVars, sessions, storeVars, presence, loopVars, crashes>>

Unroute(t) ==
  /\ pc[t] = "unroute"
  /\ sessions' = RoutesWithout(t)
  /\ Goto(t, "done")
  /\ UNCHANGED <<frame, ident, registryVars, storeVars, presence, loopVars, crashes>>
-----------------------------------------------------------------------------
(***************************************************************************)
(* Expire, presenceLoop, restart and restore.                              *)
(***************************************************************************)

\* Registry.Expire finds these entries older than heartbeatTTL.
Expire ==
  /\ ~Timely
  /\ \E cs \in SUBSET ConnectKeys, ks \in SUBSET ComponentKeys :
       /\ connects' = SetStatus(connects, cs, "offline")
       /\ compStatus' = SetStatus(compStatus, ks, "offline")
  /\ UNCHANGED <<pc, frame, ident, compName, sessions, storeVars, presence, loopVars, crashes>>

\* A heartbeat key runs out in Redis.
KeyExpires(k) ==
  /\ ~Timely
  /\ k \in presence
  /\ presence' = presence \ {k}
  /\ UNCHANGED <<pc, frame, ident, registryVars, sessions, storeVars, loopVars, crashes>>

\* presenceLoop asks Redis about an entry of its snapshot ...
PresenceCheck ==
  /\ UseRedis
  /\ doomed = None
  /\ \/ \E k \in ConnectKeys : connects[k] # "absent" /\ k \notin presence /\ doomed' = k
     \/ \E k \in ComponentKeys : compStatus[k] # "absent" /\ k \notin presence /\ doomed' = k
  /\ UNCHANGED <<pc, frame, ident, registryVars, sessions, storeVars, presence,
                 restorePc, rows, crashes>>

\* ... and then acts on the answer, which may be out of date.
PresenceAct ==
  /\ doomed # None
  /\ \/ doomed \in ConnectKeys /\ RegistryDisconnect(doomed)
     \/ /\ doomed \in ComponentKeys
        /\ compStatus' = SetStatus(compStatus, {doomed}, "offline")
        /\ UNCHANGED <<connects, compName>>
  /\ doomed' = None
  /\ UNCHANGED <<pc, frame, ident, sessions, storeVars, presence, restorePc, rows, crashes>>

\* The gateway restarts: connections and memory are gone, the stores stay.
Crash ==
  /\ crashes < MaxCrashes
  /\ crashes' = crashes + 1
  /\ pc' = [t \in Tunnels |-> IF pc[t] = "idle" THEN "idle" ELSE "done"]
  /\ frame' = Empty(Tunnels, None)
  /\ connects' = Empty(ConnectKeys, "absent")
  /\ compStatus' = Empty(ComponentKeys, "absent")
  /\ compName' = Empty(ComponentKeys, None)
  /\ sessions' = Empty(RouteKeys, None)
  /\ doomed' = None
  /\ restorePc' = "list"
  /\ rows' = Empty(ConnectKeys, "absent")
  /\ UNCHANGED <<ident, storeVars, presence>>

\* ListConnects: the rows of connects, online or not by their last_seen_at,
\* or an error and nothing.
\* ListComponents joins connects USING a column connect_id that the table does
\* not have: it fails, and no component is restored.
RestoreList ==
  /\ UseStore
  /\ restorePc = "list"
  /\ restorePc' = "apply"
  /\ rows' \in [ConnectKeys -> Status]
  /\ \/ \A k \in ConnectKeys : rows'[k] # "absent" <=> k \in dbConnects
     \/ rows' = rows
  /\ UNCHANGED <<pc, frame, ident, registryVars, sessions, storeVars, presence, doomed, crashes>>

\* RestoreConnect overwrites whatever the registry holds by now.
RestoreConnect(k) ==
  /\ rows[k] # "absent"
  /\ connects' = [connects EXCEPT ![k] = rows[k]]
  /\ rows' = [rows EXCEPT ![k] = "absent"]
  /\ UNCHANGED <<pc, frame, ident, compStatus, compName, sessions, storeVars, presence,
                 doomed, restorePc, crashes>>
-----------------------------------------------------------------------------
Cleanup(t) == Disconnect(t) \/ ClearConnect(t) \/ Unroute(t)

Next ==
  \/ \E t \in Tunnels :
       \/ Open(t)
       \/ \E h \in HelloOf[t] :
            HelloRejected(t, h) \/ HelloRegistered(t, h) \/ Heartbeat(t, h)
       \/ StoreCommits(t)
       \/ StoreFails(t)
       \/ Publish(t)
       \/ Lost(t)
       \/ Cleanup(t)
  \/ Expire
  \/ \E k \in ConnectKeys \cup ComponentKeys : KeyExpires(k)
  \/ PresenceCheck
  \/ PresenceAct
  \/ Crash
  \/ RestoreList
  \/ \E k \in ConnectKeys : RestoreConnect(k)

Spec == Init /\ [][Next]_vars

(***************************************************************************)
(* A handler that can run does run, and an open tunnel's heartbeats arrive *)
(* (the daemon's ticker).  No peer has to connect, stay or leave.          *)
(***************************************************************************)
Fairness ==
  \A t \in Tunnels :
    /\ WF_vars(StoreCommits(t) \/ StoreFails(t))
    /\ WF_vars(Publish(t))
    /\ WF_vars(Cleanup(t))
    /\ \A h \in HelloOf[t] : WF_vars(Heartbeat(t, h))

FairSpec == Spec /\ Fairness
-----------------------------------------------------------------------------
(***************************************************************************)
(* Properties.                                                             *)
(***************************************************************************)

\* A public route never leads to a session whose handler is over: the session
\* belongs to the route's tenant and registered the component the route names
\* (handleTunnel's publication and take-down, across reconnects and restarts).
RouteServed ==
  \A k \in RouteKeys : LET t == sessions[k] IN
    t # None =>
      /\ pc[t] \notin {"idle", "done"}
      /\ ident[t] # None
      /\ ident[t][1] = k[1]
      /\ compName[<<k[1], ident[t][2], k[2]>>] # None

\* No two components of a tenant carry the same name in the registry, whatever
\* order the tunnels register and re-register in (Registry.Register).
NameUnique ==
  \A j, k \in ComponentKeys :
    j[1] = k[1] /\ compName[j] = compName[k] /\ compName[j] # None => j = k

\* A component the registry shows as online has a tunnel of its connect
\* instance whose handler has not yet run Registry.Disconnect: no component is
\* left online by a tunnel that is gone, even with two tunnels of one connect
\* instance open at once.
OnlineHasTunnel ==
  \A k \in ComponentKeys : compStatus[k] = "online" =>
    \E t \in Tunnels : /\ ident[t] = <<k[1], k[2]>>
                       /\ pc[t] \in {"read", "store", "publish", "disconnect"}

\* A route in use only ever passes to another tunnel of the same connect
\* instance: a duplicate registration cannot silently replace it.
NoRouteTheft ==
  [][\A k \in RouteKeys :
       sessions[k] # None /\ sessions'[k] # None => ident[sessions[k]] = ident'[sessions'[k]]]_vars

\* A route disappears only together with the tunnel it leads to: the late
\* clean-up of an old tunnel leaves the routes of its successor alone.
RouteDropsWithTunnel ==
  [][\A k \in RouteKeys :
       sessions[k] # None /\ sessions'[k] = None => pc'[sessions[k]] = "done"]_vars

\* The name PostgreSQL stores for a component and the name the registry holds
\* never belong to two different owners.
OwnersAgree ==
  \A j, k \in ComponentKeys :
    j[1] = k[1] /\ dbNames[j] = compName[k] /\ compName[k] # None => j = k

\* A component whose tunnel stays open and keeps its route is shown online
\* again and again, whatever late clean-ups, expiries and presence checks did
\* to its status in between: heartbeats repair it.
HeartbeatHeals ==
  \A t \in Tunnels : \A h \in HelloOf[t] :
    <>[](pc[t] = "read" /\ sessions[RouteKey(h)] = t)
      => []<>(compStatus[ComponentKey(h)] = "online")

\* A lost tunnel's routes are taken down.
LostTunnelUnrouted ==
  \A t \in Tunnels : pc[t] = "disconnect" ~> \A k \in RouteKeys : sessions[k] # t
=============================================================================
