-------------------------------- MODULE Catalogue --------------------------------
(***************************************************************************)
(* The catalogue of a component's tools, in memory (Service.tools), where  *)
(* the hub looks tools up, and with PostgreSQL (UseStore) in the table     *)
(* tool_catalog.                                                           *)
(*                                                                         *)
(* refreshDiscovery replaces it, started when the component registers or   *)
(* an administrator asks for it.  Refreshes run side by side: the table is *)
(* changed by a transaction, memory later under Service.mu.  With Redis    *)
(* (UseRedis) a lock that expires keeps them apart, and whoever does not   *)
(* get it takes the cached catalogue instead of asking the component.      *)
(* Listing the tools of a group copies rows of the table into memory.      *)
(*                                                                         *)
(* One tenant and one component: maps, rows and keys are keyed by both.    *)
(***************************************************************************)
EXTENDS Integers

CONSTANTS
  Tools,       \* tool names
  Lists,       \* the lists of tools the component may have
  FirstList,   \* the one it has at first
  Refreshes,   \* refreshes that may run at one time
  UseStore,    \* PostgreSQL is configured
  UseRedis,    \* Redis is configured
  Faults,      \* what may fail: "store", "redis", "upstream"
  MaxChanges,  \* bound: registrations, changes of the tools, errors for lists, restarts
  MaxListings, \* bound: requests that list the tools of a group
  None         \* null value

ASSUME CatalogueAssumption ==
  /\ Lists \subseteq SUBSET Tools /\ FirstList \in Lists
  /\ UseStore \in BOOLEAN /\ UseRedis \in BOOLEAN
  /\ MaxChanges \in Nat /\ MaxListings \in Nat

VARIABLES
  tools,     \* Service.tools
  dbTools,   \* tool_catalog
  refresh,   \* refreshes: where they stand, the list they have got and from
             \* where; "lost" when their tunnel went before they had one
  since,     \* for each one in its transaction: those whose began later
  newer,     \* and the rows with a last_seen_at after its now()
  lock,      \* the refresh lock is held
  cache,     \* the cached catalogue
  list,      \* the tools the component has
  connected, \* its tunnel is registered
  listing,   \* rows that GroupTools has read and not yet copied
  changes, listings

catalogues == <<tools, dbTools>>
transactions == <<since, newer>>
redis == <<lock, cache>>
upstream == <<list, connected>>
counters == <<changes, listings>>
vars == <<catalogues, refresh, transactions, redis, upstream, listing, counters>>

Availability == {"absent", "disabled", "enabled"}

Idle == [pc |-> "idle", got |-> {}, via |-> "tunnel"]

TypeOK ==
  /\ tools \in [Tools -> Availability] /\ dbTools \in [Tools -> Availability]
  /\ refresh \in [Refreshes -> [pc : {"idle", "lock", "cached", "ask", "replace", "tx", "swap", "set"},
                                got : Lists \cup {{}}, via : {"tunnel", "lost", "cache"}]]
  /\ since \in [Refreshes -> SUBSET Refreshes] /\ newer \in [Refreshes -> SUBSET Tools]
  /\ lock \in BOOLEAN /\ cache \in Lists \cup {{}, None}
  /\ list \in Lists /\ connected \in BOOLEAN
  /\ listing = None \/ listing \in [Tools -> Availability]
  /\ changes \in 0..MaxChanges /\ listings \in 0..MaxListings

Init ==
  /\ tools = [t \in Tools |-> "absent"] /\ dbTools = [t \in Tools |-> "absent"]
  /\ refresh = [f \in Refreshes |-> Idle]
  /\ since = [f \in Refreshes |-> {}] /\ newer = [f \in Refreshes |-> {}]
  /\ lock = FALSE /\ cache = None
  /\ list = FirstList /\ connected = FALSE
  /\ listing = None
  /\ changes = 0 /\ listings = 0
-----------------------------------------------------------------------------
(***************************************************************************)
(* refreshDiscovery.                                                       *)
(***************************************************************************)

\* Where refresh f goes on.
Goto(f, pc) == refresh' = [refresh EXCEPT ![f].pc = pc]

Received(f, got, via) == refresh' = [refresh EXCEPT ![f] = [pc |-> "replace", got |-> got, via |-> via]]

Done(f) == refresh' = [refresh EXCEPT ![f] = Idle]

\* What no step of a refresh changes.
RefreshOnly == UNCHANGED <<upstream, listing, counters>>

\* POST /api/admin/catalog/components/ID/refresh, for a connected component.
CatalogRefresh(f) ==
  /\ connected
  /\ refresh[f] = Idle
  /\ Goto(f, "lock")
  /\ UNCHANGED <<catalogues, transactions, redis>>
  /\ RefreshOnly

\* TryCatalogLock.  Without Redis, and when Redis fails, there is no lock.
TryLock(f) ==
  /\ refresh[f].pc = "lock"
  /\ \/ UseRedis /\ ~lock /\ lock' = TRUE /\ Goto(f, "ask")
     \/ UseRedis /\ lock /\ UNCHANGED lock /\ Goto(f, "cached")
     \/ (~UseRedis \/ "redis" \in Faults) /\ UNCHANGED lock /\ Goto(f, "ask")
  /\ UNCHANGED <<catalogues, transactions, cache>>
  /\ RefreshOnly

MutGetCatalog(f) ==
  /\ refresh[f].pc = "cached"
  /\ Received(f, cache, "cache")
  /\ UNCHANGED <<catalogues, transactions, redis>>
  /\ RefreshOnly

\* GetCatalog, when the lock is someone else's: without an entry, or when Redis
\* fails, nothing is done.
GetCatalog(f) ==
  /\ refresh[f].pc = "cached"
  /\ \/ cache # None /\ Received(f, cache, "cache")
     \/ (cache = None \/ "redis" \in Faults) /\ Done(f)
  /\ UNCHANGED <<catalogues, transactions, redis>>
  /\ RefreshOnly

\* The component answers tools/list ...
Fetch(f) ==
  /\ refresh[f].pc = "ask"
  /\ refresh[f].via = "tunnel"
  /\ Received(f, list, "tunnel")
  /\ UNCHANGED <<catalogues, transactions, redis>>
  /\ RefreshOnly

\* ... or it answers with an error of JSON-RPC, which is taken for an empty list ...
FetchEmpty(f) ==
  /\ refresh[f].pc = "ask"
  /\ refresh[f].via = "tunnel"
  /\ "upstream" \in Faults
  /\ changes < MaxChanges
  /\ changes' = changes + 1
  /\ Received(f, {}, "tunnel")
  /\ UNCHANGED <<catalogues, transactions, redis, upstream, listing, listings>>

\* ... or not at all.  The lock stays.
FetchFails(f) ==
  /\ refresh[f].pc = "ask"
  /\ refresh[f].via = "lost" \/ "upstream" \in Faults
  /\ Done(f)
  /\ UNCHANGED <<catalogues, transactions, redis>>
  /\ RefreshOnly

\* Store.ReplaceTools begins its transaction, whose time now() is from here on.
BeginReplace(f) ==
  /\ UseStore
  /\ refresh[f].pc = "replace"
  /\ Goto(f, "tx")
  /\ since' = [h \in Refreshes |-> IF refresh[h].pc = "tx" THEN since[h] \cup {f} ELSE since[h]]
  /\ UNCHANGED <<catalogues, newer, redis>>
  /\ RefreshOnly

MutReplaceRows(f) ==
  /\ dbTools' = [t \in Tools |-> IF t \in refresh[f].got THEN "enabled" ELSE dbTools[t]]
  /\ newer' = [newer EXCEPT ![f] = {}]

\* The transaction: the listed tools are enabled and stamped with its time, and
\* rows with an earlier stamp are disabled.
ReplaceRows(f) ==
  LET got == refresh[f].got IN
  /\ dbTools' = [t \in Tools |-> IF t \in got THEN "enabled"
                                 ELSE IF dbTools[t] = "enabled" /\ t \notin newer[f] THEN "disabled"
                                 ELSE dbTools[t]]
  /\ newer' = [h \in Refreshes |-> IF h = f THEN {}
                                   ELSE IF f \in since[h] THEN newer[h] \cup got ELSE newer[h] \ got]

\* It commits, or it fails, which is ignored.
CommitReplace(f, committed) ==
  /\ refresh[f].pc = "tx"
  /\ committed \/ "store" \in Faults
  /\ Goto(f, "swap")
  /\ IF committed THEN ReplaceRows(f)
                  ELSE newer' = [newer EXCEPT ![f] = {}] /\ UNCHANGED dbTools
  /\ since' = [h \in Refreshes |-> IF h = f THEN {} ELSE since[h] \ {f}]
  /\ UNCHANGED <<tools, redis>>
  /\ RefreshOnly

MutReplaceTools(f) ==
  /\ refresh[f].pc = IF UseStore THEN "swap" ELSE "replace"
  /\ tools' = [t \in Tools |-> IF t \in refresh[f].got THEN "enabled" ELSE tools[t]]
  /\ IF UseRedis /\ refresh[f].via = "tunnel" THEN Goto(f, "set") ELSE Done(f)
  /\ UNCHANGED <<dbTools, transactions, redis>>
  /\ RefreshOnly

\* Service.ReplaceTools in memory.
ReplaceTools(f) ==
  LET got == refresh[f].got IN
  /\ refresh[f].pc = IF UseStore THEN "swap" ELSE "replace"
  /\ tools' = [t \in Tools |-> IF t \in got THEN "enabled" ELSE "absent"]
  /\ IF UseRedis /\ refresh[f].via = "tunnel" THEN Goto(f, "set") ELSE Done(f)
  /\ UNCHANGED <<dbTools, transactions, redis>>
  /\ RefreshOnly

\* SetCatalog, whose failure is ignored.
SetCatalog(f, stored) ==
  /\ refresh[f].pc = "set"
  /\ stored \/ "redis" \in Faults
  /\ cache' = IF stored THEN refresh[f].got ELSE cache
  /\ Done(f)
  /\ UNCHANGED <<catalogues, transactions, lock>>
  /\ RefreshOnly

\* Thirty seconds after it was taken: nothing else releases it.
LockExpires ==
  /\ lock
  /\ lock' = FALSE
  /\ UNCHANGED <<catalogues, refresh, transactions, cache, upstream, listing, counters>>

CacheExpires ==
  /\ cache # None
  /\ cache' = None
  /\ UNCHANGED <<catalogues, refresh, transactions, lock, upstream, listing, counters>>
-----------------------------------------------------------------------------
(***************************************************************************)
(* The component and the gateway.                                          *)
(***************************************************************************)

\* The component says hello, and its refresh is started.
Register(f) ==
  /\ ~connected
  /\ refresh[f] = Idle
  /\ changes < MaxChanges
  /\ changes' = changes + 1
  /\ connected' = TRUE
  /\ Goto(f, "lock")
  /\ UNCHANGED <<catalogues, transactions, redis, list, listing, listings>>

\* Refreshes over a tunnel that is gone get no answer.
TunnelGone ==
  refresh' = [f \in Refreshes |-> IF refresh[f].pc \in {"lock", "cached", "ask"}
                                  THEN [refresh[f] EXCEPT !.via = "lost"] ELSE refresh[f]]

Disconnect ==
  /\ connected
  /\ connected' = FALSE
  /\ TunnelGone
  /\ UNCHANGED <<catalogues, transactions, redis, list, listing, counters>>

\* The component has other tools.
ToolsChange ==
  /\ changes < MaxChanges
  /\ changes' = changes + 1
  /\ list' \in Lists \ {list}
  /\ UNCHANGED <<catalogues, refresh, transactions, redis, connected, listing, listings>>

\* The gateway restarts, with memory empty and nothing in flight.
Restart ==
  /\ changes < MaxChanges
  /\ changes' = changes + 1
  /\ tools' = [t \in Tools |-> "absent"]
  /\ refresh' = [f \in Refreshes |-> Idle]
  /\ since' = [f \in Refreshes |-> {}] /\ newer' = [f \in Refreshes |-> {}]
  /\ connected' = FALSE
  /\ listing' = None
  /\ UNCHANGED <<dbTools, redis, list, listings>>
-----------------------------------------------------------------------------
(***************************************************************************)
(* Service.GroupTools, for a group with the tools bound.                   *)
(***************************************************************************)

ListGroupTools(bound) ==
  /\ UseStore
  /\ listing = None
  /\ \E t \in bound : dbTools[t] # "absent"
  /\ listings < MaxListings
  /\ listings' = listings + 1
  /\ listing' = [t \in Tools |-> IF t \in bound THEN dbTools[t] ELSE "absent"]
  /\ UNCHANGED <<catalogues, refresh, transactions, redis, upstream, changes>>

\* The rows are written over the entries in memory.
CopyRows ==
  /\ listing # None
  /\ tools' = [t \in Tools |-> IF listing[t] = "absent" THEN tools[t] ELSE listing[t]]
  /\ listing' = None
  /\ UNCHANGED <<dbTools, refresh, transactions, redis, upstream, counters>>
-----------------------------------------------------------------------------
RefreshStep(f) ==
  \/ TryLock(f)
  \/ GetCatalog(f)
  \/ BeginReplace(f)
  \/ ReplaceTools(f)
  \/ \E ok \in BOOLEAN : CommitReplace(f, ok) \/ SetCatalog(f, ok)

Next ==
  \/ \E f \in Refreshes :
       \/ CatalogRefresh(f) \/ Register(f)
       \/ RefreshStep(f) \/ Fetch(f) \/ FetchEmpty(f) \/ FetchFails(f)
  \/ LockExpires
  \/ CacheExpires
  \/ Disconnect
  \/ ToolsChange
  \/ \E bound \in SUBSET Tools : ListGroupTools(bound)
  \/ CopyRows
  \/ Restart

Spec == Init /\ [][Next]_vars

(***************************************************************************)
(* Goroutines run; the component answers, and PostgreSQL and Redis take    *)
(* the catalogue, not always but again and again; the lock expires; and an *)
(* administrator keeps asking for refreshes, since nothing in the gateway  *)
(* repeats one.                                                            *)
(***************************************************************************)
Fairness ==
  /\ \A f \in Refreshes : WF_vars(RefreshStep(f))
  /\ SF_vars(\E f \in Refreshes : Fetch(f))
  /\ SF_vars(\E f \in Refreshes : CommitReplace(f, TRUE))
  /\ SF_vars(\E f \in Refreshes : SetCatalog(f, TRUE))
  /\ WF_vars(LockExpires)
  /\ WF_vars(\E f \in Refreshes : CatalogRefresh(f))

FairSpec == Spec /\ Fairness
-----------------------------------------------------------------------------
(***************************************************************************)
(* Properties.                                                             *)
(***************************************************************************)

Available(catalogue) == {t \in Tools : catalogue[t] = "enabled"}

\* The catalogue in memory is one list that the component had, never a mixture of
\* two, however refreshes, the cache and the lock interleave (ReplaceTools,
\* refreshDiscovery), as long as nobody has listed a group's tools: GroupTools
\* writes the rows it has read over entries that may be newer.
CatalogueWhole == listings = 0 => Available(tools) \in Lists \cup {{}}

\* A component that stays connected and keeps its tools gets them, and no others,
\* into the catalogue for good, in memory and in tool_catalog, if refreshes are
\* asked for again and again: late answers, the cached list of before, overlapping
\* transactions, rows listed too early and a lock nobody releases delay that only.
CatalogueSettles ==
  <>[]connected => <>[](/\ Available(tools) = list
                        /\ UseStore => Available(dbTools) = list)
=============================================================================
