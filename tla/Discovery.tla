------------------------------- MODULE Discovery -------------------------------
(***************************************************************************)
(* Dynamic discovery: the groups of a tenant and the tools bound to them.  *)
(*                                                                         *)
(* discovery.Service keeps them in memory, where the hub looks tools up,   *)
(* and with PostgreSQL (UseStore) in tables as well.  Every request of an  *)
(* administrator first runs one statement on the tables and then, under    *)
(* Service.mu, changes memory; in between anything may happen.  Memory is  *)
(* never loaded from the tables at start: it learns of their rows from     *)
(* requests that list them.                                                *)
(*                                                                         *)
(* The catalogue of tools is replaced now and then, table first and memory *)
(* later; module Catalogue has the details, and refreshes that overlap.    *)
(* One tenant and one component: maps and rows are keyed by both.          *)
(* Requests that a table refuses change nothing and are not actions.       *)
(***************************************************************************)
EXTENDS Integers

CONSTANTS
  Groups,      \* group identifiers
  Default,     \* "default", one of them
  Names,       \* group names
  DefaultName, \* "Default", the name of the default group in memory
  Fold,        \* strings.EqualFold(n, m) is Fold[n] = Fold[m]
  Tools,       \* tool names of the component
  Requests,    \* administrators' requests that may run at one time
  UseStore,    \* PostgreSQL is configured
  MaxRequests, \* bound: requests of administrators
  None         \* null value

ASSUME DiscoveryAssumption ==
  /\ Default \in Groups
  /\ DefaultName \in Names
  /\ DOMAIN Fold = Names
  /\ UseStore \in BOOLEAN
  /\ MaxRequests \in Nat
  /\ None \notin Names \cup Groups \cup Tools

VARIABLES
  groups,     \* Service.groups: the name of each group, None without an entry
  tools,      \* Service.tools
  members,    \* Service.memberships
  dbGroups,   \* tool_groups
  dbTools,    \* tool_catalog
  dbMembers,  \* group_tools
  request,    \* requests between table and memory
  replacing,  \* the list that is in tool_catalog, or failed to be, and not yet in memory
  acked,      \* groups and bindings whose last request was answered with success,
              \* as long as requests come one at a time
  overlapped, \* two requests have been in flight at one time since the gateway's start
  requests

memory == <<groups, tools, members>>
tables == <<dbGroups, dbTools, dbMembers>>
history == <<acked, overlapped>>
vars == <<memory, tables, request, replacing, history, requests>>

Availability == {"absent", "disabled", "enabled"}

\* What a request may be about: a group, or a group and a tool.
Subjects == (Groups \ {Default}) \X (Tools \cup {None})

Operations == {"create", "update", "delete", "tools", "attach", "detach", "list"}

Idle == [op |-> "idle", g |-> None, x |-> None, rows |-> None]

InFlight(q) == request[q].op # "idle"

\* What a request carries: a group, a name or a tool, and rows.
RequestOK(r) ==
  /\ r.op \in Operations \cup {"idle"}
  /\ r.op \notin {"idle", "list"} => r.g \in Groups
  /\ r.op \in {"create", "update"} => r.x \in Names
  /\ r.op \in {"attach", "detach"} => r.x \in Tools
  /\ r.op = "tools" => r.rows \in [Tools -> Availability]
  /\ r.op = "list" => r.rows \in [Groups -> Names \cup {None}]

TypeOK ==
  /\ groups \in [Groups -> Names \cup {None}] /\ dbGroups \in [Groups -> Names \cup {None}]
  /\ tools \in [Tools -> Availability] /\ dbTools \in [Tools -> Availability]
  /\ members \in [Groups -> SUBSET Tools] /\ dbMembers \in [Groups -> SUBSET Tools]
  /\ request = [q \in Requests |-> request[q]] /\ \A q \in Requests : RequestOK(request[q])
  /\ replacing = None \/ replacing \in SUBSET Tools
  /\ acked \in SUBSET Subjects /\ overlapped \in BOOLEAN
  /\ requests \in 0..MaxRequests

\* Memory is empty, and the tables hold what an earlier run may have left, but for
\* a row of the default group.
Init ==
  /\ groups = [g \in Groups |-> None]
  /\ tools = [t \in Tools |-> "absent"]
  /\ members = [g \in Groups |-> {}]
  /\ dbGroups \in [Groups -> Names \cup {None}] /\ dbGroups[Default] = None
  /\ dbTools \in [Tools -> Availability]
  /\ dbMembers \in [Groups -> SUBSET Tools]
  /\ \A g \in Groups : \A t \in dbMembers[g] : dbGroups[g] # None /\ dbTools[t] # "absent"
  /\ \A g, h \in Groups : g # h /\ dbGroups[g] = dbGroups[h] => dbGroups[g] = None
  /\ request = [q \in Requests |-> Idle]
  /\ replacing = None
  /\ acked = {} /\ overlapped = FALSE
  /\ requests = 0
-----------------------------------------------------------------------------
(***************************************************************************)
(* Requests of administrators: first the tables ...                        *)
(***************************************************************************)

\* Request q, operation op on group g with a name or tool x, has done its work
\* on the tables and goes on with the rows it has read.  What it is about is open
\* until it is answered.
Sent(q, op, g, x, rows, subjects) ==
  /\ ~InFlight(q)
  /\ requests < MaxRequests
  /\ requests' = requests + 1
  /\ request' = [request EXCEPT ![q] = [op |-> op, g |-> g, x |-> x, rows |-> rows]]
  /\ overlapped' = (overlapped \/ \E p \in Requests : InFlight(p))
  /\ acked' = IF overlapped' THEN {} ELSE acked \ subjects
  /\ UNCHANGED <<memory, replacing>>

\* UNIQUE (tenant_id, name)
NameFree(g, n) == \A h \in Groups \ {g} : dbGroups[h] # n

\* Store.CreateGroup is a plain INSERT.
CreateGroup(q, g, n) ==
  /\ UseStore => dbGroups[g] = None /\ NameFree(g, n)
  /\ dbGroups' = IF UseStore THEN [dbGroups EXCEPT ![g] = n] ELSE dbGroups
  /\ Sent(q, "create", g, n, None, {<<g, None>>})
  /\ UNCHANGED <<dbTools, dbMembers>>

\* Store.UpdateGroup: that no row was updated is not an error.
UpdateGroup(q, g, n) ==
  /\ UseStore /\ dbGroups[g] # None => NameFree(g, n)
  /\ dbGroups' = IF UseStore /\ dbGroups[g] # None THEN [dbGroups EXCEPT ![g] = n] ELSE dbGroups
  /\ Sent(q, "update", g, n, None, {<<g, None>>})
  /\ UNCHANGED <<dbTools, dbMembers>>

\* Store.DeleteGroup: the group's bindings go with it.
DeleteGroup(q, g) ==
  /\ UseStore => dbGroups[g] # None
  /\ dbGroups' = IF UseStore THEN [dbGroups EXCEPT ![g] = None] ELSE dbGroups
  /\ dbMembers' = IF UseStore THEN [dbMembers EXCEPT ![g] = {}] ELSE dbMembers
  /\ Sent(q, "delete", g, None, None, {g} \X (Tools \cup {None}))
  /\ UNCHANGED dbTools

\* Store.ListGroupTools reads the rows of the group's tools.
GroupTools(q, g) ==
  /\ UseStore
  /\ Sent(q, "tools", g, None,
          [t \in Tools |-> IF t \in dbMembers[g] THEN dbTools[t] ELSE "absent"], {})
  /\ UNCHANGED tables

\* Store.AttachTool: both foreign keys must exist.
AttachTool(q, g, t) ==
  /\ UseStore => dbGroups[g] # None /\ dbTools[t] # "absent"
  /\ dbMembers' = IF UseStore THEN [dbMembers EXCEPT ![g] = @ \cup {t}] ELSE dbMembers
  /\ Sent(q, "attach", g, t, None, {<<g, t>>})
  /\ UNCHANGED <<dbGroups, dbTools>>

\* Store.DetachTool
DetachTool(q, g, t) ==
  /\ dbMembers' = IF UseStore THEN [dbMembers EXCEPT ![g] = @ \ {t}] ELSE dbMembers
  /\ Sent(q, "detach", g, t, None, {<<g, t>>})
  /\ UNCHANGED <<dbGroups, dbTools>>

\* Store.ListGroups
ListGroups(q) ==
  /\ UseStore
  /\ Sent(q, "list", None, None, dbGroups, {})
  /\ UNCHANGED tables
-----------------------------------------------------------------------------
(***************************************************************************)
(* ... and then, under Service.mu, memory.                                 *)
(***************************************************************************)

\* Another group in memory has the name, up to case.
NameTaken(g, n) == \E h \in Groups \ {g} : groups[h] # None /\ Fold[groups[h]] = Fold[n]

MutAccepted(r) ==
  CASE r.op \in {"create", "update"} -> ~NameTaken(r.g, r.x)
    [] r.op = "attach" -> groups[r.g] # None /\ tools[r.x] # "absent"
    [] r.op \in {"delete", "detach"} -> groups[r.g] # None
    [] OTHER -> TRUE

\* Whether the operation r finds in memory what it needs.
Accepted(r) ==
  CASE r.op = "create" -> ~NameTaken(r.g, r.x)
    [] r.op = "update" -> groups[r.g] # None /\ ~NameTaken(r.g, r.x)
    [] r.op = "attach" -> groups[r.g] # None /\ tools[r.x] # "absent"
    [] r.op \in {"delete", "detach"} -> groups[r.g] # None
    [] OTHER -> TRUE

\* What an accepted operation sets.  The rows it has listed are added to what is
\* there: an entry whose row is gone stays.
Apply(r) ==
  /\ groups' = CASE r.op \in {"create", "update"} -> [groups EXCEPT ![r.g] = r.x]
                 [] r.op = "delete" -> [groups EXCEPT ![r.g] = None]
                 [] r.op = "list" ->
                      [g \in Groups |-> IF r.rows[g] = None THEN groups[g] ELSE r.rows[g]]
                 [] OTHER -> groups
  /\ members' = CASE r.op = "delete" -> [members EXCEPT ![r.g] = {}]
                  [] r.op = "attach" -> [members EXCEPT ![r.g] = @ \cup {r.x}]
                  [] r.op = "detach" -> [members EXCEPT ![r.g] = @ \ {r.x}]
                  [] r.op = "tools" -> [members EXCEPT ![r.g] =
                                          @ \cup {t \in Tools : r.rows[t] # "absent"}]
                  [] OTHER -> members
  /\ tools' = IF r.op = "tools"
              THEN [t \in Tools |-> IF r.rows[t] = "absent" THEN tools[t] ELSE r.rows[t]]
              ELSE tools

\* What an answer of success says is in force.
Confirmed(r) ==
  {s \in Subjects : /\ s[1] = r.g
                    /\ \/ r.op \in {"create", "update"} /\ s[2] = None
                       \/ r.op \in {"attach", "detach"} /\ s[2] = r.x
                       \/ r.op = "delete"}

Finish(q) ==
  /\ InFlight(q)
  /\ request' = [request EXCEPT ![q] = Idle]
  /\ IF Accepted(request[q])
     THEN Apply(request[q]) /\ acked' = IF overlapped THEN {} ELSE acked \cup Confirmed(request[q])
     ELSE UNCHANGED <<memory, acked>>
  /\ UNCHANGED <<tables, replacing, overlapped, requests>>

\* EnsureDefault, at every request to the hub.
EnsureDefault ==
  /\ \A g \in Groups : groups[g] = None
  /\ groups' = [groups EXCEPT ![Default] = DefaultName]
  /\ UNCHANGED <<tools, members, tables, request, replacing, history, requests>>
-----------------------------------------------------------------------------
(***************************************************************************)
(* The catalogue, and the gateway.                                         *)
(***************************************************************************)

\* Store.ReplaceTools, at any time with any list: the tools seen are enabled, the
\* others disabled.  A failure is ignored.
ReplaceRows(got, committed) ==
  /\ replacing = None
  /\ replacing' = got
  /\ dbTools' = IF UseStore /\ committed
                THEN [t \in Tools |-> IF t \in got THEN "enabled"
                                      ELSE IF dbTools[t] = "enabled" THEN "disabled" ELSE dbTools[t]]
                ELSE dbTools
  /\ UNCHANGED <<memory, dbGroups, dbMembers, request, history, requests>>

MutReplaceTools ==
  /\ replacing # None
  /\ replacing' = None
  /\ tools' = [t \in Tools |-> IF t \in replacing THEN "enabled" ELSE "absent"]
  /\ members' = [members EXCEPT ![Default] = replacing]
  /\ UNCHANGED <<groups, tables, request, history, requests>>

\* Service.ReplaceTools in memory: the component's tools are replaced by the
\* list and bound to the default group; bindings to other groups stay.
ReplaceTools ==
  /\ replacing # None
  /\ replacing' = None
  /\ tools' = [t \in Tools |-> IF t \in replacing THEN "enabled" ELSE "absent"]
  /\ members' = [members EXCEPT ![Default] = @ \cup replacing]
  /\ UNCHANGED <<groups, tables, request, history, requests>>

\* The gateway restarts, with memory empty and nothing in flight.
Restart ==
  /\ groups' = [g \in Groups |-> None]
  /\ tools' = [t \in Tools |-> "absent"]
  /\ members' = [g \in Groups |-> {}]
  /\ request' = [q \in Requests |-> Idle]
  /\ replacing' = None
  /\ acked' = {} /\ overlapped' = FALSE
  /\ UNCHANGED <<tables, requests>>
-----------------------------------------------------------------------------
TableStep(q) ==
  \/ \E g \in Groups :
       \/ \E n \in Names : CreateGroup(q, g, n) \/ UpdateGroup(q, g, n)
       \/ \E t \in Tools : AttachTool(q, g, t) \/ DetachTool(q, g, t)
       \/ DeleteGroup(q, g)
       \/ GroupTools(q, g)
  \/ ListGroups(q)

Running ==
  \/ \E q \in Requests : TableStep(q) \/ Finish(q)
  \/ EnsureDefault
  \/ \E got \in SUBSET Tools, committed \in BOOLEAN : ReplaceRows(got, committed)
  \/ ReplaceTools

Next == Running \/ Restart

Spec == Init /\ [][Next]_vars
-----------------------------------------------------------------------------
(***************************************************************************)
(* Properties.                                                             *)
(***************************************************************************)

\* Group-tool references are retained: whatever refreshes, cached catalogues,
\* failures and other requests do, a tool stays bound to a group, in memory and
\* in group_tools, until a request detaches it or deletes the group (ReplaceTools;
\* docs/dynamic-discovery.md).
BindingsRetained ==
  [][\A g \in Groups, t \in Tools :
       /\ t \in dbMembers[g] \ dbMembers'[g] =>
            \E q \in Requests : DeleteGroup(q, g) \/ DetachTool(q, g, t)
       /\ t \in members[g] \ members'[g] =>
            \/ Restart
            \/ \E q \in Requests : /\ Finish(q)
                                   /\ request[q].g = g
                                   /\ \/ request[q].op = "delete"
                                      \/ request[q].op = "detach" /\ request[q].x = t]_vars

\* A change that an administrator was told is made is made in memory and in the
\* tables, whatever refreshes run and whichever other requests fail half-way,
\* provided the requests come one at a time.  The default group is different:
\* memory has it without a row, and binds every tool to it.
AcknowledgedInBoth ==
  UseStore /\ ~overlapped =>
    \A g \in Groups \ {Default} :
      /\ <<g, None>> \in acked => groups[g] = dbGroups[g]
      /\ \A t \in Tools : <<g, t>> \in acked => (t \in members[g] <=> t \in dbMembers[g])

=============================================================================
