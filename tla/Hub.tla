----------------------------------- MODULE Hub -----------------------------------
(***************************************************************************)
(* The hub, a virtual MCP server: a client opens a session with an access  *)
(* token, works in the session's active group and may switch to another    *)
(* group that the token was granted.  Administrators meanwhile change the  *)
(* groups and bindings of Discovery and the grants of the token.           *)
(*                                                                         *)
(* A session keeps the identity it began with: ValidateAccessToken reads   *)
(* the token's default group and its granted groups by two statements at   *)
(* the first call, and later calls only look at the copy.  Calls of one    *)
(* session may run at one time, and several may find it not yet open.      *)
(* There is one token and one session opened with it; without PostgreSQL   *)
(* tokens have no groups, and the session may use every group.             *)
(***************************************************************************)
EXTENDS Discovery

CONSTANT
  Calls  \* calls of the session that may run at one time

VARIABLES
  defaultGroup, \* auth_tokens.default_group_id
  grants,       \* token_groups
  session,      \* Gateway.hubSessions: the identity of the session
  call,         \* calls of the session: where they stand, and their copy of its identity
  granted       \* the token's groups, by default or by grant, while the session was opened

tokenVars == <<defaultGroup, grants>>
hubVars == <<vars, tokenVars, session, call, granted>>

\* discovery.Identity: every group is allowed when none is listed.
Identity(active, allowed) == [active |-> active, allowed |-> allowed]

Nobody == Identity(None, {})
Identities == [active : Groups \cup {None}, allowed : SUBSET Groups]

NoCall == [pc |-> "idle", id |-> Nobody]

HubTypeOK ==
  /\ TypeOK
  /\ defaultGroup \in Groups /\ grants \in SUBSET Groups
  /\ session \in Identities
  /\ call \in [Calls -> [pc : {"idle", "reading", "serving"}, id : Identities]]
  /\ granted \in SUBSET Groups

HubInit ==
  /\ Init
  /\ defaultGroup = Default /\ grants \in SUBSET {g \in Groups : dbGroups[g] # None}
  /\ session = Nobody
  /\ call = [c \in Calls |-> NoCall]
  /\ granted = {}

\* What ValidateAccessToken makes of a default group and rows of token_groups.
AllowedGroups(default, rows) == IF rows = {} THEN {default} ELSE rows

\* The groups of the token are noted while a call is opening the session.
NoteGrants ==
  granted' = granted \cup (IF \E c \in Calls : call[c].pc = "reading"
                           THEN {defaultGroup'} \cup grants' ELSE {})

\* A step of Discovery.  Deleting a group deletes its rows of token_groups; a
\* restart ends the session and its calls.
DiscoveryStep ==
  \/ /\ Running
     /\ grants' = {g \in grants : dbGroups'[g] # None}
     /\ UNCHANGED <<defaultGroup, session, call>>
     /\ NoteGrants
  \/ /\ Restart
     /\ session' = Nobody /\ call' = [c \in Calls |-> NoCall] /\ granted' = {}
     /\ UNCHANGED tokenVars

MutSetTokenGroups(listed, first, default) ==
  /\ UseStore
  /\ requests < MaxRequests
  /\ requests' = requests + 1
  /\ \A g \in listed : dbGroups[g] # None
  /\ grants' = listed \cup {default}
  /\ defaultGroup' = IF default \in listed THEN first ELSE default
  /\ NoteGrants
  /\ UNCHANGED <<memory, tables, request, replacing, history, session, call>>

\* PUT /api/admin/tokens/ID/groups with groups, the first one first, and maybe a
\* default group, which is put in front unless it is among them.  One transaction,
\* refused when a group has no row.
SetTokenGroups(listed, first, default) ==
  /\ UseStore
  /\ requests < MaxRequests
  /\ requests' = requests + 1
  /\ LET all == listed \cup ({default} \ {None}) IN
     /\ all # {} /\ \A g \in all : dbGroups[g] # None
     /\ grants' = all
     /\ defaultGroup' = IF default = None \/ default \in listed THEN first ELSE default
  /\ NoteGrants
  /\ UNCHANGED <<memory, tables, request, replacing, history, session, call>>

\* handleHub: EnsureDefault, and the session is looked up.  If there is none, the
\* token's row is read.
HandleHub(c) ==
  /\ call[c].pc = "idle"
  /\ groups' = IF \A g \in Groups : groups[g] = None
               THEN [groups EXCEPT ![Default] = DefaultName] ELSE groups
  /\ IF session = Nobody /\ UseStore
     THEN /\ call' = [call EXCEPT ![c] = [pc |-> "reading", id |-> Identity(defaultGroup, {})]]
          /\ granted' = granted \cup {defaultGroup} \cup grants
          /\ UNCHANGED session
     ELSE /\ session' = IF session = Nobody THEN Identity(Default, {}) ELSE session
          /\ call' = [call EXCEPT ![c] = [pc |-> "serving", id |-> session']]
          /\ UNCHANGED granted
  /\ UNCHANGED <<tools, members, tables, request, replacing, history, requests, tokenVars>>

\* The token's rows of token_groups are read, or are taken for none when that
\* fails, and the identity is stored.
OpenSession(c, read) ==
  /\ call[c].pc = "reading"
  /\ session' = Identity(call[c].id.active,
                         AllowedGroups(call[c].id.active, IF read THEN grants ELSE {}))
  /\ call' = [call EXCEPT ![c] = [pc |-> "serving", id |-> session']]
  /\ UNCHANGED <<vars, tokenVars, granted>>

MutGroupAllowed(c, g) == groups[g] # None

\* Service.group: group g exists and is allowed for the call's identity.
GroupAllowed(c, g) ==
  /\ groups[g] # None
  /\ call[c].id.allowed = {} \/ g \in call[c].id.allowed

\* mcphub_set_group: the identity that the call began with is stored, switched.
SetGroup(c, g) ==
  /\ call[c].pc = "serving"
  /\ GroupAllowed(c, g)
  /\ session' = Identity(g, call[c].id.allowed)
  /\ call' = [call EXCEPT ![c] = NoCall]
  /\ UNCHANGED <<vars, tokenVars, granted>>

\* mcphub_search, mcphub_get or mcphub_invoke finds tool t.
Found(c, t) ==
  LET g == call[c].id.active IN
  /\ call[c].pc = "serving"
  /\ GroupAllowed(c, g)
  /\ t \in members[g]
  /\ tools[t] = "enabled"

\* Any other call, or one that is refused, is answered.
Answer(c) ==
  /\ call[c].pc = "serving"
  /\ call' = [call EXCEPT ![c] = NoCall]
  /\ UNCHANGED <<vars, tokenVars, session, granted>>

HubNext ==
  \/ DiscoveryStep
  \/ \E listed \in SUBSET Groups, first \in Groups, default \in Groups \cup {None} :
       (first \in listed \/ listed = {}) /\ SetTokenGroups(listed, first, default)
  \/ \E c \in Calls :
       \/ HandleHub(c)
       \/ \E read \in BOOLEAN : OpenSession(c, read)
       \/ \E g \in Groups : SetGroup(c, g)
       \/ Answer(c)

HubSpec == HubInit /\ [][HubNext]_hubVars
-----------------------------------------------------------------------------
(***************************************************************************)
(* Properties.                                                             *)
(***************************************************************************)

\* A session finds tools only in groups that its token had, by default or by
\* grant, at some time while the session was being opened, although the two are
\* read one after the other, by several calls at once, and groups and grants
\* change at any time (ValidateAccessToken, SetTokenGroups, handleHub, SetGroup).
FoundWithinGrants ==
  UseStore => \A c \in Calls, t \in Tools : Found(c, t) => call[c].id.active \in granted
=============================================================================
