------------------------------- MODULE DeviceLogin -------------------------------
(***************************************************************************)
(* Device-code login: mcp-connect login asks the gateway for a device      *)
(* code, a user approves it in a browser, and the login polls until it is  *)
(* given an access token.  Whoever holds tokens may refresh or revoke      *)
(* them, and the gateway validates access tokens.                          *)
(*                                                                         *)
(* DeviceAuth keeps codes and tokens in memory, one entry per code, or in  *)
(* PostgreSQL (useStore), where a code is consumed by its exchange and a   *)
(* refresh token by its use.  Each request is one critical section of      *)
(* DeviceAuth.mu or one transaction that locks its row.  The answer to a   *)
(* request may be lost on the way back.                                    *)
(*                                                                         *)
(* Requests that change nothing and whose answer changes nothing (a poll   *)
(* answered with authorization_pending, a code that could not be stored)   *)
(* are not actions.  Time is not modelled: codes and tokens may expire at  *)
(* any moment.                                                             *)
(***************************************************************************)
EXTENDS Integers

CONSTANTS
  Codes,        \* device codes, one for each login
  MaxTokens,    \* bound: random token values drawn
  MaxRefreshes, \* bound: uses of refresh tokens
  MaxRestarts,  \* bound: restarts of the gateway
  None          \* null value

\* Token values, numbered in the order in which they are drawn.
Tokens == 1..MaxTokens

ASSUME LoginAssumption ==
  /\ MaxTokens \in Nat /\ MaxRefreshes \in Nat /\ MaxRestarts \in Nat
  /\ None \notin Codes \cup 0..MaxTokens

VARIABLES
  useStore,   \* PostgreSQL is configured
  login,      \* where mcp-connect login stands
  code,       \* the code's entry or row
  codeOld,    \* codes past ExpiresAt
  accessOf,   \* deviceEntry.AccessToken (memory)
  refreshOf,  \* deviceEntry.RefreshToken (memory)
  dead,       \* codes whose deviceEntry.Revoked is set (memory)
  drawn,      \* token values drawn so far
  type,       \* auth_tokens.token_type, "none" for a value not drawn yet
  owner,      \* the login a token goes back to
  revoked,    \* auth_tokens.revoked_at is set (PostgreSQL)
  tokenOld,   \* tokens past their expiry
  held,       \* tokens that a client has received
  given,      \* access tokens that a client has asked to revoke
  refreshes, restarts

counters == <<refreshes, restarts>>
memoryVars == <<accessOf, refreshOf, dead>>
tokenVars == <<drawn, type, owner>>
vars == <<useStore, login, code, codeOld, memoryVars, tokenVars, revoked, tokenOld, held, given, counters>>

TypeOK ==
  /\ useStore \in BOOLEAN
  /\ login \in [Codes -> {"idle", "polling", "done", "failed"}]
  /\ code \in [Codes -> {"none", "pending", "approved", "consumed"}]
  /\ codeOld \in SUBSET Codes
  /\ accessOf \in [Codes -> Tokens \cup {None}]
  /\ refreshOf \in [Codes -> Tokens \cup {None}]
  /\ dead \in SUBSET Codes
  /\ drawn \in 0..MaxTokens
  /\ type \in [Tokens -> {"none", "access", "refresh"}]
  /\ owner \in [Tokens -> Codes \cup {None}]
  /\ revoked \in SUBSET Tokens
  /\ tokenOld \in SUBSET Tokens
  /\ held \in SUBSET Tokens
  /\ given \in SUBSET Tokens
  /\ refreshes \in 0..MaxRefreshes /\ restarts \in 0..MaxRestarts

Init ==
  /\ useStore \in BOOLEAN
  /\ login = [c \in Codes |-> "idle"]
  /\ code = [c \in Codes |-> "none"]
  /\ codeOld = {}
  /\ accessOf = [c \in Codes |-> None]
  /\ refreshOf = [c \in Codes |-> None]
  /\ dead = {}
  /\ drawn = 0
  /\ type = [t \in Tokens |-> "none"]
  /\ owner = [t \in Tokens |-> None]
  /\ revoked = {}
  /\ tokenOld = {}
  /\ held = {}
  /\ given = {}
  /\ refreshes = 0 /\ restarts = 0
-----------------------------------------------------------------------------
(***************************************************************************)
(* Code, approval, and the polling login.                                  *)
(***************************************************************************)

\* POST /api/auth/device/code
CreateCode(c) ==
  /\ login[c] = "idle"
  /\ login' = [login EXCEPT ![c] = "polling"]
  /\ code' = [code EXCEPT ![c] = "pending"]
  /\ UNCHANGED <<codeOld, memoryVars, tokenVars, revoked, tokenOld, held, given, counters>>

\* POST /api/auth/device/approve, before the code expires.
Approve(c) ==
  /\ code[c] = "pending"
  /\ c \notin codeOld
  /\ code' = [code EXCEPT ![c] = "approved"]
  /\ UNCHANGED <<login, codeOld, memoryVars, tokenVars, revoked, tokenOld, held, given, counters>>

\* Tokens a and r are drawn for login c.
Draw(c, a, r) ==
  /\ a = drawn + 1 /\ r = drawn + 2
  /\ drawn' = drawn + 2
  /\ type' = [type EXCEPT ![a] = "access", ![r] = "refresh"]
  /\ owner' = [owner EXCEPT ![a] = c, ![r] = c]

\* What the exchange of a code asks of its entry or row.
Granted(c) == code[c] = "approved" /\ c \notin codeOld /\ c \notin dead

\* DeviceAuth.token in memory: the first exchange draws the tokens, a repeated
\* one gives the same again.
ExchangeInMemory(c, a, r) ==
  /\ IF accessOf[c] = None
     THEN /\ Draw(c, a, r)
          /\ accessOf' = [accessOf EXCEPT ![c] = a]
          /\ refreshOf' = [refreshOf EXCEPT ![c] = r]
     ELSE /\ a = accessOf[c] /\ r = refreshOf[c]
          /\ UNCHANGED <<accessOf, refreshOf, tokenVars>>
  /\ UNCHANGED <<code, dead>>

\* ConnectStore.ExchangeDeviceCode: the code is consumed.
ExchangeDeviceCode(c, a, r) ==
  /\ Draw(c, a, r)
  /\ code' = [code EXCEPT ![c] = "consumed"]
  /\ UNCHANGED memoryVars

MutPollGranted(c, delivered) ==
  /\ login[c] = "polling"
  /\ Granted(c)
  /\ accessOf[c] = None
  /\ \E a, r \in Tokens :
       /\ IF useStore THEN ExchangeDeviceCode(c, a, r) ELSE ExchangeInMemory(c, a, r)
       /\ held' = IF delivered THEN held \cup {a, r} ELSE held
  /\ login' = [login EXCEPT ![c] = IF delivered THEN "done" ELSE @]
  /\ UNCHANGED <<codeOld, revoked, tokenOld, given, counters>>

\* A poll that is given tokens; the login keeps the access token, unless the
\* answer is lost.
PollGranted(c, delivered) ==
  /\ login[c] = "polling"
  /\ Granted(c)
  /\ \E a, r \in Tokens :
       /\ IF useStore THEN ExchangeDeviceCode(c, a, r) ELSE ExchangeInMemory(c, a, r)
       /\ held' = IF delivered THEN held \cup {a, r} ELSE held
  /\ login' = [login EXCEPT ![c] = IF delivered THEN "done" ELSE @]
  /\ UNCHANGED <<codeOld, revoked, tokenOld, given, counters>>

MutPollPending(c) == FALSE

\* authorization_pending, which only the entries in memory tell apart.
PollPending(c) == ~useStore /\ code[c] = "pending" /\ c \notin codeOld /\ c \notin dead

\* A poll that is answered with status 400: log.Fatalf ends the login.  With
\* PostgreSQL any poll may be, since its transaction may fail.
PollRefused(c) ==
  /\ login[c] = "polling"
  /\ useStore \/ (~Granted(c) /\ ~PollPending(c))
  /\ login' = [login EXCEPT ![c] = "failed"]
  /\ UNCHANGED <<code, codeOld, memoryVars, tokenVars, revoked, tokenOld, held, given, counters>>
-----------------------------------------------------------------------------
(***************************************************************************)
(* The holder of a token.                                                  *)
(***************************************************************************)

\* A refresh token that POST /api/auth/token accepts.
UsableRefresh(t) ==
  IF useStore THEN type[t] = "refresh" /\ t \notin revoked /\ t \notin tokenOld
              ELSE \E c \in Codes : refreshOf[c] = t /\ c \notin dead /\ c \notin codeOld

MutRotate(t, a, r) ==
  /\ Draw(owner[t], a, r)
  /\ UNCHANGED <<revoked, memoryVars>>

\* ConnectStore.RefreshToken: a new pair, and the old refresh token is revoked.
Rotate(t, a, r) ==
  /\ Draw(owner[t], a, r)
  /\ revoked' = revoked \cup {t}
  /\ UNCHANGED memoryVars

\* DeviceAuth.oauthToken in memory: a new access token under the same refresh
\* token.
Renew(t, a) ==
  /\ a = drawn + 1
  /\ drawn' = drawn + 1
  /\ type' = [type EXCEPT ![a] = "access"]
  /\ owner' = [owner EXCEPT ![a] = owner[t]]
  /\ accessOf' = [accessOf EXCEPT ![owner[t]] = a]
  /\ UNCHANGED <<revoked, refreshOf, dead>>

Refresh(t, delivered) ==
  /\ t \in held
  /\ UsableRefresh(t)
  /\ refreshes < MaxRefreshes
  /\ refreshes' = refreshes + 1
  /\ \E a, r \in Tokens :
       /\ IF useStore THEN Rotate(t, a, r) ELSE r = t /\ Renew(t, a)
       /\ held' = IF delivered THEN held \cup {a, r} ELSE held
  /\ UNCHANGED <<login, code, codeOld, tokenOld, given, restarts>>

MutRevokeRows(t) == {u \in Tokens : owner[u] = owner[t]}

MutRevokeOwner(t) == {owner[t]}

\* The rows RevokeToken sets revoked_at in.
RevokeRows(t) == {t}

\* POST /api/auth/revoke.  In memory the whole entry is revoked, with
\* PostgreSQL the one row; that the statement failed is not noticed.  The mark
\* left in Redis does to an access token what the row does.
Revoke(t) ==
  /\ t \in held
  /\ given' = given \cup {u \in {t} : type[u] = "access"}
  /\ IF useStore
     THEN revoked' \in {revoked, revoked \cup RevokeRows(t)} /\ UNCHANGED dead
     ELSE /\ dead' = dead \cup {c \in Codes : accessOf[c] = t \/ refreshOf[c] = t}
          /\ UNCHANGED revoked
  /\ UNCHANGED <<login, code, codeOld, accessOf, refreshOf, tokenVars, tokenOld, held, counters>>

\* DeviceAuth.Validate
Validates(t) ==
  IF useStore THEN type[t] = "access" /\ t \notin revoked /\ t \notin tokenOld
              ELSE t \notin tokenOld /\ \E c \in Codes : accessOf[c] = t /\ c \notin dead
-----------------------------------------------------------------------------
CodeExpires(c) ==
  /\ code[c] # "none" /\ c \notin codeOld
  /\ codeOld' = codeOld \cup {c}
  /\ UNCHANGED <<login, code, memoryVars, tokenVars, revoked, tokenOld, held, given, counters>>

TokenExpires(t) ==
  /\ type[t] # "none" /\ t \notin tokenOld
  /\ tokenOld' = tokenOld \cup {t}
  /\ UNCHANGED <<login, code, codeOld, memoryVars, tokenVars, revoked, held, given, counters>>

\* The gateway restarts.
Restart ==
  /\ restarts < MaxRestarts
  /\ restarts' = restarts + 1
  /\ accessOf' = [c \in Codes |-> None]
  /\ refreshOf' = [c \in Codes |-> None]
  /\ dead' = {}
  /\ code' = IF useStore THEN code ELSE [c \in Codes |-> "none"]
  /\ UNCHANGED <<login, codeOld, tokenVars, revoked, tokenOld, held, given, refreshes>>

Next ==
  /\ UNCHANGED useStore
  /\ \/ \E c \in Codes :
          \/ CreateCode(c)
          \/ Approve(c)
          \/ \E delivered \in BOOLEAN : PollGranted(c, delivered)
          \/ PollRefused(c)
          \/ CodeExpires(c)
     \/ \E t \in Tokens :
          \/ \E delivered \in BOOLEAN : Refresh(t, delivered)
          \/ Revoke(t)
          \/ TokenExpires(t)
     \/ Restart

Spec == Init /\ [][Next]_vars

(***************************************************************************)
(* A login keeps polling, and not every answer is lost.  Nobody has to     *)
(* approve anything.                                                       *)
(***************************************************************************)
Fairness ==
  \A c \in Codes : /\ WF_vars(PollGranted(c, TRUE) /\ UNCHANGED useStore)
                   /\ WF_vars(PollRefused(c) /\ UNCHANGED useStore)

FairSpec == Spec /\ Fairness
-----------------------------------------------------------------------------
(***************************************************************************)
(* Properties.                                                             *)
(***************************************************************************)

\* A login has at most one usable refresh token at a time: neither repeated
\* polls, nor refreshes whose answers were lost, nor a restart split it into two
\* lines of tokens (ExchangeDeviceCode, RefreshToken).
OneRefreshToken ==
  \A t, u \in Tokens :
    UsableRefresh(t) /\ UsableRefresh(u) /\ owner[t] = owner[u] => t = u

\* With PostgreSQL an access token stops being valid only by its expiry or by a
\* request to revoke it: not by a restart, nor by a refresh or by what happens
\* to other tokens of the login.
StaysValid ==
  [][useStore => \A t \in Tokens :
                   Validates(t) /\ ~Validates(t)' => t \in tokenOld' \cup given']_vars

\* In memory, and unless the gateway restarts, a login gives up only when its
\* code has expired: it polls until the confirmation in the browser, and answers
\* lost on the way do not matter.
PollsUntilConfirmed ==
  ~useStore /\ restarts = 0 => \A c \in Codes : login[c] = "failed" => c \in codeOld

\* There a login whose code the user has approved in time is given its token.
ApprovedLoginCompletes ==
  \A c \in Codes :
    (~useStore /\ login[c] = "polling" /\ code[c] = "approved")
      ~> (login[c] = "done" \/ c \in codeOld \/ restarts > 0)
=============================================================================
