--------------------------- MODULE DeviceLoginProofs ---------------------------
(***************************************************************************)
(* Proofs about DeviceLogin, for any logins and any number of tokens,      *)
(* refreshes and restarts.                                                 *)
(***************************************************************************)
EXTENDS DeviceLogin, TLAPS

\* A refresh token that the table still has as unused.
Unused(t) == type[t] = "refresh" /\ t \notin revoked

(***************************************************************************)
(* The inductive invariant.  Values not drawn yet have no type; with       *)
(* PostgreSQL an unused refresh token says that the code of its login was  *)
(* consumed, so that no exchange can add a second one.                     *)
(***************************************************************************)
LoginInv ==
  /\ TypeOK
  /\ \A t \in Tokens : t > drawn => type[t] = "none"
  /\ \A t \in Tokens : type[t] # "none" => owner[t] \in Codes
  /\ \A c \in Codes : login[c] = "idle" => code[c] = "none"
  /\ \A c \in Codes : refreshOf[c] \in Tokens =>
       type[refreshOf[c]] = "refresh" /\ owner[refreshOf[c]] = c
  /\ useStore => \A t \in Tokens : Unused(t) => code[owner[t]] = "consumed"
  /\ useStore => \A t, u \in Tokens : Unused(t) /\ Unused(u) /\ owner[t] = owner[u] => t = u

\* The invariant holds initially.
LEMMA LoginInit == Init => LoginInv
  BY LoginAssumption DEF Init, LoginInv, TypeOK, Tokens, Unused

\* Drawing a pair for a login of which no refresh token is unused keeps the
\* part of the invariant that is about tokens.
LEMMA DrawStep ==
  ASSUME LoginInv, NEW c \in Codes, NEW a \in Tokens, NEW r \in Tokens, Draw(c, a, r)
  PROVE  /\ drawn' \in 0..MaxTokens
         /\ type' \in [Tokens -> {"none", "access", "refresh"}]
         /\ owner' \in [Tokens -> Codes \cup {None}]
         /\ \A t \in Tokens : t > drawn' => type'[t] = "none"
         /\ \A t \in Tokens : type'[t] # "none" => owner'[t] \in Codes
         /\ type[a] = "none" /\ type[r] = "none" /\ a # r
         /\ \A t \in Tokens \ {a, r} : type'[t] = type[t] /\ owner'[t] = owner[t]
         /\ type'[a] = "access" /\ type'[r] = "refresh" /\ owner'[a] = c /\ owner'[r] = c
  BY LoginAssumption DEF LoginInv, TypeOK, Draw, Tokens

\* Every step keeps the invariant.
LEMMA LoginStep == LoginInv /\ [Next]_vars => LoginInv'
  <1> SUFFICES ASSUME LoginInv, [Next]_vars PROVE LoginInv'
    OBVIOUS
  <1> USE LoginAssumption DEF memoryVars, tokenVars, counters
  <1>0. useStore' = useStore
    BY DEF Next, vars
  <1> USE <1>0
  <1>1. ASSUME NEW c \in Codes, CreateCode(c) PROVE LoginInv'
    BY <1>1 DEF CreateCode, LoginInv, TypeOK, Unused
  <1>2. ASSUME NEW c \in Codes, Approve(c) PROVE LoginInv'
    BY <1>2 DEF Approve, LoginInv, TypeOK, Unused
  <1>3. ASSUME NEW c \in Codes, NEW delivered \in BOOLEAN, PollGranted(c, delivered) PROVE LoginInv'
    <2>1. PICK a \in Tokens, r \in Tokens :
            /\ IF useStore THEN ExchangeDeviceCode(c, a, r) ELSE ExchangeInMemory(c, a, r)
            /\ held' = IF delivered THEN held \cup {a, r} ELSE held
      BY <1>3, Zenon DEF PollGranted
    <2>2. /\ login' \in [Codes -> {"idle", "polling", "done", "failed"}]
          /\ held' \in SUBSET Tokens
          /\ \A d \in Codes \ {c} : login'[d] = login[d]
          /\ login'[c] # "idle" /\ code[c] = "approved"
          /\ UNCHANGED <<codeOld, revoked, tokenOld, given, refreshes, restarts>>
      BY <1>3, <2>1 DEF PollGranted, Granted, LoginInv, TypeOK
    <2>3. CASE useStore
      <3>1. Draw(c, a, r) /\ code' = [code EXCEPT ![c] = "consumed"]
            /\ UNCHANGED <<accessOf, refreshOf, dead>>
        BY <2>1, <2>3 DEF ExchangeDeviceCode
      <3>2. TypeOK'
        BY <2>2, <3>1, DrawStep DEF LoginInv, TypeOK
      <3>3. \A d \in Codes : login'[d] = "idle" => code'[d] = "none"
        BY <2>2, <3>1 DEF LoginInv, TypeOK
      <3>4. \A d \in Codes : refreshOf'[d] \in Tokens =>
              type'[refreshOf'[d]] = "refresh" /\ owner'[refreshOf'[d]] = d
        BY <3>1, DrawStep DEF LoginInv
      <3>5. \A t \in Tokens : Unused(t)' => t = r \/ (Unused(t) /\ owner'[t] = owner[t] /\ owner[t] # c)
        BY <2>2, <2>3, <3>1, DrawStep DEF LoginInv, Unused
      <3>6. \A t \in Tokens : Unused(t)' => code'[owner'[t]] = "consumed"
        BY <2>3, <3>1, <3>5, DrawStep, SMTT(60) DEF LoginInv, TypeOK, Unused
      <3>7. \A t, u \in Tokens : Unused(t)' /\ Unused(u)' /\ owner'[t] = owner'[u] => t = u
        BY <2>3, <3>5, <3>1, DrawStep DEF LoginInv
      <3> QED
        BY <3>1, <3>2, <3>3, <3>4, <3>6, <3>7, DrawStep DEF LoginInv
    <2>4. CASE ~useStore
      <3>1. CASE accessOf[c] = None
        <4>1. Draw(c, a, r) /\ UNCHANGED <<code, dead>>
              /\ accessOf' = [accessOf EXCEPT ![c] = a] /\ refreshOf' = [refreshOf EXCEPT ![c] = r]
          BY <2>1, <2>4, <3>1 DEF ExchangeInMemory
        <4>2. TypeOK'
          BY <2>2, <4>1, DrawStep DEF LoginInv, TypeOK
        <4>3. \A d \in Codes : login'[d] = "idle" => code'[d] = "none"
          BY <2>2, <4>1 DEF LoginInv, TypeOK
        <4>4. \A d \in Codes : refreshOf'[d] \in Tokens =>
                type'[refreshOf'[d]] = "refresh" /\ owner'[refreshOf'[d]] = d
          BY <4>1, DrawStep DEF LoginInv, TypeOK
        <4> QED
          BY <2>4, <4>1, <4>2, <4>3, <4>4, DrawStep DEF LoginInv
      <3>2. CASE accessOf[c] # None
        BY <2>1, <2>2, <2>4, <3>2 DEF ExchangeInMemory, LoginInv, TypeOK, Unused
      <3> QED
        BY <3>1, <3>2
    <2> QED
      BY <2>3, <2>4
  <1>4. ASSUME NEW c \in Codes, PollRefused(c) PROVE LoginInv'
    BY <1>4 DEF PollRefused, LoginInv, TypeOK, Unused
  <1>5. ASSUME NEW c \in Codes, CodeExpires(c) PROVE LoginInv'
    BY <1>5 DEF CodeExpires, LoginInv, TypeOK, Unused
  <1>6. ASSUME NEW t \in Tokens, NEW delivered \in BOOLEAN, Refresh(t, delivered) PROVE LoginInv'
    <2>1. PICK a \in Tokens, r \in Tokens :
            /\ IF useStore THEN Rotate(t, a, r) ELSE r = t /\ Renew(t, a)
            /\ held' = IF delivered THEN held \cup {a, r} ELSE held
      BY <1>6, Zenon DEF Refresh
    <2>2. /\ held' \in SUBSET Tokens
          /\ given' \in SUBSET Tokens
          /\ refreshes' \in 0..MaxRefreshes
          /\ UsableRefresh(t)
          /\ UNCHANGED <<login, code, codeOld, tokenOld, restarts>>
      BY <1>6, <2>1 DEF Refresh, LoginInv, TypeOK
    <2>3. CASE useStore
      <3>1. Draw(owner[t], a, r) /\ revoked' = revoked \cup {t} /\ UNCHANGED <<accessOf, refreshOf, dead>>
        BY <2>1, <2>3 DEF Rotate
      <3>2. Unused(t) /\ owner[t] \in Codes
        BY <2>2, <2>3, SMTT(60) DEF UsableRefresh, Unused, LoginInv
      <3>3. TypeOK'
        BY <2>2, <3>1, <3>2, DrawStep DEF LoginInv, TypeOK
      <3>4. \A d \in Codes : refreshOf'[d] \in Tokens =>
              type'[refreshOf'[d]] = "refresh" /\ owner'[refreshOf'[d]] = d
        BY <3>1, <3>2, DrawStep DEF LoginInv
      <3>5. \A u \in Tokens : Unused(u)' => u = r \/ (Unused(u) /\ owner'[u] = owner[u] /\ owner[u] # owner[t])
        BY <2>3, <3>1, <3>2, DrawStep DEF LoginInv, Unused
      <3>6. \A u \in Tokens : Unused(u)' => code'[owner'[u]] = "consumed"
        BY <2>2, <2>3, <3>1, <3>2, <3>5, DrawStep DEF LoginInv
      <3>7. \A u, v \in Tokens : Unused(u)' /\ Unused(v)' /\ owner'[u] = owner'[v] => u = v
        BY <2>3, <3>1, <3>2, <3>5, DrawStep, SMTT(60) DEF LoginInv
      <3> QED
        BY <2>2, <3>1, <3>2, <3>3, <3>4, <3>6, <3>7, DrawStep DEF LoginInv
    <2>4. CASE ~useStore
      <3>1. PICK d \in Codes : refreshOf[d] = t
        BY <2>2, <2>4 DEF UsableRefresh
      <3>2. owner[t] = d
        BY <3>1 DEF LoginInv
      <3>3. Renew(t, a)
        BY <2>1, <2>4
      <3> QED
        BY <2>2, <2>4, <3>2, <3>3, SMTT(60) DEF Renew, LoginInv, TypeOK, Tokens, Unused
    <2> QED
      BY <2>3, <2>4
  <1>7. ASSUME NEW t \in Tokens, Revoke(t) PROVE LoginInv'
    BY <1>7 DEF Revoke, RevokeRows, LoginInv, TypeOK, Unused
  <1>8. ASSUME NEW t \in Tokens, TokenExpires(t) PROVE LoginInv'
    BY <1>8 DEF TokenExpires, LoginInv, TypeOK, Unused
  <1>9. ASSUME Restart PROVE LoginInv'
    BY <1>9 DEF Restart, LoginInv, TypeOK, Unused, Tokens
  <1>10. ASSUME UNCHANGED vars PROVE LoginInv'
    BY <1>10 DEF vars, LoginInv, TypeOK, Unused
  <1> HIDE DEF LoginInv
  <1> QED
    BY <1>1, <1>2, <1>3, <1>4, <1>5, <1>6, <1>7, <1>8, <1>9, <1>10 DEF Next

\* Type correctness of the device login.
THEOREM TypeCorrect == Spec => []TypeOK
  <1>1. LoginInv => TypeOK
    BY DEF LoginInv
  <1> QED
    BY <1>1, LoginInit, LoginStep, PTL DEF Spec

\* A login never has two usable refresh tokens, in memory or in PostgreSQL,
\* whatever answers are lost.
THEOREM RefreshTokensUnique == Spec => []OneRefreshToken
  <1>1. LoginInv => OneRefreshToken
    BY LoginAssumption, SMTT(60) DEF LoginInv, OneRefreshToken, UsableRefresh, Unused
  <1> QED
    BY <1>1, LoginInit, LoginStep, PTL DEF Spec

\* With PostgreSQL a step of the system makes an access token invalid only by
\* its expiry or by a request about that token.
LEMMA ValidStep ==
  ASSUME useStore, LoginInv, [Next]_vars
  PROVE  \A t \in Tokens : Validates(t) /\ ~Validates(t)' => t \in tokenOld' \cup given'
  <1> SUFFICES ASSUME NEW t \in Tokens, Validates(t), t \notin tokenOld' \cup given'
               PROVE  Validates(t)'
    OBVIOUS
  <1> USE LoginAssumption DEF memoryVars, tokenVars, counters
  <1>0. type[t] = "access" /\ t \notin revoked /\ t \notin tokenOld
    BY DEF Validates
  <1> SUFFICES type'[t] = "access" /\ t \notin revoked'
    BY useStore' = useStore DEF Validates, Next, vars
  <1>1. ASSUME NEW c \in Codes, NEW delivered \in BOOLEAN, PollGranted(c, delivered)
        PROVE  type'[t] = "access" /\ t \notin revoked'
    <2>1. PICK a \in Tokens, r \in Tokens : ExchangeDeviceCode(c, a, r)
      BY <1>1 DEF PollGranted
    <2>2. Draw(c, a, r)
      BY <2>1 DEF ExchangeDeviceCode
    <2>3. UNCHANGED revoked
      BY <1>1 DEF PollGranted
    <2> QED
      BY <1>0, <2>2, <2>3, DrawStep
  <1>2. ASSUME NEW u \in Tokens, NEW delivered \in BOOLEAN, Refresh(u, delivered)
        PROVE  type'[t] = "access" /\ t \notin revoked'
    <2>1. PICK a \in Tokens, r \in Tokens : Rotate(u, a, r)
      BY <1>2 DEF Refresh
    <2>2. type[u] = "refresh" /\ owner[u] \in Codes
      BY <1>2 DEF Refresh, UsableRefresh, LoginInv
    <2>3. Draw(owner[u], a, r) /\ revoked' = revoked \cup {u}
      BY <2>1 DEF Rotate
    <2> QED
      BY <1>0, <2>2, <2>3, DrawStep
  <1>3. ASSUME NEW u \in Tokens, Revoke(u) PROVE type'[t] = "access" /\ t \notin revoked'
    BY <1>0, <1>3 DEF Revoke, RevokeRows
  <1> QED
    BY <1>0, <1>1, <1>2, <1>3
    DEF Next, CreateCode, Approve, PollRefused, CodeExpires, TokenExpires, Restart, vars

\* Tokens in PostgreSQL stay valid until they expire or are revoked.
THEOREM TokensStayValid == Spec => StaysValid
  <1>1. LoginInv /\ [Next]_vars
          => [useStore => \A t \in Tokens :
                Validates(t) /\ ~Validates(t)' => t \in tokenOld' \cup given']_vars
    BY ValidStep
  <1> QED
    BY <1>1, LoginInit, LoginStep, PTL DEF Spec, StaysValid
-----------------------------------------------------------------------------
(***************************************************************************)
(* Polling in memory.  A poll of a code that has not expired is refused    *)
(* only if the entry is gone or revoked.  Entries go with a restart only,  *)
(* and to revoke one takes one of its tokens, which a client holds only    *)
(* once the login is done: the tokens of an answer that was lost are not   *)
(* held by anybody.                                                        *)
(***************************************************************************)
PollInv ==
  /\ \A c \in Codes : accessOf[c] \in Tokens =>
       type[accessOf[c]] # "none" /\ owner[accessOf[c]] = c
  /\ \A t \in held : type[t] # "none" /\ login[owner[t]] = "done"
  /\ \A c \in dead : login[c] = "done"
  /\ \A c \in Codes : login[c] = "polling" => code[c] \in {"pending", "approved"}
  /\ \A c \in Codes : login[c] = "failed" => c \in codeOld

\* A step of the system in memory keeps that, unless it is a restart.
LEMMA PollStep ==
  ASSUME LoginInv, PollInv, ~useStore, [Next]_vars, restarts' = restarts
  PROVE  PollInv'
  <1> USE LoginAssumption DEF memoryVars, tokenVars, counters
  <1>0. \A t \in held : t \in Tokens /\ owner[t] \in Codes
    BY DEF LoginInv, PollInv, TypeOK
  <1>1. ASSUME NEW c \in Codes, CreateCode(c) PROVE PollInv'
    BY <1>0, <1>1 DEF CreateCode, LoginInv, PollInv, TypeOK
  <1>2. ASSUME NEW c \in Codes, Approve(c) PROVE PollInv'
    BY <1>2 DEF Approve, LoginInv, PollInv, TypeOK
  <1>3. ASSUME NEW c \in Codes, NEW delivered \in BOOLEAN, PollGranted(c, delivered) PROVE PollInv'
    <2>1. PICK a \in Tokens, r \in Tokens :
            /\ ExchangeInMemory(c, a, r)
            /\ held' = IF delivered THEN held \cup {a, r} ELSE held
      BY <1>3, Zenon DEF PollGranted
    <2>2. /\ login[c] = "polling"
          /\ login' = [login EXCEPT ![c] = IF delivered THEN "done" ELSE @]
          /\ UNCHANGED <<code, dead, codeOld>>
      BY <1>3, <2>1, Zenon DEF PollGranted, ExchangeInMemory
    <2>3. /\ \A d \in Codes \ {c} : login'[d] = login[d]
          /\ login'[c] \in {"polling", "done"} /\ (delivered => login'[c] = "done")
      BY <2>2 DEF LoginInv, TypeOK
    <2>4. CASE accessOf[c] = None
      <3>1. /\ Draw(c, a, r) /\ accessOf' = [accessOf EXCEPT ![c] = a]
        BY <2>1, <2>4, Zenon DEF ExchangeInMemory
      <3>2. /\ type[a] = "none" /\ type[r] = "none" /\ type'[a] = "access" /\ type'[r] = "refresh"
            /\ owner'[a] = c /\ owner'[r] = c
            /\ \A t \in Tokens \ {a, r} : type'[t] = type[t] /\ owner'[t] = owner[t]
        BY <3>1, DrawStep
      <3>3. \A d \in Codes : accessOf'[d] \in Tokens =>
              type'[accessOf'[d]] # "none" /\ owner'[accessOf'[d]] = d
        BY <3>1, <3>2 DEF LoginInv, TypeOK, PollInv
      <3>4. \A t \in held' : type'[t] # "none" /\ login'[owner'[t]] = "done"
        BY <1>0, <2>1, <2>2, <2>3, <3>2 DEF PollInv
      <3> QED
        BY <2>2, <2>3, <3>3, <3>4 DEF PollInv
    <2>5. CASE accessOf[c] # None
      <3>1. a = accessOf[c] /\ r = refreshOf[c] /\ UNCHANGED <<accessOf, type, owner>>
        BY <2>1, <2>5, Zenon DEF ExchangeInMemory
      <3>2. type[a] # "none" /\ type[r] # "none" /\ owner[a] = c /\ owner[r] = c
        BY <3>1 DEF LoginInv, PollInv
      <3> QED
        BY <1>0, <2>1, <2>2, <2>3, <3>1, <3>2 DEF PollInv
    <2> QED
      BY <2>4, <2>5
  <1>4. ASSUME NEW c \in Codes, PollRefused(c) PROVE PollInv'
    <2>1. c \in codeOld
      BY <1>4 DEF PollRefused, Granted, PollPending, PollInv
    <2>2. login[c] = "polling" /\ login' = [login EXCEPT ![c] = "failed"]
          /\ UNCHANGED <<code, codeOld, accessOf, dead, type, owner, held>>
      BY <1>4 DEF PollRefused
    <2> QED
      BY <1>0, <2>1, <2>2 DEF LoginInv, TypeOK, PollInv
  <1>5. ASSUME NEW c \in Codes, CodeExpires(c) PROVE PollInv'
    BY <1>5 DEF CodeExpires, PollInv
  <1>6. ASSUME NEW t \in Tokens, NEW delivered \in BOOLEAN, Refresh(t, delivered) PROVE PollInv'
    <2>1. PICK a \in Tokens : Renew(t, a) /\ held' \subseteq held \cup {a, t}
      BY <1>6 DEF Refresh
    <2>2. t \in held /\ UNCHANGED <<login, code, codeOld, dead>>
      BY <1>6, <2>1 DEF Refresh, Renew
    <2>3. owner[t] \in Codes /\ login[owner[t]] = "done" /\ type[t] # "none"
      BY <1>0, <2>2 DEF PollInv
    <2>4. /\ a > drawn
          /\ type' = [type EXCEPT ![a] = "access"] /\ owner' = [owner EXCEPT ![a] = owner[t]]
          /\ accessOf' = [accessOf EXCEPT ![owner[t]] = a]
      BY <2>1 DEF Renew, LoginInv, TypeOK
    <2>5. type[a] = "none"
      BY <2>4 DEF LoginInv
    <2>6. \A d \in Codes : accessOf'[d] \in Tokens =>
            type'[accessOf'[d]] # "none" /\ owner'[accessOf'[d]] = d
      BY <2>3, <2>4, <2>5 DEF LoginInv, TypeOK, PollInv
    <2>7. \A u \in held' : type'[u] # "none" /\ login'[owner'[u]] = "done"
      BY <1>0, <2>1, <2>2, <2>3, <2>4, <2>5 DEF LoginInv, TypeOK, PollInv
    <2> QED
      BY <2>2, <2>6, <2>7 DEF PollInv
  <1>7. ASSUME NEW t \in Tokens, Revoke(t) PROVE PollInv'
    <2>1. t \in held /\ dead' = dead \cup {c \in Codes : accessOf[c] = t \/ refreshOf[c] = t}
          /\ UNCHANGED <<login, code, codeOld, accessOf, type, owner, held>>
      BY <1>7 DEF Revoke
    <2>2. \A c \in Codes : accessOf[c] = t \/ refreshOf[c] = t => owner[t] = c
      BY DEF LoginInv, PollInv
    <2> QED
      BY <2>1, <2>2 DEF PollInv
  <1>8. ASSUME NEW t \in Tokens, TokenExpires(t) PROVE PollInv'
    BY <1>8 DEF TokenExpires, PollInv
  <1>9. ~Restart
    BY DEF Restart, LoginInv, TypeOK
  <1>10. ASSUME UNCHANGED vars PROVE PollInv'
    BY <1>10 DEF vars, PollInv
  <1> HIDE DEF PollInv
  <1> QED
    BY <1>1, <1>2, <1>3, <1>4, <1>5, <1>6, <1>7, <1>8, <1>9, <1>10 DEF Next

\* The number of restarts only grows, and the choice of the store is kept.
LEMMA RestartsGrow ==
  ASSUME LoginInv, [Next]_vars
  PROVE  useStore' = useStore /\ (restarts' = restarts \/ restarts' # 0)
  <1>1. useStore' = useStore
    BY DEF Next, vars
  <1>2. ASSUME Restart PROVE restarts' # 0
    BY <1>2, LoginAssumption DEF Restart, LoginInv, TypeOK
  <1>3. Restart \/ restarts' = restarts
    BY DEF Next, CreateCode, Approve, PollGranted, PollRefused, CodeExpires, Refresh, Revoke,
           TokenExpires, vars, counters
  <1> QED
    BY <1>1, <1>2, <1>3

\* With the entries in memory, and as long as the gateway runs, a login that is
\* still polling is turned away only because its code has expired: no lost
\* answer, no refresh and no revocation of another login's tokens ends it.
THEOREM PollsConfirmed == Spec => []PollsUntilConfirmed
  <1> DEFINE Inv == LoginInv /\ (~useStore /\ restarts = 0 => PollInv)
  <1>1. Init => Inv
    BY LoginInit, LoginAssumption DEF Init, PollInv, Tokens
  <1>2. Inv /\ [Next]_vars => Inv'
    BY LoginStep, PollStep, RestartsGrow
  <1>3. Inv => PollsUntilConfirmed
    BY DEF PollInv, PollsUntilConfirmed
  <1> HIDE DEF Inv
  <1> QED
    BY <1>1, <1>2, <1>3, PTL DEF Spec
=============================================================================
