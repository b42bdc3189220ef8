--------------------------------- MODULE HubProofs ---------------------------------
(***************************************************************************)
(* Proofs about Discovery and Hub, for any groups, names, tools, requests, *)
(* calls and bounds.                                                       *)
(***************************************************************************)
EXTENDS Hub, TLAPS

\* What request r has left in the tables, as long as no other request comes.
OnTables(r) ==
  /\ r.op = "create" => dbGroups[r.g] = r.x
  /\ r.op = "update" /\ dbGroups[r.g] # None => dbGroups[r.g] = r.x
  /\ r.op = "delete" => dbGroups[r.g] = None /\ dbMembers[r.g] = {}
  /\ r.op = "attach" => r.x \in dbMembers[r.g]
  /\ r.op = "detach" => r.x \notin dbMembers[r.g]
  /\ r.op = "tools" => \A t \in Tools : r.rows[t] # "absent" => t \in dbMembers[r.g]
  /\ r.op = "list" => r.rows = dbGroups

(***************************************************************************)
(* The inductive invariant behind AcknowledgedInBoth: while requests come  *)
(* one at a time, the tables still are as the request in flight has left   *)
(* them, and every group in memory has a row, unless it is being deleted.  *)
(***************************************************************************)
InStep ==
  UseStore /\ ~overlapped =>
    /\ \A p, q \in Requests : InFlight(p) /\ InFlight(q) => p = q
    /\ \A q \in Requests : OnTables(request[q])
    /\ \A g \in Groups \ {Default} : groups[g] # None =>
         dbGroups[g] # None \/ \E q \in Requests : request[q].op = "delete" /\ request[q].g = g
    /\ \A g \in Groups \ {Default} :
         /\ <<g, None>> \in acked => groups[g] = dbGroups[g]
         /\ \A t \in Tools : <<g, t>> \in acked => (t \in members[g] <=> t \in dbMembers[g])

DiscoveryInv == TypeOK /\ InStep

\* The invariant holds initially.
LEMMA DiscoveryInit == Init => DiscoveryInv
  <1> SUFFICES ASSUME Init PROVE DiscoveryInv
    OBVIOUS
  <1>1. \A q \in Requests : request[q] = Idle
    BY DEF Init
  <1>2. RequestOK(Idle) /\ OnTables(Idle) /\ Idle.op = "idle"
    BY DEF RequestOK, OnTables, Idle
  <1>3. TypeOK
    <2>1. 0 \in 0..MaxRequests
      BY DiscoveryAssumption
    <2>2. /\ groups \in [Groups -> Names \cup {None}] /\ tools \in [Tools -> Availability]
          /\ members \in [Groups -> SUBSET Tools]
      BY DEF Init, Availability
    <2>3. request = [q \in Requests |-> request[q]]
      BY DEF Init
    <2> QED
      BY <1>1, <1>2, <2>1, <2>2, <2>3, Zenon DEF Init, TypeOK
  <1>4. InStep
    BY <1>1, <1>2 DEF Init, InStep, InFlight
  <1> QED
    BY <1>3, <1>4 DEF DiscoveryInv

\* What a request that is sent does apart from its statement.
LEMMA SentFacts ==
  ASSUME TypeOK, NEW q \in Requests, NEW op, NEW g, NEW x, NEW rows, NEW subjects,
         Sent(q, op, g, x, rows, subjects),
         RequestOK([op |-> op, g |-> g, x |-> x, rows |-> rows])
  PROVE  /\ request' = [request EXCEPT ![q] = [op |-> op, g |-> g, x |-> x, rows |-> rows]]
         /\ request' = [p \in Requests |-> request'[p]]
         /\ request'[q] = [op |-> op, g |-> g, x |-> x, rows |-> rows]
         /\ \A p \in Requests \ {q} : request'[p] = request[p]
         /\ \A p \in Requests : RequestOK(request'[p])
         /\ overlapped' \in BOOLEAN /\ requests' \in 0..MaxRequests
         /\ acked' \in SUBSET Subjects
         /\ ~overlapped' => ~overlapped /\ acked' = acked \ subjects /\ \A p \in Requests : ~InFlight(p)
         /\ UNCHANGED <<groups, tools, members, replacing>>
  <1>1. /\ request' = [request EXCEPT ![q] = [op |-> op, g |-> g, x |-> x, rows |-> rows]]
        /\ UNCHANGED <<groups, tools, members, replacing>>
        /\ acked' = IF overlapped' THEN {} ELSE acked \ subjects
        /\ overlapped' = (overlapped \/ \E p \in Requests : InFlight(p))
        /\ requests < MaxRequests /\ requests' = requests + 1
    BY DEF Sent, memory
  <1>2. /\ request = [p \in Requests |-> request[p]] /\ \A p \in Requests : RequestOK(request[p])
        /\ acked \in SUBSET Subjects /\ overlapped \in BOOLEAN /\ requests \in 0..MaxRequests
    BY DEF TypeOK
  <1>3. /\ request' = [p \in Requests |-> request'[p]]
        /\ request'[q] = [op |-> op, g |-> g, x |-> x, rows |-> rows]
        /\ \A p \in Requests \ {q} : request'[p] = request[p]
    BY <1>1, <1>2
  <1>4. \A p \in Requests : RequestOK(request'[p])
    BY <1>2, <1>3
  <1>5. requests' \in 0..MaxRequests
    BY <1>1, <1>2, DiscoveryAssumption
  <1>6. /\ overlapped' \in BOOLEAN
        /\ acked' \in SUBSET Subjects
        /\ ~overlapped' => ~overlapped /\ acked' = acked \ subjects /\ \A p \in Requests : ~InFlight(p)
    BY <1>1, <1>2, Zenon
  <1> QED
    BY <1>1, <1>3, <1>4, <1>5, <1>6

\* The statement of a request keeps the types.
LEMMA TableTypes ==
  ASSUME TypeOK, NEW q \in Requests, NEW op, NEW g, NEW x, NEW rows, NEW subjects,
         Sent(q, op, g, x, rows, subjects),
         RequestOK([op |-> op, g |-> g, x |-> x, rows |-> rows]),
         dbGroups' \in [Groups -> Names \cup {None}], dbMembers' \in [Groups -> SUBSET Tools],
         UNCHANGED dbTools
  PROVE  TypeOK'
  <1>1. /\ request' = [p \in Requests |-> request'[p]]
        /\ \A p \in Requests : RequestOK(request'[p])
        /\ overlapped' \in BOOLEAN /\ requests' \in 0..MaxRequests
        /\ acked' \in SUBSET Subjects
        /\ UNCHANGED <<groups, tools, members, replacing>>
    BY SentFacts
  <1> QED
    BY <1>1 DEF TypeOK

\* The statement of a request keeps memory and tables in step, if it leaves the
\* tables as the request says and changes them only where the request is about.
LEMMA TableInStep ==
  ASSUME TypeOK, InStep, NEW q \in Requests, NEW op, NEW g, NEW x, NEW rows, NEW subjects,
         Sent(q, op, g, x, rows, subjects),
         RequestOK([op |-> op, g |-> g, x |-> x, rows |-> rows]),
         OnTables([op |-> op, g |-> g, x |-> x, rows |-> rows])',
         \A h \in Groups : dbGroups[h] # None => dbGroups'[h] # None \/ (op = "delete" /\ g = h),
         \A h \in Groups : dbGroups'[h] = dbGroups[h] \/ <<h, None>> \in subjects,
         \A h \in Groups, t \in Tools :
           (t \in dbMembers'[h] <=> t \in dbMembers[h]) \/ <<h, t>> \in subjects
  PROVE  InStep'
  <1> SUFFICES ASSUME UseStore, ~overlapped'
               PROVE  /\ \A p, r \in Requests : InFlight(p)' /\ InFlight(r)' => p = r
                      /\ \A p \in Requests : OnTables(request[p])'
                      /\ \A h \in Groups \ {Default} : groups'[h] # None =>
                           \/ dbGroups'[h] # None
                           \/ \E p \in Requests : request'[p].op = "delete" /\ request'[p].g = h
                      /\ \A h \in Groups \ {Default} :
                           /\ <<h, None>> \in acked' => groups'[h] = dbGroups'[h]
                           /\ \A t \in Tools : <<h, t>> \in acked' =>
                                (t \in members'[h] <=> t \in dbMembers'[h])
    BY DEF InStep
  <1>1. /\ request'[q] = [op |-> op, g |-> g, x |-> x, rows |-> rows]
        /\ \A p \in Requests \ {q} : request'[p] = request[p]
        /\ ~overlapped /\ acked' = acked \ subjects /\ \A p \in Requests : ~InFlight(p)
        /\ UNCHANGED <<groups, members>>
    BY SentFacts
  <1>2. \A p \in Requests : p = q \/ request'[p].op = "idle"
    BY <1>1 DEF InFlight
  <1>3. \A p, r \in Requests : InFlight(p)' /\ InFlight(r)' => p = r
    BY <1>2 DEF InFlight
  <1>4. \A p \in Requests : OnTables(request[p])'
    BY <1>1, <1>2 DEF OnTables
  <1>5. /\ \A h \in Groups \ {Default} : groups[h] # None => dbGroups[h] # None
        /\ \A h \in Groups \ {Default} :
             /\ <<h, None>> \in acked => groups[h] = dbGroups[h]
             /\ \A t \in Tools : <<h, t>> \in acked => (t \in members[h] <=> t \in dbMembers[h])
    BY <1>1 DEF InStep, InFlight
  <1>6. \A h \in Groups \ {Default} : groups'[h] # None =>
          \/ dbGroups'[h] # None
          \/ \E p \in Requests : request'[p].op = "delete" /\ request'[p].g = h
    BY <1>1, <1>5
  <1>7. \A h \in Groups \ {Default} :
          /\ <<h, None>> \in acked' => groups'[h] = dbGroups'[h]
          /\ \A t \in Tools : <<h, t>> \in acked' => (t \in members'[h] <=> t \in dbMembers'[h])
    BY <1>1, <1>5
  <1> QED
    BY <1>3, <1>4, <1>6, <1>7

\* Both together.
LEMMA TableInv ==
  ASSUME DiscoveryInv, NEW q \in Requests, NEW op, NEW g, NEW x, NEW rows, NEW subjects,
         Sent(q, op, g, x, rows, subjects),
         RequestOK([op |-> op, g |-> g, x |-> x, rows |-> rows]),
         dbGroups' \in [Groups -> Names \cup {None}], dbMembers' \in [Groups -> SUBSET Tools],
         UNCHANGED dbTools,
         UseStore => /\ OnTables([op |-> op, g |-> g, x |-> x, rows |-> rows])'
                     /\ \A h \in Groups : dbGroups[h] # None =>
                          dbGroups'[h] # None \/ (op = "delete" /\ g = h)
                     /\ \A h \in Groups : dbGroups'[h] = dbGroups[h] \/ <<h, None>> \in subjects
                     /\ \A h \in Groups, t \in Tools :
                          (t \in dbMembers'[h] <=> t \in dbMembers[h]) \/ <<h, t>> \in subjects
  PROVE  DiscoveryInv'
  <1>1. TypeOK /\ InStep
    BY DEF DiscoveryInv
  <1>2. TypeOK'
    BY <1>1, TableTypes
  <1>3. CASE UseStore
    BY <1>1, <1>2, <1>3, TableInStep DEF DiscoveryInv
  <1>4. CASE ~UseStore
    BY <1>2, <1>4 DEF DiscoveryInv, InStep
  <1> QED
    BY <1>3, <1>4

\* Every statement of a request keeps the invariant.
LEMMA TableStepInv ==
  ASSUME DiscoveryInv, NEW q \in Requests, TableStep(q)
  PROVE  DiscoveryInv'
  <1>1. TypeOK /\ dbGroups \in [Groups -> Names \cup {None}] /\ dbMembers \in [Groups -> SUBSET Tools]
        /\ dbTools \in [Tools -> Availability]
    BY DEF DiscoveryInv, TypeOK
  <1>2. ASSUME NEW g \in Groups, NEW n \in Names, CreateGroup(q, g, n) PROVE DiscoveryInv'
    <2>1. Sent(q, "create", g, n, None, {<<g, None>>})
      BY <1>2, Zenon DEF CreateGroup
    <2>2. RequestOK([op |-> "create", g |-> g, x |-> n, rows |-> None])
      BY <1>1, <1>2 DEF RequestOK, Operations
    <2>3. /\ UNCHANGED dbTools
          /\ UseStore => dbGroups' = [dbGroups EXCEPT ![g] = n] /\ UNCHANGED dbMembers
          /\ ~UseStore => UNCHANGED <<dbGroups, dbMembers>>
      BY <1>2 DEF CreateGroup
    <2>4. dbGroups' \in [Groups -> Names \cup {None}] /\ dbMembers' \in [Groups -> SUBSET Tools]
      BY <1>1, <2>3, DiscoveryAssumption
    <2>5. ASSUME UseStore
          PROVE  /\ OnTables([op |-> "create", g |-> g, x |-> n, rows |-> None])'
                 /\ \A h \in Groups : dbGroups[h] # None =>
                      dbGroups'[h] # None \/ ("create" = "delete" /\ g = h)
                 /\ \A h \in Groups : dbGroups'[h] = dbGroups[h] \/ <<h, None>> \in {<<g, None>>}
                 /\ \A h \in Groups, u \in Tools :
                      (u \in dbMembers'[h] <=> u \in dbMembers[h]) \/ <<h, u>> \in {<<g, None>>}
      BY <1>1, <2>3, <2>5, DiscoveryAssumption DEF OnTables
    <2> QED
      BY <2>1, <2>2, <2>3, <2>4, <2>5, TableInv
  <1>3. ASSUME NEW g \in Groups, NEW n \in Names, UpdateGroup(q, g, n) PROVE DiscoveryInv'
    <2>1. Sent(q, "update", g, n, None, {<<g, None>>})
      BY <1>3, Zenon DEF UpdateGroup
    <2>2. RequestOK([op |-> "update", g |-> g, x |-> n, rows |-> None])
      BY <1>1, <1>3 DEF RequestOK, Operations
    <2>3. /\ UNCHANGED dbTools
          /\ UseStore => /\ dbGroups' = IF dbGroups[g] # None THEN [dbGroups EXCEPT ![g] = n] ELSE dbGroups
                       /\ UNCHANGED dbMembers
          /\ ~UseStore => UNCHANGED <<dbGroups, dbMembers>>
      BY <1>3 DEF UpdateGroup
    <2>4. dbGroups' \in [Groups -> Names \cup {None}] /\ dbMembers' \in [Groups -> SUBSET Tools]
      BY <1>1, <2>3, DiscoveryAssumption
    <2>5. ASSUME UseStore
          PROVE  /\ OnTables([op |-> "update", g |-> g, x |-> n, rows |-> None])'
                 /\ \A h \in Groups : dbGroups[h] # None =>
                      dbGroups'[h] # None \/ ("update" = "delete" /\ g = h)
                 /\ \A h \in Groups : dbGroups'[h] = dbGroups[h] \/ <<h, None>> \in {<<g, None>>}
                 /\ \A h \in Groups, u \in Tools :
                      (u \in dbMembers'[h] <=> u \in dbMembers[h]) \/ <<h, u>> \in {<<g, None>>}
      BY <1>1, <2>3, <2>5, DiscoveryAssumption DEF OnTables
    <2> QED
      BY <2>1, <2>2, <2>3, <2>4, <2>5, TableInv
  <1>4. ASSUME NEW g \in Groups, DeleteGroup(q, g) PROVE DiscoveryInv'
    <2>1. Sent(q, "delete", g, None, None, {g} \X (Tools \cup {None}))
      BY <1>4, Zenon DEF DeleteGroup
    <2>2. RequestOK([op |-> "delete", g |-> g, x |-> None, rows |-> None])
      BY <1>1, <1>4 DEF RequestOK, Operations
    <2>3. /\ UNCHANGED dbTools
          /\ UseStore => /\ dbGroups' = [dbGroups EXCEPT ![g] = None]
                       /\ dbMembers' = [dbMembers EXCEPT ![g] = {}]
          /\ ~UseStore => UNCHANGED <<dbGroups, dbMembers>>
      BY <1>4 DEF DeleteGroup
    <2>4. dbGroups' \in [Groups -> Names \cup {None}] /\ dbMembers' \in [Groups -> SUBSET Tools]
      BY <1>1, <2>3, DiscoveryAssumption
    <2>5. ASSUME UseStore
          PROVE  /\ OnTables([op |-> "delete", g |-> g, x |-> None, rows |-> None])'
                 /\ \A h \in Groups : dbGroups[h] # None =>
                      dbGroups'[h] # None \/ ("delete" = "delete" /\ g = h)
                 /\ \A h \in Groups : dbGroups'[h] = dbGroups[h] \/ <<h, None>> \in {g} \X (Tools \cup {None})
                 /\ \A h \in Groups, u \in Tools :
                      (u \in dbMembers'[h] <=> u \in dbMembers[h]) \/ <<h, u>> \in {g} \X (Tools \cup {None})
      BY <1>1, <2>3, <2>5, DiscoveryAssumption DEF OnTables
    <2> QED
      BY <2>1, <2>2, <2>3, <2>4, <2>5, TableInv
  <1>5. ASSUME NEW g \in Groups, GroupTools(q, g) PROVE DiscoveryInv'
    <2> DEFINE rows == [t \in Tools |-> IF t \in dbMembers[g] THEN dbTools[t] ELSE "absent"]
    <2>1. Sent(q, "tools", g, None, rows, {})
      BY <1>5, Zenon DEF GroupTools
    <2>2. RequestOK([op |-> "tools", g |-> g, x |-> None, rows |-> rows])
      BY <1>1, <1>5 DEF RequestOK, Operations, Availability
    <2>3. UNCHANGED <<dbGroups, dbMembers, dbTools>>
      BY <1>5, Zenon DEF GroupTools, tables
    <2>4. dbGroups' \in [Groups -> Names \cup {None}] /\ dbMembers' \in [Groups -> SUBSET Tools]
      BY <1>1, <2>3, DiscoveryAssumption
    <2>5. ASSUME UseStore
          PROVE  /\ OnTables([op |-> "tools", g |-> g, x |-> None, rows |-> rows])'
                 /\ \A h \in Groups : dbGroups[h] # None =>
                      dbGroups'[h] # None \/ ("tools" = "delete" /\ g = h)
                 /\ \A h \in Groups : dbGroups'[h] = dbGroups[h] \/ <<h, None>> \in {}
                 /\ \A h \in Groups, u \in Tools :
                      (u \in dbMembers'[h] <=> u \in dbMembers[h]) \/ <<h, u>> \in {}
      BY <1>1, <2>3, <2>5, DiscoveryAssumption DEF OnTables
    <2> QED
      BY <2>1, <2>2, <2>3, <2>4, <2>5, TableInv
  <1>6. ASSUME NEW g \in Groups, NEW t \in Tools, AttachTool(q, g, t) PROVE DiscoveryInv'
    <2>1. Sent(q, "attach", g, t, None, {<<g, t>>})
      BY <1>6, Zenon DEF AttachTool
    <2>2. RequestOK([op |-> "attach", g |-> g, x |-> t, rows |-> None])
      BY <1>1, <1>6 DEF RequestOK, Operations
    <2>3. /\ UNCHANGED dbTools
          /\ UseStore => dbMembers' = [dbMembers EXCEPT ![g] = @ \cup {t}] /\ UNCHANGED dbGroups
          /\ ~UseStore => UNCHANGED <<dbGroups, dbMembers>>
      BY <1>6 DEF AttachTool
    <2>4. dbGroups' \in [Groups -> Names \cup {None}] /\ dbMembers' \in [Groups -> SUBSET Tools]
      BY <1>1, <2>3, DiscoveryAssumption
    <2>5. ASSUME UseStore
          PROVE  /\ OnTables([op |-> "attach", g |-> g, x |-> t, rows |-> None])'
                 /\ \A h \in Groups : dbGroups[h] # None =>
                      dbGroups'[h] # None \/ ("attach" = "delete" /\ g = h)
                 /\ \A h \in Groups : dbGroups'[h] = dbGroups[h] \/ <<h, None>> \in {<<g, t>>}
                 /\ \A h \in Groups, u \in Tools :
                      (u \in dbMembers'[h] <=> u \in dbMembers[h]) \/ <<h, u>> \in {<<g, t>>}
      BY <1>1, <2>3, <2>5, DiscoveryAssumption DEF OnTables
    <2> QED
      BY <2>1, <2>2, <2>3, <2>4, <2>5, TableInv
  <1>7. ASSUME NEW g \in Groups, NEW t \in Tools, DetachTool(q, g, t) PROVE DiscoveryInv'
    <2>1. Sent(q, "detach", g, t, None, {<<g, t>>})
      BY <1>7, Zenon DEF DetachTool
    <2>2. RequestOK([op |-> "detach", g |-> g, x |-> t, rows |-> None])
      BY <1>1, <1>7 DEF RequestOK, Operations
    <2>3. /\ UNCHANGED dbTools
          /\ UseStore => dbMembers' = [dbMembers EXCEPT ![g] = @ \ {t}] /\ UNCHANGED dbGroups
          /\ ~UseStore => UNCHANGED <<dbGroups, dbMembers>>
      BY <1>7 DEF DetachTool
    <2>4. dbGroups' \in [Groups -> Names \cup {None}] /\ dbMembers' \in [Groups -> SUBSET Tools]
      BY <1>1, <2>3, DiscoveryAssumption
    <2>5. ASSUME UseStore
          PROVE  /\ OnTables([op |-> "detach", g |-> g, x |-> t, rows |-> None])'
                 /\ \A h \in Groups : dbGroups[h] # None =>
                      dbGroups'[h] # None \/ ("detach" = "delete" /\ g = h)
                 /\ \A h \in Groups : dbGroups'[h] = dbGroups[h] \/ <<h, None>> \in {<<g, t>>}
                 /\ \A h \in Groups, u \in Tools :
                      (u \in dbMembers'[h] <=> u \in dbMembers[h]) \/ <<h, u>> \in {<<g, t>>}
      BY <1>1, <2>3, <2>5, DiscoveryAssumption DEF OnTables
    <2> QED
      BY <2>1, <2>2, <2>3, <2>4, <2>5, TableInv
  <1>8. ASSUME ListGroups(q) PROVE DiscoveryInv'
    <2>1. Sent(q, "list", None, None, dbGroups, {})
      BY <1>8, Zenon DEF ListGroups
    <2>2. RequestOK([op |-> "list", g |-> None, x |-> None, rows |-> dbGroups])
      BY <1>1 DEF RequestOK, Operations, Availability
    <2>3. UNCHANGED <<dbGroups, dbMembers, dbTools>>
      BY <1>8, Zenon DEF ListGroups, tables
    <2>4. dbGroups' \in [Groups -> Names \cup {None}] /\ dbMembers' \in [Groups -> SUBSET Tools]
      BY <1>1, <2>3, DiscoveryAssumption
    <2>5. ASSUME UseStore
          PROVE  /\ OnTables([op |-> "list", g |-> None, x |-> None, rows |-> dbGroups])'
                 /\ \A h \in Groups : dbGroups[h] # None =>
                      dbGroups'[h] # None \/ ("list" = "delete" /\ None = h)
                 /\ \A h \in Groups : dbGroups'[h] = dbGroups[h] \/ <<h, None>> \in {}
                 /\ \A h \in Groups, u \in Tools :
                      (u \in dbMembers'[h] <=> u \in dbMembers[h]) \/ <<h, u>> \in {}
      BY <1>1, <2>3, <2>5, DiscoveryAssumption DEF OnTables
    <2> QED
      BY <2>1, <2>2, <2>3, <2>4, <2>5, TableInv
  <1> QED
    BY <1>2, <1>3, <1>4, <1>5, <1>6, <1>7, <1>8 DEF TableStep

\* What an accepted request sets, by operation.
LEMMA ApplyFacts ==
  ASSUME TypeOK, NEW q \in Requests, InFlight(q), Apply(request[q])
  PROVE  LET r == request[q] IN
         /\ groups' \in [Groups -> Names \cup {None}] /\ tools' \in [Tools -> Availability]
         /\ members' \in [Groups -> SUBSET Tools]
         /\ r.op \in {"create", "update"} => groups' = [groups EXCEPT ![r.g] = r.x]
         /\ r.op = "delete" => groups' = [groups EXCEPT ![r.g] = None] /\ members' = [members EXCEPT ![r.g] = {}]
         /\ r.op = "list" => \A g \in Groups : groups'[g] = IF r.rows[g] = None THEN groups[g] ELSE r.rows[g]
         /\ r.op = "attach" => members' = [members EXCEPT ![r.g] = @ \cup {r.x}]
         /\ r.op = "detach" => members' = [members EXCEPT ![r.g] = @ \ {r.x}]
         /\ r.op = "tools" => members' = [members EXCEPT ![r.g] = @ \cup {t \in Tools : r.rows[t] # "absent"}]
         /\ r.op \notin {"create", "update", "delete", "list"} => groups' = groups
         /\ r.op \notin {"delete", "attach", "detach", "tools"} => members' = members
  <1> DEFINE r == request[q]
  <1>1. /\ RequestOK(r)
        /\ r.op \in Operations
        /\ groups \in [Groups -> Names \cup {None}] /\ tools \in [Tools -> Availability]
        /\ members \in [Groups -> SUBSET Tools]
    BY DEF TypeOK, InFlight, RequestOK
  <1>2. Apply(r)
    BY SMTT(60)
  <1> HIDE DEF r
  <1>3. /\ r.op \in {"create", "update"} => groups' = [groups EXCEPT ![r.g] = r.x]
        /\ r.op = "delete" => groups' = [groups EXCEPT ![r.g] = None] /\ members' = [members EXCEPT ![r.g] = {}]
        /\ r.op = "list" => groups' = [g \in Groups |-> IF r.rows[g] = None THEN groups[g] ELSE r.rows[g]]
        /\ r.op = "attach" => members' = [members EXCEPT ![r.g] = @ \cup {r.x}]
        /\ r.op = "detach" => members' = [members EXCEPT ![r.g] = @ \ {r.x}]
        /\ r.op = "tools" => members' = [members EXCEPT ![r.g] = @ \cup {t \in Tools : r.rows[t] # "absent"}]
        /\ r.op \notin {"create", "update", "delete", "list"} => groups' = groups
        /\ r.op \notin {"delete", "attach", "detach", "tools"} => members' = members
    BY <1>1, <1>2, Zenon DEF Apply, Operations
  <1>4. tools' = IF r.op = "tools"
                 THEN [t \in Tools |-> IF r.rows[t] = "absent" THEN tools[t] ELSE r.rows[t]]
                 ELSE tools
    BY <1>2 DEF Apply
  <1>5. tools' \in [Tools -> Availability]
    BY <1>1, <1>4 DEF RequestOK
  <1>6. groups' \in [Groups -> Names \cup {None}]
    BY <1>1, <1>3 DEF RequestOK, Operations
  <1>7. members' \in [Groups -> SUBSET Tools]
    BY <1>1, <1>3 DEF RequestOK, Operations
  <1> QED
    BY <1>3, <1>5, <1>6, <1>7 DEF r

\* The second half of a request keeps the invariant.
LEMMA FinishInv ==
  ASSUME DiscoveryInv, NEW q \in Requests, Finish(q)
  PROVE  DiscoveryInv'
  <1> DEFINE r == request[q]
  <1>1. /\ TypeOK /\ InStep
        /\ request = [p \in Requests |-> request[p]] /\ \A p \in Requests : RequestOK(request[p])
        /\ r.op \in Operations
    BY DEF DiscoveryInv, TypeOK, Finish, InFlight, RequestOK
  <1>2. /\ InFlight(q)
        /\ request' = [request EXCEPT ![q] = Idle]
        /\ UNCHANGED <<dbGroups, dbTools, dbMembers, replacing, overlapped, requests>>
    BY Zenon DEF Finish, tables
  <1>3. \/ /\ Accepted(r) /\ Apply(r)
           /\ acked' = IF overlapped THEN {} ELSE acked \cup Confirmed(r)
        \/ ~Accepted(r) /\ UNCHANGED <<groups, tools, members, acked>>
    BY Zenon DEF Finish, memory
  <1>4. /\ request' = [p \in Requests |-> request'[p]]
        /\ request'[q] = Idle /\ \A p \in Requests \ {q} : request'[p] = request[p]
    BY <1>1, <1>2
  <1>5. RequestOK(Idle) /\ OnTables(Idle)' /\ Idle.op = "idle"
    BY DEF RequestOK, OnTables, Idle
  <1>6. TypeOK'
    <2>1. /\ groups' \in [Groups -> Names \cup {None}] /\ tools' \in [Tools -> Availability]
          /\ members' \in [Groups -> SUBSET Tools]
      BY <1>1, <1>2, <1>3, ApplyFacts DEF TypeOK
    <2>2. acked' \in SUBSET Subjects
      BY <1>1, <1>3 DEF TypeOK, Confirmed
    <2>3. \A p \in Requests : RequestOK(request'[p])
      BY <1>1, <1>4, <1>5
    <2> QED
      BY <1>1, <1>2, <1>4, <2>1, <2>2, <2>3 DEF TypeOK
  <1>7. ASSUME UseStore, ~overlapped
        PROVE  /\ \A p \in Requests : request'[p].op = "idle" /\ OnTables(request[p])'
               /\ \A g \in Groups \ {Default} : groups'[g] # None => dbGroups[g] # None
               /\ \A g \in Groups \ {Default} :
                    /\ <<g, None>> \in acked' => groups'[g] = dbGroups[g]
                    /\ \A t \in Tools : <<g, t>> \in acked' => (t \in members'[g] <=> t \in dbMembers[g])
    <2>1. /\ \A p \in Requests \ {q} : request[p].op = "idle"
          /\ OnTables(r)
          /\ \A g \in Groups \ {Default} : groups[g] # None => dbGroups[g] # None \/ (r.op = "delete" /\ r.g = g)
          /\ \A g \in Groups \ {Default} :
               /\ <<g, None>> \in acked => groups[g] = dbGroups[g]
               /\ \A t \in Tools : <<g, t>> \in acked => (t \in members[g] <=> t \in dbMembers[g])
      BY <1>1, <1>2, <1>7 DEF InStep, InFlight
    <2>2. \A p \in Requests : request'[p].op = "idle" /\ OnTables(request[p])'
      BY <1>4, <1>5, <2>1 DEF OnTables
    <2>3. CASE ~Accepted(r) /\ UNCHANGED <<groups, tools, members, acked>>
      <3>1. r.op = "delete" => groups[r.g] = None
        BY <2>3, SMTT(60) DEF Accepted
      <3> QED
        BY <2>1, <2>2, <2>3, <3>1
    <2>4. CASE Accepted(r) /\ Apply(r) /\ acked' = acked \cup Confirmed(r)
      <3>1. /\ \A g \in Groups : <<g, None>> \in Confirmed(r) =>
                 g = r.g /\ r.op \in {"create", "update", "delete"}
            /\ \A g \in Groups, t \in Tools : <<g, t>> \in Confirmed(r) =>
                 g = r.g /\ (r.op = "delete" \/ (r.op \in {"attach", "detach"} /\ t = r.x))
        BY <1>1, DiscoveryAssumption DEF Confirmed, RequestOK
      <3>2. r.op = "update" => groups[r.g] # None
        BY <2>4 DEF Accepted
      <3>3. RequestOK(r) /\ groups \in [Groups -> Names \cup {None}] /\ members \in [Groups -> SUBSET Tools]
        BY <1>1 DEF TypeOK
      <3>4. /\ r.op \in {"create", "update"} => groups' = [groups EXCEPT ![r.g] = r.x]
            /\ r.op = "delete" => groups' = [groups EXCEPT ![r.g] = None] /\ members' = [members EXCEPT ![r.g] = {}]
            /\ r.op = "list" => \A g \in Groups : groups'[g] = IF r.rows[g] = None THEN groups[g] ELSE r.rows[g]
            /\ r.op = "attach" => members' = [members EXCEPT ![r.g] = @ \cup {r.x}]
            /\ r.op = "detach" => members' = [members EXCEPT ![r.g] = @ \ {r.x}]
            /\ r.op = "tools" => members' = [members EXCEPT ![r.g] = @ \cup {t \in Tools : r.rows[t] # "absent"}]
            /\ r.op \notin {"create", "update", "delete", "list"} => groups' = groups
            /\ r.op \notin {"delete", "attach", "detach", "tools"} => members' = members
        BY <1>1, <1>2, <2>4, ApplyFacts
      <3>5. /\ r.op \notin {"idle", "list"} => r.g \in Groups
            /\ r.op \in Operations
            /\ r.op \in {"create", "update"} => r.x \in Names
        BY <1>1, <3>3 DEF RequestOK
      <3>6. r.op \in {"create", "update"} /\ r.g # Default => dbGroups[r.g] = r.x
        BY <2>1, <3>2, <3>5 DEF OnTables
      <3>7. acked' = acked \cup Confirmed(r)
        BY <2>4, SMTT(60)
      <3> HIDE DEF r
      <3>8. \A g \in Groups \ {Default} : groups'[g] # None => dbGroups[g] # None
        <4>1. r.op \in {"create", "update"} => r.x # None
          BY <3>5, DiscoveryAssumption, SMTT(60)
        <4>2. CASE r.op \in {"create", "update"}
          BY <2>1, <3>3, <3>4, <3>5, <3>6, <4>1, <4>2
        <4>3. CASE r.op = "delete"
          BY <2>1, <3>3, <3>4, <3>5, <4>3
        <4>4. CASE r.op = "list"
          BY <2>1, <3>4, <4>4 DEF OnTables
        <4> QED
          BY <2>1, <3>4, <4>2, <4>3, <4>4
      <3>9. \A g \in Groups \ {Default} : <<g, None>> \in acked' => groups'[g] = dbGroups[g]
        <4>1. CASE r.op \in {"create", "update"}
          BY <2>1, <3>1, <3>3, <3>4, <3>5, <3>6, <3>7, <4>1, SMTT(60)
        <4>2. CASE r.op = "delete"
          BY <2>1, <3>1, <3>3, <3>4, <3>5, <3>7, <4>2 DEF OnTables
        <4>3. CASE r.op = "list"
          BY <2>1, <3>1, <3>4, <3>7, <4>3 DEF OnTables
        <4> QED
          BY <2>1, <3>1, <3>4, <3>7, <4>1, <4>2, <4>3, SMTT(60)
      <3>10. \A g \in Groups \ {Default}, t \in Tools :
               <<g, t>> \in acked' => (t \in members'[g] <=> t \in dbMembers[g])
        <4> SUFFICES ASSUME NEW g \in Groups \ {Default}, NEW t \in Tools, <<g, t>> \in acked'
                     PROVE  t \in members'[g] <=> t \in dbMembers[g]
          BY SMTT(60)
        <4>1. /\ <<g, t>> \in acked => (t \in members[g] <=> t \in dbMembers[g])
              /\ <<g, t>> \in acked \/ (g = r.g /\ (r.op = "delete" \/ (r.op \in {"attach", "detach"} /\ t = r.x)))
          BY <2>1, <3>1, <3>7, ZenonT(60)
        <4>2. CASE r.op \in {"delete", "attach", "detach", "tools"} /\ g = r.g
          <5>1. /\ r.op = "delete" => members'[g] = {}
                /\ r.op = "attach" => members'[g] = members[g] \cup {r.x}
                /\ r.op = "detach" => members'[g] = members[g] \ {r.x}
                /\ r.op = "tools" => members'[g] = members[g] \cup {u \in Tools : r.rows[u] # "absent"}
            BY <3>3, <3>4, <4>2
          <5>2. /\ r.op = "delete" => dbMembers[g] = {}
                /\ r.op = "attach" => r.x \in dbMembers[g]
                /\ r.op = "detach" => r.x \notin dbMembers[g]
                /\ r.op = "tools" => (r.rows[t] # "absent" => t \in dbMembers[g])
            BY <2>1, <4>2 DEF OnTables
          <5> QED
            BY <4>1, <4>2, <5>1, <5>2
        <4>3. CASE r.op \in {"delete", "attach", "detach", "tools"} /\ g # r.g
          <5>1. members'[g] = members[g]
            BY <3>3, <3>4, <4>3
          <5> QED
            BY <4>1, <4>3, <5>1
        <4>4. CASE r.op \notin {"delete", "attach", "detach", "tools"}
          BY <3>4, <4>1, <4>4
        <4> QED
          BY <4>2, <4>3, <4>4
      <3> QED
        BY <2>2, <3>8, <3>9, <3>10
    <2> QED
      BY <1>3, <1>7, <2>3, <2>4
  <1>8. InStep'
    BY <1>2, <1>7 DEF InStep, InFlight
  <1> QED
    BY <1>6, <1>8 DEF DiscoveryInv

\* Steps that concern neither requests nor any group but the default one keep
\* the invariant.
LEMMA OtherInv ==
  ASSUME DiscoveryInv,
         groups' \in [Groups -> Names \cup {None}], tools' \in [Tools -> Availability],
         members' \in [Groups -> SUBSET Tools], dbTools' \in [Tools -> Availability],
         replacing' = None \/ replacing' \in SUBSET Tools,
         requests' \in 0..MaxRequests,
         UNCHANGED <<dbGroups, dbMembers, request, acked, overlapped>>,
         \A g \in Groups \ {Default} : groups'[g] = groups[g] /\ members'[g] = members[g]
  PROVE  DiscoveryInv'
  <1>1. TypeOK /\ InStep
    BY DEF DiscoveryInv
  <1>2. TypeOK'
    BY <1>1 DEF TypeOK
  <1>3. InStep'
    <2>1. \A q \in Requests : /\ InFlight(q)' <=> InFlight(q)
                              /\ OnTables(request[q])' <=> OnTables(request[q])
      BY DEF InFlight, OnTables
    <2> QED
      BY <1>1, <2>1, SMTT(60) DEF InStep
  <1> QED
    BY <1>2, <1>3 DEF DiscoveryInv

\* Every step of Discovery keeps the invariant.
LEMMA DiscoveryStepInv == DiscoveryInv /\ [Next]_vars => DiscoveryInv'
  <1> SUFFICES ASSUME DiscoveryInv, [Next]_vars PROVE DiscoveryInv'
    OBVIOUS
  <1>0. /\ groups \in [Groups -> Names \cup {None}] /\ tools \in [Tools -> Availability]
        /\ members \in [Groups -> SUBSET Tools] /\ dbTools \in [Tools -> Availability]
        /\ replacing = None \/ replacing \in SUBSET Tools
        /\ requests \in 0..MaxRequests
    BY DEF DiscoveryInv, TypeOK
  <1>1. ASSUME EnsureDefault PROVE DiscoveryInv'
    <2>1. /\ groups' = [groups EXCEPT ![Default] = DefaultName]
          /\ UNCHANGED <<tools, members, dbGroups, dbTools, dbMembers, request, replacing,
                         acked, overlapped, requests>>
      BY <1>1, Zenon DEF EnsureDefault, tables, history
    <2>2. /\ groups' \in [Groups -> Names \cup {None}]
          /\ \A g \in Groups \ {Default} : groups'[g] = groups[g]
      BY <1>0, <2>1, DiscoveryAssumption
    <2> QED
      BY <1>0, <2>1, <2>2, OtherInv
  <1>2. ASSUME NEW got \in SUBSET Tools, NEW committed \in BOOLEAN, ReplaceRows(got, committed)
        PROVE  DiscoveryInv'
    <2>1. /\ replacing' = got
          /\ dbTools' = IF UseStore /\ committed
                        THEN [t \in Tools |-> IF t \in got THEN "enabled"
                                              ELSE IF dbTools[t] = "enabled" THEN "disabled" ELSE dbTools[t]]
                        ELSE dbTools
          /\ UNCHANGED <<groups, tools, members, dbGroups, dbMembers, request,
                         acked, overlapped, requests>>
      BY <1>2, Zenon DEF ReplaceRows, memory, history
    <2>2. dbTools' \in [Tools -> Availability]
      BY <1>0, <2>1 DEF Availability
    <2> QED
      BY <1>0, <2>1, <2>2, OtherInv
  <1>3. ASSUME ReplaceTools PROVE DiscoveryInv'
    <2>1. /\ replacing # None /\ replacing' = None
          /\ tools' = [t \in Tools |-> IF t \in replacing THEN "enabled" ELSE "absent"]
          /\ members' = [members EXCEPT ![Default] = @ \cup replacing]
          /\ UNCHANGED <<groups, dbGroups, dbTools, dbMembers, request,
                         acked, overlapped, requests>>
      BY <1>3, Zenon DEF ReplaceTools, tables, history
    <2>2. tools' \in [Tools -> Availability]
      BY <2>1, SMTT(60) DEF Availability
    <2>3. /\ members' \in [Groups -> SUBSET Tools]
          /\ \A g \in Groups \ {Default} : members'[g] = members[g]
      BY <1>0, <2>1, DiscoveryAssumption
    <2> QED
      BY <1>0, <2>1, <2>2, <2>3, OtherInv
  <1>4. ASSUME Restart PROVE DiscoveryInv'
    <2>1. /\ groups' = [g \in Groups |-> None] /\ tools' = [t \in Tools |-> "absent"]
          /\ members' = [g \in Groups |-> {}] /\ request' = [q \in Requests |-> Idle]
          /\ replacing' = None /\ acked' = {} /\ overlapped' = FALSE
          /\ UNCHANGED <<dbGroups, dbTools, dbMembers, requests>>
      BY <1>4, Zenon DEF Restart, tables
    <2>2. \A q \in Requests : RequestOK(request'[q]) /\ OnTables(request[q])' /\ request'[q].op = "idle"
      BY <2>1 DEF RequestOK, OnTables, Idle
    <2>3. /\ groups' \in [Groups -> Names \cup {None}] /\ tools' \in [Tools -> Availability]
          /\ members' \in [Groups -> SUBSET Tools] /\ request' = [q \in Requests |-> request'[q]]
      BY <2>1 DEF Availability
    <2>4. TypeOK'
      <3>1. acked' \in SUBSET Subjects /\ overlapped' \in BOOLEAN
        BY <2>1, Zenon
      <3> QED
        BY <2>1, <2>2, <2>3, <3>1, ZenonT(60) DEF DiscoveryInv, TypeOK
    <2>5. InStep'
      <3>1. \A q \in Requests : ~InFlight(q)' /\ OnTables(request[q])'
        BY <2>2 DEF InFlight
      <3>2. \A g \in Groups : groups'[g] = None
        BY <2>1
      <3>3. \A s : s \notin acked'
        BY <2>1
      <3> QED
        BY <3>1, <3>2, <3>3, Zenon DEF InStep
    <2> QED
      BY <2>4, <2>5 DEF DiscoveryInv
  <1>5. ASSUME UNCHANGED vars PROVE DiscoveryInv'
    <2>1. UNCHANGED <<groups, tools, members, dbGroups, dbTools, dbMembers, request, replacing,
                      acked, overlapped, requests>>
      BY <1>5, Zenon DEF vars, memory, tables, history
    <2> QED
      BY <1>0, <2>1, OtherInv
  <1> QED
    BY <1>1, <1>2, <1>3, <1>4, <1>5, TableStepInv, FinishInv, Zenon DEF Next, Running

(***************************************************************************)
(* The inductive invariant behind FoundWithinGrants.  While a call reads   *)
(* the token, whatever the rows say has been noted, so that the identity   *)
(* it makes is within what was noted whenever it reads them.               *)
(***************************************************************************)
Within(id) == id.allowed # {} /\ id.allowed \subseteq granted

SessionInv ==
  /\ defaultGroup \in Groups /\ grants \in SUBSET Groups /\ granted \in SUBSET Groups
  /\ session \in Identities
  /\ call \in [Calls -> [pc : {"idle", "reading", "serving"}, id : Identities]]
  /\ \A c \in Calls : call[c].pc = "reading" =>
       /\ call[c].id.active \in granted
       /\ defaultGroup \in granted /\ grants \subseteq granted
  /\ UseStore => /\ session # Nobody => Within(session)
                 /\ \A c \in Calls : call[c].pc = "serving" => Within(call[c].id)

\* The groups of the token change, and are noted.
LEMMA NoteGrantsInv ==
  ASSUME SessionInv, defaultGroup' \in Groups, grants' \in SUBSET Groups, NoteGrants,
         UNCHANGED <<session, call>>
  PROVE  SessionInv'
  <1>1. /\ granted' \in SUBSET Groups /\ granted \subseteq granted'
        /\ \A c \in Calls : call[c].pc = "reading" => defaultGroup' \in granted' /\ grants' \subseteq granted'
    BY DEF NoteGrants, SessionInv
  <1>2. /\ Within(session) => Within(session)'
        /\ \A c \in Calls : Within(call[c].id) => Within(call[c].id)'
    BY <1>1 DEF Within
  <1> QED
    BY <1>1, <1>2 DEF SessionInv

\* The invariant holds initially.
LEMMA SessionInit == HubInit => SessionInv
  <1> SUFFICES ASSUME HubInit PROVE SessionInv
    OBVIOUS
  <1>1. Nobody \in Identities /\ NoCall \in [pc : {"idle", "reading", "serving"}, id : Identities]
        /\ NoCall.pc = "idle"
    BY DEF Nobody, NoCall, Identities, Identity
  <1>2. \A c \in Calls : call[c] = NoCall
    BY DEF HubInit
  <1> QED
    BY <1>1, <1>2, DiscoveryAssumption DEF HubInit, SessionInv

\* Every step of the hub keeps the invariant.
LEMMA SessionStepInv == SessionInv /\ [HubNext]_hubVars => SessionInv'
  <1> SUFFICES ASSUME SessionInv, [HubNext]_hubVars PROVE SessionInv'
    OBVIOUS
  <1>0. Nobody \in Identities /\ NoCall \in [pc : {"idle", "reading", "serving"}, id : Identities]
        /\ NoCall.pc = "idle"
    BY DEF Nobody, NoCall, Identities, Identity
  <1>1. ASSUME DiscoveryStep PROVE SessionInv'
    <2>1. /\ grants' = {g \in grants : dbGroups'[g] # None} \/ UNCHANGED grants
          /\ UNCHANGED defaultGroup
          /\ \/ session' = Nobody /\ call' = [c \in Calls |-> NoCall] /\ granted' = {}
             \/ UNCHANGED <<session, call>> /\ NoteGrants
      BY <1>1, Zenon DEF DiscoveryStep, tokenVars
    <2>2. defaultGroup' \in Groups /\ grants' \in SUBSET Groups
      BY <2>1 DEF SessionInv
    <2>3. CASE session' = Nobody /\ call' = [c \in Calls |-> NoCall] /\ granted' = {}
      <3>1. call' \in [Calls -> [pc : {"idle", "reading", "serving"}, id : Identities]]
            /\ \A c \in Calls : call'[c].pc = "idle"
        BY <1>0, <2>3
      <3> QED
        BY <1>0, <2>2, <2>3, <3>1 DEF SessionInv
    <2> QED
      BY <2>1, <2>2, <2>3, NoteGrantsInv
  <1>2. ASSUME NEW listed \in SUBSET Groups, NEW first \in Groups, NEW default \in Groups \cup {None},
               SetTokenGroups(listed, first, default)
        PROVE  SessionInv'
    <2>1. /\ grants' = listed \cup ({default} \ {None})
          /\ defaultGroup' = IF default = None \/ default \in listed THEN first ELSE default
          /\ NoteGrants /\ UNCHANGED <<session, call>>
      BY <1>2 DEF SetTokenGroups
    <2>2. defaultGroup' \in Groups /\ grants' \in SUBSET Groups
      BY <2>1
    <2> QED
      BY <2>1, <2>2, NoteGrantsInv, SMTT(60)
  <1>3. ASSUME NEW c \in Calls, HandleHub(c) PROVE SessionInv'
    <2>1. UNCHANGED <<defaultGroup, grants>>
      BY <1>3, ZenonT(60) DEF HandleHub, tokenVars
    <2>2. CASE session = Nobody /\ UseStore
      <3>1. /\ call' = [call EXCEPT ![c] = [pc |-> "reading", id |-> Identity(defaultGroup, {})]]
            /\ granted' = granted \cup {defaultGroup} \cup grants
            /\ UNCHANGED session
        BY <1>3, <2>2, ZenonT(60) DEF HandleHub
      <3>2. \A id : Within(id) => Within(id)'
        BY <3>1 DEF Within
      <3>3. /\ call' \in [Calls -> [pc : {"idle", "reading", "serving"}, id : Identities]]
            /\ call'[c].pc = "reading" /\ call'[c].id.active = defaultGroup
            /\ \A d \in Calls \ {c} : call'[d] = call[d]
        BY <3>1 DEF SessionInv, Identities, Identity
      <3>4. granted' \in SUBSET Groups /\ granted \subseteq granted'
            /\ defaultGroup \in granted' /\ grants \subseteq granted'
        BY <3>1 DEF SessionInv
      <3> QED
        BY <2>1, <2>2, <3>1, <3>2, <3>3, <3>4 DEF SessionInv
    <2>3. CASE ~(session = Nobody /\ UseStore)
      <3>1. /\ session' = IF session = Nobody THEN Identity(Default, {}) ELSE session
            /\ call' = [call EXCEPT ![c] = [pc |-> "serving", id |-> session']]
            /\ UNCHANGED granted
        BY <1>3, <2>3, ZenonT(60) DEF HandleHub
      <3>2. session' \in Identities
        BY <3>1, DiscoveryAssumption DEF SessionInv, Identities, Identity
      <3>3. /\ call' \in [Calls -> [pc : {"idle", "reading", "serving"}, id : Identities]]
            /\ call'[c].pc = "serving" /\ call'[c].id = session'
            /\ \A d \in Calls \ {c} : call'[d] = call[d]
        BY <3>1, <3>2 DEF SessionInv
      <3>4. \A id : Within(id)' <=> Within(id)
        BY <3>1 DEF Within
      <3>5. UseStore => session # Nobody /\ session' = session
        BY <2>3, <3>1, SMTT(60)
      <3> QED
        BY <2>1, <3>1, <3>2, <3>3, <3>4, <3>5 DEF SessionInv
    <2> QED
      BY <2>2, <2>3
  <1>4. ASSUME NEW c \in Calls, NEW read \in BOOLEAN, OpenSession(c, read) PROVE SessionInv'
    <2> DEFINE rows == IF read THEN grants ELSE {}
    <2>1. /\ call[c].pc = "reading"
          /\ session' = Identity(call[c].id.active, AllowedGroups(call[c].id.active, rows))
          /\ call' = [call EXCEPT ![c] = [pc |-> "serving", id |-> session']]
          /\ UNCHANGED <<defaultGroup, grants, granted>>
      BY <1>4, ZenonT(60) DEF OpenSession, tokenVars
    <2>2. /\ call[c].id.active \in granted /\ rows \subseteq granted /\ granted \in SUBSET Groups
      BY <2>1 DEF SessionInv
    <2> HIDE DEF rows
    <2>3. session' \in Identities /\ Within(session)'
      BY <2>1, <2>2 DEF Identities, Identity, AllowedGroups, Within
    <2>4. /\ call' \in [Calls -> [pc : {"idle", "reading", "serving"}, id : Identities]]
          /\ call'[c].pc = "serving" /\ call'[c].id = session'
          /\ \A d \in Calls \ {c} : call'[d] = call[d]
      BY <2>1, <2>3, SMTT(60) DEF SessionInv
    <2>5. /\ Within(call[c].id)'
          /\ \A d \in Calls \ {c} : Within(call[d].id)' <=> Within(call[d].id)
      BY <2>1, <2>3, <2>4, SMTT(60) DEF Within
    <2> QED
      BY <2>1, <2>3, <2>4, <2>5 DEF SessionInv
  <1>5. ASSUME NEW c \in Calls, NEW g \in Groups, SetGroup(c, g) PROVE SessionInv'
    <2>1. /\ call[c].pc = "serving"
          /\ session' = Identity(g, call[c].id.allowed)
          /\ call' = [call EXCEPT ![c] = NoCall]
          /\ UNCHANGED <<defaultGroup, grants, granted>>
      BY <1>5, Zenon DEF SetGroup, tokenVars
    <2>2. session' \in Identities /\ (Within(call[c].id) => Within(session)')
      BY <2>1 DEF SessionInv, Identities, Identity, Within
    <2>3. /\ call' \in [Calls -> [pc : {"idle", "reading", "serving"}, id : Identities]]
          /\ call'[c].pc = "idle"
          /\ \A d \in Calls \ {c} : call'[d] = call[d]
      BY <1>0, <2>1 DEF SessionInv
    <2>4. \A d \in Calls \ {c} : Within(call[d].id)' <=> Within(call[d].id)
      BY <2>1, <2>3 DEF Within
    <2> QED
      BY <2>1, <2>2, <2>3, <2>4 DEF SessionInv
  <1>6. ASSUME NEW c \in Calls, Answer(c) PROVE SessionInv'
    <2>1. /\ call' = [call EXCEPT ![c] = NoCall]
          /\ UNCHANGED <<defaultGroup, grants, granted, session>>
      BY <1>6, Zenon DEF Answer, tokenVars
    <2>2. /\ call' \in [Calls -> [pc : {"idle", "reading", "serving"}, id : Identities]]
          /\ call'[c].pc = "idle"
          /\ \A d \in Calls \ {c} : call'[d] = call[d]
      BY <1>0, <2>1 DEF SessionInv
    <2>3. /\ Within(session)' <=> Within(session)
          /\ \A d \in Calls \ {c} : Within(call[d].id)' <=> Within(call[d].id)
      BY <2>1, <2>2, SMTT(60) DEF Within
    <2> QED
      BY <2>1, <2>2, <2>3 DEF SessionInv
  <1>7. ASSUME UNCHANGED hubVars PROVE SessionInv'
    BY <1>7 DEF hubVars, tokenVars, SessionInv, Within
  <1> QED
    BY <1>1, <1>2, <1>3, <1>4, <1>5, <1>6, <1>7, Zenon DEF HubNext

\* Every step of the hub keeps the invariant of Discovery.
LEMMA HubDiscoveryInv == DiscoveryInv /\ [HubNext]_hubVars => DiscoveryInv'
  <1> SUFFICES ASSUME DiscoveryInv, [HubNext]_hubVars PROVE DiscoveryInv'
    OBVIOUS
  <1>0. /\ groups \in [Groups -> Names \cup {None}] /\ tools \in [Tools -> Availability]
        /\ members \in [Groups -> SUBSET Tools] /\ dbTools \in [Tools -> Availability]
        /\ replacing = None \/ replacing \in SUBSET Tools
        /\ requests \in 0..MaxRequests
    BY DEF DiscoveryInv, TypeOK
  <1>1. ASSUME DiscoveryStep PROVE DiscoveryInv'
    BY <1>1, DiscoveryStepInv, Zenon DEF DiscoveryStep, Next
  <1>2. ASSUME NEW listed \in SUBSET Groups, NEW first \in Groups, NEW default \in Groups \cup {None},
               SetTokenGroups(listed, first, default)
        PROVE  DiscoveryInv'
    <2>1. /\ requests < MaxRequests /\ requests' = requests + 1
          /\ UNCHANGED <<groups, tools, members, dbGroups, dbTools, dbMembers, request, replacing,
                         acked, overlapped>>
      BY <1>2, ZenonT(60) DEF SetTokenGroups, memory, tables, history
    <2>2. requests' \in 0..MaxRequests
      BY <1>0, <2>1, DiscoveryAssumption
    <2> QED
      BY <1>0, <2>1, <2>2, OtherInv
  <1>3. ASSUME NEW c \in Calls, HandleHub(c) PROVE DiscoveryInv'
    <2>1. /\ groups' = groups \/ groups' = [groups EXCEPT ![Default] = DefaultName]
          /\ UNCHANGED <<tools, members, dbGroups, dbTools, dbMembers, request, replacing,
                         acked, overlapped, requests>>
      BY <1>3, Zenon DEF HandleHub, tables, history
    <2>2. /\ groups' \in [Groups -> Names \cup {None}]
          /\ \A g \in Groups \ {Default} : groups'[g] = groups[g]
      BY <1>0, <2>1, DiscoveryAssumption
    <2> QED
      BY <1>0, <2>1, <2>2, OtherInv
  <1>4. ASSUME UNCHANGED vars PROVE DiscoveryInv'
    BY <1>4, DiscoveryStepInv
  <1>5. ASSUME NEW c \in Calls,
               \/ Answer(c) \/ \E read \in BOOLEAN : OpenSession(c, read)
               \/ \E g \in Groups : SetGroup(c, g)
        PROVE  DiscoveryInv'
    BY <1>4, <1>5, Zenon DEF OpenSession, Answer, SetGroup
  <1>6. ASSUME UNCHANGED hubVars PROVE DiscoveryInv'
    BY <1>4, <1>6, Zenon DEF hubVars
  <1> QED
    BY <1>1, <1>2, <1>3, <1>5, <1>6, Zenon DEF HubNext

\* Discovery and hub together are type-correct.
THEOREM HubTypeCorrect == HubSpec => []HubTypeOK
  <1>1. HubInit => DiscoveryInv
    BY DiscoveryInit DEF HubInit
  <1>2. DiscoveryInv /\ SessionInv => HubTypeOK
    BY SMTT(60) DEF DiscoveryInv, SessionInv, HubTypeOK
  <1> QED
    BY <1>1, <1>2, SessionInit, HubDiscoveryInv, SessionStepInv, PTL DEF HubSpec

\* What administrators were told is done is in memory and in the tables, for any
\* number of requests that come one at a time, between refreshes and restarts.
THEOREM AcknowledgedChanges == HubSpec => []AcknowledgedInBoth
  <1>1. HubInit => DiscoveryInv
    BY DiscoveryInit DEF HubInit
  <1>2. DiscoveryInv => AcknowledgedInBoth
    BY Zenon DEF DiscoveryInv, InStep, AcknowledgedInBoth
  <1> QED
    BY <1>1, <1>2, HubDiscoveryInv, PTL DEF HubSpec

\* Sessions find tools only in groups that their token had while they were opened.
THEOREM SessionsWithinGrants == HubSpec => []FoundWithinGrants
  <1>1. SessionInv => FoundWithinGrants
    BY DEF SessionInv, FoundWithinGrants, Found, GroupAllowed, Within
  <1> QED
    BY <1>1, SessionInit, SessionStepInv, PTL DEF HubSpec

\* A step takes a tool out of a group only for a request that says so.
LEMMA BindingStep ==
  ASSUME TypeOK, [HubNext]_hubVars, NEW g \in Groups, NEW t \in Tools
  PROVE  /\ t \in dbMembers[g] \ dbMembers'[g] =>
              \E q \in Requests : DeleteGroup(q, g) \/ DetachTool(q, g, t)
         /\ t \in members[g] \ members'[g] =>
              \/ Restart
              \/ \E q \in Requests : /\ Finish(q)
                                     /\ request[q].g = g
                                     /\ \/ request[q].op = "delete"
                                        \/ request[q].op = "detach" /\ request[q].x = t
  <1> DEFINE TableOK == t \in dbMembers[g] \ dbMembers'[g] =>
                          \E q \in Requests : DeleteGroup(q, g) \/ DetachTool(q, g, t)
             MemoryOK == t \in members[g] \ members'[g] =>
                           \/ Restart
                           \/ \E q \in Requests : /\ Finish(q)
                                                  /\ request[q].g = g
                                                  /\ \/ request[q].op = "delete"
                                                     \/ request[q].op = "detach" /\ request[q].x = t
  <1> SUFFICES TableOK /\ MemoryOK
    BY Zenon
  <1> HIDE DEF TableOK, MemoryOK
  <1>0. members \in [Groups -> SUBSET Tools] /\ dbMembers \in [Groups -> SUBSET Tools]
    BY Zenon DEF TypeOK
  <1>1. ASSUME UNCHANGED <<members, dbMembers>> PROVE TableOK /\ MemoryOK
    BY <1>1, Zenon DEF TableOK, MemoryOK
  <1>2. ASSUME NEW q \in Requests, TableStep(q) PROVE TableOK /\ MemoryOK
    <2>1. UNCHANGED members
      BY <1>2, ZenonT(60) DEF TableStep, CreateGroup, UpdateGroup, DeleteGroup, GroupTools, AttachTool,
                         DetachTool, ListGroups, Sent, memory
    <2>2. MemoryOK
      BY <2>1, Zenon DEF MemoryOK
    <2>3. ASSUME NEW h \in Groups, DeleteGroup(q, h) PROVE TableOK
      <3>1. dbMembers' = [dbMembers EXCEPT ![h] = {}] \/ UNCHANGED dbMembers
        BY <2>3 DEF DeleteGroup
      <3>2. CASE h = g
        BY <2>3, <3>2, Zenon DEF TableOK
      <3>3. CASE h # g
        BY <1>0, <3>1, <3>3 DEF TableOK
      <3> QED
        BY <3>2, <3>3
    <2>4. ASSUME NEW h \in Groups, NEW u \in Tools, DetachTool(q, h, u) PROVE TableOK
      <3>1. dbMembers' = [dbMembers EXCEPT ![h] = @ \ {u}] \/ UNCHANGED dbMembers
        BY <2>4 DEF DetachTool
      <3>2. CASE h = g /\ u = t
        BY <2>4, <3>2, Zenon DEF TableOK
      <3>3. CASE ~(h = g /\ u = t)
        BY <1>0, <3>1, <3>3 DEF TableOK
      <3> QED
        BY <3>2, <3>3
    <2>5. ASSUME NEW h \in Groups, NEW u \in Tools, AttachTool(q, h, u) PROVE TableOK
      <3>1. dbMembers' = [dbMembers EXCEPT ![h] = @ \cup {u}] \/ UNCHANGED dbMembers
        BY <2>5 DEF AttachTool
      <3> QED
        BY <1>0, <3>1 DEF TableOK
    <2>6. ASSUME UNCHANGED dbMembers PROVE TableOK
      BY <2>6, Zenon DEF TableOK
    <2>7. ASSUME NEW h \in Groups, GroupTools(q, h) \/ \E n \in Names : CreateGroup(q, h, n) \/ UpdateGroup(q, h, n)
          PROVE  UNCHANGED dbMembers
      BY <2>7, Zenon DEF GroupTools, CreateGroup, UpdateGroup, tables
    <2>8. ASSUME ListGroups(q) PROVE UNCHANGED dbMembers
      BY <2>8, Zenon DEF ListGroups, tables
    <2> QED
      BY <1>2, <2>2, <2>3, <2>4, <2>5, <2>6, <2>7, <2>8, Zenon DEF TableStep
  <1>3. ASSUME NEW q \in Requests, Finish(q) PROVE TableOK /\ MemoryOK
    <2>1. UNCHANGED dbMembers /\ InFlight(q)
      BY <1>3, ZenonT(60) DEF Finish, tables
    <2>2. CASE UNCHANGED members
      BY <1>1, <2>1, <2>2, Zenon
    <2>3. CASE Apply(request[q])
      <3>1. RequestOK(request[q]) /\ request[q].op \in Operations
        BY <2>1, SMT DEF TypeOK, InFlight, RequestOK
      <3>2. /\ request[q].op = "delete" => members' = [members EXCEPT ![request[q].g] = {}]
            /\ request[q].op = "attach" => members' = [members EXCEPT ![request[q].g] = @ \cup {request[q].x}]
            /\ request[q].op = "detach" => members' = [members EXCEPT ![request[q].g] = @ \ {request[q].x}]
            /\ request[q].op = "tools" =>
                 members' = [members EXCEPT ![request[q].g] = @ \cup {u \in Tools : request[q].rows[u] # "absent"}]
            /\ request[q].op \notin {"delete", "attach", "detach", "tools"} => members' = members
        BY <2>1, <2>3, ApplyFacts, ZenonT(60)
      <3>3. t \in members[g] \ members'[g] =>
              /\ request[q].g = g
              /\ request[q].op = "delete" \/ (request[q].op = "detach" /\ request[q].x = t)
        BY <1>0, <3>1, <3>2, SMTT(60) DEF Operations, RequestOK
      <3> QED
        BY <1>3, <2>1, <3>3, Zenon DEF TableOK, MemoryOK
    <2> QED
      BY <1>3, <2>2, <2>3, Zenon DEF Finish, memory
  <1>4. ASSUME ReplaceTools PROVE TableOK /\ MemoryOK
    <2>1. members' = [members EXCEPT ![Default] = @ \cup replacing] /\ UNCHANGED dbMembers
      BY <1>4, ZenonT(60) DEF ReplaceTools, tables
    <2> QED
      BY <1>0, <2>1 DEF TableOK, MemoryOK
  <1>5. ASSUME Restart PROVE TableOK /\ MemoryOK
    <2>1. UNCHANGED dbMembers
      BY <1>5, Zenon DEF Restart, tables
    <2> QED
      BY <1>5, <2>1, Zenon DEF TableOK, MemoryOK
  <1>6. ASSUME NEW got \in SUBSET Tools, NEW committed \in BOOLEAN, ReplaceRows(got, committed)
        PROVE  UNCHANGED <<members, dbMembers>>
    BY <1>6, Zenon DEF ReplaceRows, memory
  <1>7. ASSUME EnsureDefault PROVE UNCHANGED <<members, dbMembers>>
    BY <1>7, Zenon DEF EnsureDefault, tables
  <1>8. ASSUME DiscoveryStep PROVE TableOK /\ MemoryOK
    BY <1>1, <1>2, <1>3, <1>4, <1>5, <1>6, <1>7, <1>8, Zenon DEF DiscoveryStep, Running
  <1>9. ASSUME NEW listed \in SUBSET Groups, NEW first \in Groups, NEW default \in Groups \cup {None},
               SetTokenGroups(listed, first, default)
        PROVE  UNCHANGED <<members, dbMembers>>
    BY <1>9, Zenon DEF SetTokenGroups, memory, tables
  <1>10. ASSUME NEW c \in Calls, HandleHub(c) PROVE UNCHANGED <<members, dbMembers>>
    BY <1>10, Zenon DEF HandleHub, tables
  <1>11. ASSUME NEW c \in Calls,
                \/ Answer(c) \/ \E read \in BOOLEAN : OpenSession(c, read)
                \/ \E h \in Groups : SetGroup(c, h)
         PROVE  UNCHANGED <<members, dbMembers>>
    BY <1>11, Zenon DEF OpenSession, Answer, SetGroup, vars, memory, tables
  <1>12. ASSUME UNCHANGED hubVars PROVE UNCHANGED <<members, dbMembers>>
    BY <1>12, Zenon DEF hubVars, vars, memory, tables
  <1> QED
    BY <1>1, <1>8, <1>9, <1>10, <1>11, <1>12, Zenon DEF HubNext

\* Bindings outlive refreshes, failures and every request about something else.
THEOREM BindingsKept == HubSpec => BindingsRetained
  <1>1. HubInit => DiscoveryInv
    BY DiscoveryInit DEF HubInit
  <1>2. DiscoveryInv /\ [HubNext]_hubVars =>
          [\A g \in Groups, t \in Tools :
             /\ t \in dbMembers[g] \ dbMembers'[g] =>
                  \E q \in Requests : DeleteGroup(q, g) \/ DetachTool(q, g, t)
             /\ t \in members[g] \ members'[g] =>
                  \/ Restart
                  \/ \E q \in Requests : /\ Finish(q)
                                         /\ request[q].g = g
                                         /\ \/ request[q].op = "delete"
                                            \/ request[q].op = "detach" /\ request[q].x = t]_vars
    BY BindingStep, Zenon DEF DiscoveryInv
  <1> QED
    BY <1>1, <1>2, HubDiscoveryInv, PTL DEF HubSpec, BindingsRetained
=============================================================================
