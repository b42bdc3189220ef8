---------------------------- MODULE CatalogueProofs ----------------------------
(***************************************************************************)
(* Proofs about Catalogue, for any lists of tools, any number of refreshes *)
(* at a time, with or without stores, and any number of failures.          *)
(***************************************************************************)
EXTENDS Catalogue, TLAPS

\* Where a refresh may stand.
Stages == {"idle", "lock", "cached", "ask", "replace", "tx", "swap", "set"}

\* A refresh in progress or none.
Refresh == [pc : Stages, got : Lists \cup {{}}, via : {"tunnel", "lost", "cache"}]

(***************************************************************************)
(* TypeOK in parts, so that a step needs to look at those it changes: the  *)
(* catalogues, the refreshes, the flags and the rest.                      *)
(***************************************************************************)
CataloguesOK ==
  /\ tools \in [Tools -> Availability] /\ dbTools \in [Tools -> Availability]
  /\ listing = None \/ listing \in [Tools -> Availability]

RefreshesOK ==
  /\ refresh \in [Refreshes -> Refresh]
  /\ since \in [Refreshes -> SUBSET Refreshes] /\ newer \in [Refreshes -> SUBSET Tools]

FlagsOK == lock \in BOOLEAN /\ connected \in BOOLEAN

RestOK ==
  /\ cache \in Lists \cup {{}, None} /\ list \in Lists
  /\ changes \in 0..MaxChanges /\ listings \in 0..MaxListings

\* TypeOK is their conjunction.
LEMMA TypeSplit == TypeOK <=> CataloguesOK /\ RefreshesOK /\ FlagsOK /\ RestOK
  BY DEF TypeOK, CataloguesOK, RefreshesOK, FlagsOK, RestOK, Refresh, Stages

\* Listing has read nothing before the first listing, and memory holds one list.
WholeInv ==
  listings = 0 => listing = None /\ Available(tools) \in Lists \cup {{}}

CatalogueInv == CataloguesOK /\ RefreshesOK /\ FlagsOK /\ RestOK /\ WholeInv

\* The invariant holds initially.
LEMMA CatalogueInit == Init => CatalogueInv
  <1> SUFFICES ASSUME Init PROVE CatalogueInv
    OBVIOUS
  <1>1. CataloguesOK
    BY DEF Init, CataloguesOK, Availability
  <1>2. RefreshesOK
    BY DEF Init, RefreshesOK, Refresh, Stages, Idle
  <1>3. FlagsOK
    BY Zenon DEF Init, FlagsOK
  <1>4. RestOK
    BY CatalogueAssumption DEF Init, RestOK
  <1>5. WholeInv
    BY DEF Init, WholeInv, Available
  <1> QED
    BY <1>1, <1>2, <1>3, <1>4, <1>5 DEF CatalogueInv

\* What leaves the parts alone keeps them.
LEMMA PartsKept ==
  /\ CataloguesOK /\ UNCHANGED <<tools, dbTools, listing>> => CataloguesOK'
  /\ RefreshesOK /\ UNCHANGED <<refresh, since, newer>> => RefreshesOK'
  /\ FlagsOK /\ UNCHANGED <<lock, connected>> => FlagsOK'
  /\ RestOK /\ UNCHANGED <<cache, list, changes, listings>> => RestOK'
  /\ WholeInv /\ UNCHANGED <<tools, listing, listings>> => WholeInv'
  BY Zenon DEF CataloguesOK, RefreshesOK, FlagsOK, RestOK, WholeInv, Available

\* A refresh that goes on, gets a list or ends stays a refresh.
LEMMA RefreshMoves ==
  ASSUME RefreshesOK, NEW f \in Refreshes, UNCHANGED <<since, newer>>,
         \/ \E pc \in Stages : Goto(f, pc)
         \/ Done(f)
         \/ \E got \in Lists \cup {{}}, via \in {"tunnel", "cache"} : Received(f, got, via)
  PROVE  RefreshesOK'
  <1>1. ASSUME NEW pc \in Stages, Goto(f, pc) PROVE RefreshesOK'
    BY <1>1 DEF Goto, RefreshesOK, Refresh
  <1>2. ASSUME Done(f) PROVE RefreshesOK'
    BY <1>2 DEF Done, Idle, RefreshesOK, Refresh, Stages
  <1>3. ASSUME NEW got \in Lists \cup {{}}, NEW via \in {"tunnel", "cache"}, Received(f, got, via)
        PROVE  RefreshesOK'
    BY <1>3 DEF Received, RefreshesOK, Refresh, Stages
  <1> QED
    BY <1>1, <1>2, <1>3

\* Service.ReplaceTools puts one whole list into memory.
LEMMA ReplaceWhole ==
  ASSUME NEW got \in Lists \cup {{}}, tools' = [t \in Tools |-> IF t \in got THEN "enabled" ELSE "absent"]
  PROVE  tools' \in [Tools -> Availability] /\ Available(tools)' = got
  <1>1. got \subseteq Tools
    BY CatalogueAssumption
  <1>2. \A t \in Tools : tools'[t] = "enabled" <=> t \in got
    OBVIOUS
  <1>3. Available(tools)' = got
    BY <1>1, <1>2 DEF Available
  <1> QED
    BY <1>3 DEF Availability

\* Every step keeps the invariant.
LEMMA CatalogueStep == CatalogueInv /\ [Next]_vars => CatalogueInv'
  <1> SUFFICES ASSUME CatalogueInv, [Next]_vars PROVE CatalogueInv'
    OBVIOUS
  <1>0. CataloguesOK /\ RefreshesOK /\ FlagsOK /\ RestOK /\ WholeInv
    BY DEF CatalogueInv
  <1> USE <1>0 DEF catalogues, transactions, redis, upstream, counters, RefreshOnly
  <1>s. {"lock", "cached", "ask", "tx", "swap", "set"} \subseteq Stages
    BY DEF Stages
  \* A step of a refresh that touches neither catalogues nor counters.
  <1>r. ASSUME NEW f \in Refreshes,
               \/ \E pc \in Stages : Goto(f, pc)
               \/ Done(f)
               \/ \E got \in Lists \cup {{}}, via \in {"tunnel", "cache"} : Received(f, got, via),
               UNCHANGED <<tools, dbTools, since, newer, listing, listings>>,
               FlagsOK', RestOK'
        PROVE  CatalogueInv'
    BY <1>r, PartsKept, RefreshMoves, Zenon DEF CatalogueInv
  <1>1. ASSUME NEW f \in Refreshes, CatalogRefresh(f) PROVE CatalogueInv'
    <2>1. \E pc \in Stages : Goto(f, pc)
      BY <1>1, <1>s DEF CatalogRefresh
    <2> QED
      BY <1>1, <2>1, <1>r, PartsKept, Zenon DEF CatalogRefresh
  <1>2. ASSUME NEW f \in Refreshes, Register(f) PROVE CatalogueInv'
    <2>1. FlagsOK'
      BY <1>2, Zenon DEF Register, FlagsOK
    <2>2. RestOK'
      BY <1>2, CatalogueAssumption DEF Register, RestOK
    <2>3. \E pc \in Stages : Goto(f, pc)
      BY <1>2, <1>s DEF Register
    <2> QED
      BY <1>2, <2>1, <2>2, <2>3, <1>r, Zenon DEF Register
  <1>3. ASSUME NEW f \in Refreshes, TryLock(f) PROVE CatalogueInv'
    <2>1. FlagsOK'
      BY <1>3, Zenon DEF TryLock, FlagsOK
    <2>2. RestOK'
      BY <1>3, PartsKept, Zenon DEF TryLock
    <2>3. \E pc \in Stages : Goto(f, pc)
      BY <1>3, <1>s DEF TryLock
    <2> QED
      BY <1>3, <2>1, <2>2, <2>3, <1>r, Zenon DEF TryLock
  <1>4. ASSUME NEW f \in Refreshes, GetCatalog(f) PROVE CatalogueInv'
    <2>1. Done(f) \/ \E got \in Lists \cup {{}} : Received(f, got, "cache")
      BY <1>4 DEF GetCatalog, RestOK
    <2> QED
      BY <1>4, <2>1, <1>r, PartsKept DEF GetCatalog
  <1>5. ASSUME NEW f \in Refreshes, Fetch(f) \/ FetchFails(f) PROVE CatalogueInv'
    <2>1. Done(f) \/ \E got \in Lists \cup {{}} : Received(f, got, "tunnel")
      BY <1>5 DEF Fetch, FetchFails, RestOK
    <2> QED
      BY <1>5, <2>1, <1>r, PartsKept DEF Fetch, FetchFails
  <1>6. ASSUME NEW f \in Refreshes, FetchEmpty(f) PROVE CatalogueInv'
    <2>1. RestOK'
      BY <1>6, CatalogueAssumption DEF FetchEmpty, RestOK
    <2> QED
      BY <1>6, <2>1, <1>r, PartsKept DEF FetchEmpty
  <1>7. ASSUME NEW f \in Refreshes, BeginReplace(f) PROVE CatalogueInv'
    <2>1. RefreshesOK'
      BY <1>7 DEF BeginReplace, Goto, RefreshesOK, Refresh, Stages
    <2> QED
      BY <1>7, <2>1, PartsKept DEF BeginReplace, CatalogueInv
  <1>8. ASSUME NEW f \in Refreshes, NEW ok \in BOOLEAN, CommitReplace(f, ok) PROVE CatalogueInv'
    <2>1. refresh[f].got \subseteq Tools
      BY CatalogueAssumption DEF RefreshesOK, Refresh
    <2>2. dbTools' \in [Tools -> Availability]
      <3>1. CASE ok
        BY <1>8, <2>1, <3>1 DEF CommitReplace, ReplaceRows, CataloguesOK, Availability
      <3>2. CASE ~ok
        BY <1>8, <3>2 DEF CommitReplace, CataloguesOK
      <3> QED
        BY <3>1, <3>2
    <2>3. newer' \in [Refreshes -> SUBSET Tools]
      <3>1. CASE ok
        BY <1>8, <2>1, <3>1 DEF CommitReplace, ReplaceRows, RefreshesOK
      <3>2. CASE ~ok
        BY <1>8, <3>2 DEF CommitReplace, RefreshesOK
      <3> QED
        BY <3>1, <3>2
    <2>4. RefreshesOK'
      <3>1. refresh' \in [Refreshes -> Refresh]
        BY <1>8 DEF CommitReplace, Goto, RefreshesOK, Refresh, Stages
      <3>2. since' \in [Refreshes -> SUBSET Refreshes]
        BY <1>8 DEF CommitReplace, RefreshesOK
      <3> QED
        BY <2>3, <3>1, <3>2 DEF RefreshesOK
    <2>5. UNCHANGED <<tools, lock, cache, list, connected, listing, changes, listings>>
      BY <1>8, Zenon DEF CommitReplace
    <2>6. CataloguesOK'
      BY <2>2, <2>5 DEF CataloguesOK
    <2> QED
      BY <2>4, <2>5, <2>6, PartsKept DEF CatalogueInv
  <1>9. ASSUME NEW f \in Refreshes, ReplaceTools(f) PROVE CatalogueInv'
    <2>1. refresh[f].got \in Lists \cup {{}}
      BY DEF RefreshesOK, Refresh
    <2>2. tools' \in [Tools -> Availability] /\ Available(tools)' \in Lists \cup {{}}
      BY <1>9, <2>1, ReplaceWhole DEF ReplaceTools
    <2>3. Done(f) \/ \E pc \in Stages : Goto(f, pc)
      BY <1>9, <1>s DEF ReplaceTools
    <2>4. RefreshesOK'
      BY <1>9, <2>3, RefreshMoves DEF ReplaceTools
    <2>5. CataloguesOK' /\ WholeInv'
      BY <1>9, <2>2 DEF ReplaceTools, CataloguesOK, WholeInv
    <2> QED
      BY <1>9, <2>4, <2>5, PartsKept DEF ReplaceTools, CatalogueInv
  <1>10. ASSUME NEW f \in Refreshes, NEW ok \in BOOLEAN, SetCatalog(f, ok) PROVE CatalogueInv'
    <2>1. RestOK'
      BY <1>10 DEF SetCatalog, RestOK, RefreshesOK, Refresh
    <2> QED
      BY <1>10, <2>1, <1>r, PartsKept DEF SetCatalog
  <1>11. ASSUME LockExpires PROVE CatalogueInv'
    <2>1. FlagsOK'
      BY <1>11, Zenon DEF LockExpires, FlagsOK
    <2> QED
      BY <1>11, <2>1, PartsKept, Zenon DEF LockExpires, CatalogueInv
  <1>12. ASSUME CacheExpires PROVE CatalogueInv'
    <2>1. RestOK'
      BY <1>12 DEF CacheExpires, RestOK
    <2> QED
      BY <1>12, <2>1, PartsKept, Zenon DEF CacheExpires, CatalogueInv
  <1>13. ASSUME Disconnect PROVE CatalogueInv'
    <2>1. RefreshesOK'
      BY <1>13 DEF Disconnect, TunnelGone, RefreshesOK, Refresh
    <2>2. FlagsOK'
      BY <1>13, Zenon DEF Disconnect, FlagsOK
    <2> QED
      BY <1>13, <2>1, <2>2, PartsKept, Zenon DEF Disconnect, CatalogueInv
  <1>14. ASSUME ToolsChange PROVE CatalogueInv'
    <2>1. RestOK'
      BY <1>14, CatalogueAssumption DEF ToolsChange, RestOK
    <2> QED
      BY <1>14, <2>1, PartsKept, Zenon DEF ToolsChange, CatalogueInv
  <1>15. ASSUME Restart PROVE CatalogueInv'
    <2>1. CataloguesOK'
      BY <1>15 DEF Restart, CataloguesOK, Availability
    <2>2. RefreshesOK'
      BY <1>15 DEF Restart, Idle, RefreshesOK, Refresh, Stages
    <2>3. FlagsOK'
      BY <1>15, Zenon DEF Restart, FlagsOK
    <2>4. RestOK'
      BY <1>15, CatalogueAssumption DEF Restart, RestOK
    <2>5. WholeInv'
      BY <1>15 DEF Restart, WholeInv, Available
    <2> QED
      BY <2>1, <2>2, <2>3, <2>4, <2>5 DEF CatalogueInv
  <1>16. ASSUME NEW bound \in SUBSET Tools, ListGroupTools(bound) PROVE CatalogueInv'
    <2>1. CataloguesOK'
      BY <1>16 DEF ListGroupTools, CataloguesOK, Availability
    <2>2. RestOK' /\ listings' # 0
      BY <1>16, CatalogueAssumption DEF ListGroupTools, RestOK
    <2> QED
      BY <1>16, <2>1, <2>2, PartsKept DEF ListGroupTools, CatalogueInv, WholeInv
  <1>17. ASSUME CopyRows PROVE CatalogueInv'
    <2>1. CataloguesOK'
      BY <1>17 DEF CopyRows, CataloguesOK
    <2>2. listings' # 0
      BY <1>17 DEF CopyRows, WholeInv
    <2> QED
      BY <1>17, <2>1, <2>2, PartsKept DEF CopyRows, CatalogueInv, WholeInv
  <1>18. ASSUME UNCHANGED vars PROVE CatalogueInv'
    BY <1>18, PartsKept, Zenon DEF vars, CatalogueInv
  <1> QED
    BY <1>1, <1>2, <1>3, <1>4, <1>5, <1>6, <1>7, <1>8, <1>9, <1>10, <1>11, <1>12, <1>13, <1>14,
       <1>15, <1>16, <1>17, <1>18, ZenonT(30) DEF Next, RefreshStep

\* Type correctness of the catalogue: what refreshes carry, the cache holds and the
\* two catalogues say is always a list of tools or a row of one of them.
THEOREM CatalogueTypeCorrect == Spec => []TypeOK
  <1>1. CatalogueInv => TypeOK
    BY TypeSplit DEF CatalogueInv
  <1> QED
    BY <1>1, CatalogueInit, CatalogueStep, PTL DEF Spec

\* However many refreshes overlap, with the lock expiring under them and lists
\* from the cache, memory holds one list of the component as a whole, until a
\* group's tools are listed for the first time.
THEOREM WholeLists == Spec => []CatalogueWhole
  <1>1. CatalogueInv => CatalogueWhole
    BY DEF CatalogueInv, WholeInv, CatalogueWhole
  <1> QED
    BY <1>1, CatalogueInit, CatalogueStep, PTL DEF Spec
=============================================================================
