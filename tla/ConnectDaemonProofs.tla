-------------------------- MODULE ConnectDaemonProofs --------------------------
(***************************************************************************)
(* Proofs about ConnectDaemon, for any components and any number of        *)
(* requests, failures and restarts.                                        *)
(***************************************************************************)
EXTENDS ConnectDaemon, TLAPS

\* The two halves of the type invariant: the flags, and the rest.
Flags ==
  running \in BOOLEAN /\ closing \in BOOLEAN /\ tunnel \in BOOLEAN /\ connOpen \in BOOLEAN

Rest ==
  /\ cfg \in [Names -> Entry] /\ disk \in [Names -> Entry] /\ acked \in [Names -> BOOLEAN]
  /\ runtimes \in SUBSET Names /\ snapshot \in SUBSET Names
  /\ announced \in SUBSET Names /\ beats \in SUBSET Names
  /\ loop \in {"dial", "dialled", "copy", "hello", "read", "close", "wait"}
  /\ loginView \in [Names -> Entry] /\ loginPc \in {"idle", "polling"}
  /\ ops \in 0..MaxOps /\ losses \in 0..MaxLosses
  /\ exits \in 0..MaxExits /\ logins \in 0..MaxLogins

\* TypeOK is the conjunction of the two.
LEMMA TypeSplit == TypeOK <=> Flags /\ Rest
  BY DEF TypeOK, Flags, Rest

\* What a request may do to configuration and runtimes, as far as the tunnel
\* is concerned: whenever the runtimes change, the tunnel is to be closed.
Request ==
  /\ ~closing
  /\ running' = running
  /\ cfg' \in [Names -> Entry]
  /\ disk' \in [Names -> Entry]
  /\ acked' \in [Names -> BOOLEAN]
  /\ runtimes' \in SUBSET Names
  /\ closing' \in BOOLEAN
  /\ runtimes' # runtimes => closing'
  /\ ops' \in 0..MaxOps
  /\ UNCHANGED <<tunnelVars, loginVars, losses, exits, logins>>

\* Every control request is such a request.
LEMMA ControlIsRequest == TypeOK /\ Control => Request
  <1> SUFFICES ASSUME TypeOK, Control PROVE Request
    OBVIOUS
  <1> USE DaemonAssumption
  <1>e. "absent" \in Entry /\ "enabled" \in Entry /\ "disabled" \in Entry
    BY DEF Entry
  <1>1. ASSUME NEW n \in Names, NEW saved \in BOOLEAN, NEW started \in BOOLEAN,
               AddComponent(n, saved, started)
        PROVE  Request
    <2>1. cfg' \in [Names -> Entry] /\ disk' \in [Names -> Entry] /\ ~closing /\ ops' \in 0..MaxOps
      BY <1>1, <1>e DEF AddComponent, Save, Locks, TypeOK
    <2>2. acked' \in [Names -> BOOLEAN]
      BY <1>1, Zenon DEF AddComponent, Answer, TypeOK
    <2>3. runtimes' \in SUBSET Names /\ closing' \in BOOLEAN /\ (runtimes' # runtimes => closing')
      BY <1>1, Zenon DEF AddComponent, Start, TypeOK
    <2> QED
      BY <1>1, <2>1, <2>2, <2>3 DEF AddComponent, Request
  <1>2. ASSUME NEW n \in Names, NEW saved \in BOOLEAN, NEW started \in BOOLEAN,
               Enable(n, saved, started)
        PROVE  Request
    <2>1. cfg' \in [Names -> Entry] /\ disk' \in [Names -> Entry] /\ ~closing /\ ops' \in 0..MaxOps
      BY <1>2, <1>e DEF Enable, Save, Locks, TypeOK
    <2>2. acked' \in [Names -> BOOLEAN]
      BY <1>2 DEF Enable, Answer, TypeOK
    <2>3. runtimes' \in SUBSET Names /\ closing' \in BOOLEAN /\ (runtimes' # runtimes => closing')
      BY <1>2 DEF Enable, Start, TypeOK
    <2> QED
      BY <1>2, <2>1, <2>2, <2>3 DEF Enable, Request
  <1>3. ASSUME NEW n \in Names, NEW saved \in BOOLEAN, RemoveComponent(n, saved) PROVE Request
    <2>1. cfg' \in [Names -> Entry] /\ disk' \in [Names -> Entry] /\ ~closing /\ ops' \in 0..MaxOps
      BY <1>3, <1>e DEF RemoveComponent, Save, Locks, TypeOK
    <2>2. acked' \in [Names -> BOOLEAN]
      BY <1>3 DEF RemoveComponent, Answer, TypeOK
    <2>a. runtimes' = runtimes \ {n} /\ closing' = (n \in runtimes)
      BY <1>3 DEF RemoveComponent, Stop
    <2>3. runtimes' \in SUBSET Names /\ closing' \in BOOLEAN /\ (runtimes' # runtimes => closing')
      <3>1. runtimes' \in SUBSET Names
        BY <2>a DEF TypeOK
      <3>2. closing' \in BOOLEAN
        BY <2>a, SMT
      <3>3. n \notin runtimes => runtimes' = runtimes
        BY <2>a
      <3>4. n \in runtimes => closing'
        BY <2>a, Zenon
      <3> QED
        BY <3>1, <3>2, <3>3, <3>4
    <2> QED
      BY <1>3, <2>1, <2>2, <2>3 DEF RemoveComponent, Request
  <1>4. ASSUME NEW n \in Names, NEW saved \in BOOLEAN, Disable(n, saved) PROVE Request
    <2>1. cfg' \in [Names -> Entry] /\ disk' \in [Names -> Entry] /\ ~closing /\ ops' \in 0..MaxOps
      BY <1>4, <1>e DEF Disable, Save, Locks, TypeOK
    <2>2. acked' \in [Names -> BOOLEAN]
      BY <1>4 DEF Disable, Answer, TypeOK
    <2>a. runtimes' = runtimes \ {n} /\ closing' = (n \in runtimes)
      BY <1>4 DEF Disable, Stop
    <2>3. runtimes' \in SUBSET Names /\ closing' \in BOOLEAN /\ (runtimes' # runtimes => closing')
      <3>1. runtimes' \in SUBSET Names
        BY <2>a DEF TypeOK
      <3>2. closing' \in BOOLEAN
        BY <2>a, SMT
      <3>3. n \notin runtimes => runtimes' = runtimes
        BY <2>a
      <3>4. n \in runtimes => closing'
        BY <2>a, Zenon
      <3> QED
        BY <3>1, <3>2, <3>3, <3>4
    <2> QED
      BY <1>4, <2>1, <2>2, <2>3 DEF Disable, Request
  <1> HIDE DEF Request
  <1> QED
    BY <1>1, <1>2, <1>3, <1>4 DEF Control
-----------------------------------------------------------------------------
(***************************************************************************)
(* The inductive invariant.  A connection that has been copied for is      *)
(* published in Daemon.tunnel, so a request that changes the runtimes      *)
(* finds it and closes it before it lets go of mu; a connection that is    *)
(* not yet published copies later, under mu.                               *)
(***************************************************************************)
DaemonInv ==
  /\ TypeOK
  /\ NoMissedChange
  /\ BeatsAnnounced
  /\ loop \in {"copy", "hello", "read"} => tunnel
  /\ loop = "read" /\ connOpen => snapshot \subseteq announced
  /\ connOpen => announced \subseteq snapshot
  /\ connOpen /\ loop \in {"dialled", "copy"} => announced = {}
  /\ connOpen /\ loop # "read" => beats = {} \/ loop = "close"
  /\ connOpen => running /\ loop \notin {"dial", "wait"}
  /\ ~running => loop = "dial" /\ ~closing

\* The invariant holds initially.
LEMMA DaemonInit == Init => DaemonInv
  <1> SUFFICES ASSUME Init PROVE DaemonInv
    OBVIOUS
  <1>1. TypeOK
    <2>1. Flags
      BY Zenon DEF Init, Flags
    <2>2. Rest
      BY DaemonAssumption DEF Init, Rest, NoEntries, Entry
    <2> QED
      BY <2>1, <2>2, TypeSplit
  <1>2. ~connOpen /\ ~closing /\ loop = "dial"
    BY DEF Init
  <1> QED
    BY <1>1, <1>2 DEF DaemonInv, NoMissedChange, BeatsAnnounced

\* Every step keeps it.
LEMMA DaemonStep == DaemonInv /\ [Next]_vars => DaemonInv'
  <1> SUFFICES ASSUME DaemonInv, [Next]_vars PROVE DaemonInv'
    OBVIOUS
  <1> USE DaemonAssumption DEF configVars, tunnelVars, loginVars, counters
  <1>1. ASSUME Boot PROVE DaemonInv'
    BY <1>1 DEF Boot, Enabled, DaemonInv, TypeOK, NoMissedChange, BeatsAnnounced
  <1>2. ASSUME Exit PROVE DaemonInv'
    <2>1. TypeOK'
      <3>0. Flags /\ Rest
        BY TypeSplit DEF DaemonInv
      <3>1. Flags'
        BY <1>2, <3>0, Zenon DEF Exit, Flags
      <3>2. Rest'
        BY <1>2, <3>0 DEF Exit, Rest
      <3> QED
        BY <3>1, <3>2 DEF TypeOK, Flags, Rest
    <2>2. ~connOpen' /\ ~closing' /\ loop' = "dial"
      BY <1>2 DEF Exit
    <2> QED
      BY <2>1, <2>2 DEF DaemonInv, NoMissedChange, BeatsAnnounced
  <1>3. ASSUME Control PROVE DaemonInv'
    <2>1. Request
      BY <1>3, ControlIsRequest DEF DaemonInv
    <2>2. running
      BY <1>3, ZenonT(60) DEF Control, AddComponent, RemoveComponent, Enable, Disable, Locks
    <2>3. TypeOK'
      BY <2>1 DEF Request, DaemonInv, TypeOK
    <2> QED
      BY <2>1, <2>2, <2>3 DEF Request, DaemonInv, TypeOK, NoMissedChange, BeatsAnnounced
  <1>4. ASSUME CloseTunnel PROVE DaemonInv'
    BY <1>4, ZenonT(60) DEF CloseTunnel, DaemonInv, TypeOK, NoMissedChange, BeatsAnnounced
  <1>5. ASSUME DialOK \/ DialFails PROVE DaemonInv'
    <2>1. TypeOK'
      <3>0. Flags /\ Rest
        BY TypeSplit DEF DaemonInv
      <3>1. Flags'
        BY <1>5, <3>0, Zenon DEF DialOK, DialFails, LoopOnly, Flags
      <3>2. Rest'
        BY <1>5, <3>0 DEF DialOK, DialFails, LoopOnly, Rest
      <3> QED
        BY <3>1, <3>2 DEF TypeOK, Flags, Rest
    <2>2. running' /\ (connOpen' => loop' = "dialled" /\ announced' = {} /\ beats' = {})
      BY <1>5 DEF DialOK, DialFails, LoopOnly, DaemonInv
    <2>3. loop' \in {"dialled", "wait"}
      BY <1>5 DEF DialOK, DialFails
    <2> QED
      BY <2>1, <2>2, <2>3 DEF DaemonInv, NoMissedChange, BeatsAnnounced
  <1>6. ASSUME PublishConn \/ CopyRuntimes \/ HellosDone PROVE DaemonInv'
    <2>1. TypeOK'
      <3>0. Flags /\ Rest
        BY TypeSplit DEF DaemonInv
      <3>1. Flags'
        BY <1>6, <3>0, Zenon DEF PublishConn, CopyRuntimes, HellosDone, LoopOnly, Flags
      <3>2. Rest'
        BY <1>6, <3>0 DEF PublishConn, CopyRuntimes, HellosDone, LoopOnly, Rest
      <3> QED
        BY <3>1, <3>2 DEF TypeOK, Flags, Rest
    <2>2. running' /\ tunnel' /\ loop' \in {"copy", "hello", "read"}
      BY <1>6 DEF PublishConn, CopyRuntimes, HellosDone, LoopOnly, DaemonInv
    <2>3. UNCHANGED <<connOpen, closing, runtimes, announced, beats>>
      BY <1>6 DEF PublishConn, CopyRuntimes, HellosDone, LoopOnly
    <2>4. loop' = "copy" \/ (~closing /\ snapshot' = runtimes) \/ (loop = "hello" /\ snapshot' = snapshot)
      BY <1>6 DEF PublishConn, CopyRuntimes, HellosDone
    <2>5. connOpen' /\ ~closing' /\ loop' \in {"hello", "read"} => snapshot' = runtimes'
      BY <2>3, <2>4 DEF DaemonInv, NoMissedChange
    <2>6. connOpen => beats = {} /\ announced \subseteq snapshot'
      BY <1>6, Zenon DEF PublishConn, CopyRuntimes, HellosDone, DaemonInv
    <2>7. loop' = "read" => snapshot' \subseteq announced
      BY <1>6 DEF PublishConn, CopyRuntimes, HellosDone
    <2>8. loop' = "copy" => loop = "dialled"
      BY <1>6 DEF PublishConn, CopyRuntimes, HellosDone
    <2>9. NoMissedChange' /\ BeatsAnnounced'
      BY <2>2, <2>3, <2>5, <2>6 DEF NoMissedChange, BeatsAnnounced
    <2> QED
      BY <2>1, <2>2, <2>3, <2>6, <2>7, <2>8, <2>9 DEF DaemonInv, NoMissedChange, BeatsAnnounced
  <1>7. ASSUME ReadFails \/ CloseConn \/ Backoff \/ Refused PROVE DaemonInv'
    <2>1. TypeOK'
      <3>0. Flags /\ Rest
        BY TypeSplit DEF DaemonInv
      <3>1. Flags'
        BY <1>7, <3>0, Zenon DEF ReadFails, CloseConn, Backoff, Refused, LoopOnly, Flags
      <3>2. Rest'
        BY <1>7, <3>0 DEF ReadFails, CloseConn, Backoff, Refused, LoopOnly, Rest
      <3> QED
        BY <3>1, <3>2 DEF TypeOK, Flags, Rest
    <2>2. running' /\ loop' \in {"close", "wait", "dial"} /\ (connOpen' => connOpen /\ loop' = "close")
      BY <1>7 DEF ReadFails, CloseConn, Backoff, Refused, LoopOnly, DaemonInv
    <2>3. UNCHANGED <<snapshot, announced>>
      BY <1>7 DEF ReadFails, CloseConn, Backoff, Refused
    <2> QED
      BY <2>1, <2>2, <2>3 DEF DaemonInv, NoMissedChange, BeatsAnnounced
  <1>8. ASSUME NEW n \in Names, SayHello(n) PROVE DaemonInv'
    BY <1>8 DEF SayHello, LoopOnly, DaemonInv, TypeOK, NoMissedChange, BeatsAnnounced
  <1>9. ASSUME Tick PROVE DaemonInv'
    BY <1>9 DEF Tick, LoopOnly, DaemonInv, TypeOK, NoMissedChange, BeatsAnnounced
  <1>10. ASSUME NEW n \in Names, Beat(n) PROVE DaemonInv'
    BY <1>10 DEF Beat, LoopOnly, DaemonInv, TypeOK, NoMissedChange, BeatsAnnounced
  <1>11. ASSUME ConnLost PROVE DaemonInv'
    <2>1. TypeOK'
      <3>0. Flags /\ Rest
        BY TypeSplit DEF DaemonInv
      <3>1. Flags'
        BY <1>11, <3>0, Zenon DEF ConnLost, Flags
      <3>2. Rest'
        BY <1>11, <3>0 DEF ConnLost, Rest
      <3> QED
        BY <3>1, <3>2 DEF TypeOK, Flags, Rest
    <2>2. ~connOpen' /\ UNCHANGED <<running, closing, loop, tunnel>>
      BY <1>11 DEF ConnLost
    <2> QED
      BY <2>1, <2>2 DEF DaemonInv, NoMissedChange, BeatsAnnounced
  <1>12. ASSUME LoginLoads \/ LoginSaves PROVE DaemonInv'
    BY <1>12 DEF LoginLoads, LoginSaves, DaemonInv, TypeOK, NoMissedChange, BeatsAnnounced
  <1>13. ASSUME UNCHANGED vars PROVE DaemonInv'
    BY <1>13 DEF vars, DaemonInv, TypeOK, NoMissedChange, BeatsAnnounced
  <1> HIDE DEF DaemonInv
  <1> QED
    BY <1>1, <1>2, <1>3, <1>4, <1>5, <1>6, <1>7, <1>8, <1>9, <1>10, <1>11, <1>12, <1>13
    DEF Next, Loop

\* Type correctness of the daemon.
THEOREM TypeCorrect == Spec => []TypeOK
  <1>1. DaemonInv => TypeOK
    BY DEF DaemonInv
  <1> QED
    BY <1>1, DaemonInit, DaemonStep, PTL DEF Spec

\* The two locks, taken one at a time, are enough: no started or stopped
\* component is missed by a connection that stays open.
THEOREM ChangesNotMissed == Spec => []NoMissedChange
  <1>1. DaemonInv => NoMissedChange
    BY DEF DaemonInv
  <1> QED
    BY <1>1, DaemonInit, DaemonStep, PTL DEF Spec

\* Heartbeats on an open connection are for announced components only.
THEOREM HeartbeatsAnnounced == Spec => []BeatsAnnounced
  <1>1. DaemonInv => BeatsAnnounced
    BY DEF DaemonInv
  <1> QED
    BY <1>1, DaemonInit, DaemonStep, PTL DEF Spec
-----------------------------------------------------------------------------
(***************************************************************************)
(* What was acknowledged is in the file.  The invariant adds that a login  *)
(* about to write has been counted, so that before the first login only    *)
(* the daemon writes the file.                                             *)
(***************************************************************************)
StoredInv ==
  /\ AcknowledgedIsStored
  /\ loginPc = "polling" => logins # 0

\* What a request about n leaves behind: file and memory agree, or the file is
\* as it was, only n's entry changed, and n is absent or not acknowledged.
Recorded(n) ==
  \/ disk' = cfg'
  \/ /\ disk' = disk
     /\ \A m \in Names \ {n} : cfg'[m] = cfg[m] /\ acked'[m] = acked[m]
     /\ cfg'[n] = "absent" \/ ~acked'[n]

\* Every control request leaves that behind, whichever of its steps failed.
LEMMA ControlRecords ==
  TypeOK /\ Control => (\E n \in Names : Recorded(n)) /\ UNCHANGED <<running, loginPc, logins>>
  <1> SUFFICES ASSUME TypeOK, Control
               PROVE  (\E n \in Names : Recorded(n)) /\ UNCHANGED <<running, loginPc, logins>>
    OBVIOUS
  <1> DEFINE Goal == (\E n \in Names : Recorded(n)) /\ UNCHANGED <<running, loginPc, logins>>
  <1>t. cfg \in [Names -> Entry] /\ acked \in [Names -> BOOLEAN]
    BY DEF TypeOK
  <1>1. ASSUME NEW n \in Names, NEW saved \in BOOLEAN, NEW started \in BOOLEAN,
               AddComponent(n, saved, started)
        PROVE  Goal
    <2>1. \A m \in Names \ {n} : cfg'[m] = cfg[m] /\ acked'[m] = acked[m]
      BY <1>1, <1>t DEF AddComponent, Answer
    <2>2. CASE saved
      BY <1>1, <2>2 DEF AddComponent, Save, Recorded, loginVars
    <2>3. CASE ~saved
      <3>1. disk' = disk /\ ~acked'[n]
        BY <1>1, <1>t, <2>3, ZenonT(30) DEF AddComponent, Save, Answer
      <3> QED
        BY <1>1, <2>1, <3>1 DEF AddComponent, Recorded, loginVars
    <2> QED
      BY <2>2, <2>3
  <1>2. ASSUME NEW n \in Names, NEW saved \in BOOLEAN, NEW started \in BOOLEAN,
               Enable(n, saved, started)
        PROVE  Goal
    <2>1. \A m \in Names \ {n} : cfg'[m] = cfg[m] /\ acked'[m] = acked[m]
      BY <1>2, <1>t DEF Enable, Answer
    <2>2. CASE saved /\ started
      BY <1>2, <2>2 DEF Enable, Save, Recorded, loginVars
    <2>3. CASE ~(saved /\ started)
      <3>1. disk' = disk
        BY <1>2, <2>3 DEF Enable, Save
      <3>2. ~acked'[n]
        BY <1>2, <1>t, <2>3, ZenonT(30) DEF Enable, Answer
      <3> QED
        BY <1>2, <2>1, <3>1, <3>2 DEF Enable, Recorded, loginVars
    <2> QED
      BY <2>2, <2>3
  <1>3. ASSUME NEW n \in Names, NEW saved \in BOOLEAN, RemoveComponent(n, saved) PROVE Goal
    <2>1. \A m \in Names \ {n} : cfg'[m] = cfg[m] /\ acked'[m] = acked[m]
      BY <1>3, <1>t DEF RemoveComponent, Answer
    <2>2. cfg'[n] = "absent" /\ (disk' = cfg' \/ disk' = disk)
      BY <1>3, <1>t DEF RemoveComponent, Save
    <2> QED
      BY <1>3, <2>1, <2>2 DEF RemoveComponent, Recorded, loginVars
  <1>4. ASSUME NEW n \in Names, NEW saved \in BOOLEAN, Disable(n, saved) PROVE Goal
    <2>1. \A m \in Names \ {n} : cfg'[m] = cfg[m] /\ acked'[m] = acked[m]
      BY <1>4, <1>t DEF Disable, Answer
    <2>2. CASE saved
      BY <1>4, <2>2 DEF Disable, Save, Recorded, loginVars
    <2>3. CASE ~saved
      <3>1. disk' = disk
        BY <1>4, <2>3 DEF Disable, Save
      <3>2. ~acked'[n]
        BY <1>4, <1>t, <2>3, ZenonT(30) DEF Disable, Answer
      <3> QED
        BY <1>4, <2>1, <3>1, <3>2 DEF Disable, Recorded, loginVars
    <2> QED
      BY <2>2, <2>3
  <1> HIDE DEF Goal
  <1>5. Goal
    BY <1>1, <1>2, <1>3, <1>4 DEF Control
  <1> QED
    BY <1>5 DEF Goal

\* Every step keeps the file in line with what was acknowledged.
LEMMA StoredStep == TypeOK /\ StoredInv /\ [Next]_vars => StoredInv'
  <1> SUFFICES ASSUME TypeOK, StoredInv, [Next]_vars PROVE StoredInv'
    OBVIOUS
  <1> USE DEF configVars, loginVars, counters
  <1>1. ASSUME Boot PROVE StoredInv'
    BY <1>1 DEF Boot, StoredInv, AcknowledgedIsStored
  <1>2. ASSUME Exit PROVE StoredInv'
    BY <1>2 DEF Exit, StoredInv, AcknowledgedIsStored
  <1>3. ASSUME Control PROVE StoredInv'
    <2>1. PICK n \in Names : Recorded(n)
      BY <1>3, ControlRecords
    <2>2. UNCHANGED <<running, loginPc, logins>>
      BY <1>3, ControlRecords
    <2> QED
      BY <2>1, <2>2 DEF Recorded, StoredInv, AcknowledgedIsStored
  <1>4. ASSUME LoginLoads PROVE StoredInv'
    <2>1. logins' # 0
      BY <1>4, DaemonAssumption DEF LoginLoads, TypeOK
    <2> QED
      BY <2>1 DEF StoredInv, AcknowledgedIsStored
  <1>5. ASSUME LoginSaves PROVE StoredInv'
    <2>1. logins' # 0
      BY <1>5 DEF LoginSaves, StoredInv
    <2> QED
      BY <2>1 DEF StoredInv, AcknowledgedIsStored
  <1>6. ASSUME UNCHANGED <<running, configVars, loginPc, logins>> PROVE StoredInv'
    BY <1>6 DEF StoredInv, AcknowledgedIsStored
  <1>7. CloseTunnel \/ DialOK \/ DialFails \/ Tick \/ Refused \/ ConnLost
          => UNCHANGED <<running, configVars, loginPc, logins>>
    BY DEF CloseTunnel, DialOK, DialFails, Tick, Refused, ConnLost, LoopOnly
  <1>8. Loop \/ (\E n \in Names : Beat(n)) => UNCHANGED <<running, configVars, loginPc, logins>>
    BY DEF Loop, PublishConn, CopyRuntimes, HellosDone, ReadFails, CloseConn, Backoff, SayHello,
           Beat, LoopOnly
  <1>9. UNCHANGED vars => UNCHANGED <<running, configVars, loginPc, logins>>
    BY DEF vars
  <1> HIDE DEF StoredInv, configVars, loginVars, counters
  <1> QED
    BY <1>1, <1>2, <1>3, <1>4, <1>5, <1>6, <1>7, <1>8, <1>9 DEF Next

\* What add, enable and disable acknowledged is in the configuration file,
\* after any number of requests, failed saves and restarts, until a login
\* writes the file.
THEOREM AcknowledgedStored == Spec => []AcknowledgedIsStored
  <1>1. Init => StoredInv
    BY DEF Init, StoredInv, AcknowledgedIsStored
  <1>2. DaemonInv => TypeOK
    BY DEF DaemonInv
  <1>3. StoredInv => AcknowledgedIsStored
    BY DEF StoredInv
  <1> QED
    BY <1>1, <1>2, <1>3, DaemonInit, DaemonStep, StoredStep, PTL DEF Spec
=============================================================================
