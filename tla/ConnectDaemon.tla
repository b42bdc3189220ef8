----------------------------- MODULE ConnectDaemon -----------------------------
(***************************************************************************)
(* The mcp-connect daemon: the components it is told to run over its       *)
(* control socket, the configuration file it keeps them in, and the one    *)
(* tunnel over which it announces them.                                    *)
(*                                                                         *)
(* A control request holds Daemon.mu from its first look at the            *)
(* configuration to its answer, and on the way closes the tunnel (under    *)
(* tunnelMu) when it started or stopped a connector.  runTunnel and        *)
(* serveTunnel take the two locks one at a time: tunnelMu to publish the   *)
(* connection, mu to copy the runtimes.  What a connection announces is    *)
(* fixed by that copy; a change reaches the gateway by closing the         *)
(* connection and making a new one.                                        *)
(***************************************************************************)
EXTENDS Integers

CONSTANTS
  Names,      \* component names
  Taken,      \* names the gateway refuses: another connection owns them
  DiskFails,  \* Store.Save may fail
  MaxOps,     \* bound: control requests that change something
  MaxLosses,  \* bound: connections the network breaks
  MaxExits,   \* bound: times the daemon ends
  MaxLogins   \* bound: runs of mcp-connect login

ASSUME DaemonAssumption ==
  /\ Taken \subseteq Names
  /\ DiskFails \in BOOLEAN
  /\ MaxOps \in Nat /\ MaxLosses \in Nat /\ MaxExits \in Nat /\ MaxLogins \in Nat

VARIABLES
  running,    \* the daemon process exists
  cfg,        \* Daemon.cfg.Components: entry of each name
  disk,       \* the same in the configuration file
  acked,      \* the last request about the name was answered with success
  runtimes,   \* Daemon.runtimes
  closing,    \* a request holds mu and has yet to close the tunnel
  loop,       \* where runTunnel and serveTunnel stand
  tunnel,     \* Daemon.tunnel is the current connection, not nil
  connOpen,   \* the current connection works
  snapshot,   \* serveTunnel's copy of the runtimes
  announced,  \* names said hello to on the current connection
  beats,      \* names the heartbeat goroutine is about to write
  loginView,  \* what a running login has read from the file
  loginPc,    \* where it stands
  ops, losses, exits, logins

configVars == <<cfg, disk, acked>>
tunnelVars == <<loop, tunnel, connOpen, snapshot, announced, beats>>
loginVars == <<loginView, loginPc>>
counters == <<ops, losses, exits, logins>>
vars == <<running, configVars, runtimes, closing, tunnelVars, loginVars, counters>>

Entry == {"absent", "disabled", "enabled"}

TypeOK ==
  /\ running \in BOOLEAN
  /\ cfg \in [Names -> Entry]
  /\ disk \in [Names -> Entry]
  /\ acked \in [Names -> BOOLEAN]
  /\ runtimes \in SUBSET Names
  /\ closing \in BOOLEAN
  /\ loop \in {"dial", "dialled", "copy", "hello", "read", "close", "wait"}
  /\ tunnel \in BOOLEAN
  /\ connOpen \in BOOLEAN
  /\ snapshot \in SUBSET Names
  /\ announced \in SUBSET Names
  /\ beats \in SUBSET Names
  /\ loginView \in [Names -> Entry]
  /\ loginPc \in {"idle", "polling"}
  /\ ops \in 0..MaxOps /\ losses \in 0..MaxLosses
  /\ exits \in 0..MaxExits /\ logins \in 0..MaxLogins

NoEntries == [n \in Names |-> "absent"]

Init ==
  /\ running = FALSE
  /\ cfg = NoEntries
  /\ disk = NoEntries
  /\ acked = [n \in Names |-> FALSE]
  /\ runtimes = {}
  /\ closing = FALSE
  /\ loop = "dial"
  /\ tunnel = FALSE
  /\ connOpen = FALSE
  /\ snapshot = {}
  /\ announced = {}
  /\ beats = {}
  /\ loginView = NoEntries
  /\ loginPc = "idle"
  /\ ops = 0 /\ losses = 0 /\ exits = 0 /\ logins = 0
-----------------------------------------------------------------------------
(***************************************************************************)
(* The process.                                                            *)
(***************************************************************************)

Enabled(c) == {n \in Names : c[n] = "enabled"}

\* NewDaemon loads the file; Start starts the enabled components, ignoring
\* those that fail, before it runs the tunnel and serves requests.
Boot ==
  /\ ~running
  /\ running' = TRUE
  /\ cfg' = disk
  /\ runtimes' \in SUBSET Enabled(disk)
  /\ UNCHANGED <<disk, acked, closing, tunnelVars, loginVars, counters>>

\* The daemon is shut down, interrupted or killed, between any two steps.
Exit ==
  /\ running
  /\ exits < MaxExits
  /\ exits' = exits + 1
  /\ running' = FALSE
  /\ runtimes' = {}
  /\ closing' = FALSE
  /\ loop' = "dial"
  /\ tunnel' = FALSE
  /\ connOpen' = FALSE
  /\ snapshot' = {} /\ announced' = {} /\ beats' = {}
  /\ UNCHANGED <<configVars, loginVars, ops, losses, logins>>
-----------------------------------------------------------------------------
(***************************************************************************)
(* Control requests.                                                       *)
(***************************************************************************)

\* d.mu.Lock()
Locks ==
  /\ running
  /\ ~closing
  /\ ops < MaxOps
  /\ ops' = ops + 1

\* Store.Save writes the whole configuration to a new file and renames it.
Save(saved) ==
  /\ saved \/ DiskFails
  /\ disk' = IF saved THEN cfg' ELSE disk

Answer(n, ok) == acked' = [acked EXCEPT ![n] = ok]

MutStart(n, started) ==
  /\ runtimes' = IF started THEN runtimes \cup {n} ELSE runtimes
  /\ closing' = FALSE

\* startComponentLocked: nothing for a connector that runs; otherwise it is
\* started, or fails to, and the tunnel has to be closed.
Start(n, started) ==
  /\ runtimes' = IF started THEN runtimes \cup {n} ELSE runtimes
  /\ closing' = (started /\ n \notin runtimes)
  /\ n \in runtimes => started

\* stopComponentLocked
Stop(n) ==
  /\ runtimes' = runtimes \ {n}
  /\ closing' = (n \in runtimes)

MutAddComponent(n, saved, started) ==
  /\ Locks
  /\ cfg[n] = "absent"
  /\ cfg' = [cfg EXCEPT ![n] = "enabled"]
  /\ Save(saved)
  /\ Start(n, started)
  /\ Answer(n, started)
  /\ UNCHANGED <<running, tunnelVars, loginVars, losses, exits, logins>>

\* POST /components.  The entry stays in memory when Save or the start fails.
AddComponent(n, saved, started) ==
  /\ Locks
  /\ cfg[n] = "absent"
  /\ cfg' = [cfg EXCEPT ![n] = "enabled"]
  /\ Save(saved)
  /\ IF saved THEN Start(n, started) /\ Answer(n, started)
              ELSE UNCHANGED <<runtimes, closing>> /\ Answer(n, FALSE)
  /\ UNCHANGED <<running, tunnelVars, loginVars, losses, exits, logins>>

\* DELETE /components/NAME.  The result of Save is not looked at.
RemoveComponent(n, saved) ==
  /\ Locks
  /\ cfg[n] # "absent"
  /\ Stop(n)
  /\ cfg' = [cfg EXCEPT ![n] = "absent"]
  /\ Save(saved)
  /\ Answer(n, TRUE)
  /\ UNCHANGED <<running, tunnelVars, loginVars, losses, exits, logins>>

\* POST /components/NAME/enable.  When the start fails nothing is saved, but
\* the entry in memory is enabled.
Enable(n, saved, started) ==
  /\ Locks
  /\ cfg[n] # "absent"
  /\ cfg' = [cfg EXCEPT ![n] = "enabled"]
  /\ Start(n, started)
  /\ IF started THEN Save(saved) ELSE UNCHANGED disk
  /\ Answer(n, started /\ saved)
  /\ UNCHANGED <<running, tunnelVars, loginVars, losses, exits, logins>>

\* POST /components/NAME/disable
Disable(n, saved) ==
  /\ Locks
  /\ cfg[n] # "absent"
  /\ cfg' = [cfg EXCEPT ![n] = "disabled"]
  /\ Stop(n)
  /\ Save(saved)
  /\ Answer(n, saved)
  /\ UNCHANGED <<running, tunnelVars, loginVars, losses, exits, logins>>

\* d.tunnel.Close() under tunnelMu, and mu is released.
CloseTunnel ==
  /\ closing
  /\ closing' = FALSE
  /\ connOpen' = (connOpen /\ ~tunnel)
  /\ UNCHANGED <<running, configVars, runtimes, loop, tunnel, snapshot, announced, beats,
                 loginVars, counters>>
-----------------------------------------------------------------------------
(***************************************************************************)
(* runTunnel and serveTunnel.                                              *)
(***************************************************************************)

\* A step of the loop that leaves configuration, login and counters alone.
LoopOnly == UNCHANGED <<running, configVars, runtimes, closing, loginVars, counters>>

DialOK ==
  /\ running
  /\ loop = "dial"
  /\ loop' = "dialled"
  /\ connOpen' = TRUE
  /\ snapshot' = {} /\ announced' = {} /\ beats' = {}
  /\ UNCHANGED tunnel
  /\ LoopOnly

DialFails ==
  /\ running
  /\ loop = "dial"
  /\ loop' = "wait"
  /\ UNCHANGED <<tunnel, connOpen, snapshot, announced, beats>>
  /\ LoopOnly

\* d.tunnel = conn
PublishConn ==
  /\ loop = "dialled"
  /\ loop' = "copy"
  /\ tunnel' = TRUE
  /\ UNCHANGED <<connOpen, snapshot, announced, beats>>
  /\ LoopOnly

\* serveTunnel copies the runtimes under mu.
CopyRuntimes ==
  /\ loop = "copy"
  /\ ~closing
  /\ loop' = "hello"
  /\ snapshot' = runtimes
  /\ UNCHANGED <<tunnel, connOpen, announced, beats>>
  /\ LoopOnly

\* A hello is written.  On a broken connection the write fails, unless the
\* break has not been noticed yet.
SayHello(n) ==
  /\ loop = "hello"
  /\ n \in snapshot \ announced
  /\ \/ announced' = announced \cup {n} /\ UNCHANGED loop
     \/ ~connOpen /\ loop' = "close" /\ UNCHANGED announced
  /\ UNCHANGED <<tunnel, connOpen, snapshot, beats>>
  /\ LoopOnly

\* All hellos are out: the heartbeat goroutine starts, and the read loop.
HellosDone ==
  /\ loop = "hello"
  /\ snapshot \subseteq announced
  /\ loop' = "read"
  /\ UNCHANGED <<tunnel, connOpen, snapshot, announced, beats>>
  /\ LoopOnly

MutTick ==
  /\ loop = "read"
  /\ beats' = Enabled(cfg)
  /\ UNCHANGED <<loop, tunnel, connOpen, snapshot, announced>>
  /\ LoopOnly

\* The heartbeat goroutine of this connection copies the names under mu ...
Tick ==
  /\ loop = "read"
  /\ ~closing
  /\ beats = {}
  /\ beats' = runtimes
  /\ UNCHANGED <<loop, tunnel, connOpen, snapshot, announced>>
  /\ LoopOnly

\* ... and writes them, one by one.
Beat(n) ==
  /\ loop = "read"
  /\ n \in beats
  /\ beats' = beats \ {n}
  /\ UNCHANGED <<loop, tunnel, connOpen, snapshot, announced>>
  /\ LoopOnly

\* The gateway answers a hello with an error frame, and serveTunnel returns.
Refused ==
  /\ loop = "read"
  /\ connOpen
  /\ announced \cap Taken # {}
  /\ loop' = "close"
  /\ UNCHANGED <<tunnel, connOpen, snapshot, announced, beats>>
  /\ LoopOnly

MutReadFails ==
  /\ loop = "read"
  /\ ~connOpen
  /\ loop' = "returned"
  /\ UNCHANGED <<tunnel, connOpen, snapshot, announced, beats>>
  /\ LoopOnly

MutReadIgnored ==
  /\ loop = "read"
  /\ ~connOpen
  /\ UNCHANGED tunnelVars
  /\ LoopOnly

ReadFails ==
  /\ loop = "read"
  /\ ~connOpen
  /\ loop' = "close"
  /\ UNCHANGED <<tunnel, connOpen, snapshot, announced, beats>>
  /\ LoopOnly

\* conn.Close(), and d.tunnel = nil.
CloseConn ==
  /\ loop = "close"
  /\ loop' = "wait"
  /\ connOpen' = FALSE
  /\ tunnel' = FALSE
  /\ UNCHANGED <<snapshot, announced, beats>>
  /\ LoopOnly

Backoff ==
  /\ loop = "wait"
  /\ loop' = "dial"
  /\ UNCHANGED <<tunnel, connOpen, snapshot, announced, beats>>
  /\ LoopOnly

\* The network or the gateway breaks the connection.
ConnLost ==
  /\ connOpen
  /\ losses < MaxLosses
  /\ losses' = losses + 1
  /\ connOpen' = FALSE
  /\ UNCHANGED <<running, configVars, runtimes, closing, loop, tunnel, snapshot, announced, beats,
                 loginVars, ops, exits, logins>>
-----------------------------------------------------------------------------
(***************************************************************************)
(* mcp-connect login, a process of its own on the same file: it reads the  *)
(* configuration, waits for the browser, and writes it back.               *)
(***************************************************************************)

LoginLoads ==
  /\ loginPc = "idle"
  /\ logins < MaxLogins
  /\ logins' = logins + 1
  /\ loginPc' = "polling"
  /\ loginView' = disk
  /\ UNCHANGED <<running, configVars, runtimes, closing, tunnelVars, ops, losses, exits>>

\* The login completes, or it fails, or its Save does.
LoginSaves ==
  /\ loginPc = "polling"
  /\ loginPc' = "idle"
  /\ disk' \in {disk, loginView}
  /\ UNCHANGED <<running, cfg, acked, runtimes, closing, tunnelVars, loginView, counters>>
-----------------------------------------------------------------------------
Control ==
  \/ \E n \in Names, saved, started \in BOOLEAN :
       AddComponent(n, saved, started) \/ Enable(n, saved, started)
  \/ \E n \in Names, saved \in BOOLEAN : RemoveComponent(n, saved) \/ Disable(n, saved)

Loop ==
  \/ PublishConn \/ CopyRuntimes \/ HellosDone \/ ReadFails \/ CloseConn \/ Backoff
  \/ \E n \in Names : SayHello(n)

Next ==
  \/ Boot
  \/ Exit
  \/ Control
  \/ CloseTunnel
  \/ DialOK
  \/ DialFails
  \/ Loop
  \/ Tick
  \/ \E n \in Names : Beat(n)
  \/ Refused
  \/ ConnLost
  \/ LoginLoads
  \/ LoginSaves

Spec == Init /\ [][Next]_vars

(***************************************************************************)
(* The daemon's goroutines run, the gateway answers the hellos it refuses, *)
(* and dialling again and again succeeds in the end.                       *)
(***************************************************************************)
Fairness ==
  /\ WF_vars(CloseTunnel)
  /\ WF_vars(Loop)
  /\ WF_vars(DialOK \/ DialFails)
  /\ SF_vars(DialOK)
  /\ WF_vars(Refused)

FairSpec == Spec /\ Fairness
-----------------------------------------------------------------------------
(***************************************************************************)
(* Properties.                                                             *)
(***************************************************************************)

\* No change is missed: a connection that is open once no request holds mu has
\* copied exactly the connectors that run now, whichever way requests, dialling
\* and the two locks interleaved (startComponentLocked, stopComponentLocked,
\* runTunnel, serveTunnel).
NoMissedChange ==
  connOpen /\ ~closing /\ loop \in {"hello", "read"} => snapshot = runtimes

\* On an open connection the daemon sends heartbeats only for components it has
\* announced on that connection, although the heartbeat goroutine reads the
\* runtimes anew at every tick.
BeatsAnnounced == connOpen /\ loop = "read" => beats \subseteq announced

\* A configuration that a request was told is in force is also in the file:
\* what add, enable and disable acknowledged survives a restart of the daemon,
\* whatever requests failed in between, as long as no login rewrites the file.
AcknowledgedIsStored ==
  running /\ logins = 0 =>
    \A n \in Names : acked[n] /\ cfg[n] # "absent" => disk[n] = cfg[n]

\* A daemon that keeps running comes to rest with a working tunnel on which
\* exactly the running components are announced, once requests and network
\* failures stop, unless one of them has a name that the gateway refuses: no
\* interleaving leaves it connected with an old list, or waiting for itself.
Settles ==
  <>[](running /\ runtimes \cap Taken = {}) => <>[](connOpen /\ announced = runtimes)
=============================================================================
