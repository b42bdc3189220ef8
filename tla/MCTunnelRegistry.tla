---------------------------- MODULE MCTunnelRegistry ----------------------------
(***************************************************************************)
(* Small instances of TunnelRegistry: one tenant, two machines.            *)
(***************************************************************************)
EXTENDS TunnelRegistry, TLC

CONSTANTS demo, c1, c2, a, b, t1, t2, t3

Announce(c, comp, name) == [tenant |-> demo, connect |-> c, comp |-> comp, name |-> name]

\* A machine that reconnects (t1, then t2, possibly overlapping), and another
\* one (t3) that wants one of its names.  The daemon names components by their
\* identifier.
Rivals == (t1 :> {Announce(c1, a, a)}) @@ (t2 :> {Announce(c1, a, a), Announce(c1, b, b)})
            @@ (t3 :> {Announce(c2, a, a)})

\* One machine, two overlapping connections.
Reconnect == (t1 :> {Announce(c1, a, a)}) @@ (t2 :> {Announce(c1, a, a)})

\* Two machines whose components have one identifier and two names.
SameIdentifier == (t1 :> {Announce(c1, a, a)}) @@ (t2 :> {Announce(c2, a, b)})
=============================================================================
