---------------------------- MODULE MCTunnelStream ----------------------------
(***************************************************************************)
(* Instances of TunnelStream for TLC.                                      *)
(***************************************************************************)
EXTENDS TunnelStream

CONSTANTS r1, r2

\* Which caller each call belongs to, for the instances with two calls ...
McpAndInvoke == [r \in {r1, r2} |-> IF r = r1 THEN "mcp" ELSE "invoke"]

McpAndRefresh == [r \in {r1, r2} |-> IF r = r1 THEN "mcp" ELSE "refresh"]

\* ... and for the instance with one.
OneMcp == [r \in {r1} |-> "mcp"]
=============================================================================
