---------------------------- MODULE MCStdioConnector ----------------------------
(***************************************************************************)
(* Small instances of StdioConnector: two or three calls.                  *)
(***************************************************************************)
EXTENDS StdioConnector

CONSTANTS c1, c2, c3
=============================================================================
