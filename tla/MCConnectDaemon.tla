---------------------------- MODULE MCConnectDaemon ----------------------------
(***************************************************************************)
(* Small instances of ConnectDaemon: two components.                       *)
(***************************************************************************)
EXTENDS ConnectDaemon

CONSTANTS a, b
=============================================================================
