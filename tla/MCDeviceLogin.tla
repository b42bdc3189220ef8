------------------------------ MODULE MCDeviceLogin ------------------------------
(***************************************************************************)
(* Small instances of DeviceLogin: two logins.                             *)
(***************************************************************************)
EXTENDS DeviceLogin

CONSTANTS d1, d2
=============================================================================
