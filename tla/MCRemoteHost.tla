---------------------------- MODULE MCRemoteHost ----------------------------
(***************************************************************************)
(* Small instances of RemoteHost: two repositories on one host.              *)
(***************************************************************************)
EXTENDS RemoteHost, TLC

CONSTANTS q, r, read, dialog
=============================================================================
