---------------------------- MODULE MCRelaySocket ----------------------------
(* A small instance of RelaySocket for TLC.                                 *)
EXTENDS RelaySocket
=============================================================================
