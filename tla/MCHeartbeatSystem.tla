------------------------- MODULE MCHeartbeatSystem -------------------------
(* A small instance of HeartbeatSystem for TLC.                             *)
EXTENDS HeartbeatSystem
=============================================================================
