--------------------------- MODULE MCServerLocks ---------------------------
(* A small instance of ServerLocks for TLC.                                 *)
EXTENDS ServerLocks

CONSTANTS p1, p2

Two == {p1, p2}
=============================================================================
