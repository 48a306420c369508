----------------------------- MODULE MCRpcServer -----------------------------
(* A small instance of RpcServer for TLC.                                   *)
EXTENDS RpcServer

CONSTANTS r1, r2, e1, u1, w1, w2

MCRequests == {r1, r2}
MCWorkers  == {w1, w2}
=============================================================================
