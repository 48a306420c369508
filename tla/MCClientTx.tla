----------------------------- MODULE MCClientTx -----------------------------
(* A small instance of ClientTx for TLC, with a server that consumes the    *)
(* queue transaction commands go to besides that of the queries.            *)
EXTENDS ClientTx

CONSTANTS t1, t2

MCTxs == {t1, t2}
Both  == {"device", "device_rpc"}
=============================================================================
