------------------------ MODULE MCTransactionManager ------------------------
(* Small instances of TransactionManager for TLC: two workers, one named id *)
(* and the empty one, two transactions.                                     *)
EXTENDS TransactionManager

CONSTANTS w1, w2, a, t1, t2

MCWorkers == {w1, w2}
MCIds     == {a, NoId}
MCTxs     == {t1, t2}
=============================================================================
