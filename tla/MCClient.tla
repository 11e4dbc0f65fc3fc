------------------------------ MODULE MCClient ------------------------------
(* Two wallets of one user and a node that nobody else uses. *)
EXTENDS Client

CONSTANTS s1, s2, c1, c2

MCTxs == {}
=============================================================================
