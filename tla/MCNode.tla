------------------------------- MODULE MCNode -------------------------------
(***************************************************************************)
(* Two accounts.  Both may register, s1 may also transfer twice, the       *)
(* second time too early when the pool hands the transactions out in the   *)
(* other order.  Eras are two blocks long.                                 *)
(***************************************************************************)
EXTENDS Node

CONSTANTS s1, s2

Register(s) == [sender |-> s, nonce |-> 0, kind |-> "RegisterAndStake"]
Transfer(s, n) == [sender |-> s, nonce |-> n, kind |-> "Transfer"]

MCTxs == {Register(s1), Transfer(s1, 1), Register(s2)}
OwnTxs == {Register(s1), Transfer(s1, 1)}
=============================================================================
