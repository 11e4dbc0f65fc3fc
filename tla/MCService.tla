----------------------------- MODULE MCService ------------------------------
(* A handle's two tasks and one peer; scores have the narrowest range. *)
EXTENDS Service

CONSTANT p1

MCPeers == {p1}
MCMinScore == -2
MCBanThreshold == -1
MCMessages == {[kind |-> "block", size |-> 2], [kind |-> "evidence", size |-> 2]}
MCLimits == [block |-> 2, evidence |-> 1]
=============================================================================
