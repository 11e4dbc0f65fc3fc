----------------------------- MODULE MCNetwork ------------------------------
(***************************************************************************)
(* Two interchangeable peers, for the peers the service lists, scores and  *)
(* bans, or for the rate limiter.  The two share no state, so a behaviour  *)
(* is about one of them.                                                   *)
(***************************************************************************)
EXTENDS Network, RateLimiter, TLC

CONSTANTS p1, p2

VARIABLE part

MCPeers == {p1, p2}
MCMinScore == -28
MCBanThreshold == -20
PeerSymmetry == Permutations(MCPeers)

MCInit == part \in {"peers", "limiter"} /\ Init /\ LimiterInit

MCNext ==
  \/ part = "peers" /\ Next /\ UNCHANGED <<part, limiter>>
  \/ part = "limiter" /\ LimiterNext /\ UNCHANGED <<part, vars>>

MCSpec == MCInit /\ [][MCNext]_<<part, vars, limiter>>
=============================================================================
