---------------------------- MODULE MCConsensus -----------------------------
(***************************************************************************)
(* Finality, or competing chains.  The two share no state, so a behaviour  *)
(* is about one of them.                                                   *)
(*                                                                         *)
(* Finality: validators 0 and 1 hold 2 each, 2 and 3 hold 1 each, so that  *)
(* {0, 1} is exactly two thirds.  Validator 0 votes for both blocks of     *)
(* height 1, a stranger votes too, and two votes of height 2 circulate.    *)
(*                                                                         *)
(* Chains: three validators for two places.  The first and the third tie,  *)
(* so two nodes may hold different schedules; the second is the oldest.    *)
(* Node 1 builds with produce_block's placeholder, and its key is not      *)
(* known; node 2 signs; validator 3 is faulty.                             *)
(***************************************************************************)
EXTENDS CommitTracker, Forks

CONSTANTS b1, b2

VARIABLE part

MCStakeWeight == [v \in Validator |-> IF v < 2 THEN 2 ELSE 1]

CommitVote(height, block, validator) ==
  [height |-> height, block_hash |-> block, validator |-> validator]

MCVotes ==
  {CommitVote(1, b1, v) : v \in Validator \cup Strangers}
  \cup {CommitVote(1, b2, 0)}
  \cup {CommitVote(2, b2, v) : v \in 0..1}

MCStake == <<2, 1, 2>>
MCRegistrationEra == <<1, 0, 1>>
MCBodies == {<<"t1", "t2">>}

MCInit ==
  /\ part \in {"finality", "chains"} /\ Init /\ ForksInit
  /\ part = "finality" => schedule = [n \in Running |-> <<n>>]

MCNext ==
  \/ part = "finality" /\ Next /\ UNCHANGED <<part, forks>>
  \/ part = "chains" /\ ForksNext /\ UNCHANGED <<part, vars>>

MCSpec == MCInit /\ [][MCNext]_<<part, vars, forks>>
=============================================================================
