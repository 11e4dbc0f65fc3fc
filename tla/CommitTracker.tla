--------------------------- MODULE CommitTracker ----------------------------
(***************************************************************************)
(* BFT commit tracking (consensus/finality.rs).  Every node keeps one      *)
(* tracker per era, built from the same stake weights, and feeds it the    *)
(* commit votes the network brings: in any order, repeated, or never, from *)
(* validators and from strangers, a validator's votes for different blocks *)
(* of one height included.                                                 *)
(*                                                                         *)
(* Simplifications: a vote's signature carries no control (add_vote never  *)
(* looks at it); weights are exact (their triple stays below 2^256, so the *)
(* checked multiplications succeed).                                       *)
(***************************************************************************)
EXTENDS Naturals, FiniteSets, Sums

CONSTANTS
  V,             \* the active validators are 0..V-1
  StakeWeight,   \* stake_weights
  Strangers,     \* addresses outside the active set
  Nodes,
  Heights,
  Blocks,        \* block hashes
  Votes          \* the commit votes in circulation

Validator == 0..(V - 1)
Vote == [height : Heights, block_hash : Blocks, validator : Validator \cup Strangers]

ASSUME WeightAssumption ==
  /\ V \in Nat
  /\ StakeWeight \in [Validator -> Nat]
  /\ Strangers \cap Validator = {}
  /\ Votes \subseteq Vote

VARIABLES
  commits,      \* commits[n][h]: the votes node n has recorded at height h
  finalized,    \* finalized[n]: the heights node n holds final
  delivered     \* delivered[n]: every vote ever handed to node n's add_vote

vars == <<commits, finalized, delivered>>

Init ==
  /\ commits = [n \in Nodes |-> [h \in Heights |-> {}]]
  /\ finalized = [n \in Nodes |-> {}]
  /\ delivered = [n \in Nodes |-> {}]

-----------------------------------------------------------------------------
\* The validators among the senders of some votes.
Voters(votes) == {v \in Validator : \E vote \in votes : vote.validator = v}

\* The stake of a set of validators.
StakeOf(S) == Total([v \in Validator |-> IF v \in S THEN StakeWeight[v] ELSE 0], V)

total_active_stake == StakeOf(Validator)

\* Every recorded vote adds its validator's weight.
cumulative_weight(votes) ==
  Total([v \in Validator |-> Cardinality({vote \in votes : vote.validator = v}) * StakeWeight[v]], V)

\* Mutant of CrossesThreshold: two thirds are enough.
CrossesAtTwoThirds(weight) == weight * 3 >= total_active_stake * 2

CrossesThreshold(weight) == weight * 3 > total_active_stake * 2

\* Mutant of Acceptable: a second vote of a validator at a height, for another
\* block, is recorded as well.
AcceptableTwice(n, vote) ==
  /\ vote.height \notin finalized[n]
  /\ vote.validator \in Validator
  /\ vote \notin commits[n][vote.height]

Acceptable(n, vote) ==
  /\ vote.height \notin finalized[n]
  /\ vote.validator \in Validator
  /\ \A other \in commits[n][vote.height] : other.validator # vote.validator

Record(n, vote) ==
  LET votes == commits[n][vote.height] \cup {vote} IN
  /\ commits' = [commits EXCEPT ![n][vote.height] = votes]
  /\ finalized' = IF CrossesThreshold(cumulative_weight(votes))
                  THEN [finalized EXCEPT ![n] = @ \cup {vote.height}]
                  ELSE finalized

AddVote(n, vote) ==
  /\ delivered' = [delivered EXCEPT ![n] = @ \cup {vote}]
  /\ \/ Acceptable(n, vote) /\ Record(n, vote)
     \/ ~Acceptable(n, vote) /\ UNCHANGED <<commits, finalized>>

Next == \E n \in Nodes, vote \in Votes : AddVote(n, vote)

Spec == Init /\ [][Next]_vars

-----------------------------------------------------------------------------
(* Properties.                                                             *)

TypeOK ==
  /\ commits \in [Nodes -> [Heights -> SUBSET Vote]]
  /\ finalized \in [Nodes -> SUBSET Heights]
  /\ delivered \in [Nodes -> SUBSET Vote]

AtHeight(votes, h) == {vote \in votes : vote.height = h}

\* The votes of validators all name the same block.
Undisputed(votes) ==
  \A x, y \in votes :
    x.validator \in Validator /\ y.validator \in Validator => x.block_hash = y.block_hash

\* Repeats, strangers and order do not make a height final: the validators heard
\* from hold more than two thirds whenever it is, however often one of them voted.
\* And they do not keep it from becoming final: an undisputed height is final as
\* soon as the validators heard from hold more than two thirds, although add_vote
\* drops votes it has seen, votes of strangers and all votes after finality.
FinalityOrderFree ==
  \A n \in Nodes, h \in Heights :
    LET heard == AtHeight(delivered[n], h)
        enough == CrossesThreshold(StakeOf(Voters(heard)))
    IN  /\ h \in finalized[n] => enough
        /\ Undisputed(heard) /\ enough => h \in finalized[n]

\* Two nodes that both hold a height final share more than a third of the stake
\* among the validators they counted, so one third of faulty stake cannot make
\* two nodes final on disjoint evidence.
QuorumsIntersect ==
  \A m, n \in Nodes : \A h \in finalized[m] \cap finalized[n] :
    StakeOf(Voters(commits[m][h]) \cap Voters(commits[n][h])) * 3 > total_active_stake

\* What finality.rs says of itself: a final height has a block that more than two
\* thirds of the stake voted for.  add_vote never looks at the block of a vote.
FinalBlockHasQuorum ==
  \A n \in Nodes : \A h \in finalized[n] : \E b \in Blocks :
    CrossesThreshold(StakeOf(Voters({x \in AtHeight(delivered[n], h) : x.block_hash = b})))
=============================================================================
