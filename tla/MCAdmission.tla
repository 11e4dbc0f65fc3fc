---------------------------- MODULE MCAdmission -----------------------------
(***************************************************************************)
(* What the node admits, of transactions or of proposals.  The pool and    *)
(* the governance engine share no state, so a behaviour is about one of    *)
(* them.                                                                   *)
(*                                                                         *)
(* The pool: sender a has one nonce more than its cap and may pay more for *)
(* a later nonce; sender b may tie with it, or offer too little.           *)
(* Governance: two proposers, two ids, two parameters.                     *)
(***************************************************************************)
EXTENDS Mempool, Governance

CONSTANTS a, b, alice, bob, v1, FlatFee, MaxValidators

VARIABLE part

MCSubmissions ==
  {[sender |-> a, nonce |-> n, fee |-> f] : n \in 0..2, f \in 1..2}
  \cup {[sender |-> b, nonce |-> 0, fee |-> f] : f \in 0..2}
  \cup {[sender |-> b, nonce |-> 1, fee |-> 1]}

Update(param, value) == [kind |-> "UpdateParam", param |-> param, value |-> value]
Shards(n) == [kind |-> "IncreaseShards", count |-> n]

SmallBounds == [p \in {FlatFee, MaxValidators} |->
                  IF p = FlatFee THEN [min |-> 0, max |-> 2] ELSE [min |-> 1, max |-> 2]]
\* Values at and beyond the bounds, two writes of one parameter, and no action.
Lists ==
  {<<Update(FlatFee, 2)>>,
   <<Update(FlatFee, 0), Update(MaxValidators, 2), Update(FlatFee, 1)>>,
   <<Shards(1), Update(MaxValidators, 0)>>, <<>>}
Rich == [p \in {alice, bob} |-> 3]

MCInit == part \in {"pool", "governance"} /\ PoolInit /\ Init

MCNext ==
  \/ part = "pool" /\ PoolNext /\ UNCHANGED <<part, vars>>
  \/ part = "governance" /\ Next /\ UNCHANGED <<part, poolvars>>

MCSpec == MCInit /\ [][MCNext]_<<part, poolvars, vars>>
=============================================================================
