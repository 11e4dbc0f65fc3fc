--------------------------- MODULE MCStateMachine ---------------------------
(***************************************************************************)
(* A small ledger: users 2 and 3 besides the burn and cap-refill           *)
(* addresses.  A behaviour is one of two workloads, payments with fees up  *)
(* to and beyond the u128 limit or staking in amounts that leave no share  *)
(* of a slash zero, and txs_left bounds how many transactions it executes; *)
(* nothing else about the specification changes.                           *)
(***************************************************************************)
EXTENDS StateMachine

CONSTANTS MaxPayments, MaxStakings

VARIABLES workload, txs_left

MCGenesisBalance == [a \in {2, 3} |-> IF a = 2 THEN 50 ELSE 16]

Tx(chain, sender, nonce, fee, kind, target, amount) ==
  [chain_id |-> chain, sender |-> sender, nonce |-> nonce, fee |-> fee,
   kind |-> kind, target |-> target, amount |-> amount]

Users == {2, 3}

TxsOf(bodies(_), fees, nonces) ==
  UNION {{Tx(ChainId, s, n, f, b[1], b[2], b[3]) : n \in nonces, f \in fees, b \in bodies(s)}
           : s \in Users}

\* Transfers to the other user and to oneself, both burns, a registration with
\* stake so that somebody earns the fees, a governance stub, and transactions of
\* another chain and of an address without an account.
PaymentBodies(s) ==
  {<<"Transfer", 2, 5>>, <<"Burn", 1, 5>>, <<"RegisterValidator", s, 0>>,
   <<"RegisterAndStake", s, 12>>, <<"Governance", s, 0>>}
Payments ==
  TxsOf(PaymentBodies, {1, 4}, 0..1)
  \cup {Tx(c, s, 0, 1, "Governance", s, 0) : c \in ChainIds, s \in {1, 2}}

\* Both registrations, stakes and unstakes of validator 2 by either user.
StakingBodies(s) ==
  {<<"RegisterValidator", s, 0>>, <<"RegisterAndStake", s, 12>>,
   <<"Stake", 2, 13>>, <<"Unstake", 2, 7>>}
Stakings == TxsOf(StakingBodies, {1}, 0..2)

MCTxs == Payments \cup Stakings

MCInit ==
  /\ Init
  /\ \/ workload = "payments" /\ txs_left = MaxPayments
     \/ workload = "stakings" /\ txs_left = MaxStakings

MCNext ==
  /\ \/ /\ txs_left > 0
        /\ txs_left' = txs_left - 1
        /\ \E tx \in (IF workload = "payments" THEN Payments ELSE Stakings) : ExecuteTx(tx)
     \/ /\ \/ EndBlock
           \/ EraBoundary
           \/ OpenElection
           \/ \E v \in Address : ProcessUnstakingCooldown(v)
           \/ \E v \in Address, r \in Reporters : ApplySlash(v, r)
        /\ UNCHANGED txs_left
  /\ UNCHANGED workload

MCSpec == MCInit /\ [][MCNext]_<<vars, workload, txs_left>>
=============================================================================
