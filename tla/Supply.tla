------------------------------- MODULE Supply -------------------------------
(***************************************************************************)
(* The emission schedule (consensus/supply.rs) and the arithmetic of eras  *)
(* (consensus/era.rs).  The reward of a block is computed from the supply  *)
(* at the start of its era and is the same for every block of the era.     *)
(* Amounts are exact: U256 holds them.                                     *)
(***************************************************************************)
EXTENDS Naturals

CONSTANTS
  ERA_LENGTH,
  BLOCKS_PER_YEAR,
  BASIS_POINTS,
  headroom_rate, ceiling_rate,     \* in basis points
  GenesisSupply, EffectiveMax

ASSUME SupplyAssumption ==
  /\ ERA_LENGTH \in Nat \ {0} /\ BLOCKS_PER_YEAR \in Nat \ {0} /\ BASIS_POINTS \in Nat \ {0}
  /\ ERA_LENGTH <= BLOCKS_PER_YEAR
  /\ headroom_rate \in 0..BASIS_POINTS /\ ceiling_rate \in 0..BASIS_POINTS
  /\ EffectiveMax \in Nat /\ GenesisSupply \in 0..EffectiveMax

era_at_height(height) == height \div ERA_LENGTH
era_start_height(era) == era * ERA_LENGTH

Least(a, b) == IF a <= b THEN a ELSE b

\* Mutant of compute_reward: the larger of the two terms.
compute_reward_max(supply) ==
  IF supply >= EffectiveMax THEN 0
  ELSE LET annual_headroom == ((EffectiveMax - supply) * headroom_rate) \div BASIS_POINTS
           annual_ceiling == (EffectiveMax * ceiling_rate) \div BASIS_POINTS
       IN  (annual_headroom + annual_ceiling - Least(annual_headroom, annual_ceiling))
             \div BLOCKS_PER_YEAR

compute_reward(supply) ==
  IF supply >= EffectiveMax THEN 0
  ELSE LET annual_headroom == ((EffectiveMax - supply) * headroom_rate) \div BASIS_POINTS
           annual_ceiling == (EffectiveMax * ceiling_rate) \div BASIS_POINTS
       IN  Least(annual_headroom, annual_ceiling) \div BLOCKS_PER_YEAR

\* FixedSupply, of development networks, and CappedInflation.
Policies == {"fixed", "capped"}

block_reward(policy, supply) == IF policy = "fixed" THEN 0 ELSE compute_reward(supply)

\* The height whose supply is the snapshot that block `height` is paid from: the last
\* one before its era starts, and in era 0 the genesis block.
snapshot_height(height) ==
  LET start == era_start_height(era_at_height(height))
  IN  IF start = 0 THEN 0 ELSE start - 1

\* The supply after block `height`, when every block mints what block_reward says.
SupplyAt(policy, height) ==
  LET upto[h \in 0..height] ==
        IF h = 0 THEN GenesisSupply
        ELSE upto[h - 1] + block_reward(policy, upto[snapshot_height(h)])
  IN  upto[height]
=============================================================================
