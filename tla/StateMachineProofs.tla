------------------------- MODULE StateMachineProofs -------------------------
(***************************************************************************)
(* Theorems about the ledger of module StateMachine, for every number of   *)
(* addresses, every set of transactions and every parameter.               *)
(***************************************************************************)
EXTENDS StateMachine, SumsProofs

\* The types of a transaction's fields, and of what it takes from its sender.
LEMMA TxType ==
  ASSUME NEW tx \in Txs
  PROVE  /\ tx.sender \in Address /\ tx.target \in Address
         /\ tx.nonce \in Nat /\ tx.fee \in Nat /\ tx.amount \in Nat
         /\ Debit(tx) \in Nat
<1>1. tx \in Transaction
  BY TxsAssumption
<1>2. /\ tx.sender \in Address /\ tx.target \in Address
      /\ tx.nonce \in Nat /\ tx.fee \in Nat /\ tx.amount \in Nat
  BY <1>1 DEF Transaction
<1> QED
  BY <1>2, ParameterAssumption DEF Debit

\* A percentage of a natural, rounded down, is a natural that does not exceed it.
LEMMA PercentBound ==
  ASSUME NEW x \in Nat
  PROVE  /\ (x * 90) \div 100 \in Nat /\ (x * 10) \div 100 \in Nat
         /\ (x * 90) \div 100 <= x
         /\ (x * 90) \div 100 + (x * 10) \div 100 <= x
OBVIOUS

\* Slashing never takes more than the stake, and never pays out more than it takes.
LEMMA SlashBound ==
  ASSUME NEW stake \in Nat
  PROVE  /\ Slashed(stake) \in Nat /\ BurnAmount(stake) \in Nat /\ Bounty(stake) \in Nat
         /\ Slashed(stake) <= stake
         /\ BurnAmount(stake) + Bounty(stake) <= Slashed(stake)
<1>1. Slashed(stake) \in Nat /\ Slashed(stake) <= stake
  BY PercentBound DEF Slashed
<1>2. /\ BurnAmount(stake) \in Nat /\ Bounty(stake) \in Nat
      /\ BurnAmount(stake) + Bounty(stake) <= Slashed(stake)
  BY <1>1, PercentBound DEF BurnAmount, Bounty
<1> QED BY <1>1, <1>2

\* The stakes that count in fee distribution are naturals.
LEMMA WeightType ==
  ASSUME TypeOK
  PROVE  Weight \in [Address -> Nat]
BY DEF TypeOK, Weight, Entry

\* Fee shares, with the remainder, are naturals: the shares rounded down never
\* exceed the fees.
LEMMA PayoutType ==
  ASSUME NEW w \in [Address -> Nat], NEW fees \in Nat, Total(w, N) > 0
  PROVE  Payout(w, fees) \in [Address -> Nat]
<1> DEFINE share == [a \in Address |-> (fees * w[a]) \div Total(w, N)]
<1>1. share \in [Address -> Nat] /\ Total(share, N) <= fees
  BY SharesBounded, SizeAssumption DEF Address
<1>2. Total(share, N) \in Nat
  BY <1>1, TotalType, SizeAssumption DEF Address
<1> HIDE DEF share
<1>3. \A a \in Address : share[a] + (IF a = TopValidator(w) THEN fees - Total(share, N) ELSE 0) \in Nat
  BY <1>1, <1>2
<1> QED
  BY <1>3 DEF Payout, share

-----------------------------------------------------------------------------
(* Type correctness.                                                       *)

\* The counter of collected fees stays a natural.
LEMMA AddFeeType ==
  ASSUME TypeOK, NEW fee \in Nat
  PROVE  AddFee(fee) \in Nat
<1>1. U128_MAX + 1 \in Nat /\ U128_MAX + 1 > 0
  BY ParameterAssumption
<1>2. block_fees + FeeAsU128(fee) \in Nat
  BY ParameterAssumption DEF TypeOK, FeeAsU128
<1> QED BY <1>1, <1>2 DEF AddFee

\* A sender that a handler debits has an account again.
LEMMA DebitedType ==
  ASSUME TypeOK, NEW tx \in Txs, SenderOk(tx)
  PROVE  Debited(tx) \in Account
BY TxType DEF TypeOK, SenderOk, Debited, Account

LEMMA TransferType ==
  ASSUME TypeOK, NEW tx \in Txs, SenderOk(tx), Transfer(tx)
  PROVE  TypeOK'
<1>1. known' \subseteq Address
  BY TxType DEF TypeOK, Transfer
<1>2. accounts' \in [Address -> Account]
  <2> DEFINE credited == [accounts EXCEPT ![tx.target].balance = @ + tx.amount]
  <2>1. credited \in [Address -> Account]
    BY TxType DEF TypeOK, Account
  <2>2. accounts' = [credited EXCEPT ![tx.sender] = Debited(tx)]
    BY DEF Transfer, Settle
  <2> HIDE DEF credited
  <2> QED BY TxType, DebitedType, <2>1, <2>2
<1>3. block_fees' \in Nat /\ in_block' \in BOOLEAN
  BY TxType, AddFeeType DEF Transfer, Settle
<1> QED
  BY <1>1, <1>2, <1>3 DEF TypeOK, Transfer

LEMMA RegisterValidatorType ==
  ASSUME TypeOK, NEW tx \in Txs, SenderOk(tx), RegisterValidator(tx)
  PROVE  TypeOK'
<1>1. accounts' \in [Address -> Account]
  BY TxType, DebitedType DEF TypeOK, RegisterValidator, Settle
<1>2. block_fees' \in Nat /\ in_block' \in BOOLEAN
  BY TxType, AddFeeType DEF RegisterValidator, Settle
<1>3. [stake |-> 0, status |-> Registered] \in Entry
  BY DEF Entry, Status, Kinds, Registered
<1>4. validators' \subseteq Address /\ entries' \in [Address -> Entry]
  BY TxType, <1>3 DEF TypeOK, RegisterValidator, SetValidator
<1> QED
  BY <1>1, <1>2, <1>4 DEF TypeOK, RegisterValidator

LEMMA RegisterAndStakeType ==
  ASSUME TypeOK, NEW tx \in Txs, SenderOk(tx), RegisterAndStake(tx)
  PROVE  TypeOK'
<1>1. accounts' \in [Address -> Account]
  BY TxType, DebitedType DEF TypeOK, RegisterAndStake, Settle
<1>2. block_fees' \in Nat /\ in_block' \in BOOLEAN
  BY TxType, AddFeeType DEF RegisterAndStake, Settle
<1>3. [stake |-> tx.amount, status |-> Staked(tx.amount)] \in Entry
  BY TxType DEF Entry, Status, Kinds, Staked
<1>4. validators' \subseteq Address /\ entries' \in [Address -> Entry]
  BY TxType, <1>3 DEF TypeOK, RegisterAndStake, SetValidator
<1> QED
  BY <1>1, <1>2, <1>4 DEF TypeOK, RegisterAndStake

LEMMA StakeType ==
  ASSUME TypeOK, NEW tx \in Txs, SenderOk(tx), Stake(tx)
  PROVE  TypeOK'
<1> DEFINE e == entries[tx.target]
           new_stake == e.stake + tx.amount
           new == [stake |-> new_stake,
                   status |-> IF e.status = Registered THEN Staked(new_stake) ELSE e.status]
<1>1. accounts' \in [Address -> Account]
  BY TxType, DebitedType DEF TypeOK, Stake, Settle
<1>2. block_fees' \in Nat /\ in_block' \in BOOLEAN
  BY TxType, AddFeeType DEF Stake, Settle
<1>3. e \in Entry
  BY TxType DEF TypeOK
<1>4. new \in Entry
  BY TxType, <1>3 DEF Entry, Status, Kinds, Staked
<1>5. validators' \subseteq Address /\ entries' \in [Address -> Entry]
  <2>1. entries' = [entries EXCEPT ![tx.target] = new] /\ validators' = validators \cup {tx.target}
    BY DEF Stake, SetValidator
  <2> HIDE DEF new
  <2> QED BY TxType, <1>4, <2>1 DEF TypeOK
<1> QED
  BY <1>1, <1>2, <1>5 DEF TypeOK, Stake

LEMMA UnstakeType ==
  ASSUME TypeOK, NEW tx \in Txs, SenderOk(tx), Unstake(tx)
  PROVE  TypeOK'
<1> DEFINE e == entries[tx.target]
           release_era == IF e.status.kind = "Unstaking" THEN e.status.era
                                                         ELSE UNSTAKING_COOLDOWN_ERAS
           new == [e EXCEPT !.status = Unstaking(release_era, PendingAfter(tx))]
<1>1. accounts' \in [Address -> Account]
  BY TxType, DebitedType DEF TypeOK, Unstake, Settle
<1>2. block_fees' \in Nat /\ in_block' \in BOOLEAN
  BY TxType, AddFeeType DEF Unstake, Settle
<1>3. e \in Entry
  BY TxType DEF TypeOK
<1>4. new \in Entry
  <2>1. release_era \in Nat /\ PendingAfter(tx) \in Nat
    BY TxType, <1>3, ParameterAssumption DEF Entry, Status, PendingAfter
  <2>2. Unstaking(release_era, PendingAfter(tx)) \in Status
    BY <2>1 DEF Status, Kinds, Unstaking
  <2> QED BY <1>3, <2>2 DEF Entry
<1>5. validators' \subseteq Address /\ entries' \in [Address -> Entry]
  <2>1. entries' = [entries EXCEPT ![tx.target] = new] /\ validators' = validators \cup {tx.target}
    BY DEF Unstake, SetValidator
  <2> HIDE DEF new
  <2> QED BY TxType, <1>4, <2>1 DEF TypeOK
<1> QED
  BY <1>1, <1>2, <1>5 DEF TypeOK, Unstake

LEMMA GovernanceType ==
  ASSUME TypeOK, NEW tx \in Txs, SenderOk(tx), Governance(tx)
  PROVE  TypeOK'
<1>1. accounts' \in [Address -> Account]
  BY TxType, DebitedType DEF TypeOK, Governance, Settle
<1>2. block_fees' \in Nat /\ in_block' \in BOOLEAN
  BY TxType, AddFeeType DEF Governance, Settle
<1> QED
  BY <1>1, <1>2 DEF TypeOK, Governance

LEMMA FailTxType ==
  ASSUME TypeOK, NEW tx \in Txs, FailTx(tx)
  PROVE  TypeOK'
<1>1. CopyAfterFailure(tx) \in Account
  BY TxType, DebitedType DEF CopyAfterFailure, Debits, TypeOK
<1>2. accounts' \in [Address -> Account]
  <2>1. CASE UNCHANGED accounts
    BY <2>1 DEF TypeOK
  <2>2. CASE /\ CopyAfterFailure(tx).balance >= tx.fee
             /\ accounts' = [accounts EXCEPT ![tx.sender] =
                               [CopyAfterFailure(tx) EXCEPT !.balance = @ - tx.fee]]
    <3> DEFINE new == [CopyAfterFailure(tx) EXCEPT !.balance = @ - tx.fee]
    <3>1. new \in Account
      BY TxType, <1>1, <2>2 DEF Account
    <3> HIDE DEF new
    <3>2. accounts' = [accounts EXCEPT ![tx.sender] = new]
      BY <2>2 DEF new
    <3> QED BY TxType, <3>1, <3>2 DEF TypeOK
  <2> QED BY <2>1, <2>2 DEF FailTx
<1>3. block_fees' \in Nat
  BY TxType, AddFeeType DEF FailTx, TypeOK
<1> QED
  BY <1>2, <1>3 DEF TypeOK, FailTx

LEMMA EndBlockType ==
  ASSUME TypeOK, EndBlock
  PROVE  TypeOK'
<1>1. known' \subseteq Address /\ accounts' \in [Address -> Account]
  <2>1. CASE block_fees > 0 /\ Total(Weight, N) > 0
    <3> DEFINE payout == Payout(Weight, block_fees)
    <3>1. payout \in [Address -> Nat]
      BY <2>1, WeightType, PayoutType DEF TypeOK
    <3>2. Credit(payout)
      BY <2>1 DEF EndBlock, DistributeFees
    <3> HIDE DEF payout
    <3>3. known' \subseteq Address
      BY <3>2 DEF Credit, TypeOK
    <3>4. ASSUME NEW a \in Address
          PROVE  [accounts[a] EXCEPT !.balance = @ + payout[a]] \in Account
      <4>1. accounts[a] \in Account /\ payout[a] \in Nat
        BY <3>1 DEF TypeOK
      <4> QED BY <4>1 DEF Account
    <3>5. accounts' \in [Address -> Account]
      BY <3>2, <3>4 DEF Credit
    <3> QED BY <3>3, <3>5
  <2>2. CASE ~(block_fees > 0 /\ Total(Weight, N) > 0)
    BY <2>2 DEF EndBlock, DistributeFees, TypeOK
  <2> QED BY <2>1, <2>2
<1> QED
  BY <1>1 DEF TypeOK, EndBlock

\* What an election installs, given entries of the right type.
LEMMA ElectType ==
  ASSUME NEW ents \in [Address -> Entry], validators \subseteq Address,
         NEW current_era \in Nat, Elect(ents, current_era)
  PROVE  active_set' \in Seq(Address) /\ entries' \in [Address -> Entry]
<1>1. PICK s \in RunElection(ents, current_era) :
        active_set' = s /\ entries' = SetActive(ents, Members(s))
  BY DEF Elect
<1>2. PICK n \in 0..MAX_VALIDATORS : s \in [1..n -> Electable(ents, current_era)]
  BY <1>1 DEF RunElection
<1>3. s \in [1..n -> Address] /\ n \in Nat
  BY <1>2, ParameterAssumption DEF Electable
<1>4. s \in Seq(Address)
  BY <1>3
<1>5. entries' \in [Address -> Entry]
  BY <1>1 DEF SetActive, Entry, Status, Kinds, Active
<1> QED BY <1>1, <1>4, <1>5

LEMMA ThawAllType ==
  ASSUME TypeOK, NEW current_era \in Nat
  PROVE  ThawAll(current_era) \in [Address -> Entry]
BY DEF TypeOK, ThawAll, ProcessThaw, Entry, Status, Kinds, Thawed, Registered

LEMMA EraBoundaryType ==
  ASSUME TypeOK, EraBoundary
  PROVE  TypeOK'
<1>1. era + 1 \in Nat /\ era' = era + 1
  BY DEF TypeOK, EraBoundary
<1>2. active_set' \in Seq(Address) /\ entries' \in [Address -> Entry]
  <2>1. ThawAll(era + 1) \in [Address -> Entry] /\ Elect(ThawAll(era + 1), era + 1)
    BY <1>1, ThawAllType DEF EraBoundary
  <2> QED BY <1>1, <2>1, ElectType DEF TypeOK
<1> QED
  BY <1>1, <1>2 DEF TypeOK, EraBoundary

LEMMA OpenElectionType ==
  ASSUME TypeOK, OpenElection
  PROVE  TypeOK'
<1>1. active_set' \in Seq(Address) /\ entries' \in [Address -> Entry]
  BY ElectType DEF TypeOK, OpenElection
<1> QED
  BY <1>1 DEF TypeOK, OpenElection

LEMMA CooldownType ==
  ASSUME TypeOK, NEW v \in Address, ProcessUnstakingCooldown(v)
  PROVE  TypeOK'
<1>1. Released(entries[v]) \in Entry
  BY DEF TypeOK, Released, Entry, Status, Kinds, Registered, Staked
<1>2. entries' \in [Address -> Entry]
  BY <1>1 DEF TypeOK, ProcessUnstakingCooldown
<1> QED
  BY <1>2 DEF TypeOK, ProcessUnstakingCooldown

LEMMA SlashType ==
  ASSUME TypeOK, NEW v \in Address, NEW r \in Reporters, ApplySlash(v, r)
  PROVE  TypeOK'
<1> DEFINE stake == entries[v].stake
           new == [stake |-> stake - Slashed(stake),
                   status |-> Frozen(era + FREEZE_DURATION_ERAS)]
           burned == [accounts EXCEPT ![BurnAddress].balance = @ + BurnAmount(stake)]
<1>1. stake \in Nat
  BY DEF TypeOK, Entry
<1>2. stake - Slashed(stake) \in Nat /\ BurnAmount(stake) \in Nat /\ Bounty(stake) \in Nat
  <2> HIDE DEF stake
  <2> QED BY <1>1, SlashBound
<1>3. r \in Address /\ BurnAddress \in Address
  BY ParameterAssumption, SizeAssumption DEF Address, BurnAddress
<1>4. new \in Entry
  BY <1>2, ParameterAssumption DEF TypeOK, Entry, Status, Kinds, Frozen
<1>5. burned \in [Address -> Account]
  <2> HIDE DEF stake
  <2>1. accounts[BurnAddress] \in Account
    BY <1>3 DEF TypeOK
  <2>2. [accounts[BurnAddress] EXCEPT !.balance = @ + BurnAmount(stake)] \in Account
    BY <1>2, <2>1 DEF Account
  <2> QED BY <1>3, <2>2 DEF TypeOK
<1>6. /\ entries' = [entries EXCEPT ![v] = new]
      /\ accounts' = [burned EXCEPT ![r].balance = @ + Bounty(stake)]
      /\ known' = known \cup {BurnAddress, r}
      /\ UNCHANGED <<validators, active_set, block_fees, in_block, era>>
  BY DEF ApplySlash
<1> HIDE DEF new, burned, stake
<1>7. entries' \in [Address -> Entry] /\ known' \subseteq Address
  BY <1>3, <1>4, <1>6 DEF TypeOK
<1>8. accounts' \in [Address -> Account]
  BY <1>2, <1>3, <1>5, <1>6 DEF Account
<1> QED
  BY <1>6, <1>7, <1>8 DEF TypeOK

\* One transaction of a block keeps the types, whatever becomes of it.
LEMMA ExecuteTxType ==
  ASSUME TypeOK, NEW tx \in Txs, ExecuteTx(tx)
  PROVE  TypeOK'
<1>1. CASE ApplyTx(tx)
  <2>1. SenderOk(tx)
    BY <1>1 DEF ApplyTx, Accepts, Debits
  <2> QED
    BY <1>1, <2>1, TransferType, RegisterValidatorType, RegisterAndStakeType,
       StakeType, UnstakeType, GovernanceType DEF ApplyTx
<1>2. CASE SkipTx(tx)
  BY <1>2 DEF SkipTx, TypeOK
<1>3. CASE FailTx(tx)
  BY <1>3, FailTxType
<1> QED BY <1>1, <1>2, <1>3 DEF ExecuteTx

\* Type correctness of the ledger: in particular no balance and no stake is ever
\* taken below zero, and the fee shares of a block never exceed its fees.
THEOREM TypeCorrect == Spec => []TypeOK
<1>1. Init => TypeOK
  <2> SUFFICES ASSUME Init PROVE TypeOK
    OBVIOUS
  <2>1. known \subseteq Address /\ accounts \in [Address -> Account]
    BY GenesisAssumption DEF Init, Account, NewAccount
  <2>2. entries \in [Address -> Entry]
    BY DEF Init, Entry, Status, Kinds, Registered
  <2>3. active_set \in Seq(Address)
    BY DEF Init
  <2> QED BY <2>1, <2>2, <2>3 DEF Init, TypeOK
<1>2. TypeOK /\ [Next]_vars => TypeOK'
  <2> SUFFICES ASSUME TypeOK, [Next]_vars PROVE TypeOK'
    OBVIOUS
  <2>1. CASE UNCHANGED vars
    BY <2>1 DEF vars, TypeOK
  <2>2. CASE Next
    BY <2>2, ExecuteTxType, EndBlockType, EraBoundaryType, OpenElectionType,
       CooldownType, SlashType DEF Next
  <2> QED BY <2>1, <2>2
<1> QED
  BY <1>1, <1>2, PTL DEF Spec

-----------------------------------------------------------------------------
(* Stake and status agree.                                                 *)

\* What the status of an entry says about its stake.
EntryOk(e) ==
  /\ e.status.kind = "Unstaking" => e.status.amount \in 1..e.stake
  /\ e.status.kind = "Staked" => e.status.amount \in 1..e.stake

\* The inductive form of the two stake invariants: of every entry, written or not.
EntriesOk == \A a \in Address : EntryOk(entries[a])

\* Writing one good entry keeps all of them good.
LEMMA EntriesOkUpdate ==
  ASSUME TypeOK, EntriesOk, NEW v \in Address, NEW e, EntryOk(e),
         entries' = [entries EXCEPT ![v] = e]
  PROVE  EntriesOk'
BY DEF EntriesOk, EntryOk, TypeOK

LEMMA EntriesOkTx ==
  ASSUME TypeOK, EntriesOk, NEW tx \in Txs, ApplyTx(tx)
  PROVE  EntriesOk'
<1>0. tx.sender \in Address /\ tx.target \in Address /\ tx.amount \in Nat /\ Accepts(tx)
  BY TxType DEF ApplyTx
<1>1. CASE Transfer(tx) \/ Governance(tx)
  BY <1>1 DEF EntriesOk, EntryOk, Transfer, Governance
<1>2. CASE RegisterValidator(tx)
  <2>1. EntryOk([stake |-> 0, status |-> Registered])
    BY DEF EntryOk, Registered
  <2> QED BY <1>0, <1>2, <2>1, EntriesOkUpdate DEF RegisterValidator, SetValidator
<1>3. CASE RegisterAndStake(tx)
  <2>1. tx.amount > 0
    BY <1>0, <1>3 DEF RegisterAndStake, Accepts, Debits, BodyOk, CanRegister
  <2>2. EntryOk([stake |-> tx.amount, status |-> Staked(tx.amount)])
    BY <1>0, <2>1 DEF EntryOk, Staked
  <2> QED BY <1>0, <1>3, <2>2, EntriesOkUpdate DEF RegisterAndStake, SetValidator
<1>4. CASE Stake(tx)
  <2> DEFINE e == entries[tx.target]
             new_stake == e.stake + tx.amount
             new == [stake |-> new_stake,
                     status |-> IF e.status = Registered THEN Staked(new_stake) ELSE e.status]
  <2>1. tx.amount > 0 /\ e.status.kind # "Unstaking"
    BY <1>0, <1>4 DEF Stake, Accepts, Debits, BodyOk, CanStake
  <2>2. e \in Entry /\ EntryOk(e)
    BY <1>0 DEF TypeOK, EntriesOk
  <2>3. EntryOk(new)
    <3> HIDE DEF e
    <3>1. e.stake \in Nat /\ e.status.amount \in Nat
      BY <2>2 DEF Entry, Status
    <3>2. CASE e.status = Registered
      BY <1>0, <2>1, <3>1, <3>2 DEF EntryOk, Staked
    <3>3. CASE e.status # Registered
      BY <1>0, <2>1, <2>2, <3>1, <3>3 DEF EntryOk
    <3> QED BY <3>2, <3>3
  <2>4. entries' = [entries EXCEPT ![tx.target] = new]
    BY <1>4 DEF Stake, SetValidator
  <2> HIDE DEF new
  <2> QED BY <1>0, <2>3, <2>4, EntriesOkUpdate
<1>5. CASE Unstake(tx)
  <2> DEFINE e == entries[tx.target]
             release_era == IF e.status.kind = "Unstaking" THEN e.status.era
                                                           ELSE UNSTAKING_COOLDOWN_ERAS
             new == [e EXCEPT !.status = Unstaking(release_era, PendingAfter(tx))]
  <2>1. tx.amount > 0 /\ PendingAfter(tx) <= e.stake
    BY <1>0, <1>5 DEF Unstake, Accepts, Debits, BodyOk, CanUnstake, CumulativeOk
  <2>2. e \in Entry
    BY <1>0 DEF TypeOK
  <2>3. PendingAfter(tx) \in 1..e.stake
    BY <1>0, <2>1, <2>2 DEF PendingAfter, Entry, Status
  <2>4. EntryOk(new)
    <3> HIDE DEF e
    <3> QED BY <2>2, <2>3 DEF EntryOk, Unstaking, Entry
  <2>5. entries' = [entries EXCEPT ![tx.target] = new]
    BY <1>5 DEF Unstake, SetValidator
  <2> HIDE DEF new
  <2> QED BY <1>0, <2>4, <2>5, EntriesOkUpdate
<1> QED BY <1>1, <1>2, <1>3, <1>4, <1>5 DEF ApplyTx

\* Thawing turns a frozen entry into one that carries no amount; electing turns
\* one into Active.  Neither touches the stakes.
LEMMA EntriesOkElect ==
  ASSUME NEW ents \in [Address -> Entry], \A a \in Address : EntryOk(ents[a]),
         NEW current_era \in Nat, Elect(ents, current_era)
  PROVE  EntriesOk'
<1>1. PICK s \in RunElection(ents, current_era) : entries' = SetActive(ents, Members(s))
  BY DEF Elect
<1>2. ASSUME NEW a \in Address
      PROVE  EntryOk([ents[a] EXCEPT !.status = Active])
  BY DEF EntryOk, Active, Entry
<1> QED
  BY <1>1, <1>2 DEF SetActive, EntriesOk, EntryOk

LEMMA EntriesOkThaw ==
  ASSUME TypeOK, EntriesOk, NEW current_era \in Nat
  PROVE  \A a \in Address : EntryOk(ThawAll(current_era)[a])
BY DEF TypeOK, Entry, EntriesOk, EntryOk, ThawAll, ProcessThaw, Thawed, Registered

\* The invariants hold together in every reachable state.
LEMMA StakeInductive ==
  TypeOK /\ EntriesOk /\ [Next]_vars => EntriesOk'
<1> SUFFICES ASSUME TypeOK, EntriesOk, [Next]_vars PROVE EntriesOk'
  OBVIOUS
<1>1. ASSUME NEW tx \in Txs, ExecuteTx(tx) PROVE EntriesOk'
  <2>1. CASE ApplyTx(tx)
    BY <2>1, EntriesOkTx
  <2>2. CASE SkipTx(tx) \/ FailTx(tx)
    BY <2>2 DEF SkipTx, FailTx, EntriesOk, EntryOk
  <2> QED BY <1>1, <2>1, <2>2 DEF ExecuteTx
<1>2. CASE EndBlock \/ UNCHANGED vars
  BY <1>2 DEF EndBlock, vars, EntriesOk, EntryOk
<1>3. CASE EraBoundary
  <2>1. era + 1 \in Nat /\ Elect(ThawAll(era + 1), era + 1)
    BY <1>3 DEF TypeOK, EraBoundary
  <2> QED BY <2>1, ThawAllType, EntriesOkThaw, EntriesOkElect
<1>4. CASE OpenElection
  BY <1>4, EntriesOkElect DEF TypeOK, OpenElection, EntriesOk
<1>5. ASSUME NEW v \in Address, ProcessUnstakingCooldown(v) PROVE EntriesOk'
  <2>1. entries[v] \in Entry
    BY DEF TypeOK
  <2>2. EntryOk(Released(entries[v]))
    BY <2>1, ParameterAssumption DEF EntryOk, Released, Entry, Status, Registered, Staked
  <2> QED BY <1>5, <2>2, EntriesOkUpdate DEF ProcessUnstakingCooldown
<1>6. ASSUME NEW v \in Address, NEW r \in Reporters, ApplySlash(v, r) PROVE EntriesOk'
  <2> DEFINE new == [stake |-> entries[v].stake - Slashed(entries[v].stake),
                     status |-> Frozen(era + FREEZE_DURATION_ERAS)]
  <2>1. EntryOk(new)
    BY DEF EntryOk, Frozen
  <2>2. entries' = [entries EXCEPT ![v] = new]
    BY <1>6 DEF ApplySlash
  <2> HIDE DEF new
  <2> QED BY <2>1, <2>2, EntriesOkUpdate
<1> QED BY <1>1, <1>2, <1>3, <1>4, <1>5, <1>6 DEF Next

\* A pending withdrawal is always covered by the stake it is taken from, and a
\* Staked status never claims more than the entry holds.
THEOREM StakeSound == Spec => [](UnstakingCovered /\ StakedNeverAhead)
<1>1. Init => EntriesOk
  BY DEF Init, EntriesOk, EntryOk, Registered
<1>2. TypeOK /\ EntriesOk => UnstakingCovered /\ StakedNeverAhead
  BY DEF TypeOK, EntriesOk, EntryOk, UnstakingCovered, StakedNeverAhead
<1> QED
  BY <1>1, <1>2, TypeCorrect, StakeInductive, PTL DEF Spec

-----------------------------------------------------------------------------
(* Replay protection and the freeze, as properties of every step.          *)

\* What a step does to the nonces: none goes back, and an accepted transaction
\* takes its sender past its own nonce.
LEMMA NonceStep ==
  ASSUME TypeOK, Next
  PROVE  /\ \A a \in Address : accounts'[a].nonce >= accounts[a].nonce
         /\ \A tx \in Txs : ApplyTx(tx) => accounts'[tx.sender].nonce > tx.nonce
<1>0. \A a \in Address : accounts[a] \in Account /\ accounts[a].nonce \in Nat
  BY DEF TypeOK, Account
<1>1. ASSUME NEW tx \in Txs, ApplyTx(tx)
      PROVE  /\ \A a \in Address : accounts'[a].nonce >= accounts[a].nonce
             /\ accounts'[tx.sender].nonce > tx.nonce
  <2>1. tx.sender \in Address /\ tx.target \in Address /\ tx.nonce = accounts[tx.sender].nonce
    BY <1>1, TxType DEF ApplyTx, Accepts, Debits, SenderOk
  <2>2. PICK written \in [Address -> Account] :
          /\ Settle(tx, written)
          /\ \A a \in Address : written[a].nonce = accounts[a].nonce
    <3>1. CASE Transfer(tx)
      <4> DEFINE w == [accounts EXCEPT ![tx.target].balance = @ + tx.amount]
      <4>1. w \in [Address -> Account] /\ \A a \in Address : w[a].nonce = accounts[a].nonce
        <5>1. tx.amount \in Nat /\ accounts[tx.target] \in Account
          BY <2>1, TxType DEF TypeOK
        <5>2. [accounts[tx.target] EXCEPT !.balance = @ + tx.amount] \in Account
          BY <5>1 DEF Account
        <5>3. [accounts[tx.target] EXCEPT !.balance = @ + tx.amount].nonce = accounts[tx.target].nonce
          BY <5>1 DEF Account
        <5> QED BY <2>1, <5>2, <5>3 DEF TypeOK
      <4>2. Settle(tx, w)
        BY <3>1 DEF Transfer
      <4> QED BY <4>1, <4>2
    <3>2. CASE Settle(tx, accounts)
      BY <3>2 DEF TypeOK
    <3> QED
      BY <1>1, <3>1, <3>2
      DEF ApplyTx, RegisterValidator, RegisterAndStake, Stake, Unstake, Governance
  <2>3. accounts' = [written EXCEPT ![tx.sender] = Debited(tx)]
    BY <2>2 DEF Settle
  <2>4. Debited(tx).nonce = accounts[tx.sender].nonce + 1
    BY DEF Debited
  <2> QED BY <1>0, <2>1, <2>2, <2>3, <2>4
<1>2. ASSUME NEW tx \in Txs, SkipTx(tx) \/ FailTx(tx)
      PROVE  \A a \in Address : accounts'[a].nonce >= accounts[a].nonce
  <2>1. CASE UNCHANGED accounts
    BY <1>0, <2>1
  <2>2. CASE accounts' = [accounts EXCEPT ![tx.sender] =
                            [CopyAfterFailure(tx) EXCEPT !.balance = @ - tx.fee]]
    <3>1. /\ CopyAfterFailure(tx) \in Account
          /\ CopyAfterFailure(tx).nonce >= accounts[tx.sender].nonce
      BY <1>0, TxType, DebitedType DEF CopyAfterFailure, Debits, Debited, Account
    <3>2. [CopyAfterFailure(tx) EXCEPT !.balance = @ - tx.fee].nonce = CopyAfterFailure(tx).nonce
      BY <3>1 DEF Account
    <3> QED BY <1>0, <2>2, <3>1, <3>2, TxType DEF TypeOK
  <2> QED BY <1>2, <2>1, <2>2 DEF SkipTx, FailTx
<1>3. ASSUME EndBlock
      PROVE  \A a \in Address : accounts'[a].nonce >= accounts[a].nonce
  <2>1. CASE UNCHANGED accounts
    BY <1>0, <2>1
  <2>2. ASSUME NEW p, Credit(p)
        PROVE  \A a \in Address : accounts'[a].nonce >= accounts[a].nonce
    <3> SUFFICES ASSUME NEW a \in Address PROVE accounts'[a].nonce >= accounts[a].nonce
      OBVIOUS
    <3>1. accounts'[a] = [accounts[a] EXCEPT !.balance = @ + p[a]]
      BY <2>2 DEF Credit
    <3>2. [accounts[a] EXCEPT !.balance = @ + p[a]].nonce = accounts[a].nonce
      BY <1>0 DEF Account
    <3>3. accounts'[a].nonce = accounts[a].nonce
      BY <3>1, <3>2, Zenon
    <3> QED BY <1>0, <3>3
  <2> QED BY <1>3, <2>1, <2>2 DEF EndBlock, DistributeFees
<1>4. ASSUME EraBoundary \/ OpenElection \/ \E v \in Address : ProcessUnstakingCooldown(v)
      PROVE  \A a \in Address : accounts'[a].nonce >= accounts[a].nonce
  BY <1>0, <1>4 DEF EraBoundary, OpenElection, ProcessUnstakingCooldown
<1>5. ASSUME NEW v \in Address, NEW r \in Reporters, ApplySlash(v, r)
      PROVE  \A a \in Address : accounts'[a].nonce >= accounts[a].nonce
  <2> DEFINE burned == [accounts EXCEPT ![BurnAddress].balance =
                                          @ + BurnAmount(entries[v].stake)]
  <2>1. accounts' = [burned EXCEPT ![r].balance = @ + Bounty(entries[v].stake)]
    BY <1>5 DEF ApplySlash
  <2>2. /\ DOMAIN burned = Address
        /\ \A a \in Address : DOMAIN burned[a] = {"balance", "nonce"}
                              /\ burned[a].nonce = accounts[a].nonce
    BY <1>0 DEF TypeOK, Account
  <2> HIDE DEF burned
  <2>3. \A a \in Address : accounts'[a].nonce = burned[a].nonce
    BY <2>1, <2>2
  <2> QED BY <1>0, <2>2, <2>3
<1>6. \A a \in Address : accounts'[a].nonce >= accounts[a].nonce
  BY <1>1, <1>2, <1>3, <1>4, <1>5 DEF Next, ExecuteTx
<1> QED BY <1>1, <1>6

\* Replay protection.
THEOREM NoReplayHolds == Spec => NoReplay
<1>1. TypeOK /\ [Next]_vars =>
        [/\ \A a \in Address : accounts'[a].nonce >= accounts[a].nonce
         /\ \A tx \in Txs : ApplyTx(tx) => accounts'[tx.sender].nonce > tx.nonce]_vars
  BY NonceStep
<1> QED
  BY <1>1, TypeCorrect, PTL DEF Spec, NoReplay

\* What a step does to a frozen validator.
LEMMA FreezeStep ==
  ASSUME TypeOK, Next, NEW v \in validators, entries[v].status.kind = "Frozen"
  PROVE  entries'[v] = entries[v] \/ era' >= entries[v].status.era
<1>0. v \in Address /\ era \in Nat /\ entries[v] \in Entry /\ entries[v].status.era \in Nat
  BY DEF TypeOK, Entry, Status
<1>1. ASSUME NEW tx \in Txs, ExecuteTx(tx) PROVE entries'[v] = entries[v]
  <2>0. tx.sender \in Address /\ tx.target \in Address
    BY TxType
  <2>1. CASE SkipTx(tx) \/ FailTx(tx) \/ Transfer(tx) \/ Governance(tx)
    BY <2>1 DEF SkipTx, FailTx, Transfer, Governance
  <2>2. CASE ApplyTx(tx) /\ (RegisterValidator(tx) \/ RegisterAndStake(tx))
    <3>1. tx.sender # v
      BY <2>2 DEF ApplyTx, Accepts, Debits, BodyOk, CanRegister, RegisterValidator, RegisterAndStake
    <3> QED
      BY <1>0, <2>0, <2>2, <3>1 DEF RegisterValidator, RegisterAndStake, SetValidator, TypeOK
  <2>3. CASE ApplyTx(tx) /\ (Stake(tx) \/ Unstake(tx))
    <3>1. tx.target # v
      BY <2>3 DEF ApplyTx, Accepts, Debits, BodyOk, CanStake, CanUnstake, Stake, Unstake
    <3> QED
      BY <1>0, <2>0, <2>3, <3>1 DEF Stake, Unstake, SetValidator, TypeOK
  <2> QED BY <1>1, <2>1, <2>2, <2>3 DEF ExecuteTx, ApplyTx
<1>2. CASE EndBlock
  BY <1>2 DEF EndBlock
<1>3. ASSUME NEW ents \in [Address -> Entry], NEW current_era \in Nat,
             Elect(ents, current_era), ents[v] = entries[v]
      PROVE  entries'[v] = entries[v]
  <2>1. PICK s \in RunElection(ents, current_era) : entries' = SetActive(ents, Members(s))
    BY <1>3 DEF Elect
  <2>2. PICK n \in 0..MAX_VALIDATORS : s \in [1..n -> Electable(ents, current_era)]
    BY <2>1 DEF RunElection
  <2>3. v \notin Members(s)
    BY <1>3, <2>2 DEF Members, Electable
  <2> QED BY <1>0, <1>3, <2>1, <2>3 DEF SetActive
<1>4. CASE EraBoundary
  <2>1. era + 1 \in Nat /\ Elect(ThawAll(era + 1), era + 1) /\ era' = era + 1
    BY <1>4 DEF TypeOK, EraBoundary
  <2>2. CASE entries[v].status.era <= era + 1
    BY <1>0, <2>1, <2>2
  <2>3. CASE ~(entries[v].status.era <= era + 1)
    <3>1. ThawAll(era + 1)[v] = entries[v]
      BY <1>0, <2>3 DEF ThawAll, ProcessThaw
    <3> QED BY <1>3, <2>1, <3>1, ThawAllType
  <2> QED BY <2>2, <2>3
<1>5. CASE OpenElection
  BY <1>3, <1>5 DEF OpenElection, TypeOK
<1>6. ASSUME NEW u \in Address, ProcessUnstakingCooldown(u) PROVE entries'[v] = entries[v]
  BY <1>0, <1>6 DEF ProcessUnstakingCooldown, TypeOK
<1>7. ASSUME NEW u \in Address, NEW r \in Reporters, ApplySlash(u, r) PROVE entries'[v] = entries[v]
  BY <1>0, <1>7 DEF ApplySlash, TypeOK
<1> QED BY <1>1, <1>2, <1>4, <1>5, <1>6, <1>7 DEF Next

\* A slashed validator serves its freeze.
THEOREM FreezeIsServed == Spec => FreezeServed
<1>1. TypeOK /\ [Next]_vars =>
        [\A v \in validators :
           entries[v].status.kind = "Frozen" =>
             \/ entries'[v] = entries[v]
             \/ era' >= entries[v].status.era]_vars
  BY FreezeStep
<1> QED
  BY <1>1, TypeCorrect, PTL DEF Spec, FreezeServed

-----------------------------------------------------------------------------
(* No step creates value.                                                  *)

\* Balances and stakes of given accounts and entries.
BalancesOf(accts) == [a \in Address |-> accts[a].balance]
StakesOf(ents) == [a \in Address |-> ents[a].stake]

LEMMA BalancesType ==
  ASSUME NEW accts \in [Address -> Account]
  PROVE  BalancesOf(accts) \in [Address -> Nat] /\ Total(BalancesOf(accts), N) \in Nat
<1>1. BalancesOf(accts) \in [Address -> Nat]
  BY DEF BalancesOf, Account
<1> QED BY <1>1, TotalType, SizeAssumption DEF Address

LEMMA StakesType ==
  ASSUME NEW ents \in [Address -> Entry]
  PROVE  StakesOf(ents) \in [Address -> Nat] /\ Total(StakesOf(ents), N) \in Nat
<1>1. StakesOf(ents) \in [Address -> Nat]
  BY DEF StakesOf, Entry
<1> QED BY <1>1, TotalType, SizeAssumption DEF Address

\* Writing one account changes the sum of the balances by the difference.
LEMMA BalanceUpdate ==
  ASSUME NEW accts \in [Address -> Account], NEW a \in Address, NEW acct \in Account
  PROVE  Total(BalancesOf([accts EXCEPT ![a] = acct]), N) + accts[a].balance
           = Total(BalancesOf(accts), N) + acct.balance
<1> DEFINE f == BalancesOf(accts)
<1>1. f \in [Address -> Nat] /\ f[a] = accts[a].balance /\ acct.balance \in Nat
  BY BalancesType DEF BalancesOf, Account
<1>2. BalancesOf([accts EXCEPT ![a] = acct]) = [f EXCEPT ![a] = acct.balance]
  BY DEF BalancesOf
<1> HIDE DEF f
<1>3. Total([f EXCEPT ![a] = acct.balance], N) + f[a] = Total(f, N) + acct.balance
  BY <1>1, TotalUpdate, SizeAssumption DEF Address
<1> QED BY <1>1, <1>2, <1>3 DEF f

LEMMA StakeUpdate ==
  ASSUME NEW ents \in [Address -> Entry], NEW v \in Address, NEW e \in Entry
  PROVE  Total(StakesOf([ents EXCEPT ![v] = e]), N) + ents[v].stake
           = Total(StakesOf(ents), N) + e.stake
<1> DEFINE f == StakesOf(ents)
<1>1. f \in [Address -> Nat] /\ f[v] = ents[v].stake /\ e.stake \in Nat
  BY StakesType DEF StakesOf, Entry
<1>2. StakesOf([ents EXCEPT ![v] = e]) = [f EXCEPT ![v] = e.stake]
  BY DEF StakesOf
<1> HIDE DEF f
<1>3. Total([f EXCEPT ![v] = e.stake], N) + f[v] = Total(f, N) + e.stake
  BY <1>1, TotalUpdate, SizeAssumption DEF Address
<1> QED BY <1>1, <1>2, <1>3 DEF f

\* Some address comes first in the order of distribute_fees' sort.
LEMMA TopValidatorExists ==
  ASSUME NEW w \in [Address -> Nat]
  PROVE  TopValidator(w) \in Address
<1> DEFINE Top(a, m) == \A b \in 0..m : w[a] > w[b] \/ (w[a] = w[b] /\ a <= b)
           Bad == {m \in 0..(N - 1) : ~ \E a \in 0..m : Top(a, m)}
<1>1. Bad = {}
  <2> SUFFICES ASSUME Bad # {} PROVE FALSE
    OBVIOUS
  <2>1. PICK x \in Bad : \A y \in Bad : x <= y
    <3> Bad \in SUBSET Nat
      BY SizeAssumption
    <3> QED BY LeastNatural
  <2>2. x \in 0..(N - 1) /\ ~ \E a \in 0..x : Top(a, x)
    OBVIOUS
  <2>3. x # 0
    <3>1. \A b \in 0..0 : b = 0
      OBVIOUS
    <3>2. Top(0, 0)
      BY <3>1, SizeAssumption DEF Address
    <3> QED BY <2>2, <3>2
  <2>4. x - 1 \in 0..(N - 1) /\ x - 1 \notin Bad
    <3>1. x - 1 \in 0..(N - 1) /\ ~(x <= x - 1)
      BY <2>2, <2>3, SizeAssumption
    <3> HIDE DEF Bad
    <3> QED BY <2>1, <3>1
  <2>5. PICK a \in 0..(x - 1) : Top(a, x - 1)
    <3> HIDE DEF Top
    <3> QED BY <2>4
  <2>6. /\ a \in 0..x /\ a \in Address /\ x \in Address /\ x \in 0..x
        /\ w[a] \in Nat /\ w[x] \in Nat
    BY <2>2, <2>4, SizeAssumption DEF Address
  <2> HIDE DEF Bad
  <2>7. CASE w[a] >= w[x]
    <3>1. Top(a, x)
      <4> SUFFICES ASSUME NEW b \in 0..x PROVE w[a] > w[b] \/ (w[a] = w[b] /\ a <= b)
        OBVIOUS
      <4>1. CASE b = x
        <5>1. a <= x
          BY <2>2, <2>6
        <5> QED BY <2>6, <2>7, <4>1, <5>1
      <4>2. CASE b # x
        <5>1. b \in 0..(x - 1)
          BY <2>2, <4>2, SizeAssumption
        <5> QED BY <2>5, <5>1
      <4> QED BY <4>1, <4>2
    <3> QED BY <2>2, <2>6, <3>1
  <2>8. CASE w[x] > w[a]
    <3>1. Top(x, x)
      <4> SUFFICES ASSUME NEW b \in 0..x PROVE w[x] > w[b] \/ (w[x] = w[b] /\ x <= b)
        OBVIOUS
      <4>1. CASE b = x
        BY <2>6, <4>1
      <4>2. CASE b # x
        <5>1. b \in 0..(x - 1) /\ w[b] \in Nat
          <6>1. x \in Nat /\ x <= N - 1 /\ b \in 0..(x - 1)
            BY <2>2, <4>2, SizeAssumption
          <6>2. b \in 0..(N - 1)
            BY <6>1, SizeAssumption
          <6> QED BY <6>1, <6>2 DEF Address
        <5>2. w[a] >= w[b]
          BY <2>5, <2>6, <5>1
        <5> QED BY <2>6, <2>8, <5>1, <5>2
      <4> QED BY <4>1, <4>2
    <3> QED BY <2>2, <2>6, <3>1
  <2> QED BY <2>6, <2>7, <2>8
<1>2. N - 1 \in 0..(N - 1) /\ N - 1 \notin Bad
  <2> HIDE DEF Bad
  <2> QED BY <1>1, SizeAssumption
<1>3. \E a \in 0..(N - 1) : Top(a, N - 1)
  <2> HIDE DEF Top
  <2> QED BY <1>2
<1> QED
  BY <1>3 DEF TopValidator, Address

\* A distribution pays out exactly the fees.
LEMMA PayoutTotal ==
  ASSUME NEW w \in [Address -> Nat], NEW fees \in Nat, Total(w, N) > 0
  PROVE  Total(Payout(w, fees), N) = fees
<1> DEFINE share == [a \in Address |-> (fees * w[a]) \div Total(w, N)]
           first == TopValidator(w)
           rest == fees - Total(share, N)
<1>1. share \in [Address -> Nat] /\ Total(share, N) <= fees
  BY SharesBounded, SizeAssumption DEF Address
<1>2. Total(share, N) \in Nat
  BY <1>1, TotalType, SizeAssumption DEF Address
<1>3. first \in Address
  BY TopValidatorExists
<1>4. Payout(w, fees) = [a \in Address |-> share[a] + (IF a = first THEN rest ELSE 0)]
  BY DEF Payout
<1> HIDE DEF share, first
<1>5. rest \in Nat
  BY <1>1, <1>2
<1>6. Payout(w, fees) = [share EXCEPT ![first] = share[first] + rest]
  <2> HIDE DEF rest
  <2>1. \A a \in Address : share[a] + (IF a = first THEN rest ELSE 0)
                              = IF a = first THEN share[first] + rest ELSE share[a]
    BY <1>1, <1>3, <1>5
  <2>2. Payout(w, fees) = [a \in Address |-> IF a = first THEN share[first] + rest ELSE share[a]]
    BY <1>4, <2>1
  <2> QED BY <1>1, <1>3, <2>2
<1>7. share[first] \in Nat /\ share[first] + rest \in Nat
  BY <1>1, <1>3, <1>5
<1>8. Total([share EXCEPT ![first] = share[first] + rest], N) + share[first]
        = Total(share, N) + (share[first] + rest)
  <2> HIDE DEF rest
  <2> QED BY <1>1, <1>3, <1>7, TotalUpdate, SizeAssumption DEF Address
<1>9. Total(Payout(w, fees), N) \in Nat
  BY PayoutType, TotalType, SizeAssumption DEF Address
<1> QED
  BY <1>2, <1>6, <1>7, <1>8, <1>9

\* Supply in terms of the accounts and entries it adds up.
LEMMA SupplyUnfold ==
  /\ Supply = Total(BalancesOf(accounts), N) + Total(StakesOf(entries), N) + block_fees
  /\ Supply' = Total(BalancesOf(accounts'), N) + Total(StakesOf(entries'), N) + block_fees'
BY DEF Supply, Balances, Stakes, BalancesOf, StakesOf

\* The counter grows by at most the fee, whether it saturates, wraps or neither.
LEMMA AddFeeBound ==
  ASSUME TypeOK, NEW fee \in Nat
  PROVE  AddFee(fee) \in Nat /\ AddFee(fee) <= block_fees + fee
<1> DEFINE x == block_fees + FeeAsU128(fee)
           m == U128_MAX + 1
<1>1. m \in Nat \ {0}
  BY ParameterAssumption
<1>2. x \in Nat /\ x <= block_fees + fee
  BY ParameterAssumption DEF TypeOK, FeeAsU128
<1> HIDE DEF x, m
<1>3. x % m \in Nat /\ x % m <= x
  BY <1>1, <1>2
<1>4. block_fees + fee \in Nat
  BY DEF TypeOK
<1>5. AddFee(fee) = x % m
  BY DEF AddFee, x, m
<1> QED BY <1>2, <1>3, <1>4, <1>5

\* Writing the debited sender over accounts that agree with the old ones on the
\* sender, or hold more for it, takes at least Debit(tx) out of the balances.
LEMMA SettleBound ==
  ASSUME TypeOK, NEW tx \in Txs, SenderOk(tx),
         NEW written \in [Address -> Account], Settle(tx, written),
         written[tx.sender].balance >= accounts[tx.sender].balance
  PROVE  /\ accounts' \in [Address -> Account]
         /\ Total(BalancesOf(accounts'), N) + Debit(tx) <= Total(BalancesOf(written), N)
         /\ block_fees' \in Nat /\ block_fees' <= block_fees + tx.fee
<1> DEFINE T == Total(BalancesOf(written), N)
           T1 == Total(BalancesOf(accounts'), N)
           b == accounts[tx.sender].balance
           c == written[tx.sender].balance
           d == Debit(tx)
<1>1. tx.sender \in Address /\ d \in Nat /\ tx.fee \in Nat /\ Debited(tx) \in Account
  BY TxType, DebitedType
<1>2. accounts' = [written EXCEPT ![tx.sender] = Debited(tx)]
  BY DEF Settle
<1>3. accounts' \in [Address -> Account]
  BY <1>1, <1>2
<1>4. T \in Nat /\ T1 \in Nat
  BY <1>3, BalancesType
<1>5. b \in Nat /\ c \in Nat /\ c >= b /\ b >= d
  BY <1>1 DEF TypeOK, Account, SenderOk
<1>6. Debited(tx).balance = b - d
  BY DEF Debited
<1>7. T1 + c = T + (b - d)
  <2>1. T1 + c = T + Debited(tx).balance
    BY <1>1, <1>2, BalanceUpdate
  <2> QED BY <1>6, <2>1
<1>8. block_fees' \in Nat /\ block_fees' <= block_fees + tx.fee
  BY <1>1, AddFeeBound DEF Settle
<1> HIDE DEF T, T1, b, c, d
<1>9. T1 + d <= T
  <2>1. \A u, t, x, y, z \in Nat : u + x = t + (y - z) /\ x >= y => u + z <= t
    OBVIOUS
  <2> QED BY <1>1, <1>4, <1>5, <1>7, <2>1
<1> QED
  BY <1>3, <1>8, <1>9 DEF T, T1, d

\* The bookkeeping of an accepted transaction: the debit d covers what the stakes
\* gain and what the fee counter gains.
LEMMA DebitCovers ==
  ASSUME NEW b \in Nat, NEW b1 \in Nat, NEW s \in Nat, NEW s1 \in Nat,
         NEW f \in Nat, NEW f1 \in Nat, NEW d \in Nat, NEW gain \in Nat, NEW fee \in Nat,
         b1 + d <= b, s1 <= s + gain, f1 <= f + fee, gain + fee <= d
  PROVE  b1 + s1 + f1 <= b + s + f
OBVIOUS

\* An accepted transaction.
LEMMA SupplyApplyTx ==
  ASSUME TypeOK, NEW tx \in Txs, ApplyTx(tx)
  PROVE  Supply' <= Supply
<1> DEFINE B == Total(BalancesOf(accounts), N)
           B1 == Total(BalancesOf(accounts'), N)
           S == Total(StakesOf(entries), N)
           S1 == Total(StakesOf(entries'), N)
<1>0. /\ tx.sender \in Address /\ tx.target \in Address
      /\ tx.fee \in Nat /\ tx.amount \in Nat /\ Debit(tx) \in Nat
      /\ SenderOk(tx) /\ block_fees \in Nat
      /\ accounts \in [Address -> Account] /\ entries \in [Address -> Entry]
  BY TxType DEF ApplyTx, Accepts, Debits, TypeOK
<1>1. TypeOK'
  BY ExecuteTxType DEF ExecuteTx
<1>2. B \in Nat /\ B1 \in Nat /\ S \in Nat /\ S1 \in Nat /\ block_fees' \in Nat
  BY <1>0, <1>1, BalancesType, StakesType DEF TypeOK
<1>3. SUFFICES B1 + S1 + block_fees' <= B + S + block_fees
  BY SupplyUnfold
<1>4. ASSUME Settle(tx, accounts)
      PROVE  B1 + Debit(tx) <= B /\ block_fees' <= block_fees + tx.fee
  <2>1. accounts[tx.sender].balance >= accounts[tx.sender].balance
    BY <1>0 DEF Account
  <2> QED BY <1>0, <1>4, <2>1, SettleBound
<1>5. CASE Transfer(tx)
  <2> DEFINE new == [accounts[tx.target] EXCEPT !.balance = @ + tx.amount]
             w == [accounts EXCEPT ![tx.target] = new]
  <2>1. /\ accounts[tx.target].balance \in Nat /\ new \in Account
        /\ new.balance = accounts[tx.target].balance + tx.amount
    BY <1>0 DEF Account
  <2>2. w \in [Address -> Account] /\ Settle(tx, w)
    BY <1>0, <1>5, <2>1 DEF Transfer
  <2>3. Total(BalancesOf(w), N) + accounts[tx.target].balance = B + new.balance
    <3> HIDE DEF new
    <3> QED BY <1>0, <2>1, BalanceUpdate
  <2>4. Total(BalancesOf(w), N) \in Nat
    BY <2>2, BalancesType
  <2>5. Total(BalancesOf(w), N) = B + tx.amount
    <3> HIDE DEF new, w, B
    <3> QED BY <1>0, <1>2, <2>1, <2>3, <2>4
  <2>6. w[tx.sender].balance >= accounts[tx.sender].balance
    <3>1. CASE tx.sender = tx.target
      BY <1>0, <2>1, <3>1
    <3>2. CASE tx.sender # tx.target
      BY <1>0, <3>2 DEF Account
    <3> QED BY <3>1, <3>2
  <2>7. B1 + Debit(tx) <= Total(BalancesOf(w), N) /\ block_fees' <= block_fees + tx.fee
    <3> HIDE DEF w
    <3> QED BY <1>0, <2>2, <2>6, SettleBound
  <2>8. Debit(tx) = tx.fee + tx.amount
    BY <1>0, <1>5 DEF Transfer, Debit
  <2>9. S1 = S
    BY <1>5 DEF Transfer
  <2> HIDE DEF B, B1, S, S1, w
  <2> QED BY <1>0, <1>2, <2>5, <2>7, <2>8, <2>9
<1>6. CASE RegisterValidator(tx) \/ RegisterAndStake(tx) \/ Stake(tx) \/ Unstake(tx)
  <2> DEFINE gain == IF tx.kind \in {"RegisterAndStake", "Stake"} THEN tx.amount ELSE 0
  <2>1. PICK v \in Address, e \in Entry :
          /\ entries' = [entries EXCEPT ![v] = e]
          /\ e.stake <= entries[v].stake + gain
    <3>1. CASE RegisterValidator(tx)
      <4>1. [stake |-> 0, status |-> Registered] \in Entry
        BY DEF Entry, Status, Kinds, Registered
      <4>2. entries[tx.sender].stake \in Nat /\ gain \in Nat
        BY <1>0 DEF Entry
      <4>3. 0 <= entries[tx.sender].stake + gain
        <5> HIDE DEF gain
        <5> QED BY <4>2
      <4> QED BY <1>0, <3>1, <4>1, <4>3 DEF RegisterValidator, SetValidator
    <3>2. CASE RegisterAndStake(tx)
      <4>1. [stake |-> tx.amount, status |-> Staked(tx.amount)] \in Entry
        BY <1>0 DEF Entry, Status, Kinds, Staked
      <4>2. entries[tx.sender].stake \in Nat /\ gain = tx.amount
        BY <1>0, <3>2 DEF Entry, RegisterAndStake
      <4>3. tx.amount <= entries[tx.sender].stake + gain
        BY <1>0, <4>2
      <4> QED BY <1>0, <3>2, <4>1, <4>3 DEF RegisterAndStake, SetValidator
    <3>3. CASE Stake(tx)
      <4> DEFINE e == entries[tx.target]
                 new == [stake |-> e.stake + tx.amount,
                         status |-> IF e.status = Registered THEN Staked(e.stake + tx.amount)
                                                             ELSE e.status]
      <4>1. e \in Entry /\ gain = tx.amount
        BY <1>0, <3>3 DEF Stake
      <4>2. new \in Entry /\ new.stake <= e.stake + gain
        BY <1>0, <4>1 DEF Entry, Status, Kinds, Staked
      <4>3. entries' = [entries EXCEPT ![tx.target] = new]
        BY <3>3 DEF Stake, SetValidator
      <4> HIDE DEF new
      <4> QED BY <1>0, <4>2, <4>3
    <3>4. CASE Unstake(tx)
      <4> DEFINE e == entries[tx.target]
      <4>1. PICK st \in Status : entries' = [entries EXCEPT ![tx.target] = [e EXCEPT !.status = st]]
        <5>1. e \in Entry
          BY <1>0
        <5>2. entries'[tx.target] \in Entry
          BY <1>0, <1>1 DEF TypeOK
        <5>3. PICK st : entries' = [entries EXCEPT ![tx.target] = [e EXCEPT !.status = st]]
          BY <3>4 DEF Unstake, SetValidator
        <5>4. entries'[tx.target] = [e EXCEPT !.status = st]
          BY <1>0, <5>3
        <5>5. st \in Status
          BY <5>1, <5>2, <5>4 DEF Entry
        <5> QED BY <5>3, <5>5
      <4>2. [e EXCEPT !.status = st] \in Entry /\ [e EXCEPT !.status = st].stake = e.stake
        BY <1>0 DEF Entry
      <4>3. e.stake <= e.stake + gain
        BY <1>0 DEF Entry
      <4> QED BY <1>0, <4>1, <4>2, <4>3
    <3> QED BY <1>6, <3>1, <3>2, <3>3, <3>4
  <2>2. S1 + entries[v].stake = S + e.stake
    BY <1>0, <2>1, StakeUpdate
  <2>3. entries[v].stake \in Nat /\ e.stake \in Nat /\ gain \in Nat
    BY <1>0 DEF Entry
  <2>4. S1 <= S + gain
    <3> HIDE DEF S, S1, gain
    <3> QED BY <1>2, <2>1, <2>2, <2>3
  <2>5. B1 + Debit(tx) <= B /\ block_fees' <= block_fees + tx.fee
    BY <1>4, <1>6 DEF RegisterValidator, RegisterAndStake, Stake, Unstake
  <2>6. gain + tx.fee <= Debit(tx)
    BY <1>0, ParameterAssumption DEF Debit
  <2> HIDE DEF B, B1, S, S1, gain
  <2> QED BY <1>0, <1>2, <2>3, <2>4, <2>5, <2>6, DebitCovers
<1>7. CASE Governance(tx)
  <2>1. B1 + Debit(tx) <= B /\ block_fees' <= block_fees + tx.fee
    BY <1>4, <1>7 DEF Governance
  <2>2. Debit(tx) = tx.fee /\ S1 = S
    BY <1>0, <1>7 DEF Governance, Debit
  <2> HIDE DEF B, B1, S, S1
  <2>3. S1 <= S + 0 /\ 0 + tx.fee <= Debit(tx) /\ 0 \in Nat
    BY <1>0, <1>2, <2>2
  <2> QED BY <1>0, <1>2, <2>1, <2>3, DebitCovers
<1> QED BY <1>5, <1>6, <1>7 DEF ApplyTx

\* A failed transaction: the fee is taken once more out of what the handler left.
LEMMA SupplyFailTx ==
  ASSUME TypeOK, NEW tx \in Txs, FailTx(tx)
  PROVE  Supply' <= Supply
<1> DEFINE B == Total(BalancesOf(accounts), N)
           B1 == Total(BalancesOf(accounts'), N)
           S == Total(StakesOf(entries), N)
           copy == CopyAfterFailure(tx)
           old == accounts[tx.sender].balance
           c == copy.balance
<1>0. /\ tx.sender \in Address /\ tx.fee \in Nat /\ block_fees \in Nat
      /\ accounts \in [Address -> Account] /\ entries \in [Address -> Entry]
      /\ UNCHANGED entries
  BY TxType DEF TypeOK, FailTx
<1>1. TypeOK'
  BY FailTxType
<1>2. B \in Nat /\ B1 \in Nat /\ S \in Nat /\ block_fees' \in Nat
  BY <1>0, <1>1, BalancesType, StakesType DEF TypeOK
<1>3. Supply = B + S + block_fees /\ Supply' = B1 + S + block_fees'
  BY <1>0, SupplyUnfold
<1>4. CASE UNCHANGED <<accounts, block_fees>>
  <2>1. B1 = B /\ block_fees' = block_fees
    BY <1>4
  <2> HIDE DEF B, B1, S
  <2> QED BY <1>0, <1>2, <1>3, <2>1
<1>5. CASE /\ c >= tx.fee
           /\ accounts' = [accounts EXCEPT ![tx.sender] = [copy EXCEPT !.balance = @ - tx.fee]]
           /\ block_fees' = AddFee(tx.fee)
  <2>1. copy \in Account /\ c \in Nat /\ old \in Nat /\ c <= old
    BY <1>0, TxType, DebitedType DEF CopyAfterFailure, Debits, SenderOk, Debited, Account
  <2> DEFINE new == [copy EXCEPT !.balance = @ - tx.fee]
  <2>2. new \in Account /\ new.balance = c - tx.fee
    <3> HIDE DEF copy
    <3> QED BY <1>0, <1>5, <2>1 DEF Account
  <2>3. accounts' = [accounts EXCEPT ![tx.sender] = new]
    BY <1>5
  <2> HIDE DEF new
  <2>4. B1 + old = B + new.balance
    BY <1>0, <2>2, <2>3, BalanceUpdate
  <2>5. block_fees' <= block_fees + tx.fee
    BY <1>0, <1>5, AddFeeBound
  <2>6. B1 + tx.fee <= B
    <3>1. \A u, t, x, y, z \in Nat : u + x = t + (y - z) /\ y <= x => u + z <= t
      OBVIOUS
    <3> HIDE DEF B, B1, old, c
    <3> QED BY <1>0, <1>2, <2>1, <2>2, <2>4, <3>1
  <2> HIDE DEF B, B1, S
  <2>7. S <= S + 0 /\ 0 + tx.fee <= tx.fee /\ 0 \in Nat
    BY <1>0, <1>2
  <2> QED BY <1>0, <1>2, <1>3, <2>5, <2>6, <2>7, DebitCovers
<1> QED BY <1>4, <1>5 DEF FailTx

\* The end of a block: all the fees are credited, or they are dropped.
LEMMA SupplyEndBlock ==
  ASSUME TypeOK, EndBlock
  PROVE  /\ Supply' <= Supply
         /\ Total(Weight, N) > 0 => Supply' = Supply
<1> DEFINE B == Total(BalancesOf(accounts), N)
           B1 == Total(BalancesOf(accounts'), N)
           S == Total(StakesOf(entries), N)
<1>0. /\ block_fees \in Nat /\ block_fees' = 0 /\ UNCHANGED entries
      /\ accounts \in [Address -> Account] /\ entries \in [Address -> Entry]
  BY DEF TypeOK, EndBlock
<1>1. B \in Nat /\ S \in Nat
  BY <1>0, BalancesType, StakesType
<1>2. Supply = B + S + block_fees /\ Supply' = B1 + S + 0
  BY <1>0, SupplyUnfold
<1>3. CASE block_fees > 0 /\ Total(Weight, N) > 0
  <2> DEFINE payout == Payout(Weight, block_fees)
             f == BalancesOf(accounts)
  <2>1. payout \in [Address -> Nat] /\ Total(payout, N) = block_fees
    BY <1>0, <1>3, WeightType, PayoutType, PayoutTotal
  <2>2. Credit(payout)
    BY <1>3 DEF EndBlock, DistributeFees
  <2> HIDE DEF payout
  <2>3. f \in [Address -> Nat]
    BY <1>0, BalancesType
  <2>4. BalancesOf(accounts') = [a \in Address |-> f[a] + payout[a]]
    <3> SUFFICES ASSUME NEW a \in Address
                 PROVE  accounts'[a].balance = accounts[a].balance + payout[a]
      BY DEF BalancesOf
    <3>1. accounts'[a] = [accounts[a] EXCEPT !.balance = @ + payout[a]]
      BY <2>2 DEF Credit
    <3> QED BY <1>0, <3>1 DEF Account
  <2> HIDE DEF f
  <2>5. Total([a \in Address |-> f[a] + payout[a]], N) = Total(f, N) + Total(payout, N)
    BY <2>1, <2>3, TotalAdd, SizeAssumption DEF Address
  <2>6. B1 = B + block_fees
    BY <2>1, <2>4, <2>5 DEF f
  <2> HIDE DEF B, B1, S
  <2> QED BY <1>0, <1>1, <1>2, <2>6
<1>4. CASE ~(block_fees > 0 /\ Total(Weight, N) > 0)
  <2>1. B1 = B
    BY <1>4 DEF EndBlock, DistributeFees
  <2> HIDE DEF B, B1, S
  <2>2. Supply' <= Supply /\ (block_fees = 0 => Supply' = Supply)
    BY <1>0, <1>1, <1>2, <2>1
  <2>3. Total(Weight, N) > 0 => block_fees = 0
    BY <1>0, <1>4
  <2> QED BY <2>2, <2>3
<1> QED BY <1>3, <1>4

\* An election moves no stake.
LEMMA ElectKeepsStakes ==
  ASSUME NEW ents \in [Address -> Entry], NEW current_era, Elect(ents, current_era)
  PROVE  StakesOf(entries') = StakesOf(ents)
<1>1. PICK s : entries' = SetActive(ents, Members(s))
  BY DEF Elect
<1>2. \A a \in Address : [ents[a] EXCEPT !.status = Active].stake = ents[a].stake
  BY DEF Entry
<1> QED BY <1>1, <1>2 DEF SetActive, StakesOf

\* A step with the same accounts and fees and no larger stakes.
LEMMA SupplyFromStakes ==
  ASSUME TypeOK, UNCHANGED <<accounts, block_fees>>,
         Total(StakesOf(entries'), N) \in Nat,
         Total(StakesOf(entries'), N) <= Total(StakesOf(entries), N)
  PROVE  Supply' <= Supply
<1> DEFINE B == Total(BalancesOf(accounts), N)
           S == Total(StakesOf(entries), N)
           S1 == Total(StakesOf(entries'), N)
<1>1. B \in Nat /\ S \in Nat /\ S1 \in Nat /\ block_fees \in Nat /\ S1 <= S
  BY BalancesType, StakesType DEF TypeOK
<1>2. Supply = B + S + block_fees /\ Supply' = B + S1 + block_fees
  BY SupplyUnfold
<1> HIDE DEF B, S, S1
<1> QED BY <1>1, <1>2

LEMMA SupplyElections ==
  ASSUME TypeOK, EraBoundary \/ OpenElection
  PROVE  Supply' <= Supply
<1>1. StakesOf(entries') = StakesOf(entries) /\ UNCHANGED <<accounts, block_fees>>
  <2>1. CASE EraBoundary
    <3>1. era + 1 \in Nat
      BY DEF TypeOK
    <3>2. StakesOf(entries') = StakesOf(ThawAll(era + 1))
      BY <2>1, <3>1, ThawAllType, ElectKeepsStakes DEF EraBoundary
    <3>3. StakesOf(ThawAll(era + 1)) = StakesOf(entries)
      BY DEF TypeOK, ThawAll, ProcessThaw, StakesOf, Entry
    <3> QED BY <2>1, <3>2, <3>3 DEF EraBoundary
  <2>2. CASE OpenElection
    BY <2>2, ElectKeepsStakes DEF TypeOK, OpenElection
  <2> QED BY <2>1, <2>2
<1>2. Total(StakesOf(entries), N) \in Nat
  BY StakesType DEF TypeOK
<1> QED BY <1>1, <1>2, SupplyFromStakes

LEMMA SupplyCooldown ==
  ASSUME TypeOK, NEW v \in Address, ProcessUnstakingCooldown(v)
  PROVE  Supply' <= Supply
<1> DEFINE e == entries[v]
           S == Total(StakesOf(entries), N)
           S1 == Total(StakesOf(entries'), N)
<1>1. e \in Entry /\ entries \in [Address -> Entry] /\ TypeOK'
  BY CooldownType DEF TypeOK
<1>2. Released(e) \in Entry /\ Released(e).stake <= e.stake
  <2> HIDE DEF e
  <2> QED BY <1>1 DEF Released, Entry, Status, Kinds, Registered, Staked
<1>3. S1 + e.stake = S + Released(e).stake
  BY <1>1, <1>2, StakeUpdate DEF ProcessUnstakingCooldown
<1>4. S \in Nat /\ S1 \in Nat /\ e.stake \in Nat /\ Released(e).stake \in Nat
  BY <1>1, <1>2, StakesType DEF Entry, TypeOK
<1>5. S1 <= S
  <2> HIDE DEF S, S1, e
  <2> QED BY <1>2, <1>3, <1>4
<1> QED BY <1>4, <1>5, SupplyFromStakes DEF ProcessUnstakingCooldown

LEMMA SupplySlash ==
  ASSUME TypeOK, NEW v \in Address, NEW r \in Reporters, ApplySlash(v, r)
  PROVE  Supply' <= Supply
<1> DEFINE k == entries[v].stake
           B == Total(BalancesOf(accounts), N)
           B1 == Total(BalancesOf(accounts'), N)
           S == Total(StakesOf(entries), N)
           S1 == Total(StakesOf(entries'), N)
           acct0 == [accounts[BurnAddress] EXCEPT !.balance = @ + BurnAmount(k)]
           burned == [accounts EXCEPT ![BurnAddress] = acct0]
           acct1 == [burned[r] EXCEPT !.balance = @ + Bounty(k)]
           new == [stake |-> k - Slashed(k), status |-> Frozen(era + FREEZE_DURATION_ERAS)]
           x == BurnAmount(k)
           y == Bounty(k)
           z == Slashed(k)
<1>0. /\ r \in Address /\ BurnAddress \in Address /\ block_fees \in Nat /\ era \in Nat
      /\ accounts \in [Address -> Account] /\ entries \in [Address -> Entry] /\ k \in Nat
  BY ParameterAssumption, SizeAssumption DEF TypeOK, Entry, Address, BurnAddress
<1>1. x \in Nat /\ y \in Nat /\ z \in Nat /\ z <= k /\ x + y <= z
  <2> HIDE DEF k
  <2> QED BY <1>0, SlashBound
<1>2. /\ accounts' = [burned EXCEPT ![r] = acct1]
      /\ entries' = [entries EXCEPT ![v] = new] /\ block_fees' = block_fees
  BY DEF ApplySlash
<1> HIDE DEF k, x, y, z
<1>3. /\ acct0 \in Account /\ accounts[BurnAddress].balance \in Nat
      /\ acct0.balance = accounts[BurnAddress].balance + x
  BY <1>0, <1>1 DEF Account, x
<1>4. burned \in [Address -> Account]
  <2> HIDE DEF acct0
  <2> QED BY <1>0, <1>3
<1> HIDE DEF acct0, burned
<1>5. acct1 \in Account /\ burned[r].balance \in Nat /\ acct1.balance = burned[r].balance + y
  BY <1>0, <1>1, <1>4 DEF Account, y
<1>6. new \in Entry /\ new.stake = k - z
  BY <1>0, <1>1, ParameterAssumption DEF Entry, Status, Kinds, Frozen, z
<1> HIDE DEF acct1, new
<1> DEFINE M == Total(BalancesOf(burned), N)
<1>7. M + accounts[BurnAddress].balance = B + acct0.balance
  BY <1>0, <1>3, BalanceUpdate DEF burned
<1>8. B1 + burned[r].balance = M + acct1.balance
  BY <1>0, <1>2, <1>4, <1>5, BalanceUpdate
<1>9. S1 + k = S + new.stake
  BY <1>0, <1>2, <1>6, StakeUpdate DEF k
<1>10. B \in Nat /\ M \in Nat /\ B1 \in Nat /\ S \in Nat /\ S1 \in Nat
  <2>1. accounts' \in [Address -> Account] /\ entries' \in [Address -> Entry]
    BY <1>0, <1>2, <1>4, <1>5, <1>6
  <2> QED BY <1>0, <1>4, <2>1, BalancesType, StakesType
<1>11. Supply = B + S + block_fees /\ Supply' = B1 + S1 + block_fees
  BY <1>2, SupplyUnfold
<1> HIDE DEF B, B1, M, S, S1
<1>12. M = B + x
  BY <1>1, <1>3, <1>7, <1>10
<1>13. B1 = M + y
  BY <1>1, <1>5, <1>8, <1>10
<1>14. S1 + z = S
  BY <1>0, <1>1, <1>6, <1>9, <1>10
<1> QED BY <1>0, <1>1, <1>10, <1>11, <1>12, <1>13, <1>14

\* No step of the ledger creates value, and distribution loses none.
LEMMA SupplyStep ==
  ASSUME TypeOK, Next
  PROVE  /\ Supply' <= Supply
         /\ EndBlock /\ Total(Weight, N) > 0 => Supply' = Supply
<1>1. ASSUME NEW tx \in Txs, SkipTx(tx) PROVE Supply' <= Supply
  <2>1. Supply' = Supply
    BY <1>1 DEF SkipTx, Supply, Balances, Stakes
  <2>2. Supply \in Nat
    BY SupplyUnfold, BalancesType, StakesType DEF TypeOK
  <2> QED BY <2>1, <2>2
<1>2. Supply' <= Supply
  BY <1>1, SupplyApplyTx, SupplyFailTx, SupplyEndBlock, SupplyElections, SupplyCooldown,
     SupplySlash DEF Next, ExecuteTx
<1> QED BY <1>2, SupplyEndBlock

\* Whatever blocks are applied, slashes reported and elections held, the value in
\* balances, stakes and collected fees together never grows.
THEOREM SupplyNeverGrowsHolds == Spec => SupplyNeverGrows
<1>1. TypeOK /\ [Next]_vars => [Supply' <= Supply]_vars
  BY SupplyStep
<1> QED
  BY <1>1, TypeCorrect, PTL DEF Spec, SupplyNeverGrows

\* A block's fees reach the active validators to the last unit.
THEOREM FeesPaidInFullHolds == Spec => FeesPaidInFull
<1>1. TypeOK /\ [Next]_vars => [EndBlock /\ Total(Weight, N) > 0 => Supply' = Supply]_vars
  BY SupplyStep
<1> QED
  BY <1>1, TypeCorrect, PTL DEF Spec, FeesPaidInFull

\* A Staked status never claims more than the entry holds (apply_stake, apply_unstake,
\* apply_slash, process_unstaking_cooldown): the other half of StakeSound.
THEOREM StakedNeverAheadHolds == Spec => []StakedNeverAhead
BY StakeSound, PTL
=============================================================================
