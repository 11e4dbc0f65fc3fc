---------------------------- MODULE StateMachine ----------------------------
(***************************************************************************)
(* The ledger of core/state.rs: accounts, validator entries and the active *)
(* set, changed by apply_block, by the era-boundary hooks of the consensus *)
(* loop and by apply_slash.                                                *)
(*                                                                         *)
(* Simplifications.                                                        *)
(*  - The sparse Merkle tree is its contents: `known` and `accounts` stand *)
(*    for the 0x00 namespace, `validators` and `entries` for the 0x01 one. *)
(*    An absent account reads as Account::new(0), as in unwrap_or_else.    *)
(*  - Signatures, public keys and code hashes carry no control.            *)
(*    registration_era is 0 in every entry the code creates, so the        *)
(*    election's second sort key never decides.                            *)
(*  - apply_block holds `&mut self` for a whole block.  Its loop body is   *)
(*    the action ExecuteTx, its tail the action EndBlock, and `in_block`   *)
(*    keeps every other operation out in between.                          *)
(*  - U256 arithmetic is exact (inputs stay below 2^256); the u128 block   *)
(*    fee counter keeps its width.                                         *)
(***************************************************************************)
EXTENDS Naturals, Sequences, FiniteSets, Sums

CONSTANTS
  N,                        \* addresses are 0..N-1, in byte order
  ChainIds, ChainId,        \* network ids, and the one of the blocks applied
  Txs,                      \* the transactions blocks are made of
  GenesisBalance,           \* initial balance of the genesis accounts
  MIN_STAKE, ANTI_SPAM_DEPOSIT, MAX_VALIDATORS,
  UNSTAKING_COOLDOWN_ERAS, FREEZE_DURATION_ERAS,
  U128_MAX,
  Reporters,                \* addresses that report equivocations
  MaxEra                    \* bound: eras explored

Address == 0..(N - 1)
BurnAddress == 0
CapRefillAddress == 1

TxKinds == {"Transfer", "Burn", "RegisterValidator", "Stake",
            "RegisterAndStake", "Unstake", "Governance"}

Transaction ==
  [chain_id : ChainIds, sender : Address, nonce : Nat, fee : Nat,
   kind : TxKinds, target : Address, amount : Nat]

ASSUME SizeAssumption == N \in Nat /\ N >= 2
ASSUME TxsAssumption ==
  /\ Txs \subseteq Transaction
  /\ \A tx \in Txs :
       tx.kind = "Burn" => tx.target \in {BurnAddress, CapRefillAddress}
ASSUME GenesisAssumption ==
  /\ DOMAIN GenesisBalance \subseteq Address
  /\ \A a \in DOMAIN GenesisBalance : GenesisBalance[a] \in Nat
ASSUME ParameterAssumption ==
  /\ MIN_STAKE \in Nat \ {0}
  /\ ANTI_SPAM_DEPOSIT \in Nat
  /\ MAX_VALIDATORS \in Nat
  /\ UNSTAKING_COOLDOWN_ERAS \in Nat
  /\ FREEZE_DURATION_ERAS \in Nat
  /\ U128_MAX \in Nat
  /\ Reporters \subseteq Address
  /\ MaxEra \in Nat

VARIABLES
  known,         \* addresses with an account in the tree
  accounts,      \* account of each address
  validators,    \* addresses with a validator entry
  entries,       \* validator entry of each address
  active_set,    \* the active validators, in election order
  block_fees,    \* fees collected so far in the block being applied
  in_block,      \* apply_block is running
  era            \* era of the last boundary processed

vars == <<known, accounts, validators, entries, active_set,
          block_fees, in_block, era>>

-----------------------------------------------------------------------------
(* Validator status: one record, whose fields mean what the enum's payload *)
(* means for that kind and are 0 where it has none.                        *)

Kinds == {"Registered", "Staked", "Active", "Unstaking", "Frozen", "Thawed"}
Status == [kind : Kinds, era : Nat, amount : Nat]
Registered == [kind |-> "Registered", era |-> 0, amount |-> 0]
Active == [kind |-> "Active", era |-> 0, amount |-> 0]
Thawed == [kind |-> "Thawed", era |-> 0, amount |-> 0]
Staked(stake) == [kind |-> "Staked", era |-> 0, amount |-> stake]
Unstaking(release_era, amount) ==
  [kind |-> "Unstaking", era |-> release_era, amount |-> amount]
Frozen(frozen_until) == [kind |-> "Frozen", era |-> frozen_until, amount |-> 0]

Account == [balance : Nat, nonce : Nat]
Entry == [stake : Nat, status : Status]
NewAccount == [balance |-> 0, nonce |-> 0]

TypeOK ==
  /\ known \subseteq Address
  /\ accounts \in [Address -> Account]
  /\ validators \subseteq Address
  /\ entries \in [Address -> Entry]
  /\ active_set \in Seq(Address)
  /\ block_fees \in Nat
  /\ in_block \in BOOLEAN
  /\ era \in Nat

\* StateMachine::new: the genesis accounts, no validators, no active set.
Init ==
  /\ known = DOMAIN GenesisBalance
  /\ accounts = [a \in Address |->
                   IF a \in DOMAIN GenesisBalance
                   THEN [balance |-> GenesisBalance[a], nonce |-> 0]
                   ELSE NewAccount]
  /\ validators = {}
  /\ entries = [a \in Address |-> [stake |-> 0, status |-> Registered]]
  /\ active_set = <<>>
  /\ block_fees = 0
  /\ in_block = FALSE
  /\ era = 0

-----------------------------------------------------------------------------
(* Transactions.  The handlers run on a copy of the sender's account; the  *)
(* copy is written back by apply_block after the handler returns.          *)

\* What a successful transaction takes from its sender.
Debit(tx) ==
  tx.fee
  + (IF tx.kind \in {"Transfer", "Burn", "Stake", "RegisterAndStake"}
     THEN tx.amount ELSE 0)
  + (IF tx.kind \in {"RegisterValidator", "RegisterAndStake"}
     THEN ANTI_SPAM_DEPOSIT ELSE 0)

\* The sender's account once a handler has debited it and taken the nonce.
Debited(tx) ==
  [balance |-> accounts[tx.sender].balance - Debit(tx),
   nonce |-> accounts[tx.sender].nonce + 1]

\* The checks every handler makes on its sender.
SenderOk(tx) ==
  /\ accounts[tx.sender].nonce = tx.nonce
  /\ accounts[tx.sender].balance >= Debit(tx)

\* The checks a handler makes on the validator before it debits the sender.
CanRegister(tx) ==
  /\ tx.sender \notin validators
  /\ tx.kind = "RegisterAndStake" => tx.target = tx.sender /\ tx.amount > 0

\* Mutant of CanStake: a frozen validator may receive stake.
CanStakeFrozen(tx) ==
  /\ tx.target \in validators
  /\ entries[tx.target].status.kind # "Unstaking"
  /\ tx.amount > 0

CanStake(tx) ==
  /\ tx.target \in validators
  /\ entries[tx.target].status.kind \notin {"Frozen", "Unstaking"}
  /\ tx.amount > 0

CanUnstake(tx) ==
  /\ tx.target \in validators
  /\ entries[tx.target].status.kind # "Frozen"
  /\ tx.amount > 0
  /\ tx.amount <= entries[tx.target].stake

\* What an accepted unstake leaves pending, with what was already pending.
PendingAfter(tx) ==
  tx.amount + (IF entries[tx.target].status.kind = "Unstaking"
               THEN entries[tx.target].status.amount ELSE 0)

\* Mutant of CumulativeOk: only the single amount is checked.
CumulativeUnchecked(tx) == tx.amount <= entries[tx.target].stake

\* The check apply_unstake makes only after it has debited the sender.
CumulativeOk(tx) == PendingAfter(tx) <= entries[tx.target].stake

BodyOk(tx) ==
  /\ tx.kind \in {"RegisterValidator", "RegisterAndStake"} => CanRegister(tx)
  /\ tx.kind = "Stake" => CanStake(tx)
  /\ tx.kind = "Unstake" => CanUnstake(tx)

\* The handler gets as far as debiting its copy of the sender's account.
Debits(tx) == SenderOk(tx) /\ BodyOk(tx)

\* The handler returns Ok.
Accepts(tx) == Debits(tx) /\ (tx.kind = "Unstake" => CumulativeOk(tx))

\* The u128 fee counter: a fee saturates, the sum wraps (overflow checks are off
\* in release builds).
FeeAsU128(fee) == IF fee > U128_MAX THEN U128_MAX ELSE fee
AddFee(fee) == (block_fees + FeeAsU128(fee)) % (U128_MAX + 1)

\* After Ok: the debited copy is written over whatever the handler wrote for
\* the same address.
Settle(tx, written) ==
  /\ accounts' = [written EXCEPT ![tx.sender] = Debited(tx)]
  /\ block_fees' = AddFee(tx.fee)
  /\ in_block' = TRUE

SetValidator(addr, entry) ==
  /\ entries' = [entries EXCEPT ![addr] = entry]
  /\ validators' = validators \cup {addr}

\* Mutant of Transfer: the recipient is written back last, over the sender.
TransferRecipientLast(tx) ==
  /\ tx.kind \in {"Transfer", "Burn"}
  /\ known' = known \cup {tx.target}
  /\ accounts' = [[accounts EXCEPT ![tx.sender] = Debited(tx)]
                    EXCEPT ![tx.target] =
                      [accounts[tx.target] EXCEPT !.balance = @ + tx.amount]]
  /\ block_fees' = AddFee(tx.fee)
  /\ in_block' = TRUE
  /\ UNCHANGED <<validators, entries, active_set, era>>

Transfer(tx) ==
  /\ tx.kind \in {"Transfer", "Burn"}
  /\ known' = known \cup {tx.target}
  /\ Settle(tx, [accounts EXCEPT ![tx.target].balance = @ + tx.amount])
  /\ UNCHANGED <<validators, entries, active_set, era>>

RegisterValidator(tx) ==
  /\ tx.kind = "RegisterValidator"
  /\ SetValidator(tx.sender, [stake |-> 0, status |-> Registered])
  /\ Settle(tx, accounts)
  /\ UNCHANGED <<known, active_set, era>>

RegisterAndStake(tx) ==
  /\ tx.kind = "RegisterAndStake"
  /\ SetValidator(tx.sender, [stake |-> tx.amount, status |-> Staked(tx.amount)])
  /\ Settle(tx, accounts)
  /\ UNCHANGED <<known, active_set, era>>

Stake(tx) ==
  /\ tx.kind = "Stake"
  /\ LET e == entries[tx.target]
         new_stake == e.stake + tx.amount
     IN  SetValidator(tx.target,
           [stake |-> new_stake,
            status |-> IF e.status = Registered THEN Staked(new_stake)
                                                ELSE e.status])
  /\ Settle(tx, accounts)
  /\ UNCHANGED <<known, active_set, era>>

\* apply_block passes current_era = 0 whatever the era.
Unstake(tx) ==
  /\ tx.kind = "Unstake"
  /\ LET e == entries[tx.target]
         release_era == IF e.status.kind = "Unstaking" THEN e.status.era
                                                       ELSE UNSTAKING_COOLDOWN_ERAS
     IN  SetValidator(tx.target,
           [e EXCEPT !.status = Unstaking(release_era, PendingAfter(tx))])
  /\ Settle(tx, accounts)
  /\ UNCHANGED <<known, active_set, era>>

\* The Propose, Vote and CancelProposal stubs only take the fee.
Governance(tx) ==
  /\ tx.kind = "Governance"
  /\ Settle(tx, accounts)
  /\ UNCHANGED <<known, validators, entries, active_set, era>>

\* Wrong chain or unknown sender: the transaction costs nothing.
Admitted(tx) == tx.chain_id = ChainId /\ tx.sender \in known

ApplyTx(tx) ==
  /\ Admitted(tx)
  /\ Accepts(tx)
  /\ \/ Transfer(tx) \/ RegisterValidator(tx) \/ RegisterAndStake(tx)
     \/ Stake(tx) \/ Unstake(tx) \/ Governance(tx)

SkipTx(tx) ==
  /\ ~Admitted(tx)
  /\ in_block' = TRUE
  /\ UNCHANGED <<known, accounts, validators, entries, active_set, block_fees, era>>

\* The sender's account as the failed handler leaves its copy.
CopyAfterFailure(tx) == IF Debits(tx) THEN Debited(tx) ELSE accounts[tx.sender]

\* Mutant of FailTx: the fee is collected but the sender's copy is not saved.
FailTxUnsaved(tx) ==
  /\ Admitted(tx)
  /\ ~Accepts(tx)
  /\ CopyAfterFailure(tx).balance >= tx.fee
  /\ block_fees' = AddFee(tx.fee)
  /\ in_block' = TRUE
  /\ UNCHANGED <<known, accounts, validators, entries, active_set, era>>

\* After Err: the fee comes out of the handler's copy, which is then written back.
FailTx(tx) ==
  LET acct == CopyAfterFailure(tx) IN
  /\ Admitted(tx)
  /\ ~Accepts(tx)
  /\ \/ /\ acct.balance >= tx.fee
        /\ accounts' = [accounts EXCEPT ![tx.sender] =
                           [acct EXCEPT !.balance = @ - tx.fee]]
        /\ block_fees' = AddFee(tx.fee)
     \/ /\ acct.balance < tx.fee
        /\ UNCHANGED <<accounts, block_fees>>
  /\ in_block' = TRUE
  /\ UNCHANGED <<known, validators, entries, active_set, era>>

ExecuteTx(tx) == ApplyTx(tx) \/ SkipTx(tx) \/ FailTx(tx)

-----------------------------------------------------------------------------
(* The end of apply_block: fees go to the active set, by stake.            *)

Members(seq) == {seq[i] : i \in DOMAIN seq}

\* The stakes that count: those of the active validators that have an entry.
Weight ==
  [a \in Address |-> IF a \in Members(active_set) \cap validators
                     THEN entries[a].stake ELSE 0]

\* First of the active validators by stake descending, then address ascending.
TopValidator(weight) ==
  CHOOSE a \in Address :
    \A b \in Address : \/ weight[a] > weight[b]
                       \/ weight[a] = weight[b] /\ a <= b

\* Mutant of Payout: the remainder of the division stays undistributed.
PayoutNoRemainder(weight, fees) ==
  [a \in Address |-> (fees * weight[a]) \div Total(weight, N)]

\* What each active validator is credited: its share rounded down, and for the
\* first one what the rounding left.
Payout(weight, fees) ==
  LET total == Total(weight, N)
      share == [a \in Address |-> (fees * weight[a]) \div total]
      remainder == fees - Total(share, N)
      first == TopValidator(weight)
  IN  [a \in Address |-> share[a] + (IF a = first THEN remainder ELSE 0)]

Credit(payout) ==
  /\ accounts' = [a \in Address |->
                    [accounts[a] EXCEPT !.balance = @ + payout[a]]]
  /\ known' = known \cup {a \in Address : payout[a] > 0}

\* With no active stake the fees are dropped.
DistributeFees ==
  IF block_fees > 0 /\ Total(Weight, N) > 0
  THEN LET payout == Payout(Weight, block_fees) IN Credit(payout)
  ELSE UNCHANGED <<accounts, known>>

EndBlock ==
  /\ in_block
  /\ DistributeFees
  /\ block_fees' = 0
  /\ in_block' = FALSE
  /\ UNCHANGED <<validators, entries, active_set, era>>

-----------------------------------------------------------------------------
(* Era boundaries, as the consensus loop drives them: thaw, elect, install *)
(* the active set, all under one write lock.                               *)

ProcessThaw(entry, current_era) ==
  IF entry.status.kind = "Frozen" /\ entry.status.era <= current_era
  THEN [entry EXCEPT !.status =
          IF entry.stake >= MIN_STAKE THEN Thawed ELSE Registered]
  ELSE entry

ThawAll(current_era) ==
  [a \in Address |-> IF a \in validators THEN ProcessThaw(entries[a], current_era)
                                         ELSE entries[a]]

\* Who may be elected: era 0 is open, later eras require the minimum stake.
Electable(ents, current_era) ==
  {a \in validators :
     /\ ents[a].status.kind \notin {"Frozen", "Unstaking"}
     /\ current_era > 0 => ents[a].stake >= MIN_STAKE}

\* The candidates come out of a HashSet, so everything the sort leaves open -
\* all of era 0, and the order of equal stakes afterwards - is arbitrary.
IsElected(s, pool, ents, current_era) ==
  /\ \A i, j \in DOMAIN s : s[i] = s[j] => i = j
  /\ \/ Len(s) = MAX_VALIDATORS
     \/ Len(s) < MAX_VALIDATORS /\ Members(s) = pool
  /\ current_era > 0 =>
       \A i \in DOMAIN s :
         /\ \A j \in DOMAIN s : i < j => ents[s[i]].stake >= ents[s[j]].stake
         /\ \A a \in pool \ Members(s) : ents[s[i]].stake >= ents[a].stake

RunElection(ents, current_era) ==
  LET pool == Electable(ents, current_era) IN
  {s \in UNION {[1..n -> pool] : n \in 0..MAX_VALIDATORS} :
     IsElected(s, pool, ents, current_era)}

SetActive(ents, elected) ==
  [a \in Address |-> IF a \in elected THEN [ents[a] EXCEPT !.status = Active]
                                      ELSE ents[a]]

\* Elect from the given entries and install the result.
Elect(ents, current_era) ==
  \E s \in RunElection(ents, current_era) :
    /\ active_set' = s
    /\ entries' = SetActive(ents, Members(s))

EraBoundary ==
  /\ ~in_block
  /\ era < MaxEra
  /\ era' = era + 1
  /\ Elect(ThawAll(era + 1), era + 1)
  /\ UNCHANGED <<known, accounts, validators, block_fees, in_block>>

\* An open election in era 0, as a caller of run_election may ask for.
OpenElection ==
  /\ ~in_block
  /\ era = 0
  /\ Elect(entries, 0)
  /\ UNCHANGED <<known, accounts, validators, block_fees, in_block, era>>

\* Mutant of Released: the status records the stake before the release.
ReleasedStale(entry) ==
  IF entry.status.amount >= entry.stake
  THEN [stake |-> 0, status |-> Registered]
  ELSE [stake |-> entry.stake - entry.status.amount, status |-> Staked(entry.stake)]

\* The entry process_unstaking_cooldown writes once the release era is reached.
Released(entry) ==
  LET new_stake == entry.stake - entry.status.amount IN
  IF entry.status.amount >= entry.stake
  THEN [stake |-> 0, status |-> Registered]
  ELSE [stake |-> new_stake,
        status |-> IF new_stake >= MIN_STAKE THEN Staked(new_stake)
                                             ELSE Registered]

ProcessUnstakingCooldown(v) ==
  /\ ~in_block
  /\ v \in validators
  /\ entries[v].status.kind = "Unstaking"
  /\ entries[v].status.era <= era
  /\ entries' = [entries EXCEPT ![v] = Released(entries[v])]
  /\ UNCHANGED <<known, accounts, validators, active_set, block_fees, in_block, era>>

-----------------------------------------------------------------------------
(* Slashing.                                                               *)

Slashed(stake) == (stake * 90) \div 100

\* Mutant of BurnAmount: 90% of the whole stake instead of 90% of the slashed part.
BurnAmountOfStake(stake) == (stake * 90) \div 100

BurnAmount(stake) == (Slashed(stake) * 90) \div 100
Bounty(stake) == (Slashed(stake) * 10) \div 100

ApplySlash(v, reporter) ==
  LET stake == entries[v].stake IN
  /\ ~in_block
  /\ v \in validators
  /\ entries[v].status.kind # "Frozen"
  /\ entries' = [entries EXCEPT ![v] =
                   [stake |-> stake - Slashed(stake),
                    status |-> Frozen(era + FREEZE_DURATION_ERAS)]]
  /\ accounts' = [[accounts EXCEPT ![BurnAddress].balance = @ + BurnAmount(stake)]
                    EXCEPT ![reporter].balance = @ + Bounty(stake)]
  /\ known' = known \cup {BurnAddress, reporter}
  /\ UNCHANGED <<validators, active_set, block_fees, in_block, era>>

-----------------------------------------------------------------------------
Next ==
  \/ \E tx \in Txs : ExecuteTx(tx)
  \/ EndBlock
  \/ EraBoundary
  \/ OpenElection
  \/ \E v \in Address : ProcessUnstakingCooldown(v)
  \/ \E v \in Address, r \in Reporters : ApplySlash(v, r)

Spec == Init /\ [][Next]_vars

-----------------------------------------------------------------------------
(* Properties.                                                             *)

Balances == [a \in Address |-> accounts[a].balance]
Stakes == [a \in Address |-> entries[a].stake]

\* All the value there is: spendable, staked, or collected and not yet paid out.
Supply == Total(Balances, N) + Total(Stakes, N) + block_fees

\* A validator never owes more than it holds: whatever sequence of stakes,
\* unstakes, slashes and cooldowns (apply_unstake, apply_slash,
\* process_unstaking_cooldown) ran, a pending withdrawal is positive and covered.
UnstakingCovered ==
  \A v \in validators :
    entries[v].status.kind = "Unstaking" =>
      entries[v].status.amount \in 1..entries[v].stake

\* The stake a Staked status carries (apply_stake sets it once, later stakes only
\* add to the entry) may lag behind the entry's stake but never exceeds it.
StakedNeverAhead ==
  \A v \in validators :
    entries[v].status.kind = "Staked" =>
      entries[v].status.amount \in 1..entries[v].stake

\* No operation creates value: transactions, failed ones included, fee
\* distribution with its rounding, slashing with its two roundings, thaws,
\* elections and cooldowns.
SupplyNeverGrows == [][Supply' <= Supply]_vars

\* distribute_fees pays out exactly what the block collected, neither less (the
\* remainder rule) nor more, whenever the active set holds stake.
FeesPaidInFull ==
  [][EndBlock /\ Total(Weight, N) > 0 => Supply' = Supply]_vars

\* Replay protection: a transaction that apply_block accepts consumes its nonce,
\* and no operation - a credit to the same account included - ever moves a nonce
\* back, so an accepted transaction is never accepted again.
NoReplay ==
  [][/\ \A a \in Address : accounts'[a].nonce >= accounts[a].nonce
     /\ \A tx \in Txs : ApplyTx(tx) => accounts'[tx.sender].nonce > tx.nonce]_vars

\* A slashed validator serves its freeze: until the era it is frozen to, no
\* stake, unstake, second slash, cooldown or election changes its entry.
FreezeServed ==
  [][\A v \in validators :
       entries[v].status.kind = "Frozen" =>
         \/ entries'[v] = entries[v]
         \/ era' >= entries[v].status.era]_vars

=============================================================================
