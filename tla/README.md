# A verification of Mononium

Mononium is a proof-of-stake blockchain node: a Rust library
(`src/src/mononium-lib`) and a command-line node that runs it
(`src/src/mononium-cli`). This directory holds TLA+ models of its core, the TLC
configurations that check them on small instances, and proofs that TLAPS checks
for every value of the constants. `PROJECT.json` gives, for each definition, the
lines it models, and for each property a mutated definition that breaks it.

## 1. Inventory

| part | state | operations | what makes it correct |
|---|---|---|---|
| state machine, `core/state.rs` | accounts, validator entries, active set, the fees of the block | `apply_block` and its handlers, `distribute_fees`, `process_thaw`, `run_election`, `process_unstaking_cooldown`, `apply_slash` | no value is created, no transaction is replayed, withdrawals are covered, a freeze is served |
| commit votes, `consensus/finality.rs` | votes per height, final heights | `add_vote` | order and repetition neither rush nor withhold finality; quorums intersect |
| pool, `mempool/` | transactions, a count, indexes | `insert`, `remove`, `select`, `evict_expired` | the count and the limits hold; the best go first |
| consensus loop and node, `consensus/engine.rs`, `node.rs` | database, height, schedule, the block being produced | recovery, one slot of the loop | one linked chain that only grows, one published block per height, progress |
| start-up, `node.rs`, `storage/`, `config/`, `main.rs` | configuration, database tables, ports, identity | launch, `load_genesis`, `load_state_from_storage`, services | all of one genesis, no shared ports |
| trie, `crypto/trie.rs` | leaves and a cached root | `insert`, `root` | the root is never stale and is that of the full tree |
| forks, `consensus/fork_choice.rs`, `slashing.rs`, `election.rs`, `proposer.rs`, `supply.rs` | none: functions of chains, headers and stakes | election, `validate_block`, `select_canonical`, `verify_equivocation`, `compute_reward` | the first to be slashed is guilty; elections agree up to ties; the cap holds |
| synchronisation, `network/sync.rs`, `network/sync_protocol.rs` | the cursor, in memory and on disk; blocks; the failure count | `run_sync_loop`, `serve_block_sync`, `serve_block_by_hash` | what was verified is stored, linked and stays; ways of asking agree; an attempt ends |
| network service, `network/mod.rs` | a command channel, a broadcast channel, the swarm's loop | the handle's calls, `start`, `handle_event` | answers are not missed, questions end, what is accepted is given to gossip |
| peers, `network/mod.rs`, `network/peer_score.rs` | connected peers, scores, bans | `handle_event`, `apply_event`, `auto_ban` | listed peers are reachable; trust is bounded; bans are earned |
| rate limiter, `network/topics.rs` | a counter and a window per peer | `check`, `increment`, `allow` | a bounded rate; only peers that used their share are refused |
| governance, `governance/` | proposals, votes, parameters, two counters | submit, vote, cancel, set status, execute | limits and bounds hold |
| users' side: REST (`node.rs`), JSON-RPC (`rpc/`), wallet (`wallet.rs`) | a mutex over the application, key files, the RPC server's own height, state and pool | handlers, block lookups, `keygen`, `balance`, `transfer`, `submit_tx` | answers are those of the stored chain, accepted transactions are kept, requests end |
| fee policy, error types, log formatter | none | pure functions, text | not modelled (section 7) |

How they interact. `run_node` opens the database, loads the genesis if its marker
is missing, rebuilds the state machine from the accounts table, compares its root
with the last header, and spawns the consensus loop, the sync task, the RPC server
and the REST server. The loop ticks on a tokio interval; at an era boundary it thaws,
elects and makes a schedule under the state's write lock; in its slot it takes
transactions out of the pool under the pool's lock, then builds and executes the
block under the state's lock, stores it, gives it to gossip and advances its
height. REST handlers insert into the same pool. The sync task talks to the swarm
through a command channel and reads answers from a broadcast channel of events,
matching an answer by its peer alone.

What is hard. The process may die between any two puts (genesis, block, sync
batch, cursor file); a put or a read may fail and the loop goes on; answers are lost, late
and taken for others; votes come in any order; counters are kept by hand beside what
they count (pool, proposals); handlers work on a copy of the sender's account
that is written back later, over whatever else was written; a status is rewritten by stakes, slashes,
thaws, cooldowns and elections that each assume what the others left.

What the node does not do. It never constructs a `CommitTracker`, and never calls
`validate_block`, `select_canonical`, `verify_equivocation`, `apply_slash`,
`process_unstaking_cooldown`, `evict_expired`, `auto_ban`, `set_highest_known_height`,
the rate limiter or the service's `with_storage`; nothing mints; blocks received by
gossip are not consumed; the RPC server has a state of its own that stays empty,
a pool of its own nobody takes from, and event channels nobody sends on; nothing signs a
block and nothing assembles evidence. The library's functions are modelled as the library offers them,
callable at any time; `Node` models what the binary wires together.

## 2. Modules

| module | models | composed of |
|---|---|---|
| `Sums`, `SumsProofs` | sums over `0..n-1`, as a recursive function, and their lemmas | |
| `StateMachine`, `StateMachineProofs`, `MCStateMachine` | `core/state.rs` | `Sums` |
| `CommitTracker` | `consensus/finality.rs`, one tracker per node | `Sums` |
| `Mempool`, `MempoolProofs` | `mempool/` | |
| `Chain` | the abstract specification of a node: an append-only chain whose top is announced | |
| `Node`, `MCNode` | the loop, the database and restarts; uses the ledger and the pool in reduced form | implements `Chain` |
| `Client`, `MCClient` | REST handlers, the JSON-RPC lookups and submissions, and wallets | `Node` |
| `NodeProofs` | what is proved of the node, alone and with its users | `Client` |
| `Config`, `Trie` | the configuration and its merge; the sparse Merkle tree | |
| `Startup`, `MCStartup` | `run_node` from the command line to a running node | `Config`, `Trie` |
| `Supply` | the emission schedule | |
| `Forks` | elections, validation, fork choice and evidence among several nodes | `Supply` |
| `MCConsensus` | a behaviour of votes or one of chains | `CommitTracker`, `Forks` |
| `ConsensusProofs` | what is proved of finality, forks and supply | `CommitTracker`, `Forks` |
| `Sync`, `MCSync` | the sync client, the peers that serve it and the network between | |
| `BringUpProofs` | what is proved of a start and of synchronisation | `Startup`, `Sync` |
| `Network` | peers, scores and bans | |
| `RateLimiter`, `MCNetwork` | the rate limiter; `MCNetwork` runs it beside the peers | `Network` |
| `Service`, `MCService` | channels, the service's loop and the tasks that use it | `Network` |
| `NetworkProofs` | what is proved of peers, service and limiter | `Service`, `RateLimiter` |
| `Governance`, `GovernanceProofs` | `governance/engine.rs` | |
| `MCAdmission` | a behaviour of the pool or one of governance | `Mempool`, `Governance` |

State and actions carry the names of the code. The choices a reader should know:

- **StateMachine.** A transaction is one action: accepted (`ApplyTx`), failed and
  charged (`FailTx`), or skipped (`SkipTx`); a block is a run of them closed by
  `EndBlock`, which distributes the fees. Era processing is one action because
  the loop holds the write lock throughout. Addresses are `0..N-1`, of which 0 and 1
  are the burn and the cap-refill address. U256 is unbounded; the `u128` fee
  counter keeps its width through the constant `U128_MAX`: a fee saturates and
  the sum wraps, as in a release build. Entries of an election that the sort
  leaves open come in any order, because the candidates come out of a `HashSet`.
  `apply_block` passes era 0 to `apply_unstake`, and so does the model.
- **CommitTracker.** `delivered` is a history variable: everything a node was handed,
  whether or not `add_vote` kept it.
- **Node.** A state root is the state itself (hashes are injective), and a block's hash is the
  process that built it and its height. Each put is a step, so a death can come
  between any two. Elections that a tick repeats while it waits for its slot are repeated. A slot is given up when
  the parent block is absent, cannot be read or does not decode, and the height advances all the same;
  `db_failed` remembers that a put or a read has failed. The pool refuses a taken nonce, a full
  pool and a full sender, as `Mempool` does; its fee limit is 0 in `run_node` and refuses nobody.
- **Chain.** The refinement maps the blocks in the database to the chain and what gossip was
  given to what was announced. Everything else (process, pool, state, slots) is hidden,
  and the steps of genesis, election, selection, execution, death and restart are stutters.
- **Client.** A handler takes the mutex (`Lock`), then perhaps the state's read lock, and releases both when
  it answers; `StateFree` is false from execution until the block was published, which is
  how long `produce_block` keeps its write guard. Wallets share one key file, which
  `keygen` truncates before it writes. `rpc_height` and `rpc_pool` are what the JSON-RPC server has for itself.
- **Startup, Config, Trie.** A configuration is a function from options to values. Each put of
  `load_genesis` is a step. The trie is four namespaces of leaves at positions
  given by a constant; its root is compared with that of the full tree, every empty leaf spelt out.
- **Forks.** Hashes and signatures are symbolic. The library has the functions but not their
  callers, so `Receive`, `Reorg` and `Report` are the obvious ones: a block, a chain or two
  headers arrive. `build_block` is given its signature: the nodes in `Signing` give the one `validate_block` looks for, the
  others `produce_block`'s placeholder. A faulty validator signs anything in any name. Stakes are a variable: a slash
  cuts the convicted one's by nine tenths and freezes it, and `Restake` stands for the ledger's staking transactions.
  `run_election` has its open era 0 and leaves out `Frozen` and `Unstaking` validators. Evidence shows each header
  as it is or with the signature field zeroed; only the latter verifies (section 6).
- **Service.** The broadcast channel keeps the last `EVENTS` events; a receiver that falls behind goes on
  with the oldest that is kept, as tokio does. gossipsub takes a message or returns an error (`refused`). A shutdown drops what is queued, and with it the sender a query waits on.
- **RateLimiter.** `allow` reads the clock twice, so a tick may come between its two halves, and nothing else.
- **Sync.** The answer to a request is put into a bag when the request is sent,
  since what a peer stores does not change. Answers may be lost, be read late, or be
  taken for the answer to a later request to the same peer.
- **Governance.** The two stubs (`has_any_votes`, `has_active_proposal_for_param`)
  answer what the code answers. Account changes that the code makes in a
  copy and never saves are not made. `params` holds what is stored: nothing before the first execution, when the
  constants of `core/constants.rs` are in force.
- **Network.** `streak` and `invalid` are histories of what a peer sent.

## 3. Runs

| run | instance | properties |
|---|---|---|
| `ledger` | 4 addresses, 3 payments or 4 staking transactions, 2 eras, fee counter of 2 bits, a slash reporter | `UnstakingCovered`, `StakedNeverAhead`, `SupplyNeverGrows`, `FeesPaidInFull`, `NoReplay`, `FreezeServed` |
| `consensus` | votes: 4 validators (2, 2, 1, 1), a stranger, an equivocator, 2 nodes, 2 heights; chains: 3 validators for 2 places, one faulty, two tied, one of two nodes with the placeholder signature; heights to 2, 2 faulty blocks, stakes that change | `FinalityOrderFree`, `QuorumsIntersect`, `ElectionAgrees`, `SupplyCapped`, `FirstSlashIsJust` |
| `block_finality` | as `consensus` | `FinalBlockHasQuorum`, refuted (section 5) |
| `admission` | a pool of 3, 2 per sender, blocks of 2, 3 instants; 2 proposers, 2 ids, 2 parameters, 2 eras, limits 1 and 2 | `PoolWithinLimits`, `SelectTakesBest`, `ActiveWithinLimits`, `ParamsInBounds` |
| `nonce_order` | as `admission` | `SelectInNonceOrder`, refuted (section 5) |
| `node` | 2 accounts, heights to 3, eras of 2, a pool of 2, 2 starts, failing puts and reads | `NoEquivocation`, `HeightIsTop`, `RootsReplay`, `ChainGrows`, `ImplementsChain` |
| `never_fatal` | as `node` | `NeverFatal`, refuted (section 5) |
| `startup` | 2 addresses, a trie of depth 3, 4 genesis paths (one whole, two malformed, one missing), all combinations of identity options and of ports in file and flags, 2 starts | `PortsApart`, `GenesisOfOneFile`, `RootIsCurrent` |
| `sync` | 3 peers on 3 forks with late answers, or one batch and a silent peer; batches of 2, up to 5 faults | `SyncedChainLinked`, `ServedAgree`, `VerifiedStays`, `AttemptEnds` |
| `service` | 1 peer, 2 messages (one too large), a channel of 2 commands, a buffer of 1 event | `AnswerNotMissed`, `PeersQueryEnds`, `PublishIsTried` |
| `network` | 2 peers, 2 connections each, scores from -28 to 3; 2 messages in a window of 2 ticks, 6 instants | `ListedIsConnected`, `TrustIsBounded`, `BannedForCause`, `RateFair` |
| `client` | 2 wallets with one key, one command each, heights to 2, a pool of 2 with one per sender, 2 starts, failing puts and reads | `AcceptedNotLost`, `LookupsAgree`, `AnswersMatchChain`, `RequestEnds` |

Why the bounds are enough. The ledger's amounts are chosen so that every rounding
leaves a remainder, fees below and beyond the counter's limit occur and their sum wraps, a single
unstake fits and two do not, and a slash leaves less than `MIN_STAKE`. Among the voters of
`consensus` two hold exactly two thirds. The pool of `admission` reaches both limits at once; with 2 ids its global limit
of proposals cannot be exceeded, which the theorem makes up for. In `ledger` two validators share the fees, so that the shares leave a remainder. Two
starts and three heights cover a death in each step of a slot, before and after an
era boundary, and failing puts and reads the loop running ahead of its chain. In `sync`, the
faults allow a late answer, a crash during a batch and a failed save in one
behaviour, and a failure limit as large as the number of peers lets the rotation
reach all of them. The scores of `network` use the code's deltas and ban threshold;
only the range [-100, 100] is narrowed, to one in which three invalid messages in a
row are always enough for `should_ban`. Symmetry is used where a property is neither temporal nor names a
peer (`network`). Among the
validators of `consensus` two tie and there is a place too few, so nodes hold different schedules and
honest ones fork; two faulty blocks are one equivocation, and its slash changes the weights. In `startup` the second start finds
whatever the first left, under another file. In `service` one event more than the
buffer holds makes the receiver lag. In `client` two posts
of one nonce, a post during execution, and a restart that moves the RPC server's height all occur. The
limiter's clock covers three windows, so that every window can be laid across two.

Deadlock is not checked where a bound ends the behaviour (pool clock, heights,
transactions, eras): the programs have no terminal state of their own.

### Fairness

`Node!LiveSpec` assumes that genesis loading and the start are not put off for ever
(they run in sequence from `run_node`) and that the loop steps whenever it
can (the interval ticks and the loop awaits only locks that are released).
Deaths, submissions and failed puts have no fairness. `Sync!LiveSpec` assumes that
the loop runs and is tried again when it returned, that an answer that has
arrived is read, and that the timer of a batch fires (`tokio::time::timeout`).
Nothing is assumed about the wait for the tip, which has no timeout:
`AttemptEnds` starts after it. `Service!ServiceSpec` assumes that the service's loop
takes its commands, not that gossipsub takes what it is given: `tokio::select!` chooses at random among the ready branches. Its clients need none.
`Client!ClientSpec` assumes that the consensus loop ticks and that a request that waits for a lock gets it, though
others keep taking it (strong fairness): tokio's `Mutex` and `RwLock` queue their waiters in order. Wallets may be killed at any time.

## 4. Proofs

Every safety property of a passing run, invariant or action property, is stated by a
theorem. The theorems hold for every number of addresses, validators, peers, proposals and
heights, and every value of the limits, under the `ASSUME`s of the component's module.

- **Ledger** (`StateMachineProofs`). `TypeCorrect`: no subtraction in any handler
  goes below zero. It is inductive as it stands: each handler's guard, and the comparison in
  `Released`, is enough. `StakeSound`: neither stake invariant is
  inductive alone, because cooldown and stake turn an `Unstaking` entry into a
  `Staked` one and back; `EntriesOk` states both together, and of every address rather than of
  the registered ones, so that a write needs no case on who was registered before.
  `NoReplayHolds` and `FreezeIsServed` are action properties that follow from
  `TypeOK`. `SupplyNeverGrowsHolds` and `FeesPaidInFullHolds` rest on the sum lemmas of
  `SumsProofs` (a sum of updated, added or dominated functions) and on bounds of the
  fee shares and the two roundings of a slash.
- **Finality** (`ConsensusProofs`). The invariant `TrackerOk` says that the votes kept at a
  height come from one vote per validator, so their cumulative weight is the stake of their voters, and
  that kept and delivered voters agree until the height is final. From this
  `FinalitySound`: repeats, strangers and order never make a height final before the validators heard from hold enough, nor
  keep an undisputed height from it; and quorum intersection by inclusion and exclusion on stakes. What is final is a
  height: that it need not have one block with the quorum is the `block_finality` run.
- **Forks and evidence** (`ConsensusProofs`). `FirstSlashIsJustHolds`: up to the first change of a stake, evidence convicts faulty
  validators only. This is not inductive: evidence needs two headers of one signer on one parent, so one has to know that an
  honest node builds on a parent once (`HonestSignOnce`), which in turn needs that a node that left a block it signed never
  comes back to that block's parent. `HonestMoveOn` says why: every block it signed is on its chain, or there is more stake
  behind its chain now than behind the block it had built on, and with the same weights that stake never falls
  (`StakeBehindMonotone`). The premise is needed: a slash lowers the weight of a chain, a node may then return to a block it
  had built on and sign a second one, and be convicted. The rest of `ForksInv` is that chains are linked sequences of published headers
  and that every header was built by `build_block`.
- **Elections and supply** (`ConsensusProofs`). `ElectionAgreesHolds`: whatever the stakes and statuses are at the
  time, any two orders that sort by stake and age agree at each rank on both, by counting those that outrank a place; of era 0,
  where the order of a `HashSet` decides, only the number elected is said.
  `SupplyCappedHolds`: a whole era of rewards, each computed from the supply the era started with, still fits below the
  maximum (`EraFits`), because an era is no longer than a year; this is added up height by height.
- **Pool** (`MempoolProofs`). `PoolSound`: `CountExact` and `PoolWithinLimits` are inductive
  together with the types; the proof is about cardinalities. `CountExact` (the hand-kept count is the number of
  transactions) is part of the invariant because `insert` tests the count. `SelectTakesBestHolds`: since no
  sender exceeds its limit, the cap that `select` applies again skips nobody (`NobodySkipped`), so
  what is picked is a prefix of the order (`PickedFirst`). It speaks of the transactions that no nonce order binds; that
  a sender's own come by fee is the `nonce_order` run.
- **Node** (`NodeProofs`). `ChainSound`: `LoopOk` relates the loop's height and the
  block in hand to the database at each step of a slot, `PublishedOk` says that what
  gossip was given is stored. Both are needed: a restart forgets the loop and reads the height from the
  database, and only `LoopOk` tells that a stored height is never written again. `HeightIsTop` holds because a slot is given up only when storage
  failed: in a chain without gaps the parent is there (`MissSlotFailed`).
  `NodeImplementsChain`: from the same invariant every action is shown to append one linked block at the
  top, to announce the top, or to leave both mapped variables alone. `RootsReplayHolds`: `StateFollows` says at
  each step of a slot which state, computed by replaying the stored blocks, the ledger is in. (The property lets the
  roots be those before or those after their blocks, as long as all of a run are the same; in the code they are those before.) An
  election that a waiting tick repeats changes nothing (`EraTwice`), and a block put on top leaves the history
  below it alone (`HistoryAgrees`).
- **Users' side** (`NodeProofs`). `ClientInv` adds to the node's invariant that only a running process serves and that the
  JSON-RPC server's height is stored. From it `AcceptedNotLostHolds`, `LookupsAgreeHolds` (no wrong block for a hash; what JSON-RPC does
  not find is in section 6) and `AnswersMatchChainHolds`; the last needs `StateFollows`, because the state a handler reads under its lock is
  that of a moment between two blocks. `ServedNodeImplementsChain` is the refinement again, with
  wallets and servers at work.
- **Start-up** (`BringUpProofs`). `GenesisOfOneFileHolds`: `GenesisInv` follows `load_genesis` put by put and
  says what of the current file is in the database and that the marker is set by nothing but the last put, so an earlier
  attempt with another file is written over before a node gets past it. `PortsApartHolds`: what `validate` compared are
  the ports that services bind.
- **Trie** (`BringUpProofs`). `RootIsCurrentHolds`: the root that `root` computes from the leaves present, with
  the default hashes for empty subtrees, is the root of the full tree (`RootReference`, by induction on
  the depth of a subtree), and the cached root is that root or none (`TrieInv`).
- **Synchronisation** (`BringUpProofs`). The cursor alone does not carry the argument: between the first put of a batch
  and the save, blocks above the cursor belong to a batch that was verified and is stored by halves.
  `SyncInv` says that every answer under way is what a peer serves of its chain, that the saved cursor is the one in memory or
  a new one, and what of a batch is stored. It also records that only a node at genesis ever stores a batch, since client and server seed
  the batch hash differently (section 6): so far the code reaches these properties through its first batch alone. `SyncedChainLinkedHolds` and
  `VerifiedStaysHolds` follow; `ServedAgreeHolds` is about the server's functions.
- **Governance** (`GovernanceProofs`). `GovernanceSound`: the counters never fall below the number of
  active proposals (`CountersCover`) and stored proposals have valid actions
  (`StoredAreValid`), so no value outside its bounds is ever stored. Nothing is said of the constants in force before.
- **Peers and service** (`NetworkProofs`). `PeersSound`: a score is at most `MAX_SCORE` less the penalties of
  the current streak, at least what all the penalties explain, and every ban was earned. `ServicePeersSound`
  carries the bounds over to the service, whose steps are steps of the peers or leave them alone.
  `AnswerNotMissedHolds` rests on `ReceiverOk`: a receiver that waits is never past the end of the channel, and a due answer is
  an event of the peer it waits for.
- **Rate limiter** (`NetworkProofs`). `RateFairHolds`: the counter alone says nothing about a window laid across two of its own. `Windowed` ties the counter to
  the times at which messages passed, `Spread` says that any `2 * max_per_window + 1` messages in a row span a
  whole window, also when the clock moves between `check` and `increment`.

Theorems that restate one conjunct (`NoEquivocationHolds`, `HeightIsTopHolds`,
`StakedNeverAheadHolds`, `FinalityOrderFreeHolds`, `ParamsInBoundsHolds`,
`ListedIsConnectedHolds`, `BannedForCauseHolds`) are there to be cited by name.

What the assumptions say beyond the types of constants. `SyncAssumption`: within a peer's chain the hashes of
blocks differ, none is the genesis hash, and only a block of height 1 names the genesis hash as its parent, which is what a
collision-free hash gives; that a peer's blocks are linked is not assumed, the client has to check it. `SupplyAssumption`: an era is
no longer than a year, and rates are at most 100%. `StartupAssumption`: the accounts of a genesis file are addresses, and namespaced keys are keys of the trie.
`TrieAssumption`: different keys have different paths. `ClientAssumption` and
`LimiterAssumption`: the stand-ins for "no key", "nobody" and "no counter" are none of the real ones.

Recursive definitions (`History`, `SupplyAt`, `ReferenceRoot`, sums, `Selected`) are recursive functions. For each a
lemma shows that the function exists with its defining equation, and facts about every height, depth or length are
proved by taking the least counterexample (`LeastNatural`, `UpTo` of `SumsProofs`), since the provers cannot
instantiate the library's induction principles.

Only model-checked: liveness (`ChainGrows`, `AttemptEnds`, `PeersQueryEnds`,
`PublishIsTried`, `RequestEnds`), which the prover does not do. Each holds under the fairness of section 3 on the
instances of its run. `NeverFatal`, `FinalBlockHasQuorum` and `SelectInNonceOrder` are refuted and so have no theorem.

## 5. Disagreements with a run

- `never_fatal`: "Mismatch is fatal - redb ACID guarantee should prevent this"
  (`node.rs:144`). The state is rebuilt from the genesis accounts only, so a restart after
  any block that follows one with an effect is fatal.
- `block_finality`: "a block has reached >⅔ finality" (`finality.rs:4`). `cumulative_weight` adds votes for different
  blocks of one height, which becomes final with no block that has the quorum.
- `nonce_order`: "strict nonce order" within a sender's transactions (`docs/plans/V1.0.0/Mempool.md:31`). The pool hands
  them out by fee, then arrival, and by nonce only among equals.

## 6. Disagreements seen in the models, without a run of their own

- In a transfer to oneself the credit is written and then overwritten by the sender's copy
  (`state.rs:216`), so the amount is lost; `state.rs:315` says "Deducts `amount + fee`, credits `recipient`".
- The client seeds the batch hash with its last verified hash and the server with the genesis hash, so the
  second batch is never accepted, against `sync.rs:172` ("Returns `Ok(())` once the local node is caught up").
- A frozen validator stays in the active set and earns fees until the next era,
  against `validator.rs:55`.
- A validator that is not elected again keeps the status `Active`, against `state.rs:775`.
- `process_unstaking_cooldown` credits nobody, against `state.rs:575`.
- A nested unstake that fails on the cumulative check pays its fee twice and consumes its
  nonce (`state.rs:220`), against `docs/plans/V1.0.0/Fees.md:92`.
- Fees are lost where the `u128` counter of a block saturates or wraps (`state.rs`, `fee_as_u128`); `FeesPaidInFull` is about what
  the counter holds.
- `produce_block` gives `build_block` a placeholder of 0xCD bytes for a signature (`engine.rs:351`), so a block of this
  node fails `validate_block` wherever its proposer's key is known.
- `verify_equivocation` checks the signatures against the headers as they are (`slashing.rs:34`), but a header is signed with its signature
  field zeroed (`engine.rs:432`): evidence made of two properly signed headers never verifies. Nothing assembles evidence; `Forks`
  lets whoever does show the header either way.
- After a slash has moved the weights, fork choice may bring an honest node back to a block it has built on; it signs there again and
  can be convicted. `FirstSlashIsJust` therefore ends with the first change of a stake.
- The open election of era 0 takes the first `MAX_VALIDATORS` in the order of a `HashSet` (`state.rs:801`), which is not the same on all nodes;
  the loop never holds it, since height 0 is no era boundary, and until the first one every node is its own only proposer.
- A consistency check that passes does not mean that "the node can safely resume"
  (`node.rs:404`): blocks whose root is that of the genesis state pass whatever they did.
- A header's root is the root before its block, against `engine.rs:109`
  and `Protocol.md:245`. `RootsReplay` accepts either, but the same for all blocks of a run.
- A node without a key produces in every slot, against `node.rs:87` ("no signing, sync-only").
- A parent that cannot be read or decoded costs the slot (`engine.rs:329`) and the height advances all the same (`engine.rs:300`), so that every later
  parent is missing: the loop makes no block until it is started again.
- A slot whose proposer is absent is not skipped (`Consensus.md:239`): the height stays.
- A new cursor anchors at the hash of the genesis file, which is not the header hash of the block 0 a
  real node stores (`sync_protocol.rs:100`), so such a peer answers with no blocks;
  a service that was never told its height announces 0 (`network/mod.rs:373`);
  the wait for the tip has no timeout (`sync.rs:204`), against `sync.rs:173`. A broken link
  rotates to the next peer without a look at the failure limit. So no property says that a node catches up; `AttemptEnds`
  says that an attempt ends.
- The error arm of `gossipsub.publish` (`network/mod.rs:437`) warns, and the message, a block just produced perhaps, is not sent again.
- Governance: the deposit is taken from a copy (`engine.rs:76` says it is deducted); a proposal with votes can be
  cancelled (`engine.rs:238`); two active proposals can set one parameter (`engine.rs:138`); an
  id in use is stored over (`types.rs:82` calls it unique); the counters are never lowered when a proposal is resolved, so
  proposers are locked out for good once they reach their limit. Two constants in force before any proposal
  (`SUPPLY_CEILING_RATE` 350, `SUPPLY_HEADROOM_RATE` 500, `core/constants.rs:60`) are outside the bounds 0..20 that a
  proposal would have to keep (`governance/constants.rs:90`).
- A closed connection removes a peer that has another one open (`network/mod.rs:597`);
  an expired ban is never renewed (`peer_score.rs:176`); `should_ban` asks for less than the threshold, so two
  invalid blocks, which only reach it, do not lead to a ban as `Network.md:490` says they do (`BannedForCause` leaves this open); `ListedIsConnected`
  says nothing about peers that are connected and not listed; the "sliding-window" rate limiter has fixed windows
  (`topics.rs`), so up to twice the limit passes in one window; `RateFair` states exactly that.
- Configuration: `key` is accepted by `validate` and then not used (`node.rs` reads `key_file` only); the command line
  can switch the observer on and not off.
- Wallet: `transfer` asks for the nonce of the recipient (`wallet.rs:167`); `register_and_stake` copies the 40
  bytes of a formatted address into 32 and panics; the address `keygen` prints is one that every
  other command and endpoint refuses.
- JSON-RPC: `tx_submit` puts into a pool no producer reads and answers with a hash even when that pool refuses; nonces and balances are
  0 for everybody; heights are those of the start, and `block_id_to_height` does not find block 0 nor any block above that
  height, against `rpc/server.rs:206` (`LookupsAgree` leaves this open);
  `network_peers` blocks on a runtime from within it; `run_node` drops the server's handle.
- Genesis validators are stored in a form that is not a `ValidatorEntry`, and are never read back.
- `tx_root` does not commit to the order of transactions; `validate_block` does not look at timestamps.
- `BLOCK_HASHES` is written by a test only, so a real peer answers by-hash requests with nothing.

## 7. Not modelled

U256 overflow panics (a total beyond 2^256 needs a genesis that holds it already).
The inside of BLAKE3, Falcon and redb: a hash is injective, a signature is made by its
signer only, one put is one atomic transaction. Encodings of keys, addresses and amounts,
including the address checksum and `parse_monex_amount`: conversions without state whose
callers treat a failure as the end of the command. `core/fee.rs`: one function nobody calls. The
JSON-RPC methods `network_peers`, `governance_*` and the subscriptions: they ask the service, answer with nothing, or wait on
channels nobody sends on. Tree removal and Merkle proofs, `delete` of a table, `finality_ratio`,
`is_timestamp_acceptable`: no caller outside tests. Error types, log lines, response layouts. libp2p's own
protocols: `Service` and `Network` take its events in any order.

## 8. Plan

Done: the modules above, in the order ledger, finality, pool, node, sync, governance,
peers; then the abstract chain and its refinement, start-up, forks and supply, the network
service, users' side and the rate limiter; then the theorems of section 4, one for each safety property
that a run checks. Next, in order:

1. An exact account of the losses in `StateMachine` (self-transfer, release, roundings of a
   slash, fees dropped without active stake), as one property that implies
   `SupplyNeverGrows` and names every leak, with its proof.
2. The pool of `Node` and `Client`, which has the limits of `Mempool`, replaced by `Mempool` itself, so that
   `AcceptedNotLost` meets expiry too.
3. A node that follows another: `validate_block` and gossip-received blocks wired to `Node`,
   once the code does so.
