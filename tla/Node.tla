-------------------------------- MODULE Node --------------------------------
(***************************************************************************)
(* One node: its database, its consensus loop and its life between starts  *)
(* (consensus/engine.rs, storage/genesis.rs, mononium-cli/src/node.rs).    *)
(* The process may die between any two steps; the database keeps what was  *)
(* put, one transaction per put, and reads and puts of blocks may fail.    *)
(*                                                                         *)
(* Simplifications.                                                        *)
(*  - The ledger is what StateMachine.tla makes of a transaction, reduced  *)
(*    to the parts the loop depends on: nonces, fees paid (balances cover  *)
(*    them), who validates (all with the same sufficient stake) and who is *)
(*    active.  A state root is the state itself: the hash is injective.    *)
(*  - select may return any of the pending transactions in any order;      *)
(*    Mempool.tla says which.                                              *)
(*  - A block's hash is the start of the process that built it and its     *)
(*    height: a process builds one block per height, and blocks of two     *)
(*    processes differ in their timestamp.                                 *)
(*  - The sync task of this process writes no blocks: no peer's service is *)
(*    given a storage to serve from.                                       *)
(***************************************************************************)
EXTENDS Naturals, Sequences, FiniteSets

CONSTANTS
  Senders,         \* the genesis accounts
  Txs,             \* the transactions clients submit
  Local,           \* this node's validator address, or Nobody: observer mode
  Nobody,          \* also the all-zero address
  ERA_LENGTH, MAX_SELECT,
  MAX_SIZE, PER_SENDER_CAP,  \* the pool's limits
  StorageMayFail,  \* whether the loop's storage.get and storage.put may fail
  MaxHeight,       \* bound: heights explored
  MaxRuns          \* bound: starts of the process

Tx == [sender : Senders, nonce : Nat, kind : {"Transfer", "RegisterAndStake"}]
Heights == 0..MaxHeight

ASSUME NodeAssumption ==
  /\ Txs \subseteq Tx
  /\ Nobody \notin Senders
  /\ Local \in Senders \cup {Nobody}
  /\ ERA_LENGTH \in Nat \ {0} /\ MAX_SELECT \in Nat
  /\ MAX_SIZE \in Nat /\ PER_SENDER_CAP \in Nat
  /\ StorageMayFail \in BOOLEAN
  /\ MaxHeight \in Nat /\ MaxRuns \in Nat

VARIABLES
  \* the database
  accounts_table,    \* genesis accounts put so far
  genesis_loaded,    \* the marker in META
  stored,            \* heights with a block in BLOCKS
  blocks,            \* the block at each of them
  \* the process
  status,            \* "down", "running", or "fatal": start refused
  run,               \* number of starts
  state,             \* the state machine
  mempool,
  current_height,
  schedule,          \* active_set and start_height; an empty set for None
  pc,                \* where produce_block is
  batch,             \* transactions selected for the block
  block,             \* block being produced
  \* the world
  published,         \* blocks given to gossip
  db_failed          \* history: a read or a put of a block failed in this process

disk == <<accounts_table, genesis_loaded, stored, blocks>>
vars == <<accounts_table, genesis_loaded, stored, blocks, status, run, state, mempool,
          current_height, schedule, pc, batch, block, published, db_failed>>

-----------------------------------------------------------------------------
(* The ledger.                                                             *)

EmptyState(known) ==
  [known |-> known, nonce |-> [s \in Senders |-> 0], paid |-> [s \in Senders |-> 0],
   validators |-> {}, active |-> {}]

\* A transaction with the right nonce is applied; another one still pays.
Execute(st, tx) ==
  IF tx.sender \notin st.known THEN st
  ELSE IF /\ tx.nonce = st.nonce[tx.sender]
          /\ ~(tx.kind = "RegisterAndStake" /\ tx.sender \in st.validators)
       THEN [st EXCEPT !.nonce[tx.sender] = @ + 1, !.paid[tx.sender] = @ + 1,
                       !.validators = IF tx.kind = "RegisterAndStake"
                                      THEN @ \cup {tx.sender} ELSE @]
       ELSE [st EXCEPT !.paid[tx.sender] = @ + 1]

ApplyBlock(st, txs) ==
  LET after[i \in 0..Len(txs)] ==
        IF i = 0 THEN st ELSE Execute(after[i - 1], txs[i])
  IN  after[Len(txs)]

RunElection(st) == [st EXCEPT !.active = st.validators]

is_era_boundary(height) == height > 0 /\ height % ERA_LENGTH = 0

AtEra(st, height) == IF is_era_boundary(height) THEN RunElection(st) ELSE st

-----------------------------------------------------------------------------
(* The database before the first start.                                    *)

NoSchedule == [active_set |-> <<>>, start_height |-> 0]
GenesisBlock == [height |-> 0, parent |-> <<0, 0>>, hash |-> <<0, 0>>,
                 root |-> EmptyState({}), txs |-> <<>>, proposer |-> Nobody]

\* What the process has before it starts, and loses when it dies.
NoProcess(known) ==
  /\ state' = EmptyState(known)
  /\ mempool' = {}
  /\ schedule' = NoSchedule
  /\ pc' = "idle"
  /\ batch' = <<>>
  /\ block' = GenesisBlock
  /\ db_failed' = FALSE

Init ==
  /\ accounts_table = {} /\ genesis_loaded = FALSE
  /\ stored = {} /\ blocks = [h \in Heights |-> GenesisBlock]
  /\ status = "down" /\ run = 0
  /\ state = EmptyState({}) /\ mempool = {} /\ current_height = 0
  /\ schedule = NoSchedule /\ pc = "idle" /\ batch = <<>> /\ block = GenesisBlock
  /\ published = {} /\ db_failed = FALSE

\* load_genesis puts the accounts, then block 0, then the marker.  A death in
\* between leaves the marker out, and the next start puts everything again.
LoadGenesisAccount(a) ==
  /\ status = "down" /\ ~genesis_loaded
  /\ a \notin accounts_table
  /\ accounts_table' = accounts_table \cup {a}
  /\ UNCHANGED <<genesis_loaded, stored, blocks, status, run, state, mempool,
                 current_height, schedule, pc, batch, block, published, db_failed>>

LoadGenesisBlock ==
  /\ status = "down" /\ ~genesis_loaded
  /\ accounts_table = Senders /\ 0 \notin stored
  /\ stored' = stored \cup {0}
  /\ blocks' = [blocks EXCEPT ![0] = GenesisBlock]
  /\ UNCHANGED <<accounts_table, genesis_loaded, status, run, state, mempool,
                 current_height, schedule, pc, batch, block, published, db_failed>>

MarkGenesisLoaded ==
  /\ status = "down" /\ ~genesis_loaded
  /\ accounts_table = Senders /\ 0 \in stored
  /\ genesis_loaded' = TRUE
  /\ UNCHANGED <<accounts_table, stored, blocks, status, run, state, mempool,
                 current_height, schedule, pc, batch, block, published, db_failed>>

-----------------------------------------------------------------------------
(* Start and death.                                                        *)

\* Mutant of load_latest_height: the first key of BLOCKS instead of the greatest.
load_latest_height_first ==
  IF stored = {} THEN 0 ELSE CHOOSE h \in stored : \A g \in stored : g >= h

load_latest_height ==
  IF stored = {} THEN 0 ELSE CHOOSE h \in stored : \A g \in stored : g <= h

\* verify_state_consistency, on the state load_state_from_storage rebuilds.
StateConsistent(height) ==
  height = 0 \/ (height \in stored /\ blocks[height].root = EmptyState(accounts_table))

Start ==
  /\ status = "down" /\ genesis_loaded
  /\ run < MaxRuns
  /\ run' = run + 1
  /\ current_height' = load_latest_height
  /\ NoProcess(accounts_table)
  /\ status' = IF StateConsistent(load_latest_height) THEN "running" ELSE "fatal"
  /\ UNCHANGED <<accounts_table, genesis_loaded, stored, blocks, published>>

\* A crash or SIGINT, at any point.
Die ==
  /\ status = "running"
  /\ status' = "down"
  /\ current_height' = 0
  /\ NoProcess({})
  /\ UNCHANGED <<accounts_table, genesis_loaded, stored, blocks, run, published>>

\* What insert lets in: the pool and the sender's share of it are not full, and the
\* sender has no other transaction with that nonce.  run_node asks for no fee.
Admitted(tx) ==
  /\ Cardinality(mempool) < MAX_SIZE
  /\ ~\E t \in mempool : t.sender = tx.sender /\ t.nonce = tx.nonce
  /\ Cardinality({t \in mempool : t.sender = tx.sender}) < PER_SENDER_CAP

\* A transaction that is refused leaves everything as it was.
Submit(tx) ==
  /\ status = "running"
  /\ Admitted(tx)
  /\ mempool' = mempool \cup {tx}
  /\ UNCHANGED <<accounts_table, genesis_loaded, stored, blocks, status, run, state,
                 current_height, schedule, pc, batch, block, published, db_failed>>

-----------------------------------------------------------------------------
(* The consensus loop.                                                     *)

\* Everything in s, once each, in any order.
Orders(S) ==
  {o \in [1..Cardinality(S) -> S] : \A x \in S : \E i \in DOMAIN o : o[i] = x}

\* The schedules a tick for `height` may leave: a new one at an era boundary that
\* elects somebody (ties in any order), the fallback when there is none.
Schedules(st, height) ==
  IF is_era_boundary(height) /\ st.active # {}
  THEN {[active_set |-> o, start_height |-> height] : o \in Orders(st.active)}
  ELSE IF schedule.active_set = <<>>
       THEN {[active_set |-> <<Local>>, start_height |-> height]}
       ELSE {schedule}

proposer_for_height(sched, height) ==
  LET slot == height - sched.start_height
  IN  sched.active_set[(slot % Len(sched.active_set)) + 1]

\* Without a key every slot is ours.
IsOurSlot(sched, height) ==
  Local = Nobody \/ proposer_for_height(sched, height) = Local

\* What select may return.
Batches == UNION {Orders(S) : S \in {T \in SUBSET mempool : Cardinality(T) <= MAX_SELECT}}

Elements(seq) == {seq[i] : i \in DOMAIN seq}

\* A slot that is not ours: the height stays.
WaitSlot ==
  LET height == current_height + 1 IN
  /\ status = "running" /\ pc = "idle" /\ height <= MaxHeight
  /\ state' = AtEra(state, height)
  /\ schedule' \in Schedules(state', height)
  /\ ~IsOurSlot(schedule', height)
  /\ UNCHANGED <<accounts_table, genesis_loaded, stored, blocks, status, run, mempool,
                 current_height, pc, batch, block, published, db_failed>>

\* Ours, but the parent is not in storage, cannot be read or does not decode:
\* produce_block gives up, the loop advances all the same.
MissSlot ==
  LET height == current_height + 1 IN
  /\ status = "running" /\ pc = "idle" /\ height <= MaxHeight
  /\ state' = AtEra(state, height)
  /\ schedule' \in Schedules(state', height)
  /\ IsOurSlot(schedule', height)
  /\ \/ current_height \notin stored /\ UNCHANGED db_failed
     \/ StorageMayFail /\ db_failed' = TRUE
  /\ current_height' = height
  /\ UNCHANGED <<accounts_table, genesis_loaded, stored, blocks, status, run, mempool,
                 pc, batch, block, published>>

\* Mutant of BeginBlock: the election is the one of the parent's height.
BeginBlockLate ==
  LET height == current_height + 1 IN
  /\ status = "running" /\ pc = "idle" /\ height <= MaxHeight
  /\ state' = AtEra(state, current_height)
  /\ schedule' \in Schedules(state', height)
  /\ IsOurSlot(schedule', height)
  /\ current_height \in stored
  /\ batch' \in Batches
  /\ mempool' = mempool \ Elements(batch')
  /\ pc' = "selected"
  /\ UNCHANGED <<accounts_table, genesis_loaded, stored, blocks, status, run,
                 current_height, block, published, db_failed>>

\* Ours: select takes the transactions out of the pool.
BeginBlock ==
  LET height == current_height + 1 IN
  /\ status = "running" /\ pc = "idle" /\ height <= MaxHeight
  /\ state' = AtEra(state, height)
  /\ schedule' \in Schedules(state', height)
  /\ IsOurSlot(schedule', height)
  /\ current_height \in stored
  /\ batch' \in Batches
  /\ mempool' = mempool \ Elements(batch')
  /\ pc' = "selected"
  /\ UNCHANGED <<accounts_table, genesis_loaded, stored, blocks, status, run,
                 current_height, block, published, db_failed>>

BuildBlock ==
  LET height == current_height + 1 IN
  [height |-> height, parent |-> blocks[current_height].hash, hash |-> <<run, height>>,
   root |-> state, txs |-> batch, proposer |-> proposer_for_height(schedule, height)]

\* build_block takes the root, then apply_block executes.
ExecuteBlock ==
  /\ status = "running" /\ pc = "selected"
  /\ block' = BuildBlock
  /\ state' = ApplyBlock(state, batch)
  /\ pc' = "executed"
  /\ UNCHANGED <<accounts_table, genesis_loaded, stored, blocks, status, run, mempool,
                 current_height, schedule, batch, published, db_failed>>

StoreBlock ==
  /\ status = "running" /\ pc = "executed"
  /\ stored' = stored \cup {block.height}
  /\ blocks' = [blocks EXCEPT ![block.height] = block]
  /\ pc' = "stored"
  /\ UNCHANGED <<accounts_table, genesis_loaded, status, run, state, mempool,
                 current_height, schedule, batch, block, published, db_failed>>

\* Mutant of StoreBlockFails: the block is published although it was not stored.
StoreFailsPublish ==
  /\ StorageMayFail
  /\ status = "running" /\ pc = "executed"
  /\ pc' = "stored"
  /\ db_failed' = TRUE
  /\ UNCHANGED <<accounts_table, genesis_loaded, stored, blocks, status, run, state,
                 mempool, current_height, schedule, batch, block, published>>

\* The put fails: no block, but its transactions are out of the pool and executed,
\* and the loop advances.
StoreBlockFails ==
  /\ StorageMayFail
  /\ status = "running" /\ pc = "executed"
  /\ current_height' = block.height
  /\ pc' = "idle"
  /\ db_failed' = TRUE
  /\ UNCHANGED <<accounts_table, genesis_loaded, stored, blocks, status, run, state,
                 mempool, schedule, batch, block, published>>

\* Mutant of PublishBlock: a block gossip refuses does not count.
PublishBlockOrStay ==
  /\ status = "running" /\ pc = "stored"
  /\ \/ published' = published \cup {block} /\ current_height' = block.height
     \/ UNCHANGED <<published, current_height>>
  /\ pc' = "idle"
  /\ UNCHANGED <<accounts_table, genesis_loaded, stored, blocks, status, run, state,
                 mempool, schedule, batch, block, db_failed>>

\* Gossip takes the block or refuses it; either way the loop advances.
PublishBlock ==
  /\ status = "running" /\ pc = "stored"
  /\ published' \in {published, published \cup {block}}
  /\ current_height' = block.height
  /\ pc' = "idle"
  /\ UNCHANGED <<accounts_table, genesis_loaded, stored, blocks, status, run, state,
                 mempool, schedule, batch, block, db_failed>>

Produce == BeginBlock \/ ExecuteBlock \/ StoreBlock \/ PublishBlock

Next ==
  \/ \E a \in Senders : LoadGenesisAccount(a)
  \/ LoadGenesisBlock \/ MarkGenesisLoaded
  \/ Start \/ Die
  \/ \E tx \in Txs : Submit(tx)
  \/ WaitSlot \/ MissSlot \/ Produce \/ StoreBlockFails

Spec == Init /\ [][Next]_vars

\* The process is started, and its loop keeps ticking.
Fairness ==
  /\ \A a \in Senders : WF_vars(LoadGenesisAccount(a))
  /\ WF_vars(LoadGenesisBlock) /\ WF_vars(MarkGenesisLoaded)
  /\ WF_vars(Start)
  /\ WF_vars(WaitSlot \/ MissSlot \/ Produce)

LiveSpec == Spec /\ Fairness

-----------------------------------------------------------------------------
(* Properties.                                                             *)

TypeOK ==
  /\ accounts_table \subseteq Senders
  /\ genesis_loaded \in BOOLEAN
  /\ stored \subseteq Heights
  /\ DOMAIN blocks = Heights
  /\ status \in {"down", "running", "fatal"}
  /\ run \in Nat
  /\ mempool \subseteq Txs
  /\ current_height \in Nat
  /\ pc \in {"idle", "selected", "executed", "stored"}
  /\ db_failed \in BOOLEAN

\* The database holds one chain: no gaps, and every block names the block stored
\* below it, through deaths, failed puts and restarts.
ChainLinked ==
  /\ \A h \in stored : \A g \in 0..h : g \in stored
  /\ \A h \in stored : /\ blocks[h].height = h
                       /\ h > 0 => blocks[h].parent = blocks[h - 1].hash

\* What gossip was given is in the database for good, so a node that dies and
\* starts again never gives gossip a second block of a height.
NoEquivocation ==
  /\ \A b \in published : b.height \in stored /\ blocks[b.height] = b
  /\ \A b, c \in published : b.height = c.height => b = c

\* The loop runs ahead of the chain only after its storage failed it (a put, or the
\* read of the parent): until then its height is the top of the chain (or the block
\* it has just stored).
HeightIsTop ==
  status = "running" /\ ~db_failed =>
    current_height + (IF pc = "stored" THEN 1 ELSE 0) = load_latest_height

\* The states the blocks of a chain lead through, up to a height.
History(chain, height) ==
  LET upto[h \in 0..height] ==
        IF h = 0 THEN EmptyState(Senders)
        ELSE ApplyBlock(AtEra(upto[h - 1], h), chain[h].txs)
  IN  upto

\* The state after the blocks up to a height.
Replay(height) == History(blocks, height)[height]

\* The two places a root can be taken at: once the era's election is done and before
\* the block's transactions, as build_block does, or after them, as it says it does.
RootBefore(h) == AtEra(Replay(h - 1), h)
RootAfter(h) == Replay(h)

\* Until its first restart, the headers of a chain commit to the states its blocks lead
\* through, and all of them at the same place: a reader who replays the blocks, the
\* elections included, can check every root.  Executing, electing while waiting for a
\* slot (repeatedly), failing to read or to store, and storing agree on one history.
RootsReplay ==
  run <= 1 => \/ \A h \in stored \ {0} : blocks[h].root = RootBefore(h)
              \/ \A h \in stored \ {0} : blocks[h].root = RootAfter(h)

Promise == INSTANCE Chain WITH chain <- [h \in stored |-> blocks[h]], announced <- published

\* Whatever dies, restarts or fails, the node implements Chain: no step of load_genesis,
\* produce_block or a restart rewrites, drops or skips a block, and gossip is only ever
\* given the block that is on top at that moment.
ImplementsChain == Promise!Spec

\* A node whose database works and that is alone (its own fallback schedule, or the
\* only validator elected) fills every height while it lives, whatever it selects
\* and however often it was restarted before.
ChainGrows ==
  status = "running" ~>
    \/ MaxHeight \in stored
    \/ status # "running" \/ db_failed
    \/ \E i \in DOMAIN schedule.active_set : schedule.active_set[i] # Local

-----------------------------------------------------------------------------
(* What the repository says of this code, and the code does not do.        *)

\* run_node: "Mismatch is fatal - redb ACID guarantee should prevent this".
NeverFatal == status # "fatal"
=============================================================================
