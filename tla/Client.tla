------------------------------- MODULE Client -------------------------------
(***************************************************************************)
(* The node of Node.tla as its users see it: the REST handlers and the     *)
(* JSON-RPC methods that look blocks up (mononium-cli/src/node.rs,         *)
(* rpc/server.rs), and the wallet, which asks for a nonce, signs and posts *)
(* (mononium-cli/src/wallet.rs).  Several wallet processes may run at once *)
(* with the same key file.                                                 *)
(*                                                                         *)
(* A handler holds the application's mutex from start to end.  produce_    *)
(* block holds the state's write lock from execution until it has stored   *)
(* and published the block, so a handler that reads the state waits for    *)
(* that, and every other handler waits for it.                             *)
(*                                                                         *)
(* Simplifications.                                                        *)
(*  - A key is the address derived from it.  Of a transaction's body only  *)
(*    whom it names is left: for the node of Node.tla a wallet's           *)
(*    transaction uses a nonce and pays.  A command whose arguments do not *)
(*    parse ends without a request, and register_and_stake always does: it *)
(*    copies the 40 bytes of a formatted address into 32.                  *)
(*  - The JSON-RPC server shares the storage with the node, and has the    *)
(*    height it was started with.  Its ledger and its pool are its own:    *)
(*    run_node makes them empty, its clients fill the pool, and nobody     *)
(*    takes from it.  On its event channels nobody sends: subscriptions    *)
(*    are left out.                                                        *)
(***************************************************************************)
EXTENDS Node

CONSTANTS
  Clients,        \* wallet processes
  Stranger,       \* the address of a key made after genesis
  NoKey,          \* what a key file that does not parse holds
  MaxCommands     \* bound: commands of a client

ASSUME ClientAssumption ==
  /\ Stranger \notin Senders /\ NoKey \notin Senders \cup {Stranger}
  /\ Nobody \notin Clients

VARIABLES
  key_file,       \* the key file the wallets use
  step,           \* of a client: idle, writing, nonce, post or height
  key,            \* the key it has loaded
  command,        \* what it was asked to do
  tx,             \* the transaction it has signed
  holder,         \* the client whose request holds the mutex, or Nobody
  seen,           \* the last height it was told
  accepted,       \* history: transactions it was told are in the pool
  commands,       \* history: commands so far
  rpc_height,     \* current_height of the JSON-RPC server's engine
  rpc_pool        \* the JSON-RPC server's own pool

client == <<key_file, step, key, command, tx, holder, seen, accepted, commands, rpc_height, rpc_pool>>
allvars == <<vars, client>>

Addresses == Senders \cup {Stranger}
\* stake stands for unstake and register_validator too.
Operations == {"transfer", "stake", "balance"}
NoTx == [sender |-> Stranger, nonce |-> 0, kind |-> "Transfer", by |-> Nobody]

ClientInit ==
  /\ Init
  /\ key_file \in Senders
  /\ step = [c \in Clients |-> "idle"] /\ key = [c \in Clients |-> NoKey]
  /\ command = [c \in Clients |-> [op |-> "stake", to |-> Stranger]]
  /\ tx = [c \in Clients |-> NoTx]
  /\ holder = Nobody /\ seen = [c \in Clients |-> 0]
  /\ accepted = {} /\ commands = [c \in Clients |-> 0] /\ rpc_height = 0
  /\ rpc_pool = {}

-----------------------------------------------------------------------------
(* The wallet up to its first request.                                     *)

Busy(c, next) == step' = [step EXCEPT ![c] = next]

Counted(c) ==
  /\ commands[c] < MaxCommands
  /\ commands' = [commands EXCEPT ![c] = @ + 1]

\* keygen truncates the file, whatever it held,
Keygen(c) ==
  /\ step[c] = "idle" /\ Counted(c)
  /\ key_file' = NoKey
  /\ Busy(c, "writing")
  /\ UNCHANGED <<vars, key, command, tx, holder, seen, accepted, rpc_height, rpc_pool>>

\* and writes the new key.
KeygenWrite(c) ==
  /\ step[c] = "writing"
  /\ key_file' = Stranger
  /\ Busy(c, "idle")
  /\ UNCHANGED <<vars, key, command, tx, holder, seen, accepted, commands, rpc_height, rpc_pool>>

load_key(c) == key_file # NoKey /\ key' = [key EXCEPT ![c] = key_file]

\* balance prints the account of any address.
OnlyReads(op) == op = "balance"

\* transfer, one of the commands that go through submit_tx, or balance.
Begin(c, op, to) ==
  /\ step[c] = "idle" /\ Counted(c)
  /\ IF OnlyReads(op) THEN UNCHANGED key ELSE load_key(c)
  /\ command' = [command EXCEPT ![c] = [op |-> op, to |-> to]]
  /\ Busy(c, "nonce")
  /\ UNCHANGED <<vars, key_file, tx, holder, seen, accepted, rpc_height, rpc_pool>>

\* query latest, and every other question answered from storage.
AskHeight(c) ==
  /\ step[c] = "idle" /\ Counted(c)
  /\ Busy(c, "height")
  /\ UNCHANGED <<vars, key_file, key, command, tx, holder, seen, accepted, rpc_height, rpc_pool>>

\* The process is killed; the server drops its request.
Killed(c) ==
  /\ step[c] # "idle"
  /\ Busy(c, "idle")
  /\ holder' = IF holder = c THEN Nobody ELSE holder
  /\ UNCHANGED <<vars, key_file, key, command, tx, seen, accepted, commands, rpc_height, rpc_pool>>

-----------------------------------------------------------------------------
(* REST handlers.                                                          *)

Requests == {"nonce", "post", "height"}

Lock(c) ==
  /\ status = "running" /\ step[c] \in Requests /\ holder = Nobody
  /\ holder' = c
  /\ UNCHANGED <<vars, key_file, step, key, command, tx, seen, accepted, commands, rpc_height, rpc_pool>>

\* Mutant of Release: the guard outlives the handler.
ReleaseKept == UNCHANGED holder

Release == holder' = Nobody

\* Mutant of StateFree: the lock is released after execution.
StateFreeEarly == TRUE

\* Nobody holds the state's write lock.
StateFree == pc \notin {"executed", "stored"}

\* balance_handler: an address without an account reads as nonce 0.
NonceAnswer(address) == IF address \in state.known THEN state.nonce[address] ELSE 0

\* transfer asks for the nonce of the recipient, submit_tx for the signer's.
NonceOwner(c) == IF command[c].op = "stake" THEN key[c] ELSE command[c].to

\* What the wallet makes of the answer: a transaction signed with its key.
Signed(c, nonce) == [sender |-> key[c], nonce |-> nonce, kind |-> "Transfer", by |-> c]

\* balance_handler, and the two others that read the state.  balance prints the answer,
\* the other commands go on to post.
ServeBalance(c) ==
  /\ holder = c /\ step[c] = "nonce" /\ StateFree
  /\ \/ /\ OnlyReads(command[c].op)
        /\ Busy(c, "idle") /\ UNCHANGED tx
     \/ /\ ~OnlyReads(command[c].op)
        /\ tx' = [tx EXCEPT ![c] = Signed(c, NonceAnswer(NonceOwner(c)))]
        /\ Busy(c, "post")
  /\ Release
  /\ UNCHANGED <<vars, key_file, key, command, seen, accepted, commands, rpc_height, rpc_pool>>

\* Mutant of Insert: a transaction replaces the one with its nonce.
InsertReplace(t) ==
  /\ mempool' = {u \in mempool : ~(u.sender = t.sender /\ u.nonce = t.nonce)} \cup {t}
  /\ accepted' = accepted \cup {t}

\* insert: what is refused changes nothing.
Insert(t) ==
  \/ /\ Admitted(t)
     /\ mempool' = mempool \cup {t}
     /\ accepted' = accepted \cup {t}
  \/ /\ ~Admitted(t)
     /\ UNCHANGED <<mempool, accepted>>

\* tx_submit_handler: 200 or 400.
ServePost(c) ==
  /\ holder = c /\ step[c] = "post"
  /\ Insert(tx[c])
  /\ Busy(c, "idle")
  /\ Release
  /\ UNCHANGED <<accounts_table, genesis_loaded, stored, blocks, status, run, state,
                 current_height, schedule, pc, batch, block, published, db_failed>>
  /\ UNCHANGED <<key_file, key, command, tx, seen, commands, rpc_height, rpc_pool>>

\* The handlers that answer from storage, the height above all: health, height, era,
\* genesis, validators, block_latest and block_by_height.
ServeHeight(c) ==
  /\ holder = c /\ step[c] = "height"
  /\ seen' = [seen EXCEPT ![c] = load_latest_height]
  /\ Busy(c, "idle")
  /\ Release
  /\ UNCHANGED <<vars, key_file, key, command, tx, accepted, commands, rpc_height, rpc_pool>>

\* Nobody listens: the command fails.
Refused(c) ==
  /\ status # "running" /\ step[c] \in Requests
  /\ Busy(c, "idle")
  /\ UNCHANGED <<vars, key_file, key, command, tx, holder, seen, accepted, commands, rpc_height, rpc_pool>>

-----------------------------------------------------------------------------
(* Looking blocks up: the answer is <<height>>, or NotFound.               *)

NotFound == <<>>

\* block_by_hash_handler looks at every key of BLOCKS.
RestByHash(hash) ==
  IF \E h \in stored : blocks[h].hash = hash
  THEN <<CHOOSE h \in stored : blocks[h].hash = hash>> ELSE NotFound

\* Mutant of block_id_to_height: the scan stops before block 1.
block_id_to_height_short(hash) ==
  LET found == {h \in stored : h > 1 /\ h <= rpc_height /\ blocks[h].hash = hash}
  IN  IF found = {} THEN NotFound ELSE <<CHOOSE h \in found : \A g \in found : g <= h>>

\* chain_get_height, which the health and the era are answered from too.
RpcHeight == rpc_height

\* block_id_to_height walks down from the server's own height and stops above 0.
block_id_to_height(hash) ==
  LET found == {h \in stored : h > 0 /\ h <= RpcHeight /\ blocks[h].hash = hash}
  IN  IF found = {} THEN NotFound ELSE <<CHOOSE h \in found : \A g \in found : g <= h>>

\* block_latest, block_get and block_header of a height: the block, or null.
load_block(height) == IF height \in stored THEN <<height>> ELSE NotFound

-----------------------------------------------------------------------------
(* JSON-RPC's own ledger and pool.                                         *)

\* load_account finds nobody, so every nonce reads as 0 (and every balance and stake).
RpcNonce(address) == 0

\* Mempool::insert on the server's own pool, with the limits of run_node's.
RpcAdmitted(t) ==
  /\ Cardinality(rpc_pool) < MAX_SIZE
  /\ ~\E u \in rpc_pool : u.sender = t.sender /\ u.nonce = t.nonce
  /\ Cardinality({u \in rpc_pool : u.sender = t.sender}) < PER_SENDER_CAP

\* tx_submit answers with the hash, whatever insert says.
RpcSubmit(c, sender) ==
  LET t == [sender |-> sender, nonce |-> RpcNonce(sender), kind |-> "Transfer", by |-> c]
  IN
  /\ status = "running" /\ step[c] = "idle" /\ Counted(c)
  /\ rpc_pool' = IF RpcAdmitted(t) THEN rpc_pool \cup {t} ELSE rpc_pool
  /\ UNCHANGED <<vars, key_file, step, key, command, tx, holder, seen, accepted, rpc_height>>

-----------------------------------------------------------------------------
(* The node's own steps.  A start gives the JSON-RPC server its height; a  *)
(* death drops what the REST server was doing.                             *)

\* AppState::new: an engine with a height, which nobody sets again, and a pool without
\* transactions.
RpcNew(height) == rpc_height' = height /\ rpc_pool' = {}

RpcStarts == RpcNew(current_height')

NodeStart == Start /\ RpcStarts
             /\ UNCHANGED <<key_file, step, key, command, tx, holder, seen, accepted, commands>>

NodeDies == Die /\ holder' = Nobody /\ rpc_pool' = {}
            /\ UNCHANGED <<key_file, step, key, command, tx, seen, accepted, commands, rpc_height>>

Genesis == (\E a \in Senders : LoadGenesisAccount(a)) \/ LoadGenesisBlock \/ MarkGenesisLoaded

\* Executing needs the write lock, which a handler that reads the state does not keep.
NodeRuns ==
  /\ Genesis \/ WaitSlot \/ MissSlot \/ Produce \/ StoreBlockFails
  /\ UNCHANGED client

ClientNext ==
  \/ NodeRuns \/ NodeStart \/ NodeDies
  \/ \E c \in Clients :
       \/ Keygen(c) \/ KeygenWrite(c) \/ AskHeight(c) \/ Killed(c)
       \/ \E op \in Operations, to \in Addresses : Begin(c, op, to)
       \/ \E sender \in Addresses : RpcSubmit(c, sender)
       \/ Lock(c) \/ ServeBalance(c) \/ ServePost(c) \/ ServeHeight(c) \/ Refused(c)

\* tokio's Mutex and RwLock are fair: whoever waits for a lock that is released again
\* and again gets it.  The consensus loop ticks.
ClientSpec ==
  /\ ClientInit /\ [][ClientNext]_allvars
  /\ WF_allvars(Produce /\ UNCHANGED client)
  /\ \A c \in Clients :
       /\ SF_allvars(Lock(c)) /\ SF_allvars(ServeBalance(c))
       /\ WF_allvars(ServePost(c) \/ ServeHeight(c)) /\ WF_allvars(Refused(c))

-----------------------------------------------------------------------------
(* Properties.                                                             *)

\* A nonce the REST server gives out is the account's nonce after exactly the blocks in
\* storage: nobody sees the effects of a block that is executed and not yet stored, nor
\* a stored block without its effects (unless a put has failed, or after a restart,
\* where the state is not rebuilt).
AnswersMatchChain ==
  [][\A c \in Clients :
       /\ step[c] = "nonce" /\ step'[c] = "post"
       /\ run = 1 /\ ~db_failed /\ NonceOwner(c) \in Senders
       => tx'[c].nonce = Replay(load_latest_height).nonce[NonceOwner(c)]]_allvars

Mined(t) == \E h \in stored : \E i \in DOMAIN blocks[h].txs : blocks[h].txs[i] = t

\* What a wallet was told is in the pool is in the pool, in the block being made, or in
\* a stored block, for as long as the process lives and its puts succeed.
AcceptedNotLost ==
  status = "running" /\ run = 1 /\ ~db_failed =>
    \A t \in accepted :
      t \in mempool \/ Mined(t) \/ (pc # "idle" /\ \E i \in DOMAIN batch : batch[i] = t)

\* While a node runs, the block the JSON-RPC server calls the latest is there; REST finds
\* every stored block by its hash; JSON-RPC never gives another block for it, and finds
\* every block that was above genesis when the node started.  (block_id_to_height says it
\* starts from the current height; what it does with later blocks is left open here.)
LookupsAgree ==
  status = "running" =>
    /\ load_block(RpcHeight) # NotFound
    /\ \A h \in stored :
         /\ RestByHash(blocks[h].hash) = <<h>>
         /\ block_id_to_height(blocks[h].hash) \in {<<h>>, NotFound}
         /\ h \in 1..rpc_height => block_id_to_height(blocks[h].hash) = <<h>>

\* Every request ends: neither the handler that waits for the state while it keeps the
\* mutex, nor the producer that publishes while it keeps the state, waits for ever.
RequestEnds == \A c \in Clients : step[c] \in Requests ~> step[c] = "idle"
=============================================================================
