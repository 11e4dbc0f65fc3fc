------------------------------ MODULE Startup -------------------------------
(***************************************************************************)
(* run_node from the command line to a running node (mononium-cli node.rs, *)
(* storage/genesis.rs, storage/redb.rs): the configuration is merged and   *)
(* validated, the database opened, the genesis file put into it, one       *)
(* transaction per put, the accounts read back into the state trie and the *)
(* services started.  The process may die between any two steps and be     *)
(* started again with other flags, another file and another genesis.       *)
(*                                                                         *)
(* Simplifications.  One data directory, and no blocks above the genesis:  *)
(* Node.tla has the chain and the check of its last root.  A running node  *)
(* writes to the state through the accessors every handler uses; what the  *)
(* handlers write is StateMachine.tla.  A port may be in use by another    *)
(* process: binding it fails, and the node goes on.                        *)
(***************************************************************************)
EXTENDS Config, Trie

CONSTANTS
  Launches,       \* command lines with the config file they name: [args, file]
  Genesis,        \* the genesis files, by path: [chain_id, accounts, validators]
  KeyFiles,       \* the key files load_key finds: path to address
  Addresses,
  Values,         \* values the running node writes
  Bad,            \* a balance or stake that does not parse
  MaxStarts       \* bound: launches

NS_ACCOUNTS == 0
NS_VALIDATORS == 1
NS_GOVERNANCE == 3
namespace_key(ns, key) == <<ns, key>>

\* tables::ALL_TABLES, as far as this module reads or writes them.
Tables == {"accounts", "validators", "blocks", "meta"}

ASSUME StartupAssumption ==
  /\ {namespace_key(ns, a) : ns \in {NS_ACCOUNTS, NS_VALIDATORS, NS_GOVERNANCE}, a \in Addresses}
       \subseteq TrieKeys
  /\ \A g \in DOMAIN Genesis :
       /\ DOMAIN Genesis[g].accounts \subseteq Addresses
       /\ Len(Genesis[g].validators) \in Nat
       /\ DOMAIN Genesis[g].validators = 1..Len(Genesis[g].validators)
  /\ MaxStarts \in Nat

VARIABLES
  db,          \* the database: a function from keys to values for each table
  stage,       \* where run_node is; "down" between processes
  conf,        \* the merged configuration
  left,        \* genesis accounts load_genesis has still to put
  at,          \* the genesis validator it is at
  trie,        \* the state machine's tree
  listening,   \* the port each service listens on, None if it does not
  identity,    \* the local validator, or None
  starts

startup == <<db, stage, conf, left, at, trie, listening, identity, starts>>
process == <<conf, left, at, trie, listening, identity>>

\* put commits its own transaction: the value is there or the call failed.
put(table, key, value) == [db EXCEPT ![table] = With(db[table], key, value)]
get(table, key) == db[table][key]
list_keys(table) == DOMAIN db[table]
exists(table, key) == key \in list_keys(table)

Silent == [p \in Ports |-> None]

Down ==
  /\ stage' = "down" /\ conf' = NoConfig /\ left' = {} /\ at' = 1
  /\ trie' = EmptyTrie /\ listening' = Silent /\ identity' = None

StartupInit ==
  /\ db = [t \in Tables |-> <<>>]
  /\ stage = "down" /\ conf = NoConfig /\ left = {} /\ at = 1
  /\ trie = EmptyTrie /\ listening = Silent /\ identity = None
  /\ starts = 0

-----------------------------------------------------------------------------
(* Configuration.                                                          *)

FileConfig(file) == IF file = None THEN NoConfig ELSE file.config

Merged(launch) == merge_cli(FileConfig(launch.file), build_cli_overrides(launch.args))

Accepted(launch) ==
  (launch.file # None => Loads(launch.file)) /\ validate(Merged(launch))

Launch(launch) ==
  /\ stage = "down" /\ starts < MaxStarts
  /\ starts' = starts + 1
  /\ Accepted(launch)
  /\ conf' = Merged(launch)
  /\ stage' = "open"
  /\ UNCHANGED <<db, left, at, trie, listening, identity>>

\* load or validate fails, and run_node returns the error.
RefuseConfig(launch) ==
  /\ stage = "down" /\ starts < MaxStarts
  /\ starts' = starts + 1
  /\ ~Accepted(launch)
  /\ UNCHANGED <<db, stage, process>>

-----------------------------------------------------------------------------
(* Database and genesis.                                                   *)

\* RedbEngine::open, ensure_tables, and whether the marker is there.
OpenDatabase ==
  /\ stage = "open"
  /\ stage' = IF exists("meta", "genesis_loaded") THEN "load" ELSE "genesis"
  /\ UNCHANGED <<db, process, starts>>

genesis_file == Genesis[conf["genesis"]]

\* load_genesis reads the file and puts the chain id first.
BeginGenesis ==
  /\ stage = "genesis" /\ conf["genesis"] \in DOMAIN Genesis
  /\ db' = put("meta", "chain_id", genesis_file.chain_id)
  /\ left' = DOMAIN genesis_file.accounts
  /\ stage' = "accounts"
  /\ UNCHANGED <<conf, at, trie, listening, identity, starts>>

\* Mutant of PutAccount: an account that an interrupted load left is not put again.
PutAccountOnce(a) ==
  /\ stage = "accounts" /\ a \in left
  /\ genesis_file.accounts[a] # Bad
  /\ db' = IF exists("accounts", a) THEN db ELSE put("accounts", a, genesis_file.accounts[a])
  /\ left' = left \ {a}
  /\ UNCHANGED <<stage, conf, at, trie, listening, identity, starts>>

\* initial_accounts is a HashMap: they come in any order.
PutAccount(a) ==
  /\ stage = "accounts" /\ a \in left
  /\ genesis_file.accounts[a] # Bad
  /\ db' = put("accounts", a, genesis_file.accounts[a])
  /\ left' = left \ {a}
  /\ UNCHANGED <<stage, conf, at, trie, listening, identity, starts>>

\* initial_validators is a list; each is put as its address and stake, side by side.
PutValidator ==
  /\ stage = "accounts" /\ left = {}
  /\ at <= Len(genesis_file.validators)
  /\ LET v == genesis_file.validators[at]
     IN  v.stake # Bad /\ db' = put("validators", v.address, v.stake)
  /\ at' = at + 1
  /\ UNCHANGED <<stage, conf, left, trie, listening, identity, starts>>

\* The hash of the file is its path here: two files differ.
PutGenesisHash ==
  /\ stage = "accounts" /\ left = {} /\ at > Len(genesis_file.validators)
  /\ db' = put("meta", "genesis_hash", conf["genesis"])
  /\ stage' = "block"
  /\ UNCHANGED <<process, starts>>

PutGenesisBlock ==
  /\ stage = "block"
  /\ db' = put("blocks", 0, genesis_file.chain_id)
  /\ stage' = "mark"
  /\ UNCHANGED <<process, starts>>

MarkLoaded ==
  /\ stage = "mark"
  /\ db' = put("meta", "genesis_loaded", 1)
  /\ stage' = "load"
  /\ UNCHANGED <<process, starts>>

\* The file is not there, or an address, balance or stake does not parse: what was put
\* before stays, and the node does not start.
GenesisFails ==
  /\ \/ stage = "genesis" /\ conf["genesis"] \notin DOMAIN Genesis
     \/ stage = "accounts" /\ \E a \in left : genesis_file.accounts[a] = Bad
     \/ /\ stage = "accounts" /\ left = {} /\ at <= Len(genesis_file.validators)
        /\ genesis_file.validators[at].stake = Bad
  /\ Down
  /\ UNCHANGED <<db, starts>>

-----------------------------------------------------------------------------
(* The state and the services.                                             *)

\* load_state_from_storage, StateMachine::new: every stored account goes into the tree.
LoadState ==
  /\ stage = "load"
  /\ trie' = [leaves |-> [k \in {namespace_key(NS_ACCOUNTS, a) : a \in list_keys("accounts")}
                            |-> get("accounts", k[2])],
              cached_root |-> NoRoot]
  /\ stage' = "services"
  /\ UNCHANGED <<db, conf, left, at, listening, identity, starts>>

\* A service gets its port, or the port is taken.  Port 0 turns P2P and RPC off; REST
\* is bound all the same, to a port the system picks.
Bound(p) ==
  CASE PortOf(conf, p) # 0 -> {PortOf(conf, p), None}
    [] p = "rest_port" -> {0, None}
    [] OTHER -> {None}

\* The key is read from key_file only, and a file that cannot be read is a warning.
LocalValidator ==
  IF ~conf["observer"] /\ conf["key_file"] \in DOMAIN KeyFiles
  THEN KeyFiles[conf["key_file"]] ELSE None

StartServices ==
  /\ stage = "services"
  /\ \E p2p \in Bound("p2p_port"), rpc \in Bound("rpc_port"), rest \in Bound("rest_port") :
       listening' = [p \in Ports |-> CASE p = "p2p_port" -> p2p
                                      [] p = "rpc_port" -> rpc
                                      [] OTHER -> rest]
  /\ identity' = LocalValidator
  /\ stage' = "running"
  /\ UNCHANGED <<db, conf, left, at, trie, starts>>

\* set_account, set_validator and governance_insert.
Write(ns, a, v) ==
  /\ stage = "running"
  /\ trie' = insert(trie, namespace_key(ns, a), v)
  /\ UNCHANGED <<db, stage, conf, left, at, listening, identity, starts>>

\* state_root.
AskRoot ==
  /\ stage = "running"
  /\ trie' = Rooted(trie)
  /\ UNCHANGED <<db, stage, conf, left, at, listening, identity, starts>>

\* A crash, a failed put, a database another process holds open, or ctrl-c.
Die ==
  /\ stage # "down"
  /\ Down
  /\ UNCHANGED <<db, starts>>

StartupNext ==
  \/ \E launch \in Launches : Launch(launch) \/ RefuseConfig(launch)
  \/ OpenDatabase \/ BeginGenesis
  \/ \E a \in Addresses : PutAccount(a)
  \/ PutValidator \/ PutGenesisHash \/ PutGenesisBlock \/ MarkLoaded \/ GenesisFails
  \/ LoadState \/ StartServices
  \/ \E ns \in {NS_ACCOUNTS, NS_VALIDATORS, NS_GOVERNANCE}, a \in Addresses, v \in Values :
       Write(ns, a, v)
  \/ AskRoot
  \/ Die

StartupSpec == StartupInit /\ [][StartupNext]_startup

-----------------------------------------------------------------------------
(* Properties.                                                             *)

\* No two services of a running node share a port, whichever of the file, the flags
\* and the defaults each of the two came from.
PortsApart ==
  \A p, q \in Ports :
    p # q /\ listening[p] \notin {None, 0} => listening[p] # listening[q]

\* A node that gets past the genesis has all of one file: its chain id, hash and block
\* 0 come from the same file, and every account of that file holds the balance the file
\* gives it, whatever parts of other files, or of earlier attempts, are left behind.
GenesisOfOneFile ==
  stage \in {"load", "services", "running"} =>
    LET g == Genesis[db["meta"]["genesis_hash"]] IN
    /\ db["meta"]["chain_id"] = g.chain_id
    /\ db["blocks"][0] = g.chain_id
    /\ \A a \in DOMAIN g.accounts : exists("accounts", a) /\ db["accounts"][a] = g.accounts[a]
    /\ \A i \in DOMAIN g.validators : exists("validators", g.validators[i].address)

\* The root the node would answer is the hash of the whole tree with the leaves it has
\* now, whether it is cached or not and whatever was written since it was asked last.
RootIsCurrent == root(trie) = ReferenceRoot(trie.leaves)
=============================================================================
