---------------------------- MODULE BringUpProofs ---------------------------
(***************************************************************************)
(* What is proved of a node that comes up: that it starts from one genesis *)
(* file, on ports of its own and with a root that is current (Startup and  *)
(* the modules it is made of), and that what it then fetches from its      *)
(* peers is one chain (Sync).                                              *)
(***************************************************************************)
EXTENDS Startup, Sync, SumsProofs, SequenceTheorems

-----------------------------------------------------------------------------
(* Starting a node: genesis and ports.                                     *)

\* A put changes one table.
LEMMA PutFacts ==
  ASSUME DOMAIN db = Tables, NEW t \in Tables, NEW key, NEW value
  PROVE  /\ DOMAIN put(t, key, value) = Tables
         /\ put(t, key, value)[t] = With(db[t], key, value)
         /\ \A u \in Tables : u # t => put(t, key, value)[u] = db[u]
BY DEF put

Past == {"load", "services", "running"}
Loading == {"accounts", "block", "mark"}
Stages == {"down", "open", "genesis"} \cup Loading \cup Past

Loaded == exists("meta", "genesis_loaded")

\* What the file g gives is in the database: its chain id, its accounts but those in `rest`,
\* and its validators up to the one before `upto`.
ChainIdOf(g) == exists("meta", "chain_id") /\ db["meta"]["chain_id"] = g.chain_id
AccountsOf(g, rest) ==
  \A a \in DOMAIN g.accounts \ rest : exists("accounts", a) /\ db["accounts"][a] = g.accounts[a]
ValidatorsOf(g, upto) ==
  \A i \in DOMAIN g.validators : i < upto => exists("validators", g.validators[i].address)

Complete(path) ==
  LET g == Genesis[path] IN
  /\ path \in DOMAIN Genesis
  /\ ChainIdOf(g) /\ AccountsOf(g, {}) /\ ValidatorsOf(g, Len(g.validators) + 1)

HashIs(path) == exists("meta", "genesis_hash") /\ db["meta"]["genesis_hash"] = path

\* The database while and after the genesis file is put into it.
GenesisInv ==
  /\ DOMAIN db = Tables /\ stage \in Stages /\ at \in Nat
  /\ list_keys("accounts") \subseteq Addresses
  /\ stage \in {"down", "open", "genesis"} => at = 1 /\ left = {}
  /\ stage \in {"genesis"} \cup Loading => ~Loaded
  /\ stage \in Past => Loaded
  /\ stage = "accounts" =>
       /\ conf["genesis"] \in DOMAIN Genesis
       /\ ChainIdOf(genesis_file) /\ AccountsOf(genesis_file, left)
       /\ left \subseteq DOMAIN genesis_file.accounts
       /\ at # 1 => left = {}
       /\ ValidatorsOf(genesis_file, at)
  /\ stage \in {"block", "mark"} => Complete(conf["genesis"]) /\ HashIs(conf["genesis"])
  /\ stage = "mark" => exists("blocks", 0) /\ db["blocks"][0] = genesis_file.chain_id
  /\ Loaded => \E path \in DOMAIN Genesis :
                 /\ Complete(path) /\ HashIs(path)
                 /\ exists("blocks", 0) /\ db["blocks"][0] = Genesis[path].chain_id

LEMMA GenesisInitOk == StartupInit => GenesisInv
BY DEF StartupInit, GenesisInv, Stages, Past, Loading, Loaded, exists, list_keys, Tables

\* Steps that leave the database alone and do not start a load.
LEMMA GenesisFrame ==
  ASSUME GenesisInv, db' = db,
         \/ UNCHANGED <<stage, conf, left, at>>
         \/ stage' = "down" /\ at' = 1 /\ left' = {}
         \/ stage' = "open" /\ at' = 1 /\ left' = {}
         \/ stage' = "genesis" /\ ~Loaded /\ at' = 1 /\ left' = {}
         \/ stage' \in Past /\ Loaded /\ at' = at
  PROVE  GenesisInv'
BY DEF GenesisInv, Stages, Past, Loading, Loaded, exists, list_keys, ChainIdOf, AccountsOf,
       ValidatorsOf, Complete, HashIs, genesis_file

LEMMA BeginGenesisOk == ASSUME GenesisInv, BeginGenesis PROVE GenesisInv'
<1> DEFINE t == With(db["meta"], "chain_id", genesis_file.chain_id)
<1>1. /\ DOMAIN db' = Tables /\ db'["meta"] = t
      /\ \A u \in Tables : u # "meta" => db'[u] = db[u]
  BY PutFacts DEF GenesisInv, BeginGenesis, Tables
<1>2. /\ DOMAIN t = DOMAIN db["meta"] \cup {"chain_id"} /\ t["chain_id"] = genesis_file.chain_id
  BY DEF With
<1> HIDE DEF t
<1>3. /\ "accounts" \in Tables /\ "accounts" # "meta" /\ "genesis_loaded" # "chain_id"
  BY DEF Tables
<1>4. /\ stage' = "accounts" /\ conf' = conf /\ at' = at /\ left' = DOMAIN genesis_file.accounts
      /\ stage = "genesis" /\ conf["genesis"] \in DOMAIN Genesis /\ genesis_file' = genesis_file
  BY DEF BeginGenesis, genesis_file
<1>5. ~Loaded'
  BY <1>1, <1>2, <1>3, <1>4 DEF GenesisInv, Loading, Loaded, exists, list_keys
<1>6. ChainIdOf(genesis_file)' /\ AccountsOf(genesis_file, left)' /\ ValidatorsOf(genesis_file, at)'
  <2>1. at = 1
    BY <1>4 DEF GenesisInv
  <2>2. \A i \in DOMAIN genesis_file.validators : ~(i < 1)
    BY <1>4, StartupAssumption DEF genesis_file
  <2>3. ChainIdOf(genesis_file)'
    BY <1>1, <1>2, <1>4 DEF ChainIdOf, exists, list_keys
  <2>4. AccountsOf(genesis_file, left)'
    BY <1>4 DEF AccountsOf
  <2>5. ValidatorsOf(genesis_file, at)'
    BY <1>4, <2>1, <2>2 DEF ValidatorsOf
  <2> QED BY <2>3, <2>4, <2>5
<1>7. list_keys("accounts")' \subseteq Addresses /\ at' = 1
  BY <1>1, <1>3, <1>4 DEF GenesisInv, list_keys
<1> QED
  BY <1>1, <1>4, <1>5, <1>6, <1>7 DEF GenesisInv, Stages, Past, Loading

LEMMA PutAccountOk == ASSUME GenesisInv, NEW a \in Addresses, PutAccount(a) PROVE GenesisInv'
<1> DEFINE t == With(db["accounts"], a, genesis_file.accounts[a])
<1>1. /\ DOMAIN db' = Tables /\ db'["accounts"] = t
      /\ \A u \in Tables : u # "accounts" => db'[u] = db[u]
  BY PutFacts DEF GenesisInv, PutAccount, Tables
<1>2. /\ DOMAIN t = DOMAIN db["accounts"] \cup {a} /\ t[a] = genesis_file.accounts[a]
      /\ \A b \in DOMAIN db["accounts"] : b # a => t[b] = db["accounts"][b]
  BY DEF With
<1> HIDE DEF t
<1>3. db'["meta"] = db["meta"] /\ db'["validators"] = db["validators"]
  BY <1>1 DEF Tables
<1>4. /\ stage' = "accounts" /\ stage = "accounts" /\ conf' = conf /\ at' = at
      /\ left' = left \ {a} /\ a \in left /\ genesis_file' = genesis_file
  BY DEF PutAccount, genesis_file
<1>5. ~Loaded'
  BY <1>3, <1>4 DEF GenesisInv, Loading, Loaded, exists, list_keys
<1>6. AccountsOf(genesis_file, left)'
  <2> SUFFICES ASSUME NEW b \in DOMAIN genesis_file.accounts \ left'
               PROVE  b \in DOMAIN db'["accounts"] /\ db'["accounts"][b] = genesis_file.accounts[b]
    BY <1>4 DEF AccountsOf, exists, list_keys
  <2>1. CASE b = a
    BY <1>1, <1>2, <2>1
  <2>2. CASE b # a
    <3>1. b \in DOMAIN db["accounts"] /\ db["accounts"][b] = genesis_file.accounts[b]
      BY <1>4, <2>2 DEF GenesisInv, AccountsOf, exists, list_keys
    <3> QED BY <1>1, <1>2, <2>2, <3>1
  <2> QED BY <2>1, <2>2
<1>7. ChainIdOf(genesis_file)' /\ ValidatorsOf(genesis_file, at)'
  BY <1>3, <1>4 DEF GenesisInv, ChainIdOf, ValidatorsOf, exists, list_keys
<1>8. list_keys("accounts")' \subseteq Addresses /\ at' \in Nat
  BY <1>1, <1>2, <1>4 DEF GenesisInv, list_keys
<1>9. conf'["genesis"] \in DOMAIN Genesis /\ left' \subseteq DOMAIN genesis_file'.accounts
      /\ (at' # 1 => left' = {})
  BY <1>4 DEF GenesisInv
<1> QED
  BY <1>1, <1>4, <1>5, <1>6, <1>7, <1>8, <1>9 DEF GenesisInv, Stages, Past, Loading

LEMMA PutValidatorOk == ASSUME GenesisInv, PutValidator PROVE GenesisInv'
<1>0. PICK v : v = genesis_file.validators[at]
  OBVIOUS
<1> DEFINE t == With(db["validators"], v.address, v.stake)
<1>1. /\ DOMAIN db' = Tables /\ db'["validators"] = t
      /\ \A u \in Tables : u # "validators" => db'[u] = db[u]
  BY <1>0, PutFacts DEF GenesisInv, PutValidator, Tables
<1>2. DOMAIN t = DOMAIN db["validators"] \cup {v.address}
  BY DEF With
<1> HIDE DEF t
<1>3. db'["meta"] = db["meta"] /\ db'["accounts"] = db["accounts"]
  BY <1>1 DEF Tables
<1>4. /\ stage' = "accounts" /\ stage = "accounts" /\ conf' = conf /\ at' = at + 1
      /\ left' = left /\ left = {} /\ genesis_file' = genesis_file
  BY DEF PutValidator, genesis_file
<1>5. ~Loaded'
  BY <1>3, <1>4 DEF GenesisInv, Loading, Loaded, exists, list_keys
<1>6. ValidatorsOf(genesis_file, at)'
  <2> SUFFICES ASSUME NEW i \in DOMAIN genesis_file.validators, i < at + 1
               PROVE  genesis_file.validators[i].address \in DOMAIN db'["validators"]
    BY <1>4 DEF ValidatorsOf, exists, list_keys
  <2>1. CASE i = at
    BY <1>0, <1>1, <1>2, <2>1
  <2>2. CASE i # at
    <3>1. i \in Nat /\ at \in Nat
      BY <1>4, StartupAssumption DEF GenesisInv, genesis_file
    <3>2. i < at
      BY <2>2, <3>1
    <3> QED BY <1>1, <1>2, <1>4, <3>2 DEF GenesisInv, ValidatorsOf, exists, list_keys
  <2> QED BY <2>1, <2>2
<1>7. ChainIdOf(genesis_file)' /\ AccountsOf(genesis_file, left)'
  BY <1>3, <1>4 DEF GenesisInv, ChainIdOf, AccountsOf, exists, list_keys
<1>8. list_keys("accounts")' \subseteq Addresses /\ at' \in Nat
  BY <1>3, <1>4 DEF GenesisInv, list_keys
<1>9. conf'["genesis"] \in DOMAIN Genesis /\ left' \subseteq DOMAIN genesis_file'.accounts
      /\ (at' # 1 => left' = {})
  BY <1>4 DEF GenesisInv
<1> QED
  BY <1>1, <1>4, <1>5, <1>6, <1>7, <1>8, <1>9 DEF GenesisInv, Stages, Past, Loading

LEMMA PutGenesisHashOk == ASSUME GenesisInv, PutGenesisHash PROVE GenesisInv'
<1>0. PICK path : path = conf["genesis"]
  OBVIOUS
<1> DEFINE t == With(db["meta"], "genesis_hash", path)
<1>1. /\ DOMAIN db' = Tables /\ db'["meta"] = t
      /\ \A u \in Tables : u # "meta" => db'[u] = db[u]
  BY <1>0, PutFacts DEF GenesisInv, PutGenesisHash, Tables
<1>2. /\ DOMAIN t = DOMAIN db["meta"] \cup {"genesis_hash"} /\ t["genesis_hash"] = path
      /\ \A k \in DOMAIN db["meta"] : k # "genesis_hash" => t[k] = db["meta"][k]
  BY DEF With
<1> HIDE DEF t
<1>3. db'["accounts"] = db["accounts"] /\ db'["validators"] = db["validators"]
  BY <1>1 DEF Tables
<1>4. /\ stage' = "block" /\ stage = "accounts" /\ conf' = conf /\ at' = at
      /\ left = {} /\ at > Len(Genesis[path].validators) /\ genesis_file = Genesis[path]
      /\ path \in DOMAIN Genesis
  BY <1>0 DEF GenesisInv, PutGenesisHash, genesis_file, process
<1>5. ~Loaded'
  BY <1>1, <1>2, <1>4 DEF GenesisInv, Loading, Loaded, exists, list_keys
<1>6. HashIs(path)'
  BY <1>1, <1>2 DEF HashIs, exists, list_keys
<1>7. Complete(path)'
  <2> DEFINE g == Genesis[path]
  <2>1. ChainIdOf(g) /\ AccountsOf(g, {}) /\ ValidatorsOf(g, at)
    BY <1>4 DEF GenesisInv
  <2>2. ChainIdOf(g)'
    BY <1>1, <1>2, <2>1 DEF ChainIdOf, exists, list_keys
  <2>3. AccountsOf(g, {})'
    BY <1>3, <2>1 DEF AccountsOf, exists, list_keys
  <2>4. \A i \in DOMAIN g.validators : i < at
    BY <1>4, StartupAssumption DEF GenesisInv
  <2>5. ValidatorsOf(g, Len(g.validators) + 1)'
    BY <1>3, <2>1, <2>4 DEF ValidatorsOf, exists, list_keys
  <2> QED BY <1>4, <2>2, <2>3, <2>5 DEF Complete
<1>8. list_keys("accounts")' \subseteq Addresses /\ at' \in Nat /\ conf'["genesis"] = path
  BY <1>0, <1>3, <1>4 DEF GenesisInv, list_keys
<1> QED
  BY <1>1, <1>4, <1>5, <1>6, <1>7, <1>8 DEF GenesisInv, Stages, Past, Loading

LEMMA PutGenesisBlockOk == ASSUME GenesisInv, PutGenesisBlock PROVE GenesisInv'
<1>0. PICK path, id : path = conf["genesis"] /\ id = genesis_file.chain_id
  OBVIOUS
<1> DEFINE t == With(db["blocks"], 0, id)
<1>1. /\ DOMAIN db' = Tables /\ db'["blocks"] = t
      /\ \A u \in Tables : u # "blocks" => db'[u] = db[u]
  BY <1>0, PutFacts DEF GenesisInv, PutGenesisBlock, Tables
<1>2. 0 \in DOMAIN t /\ t[0] = id
  BY DEF With
<1> HIDE DEF t
<1>3. db'["accounts"] = db["accounts"] /\ db'["validators"] = db["validators"]
      /\ db'["meta"] = db["meta"]
  BY <1>1 DEF Tables
<1>4. /\ stage' = "mark" /\ stage = "block" /\ conf' = conf /\ at' = at
      /\ genesis_file' = genesis_file
  BY <1>0 DEF PutGenesisBlock, genesis_file, process
<1>5. ~Loaded'
  BY <1>3, <1>4 DEF GenesisInv, Loading, Loaded, exists, list_keys
<1>6. Complete(path)' /\ HashIs(path)'
  BY <1>0, <1>3, <1>4 DEF GenesisInv, Complete, HashIs, ChainIdOf, AccountsOf, ValidatorsOf,
                          exists, list_keys
<1>7. exists("blocks", 0)' /\ db'["blocks"][0] = genesis_file'.chain_id
  BY <1>0, <1>1, <1>2, <1>4 DEF exists, list_keys
<1>8. list_keys("accounts")' \subseteq Addresses /\ at' \in Nat /\ conf'["genesis"] = path
  BY <1>0, <1>3, <1>4 DEF GenesisInv, list_keys
<1> QED
  BY <1>1, <1>4, <1>5, <1>6, <1>7, <1>8 DEF GenesisInv, Stages, Past, Loading

LEMMA MarkLoadedOk == ASSUME GenesisInv, MarkLoaded PROVE GenesisInv'
<1>0. PICK path : path = conf["genesis"]
  OBVIOUS
<1> DEFINE t == With(db["meta"], "genesis_loaded", 1)
<1>1. /\ DOMAIN db' = Tables /\ db'["meta"] = t
      /\ \A u \in Tables : u # "meta" => db'[u] = db[u]
  BY PutFacts DEF GenesisInv, MarkLoaded, Tables
<1>2. /\ DOMAIN t = DOMAIN db["meta"] \cup {"genesis_loaded"}
      /\ \A k \in DOMAIN db["meta"] : k # "genesis_loaded" => t[k] = db["meta"][k]
  BY DEF With
<1> HIDE DEF t
<1>3. db'["accounts"] = db["accounts"] /\ db'["validators"] = db["validators"]
      /\ db'["blocks"] = db["blocks"]
  BY <1>1 DEF Tables
<1>4. /\ stage' = "load" /\ stage = "mark" /\ conf' = conf /\ at' = at
      /\ genesis_file = Genesis[path]
  BY <1>0 DEF MarkLoaded, genesis_file, process
<1>5. Loaded'
  BY <1>1, <1>2 DEF Loaded, exists, list_keys
<1>6. Complete(path) /\ HashIs(path) /\ exists("blocks", 0)
      /\ db["blocks"][0] = Genesis[path].chain_id
  BY <1>0, <1>4 DEF GenesisInv
<1>7. Complete(path)'
  <2> DEFINE g == Genesis[path]
  <2>1. ChainIdOf(g)'
    BY <1>1, <1>2, <1>6 DEF Complete, ChainIdOf, exists, list_keys
  <2>2. AccountsOf(g, {})'
    BY <1>3, <1>6 DEF Complete, AccountsOf, exists, list_keys
  <2>3. ValidatorsOf(g, Len(g.validators) + 1)'
    BY <1>3, <1>6 DEF Complete, ValidatorsOf, exists, list_keys
  <2> QED BY <1>6, <2>1, <2>2, <2>3 DEF Complete
<1>8. HashIs(path)'
  BY <1>1, <1>2, <1>6 DEF HashIs, exists, list_keys
<1>9. exists("blocks", 0)' /\ db'["blocks"][0] = Genesis[path].chain_id /\ path \in DOMAIN Genesis
  BY <1>3, <1>6 DEF exists, list_keys, Complete
<1>10. list_keys("accounts")' \subseteq Addresses /\ at' \in Nat
  BY <1>3, <1>4 DEF GenesisInv, list_keys
<1> QED
  BY <1>1, <1>4, <1>5, <1>7, <1>8, <1>9, <1>10 DEF GenesisInv, Stages, Past, Loading

LEMMA GenesisStepOk == GenesisInv /\ [StartupNext]_startup => GenesisInv'
<1> SUFFICES ASSUME GenesisInv, [StartupNext]_startup PROVE GenesisInv'
  OBVIOUS
<1>1. CASE UNCHANGED startup
  BY <1>1, GenesisFrame DEF startup
<1>2. ASSUME NEW launch \in Launches, Launch(launch) \/ RefuseConfig(launch) PROVE GenesisInv'
  <2>1. stage = "down" /\ at = 1 /\ left = {}
    BY <1>2 DEF Launch, RefuseConfig, GenesisInv
  <2> QED BY <1>2, <2>1, GenesisFrame DEF Launch, RefuseConfig, process
<1>3. CASE OpenDatabase
  <2>1. at = 1 /\ left = {}
    BY <1>3 DEF OpenDatabase, GenesisInv
  <2> QED BY <1>3, <2>1, GenesisFrame DEF OpenDatabase, process, Loaded, Past
<1>4. CASE GenesisFails \/ Die
  BY <1>4, GenesisFrame DEF GenesisFails, Die, Down
<1>5. CASE LoadState \/ StartServices
  BY <1>5, GenesisFrame DEF LoadState, StartServices, GenesisInv, Past
<1>6. CASE \/ \E ns \in {NS_ACCOUNTS, NS_VALIDATORS, NS_GOVERNANCE}, a \in Addresses, v \in Values :
                Write(ns, a, v)
           \/ AskRoot
  BY <1>6, GenesisFrame DEF Write, AskRoot
<1> QED
  BY <1>1, <1>2, <1>3, <1>4, <1>5, <1>6, BeginGenesisOk, PutAccountOk, PutValidatorOk,
     PutGenesisHashOk, PutGenesisBlockOk, MarkLoadedOk DEF StartupNext

LEMMA GenesisAlways == StartupSpec => []GenesisInv
BY GenesisInitOk, GenesisStepOk, PTL DEF StartupSpec

\* A node that gets past the genesis has all of one file, however often earlier starts were
\* interrupted between two puts, with this file or with another.
THEOREM GenesisOfOneFileHolds == StartupSpec => []GenesisOfOneFile
<1>1. GenesisInv => GenesisOfOneFile
  <2> SUFFICES ASSUME GenesisInv, stage \in Past PROVE GenesisOfOneFile
    BY DEF GenesisOfOneFile, Past
  <2>1. PICK path \in DOMAIN Genesis :
          /\ Complete(path) /\ HashIs(path)
          /\ exists("blocks", 0) /\ db["blocks"][0] = Genesis[path].chain_id
    BY DEF GenesisInv
  <2>2. db["meta"]["genesis_hash"] = path
    BY <2>1 DEF HashIs
  <2>3. \A i \in DOMAIN Genesis[path].validators : i < Len(Genesis[path].validators) + 1
    BY StartupAssumption
  <2> QED
    BY <2>1, <2>2, <2>3 DEF GenesisOfOneFile, Complete, ChainIdOf, AccountsOf, ValidatorsOf
<1> QED BY <1>1, GenesisAlways, PTL

\* A service listens on the port the configuration gives it, if on any.
PortsInv ==
  /\ stage \notin {"down"} => PortsOk(conf)
  /\ \A p \in Ports : listening[p] \in {None, 0, PortOf(conf, p)}
  /\ stage # "running" => \A p \in Ports : listening[p] = None

\* No two services of a running node share a port: validate compared the ports that the
\* accessors supply, and a service binds its own or none.
THEOREM PortsApartHolds == StartupSpec => []PortsApart
<1>1. StartupInit => PortsInv
  BY DEF StartupInit, PortsInv, Silent
<1>2. PortsInv /\ [StartupNext]_startup => PortsInv'
  <2> SUFFICES ASSUME PortsInv, [StartupNext]_startup PROVE PortsInv'
    OBVIOUS
  <2>1. CASE \E launch \in Launches : Launch(launch)
    BY <2>1 DEF PortsInv, Launch, Accepted, validate
  <2>2. CASE Down
    BY <2>2 DEF PortsInv, Down, Silent
  <2>3. CASE StartServices
    <3>1. stage' = "running" /\ conf' = conf /\ PortsOk(conf)
      BY <2>3 DEF StartServices, PortsInv
    <3>2. \A p \in Ports : listening'[p] \in Bound(p)
      BY <2>3 DEF StartServices, Ports
    <3>3. \A p \in Ports : Bound(p) \subseteq {None, 0, PortOf(conf, p)}
      BY DEF Bound
    <3>4. \A p \in Ports : listening'[p] \in {None, 0, PortOf(conf', p)}
      BY <3>1, <3>2, <3>3
    <3> QED BY <3>1, <3>4 DEF PortsInv
  <2>4. CASE /\ UNCHANGED <<conf, listening>>
             /\ stage' = "down" => stage = "down"
             /\ stage' # "running" => stage # "running"
             /\ stage = "down" => stage' = "down"
    BY <2>4 DEF PortsInv
  <2> QED
    BY <2>1, <2>2, <2>3, <2>4
    DEF StartupNext, startup, process, RefuseConfig, OpenDatabase, BeginGenesis, PutAccount,
        PutValidator, PutGenesisHash, PutGenesisBlock, MarkLoaded, GenesisFails, LoadState,
        Write, AskRoot, Die
<1>3. PortsInv => PortsApart
  <2> SUFFICES ASSUME PortsInv, NEW p \in Ports, NEW q \in Ports, p # q,
                      listening[p] \notin {None, 0}
               PROVE  listening[p] # listening[q]
    BY DEF PortsApart
  <2>1. stage # "down"
    BY DEF PortsInv
  <2>2. listening[p] = PortOf(conf, p) /\ PortOf(conf, p) # 0
    BY DEF PortsInv
  <2>3. PortOf(conf, p) # PortOf(conf, q)
    BY <2>1, <2>2 DEF PortsInv, PortsOk
  <2> QED BY <2>2, <2>3 DEF PortsInv
<1> QED BY <1>1, <1>2, <1>3, PTL DEF StartupSpec
-----------------------------------------------------------------------------
(* The state trie.                                                         *)

\* The recursive functions of module Trie exist: they satisfy their definitions.
LEMMA WidthRecursion ==
  Width = [d \in 0..DEPTH |-> IF d = 0 THEN 1 ELSE 2 * Width[d - 1]]
<1>0. DEPTH \in Nat
  BY TrieAssumption
<1> DEFINE Body(g, d) == IF d = 0 THEN 1 ELSE 2 * g[d - 1]
           Defined == {m \in 0..DEPTH : \E g : g = [d \in 0..m |-> Body(g, d)]}
<1>1. 0 \in Defined
  <2> DEFINE g == [d \in 0..0 |-> 1]
  <2>1. g = [d \in 0..0 |-> Body(g, d)]
    OBVIOUS
  <2> HIDE DEF g
  <2>2. \E k : k = [d \in 0..0 |-> Body(k, d)]
    BY <2>1
  <2> HIDE DEF Body
  <2> QED BY <1>0, <2>2
<1>2. ASSUME NEW m \in 0..(DEPTH - 1), m \in Defined PROVE m + 1 \in Defined
  <2>1. PICK g : g = [d \in 0..m |-> Body(g, d)]
    BY <1>2
  <2> DEFINE f == [d \in 0..(m + 1) |-> IF d = m + 1 THEN Body(g, m + 1) ELSE g[d]]
  <2>2. ASSUME NEW d \in 0..(m + 1) PROVE f[d] = Body(f, d)
    <3>1. d # 0 => d - 1 \in 0..m
      OBVIOUS
    <3>2. d # 0 => f[d - 1] = g[d - 1]
      <4> HIDE DEF Body
      <4> QED BY <3>1
    <3>3. f[d] = Body(g, d)
      <4> HIDE DEF Body
      <4>1. CASE d = m + 1
        BY <4>1
      <4>2. CASE d # m + 1
        <5>1. d \in 0..m
          BY <4>2
        <5>2. g[d] = Body(g, d)
          BY <5>1, <2>1
        <5> QED BY <4>2, <5>2
      <4> QED BY <4>1, <4>2
    <3> HIDE DEF f
    <3> QED BY <3>2, <3>3
  <2>3. f = [d \in 0..(m + 1) |-> f[d]]
    <3> HIDE DEF Body
    <3> QED OBVIOUS
  <2> HIDE DEF f
  <2>4. f = [d \in 0..(m + 1) |-> Body(f, d)]
    <3> HIDE DEF Body
    <3> QED BY <2>2, <2>3
  <2>5. \E k : k = [d \in 0..(m + 1) |-> Body(k, d)]
    BY <2>4
  <2>6. m + 1 \in 0..DEPTH
    BY <1>0
  <2> QED BY <2>5, <2>6
<1>3. \A m \in 0..DEPTH : m \in Defined
  <2> HIDE DEF Defined
  <2> QED BY <1>0, <1>1, <1>2, UpTo
<1>4. \E g : g = [d \in 0..DEPTH |-> Body(g, d)]
  <2>1. DEPTH \in Defined
    <3> HIDE DEF Defined
    <3> QED BY <1>0, <1>3
  <2> QED BY <2>1, Zenon
<1> QED BY <1>4, Zenon DEF Width

LEMMA DefaultsRecursion ==
  defaults = [d \in 0..DEPTH |->
                IF d = 0 THEN EMPTY_HASH ELSE HashNode(defaults[d - 1], defaults[d - 1])]
<1>0. DEPTH \in Nat
  BY TrieAssumption
<1> DEFINE Body(g, d) == IF d = 0 THEN EMPTY_HASH ELSE HashNode(g[d - 1], g[d - 1])
           Defined == {m \in 0..DEPTH : \E g : g = [d \in 0..m |-> Body(g, d)]}
<1>1. 0 \in Defined
  <2> DEFINE g == [d \in 0..0 |-> EMPTY_HASH]
  <2>1. g = [d \in 0..0 |-> Body(g, d)]
    OBVIOUS
  <2> HIDE DEF g
  <2>2. \E k : k = [d \in 0..0 |-> Body(k, d)]
    BY <2>1
  <2> HIDE DEF Body
  <2> QED BY <1>0, <2>2
<1>2. ASSUME NEW m \in 0..(DEPTH - 1), m \in Defined PROVE m + 1 \in Defined
  <2>1. PICK g : g = [d \in 0..m |-> Body(g, d)]
    BY <1>2
  <2> DEFINE f == [d \in 0..(m + 1) |-> IF d = m + 1 THEN Body(g, m + 1) ELSE g[d]]
  <2>2. ASSUME NEW d \in 0..(m + 1) PROVE f[d] = Body(f, d)
    <3>1. d # 0 => d - 1 \in 0..m
      OBVIOUS
    <3>2. d # 0 => f[d - 1] = g[d - 1]
      <4> HIDE DEF Body
      <4> QED BY <3>1
    <3>3. f[d] = Body(g, d)
      <4> HIDE DEF Body
      <4>1. CASE d = m + 1
        BY <4>1
      <4>2. CASE d # m + 1
        <5>1. d \in 0..m
          BY <4>2
        <5>2. g[d] = Body(g, d)
          BY <5>1, <2>1
        <5> QED BY <4>2, <5>2
      <4> QED BY <4>1, <4>2
    <3> HIDE DEF f
    <3> QED BY <3>2, <3>3
  <2>3. f = [d \in 0..(m + 1) |-> f[d]]
    <3> HIDE DEF Body
    <3> QED OBVIOUS
  <2> HIDE DEF f
  <2>4. f = [d \in 0..(m + 1) |-> Body(f, d)]
    <3> HIDE DEF Body
    <3> QED BY <2>2, <2>3
  <2>5. \E k : k = [d \in 0..(m + 1) |-> Body(k, d)]
    BY <2>4
  <2>6. m + 1 \in 0..DEPTH
    BY <1>0
  <2> QED BY <2>5, <2>6
<1>3. \A m \in 0..DEPTH : m \in Defined
  <2> HIDE DEF Defined
  <2> QED BY <1>0, <1>1, <1>2, UpTo
<1>4. \E g : g = [d \in 0..DEPTH |-> Body(g, d)]
  <2>1. DEPTH \in Defined
    <3> HIDE DEF Defined
    <3> QED BY <1>0, <1>3
  <2> QED BY <2>1, Zenon
<1> QED BY <1>4, Zenon DEF defaults

\* The leaves that were written, by their positions.
LeafLevel(leaves) ==
  [pos \in {PathOf[k] : k \in DOMAIN leaves} |->
     HashLeaf(leaves[CHOOSE k \in DOMAIN leaves : PathOf[k] = pos])]

LEMMA LevelRecursion ==
  ASSUME NEW leaves
  PROVE  \E g : /\ g = [d \in 0..DEPTH |->
                          IF d = 0 THEN LeafLevel(leaves) ELSE LevelAbove(g[d - 1], d - 1)]
                /\ compute_root(leaves) = g[DEPTH][0]
<1>0. DEPTH \in Nat
  BY TrieAssumption
<1> DEFINE Body(g, d) == IF d = 0 THEN LeafLevel(leaves) ELSE LevelAbove(g[d - 1], d - 1)
           Defined == {m \in 0..DEPTH : \E g : g = [d \in 0..m |-> Body(g, d)]}
<1>1. 0 \in Defined
  <2> DEFINE g == [d \in 0..0 |-> LeafLevel(leaves)]
  <2>1. g = [d \in 0..0 |-> Body(g, d)]
    OBVIOUS
  <2> HIDE DEF g
  <2>2. \E k : k = [d \in 0..0 |-> Body(k, d)]
    BY <2>1
  <2> HIDE DEF Body
  <2> QED BY <1>0, <2>2
<1>2. ASSUME NEW m \in 0..(DEPTH - 1), m \in Defined PROVE m + 1 \in Defined
  <2>1. PICK g : g = [d \in 0..m |-> Body(g, d)]
    BY <1>2
  <2> DEFINE f == [d \in 0..(m + 1) |-> IF d = m + 1 THEN Body(g, m + 1) ELSE g[d]]
  <2>2. ASSUME NEW d \in 0..(m + 1) PROVE f[d] = Body(f, d)
    <3>1. d # 0 => d - 1 \in 0..m
      OBVIOUS
    <3>2. d # 0 => f[d - 1] = g[d - 1]
      <4> HIDE DEF Body
      <4> QED BY <3>1
    <3>3. f[d] = Body(g, d)
      <4> HIDE DEF Body
      <4>1. CASE d = m + 1
        BY <4>1
      <4>2. CASE d # m + 1
        <5>1. d \in 0..m
          BY <4>2
        <5>2. g[d] = Body(g, d)
          BY <5>1, <2>1
        <5> QED BY <4>2, <5>2
      <4> QED BY <4>1, <4>2
    <3> HIDE DEF f
    <3> QED BY <3>2, <3>3
  <2>3. f = [d \in 0..(m + 1) |-> f[d]]
    <3> HIDE DEF Body
    <3> QED OBVIOUS
  <2> HIDE DEF f
  <2>4. f = [d \in 0..(m + 1) |-> Body(f, d)]
    <3> HIDE DEF Body
    <3> QED BY <2>2, <2>3
  <2>5. \E k : k = [d \in 0..(m + 1) |-> Body(k, d)]
    BY <2>4
  <2>6. m + 1 \in 0..DEPTH
    BY <1>0
  <2> QED BY <2>5, <2>6
<1>3. \A m \in 0..DEPTH : m \in Defined
  <2> HIDE DEF Defined
  <2> QED BY <1>0, <1>1, <1>2, UpTo
<1>4. \E g : g = [d \in 0..DEPTH |-> Body(g, d)]
  <2>1. DEPTH \in Defined
    <3> HIDE DEF Defined
    <3> QED BY <1>0, <1>3
  <2> QED BY <2>1, Zenon
<1> DEFINE level == CHOOSE g : g = [d \in 0..DEPTH |-> Body(g, d)]
<1>5. level = [d \in 0..DEPTH |-> Body(level, d)]
  BY <1>4, Zenon
<1>6. compute_root(leaves) = level[DEPTH][0]
  BY Zenon DEF compute_root, LeafLevel
<1> HIDE DEF level
<1> QED BY <1>5, <1>6

LEMMA FullRecursion ==
  ASSUME NEW leaves
  PROVE  \E g : /\ g = [d \in 0..DEPTH |->
                          [pos \in Nat |->
                             IF d = 0 THEN LeafAt(leaves, pos)
                             ELSE HashNode(g[d - 1][2 * pos], g[d - 1][2 * pos + 1])]]
                /\ ReferenceRoot(leaves) = g[DEPTH][0]
<1>0. DEPTH \in Nat
  BY TrieAssumption
<1> DEFINE Body(g, d) == [pos \in Nat |->
                            IF d = 0 THEN LeafAt(leaves, pos)
                            ELSE HashNode(g[d - 1][2 * pos], g[d - 1][2 * pos + 1])]
           Defined == {m \in 0..DEPTH : \E g : g = [d \in 0..m |-> Body(g, d)]}
<1>1. 0 \in Defined
  <2> DEFINE g == [d \in 0..0 |-> [pos \in Nat |-> LeafAt(leaves, pos)]]
  <2>1. g = [d \in 0..0 |-> Body(g, d)]
    OBVIOUS
  <2> HIDE DEF g
  <2>2. \E k : k = [d \in 0..0 |-> Body(k, d)]
    BY <2>1
  <2> HIDE DEF Body
  <2> QED BY <1>0, <2>2
<1>2. ASSUME NEW m \in 0..(DEPTH - 1), m \in Defined PROVE m + 1 \in Defined
  <2>1. PICK g : g = [d \in 0..m |-> Body(g, d)]
    BY <1>2
  <2> DEFINE f == [d \in 0..(m + 1) |-> IF d = m + 1 THEN Body(g, m + 1) ELSE g[d]]
  <2>2. ASSUME NEW d \in 0..(m + 1) PROVE f[d] = Body(f, d)
    <3>1. d # 0 => d - 1 \in 0..m
      OBVIOUS
    <3>2. d # 0 => f[d - 1] = g[d - 1]
      <4> HIDE DEF Body
      <4> QED BY <3>1
    <3>3. f[d] = Body(g, d)
      <4> HIDE DEF Body
      <4>1. CASE d = m + 1
        BY <4>1
      <4>2. CASE d # m + 1
        <5>1. d \in 0..m
          BY <4>2
        <5>2. g[d] = Body(g, d)
          BY <5>1, <2>1
        <5> QED BY <4>2, <5>2
      <4> QED BY <4>1, <4>2
    <3> HIDE DEF f
    <3> QED BY <3>2, <3>3
  <2>3. f = [d \in 0..(m + 1) |-> f[d]]
    <3> HIDE DEF Body
    <3> QED OBVIOUS
  <2> HIDE DEF f
  <2>4. f = [d \in 0..(m + 1) |-> Body(f, d)]
    <3> HIDE DEF Body
    <3> QED BY <2>2, <2>3
  <2>5. \E k : k = [d \in 0..(m + 1) |-> Body(k, d)]
    BY <2>4
  <2>6. m + 1 \in 0..DEPTH
    BY <1>0
  <2> QED BY <2>5, <2>6
<1>3. \A m \in 0..DEPTH : m \in Defined
  <2> HIDE DEF Defined
  <2> QED BY <1>0, <1>1, <1>2, UpTo
<1>4. \E g : g = [d \in 0..DEPTH |-> Body(g, d)]
  <2>1. DEPTH \in Defined
    <3> HIDE DEF Defined
    <3> QED BY <1>0, <1>3
  <2> QED BY <2>1, Zenon
<1> DEFINE full == CHOOSE g : g = [d \in 0..DEPTH |-> Body(g, d)]
<1>5. full = [d \in 0..DEPTH |-> Body(full, d)]
  BY <1>4, Zenon
<1>6. ReferenceRoot(leaves) = full[DEPTH][0]
  BY Zenon DEF ReferenceRoot
<1> HIDE DEF full
<1> QED BY <1>5, <1>6

LEMMA WidthFacts ==
  /\ Width[0] = 1
  /\ \A d \in 0..(DEPTH - 1) : Width[d + 1] = 2 * Width[d]
  /\ \A d \in 0..DEPTH : Width[d] \in Nat
<1>0. DEPTH \in Nat
  BY TrieAssumption
<1>1. Width[0] = 1
  BY <1>0, WidthRecursion
<1>2. ASSUME NEW d \in 0..(DEPTH - 1) PROVE Width[d + 1] = 2 * Width[d]
  <2>1. d + 1 \in 0..DEPTH /\ d + 1 # 0 /\ (d + 1) - 1 = d
    BY <1>0
  <2> QED BY <2>1, WidthRecursion
<1> DEFINE Good == {d \in 0..DEPTH : Width[d] \in Nat}
<1>3. 0 \in Good
  BY <1>0, <1>1
<1>4. ASSUME NEW d \in 0..(DEPTH - 1), d \in Good PROVE d + 1 \in Good
  BY <1>0, <1>2, <1>4
<1>5. \A d \in 0..DEPTH : d \in Good
  <2> HIDE DEF Good
  <2> QED BY <1>0, <1>3, <1>4, UpTo
<1> QED BY <1>1, <1>2, <1>5

LEMMA DefaultsFacts ==
  /\ defaults[0] = EMPTY_HASH
  /\ \A d \in 0..(DEPTH - 1) : defaults[d + 1] = HashNode(defaults[d], defaults[d])
<1>0. DEPTH \in Nat
  BY TrieAssumption
<1>1. defaults[0] = EMPTY_HASH
  BY <1>0, DefaultsRecursion
<1>2. ASSUME NEW d \in 0..(DEPTH - 1) PROVE defaults[d + 1] = HashNode(defaults[d], defaults[d])
  <2>1. d + 1 \in 0..DEPTH /\ d + 1 # 0 /\ (d + 1) - 1 = d
    BY <1>0
  <2> QED BY <2>1, DefaultsRecursion
<1> QED BY <1>1, <1>2

\* A node of the sparse tree, or the default hash of its depth where there is none.
NodeHash(nodes, d, pos) == IF pos \in DOMAIN nodes THEN nodes[pos] ELSE defaults[d]

LEMMA Halving ==
  ASSUME NEW pos \in Nat, NEW p \in Nat
  PROVE  p \div 2 = pos <=> p = 2 * pos \/ p = 2 * pos + 1
OBVIOUS

LEMMA LevelAboveDomain ==
  ASSUME NEW nodes, NEW d PROVE DOMAIN LevelAbove(nodes, d) = {p \div 2 : p \in DOMAIN nodes}
BY DEF LevelAbove

\* One level up: where there is a node its hash is that of its children, and where there is
\* none its children are not there either.
LEMMA LevelAboveFacts ==
  ASSUME NEW nodes, DOMAIN nodes \in SUBSET Nat, NEW d \in 0..(DEPTH - 1), NEW pos \in Nat
  PROVE  /\ DOMAIN LevelAbove(nodes, d) \in SUBSET Nat
         /\ NodeHash(LevelAbove(nodes, d), d + 1, pos) =
              HashNode(NodeHash(nodes, d, 2 * pos), NodeHash(nodes, d, 2 * pos + 1))
<1> DEFINE up == LevelAbove(nodes, d)
<1>1. up = [q \in {p \div 2 : p \in DOMAIN nodes} |->
              HashNode(NodeHash(nodes, d, 2 * q), NodeHash(nodes, d, 2 * q + 1))]
  BY DEF LevelAbove, NodeHash
<1>2. DOMAIN up = {p \div 2 : p \in DOMAIN nodes}
  BY <1>1
<1>3. DOMAIN up \in SUBSET Nat
  BY <1>2
<1>4. pos \in DOMAIN up <=> 2 * pos \in DOMAIN nodes \/ 2 * pos + 1 \in DOMAIN nodes
  <2>1. pos \in DOMAIN up <=> \E p \in DOMAIN nodes : p \div 2 = pos
    BY <1>2
  <2> HIDE DEF up
  <2>2. 2 * pos \in Nat /\ 2 * pos + 1 \in Nat
    OBVIOUS
  <2> QED BY <2>1, <2>2, Halving
<1> HIDE DEF up
<1>5. ASSUME pos \in DOMAIN up
      PROVE  NodeHash(up, d + 1, pos) =
               HashNode(NodeHash(nodes, d, 2 * pos), NodeHash(nodes, d, 2 * pos + 1))
  <2>1. NodeHash(up, d + 1, pos) = up[pos]
    BY <1>5 DEF NodeHash
  <2> QED BY <1>1, <1>2, <1>5, <2>1
<1>6. ASSUME pos \notin DOMAIN up
      PROVE  NodeHash(up, d + 1, pos) =
               HashNode(NodeHash(nodes, d, 2 * pos), NodeHash(nodes, d, 2 * pos + 1))
  <2>1. NodeHash(up, d + 1, pos) = HashNode(defaults[d], defaults[d])
    BY <1>6, DefaultsFacts DEF NodeHash
  <2> QED BY <1>4, <1>6, <2>1 DEF NodeHash
<1>7. NodeHash(up, d + 1, pos) =
        HashNode(NodeHash(nodes, d, 2 * pos), NodeHash(nodes, d, 2 * pos + 1))
  BY <1>5, <1>6
<1> QED BY <1>3, <1>7 DEF up

\* The leaves a trie may have.
Leaves(leaves) == DOMAIN leaves \subseteq TrieKeys

LEMMA RootReference ==
  ASSUME NEW leaves, Leaves(leaves)
  PROVE  /\ DOMAIN leaves = {} => ReferenceRoot(leaves) = defaults[DEPTH]
         /\ DOMAIN leaves # {} => ReferenceRoot(leaves) = compute_root(leaves)
<1>0. DEPTH \in Nat
  BY TrieAssumption
<1>1. PICK level : /\ level = [d \in 0..DEPTH |-> IF d = 0 THEN LeafLevel(leaves)
                                                  ELSE LevelAbove(level[d - 1], d - 1)]
                   /\ compute_root(leaves) = level[DEPTH][0]
  BY LevelRecursion
<1>2. PICK full : /\ full = [d \in 0..DEPTH |->
                               [pos \in Nat |->
                                  IF d = 0 THEN LeafAt(leaves, pos)
                                  ELSE HashNode(full[d - 1][2 * pos], full[d - 1][2 * pos + 1])]]
                  /\ ReferenceRoot(leaves) = full[DEPTH][0]
  BY FullRecursion
<1>3. level[0] = LeafLevel(leaves) /\ \A pos \in Nat : full[0][pos] = LeafAt(leaves, pos)
  BY <1>0, <1>1, <1>2
<1>4. ASSUME NEW d \in 0..(DEPTH - 1)
      PROVE  /\ level[d + 1] = LevelAbove(level[d], d)
             /\ DOMAIN level[d + 1] = {p \div 2 : p \in DOMAIN level[d]}
             /\ \A pos \in Nat : full[d + 1][pos] = HashNode(full[d][2 * pos], full[d][2 * pos + 1])
  <2>1. d + 1 \in 0..DEPTH /\ d + 1 # 0 /\ (d + 1) - 1 = d
    BY <1>0
  <2>2. level[d + 1] = LevelAbove(level[d], d)
    BY <1>1, <2>1
  <2>3. full[d + 1] = [pos \in Nat |-> HashNode(full[d][2 * pos], full[d][2 * pos + 1])]
    BY <1>2, <2>1
  <2>4. \A pos \in Nat : full[d + 1][pos] = HashNode(full[d][2 * pos], full[d][2 * pos + 1])
    BY <2>3
  <2>5. DOMAIN LevelAbove(level[d], d) = {p \div 2 : p \in DOMAIN level[d]}
    BY LevelAboveDomain
  <2> QED BY <2>2, <2>4, <2>5
<1>5. compute_root(leaves) = level[DEPTH][0] /\ ReferenceRoot(leaves) = full[DEPTH][0]
  BY <1>1, <1>2
\* Level by level, the full tree is the sparse one with the defaults filled in.
<1> DEFINE Same(d) == /\ DOMAIN level[d] \in SUBSET Nat
                      /\ \A pos \in Nat : full[d][pos] = NodeHash(level[d], d, pos)
           Good == {d \in 0..DEPTH : Same(d)}
<1>6. 0 \in Good
  <2>1. DOMAIN level[0] = {PathOf[k] : k \in DOMAIN leaves}
    BY <1>3 DEF LeafLevel
  <2>2. \A k \in DOMAIN leaves : PathOf[k] \in Nat
    BY TrieAssumption, WidthFacts, <1>0 DEF Leaves
  <2>3. ASSUME NEW pos \in Nat PROVE LeafAt(leaves, pos) = NodeHash(level[0], 0, pos)
    <3>1. CASE \E k \in DOMAIN leaves : PathOf[k] = pos
      BY <1>3, <3>1 DEF LeafAt, NodeHash, LeafLevel
    <3>2. CASE ~\E k \in DOMAIN leaves : PathOf[k] = pos
      BY <1>3, <3>2, DefaultsFacts DEF LeafAt, NodeHash, LeafLevel
    <3> QED BY <3>1, <3>2
  <2>4. Same(0)
    BY <1>3, <2>1, <2>2, <2>3
  <2> HIDE DEF Same
  <2> QED BY <1>0, <2>4
<1>7. ASSUME NEW d \in 0..(DEPTH - 1), d \in Good PROVE d + 1 \in Good
  <2>1. Same(d)
    <3> HIDE DEF Same
    <3> QED BY <1>7
  <2>2. DOMAIN level[d] \in SUBSET Nat
    BY <2>1
  <2>3. ASSUME NEW pos \in Nat
        PROVE  /\ DOMAIN level[d + 1] \in SUBSET Nat
               /\ full[d + 1][pos] = NodeHash(level[d + 1], d + 1, pos)
    <3>1. /\ full[d][2 * pos] = NodeHash(level[d], d, 2 * pos)
          /\ full[d][2 * pos + 1] = NodeHash(level[d], d, 2 * pos + 1)
      <4>1. 2 * pos \in Nat /\ 2 * pos + 1 \in Nat
        OBVIOUS
      <4> QED BY <2>1, <4>1
    <3>2. full[d + 1][pos] = HashNode(full[d][2 * pos], full[d][2 * pos + 1])
      BY <1>4
    <3>3. level[d + 1] = LevelAbove(level[d], d)
      BY <1>4
    <3>4. /\ DOMAIN LevelAbove(level[d], d) \in SUBSET Nat
          /\ NodeHash(LevelAbove(level[d], d), d + 1, pos) =
               HashNode(NodeHash(level[d], d, 2 * pos), NodeHash(level[d], d, 2 * pos + 1))
      BY <2>2, LevelAboveFacts
    <3> QED BY <3>1, <3>2, <3>3, <3>4
  <2>4. Same(d + 1) /\ d + 1 \in 0..DEPTH
    BY <1>0, <2>3
  <2> HIDE DEF Same
  <2> QED BY <2>4
<1>8. \A d \in 0..DEPTH : Same(d)
  <2>1. \A d \in 0..DEPTH : d \in Good
    <3> HIDE DEF Good
    <3> QED BY <1>0, <1>6, <1>7, UpTo
  <2> HIDE DEF Same
  <2> QED BY <2>1
<1>9. ReferenceRoot(leaves) = NodeHash(level[DEPTH], DEPTH, 0)
  BY <1>0, <1>5, <1>8
<1>10. ASSUME DOMAIN leaves = {} PROVE ReferenceRoot(leaves) = defaults[DEPTH]
  <2> DEFINE Bare == {d \in 0..DEPTH : DOMAIN level[d] = {}}
  <2>1. 0 \in Bare
    BY <1>0, <1>3, <1>10 DEF LeafLevel
  <2>2. ASSUME NEW d \in 0..(DEPTH - 1), d \in Bare PROVE d + 1 \in Bare
    <3>1. DOMAIN level[d + 1] = {p \div 2 : p \in DOMAIN level[d]}
      BY <1>4
    <3>2. d + 1 \in 0..DEPTH
      BY <1>0
    <3> QED BY <2>2, <3>1, <3>2
  <2>3. DEPTH \in Bare
    <3> HIDE DEF Bare
    <3> QED BY <1>0, <2>1, <2>2, UpTo
  <2> QED BY <1>9, <2>3 DEF NodeHash
<1>11. ASSUME DOMAIN leaves # {} PROVE ReferenceRoot(leaves) = compute_root(leaves)
  \* Some node of every level is within the level's width, and the top one is 1 wide.
  <2> DEFINE Held == {d \in 0..DEPTH : \E pos \in DOMAIN level[d] : pos < Width[DEPTH - d]}
  <2>1. 0 \in Held
    <3>1. PICK k \in DOMAIN leaves : TRUE
      BY <1>11
    <3>2. PathOf[k] \in DOMAIN level[0] /\ PathOf[k] < Width[DEPTH - 0]
      <4>1. PathOf[k] \in 0..(Width[DEPTH] - 1) /\ Width[DEPTH] \in Nat /\ DEPTH - 0 = DEPTH
        BY <1>0, TrieAssumption, WidthFacts DEF Leaves
      <4>2. DOMAIN level[0] = {PathOf[j] : j \in DOMAIN leaves}
        BY <1>3 DEF LeafLevel
      <4> QED BY <4>1, <4>2
    <3> QED BY <1>0, <3>2
  <2>2. ASSUME NEW d \in 0..(DEPTH - 1), d \in Held PROVE d + 1 \in Held
    <3>1. PICK pos \in DOMAIN level[d] : pos < Width[DEPTH - d]
      BY <2>2
    <3>2. DEPTH - (d + 1) \in 0..(DEPTH - 1) /\ (DEPTH - (d + 1)) + 1 = DEPTH - d
          /\ DEPTH - (d + 1) \in 0..DEPTH
      BY <1>0
    <3>3. Width[DEPTH - d] = 2 * Width[DEPTH - (d + 1)] /\ Width[DEPTH - (d + 1)] \in Nat
      BY <3>2, WidthFacts
    <3>4. pos \in Nat
      BY <1>0, <1>8, <3>1
    <3>5. pos \div 2 < Width[DEPTH - (d + 1)]
      <4> DEFINE w == Width[DEPTH - (d + 1)]
      <4>1. w \in Nat /\ pos < 2 * w
        BY <3>1, <3>3
      <4> HIDE DEF w
      <4>2. pos \div 2 < w
        BY <3>4, <4>1
      <4> QED BY <4>2 DEF w
    <3>6. pos \div 2 \in DOMAIN level[d + 1]
      <4>1. DOMAIN level[d + 1] = {p \div 2 : p \in DOMAIN level[d]}
        BY <1>4
      <4> QED BY <3>1, <4>1
    <3>7. d + 1 \in 0..DEPTH
      BY <1>0
    <3> QED BY <3>5, <3>6, <3>7
  <2>3. DEPTH \in Held
    <3> HIDE DEF Held
    <3> QED BY <1>0, <2>1, <2>2, UpTo
  <2>4. PICK pos \in DOMAIN level[DEPTH] : pos < Width[DEPTH - DEPTH]
    BY <2>3
  <2>5. pos = 0
    <3>1. pos \in Nat /\ DEPTH - DEPTH = 0
      BY <1>0, <1>8, <2>4
    <3> QED BY <2>4, <3>1, WidthFacts
  <2> QED BY <1>5, <1>9, <2>4, <2>5 DEF NodeHash
<1> QED BY <1>10, <1>11

-----------------------------------------------------------------------------
(* The cached root.                                                        *)

TrieInv ==
  /\ Leaves(trie.leaves)
  /\ trie = [leaves |-> trie.leaves, cached_root |-> trie.cached_root]
  /\ trie.cached_root \in {NoRoot, ReferenceRoot(trie.leaves)}

LEMMA RootFollows == TrieInv => root(trie) = ReferenceRoot(trie.leaves)
<1> SUFFICES ASSUME TrieInv PROVE root(trie) = ReferenceRoot(trie.leaves)
  OBVIOUS
<1>0. PICK leaves, cached : leaves = trie.leaves /\ cached = trie.cached_root
  OBVIOUS
<1>1. /\ DOMAIN leaves = {} => ReferenceRoot(leaves) = defaults[DEPTH]
      /\ DOMAIN leaves # {} => ReferenceRoot(leaves) = compute_root(leaves)
  BY <1>0, RootReference DEF TrieInv
<1>2. cached \in {NoRoot, ReferenceRoot(leaves)}
  BY <1>0 DEF TrieInv
<1>3. root(trie) = CASE cached # NoRoot -> cached
                     [] cached = NoRoot /\ DOMAIN leaves = {} -> defaults[DEPTH]
                     [] OTHER -> compute_root(leaves)
  BY <1>0 DEF root
<1> QED BY <1>0, <1>1, <1>2, <1>3

\* The root a node answers is that of the whole tree with the leaves it has now: insert drops
\* the cached root, and the sparse tree with its default hashes has the root of the full one.
THEOREM RootIsCurrentHolds == StartupSpec => []RootIsCurrent
<1>1. StartupInit => TrieInv
  BY DEF StartupInit, TrieInv, EmptyTrie, Leaves
<1>2. GenesisInv /\ TrieInv /\ [StartupNext]_startup => TrieInv'
  <2> SUFFICES ASSUME GenesisInv, TrieInv, [StartupNext]_startup PROVE TrieInv'
    OBVIOUS
  <2>1. CASE trie' = trie
    BY <2>1 DEF TrieInv
  <2>2. CASE Down
    BY <2>2 DEF Down, TrieInv, EmptyTrie, Leaves
  <2>3. CASE LoadState
    <3>0. PICK f : f = [k \in {namespace_key(NS_ACCOUNTS, a) : a \in list_keys("accounts")}
                          |-> get("accounts", k[2])]
      OBVIOUS
    <3>1. trie' = [leaves |-> f, cached_root |-> NoRoot]
      BY <2>3, <3>0 DEF LoadState
    <3>2. \A a \in Addresses : namespace_key(NS_ACCOUNTS, a) \in TrieKeys
      BY StartupAssumption
    <3>3. DOMAIN f \subseteq TrieKeys
      BY <3>0, <3>2 DEF GenesisInv
    <3> QED BY <3>1, <3>3 DEF TrieInv, Leaves
  <2>4. ASSUME NEW ns \in {NS_ACCOUNTS, NS_VALIDATORS, NS_GOVERNANCE}, NEW a \in Addresses,
               NEW v \in Values, Write(ns, a, v)
        PROVE  TrieInv'
    <3>0. PICK f : f = With(trie.leaves, namespace_key(ns, a), v)
      OBVIOUS
    <3>1. trie' = [leaves |-> f, cached_root |-> NoRoot]
      BY <2>4, <3>0 DEF Write, insert
    <3>2. namespace_key(ns, a) \in TrieKeys
      BY StartupAssumption
    <3>3. DOMAIN f \subseteq TrieKeys
      BY <3>0, <3>2 DEF With, TrieInv, Leaves
    <3> QED BY <3>1, <3>3 DEF TrieInv, Leaves
  <2>5. CASE AskRoot
    <3>1. trie' = trie \/ trie' = [leaves |-> trie.leaves, cached_root |-> root(trie)]
      BY <2>5 DEF AskRoot, Rooted, TrieInv
    <3> QED BY <2>1, <3>1, RootFollows DEF TrieInv, Leaves
  <2> QED
    BY <2>1, <2>2, <2>3, <2>4, <2>5
    DEF StartupNext, startup, process, Launch, RefuseConfig, OpenDatabase, BeginGenesis, PutAccount,
        PutValidator, PutGenesisHash, PutGenesisBlock, MarkLoaded, GenesisFails, StartServices, Die
<1>3. TrieInv => RootIsCurrent
  BY RootFollows DEF RootIsCurrent
<1> QED BY <1>1, <1>2, <1>3, GenesisAlways, PTL DEF StartupSpec

-----------------------------------------------------------------------------
(* Answers and what is in them.                                            *)

LEMMA Greatest ==
  ASSUME NEW max \in Nat, NEW S \in SUBSET (0..max), 0 \in S
  PROVE  \E n \in S : \A m \in S : m <= n
<1> DEFINE T == {max - m : m \in S}
<1>1. T \in SUBSET Nat /\ T # {}
  OBVIOUS
<1>2. PICK x \in T : \A y \in T : x <= y
  <2> HIDE DEF T
  <2> QED BY <1>1, LeastNatural
<1>3. PICK n \in S : x = max - n
  BY <1>2
<1>4. \A m \in S : max - n <= max - m
  BY <1>2, <1>3
<1> QED BY <1>3, <1>4

\* What is taken from the bag of answers, or put into it.
LEMMA AnswerBags ==
  ASSUME NEW B, NEW a
  PROVE  /\ BagToSet(EmptyBag) = {}
         /\ BagToSet(B (-) SetToBag({a})) \subseteq BagToSet(B)
         /\ BagToSet(B (+) SetToBag({a})) = BagToSet(B) \cup {a}
BY DEF BagToSet, EmptyBag, SetToBag, (-), (+)

\* The n blocks of p's chain from `start` on.
Run(p, start, n) == [i \in 1..n |-> Chain[p][start + i - 1]]
Stored(p, start, n) == \A i \in 1..n : start + i - 1 \in DOMAIN Chain[p]

LEMMA ForwardRun ==
  ASSUME NEW p, NEW start \in Nat, NEW max \in Nat
  PROVE  \E n \in 0..max : /\ Forward(p, start, max) = Run(p, start, n)
                           /\ Stored(p, start, n)
                           /\ \A m \in 0..max : Stored(p, start, m) => m <= n
<1> DEFINE S == {n \in 0..max : Stored(p, start, n)}
           count == CHOOSE n \in 0..max : /\ Stored(p, start, n)
                                          /\ \A m \in 0..max : Stored(p, start, m) => m <= n
<1>1. 0 \in S
  BY DEF Stored
<1>2. PICK n \in S : \A m \in S : m <= n
  <2>1. S \in SUBSET (0..max)
    OBVIOUS
  <2> HIDE DEF S
  <2> QED BY <1>1, <2>1, Greatest
<1>3. /\ count \in 0..max /\ Stored(p, start, count)
      /\ \A m \in 0..max : Stored(p, start, m) => m <= count
  BY <1>2
<1>4. Forward(p, start, max) = Run(p, start, count)
  BY DEF Forward, Run, Stored
<1> HIDE DEF count
<1> QED BY <1>3, <1>4

Served(a) ==
  /\ \E p \in DOMAIN Chain, start \in Nat, n \in Nat :
       a.blocks = Run(p, start, n) /\ Stored(p, start, n)
  /\ a.batch_hash = compute_batch_hash(GenesisHash, a.blocks)

LEMMA AnswerServed ==
  ASSUME NEW p \in DOMAIN Chain, NEW start \in Nat, NEW max \in Nat, NEW known
  PROVE  Served(serve_block_sync(p, start, max, "Forward", known))
<1> DEFINE a == serve_block_sync(p, start, max, "Forward", known)
<1>1. a.batch_hash = compute_batch_hash(GenesisHash, a.blocks)
  BY DEF serve_block_sync
<1>2. CASE ForkMismatch(p, start, known)
  <2>1. a.blocks = <<>>
    BY <1>2 DEF serve_block_sync
  <2>2. Run(p, start, 0) = <<>> /\ Stored(p, start, 0)
    BY DEF Run, Stored
  <2> HIDE DEF a
  <2>3. Served(a)
    BY <1>1, <2>1, <2>2 DEF Served
  <2> QED BY <2>3 DEF a
<1>3. CASE ~ForkMismatch(p, start, known)
  <2>1. a.blocks = Forward(p, start, max)
    BY <1>3 DEF serve_block_sync
  <2>2. PICK n \in 0..max : Forward(p, start, max) = Run(p, start, n) /\ Stored(p, start, n)
    BY ForwardRun
  <2> HIDE DEF a
  <2>3. Served(a)
    BY <1>1, <2>1, <2>2 DEF Served
  <2> QED BY <2>3 DEF a
<1> QED BY <1>2, <1>3

-----------------------------------------------------------------------------
(* The inductive invariant of a node that catches up.                      *)

\* n blocks in a row on the genesis, the heights from 1 on.
OnGenesis(B, n) ==
  \A i \in 1..n :
    /\ B[i].height = i /\ i \in Heights /\ Hash(B[i]) # GenesisHash
    /\ B[i].parent = (IF i = 1 THEN GenesisHash ELSE Hash(B[i - 1]))

\* The first j - 1 of the n blocks B are stored and the others are to come.
Halfway(B, S, n, j) ==
  /\ OnGenesis(B, n)
  /\ incoming \in Seq(S) /\ Len(incoming) = n - j + 1
  /\ \A i \in 1..(n - j + 1) : incoming[i] = B[j + i - 1]
  /\ \A i \in 1..(j - 1) : store[i] = B[i]

\* A batch is stored only by a node at genesis: the peer computes the hash of the batch
\* with the genesis hash for its seed, the node with the hash its cursor is at.
Storing ==
  /\ cursor = NewCursor
  /\ \E B, S : \E n \in Nat : \E j \in 1..n : Halfway(B, S, n, j)

Above(c) == c.height \in Heights /\ c.hash # GenesisHash /\ Backed(c)

SyncInv ==
  /\ net \in Networks
  /\ DOMAIN store = Heights
  /\ \A a \in BagToSet(answers) : Served(a)
  /\ peer_index \in 0..(Len(Peers) - 1)
  /\ file \in {cursor, NewCursor}
  /\ cursor = NewCursor \/ Above(cursor)
  /\ pc = "store" => Storing

LEMMA NetworkFacts ==
  ASSUME net \in Networks
  PROVE  /\ Peers \in Seq(DOMAIN Chain) /\ Len(Peers) \in Nat \ {0}
         /\ \A i \in 1..Len(Peers) : Peers[i] \in DOMAIN Chain
         /\ \A p \in DOMAIN Chain : ProperChain(Chain[p])
<1>1. Peers \in Seq(DOMAIN Chain) /\ Peers # <<>> /\ \A p \in DOMAIN Chain : ProperChain(Chain[p])
  BY SyncAssumption DEF Peers, Chain
<1>2. Len(Peers) \in Nat \ {0}
  BY <1>1, EmptySeq
<1> QED BY <1>1, <1>2, ElementOfSeq

LEMMA SyncInitOk == Init => SyncInv
<1> SUFFICES ASSUME Init PROVE SyncInv
  OBVIOUS
<1>1. net \in Networks /\ Len(Peers) \in Nat \ {0}
  BY NetworkFacts DEF Init
<1>2. BagToSet(answers) = {}
  BY AnswerBags DEF Init
<1> QED BY <1>1, <1>2 DEF Init, SyncInv

\* A request leaves only served answers in the network.
LEMMA SendOk ==
  ASSUME SyncInv, NEW i \in 1..Len(Peers), NEW start \in Nat, NEW max \in Nat, NEW known,
         Send(Peers[i], start, max, known)
  PROVE  \A a \in BagToSet(answers') : Served(a)
<1> DEFINE r == serve_block_sync(Peers[i], start, max, "Forward", known)
<1>1. Peers[i] \in DOMAIN Chain
  BY NetworkFacts DEF SyncInv
<1>2. Served(r)
  BY <1>1, AnswerServed
<1>3. answers' = answers \/ answers' = answers (+) SetToBag({r})
  BY DEF Send
<1> HIDE DEF r
<1>4. BagToSet(answers (+) SetToBag({r})) = BagToSet(answers) \cup {r}
  BY AnswerBags
<1> QED BY <1>2, <1>3, <1>4 DEF SyncInv

\* Backed, Served and Storing speak of no more than these variables.
LEMMA SyncFrame ==
  ASSUME net' = net
  PROVE  /\ \A a : Served(a)' <=> Served(a)
         /\ Peers' = Peers
         /\ store' = store => \A c : Backed(c)' <=> Backed(c)
BY DEF Served, Run, Stored, Peers, Chain, Backed

LEMMA BeginAttemptOk == ASSUME SyncInv, BeginAttempt PROVE SyncInv'
<1>1. 1 \in 1..Len(Peers) /\ 1 \in Nat
  BY NetworkFacts DEF SyncInv
<1>2. \A a \in BagToSet(answers') : Served(a)
  BY <1>1, SendOk DEF BeginAttempt
<1>3. cursor' = file /\ file' = file /\ net' = net /\ store' = store /\ pc' = "tip"
      /\ peer_index' = peer_index
  BY DEF BeginAttempt, LoadCursor
<1>4. file = NewCursor \/ Above(file)
  BY DEF SyncInv
<1>5. cursor' = NewCursor \/ Above(cursor)'
  BY <1>3, <1>4, SyncFrame DEF Above, Heights
<1>6. NewCursor' = NewCursor
  BY DEF NewCursor
<1> QED BY <1>2, <1>3, <1>5, <1>6, SyncFrame DEF SyncInv

\* Steps that take no more than an answer from the network and leave store and cursors.
LEMMA QuietOk ==
  ASSUME SyncInv, UNCHANGED <<net, store, file, cursor>>,
         BagToSet(answers') \subseteq BagToSet(answers),
         peer_index' \in 0..(Len(Peers) - 1),
         pc' = "store" => UNCHANGED <<pc, incoming>>
  PROVE  SyncInv'
<1>1. cursor' = NewCursor \/ Above(cursor)'
  BY SyncFrame DEF SyncInv, Above, Heights
<1>2. pc' = "store" => Storing'
  BY DEF SyncInv, Storing, Halfway, OnGenesis, Heights, NewCursor
<1>3. NewCursor' = NewCursor
  BY DEF NewCursor
<1> QED BY <1>1, <1>2, <1>3, SyncFrame DEF SyncInv

LEMMA ReceiveTipOk ==
  ASSUME SyncInv, NEW a \in BagToSet(answers), ReceiveTip(a) PROVE SyncInv'
<1>1. BagToSet(answers') \subseteq BagToSet(answers)
  BY AnswerBags DEF ReceiveTip
<1>2. 0 \in 0..(Len(Peers) - 1)
  BY NetworkFacts DEF SyncInv
<1> QED BY <1>1, <1>2, QuietOk DEF ReceiveTip

LEMMA IgnoreAnswerOk ==
  ASSUME SyncInv, NEW a \in BagToSet(answers), IgnoreAnswer(a) \/ LoseAnswer(a) PROVE SyncInv'
<1>1. BagToSet(answers') \subseteq BagToSet(answers)
  BY AnswerBags DEF IgnoreAnswer, LoseAnswer
<1>2. peer_index' \in 0..(Len(Peers) - 1)
  BY DEF SyncInv, IgnoreAnswer, LoseAnswer, loop
<1> QED BY <1>1, <1>2, QuietOk DEF IgnoreAnswer, LoseAnswer, loop

LEMMA TimeoutOk == ASSUME SyncInv, Timeout PROVE SyncInv'
<1>1. pc' # "store"
  BY DEF Timeout, CountFailure
<1>2. peer_index' \in 0..(Len(Peers) - 1) /\ BagToSet(answers') \subseteq BagToSet(answers)
  BY DEF SyncInv, Timeout
<1> QED BY <1>1, <1>2, QuietOk DEF Timeout

LEMMA RequestBatchOk == ASSUME SyncInv, RequestBatch PROVE SyncInv'
<1>1. peer_index + 1 \in 1..Len(Peers) /\ peer_index' \in 0..(Len(Peers) - 1)
  BY NetworkFacts DEF SyncInv, RequestBatch
<1>2. cursor.height + 1 \in Nat /\ BATCH \in Nat
  BY SyncAssumption DEF SyncInv, Above, NewCursor, Heights
<1>3. \A a \in BagToSet(answers') : Served(a)
  BY <1>1, <1>2, SendOk DEF RequestBatch
<1>4. cursor' = NewCursor \/ Above(cursor)'
  BY SyncFrame DEF SyncInv, RequestBatch, Above, Heights
<1>5. NewCursor' = NewCursor
  BY DEF NewCursor
<1> QED BY <1>1, <1>3, <1>4, <1>5, SyncFrame DEF SyncInv, RequestBatch

\* A batch that passes both checks starts at height 1, and so does the node.
LEMMA ReceiveBatchOk ==
  ASSUME SyncInv, NEW a \in BagToSet(answers), ReceiveBatch(a) PROVE SyncInv'
<1>1. BagToSet(answers') \subseteq BagToSet(answers)
  BY AnswerBags DEF ReceiveBatch
<1>2. peer_index' \in 0..(Len(Peers) - 1)
  BY DEF SyncInv, ReceiveBatch
<1>3. CASE ~(a.blocks # <<>> /\ BatchHashOk(a) /\ Linked(cursor, a.blocks))
  <2>1. pc' # "store"
    BY <1>3 DEF ReceiveBatch, CountFailure, CountOnly
  <2> QED BY <1>1, <1>2, <2>1, QuietOk DEF ReceiveBatch
<1>4. CASE a.blocks # <<>> /\ BatchHashOk(a) /\ Linked(cursor, a.blocks)
  <2>1. incoming' = a.blocks /\ pc' = "store" /\ UNCHANGED <<net, store, file, cursor>>
    BY <1>4 DEF ReceiveBatch
  <2>2. PICK p \in DOMAIN Chain, start \in Nat, n \in Nat :
          a.blocks = Run(p, start, n) /\ Stored(p, start, n)
    BY DEF SyncInv, Served
  <2>3. cursor.hash = GenesisHash
    <3>1. <<cursor.hash, a.blocks>> = <<GenesisHash, a.blocks>>
      BY <1>4 DEF BatchHashOk, SyncInv, Served, compute_batch_hash
    <3> QED BY <3>1
  <2>4. cursor = NewCursor
    BY <2>3 DEF SyncInv, Above
  <2> DEFINE B == a.blocks
  <2>5. n # 0
    BY <1>4, <2>2 DEF Run
  <2>6. DOMAIN B = 1..n /\ \A i \in 1..n : B[i] = Chain[p][start + i - 1]
    BY <2>2 DEF Run
  <2>7. ProperChain(Chain[p])
    BY NetworkFacts DEF SyncInv
  <2> HIDE DEF B
  <2>8. \A i \in 1..n : B[i].parent = (IF i = 1 THEN GenesisHash ELSE Hash(B[i - 1]))
    BY <1>4, <2>3, <2>6 DEF Linked, B
  <2>9. start = 1
    <3>1. 1 \in 1..n /\ start + 1 - 1 = start
      BY <2>5
    <3>2. B[1] = Chain[p][start] /\ start \in DOMAIN Chain[p] /\ B[1].parent = GenesisHash
      BY <3>1, <2>2, <2>6, <2>8 DEF Stored
    <3> QED BY <3>2, <2>7 DEF ProperChain
  <2>10. OnGenesis(B, n)
    <3> SUFFICES ASSUME NEW i \in 1..n
                 PROVE  B[i].height = i /\ i \in Heights /\ Hash(B[i]) # GenesisHash
      BY <2>8 DEF OnGenesis
    <3>1. start + i - 1 = i
      BY <2>9
    <3>2. i \in DOMAIN Chain[p] /\ B[i] = Chain[p][i]
      BY <3>1, <2>2, <2>6 DEF Stored
    <3> QED BY <3>2, <2>7, SyncAssumption DEF ProperChain, Heights
  <2>11. B \in Seq({B[i] : i \in 1..n}) /\ Len(B) = n
    <3>1. B = [i \in 1..n |-> B[i]]
      BY <2>2, <2>6 DEF B, Run
    <3> QED BY <3>1, SeqDef, LenProperties
  <2>12. Storing'
    <3>1. OnGenesis(B, n)'
      BY <2>10 DEF OnGenesis, B, Heights
    <3>2. 1 \in 1..n /\ n - 1 + 1 = n
      BY <2>5
    <3>3. \A i \in 1..(n - 1 + 1) : B[i] = B[1 + i - 1]
      OBVIOUS
    <3>4. \A i \in 1..(1 - 1) : store'[i] = B[i]
      OBVIOUS
    <3> DEFINE S == {B[i] : i \in 1..n}
    <3>5. incoming' \in Seq(S) /\ Len(incoming') = n - 1 + 1
      BY <2>1, <2>11, <3>2 DEF B
    <3>6. \A i \in 1..(n - 1 + 1) : incoming'[i] = B[1 + i - 1]
      BY <2>1, <3>3 DEF B
    <3>7. cursor' = NewCursor'
      BY <2>1, <2>4 DEF NewCursor
    <3> HIDE DEF S
    <3>8. Halfway(B, S, n, 1)'
      BY <3>1, <3>4, <3>5, <3>6 DEF Halfway
    <3> QED BY <3>2, <3>7, <3>8 DEF Storing
  <2>13. NewCursor' = NewCursor
    BY DEF NewCursor
  <2> QED BY <1>1, <1>2, <2>1, <2>4, <2>12, <2>13, SyncFrame DEF SyncInv
<1> QED BY <1>3, <1>4

LEMMA PutBlockOk == ASSUME SyncInv, PutBlock PROVE SyncInv'
<1>1. cursor = NewCursor /\ file = NewCursor
  BY DEF PutBlock, SyncInv, Storing
<1>2. PICK B, S : \E n \in Nat : \E j \in 1..n : Halfway(B, S, n, j)
  BY DEF PutBlock, SyncInv, Storing
<1>2a. PICK n \in Nat : \E j \in 1..n : Halfway(B, S, n, j)
  BY <1>2
<1>3. PICK j \in 1..n : Halfway(B, S, n, j)
  BY <1>2a
<1>4. incoming # <<>>
  BY <1>3, EmptySeq DEF Halfway
<1>5. Head(incoming) = B[j]
  <2>1. Head(incoming) = incoming[1]
    BY <1>3, <1>4 DEF Halfway
  <2>2. 1 \in 1..(n - j + 1) /\ j + 1 - 1 = j
    OBVIOUS
  <2> QED BY <1>3, <2>1, <2>2 DEF Halfway
<1>6. B[j].height = j /\ j \in Heights
  BY <1>3 DEF Halfway, OnGenesis
<1>7. /\ store' = [store EXCEPT ![j] = B[j]] /\ incoming' = Tail(incoming)
      /\ UNCHANGED <<net, peer_index, answers>>
  BY <1>5, <1>6 DEF PutBlock
<1>8. DOMAIN store' = Heights' /\ \A i \in 1..j : store'[i] = B[i]
  <2>1. j \in DOMAIN store /\ DOMAIN store = Heights
    BY <1>6 DEF SyncInv
  <2>2. \A i \in 1..j : i = j \/ i \in 1..(j - 1)
    OBVIOUS
  <2>3. \A i \in 1..(j - 1) : store[i] = B[i] /\ i \in DOMAIN store
    BY <1>3, <1>6, <2>1, SyncAssumption DEF Halfway, Heights
  <2> QED BY <1>7, <2>1, <2>2, <2>3 DEF Heights
<1>9. NewCursor' = NewCursor
  BY DEF NewCursor
<1>10. CASE Len(incoming) # 1
  <2>1. UNCHANGED <<cursor, file, pc>> /\ j < n
    BY <1>3, <1>10 DEF PutBlock, Halfway
  <2>2. /\ incoming' \in Seq(S) /\ Len(incoming') = n - (j + 1) + 1
        /\ \A i \in 1..(n - (j + 1) + 1) : incoming'[i] = B[(j + 1) + i - 1]
    <3>1. /\ incoming' \in Seq(S) /\ Len(incoming') = Len(incoming) - 1
          /\ \A i \in 1..Len(incoming') : incoming'[i] = incoming[i + 1]
      BY <1>3, <1>4, <1>7, HeadTailProperties DEF Halfway
    <3>2. Len(incoming') = n - (j + 1) + 1
      BY <3>1, <1>3 DEF Halfway
    <3>3. \A i \in 1..(n - (j + 1) + 1) :
            i + 1 \in 1..(n - j + 1) /\ j + (i + 1) - 1 = (j + 1) + i - 1
      OBVIOUS
    <3> QED BY <3>1, <3>2, <3>3, <1>3 DEF Halfway
  <2>3. j + 1 \in 1..n /\ (j + 1) - 1 = j
    BY <2>1
  <2>4. OnGenesis(B, n)'
    BY <1>3 DEF Halfway, OnGenesis, Heights
  <2>5. Halfway(B, S, n, j + 1)'
    BY <1>8, <2>2, <2>3, <2>4 DEF Halfway
  <2>6. Storing'
    BY <1>1, <1>9, <2>1, <2>3, <2>5 DEF Storing
  <2> QED BY <1>1, <1>7, <1>8, <1>9, <2>1, <2>6, SyncFrame DEF SyncInv
<1>11. CASE Len(incoming) = 1
  <2>1. /\ cursor' = [height |-> j, hash |-> Hash(B[j])] /\ file' \in {cursor', NewCursor}
        /\ pc' # "store"
    BY <1>1, <1>5, <1>6, <1>11 DEF PutBlock
  <2>2. OnGenesis(B, n) /\ j \in Nat /\ j # 0
    BY <1>3 DEF Halfway
  <2>3. Backed(cursor)'
    <3> SUFFICES /\ \A h \in 1..j :
                      /\ store'[h].height = h
                      /\ store'[h].parent = (IF h = 1 THEN GenesisHash ELSE Hash(store'[h - 1]))
                 /\ Hash(store'[j]) = Hash(B[j])
      BY <2>1, <2>2 DEF Backed
    <3>1. Hash(store'[j]) = Hash(B[j])
      BY <1>8
    <3>2. ASSUME NEW h \in 1..j
          PROVE  /\ store'[h].height = h
                 /\ store'[h].parent = (IF h = 1 THEN GenesisHash ELSE Hash(store'[h - 1]))
      <4>1. h \in 1..n /\ store'[h] = B[h] /\ (h # 1 => h - 1 \in 1..j)
        BY <1>8
      <4>2. h # 1 => store'[h - 1] = B[h - 1]
        BY <4>1, <1>8
      <4>3. B[h].height = h /\ B[h].parent = (IF h = 1 THEN GenesisHash ELSE Hash(B[h - 1]))
        BY <4>1, <2>2 DEF OnGenesis
      <4> QED BY <4>1, <4>2, <4>3
    <3> QED BY <3>1, <3>2
  <2>4. Above(cursor)'
    BY <1>6, <2>1, <2>2, <2>3 DEF Above, OnGenesis, Heights
  <2> QED BY <1>7, <1>8, <1>9, <2>1, <2>4, SyncFrame DEF SyncInv
<1> QED BY <1>10, <1>11

LEMMA RestartOk == ASSUME SyncInv, AttemptFails \/ Crash PROVE SyncInv'
<1>1. /\ cursor' = file /\ file' = file /\ pc' = "off"
      /\ UNCHANGED <<net, store, peer_index>>
  BY DEF AttemptFails, Crash, Restart
<1>2. BagToSet(answers') \subseteq BagToSet(answers)
  BY AnswerBags DEF AttemptFails, Crash
<1>3. file = NewCursor \/ Above(file)
  BY DEF SyncInv
<1>4. cursor' = NewCursor \/ Above(cursor)'
  BY <1>1, <1>3, SyncFrame DEF Above, Heights
<1>5. NewCursor' = NewCursor
  BY DEF NewCursor
<1> QED BY <1>1, <1>2, <1>4, <1>5, SyncFrame DEF SyncInv

LEMMA SyncStepOk == SyncInv /\ [Next]_vars => SyncInv'
<1> SUFFICES ASSUME SyncInv, [Next]_vars PROVE SyncInv'
  OBVIOUS
<1>1. CASE UNCHANGED vars
  <2>1. UNCHANGED <<net, store, file, cursor, pc, incoming, answers, peer_index>>
    BY <1>1 DEF vars, loop
  <2>2. BagToSet(answers') \subseteq BagToSet(answers) /\ peer_index' \in 0..(Len(Peers) - 1)
    BY <2>1 DEF SyncInv
  <2> QED BY <2>1, <2>2, QuietOk
<1>2. CASE Next
  BY <1>2, BeginAttemptOk, RequestBatchOk, PutBlockOk, ReceiveTipOk, ReceiveBatchOk,
     IgnoreAnswerOk, TimeoutOk, RestartOk DEF Next
<1> QED BY <1>1, <1>2

LEMMA SyncAlways == Spec => []SyncInv
BY SyncInitOk, SyncStepOk, PTL DEF Spec

\* The cursor in memory and the one on disk never claim blocks the node does not hold as one
\* chain on the genesis, whatever answers run_sync_loop takes for whose, and wherever an
\* attempt or the process ends between two puts or before the save.
THEOREM SyncedChainLinkedHolds == Spec => []SyncedChainLinked
<1>1. SyncInv => SyncedChainLinked
  <2>1. Backed(NewCursor)
    BY DEF Backed, NewCursor
  <2> QED BY <2>1 DEF SyncInv, SyncedChainLinked, Above
<1> QED BY <1>1, SyncAlways, PTL

\* No attempt writes where the saved cursor has been: whatever is put is put while the
\* cursor on disk is at genesis.
THEOREM VerifiedStaysHolds == Spec => VerifiedStays
<1>1. SyncInv /\ [Next]_vars => [\A h \in 1..file.height : store'[h] = store[h]]_vars
  <2> SUFFICES ASSUME SyncInv, Next, NEW h \in 1..file.height PROVE store'[h] = store[h]
    BY DEF vars
  <2>1. ~PutBlock
    BY DEF PutBlock, SyncInv, Storing, NewCursor
  <2> QED
    BY <2>1 DEF Next, BeginAttempt, RequestBatch, ReceiveTip, ReceiveBatch, IgnoreAnswer, Timeout,
                AttemptFails, Crash, LoseAnswer
<1> QED BY <1>1, SyncAlways, PTL DEF Spec, VerifiedStays

-----------------------------------------------------------------------------
(* The three ways to ask for a range of blocks.                            *)

LEMMA SelectedRecursion ==
  ASSUME NEW s, NEW keep, Len(s) \in Nat
  PROVE  \E g : /\ g = [i \in 0..Len(s) |->
                          IF i = 0 THEN <<>>
                          ELSE IF s[i] \in keep THEN Append(g[i - 1], s[i]) ELSE g[i - 1]]
                /\ Selected(s, keep) = g[Len(s)]
<1> DEFINE Body(g, i) == IF i = 0 THEN <<>>
                         ELSE IF s[i] \in keep THEN Append(g[i - 1], s[i]) ELSE g[i - 1]
           Defined == {m \in 0..Len(s) : \E g : g = [i \in 0..m |-> Body(g, i)]}
<1>1. 0 \in Defined
  <2> DEFINE g == [i \in 0..0 |-> <<>>]
  <2>1. g = [i \in 0..0 |-> Body(g, i)]
    OBVIOUS
  <2> HIDE DEF g
  <2>2. \E k : k = [i \in 0..0 |-> Body(k, i)]
    BY <2>1
  <2> HIDE DEF Body
  <2> QED BY <2>2
<1>2. ASSUME NEW m \in 0..(Len(s) - 1), m \in Defined PROVE m + 1 \in Defined
  <2>1. PICK g : g = [i \in 0..m |-> Body(g, i)]
    BY <1>2
  <2> DEFINE f == [i \in 0..(m + 1) |-> IF i = m + 1 THEN Body(g, m + 1) ELSE g[i]]
  <2>2. ASSUME NEW i \in 0..(m + 1) PROVE f[i] = Body(f, i)
    <3>1. i # 0 => i - 1 \in 0..m
      OBVIOUS
    <3>2. i # 0 => f[i - 1] = g[i - 1]
      <4> HIDE DEF Body
      <4> QED BY <3>1
    <3>3. f[i] = Body(g, i)
      <4> HIDE DEF Body
      <4>1. CASE i = m + 1
        BY <4>1
      <4>2. CASE i # m + 1
        <5>1. i \in 0..m
          BY <4>2
        <5>2. g[i] = Body(g, i)
          BY <5>1, <2>1
        <5> QED BY <4>2, <5>2
      <4> QED BY <4>1, <4>2
    <3> HIDE DEF f
    <3> QED BY <3>2, <3>3
  <2>3. f = [i \in 0..(m + 1) |-> f[i]]
    <3> HIDE DEF Body
    <3> QED OBVIOUS
  <2> HIDE DEF f
  <2>4. f = [i \in 0..(m + 1) |-> Body(f, i)]
    <3> HIDE DEF Body
    <3> QED BY <2>2, <2>3
  <2>5. \E k : k = [i \in 0..(m + 1) |-> Body(k, i)]
    BY <2>4
  <2>6. m + 1 \in 0..Len(s)
    OBVIOUS
  <2> QED BY <2>5, <2>6
<1>3. \A m \in 0..Len(s) : m \in Defined
  <2> HIDE DEF Defined
  <2> QED BY <1>1, <1>2, UpTo
<1>4. \E g : g = [i \in 0..Len(s) |-> Body(g, i)]
  <2>1. Len(s) \in Defined
    <3> HIDE DEF Defined
    <3> QED BY <1>3
  <2> QED BY <2>1, Zenon
<1> DEFINE upto == CHOOSE g : g = [i \in 0..Len(s) |-> Body(g, i)]
<1>5. upto = [i \in 0..Len(s) |-> Body(upto, i)]
  BY <1>4, Zenon
<1>6. Selected(s, keep) = upto[Len(s)]
  BY Zenon DEF Selected
<1> HIDE DEF upto
<1> QED BY <1>5, <1>6

SamePlaces(s, t, keep, want) ==
  Len(s) = Len(t) /\ \A i \in 1..Len(s) : s[i] \in keep <=> t[i] \in want

SameKept(s, t, keep, want) ==
  LET k == Selected(s, keep)
      w == Selected(t, want)
  IN  /\ \E S : k \in Seq(S)
      /\ \E T : w \in Seq(T)
      /\ Len(k) = Len(w)
      /\ \A j \in 1..Len(k) : \E i \in 1..Len(s) : s[i] \in keep /\ k[j] = s[i] /\ w[j] = t[i]

\* Two sequences of which the same places are kept: what is kept are the same places, in
\* the same order.
LEMMA SelectedAlike ==
  ASSUME NEW S, NEW T, NEW s \in Seq(S), NEW t \in Seq(T), NEW keep, NEW want,
         SamePlaces(s, t, keep, want)
  PROVE  SameKept(s, t, keep, want)
<1>n. PICK n \in Nat : n = Len(s) /\ n = Len(t)
  BY LenProperties DEF SamePlaces
<1>0. \A i \in 1..n : s[i] \in S /\ t[i] \in T /\ (s[i] \in keep <=> t[i] \in want)
  BY <1>n, LenProperties DEF SamePlaces
<1>1. PICK f : /\ f = [i \in 0..n |-> IF i = 0 THEN <<>>
                                      ELSE IF s[i] \in keep THEN Append(f[i - 1], s[i])
                                           ELSE f[i - 1]]
               /\ Selected(s, keep) = f[n]
  BY <1>n, SelectedRecursion, Zenon
<1>2. PICK g : /\ g = [i \in 0..n |-> IF i = 0 THEN <<>>
                                      ELSE IF t[i] \in want THEN Append(g[i - 1], t[i])
                                           ELSE g[i - 1]]
               /\ Selected(t, want) = g[n]
  BY <1>n, SelectedRecursion, Zenon
<1> DEFINE Alike(m) == /\ f[m] \in Seq(S) /\ g[m] \in Seq(T) /\ Len(f[m]) = Len(g[m])
                       /\ \A k \in 1..Len(f[m]) : \E i \in 1..n :
                            s[i] \in keep /\ f[m][k] = s[i] /\ g[m][k] = t[i]
           Good == {m \in 0..n : Alike(m)}
<1>3. 0 \in Good
  <2>1. f[0] = <<>> /\ g[0] = <<>>
    BY <1>1, <1>2
  <2>2. Alike(0)
    BY <2>1, EmptySeq
  <2> HIDE DEF Alike
  <2> QED BY <2>2
<1>4. ASSUME NEW m \in 0..(n - 1), m \in Good PROVE m + 1 \in Good
  <2>1. m + 1 \in 0..n /\ m + 1 \in 1..n /\ m + 1 # 0 /\ (m + 1) - 1 = m
    BY <1>0
  <2>2. /\ f[m + 1] = IF s[m + 1] \in keep THEN Append(f[m], s[m + 1]) ELSE f[m]
        /\ g[m + 1] = IF t[m + 1] \in want THEN Append(g[m], t[m + 1]) ELSE g[m]
    BY <1>1, <1>2, <2>1
  <2>3. CASE s[m + 1] \notin keep
    BY <1>0, <1>4, <2>1, <2>2, <2>3
  <2>4. CASE s[m + 1] \in keep
    <3>1. f[m + 1] = Append(f[m], s[m + 1]) /\ g[m + 1] = Append(g[m], t[m + 1])
      BY <1>0, <2>1, <2>2, <2>4
    <3>2. f[m] \in Seq(S) /\ g[m] \in Seq(T) /\ s[m + 1] \in S /\ t[m + 1] \in T
      BY <1>0, <1>4, <2>1
    <3>3. /\ f[m + 1] \in Seq(S) /\ Len(f[m + 1]) = Len(f[m]) + 1
          /\ \A k \in 1..Len(f[m]) : f[m + 1][k] = f[m][k]
          /\ f[m + 1][Len(f[m]) + 1] = s[m + 1]
      BY <3>1, <3>2, AppendProperties
    <3>4. /\ g[m + 1] \in Seq(T) /\ Len(g[m + 1]) = Len(g[m]) + 1
          /\ \A k \in 1..Len(g[m]) : g[m + 1][k] = g[m][k]
          /\ g[m + 1][Len(g[m]) + 1] = t[m + 1]
      BY <3>1, <3>2, AppendProperties
    <3>5. Len(f[m]) = Len(g[m]) /\ Len(f[m]) \in Nat
      BY <1>4, <3>2, LenProperties
    <3>6. ASSUME NEW k \in 1..Len(f[m + 1])
          PROVE  \E i \in 1..n : s[i] \in keep /\ f[m + 1][k] = s[i] /\ g[m + 1][k] = t[i]
      <4>1. CASE k = Len(f[m]) + 1
        BY <2>1, <2>4, <3>3, <3>4, <3>5, <4>1
      <4>2. CASE k # Len(f[m]) + 1
        <5>1. k \in 1..Len(f[m])
          BY <3>3, <3>5, <4>2
        <5>2. f[m + 1][k] = f[m][k] /\ g[m + 1][k] = g[m][k]
          BY <3>3, <3>4, <3>5, <5>1
        <5>3. \E i \in 1..n : s[i] \in keep /\ f[m][k] = s[i] /\ g[m][k] = t[i]
          BY <1>4, <5>1
        <5> QED BY <5>2, <5>3
      <4> QED BY <4>1, <4>2
    <3>7. Alike(m + 1)
      BY <3>3, <3>4, <3>5, <3>6
    <3> QED BY <2>1, <3>7
  <2> QED BY <2>3, <2>4
<1>5. n \in Good
  <2> HIDE DEF Good
  <2>1. \A m \in 0..n : m \in Good
    BY <1>3, <1>4, UpTo
  <2> QED BY <2>1
<1>6. Alike(n)
  <2> HIDE DEF Alike
  <2> QED BY <1>5
<1>7. Selected(s, keep) = f[n] /\ Selected(t, want) = g[n]
  BY <1>1, <1>2
<1> QED BY <1>n, <1>6, <1>7 DEF SameKept

LEMMA RunSeq ==
  ASSUME NEW p, NEW start \in Nat, NEW n \in Nat
  PROVE  /\ DOMAIN Run(p, start, n) = 1..n
         /\ \E S : Run(p, start, n) \in Seq(S)
         /\ Len(Run(p, start, n)) = n
<1> DEFINE r == Run(p, start, n)
<1>1. r = [i \in 1..n |-> r[i]]
  BY DEF Run
<1> HIDE DEF r
<1>2. r \in [1..n -> {r[i] : i \in 1..n}] /\ DOMAIN r = 1..n
  BY <1>1
<1>3. r \in Seq({r[i] : i \in 1..n}) /\ Len(r) = n
  BY <1>2, SeqDef, LenProperties
<1> QED BY <1>2, <1>3 DEF r

\* Going down from the height above a run gives the run.
LEMMA BackwardRun ==
  ASSUME NEW p, NEW start \in Nat \ {0}, NEW n \in Nat, Stored(p, start, n)
  PROVE  Backward(p, start + n, n) = Run(p, start, n)
<1>0. PICK top \in Nat : top = start + n
  OBVIOUS
<1> DEFINE has(m) == \A i \in 1..m : top - i > 0 /\ top - i \in DOMAIN Chain[p]
           count == CHOOSE m \in 0..n : has(m) /\ \A l \in 0..n : has(l) => l <= m
<1>1. has(n)
  <2> SUFFICES ASSUME NEW i \in 1..n PROVE top - i > 0 /\ top - i \in DOMAIN Chain[p]
    OBVIOUS
  <2>1. (n - i + 1) \in 1..n /\ start + (n - i + 1) - 1 = top - i /\ top - i > 0
    BY <1>0
  <2> QED BY <2>1 DEF Stored
<1>2. Backward(p, top, n) = [i \in 1..count |-> Chain[p][top - count + i - 1]]
  BY DEF Backward
<1> HIDE DEF has
<1>3. count = n
  BY <1>1
<1> HIDE DEF count
<1>4. \A i \in 1..n : top - n + i - 1 = start + i - 1
  BY <1>0
<1> QED BY <1>0, <1>2, <1>3, <1>4 DEF Run

LEMMA ByHashes ==
  ASSUME NEW p \in DOMAIN Chain, ProperChain(Chain[p]), NEW start \in Nat, NEW n \in Nat,
         Stored(p, start, n), NEW known \in SUBSET (DOMAIN Chain[p])
  PROVE  serve_block_by_hash(p, known, [k \in DOMAIN Run(p, start, n) |-> Hash(Run(p, start, n)[k])])
           = Selected(Run(p, start, n), {Chain[p][h] : h \in known})
<1>0. PICK up : up = Run(p, start, n)
  OBVIOUS
<1> DEFINE hashes == [k \in DOMAIN up |-> Hash(up[k])]
           stored == known \cap DOMAIN Chain[p]
           block(hash) == Chain[p][CHOOSE h \in stored : Hash(Chain[p][h]) = hash]
           want == {Hash(Chain[p][h]) : h \in stored}
           keep == {Chain[p][h] : h \in known}
           present == Selected(hashes, want)
           blocks == Selected(up, keep)
<1>1. /\ DOMAIN up = 1..n /\ Len(up) = n
      /\ \E S : up \in Seq(S)
      /\ \A i \in 1..n : up[i] = Chain[p][start + i - 1] /\ start + i - 1 \in DOMAIN Chain[p]
  <2>1. \A i \in 1..n : up[i] = Chain[p][start + i - 1] /\ start + i - 1 \in DOMAIN Chain[p]
    BY <1>0 DEF Run, Stored
  <2>2. DOMAIN up = 1..n /\ Len(up) = n /\ \E S : up \in Seq(S)
    BY <1>0, RunSeq
  <2> QED BY <2>1, <2>2
<1>2. /\ hashes \in Seq({hashes[i] : i \in 1..n}) /\ Len(hashes) = n
      /\ \A i \in 1..n : hashes[i] = Hash(up[i])
  <2>1. hashes \in [1..n -> {hashes[i] : i \in 1..n}] /\ DOMAIN hashes = 1..n
    BY <1>1
  <2>2. \A i \in 1..n : hashes[i] = Hash(up[i])
    BY <1>1
  <2> HIDE DEF hashes
  <2>3. hashes \in Seq({hashes[i] : i \in 1..n}) /\ Len(hashes) = n
    BY <2>1, SeqDef, LenProperties
  <2> QED BY <2>2, <2>3
<1> HIDE DEF hashes
<1>3. ASSUME NEW g \in DOMAIN Chain[p], NEW h \in DOMAIN Chain[p],
             Hash(Chain[p][g]) = Hash(Chain[p][h])
      PROVE  g = h
  BY <1>3 DEF ProperChain
<1>4. ASSUME NEW i \in 1..n PROVE up[i] \in keep <=> hashes[i] \in want
  <2>1. ASSUME NEW h \in known, hashes[i] = Hash(Chain[p][h]) PROVE up[i] = Chain[p][h]
    <3>1. Hash(Chain[p][start + i - 1]) = Hash(Chain[p][h])
      BY <1>1, <1>2, <2>1
    <3>2. start + i - 1 = h
      BY <1>1, <1>3, <3>1
    <3> QED BY <1>1, <3>2
  <2>2. ASSUME NEW h \in known, up[i] = Chain[p][h] PROVE hashes[i] = Hash(Chain[p][h])
    BY <1>2, <2>2
  <2>3. stored = known
    OBVIOUS
  <2> HIDE DEF stored
  <2> QED BY <2>1, <2>2, <2>3
<1>5. /\ Len(blocks) = Len(present)
      /\ \E S : blocks \in Seq(S)
      /\ \E T : present \in Seq(T)
      /\ \A k \in 1..Len(blocks) :
           \E i \in 1..n : up[i] \in keep /\ blocks[k] = up[i] /\ present[k] = hashes[i]
  <2> HIDE DEF keep, want
  <2>1. PICK S : up \in Seq(S)
    BY <1>1
  <2>2. PICK T : hashes \in Seq(T)
    BY <1>2
  <2>3. SamePlaces(up, hashes, keep, want)
    BY <1>1, <1>2, <1>4 DEF SamePlaces
  <2>4. SameKept(up, hashes, keep, want)
    BY <2>1, <2>2, <2>3, SelectedAlike
  <2>5. /\ Len(blocks) = Len(present)
        /\ \E U : blocks \in Seq(U)
        /\ \E U : present \in Seq(U)
        /\ \A k \in 1..Len(blocks) :
             \E i \in 1..Len(up) : up[i] \in keep /\ blocks[k] = up[i] /\ present[k] = hashes[i]
    BY <2>4 DEF SameKept
  <2> HIDE DEF blocks, present
  <2> QED BY <1>1, <2>5
<1>6. ASSUME NEW i \in 1..n, up[i] \in keep PROVE block(hashes[i]) = up[i]
  <2>1. start + i - 1 \in stored
    <3>1. PICK h \in known : up[i] = Chain[p][h]
      BY <1>6
    <3>2. h = start + i - 1
      BY <1>1, <1>3, <3>1
    <3> QED BY <3>1, <3>2
  <2>2. PICK h : h = CHOOSE g \in stored : Hash(Chain[p][g]) = hashes[i]
    OBVIOUS
  <2>3. h \in stored /\ Hash(Chain[p][h]) = hashes[i]
    BY <1>1, <1>2, <2>1, <2>2
  <2>4. h = start + i - 1
    BY <1>1, <1>2, <1>3, <2>1, <2>3
  <2> QED BY <1>1, <2>2, <2>4
<1>7. serve_block_by_hash(p, known, hashes) = [k \in DOMAIN present |-> block(present[k])]
  BY DEF serve_block_by_hash
<1> HIDE DEF keep, want, block, present, blocks, stored
<1>8. DOMAIN present = 1..Len(blocks) /\ DOMAIN blocks = 1..Len(blocks)
      /\ blocks = [k \in 1..Len(blocks) |-> blocks[k]]
  BY <1>5, LenProperties
<1>9. \A k \in 1..Len(blocks) : block(present[k]) = blocks[k]
  BY <1>5, <1>6
<1>10. serve_block_by_hash(p, known, hashes) = blocks
  BY <1>7, <1>8, <1>9
<1> QED BY <1>0, <1>10 DEF hashes, blocks, keep

\* A peer gives a range of blocks as the same sequence whether it is asked going up, going
\* down or by the blocks' hashes, and leaves out by hashes only what its index lacks.
THEOREM ServedAgreeHolds == Spec => []ServedAgree
<1>1. SyncInv => ServedAgree
  <2> SUFFICES ASSUME SyncInv, NEW j \in DOMAIN Peers, NEW start \in Heights,
                      NEW max \in 0..(MaxHeight + 1)
               PROVE  LET p == Peers[j]
                          up == serve_block_sync(p, start, max, "Forward", NoHash).blocks
                          hashes == [k \in DOMAIN up |-> Hash(up[k])]
                      IN  validate_sync_request(max) /\ up # <<>> =>
                            /\ validate_sync_request(Len(up))
                            /\ serve_block_sync(p, start + Len(up), Len(up), "Backward", NoHash).blocks = up
                            /\ validate_by_hash_request(hashes) =>
                                 \A known \in SUBSET (DOMAIN Chain[p]) :
                                   serve_block_by_hash(p, known, hashes) =
                                     Selected(up, {Chain[p][h] : h \in known})
    BY DEF ServedAgree
  <2> DEFINE p == Peers[j]
             up == serve_block_sync(p, start, max, "Forward", NoHash).blocks
             hashes == [k \in DOMAIN up |-> Hash(up[k])]
  <2>1. p \in DOMAIN Chain /\ ProperChain(Chain[p])
    BY NetworkFacts, LenProperties DEF SyncInv
  <2>2. start \in Nat \ {0} /\ max \in Nat
    BY SyncAssumption DEF Heights
  <2>3. up = Forward(p, start, max)
    BY DEF serve_block_sync, ForkMismatch
  <2>4. PICK n \in 0..max : up = Run(p, start, n) /\ Stored(p, start, n)
    BY <2>2, <2>3, ForwardRun
  <2>5. Len(up) = n
    <3>1. Len(Run(p, start, n)) = n
      <4>1. n \in Nat
        BY <2>2
      <4> HIDE DEF p
      <4> QED BY <2>2, <4>1, RunSeq
    <3> HIDE DEF up, p
    <3> QED BY <2>4, <3>1
  <2>6. serve_block_sync(p, start + n, n, "Backward", NoHash).blocks = Backward(p, start + n, n)
    BY DEF serve_block_sync, ForkMismatch
  <2>7. Backward(p, start + n, n) = up
    BY <2>2, <2>4, BackwardRun
  <2>8. \A known \in SUBSET (DOMAIN Chain[p]) :
          serve_block_by_hash(p, known, hashes) = Selected(up, {Chain[p][h] : h \in known})
    <3> HIDE DEF p
    <3>1. \A known \in SUBSET (DOMAIN Chain[p]) :
            serve_block_by_hash(p, known, [k \in DOMAIN Run(p, start, n) |-> Hash(Run(p, start, n)[k])])
              = Selected(Run(p, start, n), {Chain[p][h] : h \in known})
      BY <2>1, <2>2, <2>4, ByHashes
    <3> HIDE DEF up
    <3> QED BY <2>4, <3>1
  <2>9. validate_sync_request(max) /\ up # <<>> => validate_sync_request(n)
    <3>1. n = 0 => Run(p, start, n) = <<>>
      BY DEF Run
    <3> HIDE DEF up
    <3> QED BY <2>2, <2>4, <3>1, SyncAssumption DEF validate_sync_request
  <2> HIDE DEF up, hashes
  <2> QED BY <2>5, <2>6, <2>7, <2>8, <2>9 DEF up, hashes
<1> QED BY <1>1, SyncAlways, PTL
=============================================================================
