----------------------------- MODULE MCStartup ------------------------------
(***************************************************************************)
(* Launches that differ in who the node is, in its ports or in its         *)
(* genesis.  Port 3 is nobody's default.  Genesis g2 shares an account     *)
(* with g1 at another balance, and the balance of a second one is          *)
(* malformed; g3 is not there; a stake of g4 is malformed.                 *)
(***************************************************************************)
EXTENDS Startup, TLC

CONSTANTS a1, a2

MCDefaultPort == [p \in Ports |-> CASE p = "p2p_port" -> 1 [] p = "rpc_port" -> 2 [] OTHER -> 4]

MCGenesis ==
  [g1 |-> [chain_id |-> 1, accounts |-> (a1 :> 5),
           validators |-> <<[address |-> a1, stake |-> 7], [address |-> a2, stake |-> 7]>>],
   g2 |-> [chain_id |-> 2, accounts |-> (a1 :> 6) @@ (a2 :> Bad), validators |-> <<>>],
   g4 |-> [chain_id |-> 3, accounts |-> (a2 :> 6),
           validators |-> <<[address |-> a2, stake |-> 9], [address |-> a1, stake |-> Bad]>>]]

MCKeyFiles == [k \in {"good"} |-> a1]

MCPathOf ==
  [k \in {<<ns, a>> : ns \in {NS_ACCOUNTS, NS_VALIDATORS, NS_GOVERNANCE}, a \in {a1, a2}} |->
     CASE k[1] = NS_ACCOUNTS -> IF k[2] = a1 THEN 0 ELSE 1
       [] k[1] = NS_VALIDATORS -> IF k[2] = a1 THEN 6 ELSE 3
       [] OTHER -> IF k[2] = a1 THEN 5 ELSE 4]

Args(changes) == changes @@ NoArgs
ConfigFile(changes) == [ext |-> "toml", parses |-> TRUE, config |-> changes @@ NoConfig]

Identities(switch) == [key : {None, "k"}, key_file : {None, "good", "gone"}, observer : switch]
PortChoices == [p2p_port : {None, 0, 3}, rpc_port : {None, 1, 3}, rest_port : {None, 0, 1, 2}]

IdentityLaunches ==
  {[args |-> Args(i @@ [genesis |-> "g1"]), file |-> ConfigFile(j)] :
     i, j \in Identities(BOOLEAN)}

PortLaunches ==
  {[args |-> Args(i @@ [genesis |-> "g1", observer |-> TRUE]), file |-> ConfigFile(j)] :
     i, j \in PortChoices}

GenesisLaunches ==
  {[args |-> Args([genesis |-> g, key_file |-> "good"]), file |-> None] :
     g \in {None, "g1", "g2", "g3", "g4"}}
    \cup {[args |-> Args([key_file |-> "good"]), file |-> f] :
            f \in {[ConfigFile([genesis |-> "g2"]) EXCEPT !.ext = e, !.parses = p] :
                     e \in {"yaml", "json"}, p \in BOOLEAN}}

MCLaunches == IdentityLaunches \cup PortLaunches \cup GenesisLaunches
=============================================================================
