------------------------------- MODULE Config -------------------------------
(***************************************************************************)
(* The node's configuration (config/mod.rs) and how the command line's     *)
(* flags reach it (main.rs, node.rs build_cli_overrides): a file, or the   *)
(* defaults, with the flags laid over it, read through accessors that      *)
(* supply what is still missing, and validated once.                       *)
(*                                                                         *)
(* Simplifications.  A configuration is a function from option names to    *)
(* values; sections are flattened.  Options that only shape the log or key *)
(* derivation are left out.  serde_yaml and toml either parse a file into  *)
(* its options or fail.                                                    *)
(***************************************************************************)
EXTENDS Naturals, Sequences

CONSTANTS
  None,                \* an option that is not given
  DefaultPort          \* DEFAULT_P2P_PORT, DEFAULT_RPC_PORT, DEFAULT_REST_PORT

Ports == {"p2p_port", "rpc_port", "rest_port"}

\* CliOverrides has one entry for each of these, NodeConfig too.
Fields == Ports \cup {"genesis", "key", "key_file", "observer", "bootnodes", "data_dir",
                      "storage_mode", "compact_eras", "full_node_rpc"}

\* NodeArgs: what the command line has a flag for.
Flags == Fields \ {"compact_eras", "full_node_rpc"}

ASSUME ConfigAssumption ==
  /\ DefaultPort \in [Ports -> Nat \ {0}]
  /\ \A p, q \in Ports : DefaultPort[p] = DefaultPort[q] => p = q

\* NodeConfig::default.
NoConfig == [f \in Fields |-> IF f = "observer" THEN FALSE ELSE None]

\* NodeArgs of a command line without flags.
NoArgs == [f \in Flags |-> CASE f = "observer" -> FALSE
                             [] f = "bootnodes" -> <<>>
                             [] OTHER -> None]

\* A flag that is a switch, or a list, is given when it is set, or not empty: the
\* command line can turn the observer on and never off.
build_cli_overrides(args) ==
  [f \in Fields |->
     IF \/ f \notin Flags
        \/ f = "observer" /\ ~args["observer"]
        \/ f = "bootnodes" /\ args["bootnodes"] = <<>>
     THEN None ELSE args[f]]

\* The command line wins over the file, field by field.
merge_cli(conf, cli) == [f \in Fields |-> IF cli[f] # None THEN cli[f] ELSE conf[f]]

\* NodeConfig::load: the format goes by the extension.
Loads(file) == file.ext \in {"yaml", "yml", "toml"} /\ file.parses

\* The accessors: what a port is when nobody gave one.
PortOf(conf, p) == IF conf[p] = None THEN DefaultPort[p] ELSE conf[p]

IdentityOk(conf) ==
  LET key == conf["key"] # None
      key_file == conf["key_file"] # None
  IN  /\ key \/ key_file \/ conf["observer"]
      /\ ~(key /\ key_file)
      /\ ~(conf["observer"] /\ (key \/ key_file))

\* Mutant of PortsOk: only ports that were given are compared.
PortsOkGiven(conf) ==
  \A p, q \in Ports : p # q /\ conf[p] # None => conf[p] = 0 \/ conf[p] # conf[q]

PortsOk(conf) ==
  \A p, q \in Ports : p # q /\ PortOf(conf, p) # 0 => PortOf(conf, p) # PortOf(conf, q)

validate(conf) == IdentityOk(conf) /\ conf["genesis"] # None /\ PortsOk(conf)
=============================================================================
