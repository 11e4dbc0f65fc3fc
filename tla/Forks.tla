-------------------------------- MODULE Forks -------------------------------
(***************************************************************************)
(* Competing chains: who may propose (core/state.rs run_election,          *)
(* consensus/proposer.rs), what a node accepts (consensus/engine.rs        *)
(* build_block, validate_block), which of two chains it keeps              *)
(* (consensus/fork_choice.rs), what counts as equivocation                 *)
(* (consensus/slashing.rs) and what the blocks mint (Supply.tla).          *)
(*                                                                         *)
(* The repository has these as functions; the node's loop only elects,     *)
(* schedules and builds.  Receive, Reorg and Report are the callers they   *)
(* are written for: a block that arrives, a peer's chain that arrives, two *)
(* headers that somebody holds against their signer.  build_block is given *)
(* its signature: produce_block gives it a placeholder, and the validators *)
(* in Signing give it the one validate_block looks for.                    *)
(*                                                                         *)
(* Simplifications.                                                        *)
(*  - Hashes and signatures are symbolic: Hash is injective, and Sign(v,p) *)
(*    can be made by v only.  A header has no timestamp, state root or     *)
(*    chain id: validate_block looks at none of them.                      *)
(*  - A header commits to the set of its transactions: compute_tx_root     *)
(*    sorts the hashes, so the order of the body is not in it.             *)
(*  - The stakes are those of the ledger, the same for every node; the     *)
(*    ledger's transactions (StateMachine) are Restake here.  What an      *)
(*    election and a slash write besides is in StateMachine.               *)
(***************************************************************************)
EXTENDS Naturals, Sequences, FiniteSets, Sums, Supply

CONSTANTS
  N,                 \* validators, numbered; the numbers are their addresses too
  Running,           \* those that run a node
  Faulty,            \* validators that sign whatever they like
  Signing,           \* nodes that sign their blocks
  Stake,             \* the stakes at the start
  RegistrationEra,
  MIN_STAKE, MAX_VALIDATORS,
  KnownKeys,         \* validators whose public key the nodes have
  Bodies,            \* transaction lists a proposer may select
  NewStakes,         \* inputs: what a validator's stake may become
  MaxHeight,         \* bound: heights
  MaxFaulty,         \* bound: blocks of faulty validators
  MaxChanges         \* bound: changes of the stakes after which transactions make none

Validators == 1..N

ASSUME ForksAssumption ==
  /\ N \in Nat
  /\ Running \subseteq Validators /\ Signing \subseteq Running
  /\ Faulty \subseteq Validators /\ KnownKeys \subseteq Validators
  /\ Stake \in [Validators -> Nat] /\ RegistrationEra \in [Validators -> Nat]
  /\ NewStakes \subseteq Nat
  /\ MIN_STAKE \in Nat /\ MAX_VALIDATORS \in Nat \ {0}
  /\ MaxHeight \in Nat /\ MaxFaulty \in Nat /\ MaxChanges \in Nat

VARIABLES
  schedule,     \* schedule[n]: the proposers node n goes by, in order
  chain,        \* chain[n]: the headers node n holds canonical, above genesis
  published,    \* every header given to gossip
  slashed,      \* validators some evidence convicted
  stake,        \* ValidatorEntry::stake
  status,       \* ValidatorEntry::status: Frozen, Unstaking or none of the two
  changes       \* history: how often a stake has changed

forks == <<schedule, chain, published, slashed, stake, status, changes>>
ledger == <<slashed, stake, status, changes>>

-----------------------------------------------------------------------------
(* Elections and schedules.                                                *)

\* A set in the order that the relation `before` puts it in.
Ranked(S, before) ==
  [i \in 1..Cardinality(S) |->
     CHOOSE x \in S : Cardinality({y \in S : <<y, x>> \in before}) = i - 1]

Take(seq, n) == SubSeq(seq, 1, IF n < Len(seq) THEN n ELSE Len(seq))

\* The orders in which list_validator_addresses may iterate its HashSet.
Iterations == {o \in [Validators -> 1..N] : \A v, w \in Validators : o[v] = o[w] => v = w}

\* Frozen and Unstaking validators are no candidates, in any era.
Eligible == {v \in Validators : status[v] = "Staked"}

\* Mutant of Outranks: age alone ranks.
OutranksByAge(v, w, order) ==
  \/ RegistrationEra[v] < RegistrationEra[w]
  \/ RegistrationEra[v] = RegistrationEra[w] /\ order[v] < order[w]

\* By stake, then by age, then as the candidates came: the sort is stable.
Outranks(v, w, order) ==
  \/ stake[v] > stake[w]
  \/ stake[v] = stake[w] /\ RegistrationEra[v] < RegistrationEra[w]
  \/ /\ stake[v] = stake[w] /\ RegistrationEra[v] = RegistrationEra[w]
     /\ order[v] < order[w]

\* Era 0 is open: as the candidates come, whatever they hold.  Later eras rank those
\* that hold enough.
run_election(order, era) ==
  LET first == {p \in Eligible \X Eligible : order[p[1]] < order[p[2]]}
      enough == {v \in Eligible : stake[v] >= MIN_STAKE}
      best == {p \in enough \X enough : Outranks(p[1], p[2], order)}
  IN  IF era = 0 THEN Take(Ranked(Eligible, first), MAX_VALIDATORS)
      ELSE Take(Ranked(enough, best), MAX_VALIDATORS)

\* TopNElection::elect, which the node does not call: ties go by address.
elect ==
  LET before == {p \in Validators \X Validators :
                   stake[p[1]] > stake[p[2]] \/ (stake[p[1]] = stake[p[2]] /\ p[1] < p[2])}
  IN  Take(Ranked(Validators, before), MAX_VALIDATORS)

\* RoundRobin.
select_proposer(slot, active_set) == active_set[(slot % Len(active_set)) + 1]

\* Before the first era boundary it sees, a node has no schedule and falls back on
\* itself; at a boundary it takes what it elects, unless that is nobody.
Schedules(n) == {<<n>>} \cup ({run_election(order, 1) : order \in Iterations} \ {<<>>})

\* A schedule starts at height 1 here.
proposer_for_height(sched, height) == select_proposer(height - 1, sched)

-----------------------------------------------------------------------------
(* Headers.                                                                *)

Hash(x) == <<x>>
ZeroSignature == <<>>
Sign(v, payload) == <<v, payload>>

\* sig_fake of produce_block, which no key has made.
FakeSignature == Sign(0, <<>>)

Genesis == [height |-> 0, parent_hash |-> <<>>, tx_root |-> {}, proposer |-> 0,
            proposer_signature |-> ZeroSignature]

compute_tx_root(body) == {body[i] : i \in DOMAIN body}

block_header_unsigned_payload(header) ==
  [header EXCEPT !.proposer_signature = ZeroSignature]

\* build_block: the header.
BuildBlock(parent, proposer, body, signature) ==
  [height |-> parent.height + 1, parent_hash |-> Hash(parent),
   tx_root |-> compute_tx_root(body), proposer |-> proposer,
   proposer_signature |-> signature]

\* The signature that validate_block looks for: over the header with a zero signature.
SignedBlock(parent, proposer, body, signer) ==
  LET unsigned == BuildBlock(parent, proposer, body, ZeroSignature)
  IN  BuildBlock(parent, proposer, body, Sign(signer, unsigned))

tip(n) == IF chain[n] = <<>> THEN Genesis ELSE chain[n][Len(chain[n])]

\* Falcon512::verify.
verify(v, payload, signature) == signature = Sign(v, payload)

validate_block(header, current_tip, sched) ==
  /\ header.parent_hash = Hash(current_tip)
  /\ header.proposer = proposer_for_height(sched, header.height)
  /\ header.height = current_tip.height + 1
  /\ header.proposer \in KnownKeys =>
       verify(header.proposer, block_header_unsigned_payload(header), header.proposer_signature)

-----------------------------------------------------------------------------
(* Fork choice and evidence.                                               *)

\* Every proposer counts once, however many blocks it has.
total_stake_backing(headers) ==
  LET proposers == {headers[i].proposer : i \in DOMAIN headers}
  IN  Total([v \in 0..(N - 1) |-> IF v + 1 \in proposers THEN stake[v + 1] ELSE 0], N)

\* select_canonical; equal weight keeps the chain one has.
PreferB(chain_a, chain_b) == total_stake_backing(chain_b) > total_stake_backing(chain_a)

\* Nothing in the repository assembles evidence.  Whoever does shows each header as it
\* is or as it was signed, with the signature it carries.
Shown(header) == {header, block_header_unsigned_payload(header)}

Evidence(a, b, v) ==
  {[header_a |-> x, signature_a |-> a.proposer_signature,
    header_b |-> y, signature_b |-> b.proposer_signature, proposer |-> v] :
     x \in Shown(a), y \in Shown(b)}

\* Mutant of verify_equivocation: the parents are not compared.
verify_equivocation_any_parent(e) ==
  /\ e.header_a.height = e.header_b.height
  /\ e.header_a # e.header_b
  /\ verify(e.proposer, e.header_a, e.signature_a)
  /\ verify(e.proposer, e.header_b, e.signature_b)

verify_equivocation(e) ==
  /\ e.header_a.height = e.header_b.height
  /\ e.header_a.parent_hash = e.header_b.parent_hash
  /\ e.header_a # e.header_b
  /\ verify(e.proposer, e.header_a, e.signature_a)
  /\ verify(e.proposer, e.header_b, e.signature_b)

-----------------------------------------------------------------------------
(* Steps.                                                                  *)

ForksInit ==
  /\ chain = [n \in Running |-> <<>>]
  /\ published = {} /\ slashed = {} /\ changes = 0
  /\ stake = Stake /\ status = [v \in Validators |-> "Staked"]
  /\ schedule \in {f \in [Running -> UNION {Schedules(n) : n \in Running}] :
                     \A n \in Running : f[n] \in Schedules(n)}

\* An honest proposer builds on its own tip and goes on from its block.
Propose(n, body) ==
  LET height == tip(n).height + 1
      header == IF n \in Signing THEN SignedBlock(tip(n), n, body, n)
                ELSE BuildBlock(tip(n), n, body, FakeSignature)
  IN
  /\ n \notin Faulty /\ height <= MaxHeight
  /\ proposer_for_height(schedule[n], height) = n
  /\ chain' = [chain EXCEPT ![n] = Append(@, header)]
  /\ published' = published \cup {header}
  /\ UNCHANGED <<schedule, ledger>>

FaultyBlocks == {header \in published : header.proposer_signature[1] \in Faulty}

\* A faulty validator signs on any block, in its own name or in another's, and again.
ProposeFaulty(signer, proposer, parent, body) ==
  /\ parent.height < MaxHeight
  /\ Cardinality(FaultyBlocks) < MaxFaulty
  /\ published' = published \cup {SignedBlock(parent, proposer, body, signer)}
  /\ UNCHANGED <<schedule, chain, ledger>>

Receive(n, header) ==
  /\ validate_block(header, tip(n), schedule[n])
  /\ chain' = [chain EXCEPT ![n] = Append(@, header)]
  /\ UNCHANGED <<schedule, published, ledger>>

Reorg(n, peer) ==
  /\ PreferB(chain[n], chain[peer])
  /\ chain' = [chain EXCEPT ![n] = chain[peer]]
  /\ UNCHANGED <<schedule, published, ledger>>

\* apply_slash: nine tenths of the stake, rounded down, unless it is frozen already.
Report(a, b, v) ==
  /\ \E e \in Evidence(a, b, v) : verify_equivocation(e)
  /\ status[v] # "Frozen"
  /\ slashed' = slashed \cup {v}
  /\ stake' = [stake EXCEPT ![v] = @ - (@ * 90) \div 100]
  /\ status' = [status EXCEPT ![v] = "Frozen"]
  /\ changes' = changes + 1
  /\ UNCHANGED <<schedule, chain, published>>

\* A validator stakes or unstakes.
Restake(v, amount, standing) ==
  /\ status[v] # "Frozen" /\ changes < MaxChanges
  /\ stake' = [stake EXCEPT ![v] = amount]
  /\ status' = [status EXCEPT ![v] = standing]
  /\ changes' = changes + 1
  /\ UNCHANGED <<schedule, chain, published, slashed>>

ForksNext ==
  \/ \E n \in Running, body \in Bodies : Propose(n, body)
  \/ \E signer \in Faulty, v \in Validators, parent \in published \cup {Genesis}, body \in Bodies :
       ProposeFaulty(signer, v, parent, body)
  \/ \E n \in Running, header \in published : Receive(n, header)
  \/ \E n, peer \in Running : Reorg(n, peer)
  \/ \E a, b \in published, v \in Validators : Report(a, b, v)
  \/ \E v \in Validators, amount \in NewStakes, standing \in {"Staked", "Unstaking"} :
       Restake(v, amount, standing)

ForksSpec == ForksInit /\ [][ForksNext]_forks

-----------------------------------------------------------------------------
(* Properties.                                                             *)

\* As long as no stake has changed, evidence convicts faulty validators only, though an
\* honest one may leave a chain it has signed on, sign another block of the same height
\* on the chain it moved to, and be impersonated: with steady weights fork choice never
\* brings it back to a block it has built on.  So the first to be slashed is faulty,
\* unless stakes moved before.  (A slash moves the weights itself, and then a node may
\* come back and sign a second block on the same parent.)
FirstSlashIsJust == [][changes = 0 => slashed' \subseteq Faulty]_forks

\* An election held now.  However many the candidates are and in whatever order the nodes
\* list them, they elect equally many; and after era 0, rank by rank, the same stakes and
\* ages, so the same total, with nobody left out who has more; and if everybody is a
\* candidate with enough stake, the stakes TopNElection elects.  Who is elected among
\* equals, and anyone's place in era 0, is left to the order.
ElectionAgrees ==
  LET elections(era) == {run_election(order, era) : order \in Iterations}
      enough == {v \in Eligible : stake[v] >= MIN_STAKE}
  IN
  /\ \A a, b \in elections(0) : Len(a) = Len(b)
  /\ \A a, b \in elections(1) :
       /\ Len(a) = Len(b)
       /\ \A i \in DOMAIN a :
            /\ stake[a[i]] = stake[b[i]] /\ RegistrationEra[a[i]] = RegistrationEra[b[i]]
            /\ \A v \in enough : v \in {a[j] : j \in DOMAIN a} \/ stake[v] <= stake[a[i]]
            /\ enough = Validators => stake[a[i]] = stake[elect[i]]

\* Under neither policy does a chain mint more than the maximum, though every block of an
\* era is paid from the supply the era started with.
SupplyCapped ==
  \A n \in Running, policy \in Policies : SupplyAt(policy, Len(chain[n])) <= EffectiveMax
=============================================================================
