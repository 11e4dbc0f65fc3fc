----------------------------- MODULE Governance -----------------------------
(***************************************************************************)
(* GovernanceEngine of governance/engine.rs: the proposals, the votes, the *)
(* parameter values and the counters it keeps in the governance namespace  *)
(* of the state trie.  No transaction reaches it yet (the state machine's  *)
(* governance handlers only charge a fee), so the actions are its methods. *)
(*                                                                         *)
(* Simplifications.                                                        *)
(*  - A call that is refused changes nothing and is no step.               *)
(*  - Titles and descriptions are left out; the stake of a voter is read   *)
(*    from the state machine and is an input.                              *)
(*  - tally_proposals is a stub that returns nothing, so a proposal is     *)
(*    resolved only by set_proposal_status, with a status tallying gives.  *)
(***************************************************************************)
EXTENDS Naturals, Sequences, FiniteSets

CONSTANTS
  Ids,                               \* proposal ids, ordered as their bytes are
  Proposers, Voters,
  Params,                            \* GovernanceParam
  Bounds,                            \* param_bounds: param -> [min, max]
  NoValue,                           \* of a parameter no proposal has set
  ActionLists,                       \* inputs: sequences of actions
  Stakes,                            \* inputs: stakes a voter may have
  Balances,                          \* proposer -> balance
  PROPOSAL_DEPOSIT,
  VOTING_WINDOW_ERAS,
  MAX_ACTIVE_PROPOSALS_PER_PROPOSER,
  MAX_PROPOSALS_PER_ERA,
  MaxEra                             \* bound: eras

Action ==
  [kind : {"UpdateParam"}, param : Params, value : Nat] \cup
  [kind : {"IncreaseShards"}, count : Nat]

ASSUME GovernanceAssumption ==
  /\ IsFiniteSet(Ids) /\ Ids \subseteq Nat
  /\ ActionLists \subseteq Seq(Action)
  /\ MAX_ACTIVE_PROPOSALS_PER_PROPOSER \in Nat
  /\ MAX_PROPOSALS_PER_ERA \in Nat
  /\ VOTING_WINDOW_ERAS \in Nat
  /\ \A p \in Params : Bounds[p] \in [min : Nat, max : Nat]
  /\ NoValue \notin Nat

VARIABLES
  proposals,        \* prop_{id}: NoProposal or the stored proposal
  votes,            \* vote_{id}_{voter}: the votes recorded under an id
  params,           \* gov_param_{name}: NoValue or the stored value
  proposer_count,   \* gov_proposer_count_{proposer}
  global_count,     \* gov_active_count
  accounts,         \* the proposers' balances
  era

vars == <<proposals, votes, params, proposer_count, global_count, accounts, era>>

NoProposal == [status |-> "None"]

Init ==
  /\ proposals = [id \in Ids |-> NoProposal]
  /\ votes = [id \in Ids |-> {}]
  /\ params = [p \in Params |-> NoValue]
  /\ proposer_count = [p \in Proposers |-> 0]
  /\ global_count = 0
  /\ accounts = Balances
  /\ era = 0

-----------------------------------------------------------------------------
(* submit_proposal.                                                        *)

\* param_bounds_for: both bounds are inclusive.
InBounds(param, value) == Bounds[param].min <= value /\ value <= Bounds[param].max

validate_action(action) ==
  \/ action.kind = "UpdateParam" /\ InBounds(action.param, action.value)
  \/ action.kind = "IncreaseShards" /\ action.count # 0

\* Mutant of ActionsValid: only the first action is looked at.
ActionsValidFirst(actions) == actions # <<>> /\ validate_action(actions[1])

ActionsValid(actions) ==
  actions # <<>> /\ \A i \in DOMAIN actions : validate_action(actions[i])

\* Mutant of WithinRates: one proposal too many.
WithinRatesOneMore(proposer) ==
  /\ proposer_count[proposer] <= MAX_ACTIVE_PROPOSALS_PER_PROPOSER
  /\ global_count < MAX_PROPOSALS_PER_ERA

WithinRates(proposer) ==
  /\ proposer_count[proposer] < MAX_ACTIVE_PROPOSALS_PER_PROPOSER
  /\ global_count < MAX_PROPOSALS_PER_ERA

\* The answer of has_active_proposal_for_param, a stub.
has_active_proposal_for_param(param) == FALSE

ParamsFree(actions) ==
  \A i \in DOMAIN actions :
    actions[i].kind = "UpdateParam" => ~has_active_proposal_for_param(actions[i].param)

\* The deposit and the nonce are changed in a copy of the account that is not
\* written back.  An id that is taken is stored over.
SubmitProposal(proposer, id, actions) ==
  /\ accounts[proposer] >= PROPOSAL_DEPOSIT
  /\ ActionsValid(actions)
  /\ WithinRates(proposer)
  /\ ParamsFree(actions)
  /\ proposals' = [proposals EXCEPT ![id] =
       [status |-> "Active", proposer |-> proposer, actions |-> actions,
        submission_era |-> era]]
  /\ proposer_count' = [proposer_count EXCEPT ![proposer] = @ + 1]
  /\ global_count' = global_count + 1
  /\ UNCHANGED <<votes, params, accounts, era>>

-----------------------------------------------------------------------------
(* cast_vote.                                                              *)

InWindow(p) ==
  /\ p.submission_era <= era
  /\ era < p.submission_era + VOTING_WINDOW_ERAS

Ballot(voter, approve, stake) == [voter |-> voter, approve |-> approve, weight |-> stake]

\* A voter's second vote replaces the first.
CastVote(id, voter, approve, stake) ==
  /\ proposals[id].status = "Active"
  /\ InWindow(proposals[id])
  /\ stake # 0
  /\ votes' = [votes EXCEPT ![id] =
       {b \in @ : b.voter # voter} \cup {Ballot(voter, approve, stake)}]
  /\ UNCHANGED <<proposals, params, proposer_count, global_count, accounts, era>>

-----------------------------------------------------------------------------
(* cancel_proposal.                                                        *)

\* The answer of has_any_votes, a stub.
has_any_votes(id) == FALSE

Decrement(n) == IF n > 0 THEN n - 1 ELSE n

SetStatus(id, status) == [proposals EXCEPT ![id].status = status]

\* The deposit is returned to a copy that is not written back either.
CancelProposal(id, caller) ==
  /\ proposals[id].status = "Active"
  /\ proposals[id].proposer = caller
  /\ ~has_any_votes(id)
  /\ proposals' = SetStatus(id, "Cancelled")
  /\ proposer_count' = [proposer_count EXCEPT ![caller] = Decrement(@)]
  /\ global_count' = Decrement(global_count)
  /\ UNCHANGED <<votes, params, accounts, era>>

-----------------------------------------------------------------------------
(* Resolution and execution.                                               *)

\* set_proposal_status: the counters are left alone.
SetProposalStatus(id, status) ==
  /\ proposals[id].status # "None"
  /\ proposals' = SetStatus(id, status)
  /\ UNCHANGED <<votes, params, proposer_count, global_count, accounts, era>>

Greatest(S) == CHOOSE n \in S : \A m \in S : m <= n

Writes(id, param) ==
  LET actions == proposals[id].actions
  IN  {i \in DOMAIN actions : actions[i].kind = "UpdateParam" /\ actions[i].param = param}

\* Proposals in the order of their ids, the actions of each in theirs: for each
\* parameter the last write counts.
ExecuteApproved(ids) ==
  LET writers(param) ==
        {id \in ids : proposals[id].status = "Approved" /\ Writes(id, param) # {}}
      last(param) == Greatest(writers(param))
  IN
  /\ params' = [param \in Params |->
       IF writers(param) = {} THEN params[param]
       ELSE proposals[last(param)].actions[Greatest(Writes(last(param), param))].value]
  /\ UNCHANGED <<proposals, votes, proposer_count, global_count, accounts, era>>

NextEra ==
  /\ era < MaxEra
  /\ era' = era + 1
  /\ UNCHANGED <<proposals, votes, params, proposer_count, global_count, accounts>>

Next ==
  \/ \E p \in Proposers, id \in Ids, actions \in ActionLists : SubmitProposal(p, id, actions)
  \/ \E id \in Ids, v \in Voters, approve \in BOOLEAN, stake \in Stakes :
       CastVote(id, v, approve, stake)
  \/ \E id \in Ids, caller \in Proposers : CancelProposal(id, caller)
  \/ \E id \in Ids, status \in {"Approved", "Rejected", "Expired"} :
       SetProposalStatus(id, status)
  \/ \E ids \in SUBSET Ids : ExecuteApproved(ids)
  \/ NextEra

Spec == Init /\ [][Next]_vars

-----------------------------------------------------------------------------
(* Properties.                                                             *)

Active == {id \in Ids : proposals[id].status = "Active"}
ActiveOf(p) == {id \in Active : proposals[id].proposer = p}

Stored ==
  [status : {"Active", "Approved", "Rejected", "Expired", "Cancelled"},
   proposer : Proposers, actions : ActionLists, submission_era : Nat]

\* Types of the trie's entries.
TypeOK ==
  /\ proposals \in [Ids -> Stored \cup {NoProposal}]
  /\ params \in [Params -> Nat \cup {NoValue}]
  /\ proposer_count \in [Proposers -> Nat]
  /\ global_count \in Nat
  /\ era \in Nat

\* The counters are kept by hand beside the proposals they count.  Whatever is
\* stored over, cancelled or resolved, they never fall behind, so the limits they
\* stand for hold of the proposals themselves.
ActiveWithinLimits ==
  /\ Cardinality(Active) <= MAX_PROPOSALS_PER_ERA
  /\ \A p \in Proposers : Cardinality(ActiveOf(p)) <= MAX_ACTIVE_PROPOSALS_PER_PROPOSER

\* No sequence of proposals, however stored over, approved and executed, again or
\* out of order, stores a value outside the bounds checked at submission.  (Nothing
\* is stored before a proposal executes: a reader then falls back on a constant, and
\* two of those are outside the bounds.)
ParamsInBounds ==
  \A p \in Params :
    params[p] # NoValue => Bounds[p].min <= params[p] /\ params[p] <= Bounds[p].max
=============================================================================
