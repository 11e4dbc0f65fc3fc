-------------------------- MODULE GovernanceProofs --------------------------
(***************************************************************************)
(* The proposal limits and the parameter bounds, for every configuration.  *)
(***************************************************************************)
EXTENDS Governance, SumsProofs, FiniteSetTheorems, TLAPS

\* Neither property is inductive.  The limits are tested on the counters, which
\* must cover the proposals they count; the bounds are tested at submission, and
\* what is stored must still satisfy them when it is executed.
Covered(n, S, limit) == Cardinality(S) <= n /\ n <= limit

CountersCover ==
  /\ Covered(global_count, Active, MAX_PROPOSALS_PER_ERA)
  /\ \A p \in Proposers :
       Covered(proposer_count[p], ActiveOf(p), MAX_ACTIVE_PROPOSALS_PER_PROPOSER)

StoredAreValid ==
  \A id \in Ids : proposals[id].status # "None" => ActionsValid(proposals[id].actions)

IInv == TypeOK /\ CountersCover /\ StoredAreValid /\ ParamsInBounds

-----------------------------------------------------------------------------
(* Sizes.                                                                  *)

\* At most one more element.
LEMMA CardGrow ==
  ASSUME NEW S, IsFiniteSet(S), NEW x, NEW T, T \subseteq S \cup {x}
  PROVE  IsFiniteSet(T) /\ Cardinality(T) \in Nat /\ Cardinality(T) <= Cardinality(S) + 1
<1>1. IsFiniteSet(S \cup {x}) /\ Cardinality(S \cup {x}) <= Cardinality(S) + 1
  <2>1. Cardinality(S) \in Nat
    BY FS_CardinalityType
  <2>2. CASE x \in S
    <3>1. S \cup {x} = S
      BY <2>2
    <3> QED BY <2>1, <3>1
  <2>3. CASE x \notin S
    <3>1. IsFiniteSet(S \cup {x})
      BY FS_AddElement
    <3>2. Cardinality(S \cup {x}) = Cardinality(S) + 1
      BY <2>3, FS_AddElement
    <3> QED BY <2>1, <3>1, <3>2
  <2> QED BY <2>2, <2>3
<1>2. IsFiniteSet(T) /\ Cardinality(T) <= Cardinality(S \cup {x})
  BY <1>1, FS_Subset
<1> QED BY <1>1, <1>2, FS_CardinalityType

\* At least one element less.
LEMMA CardShrink ==
  ASSUME NEW S, IsFiniteSet(S), NEW x \in S, NEW T, T \subseteq S \ {x}
  PROVE  IsFiniteSet(T) /\ Cardinality(T) \in Nat /\ Cardinality(T) + 1 <= Cardinality(S)
<1>1. IsFiniteSet(S \ {x}) /\ Cardinality(S \ {x}) = Cardinality(S) - 1
  BY FS_RemoveElement
<1>2. IsFiniteSet(T) /\ Cardinality(T) <= Cardinality(S \ {x})
  BY <1>1, FS_Subset
<1> QED BY <1>1, <1>2, FS_CardinalityType

\* A finite set of numbers has a greatest, by descent on its size.
LEMMA FiniteMax ==
  ASSUME NEW S \in SUBSET Nat, IsFiniteSet(S), S # {}
  PROVE  \E n \in S : \A m \in S : m <= n
<1> DEFINE Top(T) == \E n \in T : \A m \in T : m <= n
           Bad == {k \in Nat : \E T \in SUBSET Nat :
                     IsFiniteSet(T) /\ T # {} /\ Cardinality(T) = k /\ ~Top(T)}
<1>1. SUFFICES ASSUME Bad # {} PROVE FALSE
  <2>1. Bad = {} => Top(S)
    BY FS_CardinalityType
  <2> QED BY <1>1, <2>1
<1>2. PICK k \in Bad : \A j \in Bad : k <= j
  BY <1>1, LeastNatural
<1>3. PICK T \in SUBSET Nat : IsFiniteSet(T) /\ T # {} /\ Cardinality(T) = k /\ ~Top(T)
  BY <1>2
<1>4. PICK x \in T : TRUE
  BY <1>3
<1> DEFINE R == T \ {x}
<1>5. R \in SUBSET Nat /\ IsFiniteSet(R) /\ Cardinality(R) = k - 1
  BY <1>3, <1>4, FS_RemoveElement
<1>6. k \in Nat /\ k - 1 \in Nat
  BY <1>5, <1>2, FS_CardinalityType
<1>7. R # {}
  <2>1. R = {} => T = {x}
    BY <1>4
  <2>2. x \in Nat
    BY <1>3, <1>4
  <2>3. R = {} => Top(T)
    BY <2>1, <2>2
  <2> QED BY <1>3, <2>3
<1>8. Top(R)
  <2>1. k - 1 \notin Bad
    BY <1>2, <1>6
  <2> HIDE DEF Top, R
  <2> QED BY <1>5, <1>6, <1>7, <2>1
<1>9. Top(T)
  <2>1. PICK n \in R : \A m \in R : m <= n
    BY <1>8
  <2>2. n \in Nat /\ x \in Nat /\ T \subseteq Nat /\ n \in T /\ T = R \cup {x}
    BY <2>1, <1>3, <1>4
  <2> HIDE DEF R
  <2>3. CASE n <= x
    <3>1. \A m \in T : m <= x
      BY <2>1, <2>2, <2>3
    <3> QED BY <3>1, <1>4
  <2>4. CASE x <= n
    <3>1. \A m \in T : m <= n
      BY <2>1, <2>2, <2>4
    <3> QED BY <3>1, <2>2
  <2> QED BY <2>2, <2>3, <2>4
<1> QED BY <1>3, <1>9

LEMMA ActiveFinite == IsFiniteSet(Active) /\ \A p : IsFiniteSet(ActiveOf(p))
BY FS_Subset, GovernanceAssumption DEF Active, ActiveOf

-----------------------------------------------------------------------------
(* Steps.                                                                  *)

LEMMA InitOk == Init => IInv
<1> SUFFICES ASSUME Init PROVE IInv
  OBVIOUS
<1>1. \A id \in Ids : proposals[id].status = "None"
  BY DEF Init, NoProposal
<1>2. Active = {} /\ \A p : ActiveOf(p) = {}
  BY <1>1 DEF Active, ActiveOf
<1>3. CountersCover
  <2>1. Cardinality({}) = 0 /\ global_count = 0 /\ \A p \in Proposers : proposer_count[p] = 0
    BY FS_EmptySet DEF Init
  <2>2. 0 <= MAX_PROPOSALS_PER_ERA /\ 0 <= MAX_ACTIVE_PROPOSALS_PER_PROPOSER
    BY GovernanceAssumption
  <2> QED BY <1>2, <2>1, <2>2 DEF CountersCover, Covered
<1>4. TypeOK
  BY GovernanceAssumption DEF TypeOK, Init
<1>5. StoredAreValid
  BY <1>1 DEF StoredAreValid
<1>6. ParamsInBounds
  BY DEF ParamsInBounds, Init
<1> QED BY <1>3, <1>4, <1>5, <1>6 DEF IInv

\* What is stored under an id has the shape of a proposal.
LEMMA StoredShape ==
  ASSUME TypeOK, NEW id \in Ids, proposals[id].status # "None"
  PROVE  proposals[id] \in Stored
BY DEF TypeOK, NoProposal

LEMMA SubmitOk ==
  ASSUME IInv, NEW p \in Proposers, NEW id \in Ids, NEW actions \in ActionLists,
         SubmitProposal(p, id, actions)
  PROVE  IInv'
<1> DEFINE new == [status |-> "Active", proposer |-> p, actions |-> actions,
                   submission_era |-> era]
<1>0. TypeOK /\ CountersCover /\ StoredAreValid /\ ParamsInBounds
  BY DEF IInv
<1>1. /\ ActionsValid(actions) /\ WithinRates(p)
      /\ proposals' = [proposals EXCEPT ![id] = new]
      /\ proposer_count' = [proposer_count EXCEPT ![p] = @ + 1]
      /\ global_count' = global_count + 1
      /\ params' = params /\ era' = era
  BY DEF SubmitProposal
<1>2. new \in Stored
  BY <1>0 DEF Stored, TypeOK
<1>3. new.status = "Active" /\ new.proposer = p /\ new.actions = actions
  OBVIOUS
<1> HIDE DEF new
<1>4. TypeOK'
  BY <1>0, <1>1, <1>2 DEF TypeOK
<1>5. /\ proposals'[id] = new
      /\ \A i \in Ids \ {id} : proposals'[i] = proposals[i]
  BY <1>0, <1>1 DEF TypeOK
<1>6. /\ Active' \subseteq Active \cup {id}
      /\ ActiveOf(p)' \subseteq ActiveOf(p) \cup {id}
      /\ \A q \in Proposers : q # p => ActiveOf(q)' \subseteq ActiveOf(q)
  BY <1>3, <1>5 DEF Active, ActiveOf
<1>7. Covered(global_count, Active, MAX_PROPOSALS_PER_ERA)'
  <2>1. Cardinality(Active') \in Nat /\ Cardinality(Active') <= Cardinality(Active) + 1
    BY <1>6, ActiveFinite, CardGrow
  <2>2. global_count < MAX_PROPOSALS_PER_ERA /\ Cardinality(Active) <= global_count
    BY <1>0, <1>1 DEF CountersCover, Covered, WithinRates
  <2>3. Cardinality(Active) \in Nat /\ global_count \in Nat
    BY <1>0, ActiveFinite, FS_CardinalityType DEF TypeOK
  <2> QED BY <1>1, <2>1, <2>2, <2>3, GovernanceAssumption DEF Covered
<1>8. ASSUME NEW q \in Proposers
      PROVE  Covered(proposer_count'[q], ActiveOf(q)', MAX_ACTIVE_PROPOSALS_PER_PROPOSER)
  <2>0. /\ Cardinality(ActiveOf(q)) \in Nat /\ proposer_count[q] \in Nat
        /\ Cardinality(ActiveOf(q)) <= proposer_count[q]
        /\ proposer_count[q] <= MAX_ACTIVE_PROPOSALS_PER_PROPOSER
    BY <1>0, ActiveFinite, FS_CardinalityType DEF TypeOK, CountersCover, Covered
  <2>1. CASE q = p
    <3>1. Cardinality(ActiveOf(q)') \in Nat
          /\ Cardinality(ActiveOf(q)') <= Cardinality(ActiveOf(q)) + 1
      BY <1>6, <2>1, ActiveFinite, CardGrow
    <3>2. proposer_count'[q] = proposer_count[q] + 1
          /\ proposer_count[q] < MAX_ACTIVE_PROPOSALS_PER_PROPOSER
      BY <1>0, <1>1, <2>1 DEF TypeOK, WithinRates
    <3> QED BY <2>0, <3>1, <3>2, GovernanceAssumption DEF Covered
  <2>2. CASE q # p
    <3>1. Cardinality(ActiveOf(q)') <= Cardinality(ActiveOf(q))
          /\ Cardinality(ActiveOf(q)') \in Nat
      BY <1>6, <2>2, ActiveFinite, FS_Subset, FS_CardinalityType
    <3>2. proposer_count'[q] = proposer_count[q]
      BY <1>0, <1>1, <2>2 DEF TypeOK
    <3> QED BY <2>0, <3>1, <3>2, GovernanceAssumption DEF Covered
  <2> QED BY <2>1, <2>2
<1>9. StoredAreValid'
  BY <1>0, <1>1, <1>3, <1>5 DEF StoredAreValid
<1>10. ParamsInBounds'
  BY <1>0, <1>1 DEF ParamsInBounds
<1>11. CountersCover'
  BY <1>7, <1>8 DEF CountersCover
<1> QED BY <1>4, <1>9, <1>10, <1>11 DEF IInv

\* A status changes, to one that is not Active.
LEMMA StatusOk ==
  ASSUME TypeOK, StoredAreValid, NEW id \in Ids, proposals[id].status # "None",
         NEW status \in {"Approved", "Rejected", "Expired", "Cancelled"},
         proposals' = SetStatus(id, status)
  PROVE  /\ proposals' \in [Ids -> Stored \cup {NoProposal}]
         /\ StoredAreValid'
         /\ Active' \subseteq Active \ {id}
         /\ \A p : ActiveOf(p)' \subseteq ActiveOf(p) \ {id}
<1> DEFINE new == [proposals[id] EXCEPT !.status = status]
<1>1. proposals[id] \in Stored
  BY StoredShape
<1>2. new \in Stored
  BY <1>1 DEF Stored
<1>3. new.status = status /\ new.actions = proposals[id].actions
  BY <1>1 DEF Stored
<1>4. proposals' = [proposals EXCEPT ![id] = new]
  BY DEF SetStatus
<1> HIDE DEF new
<1>5. proposals'[id] = new /\ \A i \in Ids \ {id} : proposals'[i] = proposals[i]
  BY <1>4 DEF TypeOK
<1>6. proposals' \in [Ids -> Stored \cup {NoProposal}]
  BY <1>2, <1>4 DEF TypeOK
<1>7. StoredAreValid'
  BY <1>3, <1>5 DEF StoredAreValid
<1>8. id \notin Active'
  BY <1>3, <1>5 DEF Active
<1>9. \A i \in Ids \ {id} : i \in Active' <=> i \in Active
  BY <1>5 DEF Active
<1>10. Active' \subseteq Active \ {id}
  BY <1>8, <1>9 DEF Active
<1>11. \A p : ActiveOf(p)' \subseteq ActiveOf(p) \ {id}
  BY <1>5, <1>10 DEF ActiveOf, Active
<1> QED BY <1>6, <1>7, <1>10, <1>11

LEMMA CancelOk ==
  ASSUME IInv, NEW id \in Ids, NEW c \in Proposers, CancelProposal(id, c)
  PROVE  IInv'
<1>0. TypeOK /\ CountersCover /\ StoredAreValid /\ ParamsInBounds
  BY DEF IInv
<1>1. /\ proposals[id].status = "Active" /\ proposals[id].proposer = c
      /\ proposals' = SetStatus(id, "Cancelled")
      /\ proposer_count' = [proposer_count EXCEPT ![c] = Decrement(@)]
      /\ global_count' = Decrement(global_count)
      /\ params' = params /\ era' = era
  BY DEF CancelProposal
<1>2. /\ proposals' \in [Ids -> Stored \cup {NoProposal}]
      /\ StoredAreValid'
      /\ Active' \subseteq Active \ {id}
      /\ \A p : ActiveOf(p)' \subseteq ActiveOf(p) \ {id}
  BY <1>0, <1>1, StatusOk
<1>3. id \in Active /\ id \in ActiveOf(c)
  BY <1>1 DEF Active, ActiveOf
<1>4. Covered(global_count, Active, MAX_PROPOSALS_PER_ERA)'
  <2>1. Cardinality(Active') \in Nat /\ Cardinality(Active') + 1 <= Cardinality(Active)
    BY <1>2, <1>3, ActiveFinite, CardShrink
  <2>2. /\ Cardinality(Active) <= global_count /\ global_count <= MAX_PROPOSALS_PER_ERA
        /\ Cardinality(Active) \in Nat /\ global_count \in Nat
    BY <1>0, ActiveFinite, FS_CardinalityType DEF CountersCover, Covered, TypeOK
  <2> QED BY <1>1, <2>1, <2>2, GovernanceAssumption DEF Covered, Decrement
<1>5. ASSUME NEW q \in Proposers
      PROVE  Covered(proposer_count'[q], ActiveOf(q)', MAX_ACTIVE_PROPOSALS_PER_PROPOSER)
  <2>0. /\ Cardinality(ActiveOf(q)) \in Nat /\ proposer_count[q] \in Nat
        /\ Cardinality(ActiveOf(q)) <= proposer_count[q]
        /\ proposer_count[q] <= MAX_ACTIVE_PROPOSALS_PER_PROPOSER
    BY <1>0, ActiveFinite, FS_CardinalityType DEF TypeOK, CountersCover, Covered
  <2>1. CASE q = c
    <3>1. Cardinality(ActiveOf(q)') \in Nat
          /\ Cardinality(ActiveOf(q)') + 1 <= Cardinality(ActiveOf(q))
      BY <1>2, <1>3, <2>1, ActiveFinite, CardShrink
    <3>2. proposer_count'[q] = Decrement(proposer_count[q])
      BY <1>0, <1>1, <2>1 DEF TypeOK
    <3> QED BY <2>0, <3>1, <3>2, GovernanceAssumption DEF Covered, Decrement
  <2>2. CASE q # c
    <3>0. ActiveOf(q)' \subseteq ActiveOf(q)
      BY <1>2
    <3>1. Cardinality(ActiveOf(q)') <= Cardinality(ActiveOf(q))
          /\ Cardinality(ActiveOf(q)') \in Nat
      BY <3>0, ActiveFinite, FS_Subset, FS_CardinalityType
    <3>2. proposer_count'[q] = proposer_count[q]
      BY <1>0, <1>1, <2>2 DEF TypeOK
    <3> QED BY <2>0, <3>1, <3>2, GovernanceAssumption DEF Covered
  <2> QED BY <2>1, <2>2
<1>6. TypeOK'
  <2>1. Decrement(global_count) \in Nat /\ \A q \in Proposers : Decrement(proposer_count[q]) \in Nat
    BY <1>0 DEF TypeOK, Decrement
  <2> QED BY <1>0, <1>1, <1>2, <2>1 DEF TypeOK
<1>7. ParamsInBounds'
  BY <1>0, <1>1 DEF ParamsInBounds
<1>8. CountersCover'
  BY <1>4, <1>5 DEF CountersCover
<1> QED BY <1>2, <1>6, <1>7, <1>8 DEF IInv

LEMMA SetStatusOk ==
  ASSUME IInv, NEW id \in Ids, NEW status \in {"Approved", "Rejected", "Expired"},
         SetProposalStatus(id, status)
  PROVE  IInv'
<1>0. TypeOK /\ CountersCover /\ StoredAreValid /\ ParamsInBounds
  BY DEF IInv
<1>1. /\ proposals[id].status # "None" /\ proposals' = SetStatus(id, status)
      /\ proposer_count' = proposer_count /\ global_count' = global_count
      /\ params' = params /\ era' = era
  BY DEF SetProposalStatus
<1>2. /\ proposals' \in [Ids -> Stored \cup {NoProposal}]
      /\ StoredAreValid'
      /\ Active' \subseteq Active
      /\ \A p : ActiveOf(p)' \subseteq ActiveOf(p)
  <2>1. status \in {"Approved", "Rejected", "Expired", "Cancelled"}
    OBVIOUS
  <2> QED BY <1>0, <1>1, <2>1, StatusOk
<1>3. /\ Cardinality(Active') <= Cardinality(Active)
      /\ Cardinality(Active') \in Nat /\ Cardinality(Active) \in Nat
  BY <1>2, ActiveFinite, FS_Subset, FS_CardinalityType
<1>4. \A p : /\ Cardinality(ActiveOf(p)') <= Cardinality(ActiveOf(p))
             /\ Cardinality(ActiveOf(p)') \in Nat /\ Cardinality(ActiveOf(p)) \in Nat
  BY <1>2, ActiveFinite, FS_Subset, FS_CardinalityType
<1>5. CountersCover'
  BY <1>0, <1>1, <1>3, <1>4 DEF CountersCover, Covered, TypeOK
<1>6. TypeOK'
  BY <1>0, <1>1, <1>2 DEF TypeOK
<1>7. ParamsInBounds'
  BY <1>0, <1>1 DEF ParamsInBounds
<1> QED BY <1>2, <1>5, <1>6, <1>7 DEF IInv

\* The parameters written are in bounds because their proposals are still those
\* that were validated.
LEMMA ExecuteOk ==
  ASSUME IInv, NEW ids \in SUBSET Ids, ExecuteApproved(ids)
  PROVE  IInv'
<1> DEFINE writers(param) ==
             {id \in ids : proposals[id].status = "Approved" /\ Writes(id, param) # {}}
           last(param) == Greatest(writers(param))
           value(param) ==
             proposals[last(param)].actions[Greatest(Writes(last(param), param))].value
<1>0. TypeOK /\ CountersCover /\ StoredAreValid /\ ParamsInBounds
  BY DEF IInv
<1>1. /\ params' = [param \in Params |->
                      IF writers(param) = {} THEN params[param] ELSE value(param)]
      /\ proposals' = proposals /\ proposer_count' = proposer_count
      /\ global_count' = global_count /\ era' = era
  BY DEF ExecuteApproved
<1>2. ASSUME NEW param \in Params, writers(param) # {}
      PROVE  /\ value(param) \in Nat
             /\ Bounds[param].min <= value(param) /\ value(param) <= Bounds[param].max
  <2> DEFINE id == last(param)
             at == Greatest(Writes(id, param))
             action == proposals[id].actions[at]
  <2>1. id \in writers(param)
    <3>1. writers(param) \subseteq Nat /\ IsFiniteSet(writers(param))
      BY FS_Subset, GovernanceAssumption
    <3>2. \E n \in writers(param) : \A m \in writers(param) : m <= n
      BY <1>2, <3>1, FiniteMax
    <3> QED BY <3>2 DEF Greatest
  <2> HIDE DEF last
  <2>2. id \in Ids /\ proposals[id].status = "Approved" /\ Writes(id, param) # {}
    BY <2>1
  <2>3. proposals[id] \in Stored /\ ActionsValid(proposals[id].actions)
    BY <1>0, <2>2, StoredShape DEF StoredAreValid
  <2>4. proposals[id].actions \in Seq(Action)
    BY <2>3, GovernanceAssumption DEF Stored
  <2>5. at \in Writes(id, param)
    <3>1. Writes(id, param) \subseteq 1..Len(proposals[id].actions)
      BY <2>4 DEF Writes
    <3>2. Writes(id, param) \subseteq Nat /\ IsFiniteSet(Writes(id, param))
      <4>1. Len(proposals[id].actions) \in Nat
        BY <2>4
      <4>2. IsFiniteSet(1..Len(proposals[id].actions))
        BY <4>1, FS_Interval
      <4>3. IsFiniteSet(Writes(id, param))
        BY <3>1, <4>2, FS_Subset
      <4> HIDE DEF id
      <4> QED BY <3>1, <4>1, <4>3
    <3>3. \E n \in Writes(id, param) : \A m \in Writes(id, param) : m <= n
      BY <2>2, <3>2, FiniteMax
    <3> QED BY <3>3 DEF Greatest
  <2> HIDE DEF at, id
  <2>6. /\ at \in DOMAIN proposals[id].actions
        /\ action.kind = "UpdateParam" /\ action.param = param
    BY <2>5 DEF Writes
  <2>7. action \in Action /\ validate_action(action)
    BY <2>3, <2>4, <2>6 DEF ActionsValid
  <2>8. value(param) = action.value
    BY DEF at, id
  <2> HIDE DEF action, value
  <2>9. action.value \in Nat
    BY <2>6, <2>7 DEF Action
  <2> QED BY <2>6, <2>7, <2>8, <2>9 DEF validate_action, InBounds
<1> HIDE DEF writers, value
<1>3. \A param \in Params : /\ params'[param] \in Nat \cup {NoValue}
                            /\ params'[param] # NoValue =>
                                 /\ Bounds[param].min <= params'[param]
                                 /\ params'[param] <= Bounds[param].max
  BY <1>0, <1>1, <1>2 DEF TypeOK, ParamsInBounds
<1>4. TypeOK'
  BY <1>0, <1>1, <1>3 DEF TypeOK
<1>5. ParamsInBounds'
  BY <1>3 DEF ParamsInBounds
<1>6. CountersCover' /\ StoredAreValid'
  BY <1>0, <1>1 DEF CountersCover, Covered, StoredAreValid, Active, ActiveOf
<1> QED BY <1>4, <1>5, <1>6 DEF IInv

\* Votes, eras and stuttering change none of what the invariant is about.
LEMMA QuietOk ==
  ASSUME IInv, UNCHANGED <<proposals, params, proposer_count, global_count>>, era' \in Nat
  PROVE  IInv'
BY DEF IInv, TypeOK, CountersCover, Covered, StoredAreValid, ParamsInBounds, Active, ActiveOf

\* Every method and every order of them keeps the invariant.
LEMMA StepOk == IInv /\ [Next]_vars => IInv'
<1> SUFFICES ASSUME IInv, [Next]_vars PROVE IInv'
  OBVIOUS
<1>0. era \in Nat
  BY DEF IInv, TypeOK
<1>1. ASSUME NEW p \in Proposers, NEW id \in Ids, NEW actions \in ActionLists,
             SubmitProposal(p, id, actions)
      PROVE  IInv'
  BY <1>1, SubmitOk
<1>2. ASSUME NEW id \in Ids, NEW v \in Voters, NEW approve \in BOOLEAN, NEW stake \in Stakes,
             CastVote(id, v, approve, stake)
      PROVE  IInv'
  BY <1>0, <1>2, QuietOk DEF CastVote
<1>3. ASSUME NEW id \in Ids, NEW c \in Proposers, CancelProposal(id, c) PROVE IInv'
  BY <1>3, CancelOk
<1>4. ASSUME NEW id \in Ids, NEW status \in {"Approved", "Rejected", "Expired"},
             SetProposalStatus(id, status)
      PROVE  IInv'
  BY <1>4, SetStatusOk
<1>5. ASSUME NEW ids \in SUBSET Ids, ExecuteApproved(ids) PROVE IInv'
  BY <1>5, ExecuteOk
<1>6. CASE NextEra
  BY <1>0, <1>6, QuietOk DEF NextEra
<1>7. CASE UNCHANGED vars
  BY <1>0, <1>7, QuietOk DEF vars
<1> QED BY <1>1, <1>2, <1>3, <1>4, <1>5, <1>6, <1>7 DEF Next

\* Whatever sequence of submissions, reuses of an id, cancellations, resolutions
\* and executions: the limits hold of the active proposals, and no value outside its
\* bounds is ever stored for a parameter.
THEOREM GovernanceSound == Spec => [](ActiveWithinLimits /\ ParamsInBounds)
<1>1. IInv => ActiveWithinLimits /\ ParamsInBounds
  <2> SUFFICES ASSUME IInv PROVE ActiveWithinLimits /\ ParamsInBounds
    OBVIOUS
  <2>1. /\ Cardinality(Active) \in Nat /\ \A p : Cardinality(ActiveOf(p)) \in Nat
    BY ActiveFinite, FS_CardinalityType
  <2>2. TypeOK /\ CountersCover /\ ParamsInBounds
    BY DEF IInv
  <2> QED
    BY <2>1, <2>2, GovernanceAssumption DEF ActiveWithinLimits, CountersCover, Covered, TypeOK
<1> QED BY <1>1, InitOk, StepOk, PTL DEF Spec

\* Every value execute_approved stores for a parameter is within the bounds that
\* validate_action checked when the proposal was submitted, whatever is executed and
\* however often.
THEOREM ParamsInBoundsHolds == Spec => []ParamsInBounds
BY GovernanceSound, PTL
=============================================================================
