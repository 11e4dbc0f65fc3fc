-------------------------- MODULE ConsensusProofs ---------------------------
(***************************************************************************)
(* Finality, for every active set, every stake and every delivery order;   *)
(* then forks, evidence, elections and the supply schedule, for any number *)
(* of validators, headers and eras.                                        *)
(***************************************************************************)
EXTENDS CommitTracker, Forks, SumsProofs, FiniteSetTheorems, SequenceTheorems

-----------------------------------------------------------------------------
(* Stakes of sets of validators.                                           *)

StakeFn(S) == [v \in Validator |-> IF v \in S THEN StakeWeight[v] ELSE 0]

LEMMA StakeOfType ==
  ASSUME NEW S
  PROVE  StakeFn(S) \in [Validator -> Nat] /\ StakeOf(S) = Total(StakeFn(S), V) /\ StakeOf(S) \in Nat
<1>1. StakeFn(S) \in [Validator -> Nat]
  BY WeightAssumption DEF StakeFn
<1>2. StakeOf(S) = Total(StakeFn(S), V)
  BY DEF StakeOf, StakeFn
<1>3. Total(StakeFn(S), V) \in Nat
  BY <1>1, TotalType, WeightAssumption DEF Validator
<1> QED BY <1>1, <1>2, <1>3

\* Inclusion and exclusion.
LEMMA StakeOfSplit ==
  ASSUME NEW A, NEW B
  PROVE  StakeOf(A) + StakeOf(B) = StakeOf(A \cup B) + StakeOf(A \cap B)
<1> DEFINE Sum(f, g) == [v \in Validator |-> f[v] + g[v]]
<1>1. Sum(StakeFn(A), StakeFn(B)) = Sum(StakeFn(A \cup B), StakeFn(A \cap B))
  <2> SUFFICES ASSUME NEW v \in Validator
               PROVE  StakeFn(A)[v] + StakeFn(B)[v] = StakeFn(A \cup B)[v] + StakeFn(A \cap B)[v]
    OBVIOUS
  <2>1. StakeWeight[v] \in Nat
    BY WeightAssumption
  <2> QED BY <2>1 DEF StakeFn
<1>2. Total(Sum(StakeFn(A), StakeFn(B)), V) = Total(StakeFn(A), V) + Total(StakeFn(B), V)
  BY StakeOfType, TotalAdd, WeightAssumption DEF Validator
<1>3. Total(Sum(StakeFn(A \cup B), StakeFn(A \cap B)), V)
        = Total(StakeFn(A \cup B), V) + Total(StakeFn(A \cap B), V)
  BY StakeOfType, TotalAdd, WeightAssumption DEF Validator
<1> HIDE DEF Sum
<1> QED BY <1>1, <1>2, <1>3, StakeOfType

\* Nobody holds nothing.
LEMMA NoStake == StakeOf({}) = 0
<1> DEFINE z == StakeFn({})
           t == Total(z, V)
<1>1. z \in [Validator -> Nat] /\ StakeOf({}) = t /\ t \in Nat
  BY StakeOfType
<1>2. \A f, g \in [Validator -> Nat] :
        Total([v \in Validator |-> f[v] + g[v]], V) = Total(f, V) + Total(g, V)
  BY TotalAdd, WeightAssumption DEF Validator
<1>3. [v \in Validator |-> z[v] + z[v]] = z
  BY DEF StakeFn
<1>4. t = t + t
  <2> HIDE DEF z
  <2>1. Total([v \in Validator |-> z[v] + z[v]], V) = Total(z, V) + Total(z, V)
    BY <1>1, <1>2
  <2> QED BY <2>1, <1>3
<1> HIDE DEF t
<1> QED BY <1>1, <1>4

\* A larger set of validators has at least as much stake.
LEMMA StakeOfMonotone ==
  ASSUME NEW A, NEW B, A \subseteq B
  PROVE  StakeOf(A) <= StakeOf(B)
<1>1. StakeOf(A) + StakeOf(B \ A) = StakeOf(B) + StakeOf({})
  <2>1. A \cup (B \ A) = B /\ A \cap (B \ A) = {}
    OBVIOUS
  <2> QED BY <2>1, StakeOfSplit
<1>2. StakeOf({}) = 0
  BY NoStake
<1> DEFINE a == StakeOf(A)
           b == StakeOf(B)
           d == StakeOf(B \ A)
<1>3. a \in Nat /\ b \in Nat /\ d \in Nat
  BY StakeOfType
<1>4. a + d = b
  BY <1>1, <1>2, StakeOfType
<1> HIDE DEF a, b, d
<1>5. a <= b
  BY <1>3, <1>4
<1> QED BY <1>5 DEF a, b

\* Votes of which no two come from the same validator weigh what their senders hold.
LEMMA WeightOfVotes ==
  ASSUME NEW votes, \A x, y \in votes : x.validator = y.validator => x = y
  PROVE  cumulative_weight(votes) = StakeOf(Voters(votes))
<1>1. ASSUME NEW v \in Validator
      PROVE  Cardinality({vote \in votes : vote.validator = v}) * StakeWeight[v]
               = IF v \in Voters(votes) THEN StakeWeight[v] ELSE 0
  <2>0. StakeWeight[v] \in Nat
    BY WeightAssumption
  <2>1. CASE v \in Voters(votes)
    <3>1. PICK x \in votes : x.validator = v
      BY <2>1 DEF Voters
    <3>2. {vote \in votes : vote.validator = v} = {x}
      BY <3>1
    <3>3. Cardinality({vote \in votes : vote.validator = v}) = 1
      BY <3>2, FS_Singleton
    <3> QED BY <2>0, <2>1, <3>3
  <2>2. CASE v \notin Voters(votes)
    <3>1. {vote \in votes : vote.validator = v} = {}
      BY <2>2 DEF Voters
    <3>2. Cardinality({vote \in votes : vote.validator = v}) = 0
      BY <3>1, FS_EmptySet
    <3> QED BY <2>0, <2>2, <3>2
  <2> QED BY <2>1, <2>2
<1>2. [v \in Validator |-> Cardinality({vote \in votes : vote.validator = v}) * StakeWeight[v]]
        = StakeFn(Voters(votes))
  BY <1>1 DEF StakeFn
<1> QED
  BY <1>2, StakeOfType DEF cumulative_weight

-----------------------------------------------------------------------------
(* The inductive invariant.                                                *)

\* What a node has recorded at a height is among what it was sent, one vote per
\* validator; until the height is final it has recorded every validator it heard
\* from; and the height is final when the recorded validators hold enough.
TrackerOk(n, h) ==
  /\ commits[n][h] \subseteq AtHeight(delivered[n], h)
  /\ \A x \in commits[n][h] : x.validator \in Validator
  /\ \A x, y \in commits[n][h] : x.validator = y.validator => x = y
  /\ h \notin finalized[n] => Voters(AtHeight(delivered[n], h)) \subseteq Voters(commits[n][h])
  /\ h \in finalized[n] <=> CrossesThreshold(StakeOf(Voters(commits[n][h])))

IInv == TypeOK /\ \A n \in Nodes, h \in Heights : TrackerOk(n, h)

LEMMA InitOk == Init => IInv
<1> SUFFICES ASSUME Init PROVE IInv
  OBVIOUS
<1>1. TypeOK
  BY DEF Init, TypeOK
<1>2. ~CrossesThreshold(StakeOf({}))
  <2>1. total_active_stake \in Nat
    BY StakeOfType DEF total_active_stake
  <2> QED BY <2>1, NoStake DEF CrossesThreshold
<1>3. ASSUME NEW n \in Nodes, NEW h \in Heights PROVE TrackerOk(n, h)
  <2>1. commits[n][h] = {} /\ finalized[n] = {} /\ AtHeight(delivered[n], h) = {}
    BY DEF Init, AtHeight
  <2>2. Voters({}) = {}
    BY DEF Voters
  <2> QED BY <1>2, <2>1, <2>2 DEF TrackerOk
<1> QED BY <1>1, <1>3 DEF IInv

\* A recorded vote, seen from the node and height it is recorded at.
LEMMA RecordOk ==
  ASSUME IInv, NEW n \in Nodes, NEW vote \in Votes, AddVote(n, vote), Acceptable(n, vote)
  PROVE  TrackerOk(n, vote.height)'
<1> DEFINE h == vote.height
           old == commits[n][h]
           new == old \cup {vote}
<1>0. vote \in Vote /\ h \in Heights /\ TrackerOk(n, h) /\ TypeOK
  BY WeightAssumption DEF IInv, Vote
<1>1. /\ commits' = [commits EXCEPT ![n][h] = new]
      /\ finalized' = IF CrossesThreshold(cumulative_weight(new))
                      THEN [finalized EXCEPT ![n] = @ \cup {h}] ELSE finalized
      /\ delivered' = [delivered EXCEPT ![n] = @ \cup {vote}]
  BY DEF AddVote, Record
<1>2. /\ h \notin finalized[n] /\ vote.validator \in Validator
      /\ \A other \in old : other.validator # vote.validator
  BY DEF Acceptable
<1>3. commits'[n][h] = new /\ delivered'[n] = delivered[n] \cup {vote}
  BY <1>0, <1>1 DEF TypeOK
<1>4. h \in finalized'[n] <=> CrossesThreshold(cumulative_weight(new))
  BY <1>0, <1>1, <1>2 DEF TypeOK
<1>5. AtHeight(delivered'[n], h) = AtHeight(delivered[n], h) \cup {vote}
  BY <1>3 DEF AtHeight
<1>6. new \subseteq AtHeight(delivered'[n], h) /\ \A x \in new : x.validator \in Validator
  BY <1>0, <1>2, <1>5 DEF TrackerOk
<1>7. \A x, y \in new : x.validator = y.validator => x = y
  BY <1>0, <1>2 DEF TrackerOk
<1>8. cumulative_weight(new) = StakeOf(Voters(new))
  <2> HIDE DEF new
  <2> QED BY <1>7, WeightOfVotes
<1>9. Voters(AtHeight(delivered'[n], h)) \subseteq Voters(new)
  BY <1>0, <1>2, <1>5 DEF TrackerOk, Voters
<1> HIDE DEF new, h
<1>10. /\ commits'[n][h] \subseteq AtHeight(delivered'[n], h)
       /\ \A x \in commits'[n][h] : x.validator \in Validator
       /\ \A x, y \in commits'[n][h] : x.validator = y.validator => x = y
       /\ Voters(AtHeight(delivered'[n], h)) \subseteq Voters(commits'[n][h])
       /\ h \in finalized'[n] <=> CrossesThreshold(StakeOf(Voters(commits'[n][h])))
  BY <1>3, <1>4, <1>6, <1>7, <1>8, <1>9
<1> QED
  BY <1>10 DEF TrackerOk, h, AtHeight, Voters, CrossesThreshold, StakeOf, total_active_stake

\* A vote that changes nothing at this node and height, except what was delivered.
LEMMA IgnoredOk ==
  ASSUME IInv, NEW n \in Nodes, NEW h \in Heights,
         commits'[n][h] = commits[n][h],
         h \in finalized'[n] <=> h \in finalized[n],
         AtHeight(delivered[n], h) \subseteq AtHeight(delivered'[n], h),
         h \notin finalized[n] =>
           Voters(AtHeight(delivered'[n], h)) \subseteq Voters(AtHeight(delivered[n], h))
                                                          \cup Voters(commits[n][h])
  PROVE  TrackerOk(n, h)'
<1>1. TrackerOk(n, h)
  BY DEF IInv
<1>2. /\ commits'[n][h] \subseteq AtHeight(delivered'[n], h)
      /\ \A x \in commits'[n][h] : x.validator \in Validator
      /\ \A x, y \in commits'[n][h] : x.validator = y.validator => x = y
      /\ h \notin finalized'[n] => Voters(AtHeight(delivered'[n], h)) \subseteq Voters(commits'[n][h])
      /\ h \in finalized'[n] <=> CrossesThreshold(StakeOf(Voters(commits'[n][h])))
  BY <1>1 DEF TrackerOk
<1> QED
  BY <1>2 DEF TrackerOk, AtHeight, Voters, CrossesThreshold, StakeOf, total_active_stake

LEMMA StepOk == IInv /\ [Next]_vars => IInv'
<1> SUFFICES ASSUME IInv, [Next]_vars PROVE IInv'
  OBVIOUS
<1>0. TypeOK
  BY DEF IInv
<1>1. CASE UNCHANGED vars
  <2>1. commits' = commits /\ finalized' = finalized /\ delivered' = delivered
    BY <1>1 DEF vars
  <2>2. TypeOK'
    BY <1>0, <2>1 DEF TypeOK
  <2>3. ASSUME NEW n \in Nodes, NEW h \in Heights PROVE TrackerOk(n, h)'
    <3>1. AtHeight(delivered'[n], h) = AtHeight(delivered[n], h)
      BY <2>1
    <3> QED BY <2>1, <3>1, IgnoredOk
  <2> QED BY <2>2, <2>3 DEF IInv
<1>2. ASSUME NEW n \in Nodes, NEW vote \in Votes, AddVote(n, vote) PROVE IInv'
  <2>0. vote \in Vote /\ vote.height \in Heights
    BY WeightAssumption DEF Vote
  <2>1. TypeOK'
    <3>1. delivered' \in [Nodes -> SUBSET Vote]
      BY <1>0, <1>2, <2>0 DEF TypeOK, AddVote
    <3>2. commits' \in [Nodes -> [Heights -> SUBSET Vote]] /\ finalized' \in [Nodes -> SUBSET Heights]
      <4>1. CASE Acceptable(n, vote)
        <5>1. commits' = [commits EXCEPT ![n][vote.height] = commits[n][vote.height] \cup {vote}]
          BY <1>2, <4>1 DEF AddVote, Record
        <5>2. commits[n][vote.height] \cup {vote} \in SUBSET Vote
          BY <1>0, <2>0 DEF TypeOK
        <5>3. commits' \in [Nodes -> [Heights -> SUBSET Vote]]
          BY <1>0, <2>0, <5>1, <5>2 DEF TypeOK
        <5>4. finalized' \in [Nodes -> SUBSET Heights]
          BY <1>0, <1>2, <2>0, <4>1 DEF TypeOK, AddVote, Record
        <5> QED BY <5>3, <5>4
      <4>2. CASE ~Acceptable(n, vote)
        BY <1>0, <1>2, <4>2 DEF TypeOK, AddVote
      <4> QED BY <4>1, <4>2
    <3> QED BY <3>1, <3>2 DEF TypeOK
  <2>2. ASSUME NEW m \in Nodes, NEW k \in Heights PROVE TrackerOk(m, k)'
    <3>1. CASE m = n /\ k = vote.height /\ Acceptable(n, vote)
      BY <1>2, <3>1, RecordOk
    <3>2. CASE ~(m = n /\ k = vote.height /\ Acceptable(n, vote))
      <4>1. commits'[m][k] = commits[m][k] /\ (k \in finalized'[m] <=> k \in finalized[m])
        BY <1>0, <1>2, <2>0, <3>2 DEF TypeOK, AddVote, Record
      <4>2. delivered'[m] = IF m = n THEN delivered[m] \cup {vote} ELSE delivered[m]
        BY <1>0, <1>2 DEF TypeOK, AddVote
      <4>3. AtHeight(delivered[m], k) \subseteq AtHeight(delivered'[m], k)
        BY <4>2 DEF AtHeight
      <4>4. ASSUME k \notin finalized[m]
            PROVE  Voters(AtHeight(delivered'[m], k)) \subseteq Voters(AtHeight(delivered[m], k))
                                                                  \cup Voters(commits[m][k])
        <5>1. CASE m = n /\ k = vote.height
          <6>1. \/ vote.validator \notin Validator
                \/ \E other \in commits[m][k] : other.validator = vote.validator
            BY <3>2, <4>4, <5>1 DEF Acceptable
          <6> QED BY <4>2, <5>1, <6>1 DEF Voters, AtHeight
        <5>2. CASE ~(m = n /\ k = vote.height)
          <6>1. AtHeight(delivered'[m], k) = AtHeight(delivered[m], k)
            BY <4>2, <5>2 DEF AtHeight
          <6> QED BY <6>1
        <5> QED BY <5>1, <5>2
      <4> QED BY <4>1, <4>3, <4>4, IgnoredOk
    <3> QED BY <3>1, <3>2
  <2>3. \A m \in Nodes, k \in Heights : TrackerOk(m, k)'
    BY <2>2
  <2> QED BY <2>1, <2>3 DEF IInv
<1> QED BY <1>1, <1>2 DEF Next

-----------------------------------------------------------------------------
(* What follows.                                                           *)

\* Disputed or not, a height is final when the validators heard from hold enough.
LEMMA OrderFree == IInv => FinalityOrderFree
<1> SUFFICES ASSUME IInv, NEW n \in Nodes, NEW h \in Heights
             PROVE  h \in finalized[n] <=>
                      CrossesThreshold(StakeOf(Voters(AtHeight(delivered[n], h))))
  BY DEF FinalityOrderFree
<1> DEFINE got == Voters(commits[n][h])
           sent == Voters(AtHeight(delivered[n], h))
<1>1. /\ got \subseteq sent /\ (h \notin finalized[n] => sent = got)
      /\ h \in finalized[n] <=> CrossesThreshold(StakeOf(got))
  <2>1. TrackerOk(n, h)
    BY DEF IInv
  <2>2. got \subseteq sent
    BY <2>1 DEF TrackerOk, Voters
  <2>3. h \notin finalized[n] => sent \subseteq got
    BY <2>1 DEF TrackerOk
  <2>4. h \in finalized[n] <=> CrossesThreshold(StakeOf(got))
    BY <2>1 DEF TrackerOk
  <2> HIDE DEF got, sent
  <2> QED BY <2>2, <2>3, <2>4
<1> HIDE DEF got, sent
<1>2. CASE h \notin finalized[n]
  BY <1>1, <1>2 DEF sent
<1>3. CASE h \in finalized[n]
  <2>1. StakeOf(got) <= StakeOf(sent)
    BY <1>1, StakeOfMonotone
  <2>2. StakeOf(got) \in Nat /\ StakeOf(sent) \in Nat /\ total_active_stake \in Nat
    BY StakeOfType DEF total_active_stake
  <2>3. StakeOf(got) * 3 > total_active_stake * 2
    BY <1>1, <1>3 DEF CrossesThreshold
  <2>4. StakeOf(sent) * 3 > total_active_stake * 2
    BY <2>1, <2>2, <2>3
  <2> QED BY <1>3, <2>4 DEF CrossesThreshold, sent
<1> QED BY <1>2, <1>3 DEF sent

LEMMA Intersection == IInv => QuorumsIntersect
<1> SUFFICES ASSUME IInv, NEW m \in Nodes, NEW n \in Nodes, NEW h \in finalized[m] \cap finalized[n]
             PROVE  StakeOf(Voters(commits[m][h]) \cap Voters(commits[n][h])) * 3
                      > total_active_stake
  BY DEF QuorumsIntersect
<1> DEFINE A == Voters(commits[m][h])
           B == Voters(commits[n][h])
           a == StakeOf(A)
           b == StakeOf(B)
           u == StakeOf(A \cup B)
           i == StakeOf(A \cap B)
           t == total_active_stake
<1>1. h \in Heights /\ TrackerOk(m, h) /\ TrackerOk(n, h)
  BY DEF IInv, TypeOK
<1>2. a * 3 > t * 2 /\ b * 3 > t * 2
  BY <1>1 DEF TrackerOk, CrossesThreshold
<1>3. A \cup B \subseteq Validator
  BY DEF Voters
<1> HIDE DEF A, B
<1>4. u <= t
  BY <1>3, StakeOfMonotone DEF total_active_stake
<1>5. a + b = u + i
  BY StakeOfSplit
<1>6. a \in Nat /\ b \in Nat /\ u \in Nat /\ i \in Nat /\ t \in Nat
  BY StakeOfType DEF total_active_stake
<1> HIDE DEF a, b, u, i, t
<1>7. i * 3 > t
  BY <1>2, <1>4, <1>5, <1>6
<1> QED BY <1>7 DEF i, t, A, B

\* Repeats, strangers and order neither make a height final nor keep an undisputed one
\* from being final, and two nodes final at a height share more than a third of the stake.
THEOREM FinalitySound == Spec => [](TypeOK /\ FinalityOrderFree /\ QuorumsIntersect)
<1>1. IInv => TypeOK
  BY DEF IInv
<1> QED
  BY <1>1, InitOk, StepOk, OrderFree, Intersection, PTL DEF Spec

\* add_vote makes a height final only when validators with more than two thirds of the
\* stake have voted, and makes an undisputed height final as soon as they have, in whatever
\* order, however often and from whomever the votes come.
THEOREM FinalityOrderFreeHolds == Spec => []FinalityOrderFree
BY FinalitySound, PTL

-----------------------------------------------------------------------------
(* Arithmetic.                                                             *)

LEMMA QuotientBounds ==
  ASSUME NEW x \in Nat, NEW d \in Nat \ {0}
  PROVE  /\ x \div d \in Nat
         /\ (x \div d) * d <= x
         /\ x < (x \div d) * d + d
OBVIOUS

LEMMA ProductMonotone ==
  ASSUME NEW a \in Nat, NEW b \in Nat, NEW c \in Nat, a <= b
  PROVE  a * c \in Nat /\ b * c \in Nat /\ c * a \in Nat /\ a * c <= b * c /\ c * a <= c * b
<1> DEFINE k == b - a
           ac == a * c
           kc == k * c
<1>1. k \in Nat /\ b = a + k
  OBVIOUS
<1>2. b * c = ac + kc /\ c * b = ac + kc /\ c * a = ac
  <2> HIDE DEF k
  <2> QED BY <1>1
<1>3. ac \in Nat /\ kc \in Nat
  <2> HIDE DEF k
  <2> QED BY <1>1
<1> HIDE DEF ac, kc, k
<1>4. ac <= ac + kc
  BY <1>3
<1> QED BY <1>2, <1>3, <1>4 DEF ac

\* A share of at most the whole, and an even part of it, rounded down.
LEMMA RateBounds ==
  ASSUME NEW x \in Nat, NEW rate \in Nat, NEW d \in Nat \ {0}, rate <= d
  PROVE  (x * rate) \div d \in Nat /\ (x * rate) \div d <= x
<1> DEFINE y == x * rate
           q == y \div d
<1>1. y \in Nat /\ y <= x * d
  BY ProductMonotone
<1> HIDE DEF y
<1>2. q \in Nat /\ q * d <= y
  BY <1>1, QuotientBounds
<1> HIDE DEF q
<1>3. d * q <= x * d
  <2> DEFINE xd == x * d
             qd == q * d
  <2>1. xd \in Nat /\ qd \in Nat /\ d * q = qd
    BY <1>2
  <2> HIDE DEF xd, qd
  <2>2. qd <= xd
    BY <2>1, <1>1, <1>2 DEF xd, qd
  <2> QED BY <2>1, <2>2 DEF xd
<1>4. q <= x
  BY <1>2, <1>3, ScaledCancel
<1> QED BY <1>2, <1>4 DEF q, y

-----------------------------------------------------------------------------
(* Headers and the chains they form.                                       *)

Signer(h) == h.proposer_signature[1]

LEMMA BuiltFields ==
  ASSUME NEW parent, NEW proposer, NEW body, NEW signature
  PROVE  LET h == BuildBlock(parent, proposer, body, signature) IN
         /\ h.height = parent.height + 1
         /\ h.parent_hash = Hash(parent)
         /\ h.proposer_signature = signature
         /\ block_header_unsigned_payload(h).parent_hash = h.parent_hash
<1> DEFINE h == BuildBlock(parent, proposer, body, signature)
<1>1. /\ h.height = parent.height + 1 /\ h.parent_hash = Hash(parent)
      /\ h.proposer_signature = signature
  BY DEF BuildBlock
<1>2. [h EXCEPT !.proposer_signature = ZeroSignature].parent_hash = h.parent_hash
  BY DEF BuildBlock
<1> QED BY <1>1, <1>2 DEF block_header_unsigned_payload

LEMMA SignedFields ==
  ASSUME NEW parent, NEW proposer, NEW body, NEW signer
  PROVE  LET h == SignedBlock(parent, proposer, body, signer) IN
         /\ h.height = parent.height + 1
         /\ h.parent_hash = Hash(parent)
         /\ Signer(h) = signer
         /\ block_header_unsigned_payload(h).parent_hash = h.parent_hash
<1> DEFINE s == Sign(signer, BuildBlock(parent, proposer, body, ZeroSignature))
<1>1. SignedBlock(parent, proposer, body, signer) = BuildBlock(parent, proposer, body, s)
  BY DEF SignedBlock
<1>2. s[1] = signer
  BY DEF Sign
<1> HIDE DEF s
<1> QED BY <1>1, <1>2, BuiltFields DEF Signer

LEMMA FakeFields ==
  ASSUME NEW parent, NEW proposer, NEW body
  PROVE  LET h == BuildBlock(parent, proposer, body, FakeSignature) IN
         /\ h.height = parent.height + 1
         /\ h.parent_hash = Hash(parent)
         /\ Signer(h) = 0
         /\ block_header_unsigned_payload(h).parent_hash = h.parent_hash
<1>1. FakeSignature[1] = 0
  BY DEF FakeSignature, Sign
<1> QED BY <1>1, BuiltFields DEF Signer

\* The block at the top of the first k headers of L.
Top(L, k) == IF k = 0 THEN Genesis ELSE L[k]

\* The first k headers of L are a chain on the genesis block.
Chained(L, k) ==
  /\ k \in Nat
  /\ \A i \in 1..k : L[i].height = i /\ L[i].parent_hash = Hash(Top(L, i - 1))

LEMMA HashInjective == ASSUME NEW x, NEW y, Hash(x) = Hash(y) PROVE x = y
<1>1. <<x>>[1] = <<y>>[1]
  BY DEF Hash
<1> QED BY <1>1

\* A chain is determined by the block at its top.
LEMMA ChainUnique ==
  ASSUME NEW L, NEW k, NEW M, NEW j, Chained(L, k), Chained(M, j), Top(L, k) = Top(M, j)
  PROVE  k = j /\ \A i \in 1..k : L[i] = M[i]
<1>1. k \in Nat /\ j \in Nat
  BY DEF Chained
<1>2. Top(L, k).height = k /\ Top(M, j).height = j
  BY <1>1 DEF Top, Chained, Genesis
<1>3. k = j
  BY <1>2
<1> DEFINE S == {m \in 0..k : Top(L, k - m) = Top(M, k - m)}
<1>4. 0 \in S
  BY <1>1, <1>3
<1>5. ASSUME NEW m \in 0..(k - 1), m \in S PROVE m + 1 \in S
  <2>1. k - m \in 1..k /\ k - m = (k - (m + 1)) + 1 /\ k - m # 0 /\ k - (m + 1) = k - m - 1
    BY <1>1
  <2>2. L[k - m] = M[k - m]
    BY <1>5, <2>1 DEF Top
  <2>3. Hash(Top(L, k - m - 1)) = Hash(Top(M, k - m - 1))
    BY <1>3, <2>1, <2>2 DEF Chained
  <2>4. Top(L, k - (m + 1)) = Top(M, k - (m + 1))
    BY <2>1, <2>3, HashInjective
  <2> QED BY <2>4, <1>1
<1>6. \A m \in 0..k : m \in S
  <2> HIDE DEF S
  <2> QED BY <1>1, <1>4, <1>5, UpTo
<1>7. ASSUME NEW i \in 1..k PROVE L[i] = M[i]
  <2>1. k - i \in 0..k /\ k - (k - i) = i /\ i # 0
    BY <1>1
  <2>2. Top(L, i) = Top(M, i)
    BY <1>6, <2>1
  <2> QED BY <2>1, <2>2 DEF Top
<1> QED BY <1>3, <1>7

-----------------------------------------------------------------------------
(* The stake behind a chain.                                               *)

StakeBehind(S) == Total([v \in 0..(N - 1) |-> IF v + 1 \in S THEN Stake[v + 1] ELSE 0], N)

Proposers(L, k) == {L[i].proposer : i \in 1..k}

LEMMA StakeBehindMonotone ==
  ASSUME NEW A, NEW B, A \subseteq B
  PROVE  StakeBehind(A) \in Nat /\ StakeBehind(B) \in Nat /\ StakeBehind(A) <= StakeBehind(B)
<1> DEFINE F(S) == [v \in 0..(N - 1) |-> IF v + 1 \in S THEN Stake[v + 1] ELSE 0]
<1>1. N \in Nat /\ \A v \in 0..(N - 1) : Stake[v + 1] \in Nat
  BY ForksAssumption DEF Validators
<1>2. F(A) \in [0..(N - 1) -> Nat] /\ F(B) \in [0..(N - 1) -> Nat]
  BY <1>1
<1>3. \A v \in 0..(N - 1) : F(A)[v] <= F(B)[v]
  BY <1>1
<1>4. StakeBehind(A) = Total(F(A), N) /\ StakeBehind(B) = Total(F(B), N)
  BY DEF StakeBehind
<1> HIDE DEF F
<1>5. Total(F(A), N) \in Nat /\ Total(F(B), N) \in Nat
  BY <1>1, <1>2, TotalType
<1>6. Total(F(A), N) <= Total(F(B), N)
  BY <1>1, <1>2, <1>3, TotalMonotone
<1> QED BY <1>4, <1>5, <1>6

-----------------------------------------------------------------------------
(* The inductive invariant.                                                *)

\* Every published header was built on a block that was published before, and signed by
\* a node, by a faulty validator or by nobody.
Built(h) ==
  \E parent \in published \cup {Genesis}, proposer \in Validators, body \in Bodies :
    \/ h = BuildBlock(parent, proposer, body, FakeSignature)
    \/ \E signer \in Running \cup Faulty : h = SignedBlock(parent, proposer, body, signer)

PublishedBuilt == \A h \in published : Built(h) /\ h.height \in Nat \ {0}

ChainsLinked ==
  \A n \in Running : chain[n] \in Seq(published) /\ Chained(chain[n], Len(chain[n]))

\* The stake that was behind a node's chain before any stake changed.
Weight(n) == StakeBehind(Proposers(chain[n], Len(chain[n])))

\* Whoever left a block of its own has more stake behind its chain now than there is
\* behind the block it had built on.
HasLeft(n, h) ==
  \A L, k : Chained(L, k) /\ h.parent_hash = Hash(Top(L, k)) =>
              StakeBehind(Proposers(L, k)) < Weight(n)

Holds(n, h) == \E i \in 1..Len(chain[n]) : chain[n][i] = h

Honest == Running \ Faulty

HonestMoveOn ==
  \A h \in published : Signer(h) \in Honest => Holds(Signer(h), h) \/ HasLeft(Signer(h), h)

\* An honest node signs one block on one parent.
HonestSignOnce ==
  \A a, b \in published :
    Signer(a) = Signer(b) /\ Signer(a) \in Honest /\ a.parent_hash = b.parent_hash => a = b

Shape ==
  /\ DOMAIN chain = Running
  /\ changes \in Nat /\ stake \in [Validators -> Nat]
  /\ PublishedBuilt /\ ChainsLinked

\* As long as no stake has changed.
Steady == stake = Stake /\ slashed = {} /\ HonestMoveOn /\ HonestSignOnce

ForksInv == Shape /\ (changes = 0 => Steady)

LEMMA ForksInitOk == ForksInit => ForksInv
<1> SUFFICES ASSUME ForksInit PROVE ForksInv
  OBVIOUS
<1>1. \A n \in Running : chain[n] = <<>> /\ chain[n] \in Seq(published) /\ Len(chain[n]) = 0
  BY EmptySeq DEF ForksInit
<1>2. ChainsLinked
  BY <1>1 DEF ChainsLinked, Chained
<1>3. PublishedBuilt /\ HonestMoveOn /\ HonestSignOnce
  BY DEF ForksInit, PublishedBuilt, HonestMoveOn, HonestSignOnce
<1> QED BY <1>2, <1>3, ForksAssumption DEF ForksInit, ForksInv, Shape, Steady

\* Nobody's number is the one in the placeholder.
LEMMA SignerIs ==
  ASSUME NEW h, Built(h)
  PROVE  /\ Signer(h) \in Running \cup Faulty \cup {0}
         /\ block_header_unsigned_payload(h).parent_hash = h.parent_hash
BY SignedFields, FakeFields DEF Built

LEMMA NobodyIsHonest == 0 \notin Validators /\ 0 \notin Honest /\ Honest \subseteq Running
BY ForksAssumption DEF Validators, Honest

LEMMA TipIsTop ==
  ASSUME Shape, NEW n \in Running
  PROVE  /\ tip(n) = Top(chain[n], Len(chain[n]))
         /\ chain[n] \in Seq(published) /\ Chained(chain[n], Len(chain[n]))
         /\ Len(chain[n]) \in Nat /\ DOMAIN chain[n] = 1..Len(chain[n])
         /\ tip(n).height = Len(chain[n])
         /\ Weight(n) \in Nat
<1>1. chain[n] \in Seq(published) /\ Chained(chain[n], Len(chain[n]))
  BY DEF Shape, ChainsLinked
<1>2. Len(chain[n]) \in Nat /\ DOMAIN chain[n] = 1..Len(chain[n])
  BY <1>1, LenProperties
<1>3. chain[n] = <<>> <=> Len(chain[n]) = 0
  BY <1>1, EmptySeq
<1>4. tip(n) = Top(chain[n], Len(chain[n]))
  BY <1>3 DEF tip, Top
<1>5. tip(n).height = Len(chain[n])
  BY <1>1, <1>2, <1>4 DEF Top, Chained, Genesis
<1>6. Weight(n) \in Nat
  BY StakeBehindMonotone DEF Weight
<1> QED BY <1>1, <1>2, <1>4, <1>5, <1>6

\* Before any stake changes, fork choice weighs chains by the stakes of the start.
LEMMA SteadyWeight ==
  ASSUME Shape, stake = Stake, NEW n \in Running
  PROVE  total_stake_backing(chain[n]) = Weight(n)
<1>1. DOMAIN chain[n] = 1..Len(chain[n])
  BY TipIsTop
<1> QED BY <1>1 DEF total_stake_backing, StakeBehind, Proposers, Weight

\* A prefix of a chain is a chain, with no more stake behind it.
LEMMA Prefix ==
  ASSUME NEW L, NEW k, Chained(L, k), NEW i \in 0..k
  PROVE  /\ Chained(L, i)
         /\ StakeBehind(Proposers(L, i)) <= StakeBehind(Proposers(L, k))
         /\ StakeBehind(Proposers(L, i)) \in Nat
<1>1. k \in Nat
  BY DEF Chained
<1>2. Chained(L, i)
  BY <1>1 DEF Chained
<1>3. Proposers(L, i) \subseteq Proposers(L, k)
  BY <1>1 DEF Proposers
<1> QED BY <1>2, <1>3, StakeBehindMonotone

\* An honest node has not yet signed on the tip it is at.
LEMMA TipUnsigned ==
  ASSUME Shape, Steady, NEW n \in Honest, NEW h \in published, Signer(h) = n
  PROVE  h.parent_hash # Hash(tip(n))
<1> SUFFICES ASSUME h.parent_hash = Hash(tip(n)) PROVE FALSE
  OBVIOUS
<1> DEFINE k == Len(chain[n])
<1>0. k \in Nat /\ Chained(chain[n], k) /\ tip(n) = Top(chain[n], k) /\ Weight(n) \in Nat
  BY TipIsTop, NobodyIsHonest
<1>1. CASE Holds(n, h)
  <2>1. PICK i \in 1..k : chain[n][i] = h
    BY <1>1 DEF Holds
  <2>2. Hash(Top(chain[n], i - 1)) = Hash(Top(chain[n], k))
    BY <1>0, <2>1 DEF Chained
  <2>3. Top(chain[n], i - 1) = Top(chain[n], k)
    BY <2>2, HashInjective
  <2>4. i - 1 \in 0..k
    BY <1>0
  <2>5. Chained(chain[n], i - 1)
    BY <1>0, <2>4, Prefix
  <2>6. i - 1 = k
    BY <1>0, <2>3, <2>5, ChainUnique
  <2> QED BY <1>0, <2>6
<1>2. CASE HasLeft(n, h)
  <2>1. StakeBehind(Proposers(chain[n], k)) < Weight(n)
    BY <1>0, <1>2 DEF HasLeft
  <2> QED BY <1>0, <2>1 DEF Weight
<1> QED BY <1>1, <1>2 DEF Steady, HonestMoveOn

\* What a node has left it has left for good while its weight does not fall.
LEMMA StaysLeft ==
  ASSUME NEW n, NEW h, HasLeft(n, h), Weight(n) \in Nat, Weight(n)' \in Nat,
         Weight(n)' >= Weight(n)
  PROVE  HasLeft(n, h)'
<1> SUFFICES ASSUME NEW L, NEW k, Chained(L, k), h.parent_hash = Hash(Top(L, k))
             PROVE  StakeBehind(Proposers(L, k)) < Weight(n)'
  BY DEF HasLeft
<1>1. StakeBehind(Proposers(L, k)) < Weight(n)
  BY DEF HasLeft
<1>2. StakeBehind(Proposers(L, k)) \in Nat
  BY StakeBehindMonotone
<1> QED BY <1>1, <1>2

LEMMA MorePublished ==
  ASSUME NEW h, Built(h), published \subseteq published' PROVE Built(h)'
BY DEF Built

\* A header on a node's tip is put on its chain.
LEMMA Appended ==
  ASSUME Shape, NEW n \in Running, NEW header,
         header.parent_hash = Hash(tip(n)), header.height = tip(n).height + 1,
         chain' = [chain EXCEPT ![n] = Append(@, header)],
         header \in published', published \subseteq published'
  PROVE  /\ DOMAIN chain' = Running /\ ChainsLinked' /\ Holds(n, header)'
         /\ \A m \in Running : Weight(m)' \in Nat /\ Weight(m)' >= Weight(m)
         /\ \A m \in Running : \A h : Holds(m, h) => Holds(m, h)'
<1> DEFINE k == Len(chain[n])
<1>0. /\ k \in Nat /\ Chained(chain[n], k) /\ tip(n) = Top(chain[n], k)
      /\ chain[n] \in Seq(published) /\ tip(n).height = k
  BY TipIsTop
<1>1. DOMAIN chain' = Running /\ \A m \in Running : m # n => chain'[m] = chain[m]
  BY DEF Shape
<1>2. chain'[n] = Append(chain[n], header)
  BY DEF Shape
<1>3. chain[n] \in Seq(published')
  BY <1>0, SeqMonotonic
<1>4. /\ chain'[n] \in Seq(published') /\ Len(chain'[n]) = k + 1
      /\ \A i \in 1..k : chain'[n][i] = chain[n][i]
      /\ chain'[n][k + 1] = header
  BY <1>2, <1>3, AppendProperties
<1>5. Chained(chain'[n], k + 1)
  <2> SUFFICES ASSUME NEW i \in 1..(k + 1)
               PROVE  chain'[n][i].height = i /\ chain'[n][i].parent_hash = Hash(Top(chain'[n], i - 1))
    BY <1>0 DEF Chained
  <2>1. Top(chain'[n], i - 1) = Top(chain[n], i - 1)
    BY <1>0, <1>4 DEF Top
  <2>2. CASE i \in 1..k
    BY <1>0, <1>4, <2>1, <2>2 DEF Chained
  <2>3. CASE i = k + 1
    <3>1. i - 1 = k
      BY <1>0, <2>3
    <3> QED BY <1>0, <1>4, <2>1, <2>3, <3>1
  <2> QED BY <1>0, <2>2, <2>3
<1>6. ChainsLinked'
  <2> SUFFICES ASSUME NEW m \in Running
               PROVE  chain'[m] \in Seq(published') /\ Chained(chain'[m], Len(chain'[m]))
    BY DEF ChainsLinked, Chained, Top
  <2>1. CASE m = n
    BY <1>4, <1>5, <2>1
  <2>2. CASE m # n
    <3>1. chain[m] \in Seq(published) /\ Chained(chain[m], Len(chain[m]))
      BY DEF Shape, ChainsLinked
    <3>2. chain[m] \in Seq(published')
      BY <3>1, SeqMonotonic
    <3> QED BY <1>1, <2>2, <3>1, <3>2
  <2> QED BY <2>1, <2>2
<1>7. Weight(n)' \in Nat /\ Weight(n)' >= Weight(n)
  <2>1. Proposers(chain[n], k) \subseteq Proposers(chain'[n], k + 1)
    BY <1>0, <1>4 DEF Proposers
  <2>2. Weight(n)' = StakeBehind(Proposers(chain'[n], k + 1))
    BY <1>4 DEF Weight
  <2>3. Weight(n) = StakeBehind(Proposers(chain[n], k))
    BY DEF Weight
  <2> QED BY <2>1, <2>2, <2>3, StakeBehindMonotone
<1>8. ASSUME NEW m \in Running PROVE Weight(m)' \in Nat /\ Weight(m)' >= Weight(m)
  <2>1. CASE m # n
    <3>1. Weight(m)' = Weight(m) /\ Weight(m) \in Nat
      BY <1>1, <2>1, TipIsTop DEF Weight
    <3> QED BY <3>1
  <2> QED BY <1>7, <2>1
<1>9. ASSUME NEW m \in Running, NEW h, Holds(m, h) PROVE Holds(m, h)'
  <2>1. CASE m = n
    <3>1. PICK i \in 1..k : chain[n][i] = h
      BY <1>9, <2>1 DEF Holds
    <3>2. i \in 1..Len(chain'[n]) /\ chain'[n][i] = h
      BY <1>0, <1>4, <3>1
    <3> QED BY <2>1, <3>2 DEF Holds
  <2>2. CASE m # n
    BY <1>1, <1>9, <2>2 DEF Holds
  <2> QED BY <2>1, <2>2
<1>10. Holds(n, header)'
  <2>1. k + 1 \in 1..Len(chain'[n])
    BY <1>0, <1>4
  <2> QED BY <1>4, <2>1 DEF Holds
<1> QED BY <1>1, <1>6, <1>8, <1>9, <1>10

-----------------------------------------------------------------------------
(* The steps.                                                              *)

\* A step that adds one header, and chains that hold what they held.
LEMMA PublishedGrows ==
  ASSUME Shape, NEW header, published' = published \cup {header}, Built(header)',
         header.height \in Nat \ {0}
  PROVE  PublishedBuilt'
<1> SUFFICES ASSUME NEW h \in published' PROVE Built(h)' /\ h.height \in Nat \ {0}
  BY DEF PublishedBuilt
<1>1. CASE h \in published
  BY <1>1, MorePublished DEF Shape, PublishedBuilt
<1> QED BY <1>1

LEMMA ProposeOk ==
  ASSUME ForksInv, NEW n \in Running, NEW body \in Bodies, Propose(n, body)
  PROVE  ForksInv'
<1>s. Shape
  BY DEF ForksInv
<1>h. PICK header : header = IF n \in Signing THEN SignedBlock(tip(n), n, body, n)
                             ELSE BuildBlock(tip(n), n, body, FakeSignature)
  OBVIOUS
<1>0. /\ n \notin Faulty /\ published' = published \cup {header}
      /\ chain' = [chain EXCEPT ![n] = Append(@, header)]
      /\ UNCHANGED <<slashed, stake, changes>>
  BY <1>h DEF Propose, ledger
<1>1. /\ header.height = tip(n).height + 1 /\ header.parent_hash = Hash(tip(n))
      /\ Signer(header) \in {0, n}
  BY <1>h, SignedFields, FakeFields
<1>2. tip(n) \in published \cup {Genesis} /\ header.height \in Nat \ {0}
  <2>1. /\ tip(n) = Top(chain[n], Len(chain[n])) /\ chain[n] \in Seq(published)
        /\ Len(chain[n]) \in Nat /\ tip(n).height = Len(chain[n])
    BY <1>s, TipIsTop
  <2>2. \A i \in 1..Len(chain[n]) : chain[n][i] \in published
    BY <2>1, ElementOfSeq
  <2> QED BY <1>1, <2>1, <2>2 DEF Top
<1>3. Built(header)'
  <2>1. tip(n) \in published' \cup {Genesis} /\ n \in Validators /\ n \in Running \cup Faulty
    BY <1>0, <1>2, ForksAssumption
  <2> QED BY <1>h, <2>1 DEF Built
<1>4. PublishedBuilt'
  BY <1>s, <1>0, <1>2, <1>3, PublishedGrows
<1>5. /\ DOMAIN chain' = Running /\ ChainsLinked' /\ Holds(n, header)'
      /\ \A m \in Running : Weight(m)' \in Nat /\ Weight(m)' >= Weight(m)
      /\ \A m \in Running : \A h : Holds(m, h) => Holds(m, h)'
  <2>1. header \in published' /\ published \subseteq published'
    BY <1>0
  <2> QED BY <1>s, <1>0, <1>1, <2>1, Appended
<1>6. Shape'
  BY <1>s, <1>0, <1>4, <1>5 DEF Shape
<1>7. ASSUME changes = 0 PROVE HonestMoveOn'
  <2> SUFFICES ASSUME NEW h \in published', Signer(h) \in Honest
               PROVE  Holds(Signer(h), h)' \/ HasLeft(Signer(h), h)'
    BY DEF HonestMoveOn
  <2>1. CASE h = header
    BY <1>1, <1>5, <2>1, NobodyIsHonest
  <2>2. CASE h \in published
    <3> DEFINE s == Signer(h)
    <3>1. s \in Running /\ (Holds(s, h) \/ HasLeft(s, h)) /\ Weight(s) \in Nat
      BY <1>s, <1>7, <2>2, TipIsTop, NobodyIsHonest DEF ForksInv, Steady, HonestMoveOn
    <3> HIDE DEF s
    <3>2. Holds(s, h)' \/ HasLeft(s, h)'
      BY <1>5, <3>1, StaysLeft
    <3> QED BY <3>2 DEF s
  <2> QED BY <1>0, <2>1, <2>2
<1>8. ASSUME changes = 0 PROVE HonestSignOnce'
  <2>1. ASSUME NEW h \in published, Signer(h) = n, n \in Honest
        PROVE  h.parent_hash # header.parent_hash
    <3>1. h.parent_hash # Hash(tip(n))
      BY <1>s, <1>8, <2>1, TipUnsigned DEF ForksInv
    <3> QED BY <1>1, <3>1
  <2> QED BY <1>0, <1>1, <1>8, <2>1, NobodyIsHonest DEF ForksInv, Steady, HonestSignOnce
<1> QED BY <1>0, <1>6, <1>7, <1>8 DEF ForksInv, Steady

LEMMA ProposeFaultyOk ==
  ASSUME ForksInv, NEW signer \in Faulty, NEW v \in Validators,
         NEW parent \in published \cup {Genesis}, NEW body \in Bodies,
         ProposeFaulty(signer, v, parent, body)
  PROVE  ForksInv'
<1>s. Shape
  BY DEF ForksInv
<1> DEFINE header == SignedBlock(parent, v, body, signer)
<1>0. published' = published \cup {header} /\ UNCHANGED <<chain, slashed, stake, changes>>
  BY DEF ProposeFaulty, ledger
<1>1. header.height = parent.height + 1 /\ Signer(header) = signer
  BY SignedFields
<1>2. header.height \in Nat \ {0}
  <2>1. parent.height \in Nat
    BY <1>s DEF Shape, PublishedBuilt, Genesis
  <2> QED BY <1>1, <2>1
<1>3. Built(header)'
  BY <1>0 DEF Built
<1> HIDE DEF header
<1>4. PublishedBuilt'
  BY <1>s, <1>0, <1>2, <1>3, PublishedGrows
<1>5. ChainsLinked'
  <2> SUFFICES ASSUME NEW m \in Running
               PROVE  chain[m] \in Seq(published') /\ Chained(chain[m], Len(chain[m]))
    BY <1>0 DEF ChainsLinked, Chained, Top
  <2>1. chain[m] \in Seq(published) /\ Chained(chain[m], Len(chain[m]))
    BY <1>s DEF Shape, ChainsLinked
  <2>2. chain[m] \in Seq(published')
    BY <1>0, <2>1, SeqMonotonic
  <2> QED BY <2>1, <2>2
<1>6. Shape'
  BY <1>s, <1>0, <1>4, <1>5 DEF Shape
<1>7. signer \notin Honest
  BY DEF Honest
<1>8. ASSUME changes = 0 PROVE HonestMoveOn'
  BY <1>0, <1>1, <1>7, <1>8 DEF ForksInv, Steady, HonestMoveOn, Holds, HasLeft, Weight
<1>9. ASSUME changes = 0 PROVE HonestSignOnce'
  BY <1>0, <1>1, <1>7, <1>9 DEF ForksInv, Steady, HonestSignOnce
<1> QED BY <1>0, <1>6, <1>8, <1>9 DEF ForksInv, Steady

LEMMA ReceiveOk ==
  ASSUME ForksInv, NEW n \in Running, NEW header \in published, Receive(n, header)
  PROVE  ForksInv'
<1>s. Shape
  BY DEF ForksInv
<1>0. /\ chain' = [chain EXCEPT ![n] = Append(@, header)]
      /\ UNCHANGED <<published, slashed, stake, changes>>
      /\ header.parent_hash = Hash(tip(n)) /\ header.height = tip(n).height + 1
  BY DEF Receive, validate_block, ledger
<1>1. /\ DOMAIN chain' = Running /\ ChainsLinked'
      /\ \A m \in Running : Weight(m)' \in Nat /\ Weight(m)' >= Weight(m)
      /\ \A m \in Running : \A h : Holds(m, h) => Holds(m, h)'
  BY <1>s, <1>0, Appended
<1>2. Shape'
  BY <1>s, <1>0, <1>1 DEF Shape, PublishedBuilt, Built
<1>3. ASSUME changes = 0 PROVE HonestMoveOn'
  <2> SUFFICES ASSUME NEW h \in published, Signer(h) \in Honest
               PROVE  Holds(Signer(h), h)' \/ HasLeft(Signer(h), h)'
    BY <1>0 DEF HonestMoveOn
  <2> DEFINE s == Signer(h)
  <2>1. s \in Running /\ (Holds(s, h) \/ HasLeft(s, h)) /\ Weight(s) \in Nat
    BY <1>s, <1>3, TipIsTop, NobodyIsHonest DEF ForksInv, Steady, HonestMoveOn
  <2> HIDE DEF s
  <2>2. Holds(s, h)' \/ HasLeft(s, h)'
    BY <1>1, <2>1, StaysLeft
  <2> QED BY <2>2 DEF s
<1>4. ASSUME changes = 0 PROVE HonestSignOnce'
  BY <1>0, <1>4 DEF ForksInv, Steady, HonestSignOnce
<1> QED BY <1>0, <1>2, <1>3, <1>4 DEF ForksInv, Steady

LEMMA ReorgOk ==
  ASSUME ForksInv, NEW n \in Running, NEW peer \in Running, Reorg(n, peer)
  PROVE  ForksInv'
<1>s. Shape
  BY DEF ForksInv
<1>0. /\ chain' = [chain EXCEPT ![n] = chain[peer]]
      /\ UNCHANGED <<published, slashed, stake, changes>>
      /\ total_stake_backing(chain[peer]) > total_stake_backing(chain[n])
  BY DEF Reorg, PreferB, ledger
<1>1. /\ DOMAIN chain' = Running /\ chain'[n] = chain[peer]
      /\ \A m \in Running : m # n => chain'[m] = chain[m]
  BY <1>s, <1>0 DEF Shape
<1>2. Shape'
  <2>1. ChainsLinked'
    BY <1>s, <1>0, <1>1 DEF Shape, ChainsLinked, Chained, Top
  <2> QED BY <1>s, <1>0, <1>1, <2>1 DEF Shape, PublishedBuilt, Built
<1>3. Weight(n)' = Weight(peer) /\ \A m \in Running : m # n => Weight(m)' = Weight(m)
  BY <1>1 DEF Weight
<1>4. ASSUME changes = 0 PROVE HonestMoveOn'
  <2>0. stake = Stake
    BY <1>4 DEF ForksInv, Steady
  <2>1. Weight(n) \in Nat /\ Weight(n)' \in Nat /\ Weight(n)' > Weight(n)
    BY <1>s, <1>0, <1>3, <2>0, TipIsTop, SteadyWeight
  <2>2. \A m \in Running : Weight(m)' \in Nat /\ Weight(m)' >= Weight(m)
    BY <1>s, <1>3, <2>1, TipIsTop
  <2>3. ASSUME NEW h, Holds(n, h) PROVE HasLeft(n, h)'
    <3> SUFFICES ASSUME NEW L, NEW k, Chained(L, k), h.parent_hash = Hash(Top(L, k))
                 PROVE  StakeBehind(Proposers(L, k)) < Weight(n)'
      BY DEF HasLeft
    <3> DEFINE C == chain[n]
               top == Len(chain[n])
    <3>1. top \in Nat /\ Chained(C, top)
      BY <1>s, TipIsTop
    <3>2. PICK i \in 1..top : C[i] = h
      BY <2>3 DEF Holds
    <3>3. Hash(Top(C, i - 1)) = Hash(Top(L, k)) /\ i - 1 \in 0..top
      BY <3>1, <3>2 DEF Chained
    <3>4. Top(C, i - 1) = Top(L, k)
      BY <3>3, HashInjective
    <3>5. /\ Chained(C, i - 1) /\ StakeBehind(Proposers(C, i - 1)) \in Nat
          /\ StakeBehind(Proposers(C, i - 1)) <= Weight(n)
      BY <3>1, <3>3, Prefix DEF Weight
    <3>6. Proposers(L, k) = Proposers(C, i - 1)
      <4>1. i - 1 = k /\ \A j \in 1..(i - 1) : C[j] = L[j]
        BY <3>4, <3>5, ChainUnique
      <4> QED BY <4>1 DEF Proposers
    <3> QED BY <2>1, <3>5, <3>6
  <2> SUFFICES ASSUME NEW h \in published, Signer(h) \in Honest
               PROVE  Holds(Signer(h), h)' \/ HasLeft(Signer(h), h)'
    BY <1>0 DEF HonestMoveOn
  <2> DEFINE s == Signer(h)
  <2>4. s \in Running /\ (Holds(s, h) \/ HasLeft(s, h)) /\ Weight(s) \in Nat
    BY <1>s, <1>4, TipIsTop, NobodyIsHonest DEF ForksInv, Steady, HonestMoveOn
  <2> HIDE DEF s
  <2>5. CASE HasLeft(s, h)
    BY <2>2, <2>4, <2>5, StaysLeft DEF s
  <2>6. CASE Holds(s, h) /\ s = n
    BY <2>3, <2>6 DEF s
  <2>7. CASE Holds(s, h) /\ s # n
    <3>1. Holds(s, h)'
      BY <1>1, <2>4, <2>7 DEF Holds
    <3> QED BY <3>1 DEF s
  <2> QED BY <2>4, <2>5, <2>6, <2>7
<1>5. ASSUME changes = 0 PROVE HonestSignOnce'
  BY <1>0, <1>5 DEF ForksInv, Steady, HonestSignOnce
<1> QED BY <1>0, <1>2, <1>4, <1>5 DEF ForksInv, Steady

\* What a conviction and a transaction do to the stakes ends the steady time.
LEMMA LedgerOk ==
  ASSUME ForksInv, UNCHANGED <<chain, published>>, changes' = changes + 1,
         stake' \in [Validators -> Nat]
  PROVE  ForksInv'
<1>1. changes' \in Nat /\ changes' # 0
  BY DEF ForksInv, Shape
<1>2. PublishedBuilt' /\ ChainsLinked'
  BY DEF ForksInv, Shape, PublishedBuilt, Built, ChainsLinked, Chained, Top
<1> QED BY <1>1, <1>2 DEF ForksInv, Shape

LEMMA ReportOk ==
  ASSUME ForksInv, NEW a \in published, NEW b \in published, NEW v \in Validators, Report(a, b, v)
  PROVE  ForksInv'
<1> DEFINE s == stake[v]
           cut == (s * 90) \div 100
<1>1. s \in Nat /\ stake \in [Validators -> Nat]
  BY DEF ForksInv, Shape
<1>2. stake' = [stake EXCEPT ![v] = s - cut]
  BY DEF Report
<1> HIDE DEF s
<1>3. cut \in Nat /\ cut <= s
  BY <1>1, RateBounds
<1> HIDE DEF cut
<1>4. s - cut \in Nat
  BY <1>1, <1>3
<1>5. stake' \in [Validators -> Nat]
  BY <1>1, <1>2, <1>4
<1> QED BY <1>5, LedgerOk DEF Report

LEMMA RestakeOk ==
  ASSUME ForksInv, NEW v \in Validators, NEW amount \in NewStakes, NEW standing,
         Restake(v, amount, standing)
  PROVE  ForksInv'
<1>1. amount \in Nat
  BY ForksAssumption
<1>2. stake' \in [Validators -> Nat]
  BY <1>1 DEF Restake, ForksInv, Shape
<1> QED BY <1>2, LedgerOk DEF Restake

LEMMA ForksStepOk == ForksInv /\ [ForksNext]_forks => ForksInv'
<1> SUFFICES ASSUME ForksInv, [ForksNext]_forks PROVE ForksInv'
  OBVIOUS
<1>1. CASE UNCHANGED forks
  <2>0. UNCHANGED <<chain, published, slashed, stake, changes>>
    BY <1>1 DEF forks
  <2>1. Shape'
    BY <2>0 DEF ForksInv, Shape, PublishedBuilt, Built, ChainsLinked, Chained, Top
  <2>2. \A m, h : (Holds(m, h) => Holds(m, h)') /\ (HasLeft(m, h) => HasLeft(m, h)')
    BY <2>0 DEF Holds, HasLeft, Weight
  <2>3. Steady => Steady'
    BY <2>0, <2>2 DEF Steady, HonestMoveOn, HonestSignOnce
  <2> QED BY <2>0, <2>1, <2>3 DEF ForksInv
<1>2. CASE ForksNext
  BY <1>2, ProposeOk, ProposeFaultyOk, ReceiveOk, ReorgOk, ReportOk, RestakeOk DEF ForksNext
<1> QED BY <1>1, <1>2

LEMMA ForksAlways == ForksSpec => []ForksInv
BY ForksInitOk, ForksStepOk, PTL DEF ForksSpec

\* Evidence that convicts shows two headers of one signer on one parent, whichever form
\* the headers are shown in.
LEMMA ConvictsFaulty ==
  ASSUME ForksInv, changes = 0, NEW a \in published, NEW b \in published, NEW v \in Validators,
         NEW e \in Evidence(a, b, v), verify_equivocation(e)
  PROVE  v \in Faulty
<1>1. PICK x \in Shown(a), y \in Shown(b) :
        e = [header_a |-> x, signature_a |-> a.proposer_signature,
             header_b |-> y, signature_b |-> b.proposer_signature, proposer |-> v]
  BY DEF Evidence
<1>2. /\ x.parent_hash = y.parent_hash /\ x # y
      /\ a.proposer_signature = Sign(v, x) /\ b.proposer_signature = Sign(v, y)
  BY <1>1 DEF verify_equivocation, verify
<1>3. Signer(a) = v /\ Signer(b) = v
  BY <1>2 DEF Signer, Sign
<1>4. Built(a) /\ Built(b)
  BY DEF ForksInv, Shape, PublishedBuilt
<1>5. a.parent_hash = b.parent_hash
  BY <1>2, <1>4, SignerIs DEF Shown
<1>6. a # b
  BY <1>2 DEF Sign
<1>7. v \in Running \cup Faulty
  BY <1>3, <1>4, SignerIs, NobodyIsHonest
<1> QED BY <1>3, <1>5, <1>6, <1>7 DEF ForksInv, Steady, HonestSignOnce, Honest

\* While the stakes are those of the start, verify_equivocation convicts no validator that
\* proposes as start_consensus_loop does and moves as select_canonical tells it, for every
\* number of validators, every stake and whatever the faulty ones sign: the weight of its
\* chain does not fall, so it is never back at a block it has signed on.
THEOREM FirstSlashIsJustHolds == ForksSpec => FirstSlashIsJust
<1>1. ForksInv /\ [ForksNext]_forks => [changes = 0 => slashed' \subseteq Faulty]_forks
  <2> SUFFICES ASSUME ForksInv, ForksNext, changes = 0 PROVE slashed' \subseteq Faulty
    OBVIOUS
  <2>1. slashed = {}
    BY DEF ForksInv, Steady
  <2>2. ASSUME NEW a \in published, NEW b \in published, NEW v \in Validators, Report(a, b, v)
        PROVE  slashed' \subseteq Faulty
    <3>1. v \in Faulty
      BY <2>2, ConvictsFaulty DEF Report
    <3> QED BY <2>1, <2>2, <3>1 DEF Report
  <2>3. ASSUME slashed' = slashed PROVE slashed' \subseteq Faulty
    BY <2>1, <2>3
  <2> QED BY <2>2, <2>3 DEF ForksNext, Propose, ProposeFaulty, Receive, Reorg, Restake, ledger
<1> QED BY <1>1, ForksAlways, PTL DEF ForksSpec, FirstSlashIsJust

-----------------------------------------------------------------------------
(* Elections.                                                              *)

Below(S, R, x) == {y \in S : <<y, x>> \in R}

StrictOrder(S, R) ==
  /\ \A x \in S : <<x, x>> \notin R
  /\ \A x, y, z \in S : <<x, y>> \in R /\ <<y, z>> \in R => <<x, z>> \in R
  /\ \A x, y \in S : x = y \/ <<x, y>> \in R \/ <<y, x>> \in R

\* Whoever comes before x in one order, and x, come before y in the other: then x has
\* fewer before it than y.
LEMMA FewerBelow ==
  ASSUME NEW S, IsFiniteSet(S), NEW R, NEW Q, NEW x \in S, NEW y \in S,
         <<x, x>> \notin R, <<x, y>> \in Q, \A z \in S : <<z, x>> \in R => <<z, y>> \in Q
  PROVE  /\ Cardinality(Below(S, R, x)) \in Nat /\ Cardinality(Below(S, Q, y)) \in Nat
         /\ Cardinality(Below(S, R, x)) < Cardinality(Below(S, Q, y))
<1>1. IsFiniteSet(Below(S, R, x)) /\ IsFiniteSet(Below(S, Q, y))
  BY FS_Subset DEF Below
<1>2. Below(S, R, x) \cup {x} \subseteq Below(S, Q, y) /\ x \notin Below(S, R, x)
  BY DEF Below
<1>3. Cardinality(Below(S, R, x) \cup {x}) = Cardinality(Below(S, R, x)) + 1
  BY <1>1, <1>2, FS_AddElement
<1>4. Cardinality(Below(S, R, x) \cup {x}) <= Cardinality(Below(S, Q, y))
  BY <1>1, <1>2, FS_Subset
<1>5. Cardinality(Below(S, R, x)) \in Nat /\ Cardinality(Below(S, Q, y)) \in Nat
  BY <1>1, FS_CardinalityType
<1> QED BY <1>3, <1>4, <1>5

\* In a strict order every rank is taken.
LEMMA RankTaken ==
  ASSUME NEW S, IsFiniteSet(S), NEW R, StrictOrder(S, R), NEW i \in 1..Cardinality(S)
  PROVE  \E x \in S : Cardinality(Below(S, R, x)) = i - 1
<1> DEFINE n == Cardinality(S)
           rank == [x \in S |-> Cardinality(Below(S, R, x))]
<1>1. n \in Nat
  BY FS_CardinalityType
<1>2. ASSUME NEW x \in S PROVE Cardinality(Below(S, R, x)) \in 0..(n - 1)
  <2>1. Below(S, R, x) \subseteq S \ {x}
    BY DEF Below, StrictOrder
  <2>2. IsFiniteSet(S \ {x}) /\ Cardinality(S \ {x}) = n - 1
    BY FS_RemoveElement
  <2>3. Cardinality(Below(S, R, x)) <= n - 1 /\ IsFiniteSet(Below(S, R, x))
    BY <2>1, <2>2, FS_Subset
  <2>4. Cardinality(Below(S, R, x)) \in Nat
    BY <2>3, FS_CardinalityType
  <2> QED BY <1>1, <2>3, <2>4
<1>3. rank \in [S -> 0..(n - 1)]
  BY <1>2
<1>4. ASSUME NEW x \in S, NEW y \in S, <<x, y>> \in R PROVE rank[x] # rank[y]
  <2>1. <<x, x>> \notin R /\ \A z \in S : <<z, x>> \in R => <<z, y>> \in R
    BY <1>4 DEF StrictOrder
  <2>2. /\ Cardinality(Below(S, R, x)) \in Nat /\ Cardinality(Below(S, R, y)) \in Nat
        /\ Cardinality(Below(S, R, x)) < Cardinality(Below(S, R, y))
    BY <1>4, <2>1, FewerBelow
  <2> QED BY <2>2
<1>5. rank \in Injection(S, 0..(n - 1))
  <2>1. \A x, y \in S : rank[x] = rank[y] => x = y
    <3> HIDE DEF rank
    <3> QED BY <1>4 DEF StrictOrder
  <2> HIDE DEF rank
  <2> QED BY <1>3, <2>1 DEF Injection, IsInjective
<1>6. IsFiniteSet(0..(n - 1)) /\ Cardinality(0..(n - 1)) = n
  <2>1. 0 \in Int /\ n - 1 \in Int /\ (IF 0 > n - 1 THEN 0 ELSE (n - 1) - 0 + 1) = n
    BY <1>1
  <2> HIDE DEF n
  <2> QED BY <2>1, FS_Interval
<1>7. rank \in Surjection(S, 0..(n - 1))
  <2> HIDE DEF rank
  <2> QED BY <1>5, <1>6, FS_Injection
<1>8. PICK x \in S : rank[x] = i - 1
  <2>1. i - 1 \in 0..(n - 1)
    BY <1>1
  <2> HIDE DEF rank
  <2> QED BY <1>7, <2>1 DEF Surjection
<1> QED BY <1>8

LEMMA RankedRank ==
  ASSUME NEW S, IsFiniteSet(S), NEW R, StrictOrder(S, R)
  PROVE  /\ Ranked(S, R) \in Seq(S) /\ Len(Ranked(S, R)) = Cardinality(S)
         /\ \A i \in 1..Cardinality(S) :
              Ranked(S, R)[i] \in S /\ Cardinality(Below(S, R, Ranked(S, R)[i])) = i - 1
<1> DEFINE n == Cardinality(S)
<1>1. n \in Nat
  BY FS_CardinalityType
<1>2. ASSUME NEW i \in 1..n
      PROVE  Ranked(S, R)[i] \in S /\ Cardinality(Below(S, R, Ranked(S, R)[i])) = i - 1
  <2>1. \E x \in S : Cardinality(Below(S, R, x)) = i - 1
    BY RankTaken
  <2>2. Ranked(S, R)[i] = CHOOSE x \in S : Cardinality(Below(S, R, x)) = i - 1
    BY DEF Ranked, Below
  <2> QED BY <2>1, <2>2
<1>3. Ranked(S, R) \in [1..n -> S]
  BY <1>2 DEF Ranked
<1>4. Ranked(S, R) \in Seq(S)
  BY <1>1, <1>3, SeqDef
<1>5. DOMAIN Ranked(S, R) = 1..n /\ DOMAIN Ranked(S, R) = 1..Len(Ranked(S, R))
      /\ Len(Ranked(S, R)) \in Nat
  BY <1>3, <1>4, LenProperties
<1>6. Len(Ranked(S, R)) = n
  BY <1>1, <1>5
<1> QED BY <1>2, <1>4, <1>6

LEMMA TakeRanked ==
  ASSUME NEW S, IsFiniteSet(S), NEW R, StrictOrder(S, R)
  PROVE  LET t == Take(Ranked(S, R), MAX_VALIDATORS)
             k == IF MAX_VALIDATORS < Cardinality(S) THEN MAX_VALIDATORS ELSE Cardinality(S)
         IN  /\ Len(t) = k /\ DOMAIN t = 1..k
             /\ \A i \in 1..k : t[i] \in S /\ Cardinality(Below(S, R, t[i])) = i - 1
<1> DEFINE s == Ranked(S, R)
           n == Cardinality(S)
           k == IF MAX_VALIDATORS < n THEN MAX_VALIDATORS ELSE n
           t == SubSeq(s, 1, k)
<1>1. n \in Nat /\ k \in 0..n
  BY FS_CardinalityType, ForksAssumption
<1>2. /\ Len(s) = n
      /\ \A i \in 1..n : s[i] \in S /\ Cardinality(Below(S, R, s[i])) = i - 1
  BY RankedRank
<1>3. Take(s, MAX_VALIDATORS) = t
  BY <1>2 DEF Take
<1> HIDE DEF s, k
<1>4. t \in Seq(S) /\ Len(t) = k /\ \A i \in 1..k : t[i] = s[i]
  <2>1. k \in Int /\ 1 \in Int /\ \A i \in 1..k : s[i] \in S
    BY <1>1, <1>2
  <2>2. /\ t \in Seq(S) /\ Len(t) = IF 1 <= k THEN k - 1 + 1 ELSE 0
        /\ \A i \in 1..(k - 1 + 1) : t[i] = s[1 + i - 1]
    BY <2>1, SubSeqProperties
  <2>3. k - 1 + 1 = k /\ (IF 1 <= k THEN k - 1 + 1 ELSE 0) = k
    BY <1>1
  <2>4. \A i \in 1..k : 1 + i - 1 = i
    BY <1>1
  <2> QED BY <2>2, <2>3, <2>4
<1>5. DOMAIN t = 1..k
  BY <1>4, LenProperties
<1>6. \A i \in 1..k : t[i] \in S /\ Cardinality(Below(S, R, t[i])) = i - 1
  BY <1>1, <1>2, <1>4
<1> HIDE DEF t
<1> QED BY <1>3, <1>4, <1>5, <1>6 DEF s, k

\* The candidates that hold enough, in the order of an election after era 0; and all
\* candidates, in the order of an election of era 0.
Enough == {v \in Eligible : stake[v] >= MIN_STAKE}

Before(order) == {p \in Enough \X Enough : Outranks(p[1], p[2], order)}

Listed(order) == {p \in Eligible \X Eligible : order[p[1]] < order[p[2]]}

BeforeByAddress ==
  {p \in Validators \X Validators :
     stake[p[1]] > stake[p[2]] \/ (stake[p[1]] = stake[p[2]] /\ p[1] < p[2])}

LEMMA Candidates ==
  ASSUME stake \in [Validators -> Nat]
  PROVE  /\ IsFiniteSet(Validators) /\ IsFiniteSet(Eligible) /\ IsFiniteSet(Enough)
         /\ Eligible \subseteq Validators /\ Enough \subseteq Validators
         /\ \A v \in Validators : v \in Nat /\ stake[v] \in Nat /\ RegistrationEra[v] \in Nat
<1>1. IsFiniteSet(Validators)
  BY ForksAssumption, FS_Interval DEF Validators
<1>2. Eligible \subseteq Validators /\ Enough \subseteq Validators
  BY DEF Eligible, Enough
<1>3. IsFiniteSet(Eligible) /\ IsFiniteSet(Enough)
  BY <1>1, <1>2, FS_Subset
<1>4. \A v \in Validators : v \in Nat
  BY ForksAssumption DEF Validators
<1> QED BY <1>1, <1>2, <1>3, <1>4, ForksAssumption

LEMMA ElectionOrder ==
  ASSUME stake \in [Validators -> Nat], NEW order \in Iterations
  PROVE  StrictOrder(Enough, Before(order))
<1>1. \A v \in Enough : stake[v] \in Nat /\ RegistrationEra[v] \in Nat /\ order[v] \in Nat
  BY Candidates, ForksAssumption DEF Iterations
<1>2. \A v, w \in Enough : order[v] = order[w] => v = w
  BY Candidates DEF Iterations
<1>3. \A v, w \in Enough : <<v, w>> \in Before(order) <=> Outranks(v, w, order)
  BY DEF Before
<1>4. \A v \in Enough : ~Outranks(v, v, order)
  BY <1>1 DEF Outranks
<1>5. \A v, w, u \in Enough : Outranks(v, w, order) /\ Outranks(w, u, order) => Outranks(v, u, order)
  BY <1>1 DEF Outranks
<1>6. \A v, w \in Enough : v = w \/ Outranks(v, w, order) \/ Outranks(w, v, order)
  BY <1>1, <1>2 DEF Outranks
<1> QED BY <1>3, <1>4, <1>5, <1>6 DEF StrictOrder

LEMMA ListOrder ==
  ASSUME stake \in [Validators -> Nat], NEW order \in Iterations
  PROVE  StrictOrder(Eligible, Listed(order))
<1>1. \A v \in Eligible : order[v] \in Nat
  BY Candidates, ForksAssumption DEF Iterations
<1>2. \A v, w \in Eligible : order[v] = order[w] => v = w
  BY Candidates DEF Iterations
<1>3. \A v, w \in Eligible : <<v, w>> \in Listed(order) <=> order[v] < order[w]
  BY DEF Listed
<1> QED BY <1>1, <1>2, <1>3 DEF StrictOrder

LEMMA AddressOrder ==
  ASSUME stake \in [Validators -> Nat] PROVE StrictOrder(Validators, BeforeByAddress)
<1>1. \A v \in Validators : v \in Nat /\ stake[v] \in Nat
  BY Candidates
<1>2. \A v, w \in Validators : <<v, w>> \in BeforeByAddress <=>
        stake[v] > stake[w] \/ (stake[v] = stake[w] /\ v < w)
  BY DEF BeforeByAddress
<1> QED BY <1>1, <1>2 DEF StrictOrder

\* Two lists of the same candidates give each rank the same stake and age.
LEMMA SameRanks ==
  ASSUME stake \in [Validators -> Nat],
         NEW o \in Iterations, NEW q \in Iterations, NEW x \in Enough, NEW y \in Enough,
         Cardinality(Below(Enough, Before(o), x)) = Cardinality(Below(Enough, Before(q), y))
  PROVE  stake[x] = stake[y] /\ RegistrationEra[x] = RegistrationEra[y]
<1> DEFINE Better(v, w) ==
             stake[v] > stake[w] \/ (stake[v] = stake[w] /\ RegistrationEra[v] < RegistrationEra[w])
<1>0. \A v \in Enough : stake[v] \in Nat /\ RegistrationEra[v] \in Nat
  BY Candidates
<1>1. ASSUME NEW p \in Iterations, NEW r \in Iterations, NEW v \in Enough, NEW w \in Enough,
             Better(v, w)
      PROVE  Cardinality(Below(Enough, Before(p), v)) # Cardinality(Below(Enough, Before(r), w))
  <2>1. <<v, v>> \notin Before(p)
    BY ElectionOrder DEF StrictOrder
  <2>2. <<v, w>> \in Before(r)
    BY <1>1 DEF Before, Outranks
  <2>3. ASSUME NEW z \in Enough, <<z, v>> \in Before(p) PROVE <<z, w>> \in Before(r)
    <3>1. Outranks(z, v, p)
      BY <2>3 DEF Before
    <3>2. Better(z, w)
      BY <1>0, <1>1, <3>1 DEF Outranks
    <3> QED BY <3>2 DEF Before, Outranks
  <2>4. /\ Cardinality(Below(Enough, Before(p), v)) \in Nat
        /\ Cardinality(Below(Enough, Before(r), w)) \in Nat
        /\ Cardinality(Below(Enough, Before(p), v)) < Cardinality(Below(Enough, Before(r), w))
    BY <2>1, <2>2, <2>3, Candidates, FewerBelow
  <2> QED BY <2>4
<1>2. ~Better(x, y) /\ ~Better(y, x)
  <2> HIDE DEF Better
  <2> QED BY <1>1
<1> QED BY <1>0, <1>2

LEMMA SameStakeByAddress ==
  ASSUME stake \in [Validators -> Nat], Enough = Validators,
         NEW o \in Iterations, NEW x \in Validators, NEW y \in Validators,
         Cardinality(Below(Enough, Before(o), x)) = Cardinality(Below(Validators, BeforeByAddress, y))
  PROVE  stake[x] = stake[y]
<1>0. \A v \in Validators : stake[v] \in Nat
  BY Candidates
<1>2. StrictOrder(Validators, Before(o)) /\ StrictOrder(Validators, BeforeByAddress)
  BY ElectionOrder, AddressOrder
<1>3. \A v, w \in Validators : /\ stake[v] > stake[w] => <<v, w>> \in Before(o)
                               /\ stake[v] > stake[w] => <<v, w>> \in BeforeByAddress
                               /\ <<v, w>> \in Before(o) => stake[v] >= stake[w]
                               /\ <<v, w>> \in BeforeByAddress => stake[v] >= stake[w]
  BY <1>0 DEF Before, BeforeByAddress, Outranks
<1>4. ASSUME NEW R, NEW Q, NEW v \in Validators, NEW w \in Validators,
             StrictOrder(Validators, R), stake[v] > stake[w],
             \A a, b \in Validators : stake[a] > stake[b] => <<a, b>> \in Q,
             \A a, b \in Validators : <<a, b>> \in R => stake[a] >= stake[b]
      PROVE  Cardinality(Below(Validators, R, v)) # Cardinality(Below(Validators, Q, w))
  <2>1. <<v, v>> \notin R /\ <<v, w>> \in Q
    BY <1>4 DEF StrictOrder
  <2>2. \A z \in Validators : <<z, v>> \in R => <<z, w>> \in Q
    BY <1>0, <1>4
  <2>3. /\ Cardinality(Below(Validators, R, v)) \in Nat
        /\ Cardinality(Below(Validators, Q, w)) \in Nat
        /\ Cardinality(Below(Validators, R, v)) < Cardinality(Below(Validators, Q, w))
    BY <2>1, <2>2, Candidates, FewerBelow
  <2> QED BY <2>3
<1>5. ~(stake[x] > stake[y])
  BY <1>2, <1>3, <1>4
<1>6. ~(stake[y] > stake[x])
  BY <1>2, <1>3, <1>4
<1> QED BY <1>0, <1>5, <1>6

\* Places an election has when there are n candidates.
Places(n) == IF MAX_VALIDATORS < n THEN MAX_VALIDATORS ELSE n

LEMMA Elected ==
  ASSUME stake \in [Validators -> Nat], NEW p \in Iterations
  PROVE  LET a == run_election(p, 1)
             k == Places(Cardinality(Enough))
         IN  /\ Len(a) = k /\ DOMAIN a = 1..k /\ k \in Nat
             /\ \A i \in 1..k : a[i] \in Enough /\ Cardinality(Below(Enough, Before(p), a[i])) = i - 1
             /\ Len(run_election(p, 0)) = Places(Cardinality(Eligible))
<1>1. run_election(p, 1) = Take(Ranked(Enough, Before(p)), MAX_VALIDATORS)
  BY DEF run_election, Before, Enough
<1>2. run_election(p, 0) = Take(Ranked(Eligible, Listed(p)), MAX_VALIDATORS)
  BY DEF run_election, Listed
<1>3. /\ StrictOrder(Enough, Before(p)) /\ IsFiniteSet(Enough)
      /\ StrictOrder(Eligible, Listed(p)) /\ IsFiniteSet(Eligible)
  BY ElectionOrder, ListOrder, Candidates
<1>4. Places(Cardinality(Enough)) \in Nat
  BY <1>3, FS_CardinalityType, ForksAssumption DEF Places
<1> QED BY <1>1, <1>2, <1>3, <1>4, TakeRanked DEF Places

\* Whoever has more than somebody elected is elected.
LEMMA BestElected ==
  ASSUME stake \in [Validators -> Nat], NEW p \in Iterations, NEW v \in Enough,
         NEW i \in 1..Places(Cardinality(Enough)), stake[v] > stake[run_election(p, 1)[i]]
  PROVE  \E j \in 1..Places(Cardinality(Enough)) : v = run_election(p, 1)[j]
<1> DEFINE a == run_election(p, 1)
           k == Places(Cardinality(Enough))
           rank(x) == Cardinality(Below(Enough, Before(p), x))
<1>0. /\ k \in Nat /\ \A j \in 1..k : a[j] \in Enough /\ rank(a[j]) = j - 1
      /\ StrictOrder(Enough, Before(p)) /\ IsFiniteSet(Enough)
  BY Elected, ElectionOrder, Candidates
<1>1. ASSUME NEW x \in Enough, NEW y \in Enough, <<x, y>> \in Before(p)
      PROVE  rank(x) \in Nat /\ rank(y) \in Nat /\ rank(x) < rank(y)
  <2>1. <<x, x>> \notin Before(p) /\ \A z \in Enough : <<z, x>> \in Before(p) => <<z, y>> \in Before(p)
    BY <1>0, <1>1 DEF StrictOrder
  <2> QED BY <1>0, <1>1, <2>1, FewerBelow
<1>2. <<v, a[i]>> \in Before(p)
  BY <1>0 DEF Before, Outranks
<1> HIDE DEF rank, a, k
<1>3. rank(v) \in Nat /\ rank(v) < i - 1
  BY <1>0, <1>1, <1>2 DEF k
<1>4. rank(v) + 1 \in 1..k /\ (rank(v) + 1) - 1 = rank(v)
  BY <1>0, <1>3 DEF k
<1> DEFINE w == a[rank(v) + 1]
<1>5. w \in Enough /\ rank(w) = rank(v)
  BY <1>0, <1>4
<1>6. v = w
  <2> HIDE DEF w
  <2>1. ~(<<v, w>> \in Before(p)) /\ ~(<<w, v>> \in Before(p))
    BY <1>1, <1>5
  <2> QED BY <1>0, <1>5, <2>1 DEF StrictOrder
<1> QED BY <1>4, <1>6 DEF a, k

LEMMA AgreesFollows == stake \in [Validators -> Nat] => ElectionAgrees
<1> SUFFICES ASSUME stake \in [Validators -> Nat] PROVE ElectionAgrees
  OBVIOUS
<1> DEFINE k == Places(Cardinality(Enough))
<1>1. ASSUME NEW o \in Iterations, NEW q \in Iterations
      PROVE  Len(run_election(o, 0)) = Len(run_election(q, 0))
  BY <1>1, Elected
<1>2. ASSUME NEW o \in Iterations, NEW q \in Iterations
      PROVE  LET a == run_election(o, 1)
                 b == run_election(q, 1)
             IN  /\ Len(a) = Len(b)
                 /\ \A i \in DOMAIN a :
                      /\ stake[a[i]] = stake[b[i]]
                      /\ RegistrationEra[a[i]] = RegistrationEra[b[i]]
                      /\ \A v \in Enough : v \in {a[j] : j \in DOMAIN a} \/ stake[v] <= stake[a[i]]
                      /\ Enough = Validators => stake[a[i]] = stake[elect[i]]
  <2> DEFINE a == run_election(o, 1)
             b == run_election(q, 1)
  <2>1. /\ Len(a) = k /\ DOMAIN a = 1..k
        /\ \A i \in 1..k : a[i] \in Enough /\ Cardinality(Below(Enough, Before(o), a[i])) = i - 1
    BY Elected
  <2>2. /\ Len(b) = k
        /\ \A i \in 1..k : b[i] \in Enough /\ Cardinality(Below(Enough, Before(q), b[i])) = i - 1
    BY Elected
  <2>3. ASSUME NEW i \in 1..k
        PROVE  stake[a[i]] = stake[b[i]] /\ RegistrationEra[a[i]] = RegistrationEra[b[i]]
    <3> HIDE DEF k, a, b
    <3> QED BY <2>1, <2>2, SameRanks
  <2>4. ASSUME NEW i \in 1..k, NEW v \in Enough
        PROVE  v \in {a[j] : j \in 1..k} \/ stake[v] <= stake[a[i]]
    <3>1. stake[v] \in Nat /\ stake[a[i]] \in Nat
      BY <2>1, Candidates
    <3>2. CASE stake[v] > stake[a[i]]
      BY <3>2, BestElected
    <3> HIDE DEF a, k
    <3> QED BY <3>1, <3>2
  <2>5. ASSUME NEW i \in 1..k, Enough = Validators PROVE stake[a[i]] = stake[elect[i]]
    <3>1. elect = Take(Ranked(Validators, BeforeByAddress), MAX_VALIDATORS)
      BY DEF elect, BeforeByAddress
    <3>2. elect[i] \in Validators /\ Cardinality(Below(Validators, BeforeByAddress, elect[i])) = i - 1
      BY <3>1, <2>5, Candidates, AddressOrder, TakeRanked DEF Places
    <3> HIDE DEF k, a
    <3> QED BY <2>1, <2>5, <3>2, SameStakeByAddress
  <2> HIDE DEF k, a, b
  <2>6. /\ Len(a) = Len(b)
        /\ \A i \in DOMAIN a :
             /\ stake[a[i]] = stake[b[i]] /\ RegistrationEra[a[i]] = RegistrationEra[b[i]]
             /\ \A v \in Enough : v \in {a[j] : j \in DOMAIN a} \/ stake[v] <= stake[a[i]]
             /\ Enough = Validators => stake[a[i]] = stake[elect[i]]
    BY <2>1, <2>2, <2>3, <2>4, <2>5
  <2> QED BY <2>6 DEF a, b
<1> QED BY <1>1, <1>2 DEF ElectionAgrees, Enough

\* Whatever order list_validator_addresses hands the candidates out in, run_election elects
\* equally many; after era 0 it gives every rank the same stake and the same age and leaves
\* out nobody with more; and where all are candidates with enough stake, the stakes are
\* those of TopNElection.
THEOREM ElectionAgreesHolds == ForksSpec => []ElectionAgrees
<1>1. ForksInv => ElectionAgrees
  BY AgreesFollows DEF ForksInv, Shape
<1> QED BY <1>1, ForksAlways, PTL

-----------------------------------------------------------------------------
(* The emission schedule.                                                  *)

\* The height at which the era of the height h starts.
EraStart(h) == era_start_height(era_at_height(h))

\* A whole era's rewards, computed from the supply at its start, fit below the cap.
LEMMA EraFits ==
  ASSUME NEW policy \in Policies, NEW s \in Nat, s <= EffectiveMax
  PROVE  /\ block_reward(policy, s) \in Nat
         /\ \A k \in 0..ERA_LENGTH : /\ k * block_reward(policy, s) \in Nat
                                     /\ s + k * block_reward(policy, s) <= EffectiveMax
<1> DEFINE r == block_reward(policy, s)
<1>0. /\ ERA_LENGTH \in Nat \ {0} /\ BLOCKS_PER_YEAR \in Nat \ {0} /\ BASIS_POINTS \in Nat \ {0}
      /\ ERA_LENGTH <= BLOCKS_PER_YEAR /\ EffectiveMax \in Nat
      /\ headroom_rate \in Nat /\ headroom_rate <= BASIS_POINTS
      /\ ceiling_rate \in Nat /\ ceiling_rate <= BASIS_POINTS
  BY SupplyAssumption
<1>1. CASE policy = "fixed" \/ s >= EffectiveMax
  <2>1. r = 0
    BY <1>1 DEF block_reward, compute_reward
  <2>2. \A k \in 0..ERA_LENGTH : k * 0 = 0
    BY <1>0
  <2> HIDE DEF r
  <2>3. r \in Nat /\ \A k \in 0..ERA_LENGTH : k * r \in Nat /\ s + k * r <= EffectiveMax
    BY <2>1, <2>2
  <2> QED BY <2>3 DEF r
<1>2. CASE policy = "capped" /\ s < EffectiveMax
  <2> DEFINE room == EffectiveMax - s
             headroom == (room * headroom_rate) \div BASIS_POINTS
             ceiling == (EffectiveMax * ceiling_rate) \div BASIS_POINTS
             least == Least(headroom, ceiling)
  <2>1. r = least \div BLOCKS_PER_YEAR
    BY <1>2, <1>0 DEF block_reward, compute_reward
  <2>2. room \in Nat
    BY <1>0, <1>2
  <2>3. headroom \in Nat /\ headroom <= room /\ ceiling \in Nat
    <3> HIDE DEF room
    <3> QED BY <2>2, <1>0, RateBounds
  <2>4. least \in Nat /\ least <= room
    <3> HIDE DEF room, headroom, ceiling
    <3> QED BY <2>2, <2>3 DEF Least
  <2> HIDE DEF least, r
  <2>5. r \in Nat /\ r * BLOCKS_PER_YEAR <= room
    <3>1. r \in Nat /\ r * BLOCKS_PER_YEAR <= least
      BY <2>1, <2>4, <1>0, QuotientBounds
    <3> QED BY <3>1, <2>2, <2>4, <1>0
  <2>6. ASSUME NEW k \in 0..ERA_LENGTH PROVE k * r \in Nat /\ s + k * r <= EffectiveMax
    <3>1. k \in Nat /\ k <= BLOCKS_PER_YEAR
      BY <1>0
    <3>2. k * r \in Nat /\ k * r <= r * BLOCKS_PER_YEAR /\ r * BLOCKS_PER_YEAR \in Nat
      <4>1. k * r \in Nat /\ k * r <= BLOCKS_PER_YEAR * r /\ BLOCKS_PER_YEAR * r \in Nat
        BY <3>1, <1>0, <2>5, ProductMonotone
      <4> QED BY <4>1, <1>0, <2>5
    <3> DEFINE kr == k * r
               br == r * BLOCKS_PER_YEAR
    <3> HIDE DEF kr, br
    <3>3. kr \in Nat /\ br \in Nat /\ kr <= br /\ br <= EffectiveMax - s
      BY <3>2, <2>5 DEF kr, br
    <3>4. s + kr <= EffectiveMax
      BY <3>3, <1>0
    <3> QED BY <3>3, <3>4 DEF kr
  <2> QED BY <2>5, <2>6 DEF r
<1> QED BY <1>0, <1>1, <1>2 DEF Policies

LEMMA EraStartBounds ==
  ASSUME NEW h \in Nat
  PROVE  /\ EraStart(h) \in 0..h /\ h - EraStart(h) < ERA_LENGTH
         /\ EraStart(h + 1) \in {EraStart(h), h + 1}
<1> DEFINE q(i) == i \div ERA_LENGTH
           e(i) == q(i) * ERA_LENGTH
<1>0. ERA_LENGTH \in Nat \ {0} /\ h + 1 \in Nat
  BY SupplyAssumption
<1>1. ASSUME NEW i \in Nat PROVE q(i) \in Nat /\ e(i) \in Nat /\ e(i) <= i /\ i < e(i) + ERA_LENGTH
  <2>1. q(i) \in Nat /\ e(i) <= i /\ i < e(i) + ERA_LENGTH
    BY <1>0, QuotientBounds
  <2> HIDE DEF q
  <2> QED BY <2>1, <1>0
<1>2. e(h + 1) \in {e(h), h + 1}
  <2> DEFINE a == q(h)
             b == q(h + 1)
  <2>1. /\ a \in Nat /\ b \in Nat /\ a * ERA_LENGTH \in Nat /\ b * ERA_LENGTH \in Nat
        /\ a * ERA_LENGTH <= h /\ h < a * ERA_LENGTH + ERA_LENGTH
        /\ b * ERA_LENGTH <= h + 1 /\ h + 1 < b * ERA_LENGTH + ERA_LENGTH
    BY <1>0, <1>1
  <2> HIDE DEF a, b
  <2>2. CASE b = a
    BY <2>2 DEF a, b
  <2>3. CASE b >= a + 1
    <3>1. (a + 1) * ERA_LENGTH <= b * ERA_LENGTH
      BY <2>1, <2>3, <1>0, ProductMonotone
    <3>2. (a + 1) * ERA_LENGTH = a * ERA_LENGTH + ERA_LENGTH
      BY <2>1, <1>0
    <3> DEFINE ae == a * ERA_LENGTH
               be == b * ERA_LENGTH
    <3> HIDE DEF ae, be
    <3>3. ae \in Nat /\ be \in Nat /\ h < ae + ERA_LENGTH /\ ae + ERA_LENGTH <= be /\ be <= h + 1
      BY <2>1, <3>1, <3>2 DEF ae, be
    <3>4. be = h + 1
      BY <3>3, <1>0
    <3> QED BY <3>4 DEF be, b
  <2>4. CASE a >= b + 1
    <3>1. (b + 1) * ERA_LENGTH <= a * ERA_LENGTH
      BY <2>1, <2>4, <1>0, ProductMonotone
    <3>2. (b + 1) * ERA_LENGTH = b * ERA_LENGTH + ERA_LENGTH
      BY <2>1, <1>0
    <3> DEFINE ae == a * ERA_LENGTH
               be == b * ERA_LENGTH
    <3> HIDE DEF ae, be
    <3>3. ae \in Nat /\ be \in Nat /\ be + ERA_LENGTH <= ae /\ ae <= h /\ h + 1 < be + ERA_LENGTH
      BY <2>1, <3>1, <3>2 DEF ae, be
    <3> QED BY <3>3, <1>0
  <2> QED BY <2>1, <2>2, <2>3, <2>4
<1>3. EraStart(h) = e(h) /\ EraStart(h + 1) = e(h + 1)
  BY DEF EraStart, era_start_height, era_at_height
<1> HIDE DEF e
<1> QED BY <1>0, <1>1, <1>2, <1>3

LEMMA SnapshotBounds ==
  ASSUME NEW h \in Nat
  PROVE  /\ snapshot_height(h) \in 0..h
         /\ snapshot_height(h + 1) \in {snapshot_height(h), h}
         /\ (h + 1) - snapshot_height(h + 1) \in 1..ERA_LENGTH
<1> DEFINE e == EraStart(h)
           f == EraStart(h + 1)
<1>0. ERA_LENGTH \in Nat \ {0} /\ h + 1 \in Nat
  BY SupplyAssumption
<1>1. /\ e \in 0..h /\ f \in {e, h + 1}
      /\ f \in 0..(h + 1) /\ (h + 1) - f < ERA_LENGTH
  BY <1>0, EraStartBounds
<1>2. /\ snapshot_height(h) = IF e = 0 THEN 0 ELSE e - 1
      /\ snapshot_height(h + 1) = IF f = 0 THEN 0 ELSE f - 1
  BY DEF snapshot_height, EraStart
<1> HIDE DEF e, f
<1> QED BY <1>0, <1>1, <1>2

\* SupplyAt satisfies its recursion: the function its definition chooses exists.
LEMMA SupplyRecursion ==
  ASSUME NEW policy \in Policies, NEW height \in Nat
  PROVE  \E g : /\ g = [h \in 0..height |->
                          IF h = 0 THEN GenesisSupply
                          ELSE g[h - 1] + block_reward(policy, g[snapshot_height(h)])]
                /\ SupplyAt(policy, height) = g[height]
<1> DEFINE Body(g, h) == IF h = 0 THEN GenesisSupply
                         ELSE g[h - 1] + block_reward(policy, g[snapshot_height(h)])
           Defined == {m \in 0..height : \E g : g = [h \in 0..m |-> Body(g, h)]}
<1>1. 0 \in Defined
  <2> DEFINE g == [h \in 0..0 |-> GenesisSupply]
  <2>1. g = [h \in 0..0 |-> Body(g, h)]
    OBVIOUS
  <2> HIDE DEF g
  <2>2. \E k : k = [h \in 0..0 |-> Body(k, h)]
    BY <2>1
  <2> HIDE DEF Body
  <2> QED BY <2>2
<1>2. ASSUME NEW m \in 0..(height - 1), m \in Defined PROVE m + 1 \in Defined
  <2>1. PICK g : g = [h \in 0..m |-> Body(g, h)]
    BY <1>2
  <2> DEFINE f == [h \in 0..(m + 1) |-> IF h = m + 1 THEN Body(g, m + 1) ELSE g[h]]
  <2>2. ASSUME NEW h \in 0..(m + 1) PROVE f[h] = Body(f, h)
    <3>1. h # 0 => h - 1 \in 0..m /\ snapshot_height(h) \in 0..m
      <4>1. h # 0 => h - 1 \in Nat /\ h - 1 \in 0..m /\ (h - 1) + 1 = h
        OBVIOUS
      <4>2. h # 0 => snapshot_height(h - 1) \in 0..(h - 1)
                     /\ snapshot_height(h) \in {snapshot_height(h - 1), h - 1}
        BY <4>1, SnapshotBounds
      <4> QED BY <4>1, <4>2
    <3>2. h # 0 => f[h - 1] = g[h - 1] /\ f[snapshot_height(h)] = g[snapshot_height(h)]
      BY <3>1
    <3>3. f[h] = Body(g, h)
      <4>1. CASE h = m + 1
        BY <4>1
      <4>2. CASE h # m + 1
        <5>1. h \in 0..m
          BY <4>2
        <5>2. g[h] = Body(g, h)
          <6> HIDE DEF Body
          <6> QED BY <5>1, <2>1
        <5> HIDE DEF Body
        <5> QED BY <4>2, <5>2
      <4> QED BY <4>1, <4>2
    <3> HIDE DEF f
    <3> QED BY <3>2, <3>3
  <2>3. f = [h \in 0..(m + 1) |-> f[h]]
    OBVIOUS
  <2> HIDE DEF f
  <2>4. f = [h \in 0..(m + 1) |-> Body(f, h)]
    <3> HIDE DEF Body
    <3> QED BY <2>2, <2>3
  <2>5. \E k : k = [h \in 0..(m + 1) |-> Body(k, h)]
    BY <2>4
  <2>6. m + 1 \in 0..height
    OBVIOUS
  <2> QED BY <2>5, <2>6
<1>3. \A m \in 0..height : m \in Defined
  <2> HIDE DEF Defined
  <2> QED BY <1>1, <1>2, UpTo
<1>4. \E g : g = [h \in 0..height |-> Body(g, h)]
  <2>1. height \in Defined
    <3> HIDE DEF Defined
    <3> QED BY <1>3
  <2> QED BY <2>1, Zenon
<1> DEFINE upto == CHOOSE g : g = [h \in 0..height |-> Body(g, h)]
<1>5. upto = [h \in 0..height |-> Body(upto, h)]
  BY <1>4, Zenon
<1>6. SupplyAt(policy, height) = upto[height]
  BY Zenon DEF SupplyAt
<1> HIDE DEF upto
<1> QED BY <1>5, <1>6

LEMMA CappedAt ==
  ASSUME NEW policy \in Policies, NEW height \in Nat
  PROVE  SupplyAt(policy, height) <= EffectiveMax
<1>1. PICK g : /\ g = [h \in 0..height |->
                         IF h = 0 THEN GenesisSupply
                         ELSE g[h - 1] + block_reward(policy, g[snapshot_height(h)])]
               /\ SupplyAt(policy, height) = g[height]
  BY SupplyRecursion
<1>2. g[0] = GenesisSupply
  BY <1>1
<1>3. \A h \in 0..(height - 1) : g[h + 1] = g[h] + block_reward(policy, g[snapshot_height(h + 1)])
  <2> TAKE h \in 0..(height - 1)
  <2>1. h + 1 \in 0..height /\ h + 1 # 0 /\ (h + 1) - 1 = h
    OBVIOUS
  <2> QED BY <1>1, <2>1
<1>0. GenesisSupply \in Nat /\ GenesisSupply <= EffectiveMax /\ EffectiveMax \in Nat
      /\ ERA_LENGTH \in Nat \ {0}
  BY SupplyAssumption
\* Up to h the supply is below the cap, and at h it is the snapshot and the era's rewards.
<1> DEFINE Grown(h) == LET s == g[snapshot_height(h)] IN
             /\ \A i \in 0..h : g[i] \in Nat /\ g[i] <= EffectiveMax
             /\ g[h] = s + (h - snapshot_height(h)) * block_reward(policy, s)
           Fine == {h \in 0..height : Grown(h)}
<1>4. 0 \in Fine
  <2>1. snapshot_height(0) = 0
    BY SnapshotBounds
  <2>2. block_reward(policy, g[0]) \in Nat
    BY <1>0, <1>2, EraFits
  <2>3. (0 - 0) * block_reward(policy, g[0]) = 0
    BY <2>2
  <2> QED BY <2>1, <2>3, <1>0, <1>2
<1>5. ASSUME NEW h \in 0..(height - 1), h \in Fine PROVE h + 1 \in Fine
  <2> DEFINE e == snapshot_height(h + 1)
             r == block_reward(policy, g[e])
             k == h - e
  <2>1. e \in 0..h /\ k \in Nat /\ k + 1 \in 0..ERA_LENGTH /\ e \in {snapshot_height(h), h}
    BY SnapshotBounds, <1>0
  <2>2. g[e] \in Nat /\ g[e] <= EffectiveMax
    BY <1>5, <2>1
  <2>3. r \in Nat /\ (k + 1) * r \in Nat /\ g[e] + (k + 1) * r <= EffectiveMax
    BY <2>1, <2>2, EraFits
  <2>4. g[h + 1] = g[h] + r
    BY <1>3
  <2>5. g[h] = g[e] + k * r
    <3>1. CASE e = snapshot_height(h)
      BY <1>5, <3>1
    <3>2. CASE e = h
      <4>1. k = 0 /\ 0 * r = 0 /\ g[h] = g[e]
        BY <2>3, <3>2
      <4> QED BY <2>2, <4>1
    <3> QED BY <2>1, <3>1, <3>2
  <2>6. (h + 1) - e = k + 1
    BY <2>1
  <2> HIDE DEF r, k
  <2>7. (k + 1) * r = k * r + r /\ k * r \in Nat
    BY <2>1, <2>3
  <2>8. g[h + 1] = g[e] + (k + 1) * r
    <3> DEFINE kr == k * r
    <3> HIDE DEF kr
    <3>1. kr \in Nat /\ g[h + 1] = (g[e] + kr) + r /\ (k + 1) * r = kr + r
      BY <2>4, <2>5, <2>7 DEF kr
    <3> QED BY <3>1, <2>2, <2>3
  <2>9. \A i \in 0..(h + 1) : g[i] \in Nat /\ g[i] <= EffectiveMax
    <3>1. g[h + 1] \in Nat /\ g[h + 1] <= EffectiveMax
      BY <2>2, <2>3, <2>8
    <3>2. \A i \in 0..h : g[i] \in Nat /\ g[i] <= EffectiveMax
      BY <1>5
    <3> QED BY <3>1, <3>2
  <2>10. Grown(h + 1)
    BY <2>6, <2>8, <2>9 DEF r
  <2>11. h + 1 \in 0..height
    OBVIOUS
  <2> HIDE DEF Grown
  <2> QED BY <2>10, <2>11
<1>6. height \in Fine
  <2> HIDE DEF Fine
  <2> QED BY <1>4, <1>5, UpTo
<1> QED BY <1>1, <1>6

\* On every fork of every node the supply stays at or below the maximum: the reward comes
\* from the supply before the era started, and a whole era of such rewards still fits.
THEOREM SupplyCappedHolds == ForksSpec => []SupplyCapped
<1>1. ForksInv => SupplyCapped
  <2> SUFFICES ASSUME ForksInv, NEW n \in Running, NEW policy \in Policies
               PROVE  SupplyAt(policy, Len(chain[n])) <= EffectiveMax
    BY DEF SupplyCapped
  <2>1. Len(chain[n]) \in Nat
    BY TipIsTop DEF ForksInv
  <2> QED BY <2>1, CappedAt
<1> QED BY <1>1, ForksAlways, PTL
=============================================================================
