--------------------------- MODULE MempoolProofs ----------------------------
(***************************************************************************)
(* The pool's own count and its limits, and what select takes, for every   *)
(* configuration.                                                          *)
(***************************************************************************)
EXTENDS Mempool, FiniteSetTheorems, TLAPS

\* Only together are the parts inductive: insert tests the count, the limit is
\* on what is held.
IInv == PoolTypeOK /\ CountExact /\ PoolWithinLimits

LEMMA InitOk == PoolInit => IInv
<1> SUFFICES ASSUME PoolInit PROVE IInv
  OBVIOUS
<1>1. txs = {} /\ count = 0 /\ now = 0
  BY DEF PoolInit
<1>2. IsFiniteSet(txs) /\ Cardinality(txs) = 0
  BY <1>1, FS_EmptySet
<1>3. \A s \in Senders : Cardinality(OfSender(txs, s)) = 0
  <2>1. \A s : OfSender(txs, s) = {}
    BY <1>1 DEF OfSender
  <2> QED BY <2>1, FS_EmptySet
<1>4. PoolTypeOK
  BY <1>1, <1>2 DEF PoolTypeOK
<1>5. PoolWithinLimits
  BY <1>1, <1>2, <1>3, ConfigAssumption DEF PoolWithinLimits
<1> QED BY <1>1, <1>2, <1>4, <1>5 DEF IInv, CountExact

\* Taking a set of transactions out, and its size off the count.
LEMMA ShrinkOk ==
  ASSUME IInv, NEW gone \in SUBSET txs,
         txs' = txs \ gone, count' = count - Cardinality(gone),
         now' \in Nat, now' >= now
  PROVE  IInv'
<1>0. PoolTypeOK /\ CountExact /\ PoolWithinLimits
  BY DEF IInv
<1>1. IsFiniteSet(txs) /\ IsFiniteSet(gone) /\ IsFiniteSet(txs')
  BY <1>0, FS_Subset DEF PoolTypeOK
<1>2. Cardinality(txs') = Cardinality(txs) - Cardinality(gone)
  <2>1. Cardinality(txs \ gone) = Cardinality(txs) - Cardinality(txs \cap gone)
    BY <1>1, FS_Difference
  <2>2. txs \cap gone = gone
    OBVIOUS
  <2> QED BY <2>1, <2>2
<1>3. /\ Cardinality(txs) \in Nat /\ Cardinality(gone) \in Nat /\ Cardinality(txs') \in Nat
      /\ Cardinality(txs') <= Cardinality(txs)
  BY <1>1, <1>2, FS_CardinalityType, FS_Subset
<1>4. CountExact'
  BY <1>0, <1>2 DEF CountExact
<1>5. PoolTypeOK'
  BY <1>0, <1>1, <1>3, <1>4 DEF PoolTypeOK, CountExact, PoolTx
<1>6. ASSUME NEW s \in Senders PROVE Cardinality(OfSender(txs', s)) <= per_sender_cap
  <2>1. OfSender(txs', s) \in SUBSET OfSender(txs, s) /\ OfSender(txs, s) \in SUBSET txs
    BY DEF OfSender
  <2>2. IsFiniteSet(OfSender(txs, s)) /\ IsFiniteSet(OfSender(txs', s))
    BY <1>1, <2>1, FS_Subset
  <2>3. Cardinality(OfSender(txs', s)) <= Cardinality(OfSender(txs, s))
    BY <2>1, <2>2, FS_Subset
  <2>4. Cardinality(OfSender(txs, s)) <= per_sender_cap
    BY <1>0 DEF PoolWithinLimits
  <2>5. Cardinality(OfSender(txs, s)) \in Nat /\ Cardinality(OfSender(txs', s)) \in Nat
    BY <2>2, FS_CardinalityType
  <2> QED BY <2>3, <2>4, <2>5, ConfigAssumption
<1>7. Cardinality(txs') <= max_size
  BY <1>0, <1>3, ConfigAssumption DEF PoolWithinLimits
<1>8. \A t, u \in txs' : t.sender = u.sender /\ t.nonce = u.nonce => t = u
  BY <1>0 DEF PoolWithinLimits
<1>9. PoolWithinLimits'
  BY <1>6, <1>7, <1>8 DEF PoolWithinLimits, OfSender
<1> QED BY <1>4, <1>5, <1>9 DEF IInv

LEMMA InsertOk ==
  ASSUME IInv, NEW tx \in Submissions, Insert(tx)
  PROVE  IInv'
<1> DEFINE new == Received(tx)
<1>0. PoolTypeOK /\ CountExact /\ PoolWithinLimits
  BY DEF IInv
<1>1. /\ Admissible(tx) /\ txs' = txs \cup {new} /\ count' = count + 1 /\ now' = now
  BY DEF Insert
<1>2. new \in PoolTx /\ new.received_at = now /\ new.sender = tx.sender /\ new.nonce = tx.nonce
  BY <1>0, ConfigAssumption DEF Received, Tx, PoolTx, PoolTypeOK
<1>3. \A t \in txs : ~(t.sender = new.sender /\ t.nonce = new.nonce)
  BY <1>1, <1>2 DEF Admissible
<1>4. new \notin txs
  BY <1>3
<1> HIDE DEF new
<1>5. IsFiniteSet(txs') /\ Cardinality(txs') = Cardinality(txs) + 1
  BY <1>0, <1>1, <1>4, FS_AddElement DEF PoolTypeOK
<1>6. CountExact'
  BY <1>0, <1>1, <1>5 DEF CountExact
<1>7. PoolTypeOK'
  <2>1. txs' \subseteq PoolTx /\ count' \in Nat /\ now' \in Nat
    BY <1>0, <1>1, <1>2 DEF PoolTypeOK
  <2>2. \A t \in txs' : t.received_at <= now'
    BY <1>0, <1>1, <1>2 DEF PoolTypeOK
  <2> QED BY <1>5, <2>1, <2>2 DEF PoolTypeOK
<1>8. Cardinality(txs') <= max_size
  BY <1>0, <1>1, <1>5, ConfigAssumption DEF Admissible, CountExact, PoolTypeOK
<1>9. ASSUME NEW s \in Senders PROVE Cardinality(OfSender(txs', s)) <= per_sender_cap
  <2>0. IsFiniteSet(OfSender(txs, s)) /\ Cardinality(OfSender(txs, s)) \in Nat
    <3>1. OfSender(txs, s) \in SUBSET txs
      BY DEF OfSender
    <3> QED BY <1>0, <3>1, FS_Subset, FS_CardinalityType DEF PoolTypeOK
  <2>1. CASE s # tx.sender
    <3>1. OfSender(txs', s) = OfSender(txs, s)
      BY <1>1, <1>2, <2>1 DEF OfSender
    <3> QED BY <1>0, <3>1 DEF PoolWithinLimits
  <2>2. CASE s = tx.sender
    <3>1. OfSender(txs', s) = OfSender(txs, s) \cup {new}
      BY <1>1, <1>2, <2>2 DEF OfSender
    <3>2. new \notin OfSender(txs, s)
      BY <1>4 DEF OfSender
    <3>3. Cardinality(OfSender(txs', s)) = Cardinality(OfSender(txs, s)) + 1
      BY <2>0, <3>1, <3>2, FS_AddElement
    <3>4. Cardinality(OfSender(txs, s)) < per_sender_cap
      BY <1>1, <2>2 DEF Admissible
    <3> QED BY <2>0, <3>3, <3>4, ConfigAssumption
  <2> QED BY <2>1, <2>2
<1>10. \A t, u \in txs' : t.sender = u.sender /\ t.nonce = u.nonce => t = u
  BY <1>0, <1>1, <1>3 DEF PoolWithinLimits
<1>11. PoolWithinLimits'
  BY <1>8, <1>9, <1>10 DEF PoolWithinLimits, OfSender
<1> QED BY <1>6, <1>7, <1>11 DEF IInv

LEMMA StepOk == IInv /\ [PoolNext]_poolvars => IInv'
<1> SUFFICES ASSUME IInv, [PoolNext]_poolvars PROVE IInv'
  OBVIOUS
<1>0. PoolTypeOK
  BY DEF IInv
<1>1. ASSUME txs' = txs, count' = count, now' \in Nat, now' >= now PROVE IInv'
  <2>1. txs' = txs \ {} /\ count' = count - Cardinality({})
    BY <1>0, <1>1, FS_EmptySet DEF PoolTypeOK
  <2> QED BY <1>1, <2>1, ShrinkOk
<1>2. ASSUME NEW tx \in Submissions, Insert(tx) PROVE IInv'
  BY <1>2, InsertOk
<1>3. ASSUME NEW t \in txs, Remove(t) PROVE IInv'
  <2>1. Cardinality({t}) = 1
    BY FS_Singleton
  <2>2. txs' = txs \ {t} /\ count' = count - Cardinality({t}) /\ now' = now
    BY <1>3, <2>1 DEF Remove
  <2> QED BY <1>0, <2>2, ShrinkOk DEF PoolTypeOK
<1>4. CASE Select(MAX_SELECT)
  <2>1. PICK o \in SortedPools :
          LET taken == {o[i] : i \in Picked(o, MAX_SELECT)} IN
          /\ txs' = txs \ taken
          /\ count' = count - Cardinality(taken)
          /\ now' = now
    BY <1>4 DEF Select
  <2> DEFINE taken == {o[i] : i \in Picked(o, MAX_SELECT)}
  <2>2. taken \in SUBSET txs
    BY DEF SortedPools, Picked, Eligible
  <2>3. txs' = txs \ taken /\ count' = count - Cardinality(taken) /\ now' = now
    BY <2>1
  <2> HIDE DEF taken
  <2> QED BY <1>0, <2>2, <2>3, ShrinkOk DEF PoolTypeOK
<1>5. CASE EvictExpired
  <2>1. Expired \in SUBSET txs
    BY DEF Expired
  <2>2. txs' = txs \ Expired /\ count' = count - Cardinality(Expired) /\ now' = now
    BY <1>5 DEF EvictExpired
  <2> QED BY <1>0, <2>1, <2>2, ShrinkOk DEF PoolTypeOK
<1>6. CASE Tick
  BY <1>0, <1>1, <1>6 DEF Tick, PoolTypeOK
<1>7. CASE UNCHANGED poolvars
  BY <1>0, <1>1, <1>7 DEF poolvars, PoolTypeOK
<1> QED BY <1>2, <1>3, <1>4, <1>5, <1>6, <1>7 DEF PoolNext

\* The pool's count is what it holds, and it stays within its limits, whatever
\* insertions, removals, selections, expiries and ties occur (mempool/mod.rs).
THEOREM PoolSound == PoolSpec => [](CountExact /\ PoolWithinLimits)
<1>1. IInv => CountExact /\ PoolWithinLimits
  BY DEF IInv
<1> QED BY InitOk, StepOk, <1>1, PTL DEF PoolSpec

-----------------------------------------------------------------------------
(* What a selection takes.                                                 *)

LEMMA UpToHas ==
  ASSUME NEW n \in Nat
  PROVE  IsFiniteSet(1..n) /\ Cardinality(1..n) = n
<1>1. /\ IsFiniteSet(1..n)
      /\ Cardinality(1..n) = IF 1 > n THEN 0 ELSE n - 1 + 1
  BY FS_Interval
<1> QED BY <1>1

\* A sorted pool lists every transaction once.
LEMMA SortedOnce ==
  ASSUME IInv, NEW o \in SortedPools
  PROVE  /\ Cardinality(txs) \in Nat
         /\ o \in [1..Cardinality(txs) -> txs]
         /\ \A t \in txs : \E i \in 1..Cardinality(txs) : o[i] = t
         /\ \A i, j \in 1..Cardinality(txs) : o[i] = o[j] => i = j
<1>1. PICK n \in Nat : n = Cardinality(txs)
  BY FS_CardinalityType DEF IInv, PoolTypeOK
<1>2. o \in [1..n -> txs] /\ \A t \in txs : \E i \in 1..n : o[i] = t
  BY <1>1 DEF SortedPools
<1>3. o \in Surjection(1..n, txs)
  BY <1>2 DEF Surjection
<1>4. IsFiniteSet(1..n) /\ Cardinality(1..n) = Cardinality(txs)
  BY <1>1, UpToHas
<1>5. o \in Injection(1..n, txs)
  BY <1>3, <1>4, FS_SurjSameCardinalityImpliesInj
<1> QED BY <1>1, <1>2, <1>5 DEF Injection, IsInjective

\* The pool already holds no more of a sender than the cap, so the cap skips nobody.
LEMMA NobodySkipped ==
  ASSUME IInv, NEW o \in SortedPools
  PROVE  Eligible(o) = 1..Cardinality(txs)
<1>0. PICK n \in Nat : n = Cardinality(txs) /\ DOMAIN o = 1..n /\ o \in [1..n -> txs]
                       /\ \A i, j \in 1..n : o[i] = o[j] => i = j
  BY SortedOnce
<1>1. ASSUME NEW i \in 1..n
      PROVE  Cardinality({j \in 1..(i - 1) : o[j].sender = o[i].sender}) < per_sender_cap
  <2> DEFINE before == {j \in 1..(i - 1) : o[j].sender = o[i].sender}
             s == o[i].sender
             own == OfSender(txs, s)
             f == [j \in before |-> o[j]]
  <2>1. o[i] \in txs /\ s \in Senders
    BY <1>0 DEF IInv, PoolTypeOK, PoolTx
  <2>2. before \subseteq 1..n /\ i \notin before
    BY <1>0
  <2>3. own \in SUBSET txs /\ o[i] \in own
    BY <2>1 DEF OfSender
  <2>4. IsFiniteSet(own) /\ Cardinality(own) \in Nat /\ Cardinality(own) <= per_sender_cap
    <3>1. IsFiniteSet(txs) /\ Cardinality(own) <= per_sender_cap
      BY <2>1 DEF IInv, PoolTypeOK, PoolWithinLimits
    <3> HIDE DEF own
    <3> QED BY <2>3, <3>1, FS_Subset, FS_CardinalityType
  <2>5. f \in [before -> own \ {o[i]}]
    BY <1>0, <2>2 DEF OfSender
  <2>6. f \in Injection(before, own \ {o[i]})
    BY <1>0, <2>2, <2>5 DEF Injection, IsInjective
  <2> HIDE DEF before, own, f
  <2>7. IsFiniteSet(own \ {o[i]}) /\ Cardinality(own \ {o[i]}) = Cardinality(own) - 1
    BY <2>3, <2>4, FS_RemoveElement
  <2>8. IsFiniteSet(before) /\ Cardinality(before) <= Cardinality(own \ {o[i]})
    BY <2>6, <2>7, FS_Injection
  <2>9. Cardinality(before) \in Nat
    BY <2>8, FS_CardinalityType
  <2>10. Cardinality(before) < per_sender_cap
    BY <2>4, <2>7, <2>8, <2>9, ConfigAssumption
  <2> QED BY <2>10 DEF before
<1> QED BY <1>0, <1>1 DEF Eligible

\* So a selection takes the first MAX_SELECT, or everything.
LEMMA PickedFirst ==
  ASSUME IInv, NEW o \in SortedPools, NEW m \in Nat,
         m = IF MAX_SELECT <= Cardinality(txs) THEN MAX_SELECT ELSE Cardinality(txs)
  PROVE  Picked(o, MAX_SELECT) = 1..m
<1>0. PICK n \in Nat : n = Cardinality(txs) /\ Eligible(o) = 1..n
  BY SortedOnce, NobodySkipped
<1>1. ASSUME NEW i \in 1..n PROVE Cardinality({j \in 1..n : j < i}) = i - 1
  <2>1. {j \in 1..n : j < i} = 1..(i - 1) /\ i - 1 \in Nat
    BY <1>0
  <2> QED BY <2>1, UpToHas
<1>2. Picked(o, MAX_SELECT) = {i \in 1..n : i - 1 < MAX_SELECT}
  BY <1>0, <1>1 DEF Picked
<1> QED BY <1>0, <1>2, ConfigAssumption

LEMMA ListedInOrder ==
  ASSUME NEW o, NEW m \in Nat
  PROVE  InOrder(o, 1..m) = [k \in 1..m |-> o[k]]
<1> DEFINE at(k) == CHOOSE i \in 1..m : Cardinality({j \in 1..m : j < i}) = k - 1
<1>1. ASSUME NEW i \in 1..m PROVE Cardinality({j \in 1..m : j < i}) = i - 1
  <2>1. {j \in 1..m : j < i} = 1..(i - 1) /\ i - 1 \in Nat
    OBVIOUS
  <2> QED BY <2>1, UpToHas
<1>2. ASSUME NEW k \in 1..m PROVE at(k) = k
  <2>1. \A i \in 1..m : Cardinality({j \in 1..m : j < i}) = k - 1 <=> i = k
    BY <1>1
  <2> QED BY <2>1
<1>3. Cardinality(1..m) = m
  BY UpToHas
<1>4. InOrder(o, 1..m) = [k \in 1..Cardinality(1..m) |-> o[at(k)]]
  BY DEF InOrder
<1> HIDE DEF at
<1> QED BY <1>2, <1>3, <1>4

LEMMA SelectBest ==
  ASSUME IInv, Select(MAX_SELECT)
  PROVE  /\ \A left \in txs', taken \in txs \ txs' : NoWorse(taken, left)
         /\ \A i, j \in DOMAIN batch' : i < j =>
              /\ NoWorse(batch'[i], batch'[j])
              /\ batch'[i].sender = batch'[j].sender /\ NoWorse(batch'[j], batch'[i])
                   => batch'[i].nonce < batch'[j].nonce
         /\ txs' # {} => Cardinality(txs \ txs') = MAX_SELECT
<1>1. PICK o \in SortedPools :
        /\ txs' = txs \ {o[i] : i \in Picked(o, MAX_SELECT)}
        /\ batch' = InOrder(o, Picked(o, MAX_SELECT))
  BY DEF Select
<1>2. PICK n \in Nat :
        /\ n = Cardinality(txs) /\ DOMAIN o = 1..n /\ o \in [1..n -> txs]
        /\ \A t \in txs : \E i \in 1..n : o[i] = t
        /\ \A i, j \in 1..n : o[i] = o[j] => i = j
  BY SortedOnce
<1>3. PICK m \in Nat : m = IF MAX_SELECT <= n THEN MAX_SELECT ELSE n
  BY ConfigAssumption
<1>4. m <= n /\ Picked(o, MAX_SELECT) = 1..m
  BY <1>2, <1>3, PickedFirst, ConfigAssumption
<1>5. ASSUME NEW i \in 1..n, NEW j \in 1..n, i < j
      PROVE  /\ NoWorse(o[i], o[j])
             /\ o[i].sender = o[j].sender /\ NoWorse(o[j], o[i]) => o[i].nonce < o[j].nonce
  <2>1. ~Before(o[j], o[i])
    BY <1>2, <1>5 DEF SortedPools
  <2>2. /\ o[i] \in txs /\ o[j] \in txs /\ o[i] # o[j]
        /\ o[i].fee \in Nat /\ o[j].fee \in Nat
        /\ o[i].nonce \in Nat /\ o[j].nonce \in Nat
        /\ o[i].received_at \in Nat /\ o[j].received_at \in Nat
    BY <1>2, <1>5 DEF IInv, PoolTypeOK, PoolTx
  <2>3. o[i].sender = o[j].sender => o[i].nonce # o[j].nonce
    BY <2>2 DEF IInv, PoolWithinLimits
  <2> QED BY <2>1, <2>2, <2>3 DEF Before, NoWorse
<1> DEFINE gone == {o[i] : i \in 1..m}
<1>6. txs' = txs \ gone /\ txs \ txs' = gone
  BY <1>1, <1>2, <1>4
<1>7. ASSUME NEW left \in txs', NEW taken \in txs \ txs' PROVE NoWorse(taken, left)
  <2>1. PICK i \in 1..m : taken = o[i]
    BY <1>6
  <2>2. PICK j \in 1..n : left = o[j]
    BY <1>2, <1>6
  <2>3. j \notin 1..m
    BY <1>6, <2>2
  <2>4. i \in 1..n /\ i < j
    BY <1>4, <2>3
  <2> QED BY <1>5, <2>1, <2>2, <2>4
<1>8. batch' = [k \in 1..m |-> o[k]]
  BY <1>1, <1>4, ListedInOrder
<1>9. ASSUME NEW i \in DOMAIN batch', NEW j \in DOMAIN batch', i < j
      PROVE  /\ NoWorse(batch'[i], batch'[j])
             /\ batch'[i].sender = batch'[j].sender /\ NoWorse(batch'[j], batch'[i])
                  => batch'[i].nonce < batch'[j].nonce
  <2>1. i \in 1..n /\ j \in 1..n /\ batch'[i] = o[i] /\ batch'[j] = o[j]
    BY <1>4, <1>8
  <2> QED BY <1>5, <1>9, <2>1
<1>10. ASSUME txs' # {} PROVE Cardinality(txs \ txs') = MAX_SELECT
  <2>1. m = MAX_SELECT
    <3>1. PICK t \in txs : t \notin gone
      BY <1>6, <1>10
    <3>2. PICK i \in 1..n : o[i] = t
      BY <1>2
    <3>3. i \notin 1..m
      BY <3>1, <3>2
    <3> QED BY <1>3, <3>3
  <2> DEFINE f == [i \in 1..m |-> o[i]]
  <2>2. f \in [1..m -> gone] /\ \A t \in gone : \E i \in 1..m : f[i] = t
    OBVIOUS
  <2>3. \A i, j \in 1..m : f[i] = f[j] => i = j
    BY <1>2, <1>4
  <2> HIDE DEF gone, f
  <2>4. f \in Bijection(1..m, gone)
    BY <2>2, <2>3 DEF Bijection, Injection, Surjection, IsInjective
  <2>5. ExistsBijection(1..m, gone)
    BY <2>4 DEF ExistsBijection
  <2>6. Cardinality(gone) = m
    BY <2>5, UpToHas, FS_Bijection
  <2> QED BY <1>6, <2>1, <2>6
<1> QED BY <1>7, <1>9, <1>10

\* For every configuration and every tie: among senders with one transaction each select
\* takes and lists the best first, a sender's nonces come in order unless fee or arrival
\* say otherwise, and nothing is left while the block has room, so the cap select applies
\* again per sender never skips a transaction (Mempool::select, cmp_priority).
THEOREM SelectTakesBestHolds == PoolSpec => SelectTakesBest
<1> DEFINE Best ==
      /\ \A left \in txs', taken \in txs \ txs' :
           Alone(left) /\ Alone(taken) => NoWorse(taken, left)
      /\ \A i, j \in DOMAIN batch' : i < j =>
           /\ Alone(batch'[i]) /\ Alone(batch'[j]) => NoWorse(batch'[i], batch'[j])
           /\ batch'[i].sender = batch'[j].sender /\ NoWorse(batch'[j], batch'[i])
                => batch'[i].nonce < batch'[j].nonce
      /\ txs' # {} => Cardinality(txs \ txs') = MAX_SELECT
<1>1. ASSUME IInv, Select(MAX_SELECT) PROVE Best
  BY <1>1, SelectBest
<1>2. IInv /\ [PoolNext]_poolvars => [Select(MAX_SELECT) => Best]_poolvars
  BY <1>1
<1> QED BY <1>2, InitOk, StepOk, PTL DEF PoolSpec, SelectTakesBest
=============================================================================
