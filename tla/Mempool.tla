------------------------------ MODULE Mempool -------------------------------
(***************************************************************************)
(* The transaction pool (mempool/mod.rs, mempool/ordering.rs).  REST       *)
(* handlers insert, the consensus loop selects; every operation runs under *)
(* the pool's write lock, so each is one action.                           *)
(*                                                                         *)
(* Simplifications: the map sender -> nonce -> PoolTx is the set of its    *)
(* values (an empty inner map reads like an absent one); Instant is the    *)
(* bounded counter `now`, which need not move between two insertions.      *)
(***************************************************************************)
EXTENDS Naturals, FiniteSets

CONSTANTS
  Senders,
  Submissions,                       \* transactions clients submit
  max_size, min_fee, per_sender_cap, ttl,
  MAX_SELECT,                        \* transactions asked for per block
  MaxTime                            \* bound: clock ticks explored

Tx == [sender : Senders, nonce : Nat, fee : Nat]
PoolTx == [sender : Senders, nonce : Nat, fee : Nat, received_at : Nat]

ASSUME ConfigAssumption ==
  /\ Submissions \subseteq Tx
  /\ max_size \in Nat /\ min_fee \in Nat /\ per_sender_cap \in Nat
  /\ ttl \in Nat /\ MAX_SELECT \in Nat /\ MaxTime \in Nat

VARIABLES
  txs,      \* the pending transactions
  count,    \* the pool's own count of them
  now,
  batch     \* what the last select returned, in order

poolvars == <<txs, count, now, batch>>

PoolInit == txs = {} /\ count = 0 /\ now = 0 /\ batch = <<>>

-----------------------------------------------------------------------------
OfSender(pool, s) == {t \in pool : t.sender = s}

\* Mutant of Admissible: the sender's cap is off by one.
AdmissibleOneMore(tx) ==
  /\ tx.fee >= min_fee
  /\ count < max_size
  /\ ~\E t \in txs : t.sender = tx.sender /\ t.nonce = tx.nonce
  /\ Cardinality(OfSender(txs, tx.sender)) <= per_sender_cap

Admissible(tx) ==
  /\ tx.fee >= min_fee
  /\ count < max_size
  /\ ~\E t \in txs : t.sender = tx.sender /\ t.nonce = tx.nonce
  /\ Cardinality(OfSender(txs, tx.sender)) < per_sender_cap

Received(tx) ==
  [sender |-> tx.sender, nonce |-> tx.nonce, fee |-> tx.fee, received_at |-> now]

Insert(tx) ==
  /\ Admissible(tx)
  /\ txs' = txs \cup {Received(tx)}
  /\ count' = count + 1
  /\ UNCHANGED <<now, batch>>

Remove(t) ==
  /\ t \in txs
  /\ txs' = txs \ {t}
  /\ count' = count - 1
  /\ UNCHANGED <<now, batch>>

-----------------------------------------------------------------------------
(* Selection.                                                              *)

\* Mutant of Before: time decides before the fee.
BeforeByTime(a, b) ==
  \/ a.received_at < b.received_at
  \/ a.received_at = b.received_at /\ a.fee > b.fee
  \/ a.received_at = b.received_at /\ a.fee = b.fee /\ a.nonce < b.nonce

\* cmp_priority: fee descending, then arrival, then nonce.
Before(a, b) ==
  \/ a.fee > b.fee
  \/ a.fee = b.fee /\ a.received_at < b.received_at
  \/ a.fee = b.fee /\ a.received_at = b.received_at /\ a.nonce < b.nonce

\* The sorted pools: the sort is stable over a HashMap's arbitrary order, so
\* transactions of different senders that tie may come out either way.
SortedPools ==
  {o \in [1..Cardinality(txs) -> txs] :
     /\ \A t \in txs : \E i \in DOMAIN o : o[i] = t
     /\ \A i, j \in DOMAIN o : i < j => ~Before(o[j], o[i])}

\* Not skipped by the per-sender cap.
Eligible(o) ==
  {i \in DOMAIN o :
     Cardinality({j \in 1..(i - 1) : o[j].sender = o[i].sender}) < per_sender_cap}

\* The first max_count positions that are not skipped.
Picked(o, max_count) ==
  {i \in Eligible(o) : Cardinality({j \in Eligible(o) : j < i}) < max_count}

InOrder(o, picked) ==
  [k \in 1..Cardinality(picked) |->
     o[CHOOSE i \in picked : Cardinality({j \in picked : j < i}) = k - 1]]

Select(max_count) ==
  \E o \in SortedPools :
    LET taken == {o[i] : i \in Picked(o, max_count)} IN
    /\ txs' = txs \ taken
    /\ count' = count - Cardinality(taken)
    /\ batch' = InOrder(o, Picked(o, max_count))
    /\ UNCHANGED now

-----------------------------------------------------------------------------
Expired == {t \in txs : now - t.received_at >= ttl}

EvictExpired ==
  /\ txs' = txs \ Expired
  /\ count' = count - Cardinality(Expired)
  /\ UNCHANGED <<now, batch>>

Tick ==
  /\ now < MaxTime
  /\ now' = now + 1
  /\ UNCHANGED <<txs, count, batch>>

PoolNext ==
  \/ \E tx \in Submissions : Insert(tx)
  \/ \E t \in txs : Remove(t)
  \/ Select(MAX_SELECT)
  \/ EvictExpired
  \/ Tick

PoolSpec == PoolInit /\ [][PoolNext]_poolvars

-----------------------------------------------------------------------------
(* Properties.                                                             *)

PoolTypeOK ==
  /\ txs \subseteq PoolTx
  /\ IsFiniteSet(txs)
  /\ count \in Nat
  /\ now \in Nat
  /\ \A t \in txs : t.received_at <= now

\* insert, remove, select and evict_expired each keep the count by themselves;
\* they agree with the pool, so no subtraction underflows and max_size is a
\* limit on what is really held.
CountExact == count = Cardinality(txs)

\* Whatever the operations, the pool stays within its configuration, and a
\* sender has one transaction per nonce.
PoolWithinLimits ==
  /\ Cardinality(txs) <= max_size
  /\ \A s \in Senders : Cardinality(OfSender(txs, s)) <= per_sender_cap
  /\ \A t, u \in txs : t.sender = u.sender /\ t.nonce = u.nonce => t = u

\* The highest fee first, and the oldest first among equal fees.
NoWorse(t, u) ==
  \/ t.fee > u.fee
  \/ t.fee = u.fee /\ t.received_at <= u.received_at

\* The only transaction of its sender: no nonce order binds it.
Alone(t) == \A u \in txs : u.sender = t.sender => u = t

\* Among senders with one transaction each a block gets the best, best first;
\* a sender's own transactions come in nonce order wherever fee and arrival do
\* not say otherwise; and something is left only when the block is full, so the
\* cap that select applies again per sender skips nobody (cmp_priority,
\* Mempool::select).
SelectTakesBest ==
  [][Select(MAX_SELECT) =>
       /\ \A left \in txs', taken \in txs \ txs' :
            Alone(left) /\ Alone(taken) => NoWorse(taken, left)
       /\ \A i, j \in DOMAIN batch' : i < j =>
            /\ Alone(batch'[i]) /\ Alone(batch'[j]) => NoWorse(batch'[i], batch'[j])
            /\ batch'[i].sender = batch'[j].sender /\ NoWorse(batch'[j], batch'[i])
                 => batch'[i].nonce < batch'[j].nonce
       /\ txs' # {} => Cardinality(txs \ txs') = MAX_SELECT]_poolvars

\* What the plan for the pool asks of a block: a sender's transactions in strict
\* nonce order.  select sorts by fee first and does not keep to it.
SelectInNonceOrder ==
  [][Select(MAX_SELECT) =>
       \A i, j \in DOMAIN batch' :
         i < j /\ batch'[i].sender = batch'[j].sender
           => batch'[i].nonce < batch'[j].nonce]_poolvars
=============================================================================
