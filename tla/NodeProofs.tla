----------------------------- MODULE NodeProofs -----------------------------
(***************************************************************************)
(* The chain on disk, the roots in its headers, what gossip was given and  *)
(* what wallets were told, for every number of restarts, every height and  *)
(* every place a process may die at, first of Node and then of the node    *)
(* with its servers (Client).                                              *)
(***************************************************************************)
EXTENDS Client, SumsProofs, FiniteSetTheorems

-----------------------------------------------------------------------------
(* The inductive invariant.                                                *)

\* Everything but the pool, which holds other transactions when wallets fill it.
ShapeOk ==
  /\ accounts_table \subseteq Senders
  /\ genesis_loaded \in BOOLEAN
  /\ stored \subseteq Heights
  /\ DOMAIN blocks = Heights
  /\ status \in {"down", "running", "fatal"}
  /\ run \in Nat
  /\ current_height \in Nat
  /\ pc \in {"idle", "selected", "executed", "stored"}
  /\ db_failed \in BOOLEAN

\* Where produce_block stands with respect to the chain.  A block under way is
\* the next one, on a parent that is stored; until the storage fails the loop's
\* height is stored too, so nothing published can be overwritten.
LoopOk ==
  /\ \A h \in stored : h <= current_height + (IF pc = "stored" THEN 1 ELSE 0)
  /\ pc # "idle" => current_height \in stored /\ current_height + 1 \in Heights
  /\ pc \in {"executed", "stored"} =>
       /\ block.height = current_height + 1
       /\ block.parent = blocks[current_height].hash
  /\ pc = "stored" => block.height \in stored /\ blocks[block.height] = block
  /\ ~db_failed => current_height \in stored

PublishedOk == \A b \in published : b.height \in stored /\ blocks[b.height] = b

IInv ==
  /\ ShapeOk
  /\ ChainLinked
  /\ PublishedOk
  /\ genesis_loaded => 0 \in stored
  /\ status = "running" => genesis_loaded /\ LoopOk

LEMMA InitOk == Init => IInv
BY NodeAssumption DEF Init, IInv, ShapeOk, ChainLinked, PublishedOk, Heights

\* The highest stored block, when there is one.
LEMMA LatestHeight ==
  ASSUME NEW m \in stored, stored \subseteq Nat, \A h \in stored : h <= m
  PROVE  load_latest_height = m
<1> DEFINE c == CHOOSE h \in stored : \A g \in stored : g <= h
<1>1. c \in stored /\ \A g \in stored : g <= c
  OBVIOUS
<1>2. load_latest_height = c
  BY DEF load_latest_height
<1> HIDE DEF c
<1>3. c <= m /\ m <= c /\ c \in Nat /\ m \in Nat
  BY <1>1
<1> QED BY <1>2, <1>3

\* Steps that leave the database, gossip and the loop's position alone.
LEMMA QuietOk ==
  ASSUME IInv,
         stored' = stored, blocks' = blocks, published' = published,
         genesis_loaded' = genesis_loaded, status' = status,
         current_height' = current_height, pc' = pc, block' = block,
         db_failed' = db_failed, ShapeOk'
  PROVE  IInv'
BY DEF IInv, ChainLinked, PublishedOk, LoopOk

LEMMA GenesisOk ==
  ASSUME IInv, (\E a \in Senders : LoadGenesisAccount(a)) \/ LoadGenesisBlock \/ MarkGenesisLoaded
  PROVE  IInv'
<1>1. ASSUME NEW a \in Senders, LoadGenesisAccount(a) PROVE IInv'
  <2>1. ShapeOk'
    BY <1>1 DEF IInv, ShapeOk, LoadGenesisAccount
  <2> QED BY <1>1, <2>1, QuietOk DEF LoadGenesisAccount
<1>2. CASE LoadGenesisBlock
  <2>0. /\ status = "down" /\ ~genesis_loaded /\ 0 \notin stored
        /\ stored' = stored \cup {0} /\ blocks' = [blocks EXCEPT ![0] = GenesisBlock]
        /\ UNCHANGED <<genesis_loaded, status, published>>
    BY <1>2 DEF LoadGenesisBlock
  <2>1. stored = {} /\ 0 \in Heights
    BY <2>0, NodeAssumption DEF IInv, ShapeOk, ChainLinked, Heights
  <2>2. published = {}
    BY <2>1 DEF IInv, PublishedOk
  <2>3. ShapeOk'
    BY <1>2, <2>1 DEF IInv, ShapeOk, LoadGenesisBlock
  <2>4. stored' = {0} /\ blocks'[0] = GenesisBlock
    BY <2>0, <2>1 DEF IInv, ShapeOk
  <2>5. ChainLinked'
    BY <2>4 DEF ChainLinked, GenesisBlock
  <2> QED BY <2>0, <2>2, <2>3, <2>5 DEF IInv, PublishedOk
<1>3. CASE MarkGenesisLoaded
  <2>1. ShapeOk'
    BY <1>3 DEF IInv, ShapeOk, MarkGenesisLoaded
  <2> QED BY <1>3, <2>1 DEF MarkGenesisLoaded, IInv, ChainLinked, PublishedOk
<1> QED BY <1>1, <1>2, <1>3

LEMMA StartOk == ASSUME IInv, Start PROVE IInv'
<1>0. /\ genesis_loaded /\ 0 \in stored /\ stored \subseteq Heights
      /\ pc' = "idle" /\ db_failed' = FALSE /\ current_height' = load_latest_height
      /\ UNCHANGED <<accounts_table, genesis_loaded, stored, blocks, published>>
  BY DEF Start, NoProcess, IInv, ShapeOk
<1>1. \E m \in stored : \A h \in stored : h <= m
  <2> DEFINE Above == {k \in 0..MaxHeight : \A h \in stored : h <= k}
  <2>1. MaxHeight \in Above
    BY <1>0, NodeAssumption DEF Heights
  <2>2. PICK m \in Above : \A k \in Above : m <= k
    <3>1. Above \in SUBSET Nat /\ Above # {}
      BY <2>1, NodeAssumption
    <3> HIDE DEF Above
    <3> QED BY <3>1, LeastNatural
  <2>3. m \in stored
    <3>1. CASE m = 0
      BY <1>0, <3>1
    <3>2. CASE m # 0
      <4>1. m - 1 \in 0..MaxHeight /\ m - 1 \notin Above
        BY <2>2, <3>2, NodeAssumption
      <4>2. PICK h \in stored : ~(h <= m - 1)
        BY <4>1
      <4>3. h <= m /\ h \in Nat
        BY <1>0, <2>2 DEF Heights
      <4> QED BY <2>2, <4>2, <4>3
    <3> QED BY <3>1, <3>2
  <2> QED BY <2>2, <2>3
<1>2. PICK m \in stored : \A h \in stored : h <= m
  BY <1>1
<1>3. current_height' = m
  BY <1>0, <1>2, LatestHeight DEF Heights
<1>4. ShapeOk'
  <2>1. status' \in {"running", "fatal"} /\ run' = run + 1
    BY DEF Start
  <2>2. current_height' \in Nat
    BY <1>0, <1>2, <1>3, NodeAssumption DEF Heights
  <2>3. run' \in Nat
    BY <2>1 DEF IInv, ShapeOk
  <2> QED BY <1>0, <2>1, <2>2, <2>3 DEF IInv, ShapeOk
<1>5. LoopOk'
  BY <1>0, <1>2, <1>3, <1>4 DEF LoopOk, ShapeOk, Heights
<1> QED BY <1>0, <1>4, <1>5 DEF IInv, ChainLinked, PublishedOk
LEMMA DieOk == ASSUME IInv, Die PROVE IInv'
<1>1. ShapeOk'
  BY DEF IInv, ShapeOk, Die, NoProcess
<1>2. UNCHANGED <<genesis_loaded, stored, blocks, published>> /\ status' = "down"
  BY DEF Die
<1> QED BY <1>1, <1>2 DEF IInv, ChainLinked, PublishedOk

LEMMA SubmitOk == ASSUME IInv, NEW t \in Txs, Submit(t) PROVE IInv'
<1>1. ShapeOk'
  BY DEF IInv, ShapeOk, Submit
<1> QED BY <1>1, QuietOk DEF Submit

-----------------------------------------------------------------------------
(* The consensus loop.                                                     *)

LEMMA WaitSlotOk == ASSUME IInv, WaitSlot PROVE IInv'
<1>1. ShapeOk'
  BY DEF IInv, ShapeOk, WaitSlot
<1> QED BY <1>1, QuietOk DEF WaitSlot

\* A slot is missed in a process whose storage has failed it, now or before.
LEMMA MissSlotFailed == ASSUME IInv, MissSlot PROVE db_failed' = TRUE
<1>1. CASE current_height \notin stored /\ db_failed' = db_failed
  <2>1. db_failed
    BY <1>1 DEF IInv, LoopOk, MissSlot
  <2> QED BY <1>1, <2>1 DEF IInv, ShapeOk
<1> QED BY <1>1 DEF MissSlot

LEMMA MissSlotOk == ASSUME IInv, MissSlot PROVE IInv'
<1>0. /\ status = "running" /\ pc = "idle"
      /\ current_height' = current_height + 1
      /\ UNCHANGED <<genesis_loaded, stored, blocks, status, pc, block, published>>
  BY DEF MissSlot
<1>2. db_failed' = TRUE
  BY MissSlotFailed
<1>1. ShapeOk'
  BY <1>2 DEF IInv, ShapeOk, MissSlot
<1>3. \A h \in stored : h <= current_height'
  BY <1>0 DEF IInv, LoopOk, ShapeOk, Heights
<1>4. LoopOk'
  BY <1>0, <1>1, <1>2, <1>3 DEF LoopOk, ShapeOk
<1> QED BY <1>0, <1>1, <1>4 DEF IInv, ChainLinked, PublishedOk

LEMMA BeginBlockOk == ASSUME IInv, BeginBlock PROVE IInv'
<1>0. /\ status = "running" /\ pc = "idle" /\ current_height \in stored
      /\ current_height + 1 <= MaxHeight /\ pc' = "selected"
      /\ UNCHANGED <<genesis_loaded, stored, blocks, status, current_height, block,
                     published, db_failed>>
  BY DEF BeginBlock
<1>1. ShapeOk'
  BY <1>0 DEF IInv, ShapeOk, BeginBlock
<1>2. current_height + 1 \in Heights
  BY <1>0, NodeAssumption DEF IInv, ShapeOk, Heights
<1>3. LoopOk'
  BY <1>0, <1>2 DEF IInv, LoopOk
<1> QED BY <1>0, <1>1, <1>3 DEF IInv, ChainLinked, PublishedOk

LEMMA ExecuteBlockOk == ASSUME IInv, ExecuteBlock PROVE IInv'
<1>0. /\ status = "running" /\ pc = "selected" /\ pc' = "executed"
      /\ block'.height = current_height + 1 /\ block'.parent = blocks[current_height].hash
      /\ UNCHANGED <<genesis_loaded, stored, blocks, status, current_height,
                     published, db_failed>>
  BY DEF ExecuteBlock, BuildBlock
<1>1. ShapeOk'
  BY <1>0 DEF IInv, ShapeOk, ExecuteBlock
<1>2. LoopOk'
  BY <1>0 DEF IInv, LoopOk
<1> QED BY <1>0, <1>1, <1>2 DEF IInv, ChainLinked, PublishedOk

\* The block goes on top: nothing stored is overwritten.
LEMMA StoreBlockOk == ASSUME IInv, StoreBlock PROVE IInv'
<1> DEFINE top == current_height + 1
<1>0. /\ status = "running" /\ pc = "executed" /\ pc' = "stored"
      /\ stored' = stored \cup {block.height}
      /\ blocks' = [blocks EXCEPT ![block.height] = block]
      /\ UNCHANGED <<genesis_loaded, status, current_height, block, published, db_failed>>
  BY DEF StoreBlock
<1>1. /\ block.height = top /\ block.parent = blocks[current_height].hash
      /\ current_height \in stored /\ top \in Heights
      /\ \A h \in stored : h <= current_height
      /\ stored \subseteq Nat /\ current_height \in Nat /\ DOMAIN blocks = Heights
  BY <1>0 DEF IInv, LoopOk, ShapeOk, Heights
<1>2. top \notin stored /\ stored' = stored \cup {top}
  BY <1>0, <1>1
<1>3. /\ blocks'[top] = block
      /\ \A h \in stored : blocks'[h] = blocks[h]
  BY <1>0, <1>1, <1>2 DEF IInv, ShapeOk
<1>4. ShapeOk'
  BY <1>0, <1>1, <1>2 DEF IInv, ShapeOk, StoreBlock
<1>5. ChainLinked'
  <2>1. \A h \in stored' : \A g \in 0..h : g \in stored'
    <3> SUFFICES ASSUME NEW h \in stored', NEW g \in 0..h PROVE g \in stored'
      OBVIOUS
    <3>1. CASE h \in stored
      BY <3>1, <1>2 DEF IInv, ChainLinked
    <3>2. CASE h = top
      <4>1. g = top \/ g \in 0..current_height
        BY <3>2, <1>1
      <4> QED BY <4>1, <1>1, <1>2 DEF IInv, ChainLinked
    <3> QED BY <3>1, <3>2, <1>2
  <2>2. ASSUME NEW h \in stored' 
        PROVE  blocks'[h].height = h /\ (h > 0 => blocks'[h].parent = blocks'[h - 1].hash)
    <3>1. CASE h \in stored
      <4>1. h > 0 => h - 1 \in stored
        BY <3>1, <1>1 DEF IInv, ChainLinked
      <4> QED BY <3>1, <4>1, <1>3 DEF IInv, ChainLinked
    <3>2. CASE h = top
      <4>1. h - 1 = current_height /\ blocks'[current_height] = blocks[current_height]
        BY <3>2, <1>1, <1>3
      <4> QED BY <3>2, <4>1, <1>1, <1>3
    <3> QED BY <3>1, <3>2, <1>2
  <2> QED BY <2>1, <2>2 DEF ChainLinked
<1>6. PublishedOk'
  BY <1>0, <1>2, <1>3 DEF IInv, PublishedOk
<1>7. LoopOk'
  <2>1. blocks'[current_height] = blocks[current_height]
    BY <1>1, <1>3
  <2>2. \A h \in stored' : h <= current_height' + 1
    <3>1. \A h \in stored : h \in Nat /\ h <= current_height
      BY <1>1
    <3>2. current_height' = current_height /\ current_height \in Nat
      BY <1>0, <1>1
    <3> QED BY <1>2, <3>1, <3>2
  <2>3. current_height' + 1 \in Heights
    BY <1>0, <1>1
  <2> QED BY <1>0, <1>1, <1>2, <1>3, <2>1, <2>2, <2>3 DEF LoopOk
<1> QED BY <1>0, <1>2, <1>4, <1>5, <1>6, <1>7 DEF IInv

LEMMA StoreBlockFailsOk == ASSUME IInv, StoreBlockFails PROVE IInv'
<1>0. /\ status = "running" /\ pc = "executed" /\ pc' = "idle" /\ db_failed' = TRUE
      /\ current_height' = block.height
      /\ UNCHANGED <<genesis_loaded, stored, blocks, status, block, published>>
  BY DEF StoreBlockFails
<1>1. block.height = current_height + 1 /\ current_height \in Nat
  BY <1>0 DEF IInv, LoopOk, ShapeOk
<1>2. ShapeOk'
  BY <1>0, <1>1 DEF IInv, ShapeOk, StoreBlockFails
<1>3. \A h \in stored' : h <= current_height'
  BY <1>0, <1>1 DEF IInv, LoopOk, ShapeOk, Heights
<1>4. LoopOk'
  BY <1>0, <1>2, <1>3 DEF LoopOk, ShapeOk
<1> QED BY <1>0, <1>2, <1>4 DEF IInv, ChainLinked, PublishedOk

LEMMA PublishBlockOk == ASSUME IInv, PublishBlock PROVE IInv'
<1>0. /\ status = "running" /\ pc = "stored" /\ pc' = "idle"
      /\ published' \in {published, published \cup {block}}
      /\ current_height' = block.height
      /\ UNCHANGED <<genesis_loaded, stored, blocks, status, block, db_failed>>
  BY DEF PublishBlock
<1>1. /\ block.height = current_height + 1 /\ current_height \in Nat
      /\ block.height \in stored /\ blocks[block.height] = block
      /\ \A h \in stored : h <= current_height + 1
  BY <1>0 DEF IInv, LoopOk, ShapeOk
<1>2. ShapeOk'
  BY <1>0, <1>1 DEF IInv, ShapeOk, PublishBlock
<1>3. LoopOk'
  BY <1>0, <1>1 DEF LoopOk
<1>4. PublishedOk'
  BY <1>0, <1>1 DEF IInv, PublishedOk
<1> QED BY <1>0, <1>2, <1>3, <1>4 DEF IInv, ChainLinked

LEMMA StepOk == IInv /\ [Next]_vars => IInv'
<1> SUFFICES ASSUME IInv, [Next]_vars PROVE IInv'
  OBVIOUS
<1>1. CASE UNCHANGED vars
  <2>1. ShapeOk'
    BY <1>1 DEF vars, IInv, ShapeOk
  <2> QED BY <1>1, <2>1, QuietOk DEF vars
<1>2. CASE Next
  BY <1>2, GenesisOk, StartOk, DieOk, SubmitOk, WaitSlotOk, MissSlotOk, BeginBlockOk,
     ExecuteBlockOk, StoreBlockOk, StoreBlockFailsOk, PublishBlockOk DEF Next, Produce
<1> QED BY <1>1, <1>2

-----------------------------------------------------------------------------
(* What follows.                                                           *)

LEMMA TopFollows == IInv => HeightIsTop
<1> SUFFICES ASSUME IInv, status = "running", ~db_failed
             PROVE  current_height + (IF pc = "stored" THEN 1 ELSE 0) = load_latest_height
  BY DEF HeightIsTop
<1> DEFINE m == current_height + (IF pc = "stored" THEN 1 ELSE 0)
<1>1. m \in stored /\ stored \subseteq Nat /\ \A h \in stored : h <= m
  BY DEF IInv, LoopOk, ShapeOk, Heights
<1> HIDE DEF m
<1>2. load_latest_height = m
  BY <1>1, LatestHeight
<1> QED BY <1>2 DEF m

\* The database always holds one linked chain, gossip is never given a block that is
\* not on it for good (so never two of one height), and the loop leaves its top only
\* after its storage failed a read or a put (produce_block, start_consensus_loop,
\* load_latest_height).
THEOREM ChainSound == Spec => [](ChainLinked /\ NoEquivocation /\ HeightIsTop)
<1>1. IInv => ChainLinked /\ NoEquivocation /\ HeightIsTop
  BY TopFollows DEF IInv, PublishedOk, NoEquivocation
<1> QED BY InitOk, StepOk, <1>1, PTL DEF Spec

\* Gossip never gets two blocks of one height, across restarts (produce_block,
\* load_latest_height): the part of ChainSound a peer relies on.
THEOREM NoEquivocationHolds == Spec => []NoEquivocation
BY ChainSound, PTL

\* Until a put, or the read of a parent, fails, the loop stands at the top of the chain
\* (start_consensus_loop, produce_block).
THEOREM HeightIsTopHolds == Spec => []HeightIsTop
BY ChainSound, PTL

-----------------------------------------------------------------------------
(* The node implements Chain.                                              *)

LEMMA RefinesInit == Init => Promise!Init
BY DEF Init, Promise!Init

LEMMA RefinesStutter ==
  ASSUME stored' = stored, blocks' = blocks, published' = published
  PROVE  UNCHANGED Promise!vars
BY DEF Promise!vars

LEMMA RefinesGenesis == ASSUME IInv, LoadGenesisBlock PROVE Promise!Extend
<1>0. /\ 0 \notin stored /\ stored' = stored \cup {0} /\ published' = published
      /\ blocks' = [blocks EXCEPT ![0] = GenesisBlock]
  BY DEF LoadGenesisBlock
<1>1. /\ stored = {} /\ stored' = {0} /\ blocks'[0] = GenesisBlock
      /\ published' = published
  <2>1. stored = {} /\ 0 \in Heights
    BY <1>0, NodeAssumption DEF IInv, ShapeOk, ChainLinked, Heights
  <2> QED BY <1>0, <2>1 DEF IInv, ShapeOk
<1>2. GenesisBlock.height = 0
  BY DEF GenesisBlock
<1>3. 0..(0 - 1) = {} /\ 0..0 = {0}
  OBVIOUS
<1> QED BY <1>1, <1>2, <1>3 DEF Promise!Extend, Promise!Grows

LEMMA RefinesStore == ASSUME IInv, StoreBlock PROVE Promise!Extend
<1> DEFINE n == current_height + 1
<1>1. /\ block.height = n /\ block.parent = blocks[current_height].hash
      /\ current_height \in stored /\ n \in Heights
      /\ \A h \in stored : h <= current_height
      /\ stored \subseteq Nat /\ current_height \in Nat /\ DOMAIN blocks = Heights
  BY DEF StoreBlock, IInv, LoopOk, ShapeOk, Heights
<1>2. /\ stored' = stored \cup {n} /\ blocks' = [blocks EXCEPT ![n] = block]
      /\ published' = published
  BY <1>1 DEF StoreBlock
<1>3. stored = 0..(n - 1)
  <2>1. stored \subseteq 0..(n - 1)
    BY <1>1
  <2>2. 0..(n - 1) \subseteq stored
    BY <1>1 DEF IInv, ChainLinked
  <2> QED BY <2>1, <2>2
<1>4. stored' = 0..n
  BY <1>1, <1>2, <1>3
<1>5. blocks'[n] = block /\ \A h \in stored : blocks'[h] = blocks[h]
  BY <1>1, <1>2, <1>3 DEF IInv, ShapeOk
<1>6. n \in stored' /\ n - 1 = current_height
  BY <1>1, <1>2
<1> DEFINE before == [h \in stored |-> blocks[h]]
           after == [h \in stored' |-> blocks'[h]]
<1>7. DOMAIN before = 0..(n - 1) /\ DOMAIN after = 0..n
  BY <1>3, <1>4
<1>8. \A h \in stored : h \in stored' /\ after[h] = before[h]
  BY <1>2, <1>5
<1>9. after[n] = block /\ before[n - 1] = blocks[current_height]
  BY <1>1, <1>5, <1>6
<1>10. n \in DOMAIN after
  BY <1>6
<1>11. \E k \in DOMAIN after : Promise!Grows(k)
  <2>1. ASSUME NEW k, k = n PROVE k \in DOMAIN after /\ Promise!Grows(k)
    <3>1. DOMAIN after = 0..k /\ DOMAIN before = 0..(k - 1)
      BY <2>1, <1>7
    <3> QED BY <2>1, <1>10, <3>1, <1>8, <1>9, <1>1 DEF Promise!Grows
  <2> QED BY <2>1
<1> QED BY <1>2, <1>11 DEF Promise!Extend

LEMMA RefinesPublish == ASSUME IInv, PublishBlock PROVE [Promise!Next]_(Promise!vars)
<1>1. /\ stored' = stored /\ blocks' = blocks
      /\ published' \in {published, published \cup {block}}
  BY DEF PublishBlock
<1>2. /\ block.height \in stored /\ blocks[block.height] = block
      /\ \A h \in stored : h <= block.height
  BY DEF PublishBlock, IInv, LoopOk
<1>3. CASE published' = published
  BY <1>1, <1>3, RefinesStutter
<1>4. CASE published' = published \cup {block}
  BY <1>1, <1>2, <1>4 DEF Promise!Next, Promise!Announce
<1> QED BY <1>1, <1>3, <1>4

LEMMA RefinesStep == IInv /\ [Next]_vars => [Promise!Next]_(Promise!vars)
<1> SUFFICES ASSUME IInv, [Next]_vars PROVE [Promise!Next]_(Promise!vars)
  OBVIOUS
<1>1. CASE UNCHANGED vars
  BY <1>1, RefinesStutter DEF vars
<1>2. CASE LoadGenesisBlock \/ StoreBlock
  BY <1>2, RefinesGenesis, RefinesStore DEF Promise!Next
<1>3. CASE PublishBlock
  BY <1>3, RefinesPublish
<1>4. CASE \/ (\E a \in Senders : LoadGenesisAccount(a)) \/ MarkGenesisLoaded
           \/ Start \/ Die \/ (\E t \in Txs : Submit(t))
  BY <1>4, RefinesStutter DEF LoadGenesisAccount, MarkGenesisLoaded, Start, Die, Submit
<1>5. CASE WaitSlot \/ MissSlot \/ BeginBlock \/ ExecuteBlock \/ StoreBlockFails
  BY <1>5, RefinesStutter DEF WaitSlot, MissSlot, BeginBlock, ExecuteBlock, StoreBlockFails
<1> QED BY <1>1, <1>2, <1>3, <1>4, <1>5 DEF Next, Produce

\* For every number of restarts, every height and every place the process may die at,
\* what the database and gossip hold is a behaviour of Chain: a chain that only grows at
\* its top and of which only the top is announced (load_genesis, produce_block, run_node).
THEOREM NodeImplementsChain == Spec => ImplementsChain
<1> QED BY RefinesInit, InitOk, StepOk, RefinesStep, PTL DEF Spec, ImplementsChain, Promise!Spec

-----------------------------------------------------------------------------
(* What the roots commit to.                                               *)

\* One step of History, and the recursion its definition promises.
Replayed(chain, g, h) ==
  IF h = 0 THEN EmptyState(Senders) ELSE ApplyBlock(AtEra(g[h - 1], h), chain[h].txs)

LEMMA HistoryRecursion ==
  ASSUME NEW chain, NEW n \in Nat
  PROVE  History(chain, n) = [h \in 0..n |-> Replayed(chain, History(chain, n), h)]
<1> DEFINE Defined == {m \in 0..n : \E g : g = [h \in 0..m |-> Replayed(chain, g, h)]}
<1>1. 0 \in Defined
  <2> DEFINE g == [h \in 0..0 |-> EmptyState(Senders)]
  <2>1. g = [h \in 0..0 |-> Replayed(chain, g, h)]
    BY DEF Replayed
  <2> HIDE DEF g
  <2> QED BY <2>1
<1>2. ASSUME NEW m \in 0..(n - 1), m \in Defined PROVE m + 1 \in Defined
  <2>1. PICK g : g = [h \in 0..m |-> Replayed(chain, g, h)]
    BY <1>2
  <2> DEFINE f == [h \in 0..(m + 1) |-> IF h = m + 1 THEN Replayed(chain, g, m + 1) ELSE g[h]]
  <2>2. ASSUME NEW h \in 0..(m + 1) PROVE f[h] = Replayed(chain, f, h)
    <3>1. h # 0 => h - 1 \in 0..m
      OBVIOUS
    <3>2. h # 0 => f[h - 1] = g[h - 1]
      BY <3>1
    <3>3. f[h] = Replayed(chain, g, h)
      <4>1. CASE h = m + 1
        BY <4>1
      <4>2. CASE h # m + 1
        <5>1. h \in 0..m
          BY <4>2
        <5>2. g[h] = Replayed(chain, g, h)
          BY <5>1, <2>1
        <5> QED BY <4>2, <5>2
      <4> QED BY <4>1, <4>2
    <3> HIDE DEF f
    <3> QED BY <3>2, <3>3 DEF Replayed
  <2>3. f = [h \in 0..(m + 1) |-> f[h]]
    OBVIOUS
  <2> HIDE DEF f
  <2>4. f = [h \in 0..(m + 1) |-> Replayed(chain, f, h)]
    BY <2>2, <2>3
  <2>5. m + 1 \in 0..n
    OBVIOUS
  <2> QED BY <2>4, <2>5
<1>3. \A m \in 0..n : m \in Defined
  <2> HIDE DEF Defined
  <2> QED BY <1>1, <1>2, UpTo
<1>4. \E g : g = [h \in 0..n |-> Replayed(chain, g, h)]
  <2>1. n \in Defined
    <3> HIDE DEF Defined
    <3> QED BY <1>3
  <2> QED BY <2>1, Zenon
<1> QED BY <1>4, Zenon DEF History, Replayed

\* A history depends on the blocks it covers, and on nothing above them.
LEMMA HistoryAgrees ==
  ASSUME NEW c, NEW d, NEW n \in Nat, NEW m \in Nat, n <= m,
         \A h \in 1..n : c[h] = d[h]
  PROVE  \A h \in 0..n : History(c, n)[h] = History(d, m)[h]
<1>1. PICK f : f = History(c, n)
  OBVIOUS
<1>2. PICK g : g = History(d, m)
  OBVIOUS
<1>3. f = [h \in 0..n |-> Replayed(c, f, h)] /\ g = [h \in 0..m |-> Replayed(d, g, h)]
  BY <1>1, <1>2, HistoryRecursion
<1> DEFINE Same == {h \in 0..n : f[h] = g[h]}
<1>4. 0 \in Same
  <2>0. 0 \in 0..n /\ 0 \in 0..m
    OBVIOUS
  <2>1. f[0] = Replayed(c, f, 0) /\ g[0] = Replayed(d, g, 0)
    BY <1>3, <2>0
  <2> QED BY <2>1 DEF Replayed
<1>5. ASSUME NEW h \in 0..(n - 1), h \in Same PROVE h + 1 \in Same
  <2>1. h + 1 \in 0..n /\ h + 1 \in 0..m /\ h + 1 \in 1..n /\ h + 1 # 0 /\ (h + 1) - 1 = h
    OBVIOUS
  <2>2. f[h + 1] = Replayed(c, f, h + 1) /\ g[h + 1] = Replayed(d, g, h + 1)
    BY <1>3, <2>1
  <2>3. f[h] = g[h] /\ c[h + 1] = d[h + 1]
    BY <1>5, <2>1
  <2>4. Replayed(c, f, h + 1) = Replayed(d, g, h + 1)
    BY <2>1, <2>3 DEF Replayed
  <2> QED BY <2>1, <2>2, <2>4
<1>6. \A h \in 0..n : h \in Same
  <2> HIDE DEF Same
  <2> QED BY <1>4, <1>5, UpTo
<1> QED BY <1>1, <1>2, <1>6

\* The state after a chain of n blocks.
After(chain, n) == History(chain, n)[n]

LEMMA AfterStart == ASSUME NEW chain PROVE After(chain, 0) = EmptyState(Senders)
<1>1. PICK f : f = History(chain, 0)
  OBVIOUS
<1>2. f = [h \in 0..0 |-> Replayed(chain, f, h)]
  <2>1. \A k \in Nat : History(chain, k) = [h \in 0..k |-> Replayed(chain, History(chain, k), h)]
    BY HistoryRecursion
  <2>2. 0 \in Nat
    OBVIOUS
  <2>3. History(chain, 0) = [h \in 0..0 |-> Replayed(chain, History(chain, 0), h)]
    BY <2>1, <2>2, Zenon
  <2> QED BY <1>1, <2>3
<1>3. f[0] = Replayed(chain, f, 0)
  BY <1>2
<1> QED BY <1>1, <1>3 DEF Replayed, After

LEMMA AfterBlock ==
  ASSUME NEW chain, NEW n \in Nat
  PROVE  After(chain, n + 1) = ApplyBlock(AtEra(After(chain, n), n + 1), chain[n + 1].txs)
<1>1. PICK f : f = History(chain, n + 1)
  OBVIOUS
<1>2. f = [h \in 0..(n + 1) |-> Replayed(chain, f, h)]
  BY <1>1, HistoryRecursion
<1>3. f[n + 1] = Replayed(chain, f, n + 1)
  BY <1>2
<1>4. f[n] = After(chain, n)
  BY <1>1, HistoryAgrees DEF After
<1>5. n + 1 # 0 /\ (n + 1) - 1 = n
  OBVIOUS
<1> QED BY <1>1, <1>3, <1>4, <1>5 DEF Replayed, After

LEMMA AfterSame ==
  ASSUME NEW c, NEW d, NEW n \in Nat, \A h \in 1..n : c[h] = d[h]
  PROVE  After(c, n) = After(d, n)
BY HistoryAgrees DEF After

\* What a ledger of the process looks like once it has loaded every genesis account.
Ledgers == [known : {Senders}, nonce : [Senders -> Nat], paid : [Senders -> Nat],
            validators : SUBSET Senders, active : SUBSET Senders]

LEMMA EmptyLedger == EmptyState(Senders) \in Ledgers
BY DEF EmptyState, Ledgers

\* Electing again for the same height, as every tick that waits for its slot does,
\* changes nothing; an election leaves the nonces alone.
LEMMA EraTwice ==
  ASSUME NEW st \in Ledgers, NEW height
  PROVE  /\ AtEra(AtEra(st, height), height) = AtEra(st, height)
         /\ AtEra(st, height) \in Ledgers
         /\ AtEra(st, height).nonce = st.nonce
BY DEF AtEra, RunElection, Ledgers

LEMMA ExecuteLedger ==
  ASSUME NEW st \in Ledgers, NEW t
  PROVE  Execute(st, t) \in Ledgers
<1>1. CASE t.sender \notin st.known
  BY <1>1 DEF Execute
<1>2. CASE t.sender \in st.known
  <2>1. t.sender \in Senders
    BY <1>2 DEF Ledgers
  <2>2. [st EXCEPT !.paid[t.sender] = @ + 1] \in Ledgers
    BY <2>1 DEF Ledgers
  <2>3. PICK v \in SUBSET Senders : v = IF t.kind = "RegisterAndStake"
                                        THEN st.validators \cup {t.sender} ELSE st.validators
    BY <2>1 DEF Ledgers
  <2>0. st.nonce \in [Senders -> Nat] /\ st.paid \in [Senders -> Nat]
    BY DEF Ledgers
  <2>4. PICK n : n = [st.nonce EXCEPT ![t.sender] = @ + 1]
    OBVIOUS
  <2>5. PICK p : p = [st.paid EXCEPT ![t.sender] = @ + 1]
    OBVIOUS
  <2>6. n \in [Senders -> Nat] /\ p \in [Senders -> Nat]
    BY <2>0, <2>1, <2>4, <2>5
  <2>7. [st EXCEPT !.nonce = n, !.paid = p, !.validators = v] \in Ledgers
    BY <2>6 DEF Ledgers
  <2>8. [st EXCEPT !.nonce[t.sender] = @ + 1, !.paid[t.sender] = @ + 1,
                   !.validators = IF t.kind = "RegisterAndStake"
                                  THEN @ \cup {t.sender} ELSE @] \in Ledgers
    BY <2>3, <2>4, <2>5, <2>7
  <2> QED BY <1>2, <2>2, <2>8 DEF Execute
<1> QED BY <1>1, <1>2

\* apply_block goes through one ledger per transaction.
LEMMA ApplyLedger ==
  ASSUME NEW st \in Ledgers, NEW txs, Len(txs) \in Nat
  PROVE  ApplyBlock(st, txs) \in Ledgers
<1>1. PICK n \in Nat : n = Len(txs)
  OBVIOUS
<1> DEFINE Body(g, i) == IF i = 0 THEN st ELSE Execute(g[i - 1], txs[i])
           Defined == {m \in 0..n : \E g : g = [i \in 0..m |-> Body(g, i)]}
<1>2. 0 \in Defined
  <2> DEFINE g == [i \in 0..0 |-> st]
  <2>1. g = [i \in 0..0 |-> Body(g, i)]
    OBVIOUS
  <2> HIDE DEF g
  <2>2. \E k : k = [i \in 0..0 |-> Body(k, i)]
    BY <2>1
  <2> HIDE DEF Body
  <2> QED BY <2>2
<1>3. ASSUME NEW m \in 0..(n - 1), m \in Defined PROVE m + 1 \in Defined
  <2>1. PICK g : g = [i \in 0..m |-> Body(g, i)]
    BY <1>3
  <2> DEFINE f == [i \in 0..(m + 1) |-> IF i = m + 1 THEN Body(g, m + 1) ELSE g[i]]
  <2>2. ASSUME NEW i \in 0..(m + 1) PROVE f[i] = Body(f, i)
    <3>1. i # 0 => i - 1 \in 0..m
      OBVIOUS
    <3>2. i # 0 => f[i - 1] = g[i - 1]
      <4> HIDE DEF Body
      <4> QED BY <3>1
    <3>3. f[i] = Body(g, i)
      <4> HIDE DEF Body
      <4>1. CASE i = m + 1
        BY <4>1
      <4>2. CASE i # m + 1
        <5>1. i \in 0..m
          BY <4>2
        <5>2. g[i] = Body(g, i)
          BY <5>1, <2>1
        <5> QED BY <4>2, <5>2
      <4> QED BY <4>1, <4>2
    <3> HIDE DEF f
    <3> QED BY <3>2, <3>3
  <2>3. f = [i \in 0..(m + 1) |-> f[i]]
    <3> HIDE DEF Body
    <3> QED OBVIOUS
  <2> HIDE DEF f
  <2>4. f = [i \in 0..(m + 1) |-> Body(f, i)]
    <3> HIDE DEF Body
    <3> QED BY <2>2, <2>3
  <2>5. m + 1 \in 0..n /\ \E k : k = [i \in 0..(m + 1) |-> Body(k, i)]
    <3> HIDE DEF Body
    <3> QED BY <2>4
  <2> HIDE DEF Body
  <2> QED BY <2>5
<1>4. \A m \in 0..n : m \in Defined
  <2> HIDE DEF Defined
  <2> QED BY <1>2, <1>3, UpTo
<1>5. \E g : g = [i \in 0..n |-> Body(g, i)]
  <2>1. n \in Defined
    <3> HIDE DEF Defined
    <3> QED BY <1>4
  <2> QED BY <2>1, Zenon
<1> DEFINE after == CHOOSE g : g = [i \in 0..n |-> IF i = 0 THEN st ELSE Execute(g[i - 1], txs[i])]
<1>6. after = [i \in 0..n |-> IF i = 0 THEN st ELSE Execute(after[i - 1], txs[i])]
  BY <1>5, Zenon
<1>7. ApplyBlock(st, txs) = after[n]
  BY <1>1 DEF ApplyBlock
<1> HIDE DEF after
<1> DEFINE Good == {m \in 0..n : after[m] \in Ledgers}
<1>8. 0 \in Good
  <2>1. 0 \in 0..n
    OBVIOUS
  <2> QED BY <2>1, <1>6
<1>9. ASSUME NEW m \in 0..(n - 1), m \in Good PROVE m + 1 \in Good
  <2>1. m + 1 \in 0..n /\ m + 1 # 0 /\ (m + 1) - 1 = m
    OBVIOUS
  <2>2. after[m + 1] = Execute(after[m], txs[m + 1])
    BY <2>1, <1>6
  <2> QED BY <1>9, <2>1, <2>2, ExecuteLedger
<1>10. \A m \in 0..n : m \in Good
  <2> HIDE DEF Good
  <2> QED BY <1>8, <1>9, UpTo
<1> QED BY <1>7, <1>10

LEMMA AfterLedger ==
  ASSUME NEW chain, NEW n \in Nat, \A h \in 1..n : Len(chain[h].txs) \in Nat
  PROVE  After(chain, n) \in Ledgers
<1> DEFINE Good == {m \in 0..n : After(chain, m) \in Ledgers}
<1>1. 0 \in Good
  BY AfterStart, EmptyLedger
<1>2. ASSUME NEW m \in 0..(n - 1), m \in Good PROVE m + 1 \in Good
  <2>1. m \in Nat /\ m + 1 \in 0..n /\ m + 1 \in 1..n
    OBVIOUS
  <2>2. AtEra(After(chain, m), m + 1) \in Ledgers
    BY <1>2, EraTwice
  <2>3. After(chain, m + 1) = ApplyBlock(AtEra(After(chain, m), m + 1), chain[m + 1].txs)
    BY <2>1, AfterBlock
  <2> QED BY <2>1, <2>2, <2>3, ApplyLedger
<1>3. \A m \in 0..n : m \in Good
  <2> HIDE DEF Good
  <2> QED BY <1>1, <1>2, UpTo
<1> QED BY <1>3

\* What the loop carries from one step of produce_block to the next.
RecordsOk ==
  /\ IsFiniteSet(mempool)
  /\ pc # "idle" => Len(batch) \in Nat
  /\ pc \in {"executed", "stored"} => block.txs = batch /\ block.hash[2] = block.height
  /\ \A h \in stored : Len(blocks[h].txs) \in Nat /\ blocks[h].hash[2] = h

\* The ledger stands where the stored blocks lead: before or after the election of the
\* next height while the loop waits, after it once transactions are selected.
StateFollows ==
  LET now  == After(blocks, current_height)
      next == AtEra(now, current_height + 1)
  IN  /\ pc = "idle" => state = now \/ state = next
      /\ pc = "selected" => state = next
      /\ pc = "executed" => block.root = next /\ state = ApplyBlock(next, block.txs)
      /\ pc = "stored" => state = After(blocks, current_height + 1)

\* The first process starts from the genesis accounts; once the storage has failed no
\* block is stored any more.
ReplayOk ==
  /\ genesis_loaded => accounts_table = Senders
  /\ run = 0 => status = "down" /\ stored \subseteq {0}
  /\ run <= 1 => \A h \in stored : h > 0 => blocks[h].root = AtEra(After(blocks, h - 1), h)
  /\ status = "running" /\ db_failed => pc = "idle" /\ current_height \notin stored
  /\ status = "running" /\ run <= 1 /\ ~db_failed => StateFollows

NodeInv == IInv /\ RecordsOk /\ ReplayOk

LEMMA NodeInit == Init => NodeInv
<1> SUFFICES ASSUME Init PROVE NodeInv
  OBVIOUS
<1>1. IsFiniteSet(mempool)
  BY FS_EmptySet DEF Init
<1>2. RecordsOk
  BY <1>1 DEF Init, RecordsOk
<1>3. ReplayOk
  BY DEF Init, ReplayOk
<1> QED BY <1>2, <1>3, InitOk DEF NodeInv

\* Steps that leave the ledger, the database and the loop alone.
LEMMA QuietKeeps ==
  ASSUME NodeInv, IInv', IsFiniteSet(mempool'),
         UNCHANGED <<accounts_table, genesis_loaded, stored, blocks, status, run, state,
                     current_height, pc, batch, block, db_failed>>
  PROVE  NodeInv'
<1>1. RecordsOk'
  BY DEF NodeInv, RecordsOk
<1>2. StateFollows' = StateFollows
  BY DEF StateFollows, After
<1>3. ReplayOk'
  BY <1>2 DEF NodeInv, ReplayOk
<1> QED BY <1>1, <1>3 DEF NodeInv

\* Steps of a process that is not running, on a database without blocks above genesis.
LEMMA GenesisKeeps ==
  ASSUME NodeInv, (\E a \in Senders : LoadGenesisAccount(a)) \/ LoadGenesisBlock \/ MarkGenesisLoaded
  PROVE  NodeInv'
<1>0. IInv' /\ status = "down" /\ ~genesis_loaded /\ run' = run /\ status' = status
      /\ mempool' = mempool /\ pc' = pc /\ batch' = batch /\ block' = block
  BY GenesisOk DEF NodeInv, LoadGenesisAccount, LoadGenesisBlock, MarkGenesisLoaded
<1>1. genesis_loaded' => accounts_table' = Senders
  BY <1>0 DEF LoadGenesisAccount, LoadGenesisBlock, MarkGenesisLoaded
<1>2. CASE ~LoadGenesisBlock
  <2>1. stored' = stored /\ blocks' = blocks
    BY <1>2 DEF LoadGenesisAccount, MarkGenesisLoaded
  <2> QED BY <1>0, <1>1, <2>1 DEF NodeInv, RecordsOk, ReplayOk, After
<1>3. CASE LoadGenesisBlock
  <2>1. stored = {} /\ 0 \in Heights
    BY <1>3, NodeAssumption DEF LoadGenesisBlock, NodeInv, IInv, ShapeOk, ChainLinked, Heights
  <2>2. stored' = {0} /\ blocks'[0] = GenesisBlock
    BY <1>3, <2>1 DEF LoadGenesisBlock, NodeInv, IInv, ShapeOk
  <2>3. Len(GenesisBlock.txs) \in Nat /\ GenesisBlock.hash[2] = 0
    BY DEF GenesisBlock
  <2>4. RecordsOk'
    BY <1>0, <2>2, <2>3 DEF NodeInv, RecordsOk
  <2> QED BY <1>0, <1>1, <2>2, <2>4 DEF NodeInv, ReplayOk
<1> QED BY <1>2, <1>3

LEMMA DieKeeps == ASSUME NodeInv, Die PROVE NodeInv'
<1>0. IInv' /\ status = "running" /\ status' = "down" /\ pc' = "idle" /\ mempool' = {}
      /\ UNCHANGED <<accounts_table, genesis_loaded, stored, blocks, run>>
  BY DieOk DEF NodeInv, Die, NoProcess
<1>1. RecordsOk'
  BY <1>0, FS_EmptySet DEF NodeInv, RecordsOk
<1> QED BY <1>0, <1>1 DEF NodeInv, ReplayOk, After

\* The first start finds block 0 at most, so its empty ledger is the replay.
LEMMA StartKeeps == ASSUME NodeInv, Start PROVE NodeInv'
<1>0. /\ IInv' /\ IInv /\ genesis_loaded /\ accounts_table = Senders /\ 0 \in stored
      /\ pc' = "idle" /\ mempool' = {} /\ db_failed' = FALSE
      /\ state' = EmptyState(accounts_table) /\ run' = run + 1 /\ run \in Nat
      /\ current_height' = load_latest_height
      /\ UNCHANGED <<accounts_table, genesis_loaded, stored, blocks>>
  BY StartOk DEF NodeInv, Start, NoProcess, IInv, ShapeOk, ReplayOk
<1>1. RecordsOk'
  BY <1>0, FS_EmptySet DEF NodeInv, RecordsOk
<1>2. ASSUME run' <= 1 PROVE StateFollows'
  <2>1. run = 0
    BY <1>0, <1>2
  <2>2. stored = {0}
    BY <1>0, <2>1 DEF NodeInv, ReplayOk
  <2>3. current_height' = 0
    BY <1>0, <2>2, LatestHeight
  <2>4. state' = After(blocks', 0)
    BY <1>0, AfterStart
  <2> QED BY <1>0, <2>3, <2>4 DEF StateFollows
<1>3. run' # 0 /\ (run' <= 1 => run <= 1)
  BY <1>0
<1>4. (run <= 1 => \A h \in stored : h > 0 => blocks[h].root = AtEra(After(blocks, h - 1), h))'
  BY <1>0, <1>3 DEF NodeInv, ReplayOk
<1> QED BY <1>0, <1>1, <1>2, <1>3, <1>4 DEF NodeInv, ReplayOk

\* A tick that stays idle: the election of the next height may have run.
LEMMA WaitKeeps == ASSUME NodeInv, WaitSlot PROVE NodeInv'
<1>0. /\ IInv' /\ status = "running" /\ pc = "idle" /\ state' = AtEra(state, current_height + 1)
      /\ UNCHANGED <<accounts_table, genesis_loaded, stored, blocks, status, run, mempool,
                     current_height, pc, batch, block, db_failed>>
  BY WaitSlotOk DEF NodeInv, WaitSlot
<1>1. RecordsOk'
  BY <1>0 DEF NodeInv, RecordsOk
<1>2. ASSUME run <= 1, ~db_failed PROVE StateFollows'
  <2>1. StateFollows /\ After(blocks, current_height) \in Ledgers
    <3>1. \A h \in 1..current_height : h \in stored
      BY <1>0, <1>2 DEF NodeInv, IInv, ChainLinked, LoopOk, ShapeOk
    <3> QED BY <1>0, <1>2, <3>1, AfterLedger DEF NodeInv, RecordsOk, ReplayOk, IInv, ShapeOk
  <2>2. state' = AtEra(After(blocks, current_height), current_height + 1)
    BY <1>0, <2>1, EraTwice DEF StateFollows
  <2> QED BY <1>0, <2>2 DEF StateFollows
<1> QED BY <1>0, <1>1, <1>2 DEF NodeInv, ReplayOk, After

LEMMA MissKeeps == ASSUME NodeInv, MissSlot PROVE NodeInv'
<1>0. /\ IInv' /\ IInv /\ status = "running" /\ pc = "idle"
      /\ current_height' = current_height + 1 /\ current_height \in Nat
      /\ UNCHANGED <<accounts_table, genesis_loaded, stored, blocks, status, run, mempool,
                     pc, batch, block>>
  BY MissSlotOk DEF NodeInv, MissSlot, IInv, ShapeOk
<1>1. db_failed' = TRUE
  BY MissSlotFailed DEF NodeInv
<1>2. current_height' \notin stored
  <2>1. \A h \in stored : h <= current_height /\ h \in Nat
    BY <1>0 DEF IInv, LoopOk, ShapeOk, Heights
  <2> QED BY <1>0, <2>1
<1>3. RecordsOk'
  BY <1>0 DEF NodeInv, RecordsOk
<1> QED BY <1>0, <1>1, <1>2, <1>3 DEF NodeInv, ReplayOk, After

\* The batch is a list of pooled transactions.
LEMMA BatchIsList ==
  ASSUME IsFiniteSet(mempool), NEW b \in Batches
  PROVE  Len(b) \in Nat /\ \A i \in DOMAIN b : b[i] \in mempool
<1>1. PICK S \in SUBSET mempool : b \in Orders(S)
  BY DEF Batches
<1>2. Cardinality(S) \in Nat
  BY FS_Subset, FS_CardinalityType
<1>3. PICK n \in Nat : b \in [1..n -> S]
  BY <1>1, <1>2 DEF Orders
<1> QED BY <1>3

LEMMA BeginKeeps == ASSUME NodeInv, BeginBlock PROVE NodeInv'
<1>0. /\ IInv' /\ status = "running" /\ pc = "idle" /\ pc' = "selected"
      /\ state' = AtEra(state, current_height + 1) /\ current_height \in stored
      /\ batch' \in Batches /\ mempool' = mempool \ Elements(batch')
      /\ UNCHANGED <<accounts_table, genesis_loaded, stored, blocks, status, run,
                     current_height, block, db_failed>>
  BY BeginBlockOk DEF NodeInv, BeginBlock
<1>1. Len(batch') \in Nat
  BY <1>0, BatchIsList DEF NodeInv, RecordsOk
<1>2. IsFiniteSet(mempool')
  BY <1>0, FS_Subset DEF NodeInv, RecordsOk
<1>3. RecordsOk'
  BY <1>0, <1>1, <1>2 DEF NodeInv, RecordsOk
<1>4. ~db_failed
  BY <1>0 DEF NodeInv, ReplayOk
<1>5. ASSUME run <= 1 PROVE StateFollows'
  <2>1. StateFollows /\ After(blocks, current_height) \in Ledgers
    <3>1. \A h \in 1..current_height : h \in stored
      BY <1>0 DEF NodeInv, IInv, ChainLinked, LoopOk, ShapeOk
    <3> QED BY <1>0, <1>4, <1>5, <3>1, AfterLedger DEF NodeInv, RecordsOk, ReplayOk, IInv, ShapeOk
  <2>2. state' = AtEra(After(blocks, current_height), current_height + 1)
    BY <1>0, <2>1, EraTwice DEF StateFollows
  <2> QED BY <1>0, <2>2 DEF StateFollows
<1> QED BY <1>0, <1>3, <1>4, <1>5 DEF NodeInv, ReplayOk, After

\* build_block takes the root before apply_block executes.
LEMMA ExecuteKeeps == ASSUME NodeInv, ExecuteBlock PROVE NodeInv'
<1>0. /\ IInv' /\ status = "running" /\ pc = "selected" /\ pc' = "executed"
      /\ block' = BuildBlock /\ state' = ApplyBlock(state, batch)
      /\ UNCHANGED <<accounts_table, genesis_loaded, stored, blocks, status, run, mempool,
                     current_height, batch, db_failed>>
  BY ExecuteBlockOk DEF NodeInv, ExecuteBlock
<1>1. /\ block'.txs = batch /\ block'.root = state
      /\ block'.height = current_height + 1 /\ block'.hash[2] = current_height + 1
  BY <1>0 DEF BuildBlock
<1>2. RecordsOk'
  BY <1>0, <1>1 DEF NodeInv, RecordsOk
<1>3. ~db_failed
  BY <1>0 DEF NodeInv, ReplayOk
<1>4. ASSUME run <= 1 PROVE StateFollows'
  <2>1. state = AtEra(After(blocks, current_height), current_height + 1)
    BY <1>0, <1>3, <1>4 DEF NodeInv, ReplayOk, StateFollows
  <2>2. block'.root = AtEra(After(blocks, current_height), current_height + 1)
        /\ state' = ApplyBlock(block'.root, block'.txs)
    BY <1>0, <1>1, <2>1
  <2> QED BY <1>0, <2>2 DEF StateFollows
<1> QED BY <1>0, <1>2, <1>3, <1>4 DEF NodeInv, ReplayOk, After

\* The block goes on top with the root of the replay below it.
LEMMA StoreKeeps == ASSUME NodeInv, StoreBlock PROVE NodeInv'
<1> DEFINE top == current_height + 1
<1>0. /\ IInv' /\ IInv /\ status = "running" /\ pc = "executed" /\ pc' = "stored"
      /\ stored' = stored \cup {block.height}
      /\ blocks' = [blocks EXCEPT ![block.height] = block]
      /\ UNCHANGED <<accounts_table, genesis_loaded, status, run, state, mempool,
                     current_height, batch, block, db_failed>>
  BY StoreBlockOk DEF NodeInv, StoreBlock
<1>1. /\ block.height = top /\ top \in Heights /\ current_height \in stored
      /\ \A h \in stored : h <= current_height
      /\ stored \subseteq Nat /\ current_height \in Nat /\ DOMAIN blocks = Heights
  BY <1>0 DEF IInv, LoopOk, ShapeOk, Heights
<1>2. stored' = stored \cup {top} /\ blocks'[top] = block /\ \A h \in stored : blocks'[h] = blocks[h]
  BY <1>0, <1>1 DEF IInv, ShapeOk
<1>3. block.txs = batch /\ Len(batch) \in Nat /\ block.hash[2] = top
  BY <1>0, <1>1 DEF NodeInv, RecordsOk
<1>4. RecordsOk'
  BY <1>0, <1>1, <1>2, <1>3 DEF NodeInv, RecordsOk
<1>5. ~db_failed /\ run # 0
  BY <1>0 DEF NodeInv, ReplayOk
<1>6. \A n \in 0..current_height : After(blocks', n) = After(blocks, n)
  <2> SUFFICES ASSUME NEW n \in 0..current_height PROVE After(blocks', n) = After(blocks, n)
    OBVIOUS
  <2>1. \A h \in 1..n : h \in stored
    BY <1>1 DEF NodeInv, IInv, ChainLinked
  <2> QED BY <1>1, <1>2, <2>1, AfterSame
<1>7. ASSUME run <= 1
      PROVE  StateFollows' /\ \A h \in stored' : h > 0 => blocks'[h].root = AtEra(After(blocks', h - 1), h)
  <2>1. /\ block.root = AtEra(After(blocks, current_height), top)
        /\ state = ApplyBlock(block.root, block.txs)
    BY <1>0, <1>5, <1>7 DEF NodeInv, ReplayOk, StateFollows
  <2>2. After(blocks', top) = ApplyBlock(AtEra(After(blocks', current_height), top), blocks'[top].txs)
    BY <1>1, AfterBlock
  <2>3. After(blocks', current_height) = After(blocks, current_height)
    BY <1>1, <1>6
  <2>4. state' = After(blocks', top)
    BY <1>0, <1>2, <2>1, <2>2, <2>3
  <2>5. StateFollows'
    BY <1>0, <2>4 DEF StateFollows
  <2>6. ASSUME NEW h \in stored', h > 0 PROVE blocks'[h].root = AtEra(After(blocks', h - 1), h)
    <3>1. CASE h = top
      <4>1. h - 1 = current_height
        BY <3>1, <1>1
      <4> QED BY <3>1, <4>1, <1>2, <2>1, <2>3
    <3>2. CASE h # top
      <4>1. h \in stored /\ h - 1 \in 0..current_height /\ blocks'[h] = blocks[h]
        BY <3>2, <2>6, <1>1, <1>2
      <4>2. blocks[h].root = AtEra(After(blocks, h - 1), h)
        BY <4>1, <2>6, <1>7 DEF NodeInv, ReplayOk
      <4> QED BY <4>1, <4>2, <1>6
    <3> QED BY <3>1, <3>2
  <2> QED BY <2>5, <2>6
<1> QED BY <1>0, <1>4, <1>5, <1>7 DEF NodeInv, ReplayOk

LEMMA StoreFailsKeeps == ASSUME NodeInv, StoreBlockFails PROVE NodeInv'
<1>0. /\ IInv' /\ IInv /\ status = "running" /\ pc = "executed" /\ pc' = "idle" /\ db_failed' = TRUE
      /\ current_height' = block.height
      /\ UNCHANGED <<accounts_table, genesis_loaded, stored, blocks, status, run, mempool,
                     batch, block>>
  BY StoreBlockFailsOk DEF NodeInv, StoreBlockFails
<1>1. current_height' \notin stored
  <2>1. block.height = current_height + 1 /\ current_height \in Nat
        /\ \A h \in stored : h <= current_height /\ h \in Nat
    BY <1>0 DEF IInv, LoopOk, ShapeOk, Heights
  <2> QED BY <1>0, <2>1
<1>2. RecordsOk'
  BY <1>0 DEF NodeInv, RecordsOk
<1> QED BY <1>0, <1>1, <1>2 DEF NodeInv, ReplayOk, After

LEMMA PublishKeeps == ASSUME NodeInv, PublishBlock PROVE NodeInv'
<1>0. /\ IInv' /\ IInv /\ status = "running" /\ pc = "stored" /\ pc' = "idle"
      /\ current_height' = block.height
      /\ UNCHANGED <<accounts_table, genesis_loaded, stored, blocks, status, run, state,
                     mempool, batch, block, db_failed>>
  BY PublishBlockOk DEF NodeInv, PublishBlock
<1>1. block.height = current_height + 1
  BY <1>0 DEF IInv, LoopOk
<1>2. RecordsOk'
  BY <1>0 DEF NodeInv, RecordsOk
<1>3. ~db_failed
  BY <1>0 DEF NodeInv, ReplayOk
<1>4. ASSUME run <= 1 PROVE StateFollows'
  <2>1. state' = After(blocks', current_height')
    BY <1>0, <1>1, <1>3, <1>4 DEF NodeInv, ReplayOk, StateFollows
  <2> QED BY <1>0, <2>1 DEF StateFollows
<1> QED BY <1>0, <1>2, <1>3, <1>4 DEF NodeInv, ReplayOk, After

LEMMA NodeStep == NodeInv /\ [Next]_vars => NodeInv'
<1> SUFFICES ASSUME NodeInv, [Next]_vars PROVE NodeInv'
  OBVIOUS
<1>0. IInv'
  BY StepOk DEF NodeInv
<1>1. CASE UNCHANGED vars
  BY <1>0, <1>1, QuietKeeps DEF vars, NodeInv, RecordsOk
<1>2. ASSUME NEW t \in Txs, Submit(t) PROVE NodeInv'
  <2>1. IsFiniteSet(mempool')
    BY <1>2, FS_AddElement DEF Submit, NodeInv, RecordsOk
  <2> QED BY <1>0, <1>2, <2>1, QuietKeeps DEF Submit
<1>3. CASE Next
  BY <1>2, <1>3, GenesisKeeps, StartKeeps, DieKeeps, WaitKeeps, MissKeeps, BeginKeeps,
     ExecuteKeeps, StoreKeeps, StoreFailsKeeps, PublishKeeps DEF Next, Produce
<1> QED BY <1>1, <1>3

LEMMA RootsFollow == NodeInv => RootsReplay
<1> SUFFICES ASSUME NodeInv, run <= 1, NEW h \in stored \ {0}
             PROVE  blocks[h].root = RootBefore(h)
  BY DEF RootsReplay
<1>1. h > 0
  BY DEF NodeInv, IInv, ShapeOk, Heights
<1> QED BY <1>1 DEF NodeInv, ReplayOk, RootBefore, Replay, After

\* Until its first restart, whatever the schedule, the batches and the failures of the
\* storage, all stored headers commit to states of the one history their blocks and the
\* elections lead through, each at the same place with respect to its block
\* (start_consensus_loop, produce_block, build_block, apply_block).
THEOREM RootsReplayHolds == Spec => []RootsReplay
BY NodeInit, NodeStep, RootsFollow, PTL DEF Spec

-----------------------------------------------------------------------------
(* The node as its users see it.                                           *)

\* Where an accepted transaction is.
Held(t) == t \in mempool \/ Mined(t) \/ (pc # "idle" /\ \E i \in DOMAIN batch : batch[i] = t)

\* Only a running process serves, and the JSON-RPC server's height is stored.
ClientInv ==
  /\ NodeInv
  /\ DOMAIN step = Clients /\ DOMAIN tx = Clients
  /\ holder \in Clients => status = "running"
  /\ run = 0 => accepted = {}
  /\ status = "running" => rpc_height \in stored
  /\ AcceptedNotLost

LEMMA ClientInitOk == ClientInit => ClientInv
<1> SUFFICES ASSUME ClientInit PROVE ClientInv
  OBVIOUS
<1>1. NodeInv
  BY NodeInit DEF ClientInit
<1>2. DOMAIN step = Clients /\ DOMAIN tx = Clients /\ holder \notin Clients /\ accepted = {}
      /\ status = "down"
  BY ClientAssumption DEF ClientInit, Init
<1> QED BY <1>1, <1>2 DEF ClientInv, AcceptedNotLost

\* Steps of wallets and handlers that leave the node alone.
LEMMA HandlerKeeps ==
  ASSUME ClientInv, UNCHANGED vars, UNCHANGED <<accepted, rpc_height>>,
         DOMAIN step' = Clients, DOMAIN tx' = Clients,
         holder' \in Clients => holder' = holder \/ status = "running"
  PROVE  ClientInv'
<1>1. NodeInv'
  BY NodeStep DEF ClientInv
<1>2. AcceptedNotLost'
  BY DEF ClientInv, AcceptedNotLost, Mined, vars
<1> QED BY <1>1, <1>2 DEF ClientInv, vars

\* A post changes the pool: what it is told is accepted is in it.
LEMMA PostKeeps == ASSUME ClientInv, NEW c \in Clients, ServePost(c) PROVE ClientInv'
<1>0. /\ holder = c /\ Insert(tx[c]) /\ step' = [step EXCEPT ![c] = "idle"] /\ holder' = Nobody
      /\ UNCHANGED <<accounts_table, genesis_loaded, stored, blocks, status, run, state,
                     current_height, schedule, pc, batch, block, published, db_failed>>
      /\ UNCHANGED <<tx, rpc_height>>
  BY DEF ServePost, Busy, Release
<1>1. status = "running"
  BY <1>0 DEF ClientInv
<1>2. run # 0
  BY <1>1 DEF ClientInv, NodeInv, ReplayOk
<1>3. IsFiniteSet(mempool') /\ mempool \subseteq mempool'
      /\ (accepted' = accepted \/ (accepted' = accepted \cup {tx[c]} /\ tx[c] \in mempool'))
  BY <1>0, FS_AddElement DEF Insert, ClientInv, NodeInv, RecordsOk
<1>4. IInv'
  BY <1>0, QuietOk DEF ClientInv, NodeInv, IInv, ShapeOk
<1>5. NodeInv'
  BY <1>0, <1>3, <1>4, QuietKeeps DEF ClientInv
<1>6. AcceptedNotLost'
  BY <1>0, <1>3 DEF ClientInv, AcceptedNotLost, Mined
<1>7. DOMAIN step' = Clients /\ DOMAIN tx' = Clients /\ holder' \notin Clients
  BY <1>0, ClientAssumption DEF ClientInv
<1> QED BY <1>0, <1>2, <1>5, <1>6, <1>7 DEF ClientInv

\* The consensus loop moves a transaction from the pool to a batch and from there to a
\* stored block, or loses it with a failed put.
LEMMA LoopHolds ==
  ASSUME NodeInv, AcceptedNotLost,
         WaitSlot \/ MissSlot \/ Produce \/ StoreBlockFails, accepted' = accepted
  PROVE  AcceptedNotLost'
<1> SUFFICES ASSUME status' = "running", run' = 1, ~db_failed', NEW t \in accepted
             PROVE  Held(t)'
  BY DEF AcceptedNotLost, Held, Mined
<1>0. status = "running" /\ run = 1 /\ ~db_failed /\ ~StoreBlockFails
  BY MissSlotFailed DEF NodeInv, WaitSlot, Produce, BeginBlock, ExecuteBlock, StoreBlock,
     PublishBlock, StoreBlockFails, MissSlot
<1>1. Held(t)
  BY <1>0 DEF AcceptedNotLost, Held
<1>2. CASE WaitSlot \/ MissSlot
  BY <1>1, <1>2 DEF WaitSlot, MissSlot, Held, Mined
<1>3. CASE BeginBlock
  <2>1. pc = "idle" /\ pc' = "selected" /\ mempool' = mempool \ Elements(batch')
        /\ stored' = stored /\ blocks' = blocks
    BY <1>3 DEF BeginBlock
  <2> QED BY <1>1, <2>1 DEF Held, Mined, Elements
<1>4. CASE ExecuteBlock
  BY <1>1, <1>4 DEF ExecuteBlock, Held, Mined
<1>5. CASE StoreBlock
  <2>1. /\ pc = "executed" /\ pc' = "stored" /\ batch' = batch /\ mempool' = mempool
        /\ stored' = stored \cup {block.height}
        /\ blocks' = [blocks EXCEPT ![block.height] = block]
    BY <1>5 DEF StoreBlock
  <2>2. block.height \notin stored
    BY <1>0, <2>1 DEF NodeInv, IInv, LoopOk, ShapeOk, Heights
  <2>3. \A h \in stored : h \in stored' /\ blocks'[h] = blocks[h]
    BY <2>1, <2>2 DEF NodeInv, IInv, ShapeOk
  <2>4. Mined(t) => Mined(t)'
    BY <2>3 DEF Mined
  <2> QED BY <1>1, <2>1, <2>4 DEF Held
<1>6. CASE PublishBlock
  <2>1. /\ pc = "stored" /\ pc' = "idle" /\ mempool' = mempool /\ stored' = stored
        /\ blocks' = blocks
    BY <1>6 DEF PublishBlock
  <2>2. block.height \in stored /\ blocks[block.height] = block /\ block.txs = batch
    BY <1>0, <2>1 DEF NodeInv, IInv, LoopOk, RecordsOk
  <2>3. (\E i \in DOMAIN batch : batch[i] = t) => Mined(t)
    BY <2>2 DEF Mined
  <2> QED BY <1>1, <2>1, <2>3 DEF Held, Mined
<1> QED BY <1>0, <1>2, <1>3, <1>4, <1>5, <1>6 DEF Produce

\* While a process runs, its database only gains blocks.
LEMMA LoopRuns ==
  ASSUME WaitSlot \/ MissSlot \/ Produce \/ StoreBlockFails
  PROVE  status = "running" /\ status' = status /\ run' = run /\ stored \subseteq stored'
BY DEF WaitSlot, MissSlot, Produce, BeginBlock, ExecuteBlock, StoreBlock, PublishBlock,
       StoreBlockFails

LEMMA NodeRunsKeeps == ASSUME ClientInv, NodeRuns PROVE ClientInv'
<1>0. UNCHANGED client
  BY DEF NodeRuns
<1>1. CASE Genesis
  <2>1. NodeInv'
    BY <1>1, GenesisKeeps DEF ClientInv, Genesis
  <2>2. status = "down" /\ status' = status /\ run' = run
    BY <1>1 DEF Genesis, LoadGenesisAccount, LoadGenesisBlock, MarkGenesisLoaded
  <2> QED BY <1>0, <2>1, <2>2 DEF ClientInv, AcceptedNotLost, client
<1>2. CASE WaitSlot \/ MissSlot \/ Produce \/ StoreBlockFails
  <2>1. NodeInv'
    BY <1>2, WaitKeeps, MissKeeps, BeginKeeps, ExecuteKeeps, StoreKeeps, StoreFailsKeeps,
       PublishKeeps DEF ClientInv, Produce
  <2>2. AcceptedNotLost'
    BY <1>0, <1>2, LoopHolds DEF ClientInv, client
  <2> QED BY <1>0, <1>2, <2>1, <2>2, LoopRuns DEF ClientInv, client
<1> QED BY <1>1, <1>2 DEF NodeRuns

LEMMA NodeStartKeeps == ASSUME ClientInv, NodeStart PROVE ClientInv'
<1>0. /\ Start /\ rpc_height' = current_height' /\ run' = run + 1 /\ status = "down"
      /\ stored' = stored
      /\ UNCHANGED <<step, tx, holder, accepted>>
  BY DEF NodeStart, RpcStarts, RpcNew, Start
<1>1. NodeInv'
  BY <1>0, StartKeeps DEF ClientInv
<1>2. run \in Nat /\ run' # 0 /\ (run' = 1 => run = 0)
  BY <1>0 DEF ClientInv, NodeInv, IInv, ShapeOk
<1>3. AcceptedNotLost'
  BY <1>0, <1>2 DEF ClientInv, AcceptedNotLost
<1>4. status' = "running" => rpc_height' \in stored'
  <2>1. db_failed' = FALSE
    BY <1>0 DEF Start, NoProcess
  <2> QED BY <1>0, <1>1, <2>1 DEF NodeInv, IInv, LoopOk
<1> QED BY <1>0, <1>1, <1>2, <1>3, <1>4 DEF ClientInv

LEMMA NodeDiesKeeps == ASSUME ClientInv, NodeDies PROVE ClientInv'
<1>0. /\ Die /\ holder' = Nobody /\ status' = "down" /\ run' = run
      /\ UNCHANGED <<step, tx, accepted, rpc_height>>
  BY DEF NodeDies, Die
<1>1. NodeInv'
  BY <1>0, DieKeeps DEF ClientInv
<1> QED BY <1>0, <1>1, ClientAssumption DEF ClientInv, AcceptedNotLost

LEMMA WalletKeeps ==
  ASSUME ClientInv, NEW c \in Clients,
         \/ Keygen(c) \/ KeygenWrite(c) \/ AskHeight(c) \/ Killed(c)
         \/ \E op \in Operations, to \in Addresses : Begin(c, op, to)
         \/ \E sender \in Addresses : RpcSubmit(c, sender)
         \/ Lock(c) \/ ServeBalance(c) \/ ServeHeight(c) \/ Refused(c)
  PROVE  ClientInv'
<1>1. UNCHANGED vars /\ UNCHANGED <<accepted, rpc_height>>
  BY DEF Keygen, KeygenWrite, AskHeight, Killed, Begin, RpcSubmit, Lock, ServeBalance,
         ServeHeight, Refused
<1>2. DOMAIN step' = Clients /\ DOMAIN tx' = Clients
  BY DEF ClientInv, Keygen, KeygenWrite, AskHeight, Killed, Begin, RpcSubmit, Lock,
         ServeBalance, ServeHeight, Refused, Busy
<1>3. holder' \in Clients => holder' = holder \/ status = "running"
  BY ClientAssumption
     DEF Keygen, KeygenWrite, AskHeight, Killed, Begin, RpcSubmit, Lock, ServeBalance,
         ServeHeight, Refused, Release
<1> QED BY <1>1, <1>2, <1>3, HandlerKeeps

LEMMA ClientStep == ClientInv /\ [ClientNext]_allvars => ClientInv'
<1> SUFFICES ASSUME ClientInv, [ClientNext]_allvars PROVE ClientInv'
  OBVIOUS
<1>1. CASE UNCHANGED allvars
  BY <1>1, HandlerKeeps DEF allvars, client, ClientInv
<1>2. CASE ClientNext
  BY <1>2, NodeRunsKeeps, NodeStartKeeps, NodeDiesKeeps, WalletKeeps, PostKeeps DEF ClientNext
<1> QED BY <1>1, <1>2

\* A hash names one height.
LEMMA LookupsFollow == ClientInv => LookupsAgree
<1> SUFFICES ASSUME ClientInv, status = "running" PROVE
      /\ load_block(RpcHeight) # NotFound
      /\ \A h \in stored :
           /\ RestByHash(blocks[h].hash) = <<h>>
           /\ block_id_to_height(blocks[h].hash) \in {<<h>>, NotFound}
           /\ h \in 1..rpc_height => block_id_to_height(blocks[h].hash) = <<h>>
  BY DEF LookupsAgree
<1>1. rpc_height \in stored /\ stored \subseteq Nat
  BY DEF ClientInv, NodeInv, IInv, ShapeOk, Heights
<1>2. \A g, h \in stored : blocks[g].hash = blocks[h].hash => g = h
  BY DEF ClientInv, NodeInv, RecordsOk
<1>3. ASSUME NEW h \in stored
      PROVE  /\ RestByHash(blocks[h].hash) = <<h>>
             /\ block_id_to_height(blocks[h].hash) \in {<<h>>, NotFound}
             /\ h \in 1..rpc_height => block_id_to_height(blocks[h].hash) = <<h>>
  <2>1. RestByHash(blocks[h].hash) = <<h>>
    BY <1>2 DEF RestByHash
  <2> DEFINE found == {g \in stored : g > 0 /\ g <= RpcHeight /\ blocks[g].hash = blocks[h].hash}
  <2>2. CASE h \in 1..rpc_height
    <3>0. h > 0 /\ h <= RpcHeight
      BY <1>1, <2>2 DEF RpcHeight
    <3>1. found = {h}
      BY <3>0, <1>2
    <3>2. (CHOOSE k \in {h} : \A g \in {h} : g <= k) = h
      BY <1>1
    <3> QED BY <2>1, <2>2, <3>1, <3>2 DEF block_id_to_height
  <2>3. CASE h \notin 1..rpc_height
    <3>0. ~(h > 0 /\ h <= RpcHeight)
      BY <1>1, <2>3 DEF RpcHeight
    <3>1. found = {}
      BY <3>0, <1>2
    <3> QED BY <2>1, <2>3, <3>1 DEF block_id_to_height
  <2> QED BY <2>2, <2>3
<1>4. load_block(RpcHeight) # NotFound
  BY <1>1 DEF load_block, RpcHeight, NotFound
<1> QED BY <1>3, <1>4

LEMMA ClientInvHolds == ClientSpec => []ClientInv
<1>1. ClientSpec => ClientInit /\ [][ClientNext]_allvars
  BY PTL DEF ClientSpec
<1> QED BY <1>1, ClientInitOk, ClientStep, PTL

\* Whatever wallets post, however often the node restarts and whichever handler holds a
\* lock: a transaction that was accepted stays in the pool, in the block being made or in
\* a stored block until the storage fails or the process dies (tx_submit_handler, insert,
\* select, produce_block).
THEOREM AcceptedNotLostHolds == ClientSpec => []AcceptedNotLost
<1>1. ClientInv => AcceptedNotLost
  BY DEF ClientInv
<1> QED BY <1>1, ClientInvHolds, PTL

\* For a stored block's hash REST gives that block, JSON-RPC gives no other and gives it
\* if it was above genesis when the node started (block_by_hash_handler,
\* block_id_to_height), and the block JSON-RPC calls the latest is stored.
THEOREM LookupsAgreeHolds == ClientSpec => []LookupsAgree
BY LookupsFollow, ClientInvHolds, PTL

\* A nonce is handed out from a ledger that is the replay of the stored blocks.
LEMMA AnswerIsReplay ==
  ASSUME ClientInv, NEW c \in Clients, ServeBalance(c),
         step[c] = "nonce", step'[c] = "post",
         run = 1, ~db_failed, NonceOwner(c) \in Senders
  PROVE  tx'[c].nonce = Replay(load_latest_height).nonce[NonceOwner(c)]
<1>1. /\ holder = c /\ pc \in {"idle", "selected"}
      /\ tx' = [tx EXCEPT ![c] = Signed(c, NonceAnswer(NonceOwner(c)))]
  BY DEF ServeBalance, StateFree, Busy, ClientInv, NodeInv, IInv, ShapeOk
<1>2. status = "running" /\ current_height \in Nat /\ StateFollows
  BY <1>1 DEF ClientInv, NodeInv, IInv, ShapeOk, ReplayOk
<1>3. load_latest_height = current_height
  BY <1>1, <1>2, TopFollows DEF HeightIsTop, ClientInv, NodeInv
<1>4. After(blocks, current_height) \in Ledgers
  <2>1. \A h \in 1..current_height : h \in stored
    BY <1>2 DEF ClientInv, NodeInv, IInv, ChainLinked, LoopOk
  <2> QED BY <1>2, <2>1, AfterLedger DEF ClientInv, NodeInv, RecordsOk
<1>5. state.nonce = After(blocks, current_height).nonce /\ state \in Ledgers
  BY <1>1, <1>2, <1>4, EraTwice DEF StateFollows
<1>6. NonceAnswer(NonceOwner(c)) = state.nonce[NonceOwner(c)]
  BY <1>5 DEF NonceAnswer, Ledgers
<1>7. tx'[c].nonce = NonceAnswer(NonceOwner(c))
  BY <1>1 DEF ClientInv, Signed
<1> QED BY <1>3, <1>5, <1>6, <1>7 DEF Replay, After

LEMMA OnlyBalanceAnswers ==
  ASSUME ClientInv, [ClientNext]_allvars, NEW c \in Clients, step[c] = "nonce", step'[c] = "post"
  PROVE  ServeBalance(c)
<1>0. step' # step /\ DOMAIN step = Clients
  BY DEF ClientInv
<1>1. ClientNext /\ ~NodeRuns /\ ~NodeStart /\ ~NodeDies
  BY <1>0 DEF allvars, client, NodeRuns, NodeStart, NodeDies
<1>2. PICK d \in Clients :
       \/ Keygen(d) \/ KeygenWrite(d) \/ AskHeight(d) \/ Killed(d)
       \/ \E op \in Operations, to \in Addresses : Begin(d, op, to)
       \/ \E sender \in Addresses : RpcSubmit(d, sender)
       \/ Lock(d) \/ ServeBalance(d) \/ ServePost(d) \/ ServeHeight(d) \/ Refused(d)
  BY <1>1 DEF ClientNext
<1>3. CASE ServeBalance(d)
  BY <1>0, <1>3 DEF ServeBalance, Busy
<1>4. CASE Lock(d) \/ \E sender \in Addresses : RpcSubmit(d, sender)
  BY <1>0, <1>4 DEF Lock, RpcSubmit
<1>5. CASE ~ServeBalance(d) /\ ~Lock(d) /\ ~\E sender \in Addresses : RpcSubmit(d, sender)
  <2>1. PICK s \in {"idle", "writing", "nonce", "height"} : step' = [step EXCEPT ![d] = s]
    BY <1>2, <1>5 DEF Keygen, KeygenWrite, AskHeight, Killed, Begin, ServePost, ServeHeight,
                      Refused, Busy
  <2> QED BY <1>0, <2>1
<1> QED BY <1>3, <1>4, <1>5

\* A nonce the REST server hands out is the account's nonce after exactly the stored
\* blocks, in the first process and until the storage fails (balance_handler, produce_block).
THEOREM AnswersMatchChainHolds == ClientSpec => AnswersMatchChain
<1>1. ClientSpec => [][ClientNext]_allvars
  BY PTL DEF ClientSpec
<1>2. ClientInv /\ [ClientNext]_allvars =>
        [\A c \in Clients :
           /\ step[c] = "nonce" /\ step'[c] = "post"
           /\ run = 1 /\ ~db_failed /\ NonceOwner(c) \in Senders
           => tx'[c].nonce = Replay(load_latest_height).nonce[NonceOwner(c)]]_allvars
  BY OnlyBalanceAnswers, AnswerIsReplay
<1> QED BY <1>1, <1>2, ClientInvHolds, PTL DEF AnswersMatchChain

-----------------------------------------------------------------------------
(* Serving users changes nothing of what the node promises its peers.      *)

LEMMA ServedRefines == ClientInv /\ [ClientNext]_allvars => [Promise!Next]_(Promise!vars)
<1> SUFFICES ASSUME ClientInv, [ClientNext]_allvars PROVE [Promise!Next]_(Promise!vars)
  OBVIOUS
<1>0. IInv
  BY DEF ClientInv, NodeInv
<1>1. CASE NodeRuns \/ NodeStart \/ NodeDies
  <2>1. Next
    BY <1>1 DEF NodeRuns, NodeStart, NodeDies, Genesis, Next
  <2> QED BY <1>0, <2>1, RefinesStep
<1>2. CASE ~(NodeRuns \/ NodeStart \/ NodeDies)
  <2>1. stored' = stored /\ blocks' = blocks /\ published' = published
    BY <1>2 DEF ClientNext, allvars, vars, Keygen, KeygenWrite, AskHeight, Killed, Begin,
                RpcSubmit, Lock, ServeBalance, ServePost, ServeHeight, Refused
  <2> QED BY <2>1, RefinesStutter
<1> QED BY <1>1, <1>2

\* The node with its REST server and any number of wallets still implements Chain: no
\* request, lock or killed wallet makes it rewrite, drop or skip a block or announce one
\* that is not on top (produce_block, tx_submit_handler, wallet.rs).
THEOREM ServedNodeImplementsChain == ClientSpec => ImplementsChain
<1>1. ClientSpec => ClientInit /\ [][ClientNext]_allvars
  BY PTL DEF ClientSpec
<1>2. ClientInit => Promise!Init
  BY RefinesInit DEF ClientInit
<1> QED BY <1>1, <1>2, ClientInvHolds, ServedRefines, PTL DEF ImplementsChain, Promise!Spec
=============================================================================
