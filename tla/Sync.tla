-------------------------------- MODULE Sync --------------------------------
(***************************************************************************)
(* Catching up with the network: run_sync_loop of network/sync.rs against  *)
(* serve_block_sync of network/sync_protocol.rs.  Peers are honest but may *)
(* be on different forks; answers may be lost, late, or arrive after the   *)
(* request they answer was given up.  wait_for_sync_response matches an    *)
(* answer by its peer alone, so a late one is taken for the next.          *)
(*                                                                         *)
(* Simplifications.                                                        *)
(*  - Hashes are injective: a block's is a value of its own, a batch's is  *)
(*    the pair of its seed and its blocks.                                 *)
(*  - What a peer stores does not change, so the answer to a request is    *)
(*    put in the network when the request is sent.  Only forward requests  *)
(*    are made by the loop.                                                *)
(*  - The caller starts another attempt when one has ended, well or not.   *)
(***************************************************************************)
EXTENDS Naturals, Sequences, Bags

CONSTANTS
  Networks,                    \* the networks a node may find itself in
  GenesisHash,                 \* genesis_hash: BLAKE3 of the genesis file
  NoHash,                      \* known_block_hash: None
  BATCH,                       \* batch_size
  MAX_SYNC_BLOCKS, MAX_BY_HASH_BLOCKS,
  MAX_CONSECUTIVE_FAILURES,
  MaxFaults,                   \* bound: answers lost, attempts failed, crashes
  MaxHeight,                   \* bound: heights of the chains
  MaxInFlight                  \* bound: answers in the network, more are lost

Heights == 1..MaxHeight
Hash(block) == block.hash
NoBlock == [height |-> 0, parent |-> NoHash, hash |-> NoHash]
TipOf(chain) == CHOOSE h \in DOMAIN chain : \A g \in DOMAIN chain : g <= h

\* A chain's blocks have hashes of their own, other than that of the genesis file, and
\* none but the first block on the genesis names that file as its parent.
ProperChain(chain) ==
  \A h \in DOMAIN chain :
    /\ h \in 0..MaxHeight /\ chain[h].height = h
    /\ Hash(chain[h]) # GenesisHash
    /\ chain[h].parent = GenesisHash => h = 1
    /\ \A g \in DOMAIN chain : Hash(chain[g]) = Hash(chain[h]) => g = h

ASSUME SyncAssumption ==
  /\ MAX_SYNC_BLOCKS \in Nat /\ MAX_BY_HASH_BLOCKS \in Nat /\ MaxHeight \in Nat
  /\ BATCH \in 1..MAX_SYNC_BLOCKS /\ MAX_CONSECUTIVE_FAILURES \in Nat \ {0}
  /\ \A n \in Networks :
       /\ n.peers \in Seq(DOMAIN n.chain) /\ n.peers # <<>>
       /\ \A p \in DOMAIN n.chain : ProperChain(n.chain[p])

VARIABLES
  net,          \* the network; it does not change
  store,        \* BLOCKS of this node
  file,         \* the cursor on disk
  cursor,       \* the cursor in memory: last verified height and hash
  target,       \* target_height
  failures,     \* consecutive_failures
  peer_index,   \* next peer, modulo their number
  pc,           \* off, tip, request, batch or store
  awaited,      \* the peer whose answer is awaited
  incoming,     \* verified blocks still to be put
  answers,      \* the network: a bag of answers
  faults        \* faults so far

loop == <<target, failures, peer_index, pc, awaited, incoming>>
vars == <<net, store, file, cursor, loop, answers, faults>>

Peers == net.peers               \* connected_peers, in its arbitrary order
Serves == net.serves             \* whether a peer's service has a storage
Chain == net.chain               \* Chain[p]: height -> block, as p stores them
Announced == net.announced       \* highest_known_height of a peer's service
MayBeLate == net.late            \* an answer may take longer than SYNC_TIMEOUT

NewCursor == [height |-> 0, hash |-> GenesisHash]

Init ==
  /\ net \in Networks
  /\ store = [h \in Heights |-> NoBlock]
  /\ file = NewCursor /\ cursor = NewCursor
  /\ target = 0 /\ failures = 0 /\ peer_index = 0
  /\ pc = "off" /\ awaited = Peers[1] /\ incoming = <<>>
  /\ answers = EmptyBag /\ faults = 0

-----------------------------------------------------------------------------
(* A peer's side.                                                          *)

compute_batch_hash(seed, blocks) == IF blocks = <<>> THEN seed ELSE <<seed, blocks>>

\* Requests out of these limits get no answer.
validate_sync_request(max) == max \in 1..MAX_SYNC_BLOCKS
validate_by_hash_request(hashes) == Len(hashes) \in 1..MAX_BY_HASH_BLOCKS

\* The blocks from `start` on, without a gap, at most `max` of them.
Forward(p, start, max) ==
  LET has(n) == \A i \in 1..n : start + i - 1 \in DOMAIN Chain[p]
      count == CHOOSE n \in 0..max : has(n) /\ \A m \in 0..max : has(m) => m <= n
  IN  [i \in 1..count |-> Chain[p][start + i - 1]]

\* Mutant of Backward: the block at `start` is the first.
BackwardFromStart(p, start, max) ==
  LET has(n) == \A i \in 1..n : start - i + 1 > 0 /\ start - i + 1 \in DOMAIN Chain[p]
      count == CHOOSE n \in 0..max : has(n) /\ \A m \in 0..max : has(m) => m <= n
  IN  [i \in 1..count |-> Chain[p][start - count + i]]

\* The blocks below `start`, down to a gap or to block 1, in ascending order.
Backward(p, start, max) ==
  LET has(n) == \A i \in 1..n : start - i > 0 /\ start - i \in DOMAIN Chain[p]
      count == CHOOSE n \in 0..max : has(n) /\ \A m \in 0..max : has(m) => m <= n
  IN  [i \in 1..count |-> Chain[p][start - count + i - 1]]

\* The anchor is compared with the header hash of the block below, if stored.
ForkMismatch(p, start, known) ==
  /\ known # NoHash
  /\ start - 1 \in DOMAIN Chain[p]
  /\ Hash(Chain[p][start - 1]) # known

serve_block_sync(p, start, max, direction, known) ==
  LET blocks == IF ForkMismatch(p, start, known) THEN <<>>
                ELSE IF direction = "Forward" THEN Forward(p, start, max)
                ELSE Backward(p, start, max)
  IN  [peer |-> p, blocks |-> blocks, highest_height |-> Announced[p],
       batch_hash |-> compute_batch_hash(GenesisHash, blocks)]

\* The elements of s that are in `keep`, in their order.
Selected(s, keep) ==
  LET upto[i \in 0..Len(s)] ==
        IF i = 0 THEN <<>>
        ELSE IF s[i] \in keep THEN Append(upto[i - 1], s[i]) ELSE upto[i - 1]
  IN  upto[Len(s)]

\* Blocks that BLOCK_HASHES knows, in the order asked for; nothing in the repository but
\* a test writes that table, so a peer may know any of its blocks.
serve_block_by_hash(p, known, hashes) ==
  LET stored == known \cap DOMAIN Chain[p]
      block(hash) == Chain[p][CHOOSE h \in stored : Hash(Chain[p][h]) = hash]
      present == Selected(hashes, {Hash(Chain[p][h]) : h \in stored})
  IN  [i \in DOMAIN present |-> block(present[i])]

\* Send a request: its answer is on its way, unless the peer serves nothing or refuses,
\* or the network is full and drops it.
Send(p, start, max, known) ==
  /\ answers' = IF /\ Serves[p] /\ validate_sync_request(max)
                   /\ BagCardinality(answers) < MaxInFlight
                THEN answers (+) SetToBag({serve_block_sync(p, start, max, "Forward", known)})
                ELSE answers
  /\ awaited' = p

-----------------------------------------------------------------------------
(* The loop.                                                               *)

Gap(c) == target > c.height

\* Mutant of LoadCursor: the saved cursor is ignored.
LoadCursorNew == NewCursor

LoadCursor == file

BeginAttempt ==
  /\ pc = "off"
  /\ cursor' = LoadCursor
  /\ Send(Peers[1], 1, 1, NoHash)
  /\ pc' = "tip"
  /\ UNCHANGED <<net, store, file, target, failures, peer_index, incoming, faults>>

\* Any answer of the first peer is taken for the answer to the tip request.
ReceiveTip(a) ==
  /\ pc = "tip" /\ a.peer = awaited
  /\ answers' = answers (-) SetToBag({a})
  /\ \/ a.highest_height <= cursor.height /\ pc' = "off" /\ UNCHANGED target
     \/ a.highest_height > cursor.height /\ pc' = "request" /\ target' = a.highest_height
  /\ failures' = 0 /\ peer_index' = 0
  /\ UNCHANGED <<net, store, file, cursor, awaited, incoming, faults>>

RequestBatch ==
  /\ pc = "request"
  /\ Send(Peers[peer_index + 1], cursor.height + 1, BATCH, cursor.hash)
  /\ peer_index' = (peer_index + 1) % Len(Peers)
  /\ pc' = "batch"
  /\ UNCHANGED <<net, store, file, cursor, target, failures, incoming, faults>>

\* A failure counts, and ends the attempt at the limit.
CountFailure ==
  /\ failures' = failures + 1
  /\ pc' = IF failures + 1 >= MAX_CONSECUTIVE_FAILURES THEN "off" ELSE "request"

\* A broken parent link counts too, but that path does not look at the limit.
CountOnly ==
  /\ failures' = IF failures < MAX_CONSECUTIVE_FAILURES THEN failures + 1 ELSE failures
  /\ pc' = "request"

\* The wait for a batch times out; the answer may still be on its way.
Overdue == MayBeLate \/ \A a \in BagToSet(answers) : a.peer # awaited

\* Mutant of Timeout: the next peer is asked, but the failure is not counted.
TimeoutUncounted ==
  /\ pc = "batch" /\ Overdue
  /\ pc' = "request"
  /\ UNCHANGED <<net, store, file, cursor, target, failures, peer_index, awaited, incoming,
                 answers, faults>>

Timeout ==
  /\ pc = "batch" /\ Overdue
  /\ CountFailure
  /\ UNCHANGED <<net, store, file, cursor, target, peer_index, awaited, incoming, answers, faults>>

\* Mutant of Linked: the batch hash is trusted and parents are not compared.
LinkedAlways(c, blocks) == TRUE

Linked(c, blocks) ==
  \A i \in DOMAIN blocks :
    blocks[i].parent = (IF i = 1 THEN c.hash ELSE Hash(blocks[i - 1]))

BatchHashOk(a) == compute_batch_hash(cursor.hash, a.blocks) = a.batch_hash

ReceiveBatch(a) ==
  /\ pc = "batch" /\ a.peer = awaited
  /\ answers' = answers (-) SetToBag({a})
  /\ \/ /\ a.blocks = <<>> \/ ~BatchHashOk(a)
        /\ CountFailure
        /\ UNCHANGED incoming
     \/ /\ a.blocks # <<>> /\ BatchHashOk(a) /\ ~Linked(cursor, a.blocks)
        /\ CountOnly
        /\ UNCHANGED incoming
     \/ /\ a.blocks # <<>> /\ BatchHashOk(a) /\ Linked(cursor, a.blocks)
        /\ incoming' = a.blocks
        /\ pc' = "store"
        /\ UNCHANGED failures
  /\ UNCHANGED <<net, store, file, cursor, target, peer_index, awaited, faults>>

\* Answers of other peers are read and dropped while waiting.
IgnoreAnswer(a) ==
  /\ pc \in {"tip", "batch"} /\ a.peer # awaited
  /\ answers' = answers (-) SetToBag({a})
  /\ UNCHANGED <<net, store, file, cursor, loop, faults>>

\* One put per block, and with the last one the cursor moves and is saved.  A
\* failed save is only logged: the file is as it was, or does not parse and
\* stands for a new cursor.
PutBlock ==
  LET b == Head(incoming)
      last == Len(incoming) = 1
  IN
  /\ pc = "store"
  /\ store' = [store EXCEPT ![b.height] = b]
  /\ incoming' = Tail(incoming)
  /\ \/ /\ ~last
        /\ UNCHANGED <<cursor, file, failures, pc>>
     \/ /\ last
        /\ cursor' = [height |-> b.height, hash |-> Hash(b)]
        /\ file' \in {cursor', file, NewCursor}
        /\ failures' = 0
        /\ pc' = IF Gap(cursor') THEN "request" ELSE "off"
  /\ UNCHANGED <<net, target, peer_index, awaited, answers, faults>>

-----------------------------------------------------------------------------
(* Faults.                                                                 *)

Fault == faults < MaxFaults /\ faults' = faults + 1

Restart == pc' = "off" /\ incoming' = <<>> /\ cursor' = file

\* A request cannot be sent or a put fails: the attempt returns the error.
AttemptFails ==
  /\ pc \in {"request", "store"} /\ Fault
  /\ Restart
  /\ UNCHANGED <<net, store, file, target, failures, peer_index, awaited, answers>>

\* The process dies, and its connections with it.
Crash ==
  /\ pc # "off" /\ Fault
  /\ Restart
  /\ answers' = EmptyBag
  /\ UNCHANGED <<net, store, file, target, failures, peer_index, awaited>>

LoseAnswer(a) ==
  /\ Fault
  /\ answers' = answers (-) SetToBag({a})
  /\ UNCHANGED <<net, store, file, cursor, loop>>

-----------------------------------------------------------------------------
Receive == \E a \in BagToSet(answers) : ReceiveTip(a) \/ ReceiveBatch(a) \/ IgnoreAnswer(a)

Loop == BeginAttempt \/ RequestBatch \/ PutBlock

Next ==
  \/ BeginAttempt \/ RequestBatch \/ PutBlock
  \/ \E a \in BagToSet(answers) : ReceiveTip(a) \/ ReceiveBatch(a) \/ IgnoreAnswer(a)
  \/ Timeout
  \/ AttemptFails \/ Crash
  \/ \E a \in BagToSet(answers) : LoseAnswer(a)

Spec == Init /\ [][Next]_vars

\* The caller retries, the loop runs, what has arrived is read and timers fire.
LiveSpec == Spec /\ WF_vars(Loop) /\ WF_vars(Receive) /\ WF_vars(Timeout)

-----------------------------------------------------------------------------
(* Properties.                                                             *)

\* The blocks up to a cursor are stored, linked down to genesis, and end in the
\* hash the cursor names.
Backed(c) ==
  IF c.height = 0 THEN c.hash = GenesisHash
  ELSE /\ \A h \in 1..c.height :
            /\ store[h].height = h
            /\ store[h].parent = (IF h = 1 THEN GenesisHash ELSE Hash(store[h - 1]))
       /\ Hash(store[c.height]) = c.hash

\* Neither a late answer, nor a peer on another fork, nor an interruption between
\* two puts or before the save leaves a cursor, in memory or on disk, that claims
\* blocks the node does not hold as one chain.
SyncedChainLinked == Backed(cursor) /\ Backed(file)

\* What the saved cursor covers is final for this node: no later attempt, from
\* whichever peer, puts another block there.
VerifiedStays == [][\A h \in 1..file.height : store'[h] = store[h]]_vars

\* A range of blocks is the same whichever way it is asked for: going up from its first
\* height, going down from the height above its last (a request the limits let through
\* whenever they let the first through), or by its hashes, if they are not too many; and
\* where the index lacks some, the answer by hashes is the rest in the same order.
ServedAgree ==
  \A i \in DOMAIN Peers : \A start \in Heights, max \in 0..MaxHeight + 1 :
    LET p == Peers[i]
        up == serve_block_sync(p, start, max, "Forward", NoHash).blocks
        hashes == [k \in DOMAIN up |-> Hash(up[k])]
    IN  validate_sync_request(max) /\ up # <<>> =>
          /\ validate_sync_request(Len(up))
          /\ serve_block_sync(p, start + Len(up), Len(up), "Backward", NoHash).blocks = up
          /\ validate_by_hash_request(hashes) =>
               \A known \in SUBSET (DOMAIN Chain[p]) :
                 serve_block_by_hash(p, known, hashes) =
                   Selected(up, {Chain[p][h] : h \in known})

\* Once an attempt knows a tip it comes to an end, well or not, and the caller may start
\* another: whether peers answer late, from another fork, from another request or not at
\* all, it makes progress, or rotates through them until the failures reach the limit.
AttemptEnds == pc = "request" ~> pc = "off"
=============================================================================
