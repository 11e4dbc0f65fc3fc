-------------------------------- MODULE Trie --------------------------------
(***************************************************************************)
(* The sparse Merkle tree of crypto/trie.rs: only leaves that were written *)
(* are kept, an absent subtree has the default hash of its depth, and the  *)
(* root is computed when asked for and cached until the next insert.       *)
(*                                                                         *)
(* Simplifications.  The tree is DEPTH levels deep (256 in the code).      *)
(* BLAKE3 is injective: the hash of a value is <<v>>, of two children      *)
(* <<l, r>>, and the path of a key is a constant.                          *)
(***************************************************************************)
EXTENDS Naturals

CONSTANTS
  DEPTH,
  PathOf          \* the leaf position of each key

TrieKeys == DOMAIN PathOf

\* The positions of the level that is d levels below the root: 2^d of them.
Width[d \in 0..DEPTH] == IF d = 0 THEN 1 ELSE 2 * Width[d - 1]

ASSUME TrieAssumption ==
  /\ DEPTH \in Nat \ {0}
  /\ PathOf \in [TrieKeys -> 0..(Width[DEPTH] - 1)]
  /\ \A j, k \in TrieKeys : PathOf[j] = PathOf[k] => j = k

EMPTY_HASH == <<>>
HashLeaf(value) == <<value>>
HashNode(left, right) == <<left, right>>

\* compute_defaults: the hash of an empty subtree of each depth.
defaults[d \in 0..DEPTH] ==
  IF d = 0 THEN EMPTY_HASH ELSE HashNode(defaults[d - 1], defaults[d - 1])

\* cached_root is None; no root of a tree of positive depth is <<>>.
NoRoot == <<>>

EmptyTrie == [leaves |-> <<>>, cached_root |-> NoRoot]

\* f with the key set to the value.
With(f, key, value) == [k \in DOMAIN f \cup {key} |-> IF k = key THEN value ELSE f[k]]

\* Mutant of insert: the cached root outlives the write.
insert_cached(trie, key, value) ==
  [leaves |-> With(trie.leaves, key, value), cached_root |-> trie.cached_root]

insert(trie, key, value) ==
  [leaves |-> With(trie.leaves, key, value), cached_root |-> NoRoot]

\* The nodes of a level, from those of the level below: a sibling that is not there
\* has the default hash, and the lower position goes left.
LevelAbove(nodes, depth) ==
  LET hash(pos) == IF pos \in DOMAIN nodes THEN nodes[pos] ELSE defaults[depth]
  IN  [pos \in {p \div 2 : p \in DOMAIN nodes} |-> HashNode(hash(2 * pos), hash(2 * pos + 1))]

compute_root(leaves) ==
  LET level[d \in 0..DEPTH] ==
        IF d = 0
        THEN [pos \in {PathOf[k] : k \in DOMAIN leaves} |->
                HashLeaf(leaves[CHOOSE k \in DOMAIN leaves : PathOf[k] = pos])]
        ELSE LevelAbove(level[d - 1], d - 1)
  IN  level[DEPTH][0]

root(trie) ==
  CASE trie.cached_root # NoRoot -> trie.cached_root
    [] trie.cached_root = NoRoot /\ DOMAIN trie.leaves = {} -> defaults[DEPTH]
    [] OTHER -> compute_root(trie.leaves)

\* What root leaves behind: an empty tree caches nothing.
Rooted(trie) ==
  IF DOMAIN trie.leaves = {} THEN trie ELSE [trie EXCEPT !.cached_root = root(trie)]

\* Reference: the hash of the whole tree, every leaf of it spelt out.
LeafAt(leaves, pos) ==
  IF \E k \in DOMAIN leaves : PathOf[k] = pos
  THEN HashLeaf(leaves[CHOOSE k \in DOMAIN leaves : PathOf[k] = pos])
  ELSE EMPTY_HASH

ReferenceRoot(leaves) ==
  LET full[d \in 0..DEPTH] ==
        [pos \in Nat |->
           IF d = 0 THEN LeafAt(leaves, pos)
           ELSE HashNode(full[d - 1][2 * pos], full[d - 1][2 * pos + 1])]
  IN  full[DEPTH][0]
=============================================================================
