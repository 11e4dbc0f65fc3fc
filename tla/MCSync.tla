------------------------------- MODULE MCSync -------------------------------
(***************************************************************************)
(* Chains as the repository has them.  "Library" peers hold no block 0 and *)
(* their first block names the genesis hash, as in the unit tests; a real  *)
(* node stores the genesis block, whose header hash is another value, and  *)
(* its first block names that.                                             *)
(***************************************************************************)
EXTENDS Sync

CONSTANTS G, None, pa, pb, pr

Block(h, parent, hash) == [height |-> h, parent |-> parent, hash |-> hash]

LibraryChain(fork, n) ==
  [h \in 1..n |-> Block(h, IF h = 1 THEN G ELSE <<fork, h - 1>>, <<fork, h>>)]
NodeChain(fork, n) ==
  [h \in 0..n |-> Block(h, IF h = 0 THEN None ELSE <<fork, h - 1>>, <<fork, h>>)]

\* Peers on three forks, one of them a real node; answers may be late.
Mixed ==
  LET chain == [p \in {pa, pb, pr} |->
                  IF p = pr THEN NodeChain("r", 2)
                  ELSE IF p = pa THEN LibraryChain("a", 3) ELSE LibraryChain("b", 2)]
  IN  [peers |-> <<pr, pa, pb>>, chain |-> chain, late |-> TRUE,
       serves |-> [p \in {pa, pb, pr} |-> TRUE],
       announced |-> [p \in {pa, pb, pr} |-> TipOf(chain[p])]]

\* A chain that fits one batch, and a peer that never answers.
SilentSecond ==
  [peers |-> <<pa, pb>>, chain |-> [p \in {pa, pb} |-> LibraryChain("a", 2)], late |-> FALSE,
   serves |-> [p \in {pa, pb} |-> p = pa], announced |-> [p \in {pa, pb} |-> 2]]

MCNetworks == {Mixed, SilentSecond}
=============================================================================
