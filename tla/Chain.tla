------------------------------- MODULE Chain --------------------------------
(***************************************************************************)
(* What a node promises the rest of the network, whatever happens to its   *)
(* process: a chain that only grows at its top, each block on the one      *)
(* below it, and of which only the top block is ever announced.  Node.tla  *)
(* implements it.                                                          *)
(***************************************************************************)
EXTENDS Naturals

VARIABLES
  chain,        \* the blocks, by height
  announced     \* the blocks others may have seen

vars == <<chain, announced>>

Init == DOMAIN chain = {} /\ announced = {}

\* chain' is chain with one more block on top, at height n.
Grows(n) ==
  /\ DOMAIN chain = 0..(n - 1) /\ DOMAIN chain' = 0..n
  /\ \A h \in DOMAIN chain : chain'[h] = chain[h]
  /\ chain'[n].height = n
  /\ n > 0 => chain'[n].parent = chain[n - 1].hash

Extend ==
  /\ \E n \in DOMAIN chain' : Grows(n)
  /\ UNCHANGED announced

\* The top of the chain is shown to the network.
Announce ==
  /\ \E n \in DOMAIN chain :
       /\ \A h \in DOMAIN chain : h <= n
       /\ announced' = announced \cup {chain[n]}
  /\ UNCHANGED chain

Next == Extend \/ Announce

Spec == Init /\ [][Next]_vars
=============================================================================
