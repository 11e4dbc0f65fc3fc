-------------------------------- MODULE Sums --------------------------------
(***************************************************************************)
(* Finite sums over an index range, as a recursive function: PartialSums(f,n)[i] *)
(* is f[0] + ... + f[i-1].  The program adds amounts up in loops over      *)
(* vectors; the specifications use Total wherever the code has such a      *)
(* loop.                                                                   *)
(***************************************************************************)
EXTENDS Naturals

PartialSums(f, n) ==
  LET s[i \in 0..n] == IF i = 0 THEN 0 ELSE s[i - 1] + f[i - 1]
  IN  s

\* The sum of f over 0..(n-1).
Total(f, n) == PartialSums(f, n)[n]
=============================================================================
