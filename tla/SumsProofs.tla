----------------------------- MODULE SumsProofs -----------------------------
(***************************************************************************)
(* Facts about the finite sums of module Sums.  They are proved by taking  *)
(* the least counterexample, since the recursive function itself gives the *)
(* provers no induction principle.                                         *)
(***************************************************************************)
EXTENDS Sums, WellFoundedInduction, TLAPS

\* Every non-empty set of naturals has a least element: the induction principle
\* of the lemmas below.
LEMMA LeastNatural ==
  ASSUME NEW T \in SUBSET Nat, T # {}
  PROVE  \E x \in T : \A y \in T : x <= y
<1>1. PICK x \in T : \A y \in T : ~ (<<y, x>> \in OpToRel(<, Nat))
  BY NatLessThanWellFounded, WFMin
<1>2. \A y \in T : ~ (y < x)
  BY <1>1 DEF OpToRel
<1>3. QED
  BY <1>2

\* Induction up to n, over a set.
LEMMA UpTo ==
  ASSUME NEW n \in Nat, NEW S, 0 \in S, \A m \in 0..(n - 1) : m \in S => m + 1 \in S
  PROVE  \A m \in 0..n : m \in S
<1> DEFINE Bad == {m \in 0..n : m \notin S}
<1> SUFFICES ASSUME Bad # {} PROVE FALSE
  OBVIOUS
<1>1. PICK x \in Bad : \A y \in Bad : x <= y
  <2> Bad \in SUBSET Nat
    OBVIOUS
  <2> QED BY LeastNatural
<1>2. x - 1 \in 0..(n - 1) /\ x - 1 \in S
  BY <1>1
<1>3. (x - 1) + 1 = x
  BY <1>1
<1> QED BY <1>2, <1>3

\* PartialSums satisfies its recursion: the function its definition chooses exists.
LEMMA PartialSumsRecursion ==
  ASSUME NEW n \in Nat, NEW f \in [0..(n - 1) -> Nat]
  PROVE  PartialSums(f, n) =
           [i \in 0..n |-> IF i = 0 THEN 0 ELSE PartialSums(f, n)[i - 1] + f[i - 1]]
<1> DEFINE Ok(m) == \E g : g = [i \in 0..m |-> IF i = 0 THEN 0 ELSE g[i - 1] + f[i - 1]]
           Bad == {m \in 0..n : ~Ok(m)}
<1>1. Bad = {}
  <2> SUFFICES ASSUME Bad # {} PROVE FALSE
    OBVIOUS
  <2>1. PICK x \in Bad : \A y \in Bad : x <= y
    <3> Bad \in SUBSET Nat
      OBVIOUS
    <3> QED BY LeastNatural
  <2>2. x # 0
    <3>1. [i \in 0..0 |-> 0] =
            [i \in 0..0 |-> IF i = 0 THEN 0
                            ELSE [j \in 0..0 |-> 0][i - 1] + f[i - 1]]
      OBVIOUS
    <3>2. Ok(0)
      BY <3>1
    <3> QED BY <3>2
  <2>3. Ok(x - 1)
    <3>1. x - 1 \in 0..n /\ x - 1 \notin Bad
      <4> HIDE DEF Ok
      <4> QED BY <2>1, <2>2
    <3> HIDE DEF Ok
    <3> QED BY <3>1
  <2>4. PICK g : g = [i \in 0..(x - 1) |-> IF i = 0 THEN 0 ELSE g[i - 1] + f[i - 1]]
    BY <2>3
  <2> DEFINE h == [i \in 0..x |-> IF i = x THEN g[x - 1] + f[x - 1] ELSE g[i]]
  <2>5. \A i \in 0..x : h[i] = IF i = 0 THEN 0 ELSE h[i - 1] + f[i - 1]
    <3> SUFFICES ASSUME NEW i \in 0..x
                 PROVE  h[i] = IF i = 0 THEN 0 ELSE h[i - 1] + f[i - 1]
      OBVIOUS
    <3>1. CASE i = x
      BY <3>1, <2>2
    <3>2. CASE i # x
      <4>1. i \in 0..(x - 1) /\ h[i] = g[i]
        BY <3>2
      <4>2. g[i] = IF i = 0 THEN 0 ELSE g[i - 1] + f[i - 1]
        BY <2>4, <4>1
      <4>3. i # 0 => h[i - 1] = g[i - 1]
        BY <3>2
      <4> QED BY <4>1, <4>2, <4>3
    <3> QED BY <3>1, <3>2
  <2>6. h = [i \in 0..x |-> IF i = 0 THEN 0 ELSE h[i - 1] + f[i - 1]]
    BY <2>5
  <2>7. Ok(x)
    BY <2>6
  <2> QED BY <2>7
<1>2. Ok(n)
  <2> HIDE DEF Ok
  <2> QED BY <1>1
<1>3. PICK g : g = [i \in 0..n |-> IF i = 0 THEN 0 ELSE g[i - 1] + f[i - 1]]
  BY <1>2
<1> QED
  BY <1>3, Zenon DEF PartialSums

\* The partial sums of naturals are naturals.
LEMMA PartialSumsType ==
  ASSUME NEW n \in Nat, NEW f \in [0..(n - 1) -> Nat]
  PROVE  PartialSums(f, n) \in [0..n -> Nat]
<1> DEFINE s == PartialSums(f, n)
           Bad == {m \in 0..n : s[m] \notin Nat}
<1>0. /\ s = [i \in 0..n |-> IF i = 0 THEN 0 ELSE s[i - 1] + f[i - 1]]
  BY PartialSumsRecursion
<1> HIDE DEF s
<1>1. Bad = {}
  <2> SUFFICES ASSUME Bad # {} PROVE FALSE
    OBVIOUS
  <2>1. PICK x \in Bad : \A y \in Bad : x <= y
    <3> Bad \in SUBSET Nat
      OBVIOUS
    <3> QED BY LeastNatural
  <2>2. x # 0
    BY <1>0
  <2>3. x - 1 \in 0..n /\ s[x - 1] \in Nat
    BY <2>1, <2>2
  <2>4. s[x] = s[x - 1] + f[x - 1]
    BY <1>0, <2>2
  <2>5. f[x - 1] \in Nat
    BY <2>2
  <2> QED BY <2>3, <2>4, <2>5
<1> QED
  BY <1>0, <1>1 DEF s

\* A sum of naturals is a natural, and the two ends of the recursion.
LEMMA TotalType ==
  ASSUME NEW n \in Nat, NEW f \in [0..(n - 1) -> Nat]
  PROVE  Total(f, n) \in Nat
BY PartialSumsType DEF Total

\* The recursion, index by index.
LEMMA PartialSumsStep ==
  ASSUME NEW n \in Nat, NEW f \in [0..(n - 1) -> Nat]
  PROVE  /\ PartialSums(f, n)[0] = 0
         /\ \A i \in 1..n : PartialSums(f, n)[i] = PartialSums(f, n)[i - 1] + f[i - 1]
<1> DEFINE s == PartialSums(f, n)
<1>1. s = [i \in 0..n |-> IF i = 0 THEN 0 ELSE s[i - 1] + f[i - 1]]
  BY PartialSumsRecursion
<1> HIDE DEF s
<1>2. s[0] = 0 /\ \A i \in 1..n : s[i] = s[i - 1] + f[i - 1]
  BY <1>1
<1> QED BY <1>2 DEF s

\* Changing one summand changes the sum by the difference.
LEMMA TotalUpdate ==
  ASSUME NEW n \in Nat, NEW f \in [0..(n - 1) -> Nat],
         NEW k \in 0..(n - 1), NEW v \in Nat
  PROVE  Total([f EXCEPT ![k] = v], n) + f[k] = Total(f, n) + v
<1> DEFINE g == [f EXCEPT ![k] = v]
           s == PartialSums(f, n)
           t == PartialSums(g, n)
           Good(m) == t[m] + (IF m > k THEN f[k] ELSE 0) = s[m] + (IF m > k THEN v ELSE 0)
           Bad == {m \in 0..n : ~Good(m)}
<1>0. g \in [0..(n - 1) -> Nat] /\ \A i \in 0..(n - 1) : g[i] = IF i = k THEN v ELSE f[i]
  OBVIOUS
<1>1. /\ s \in [0..n -> Nat] /\ t \in [0..n -> Nat]
      /\ s[0] = 0 /\ \A i \in 1..n : s[i] = s[i - 1] + f[i - 1]
      /\ t[0] = 0 /\ \A i \in 1..n : t[i] = t[i - 1] + g[i - 1]
  <2> HIDE DEF g
  <2> QED BY <1>0, PartialSumsType, PartialSumsStep
<1> HIDE DEF s, t, g
<1>2. Bad = {}
  <2> SUFFICES ASSUME Bad # {} PROVE FALSE
    OBVIOUS
  <2>1. PICK x \in Bad : \A y \in Bad : x <= y
    <3> Bad \in SUBSET Nat
      OBVIOUS
    <3> QED BY LeastNatural
  <2>2. x # 0
    BY <1>1
  <2>3. x - 1 \in 0..n /\ Good(x - 1)
    BY <2>1, <2>2
  <2>4. /\ s[x] = s[x - 1] + f[x - 1] /\ t[x] = t[x - 1] + g[x - 1]
        /\ g[x - 1] = IF x - 1 = k THEN v ELSE f[x - 1]
        /\ s[x - 1] \in Nat /\ t[x - 1] \in Nat /\ f[x - 1] \in Nat /\ f[k] \in Nat
    <3>1. x \in 1..n /\ x - 1 \in 0..n /\ x - 1 \in 0..(n - 1)
      BY <2>2
    <3> QED BY <3>1, <1>0, <1>1
  <2>5. Good(x)
    <3>0. x \in Nat
      OBVIOUS
    <3> HIDE DEF Bad
    <3>1. CASE x - 1 = k
      BY <2>3, <2>4, <3>0, <3>1
    <3>2. CASE x - 1 > k
      <4>1. x > k /\ x - 1 # k
        BY <3>0, <3>2
      <4>2. t[x - 1] + f[k] = s[x - 1] + v
        BY <2>3, <3>2
      <4>3. s[x] = s[x - 1] + f[x - 1] /\ t[x] = t[x - 1] + f[x - 1]
        BY <2>4, <4>1
      <4>4. t[x] + f[k] = s[x] + v
        <5> DEFINE a == t[x - 1]
                   b == s[x - 1]
                   c == f[k]
                   e == f[x - 1]
        <5>1. /\ a \in Nat /\ b \in Nat /\ c \in Nat /\ e \in Nat
              /\ a + c = b + v /\ t[x] = a + e /\ s[x] = b + e
          BY <2>4, <4>2, <4>3
        <5> HIDE DEF a, b, c, e
        <5>2. t[x] + c = s[x] + v
          BY <5>1
        <5> QED BY <5>2 DEF c
      <4> QED BY <4>1, <4>4
    <3>3. CASE x - 1 < k
      BY <2>3, <2>4, <3>0, <3>3
    <3> QED BY <3>0, <3>1, <3>2, <3>3
  <2> QED BY <2>5
<1>3. Good(n)
  BY <1>2
<1>4. t[n] + f[k] = s[n] + v
  BY <1>3
<1> QED BY <1>4 DEF Total, s, t, g

\* Sums add up pointwise.
LEMMA TotalAdd ==
  ASSUME NEW n \in Nat, NEW f \in [0..(n - 1) -> Nat], NEW g \in [0..(n - 1) -> Nat]
  PROVE  Total([i \in 0..(n - 1) |-> f[i] + g[i]], n) = Total(f, n) + Total(g, n)
<1> DEFINE h == [i \in 0..(n - 1) |-> f[i] + g[i]]
           s == PartialSums(f, n)
           t == PartialSums(g, n)
           u == PartialSums(h, n)
           Bad == {m \in 0..n : u[m] # s[m] + t[m]}
<1>0. h \in [0..(n - 1) -> Nat] /\ \A i \in 0..(n - 1) : h[i] = f[i] + g[i]
  OBVIOUS
<1>1. /\ s \in [0..n -> Nat] /\ t \in [0..n -> Nat] /\ u \in [0..n -> Nat]
      /\ s[0] = 0 /\ \A i \in 1..n : s[i] = s[i - 1] + f[i - 1]
      /\ t[0] = 0 /\ \A i \in 1..n : t[i] = t[i - 1] + g[i - 1]
      /\ u[0] = 0 /\ \A i \in 1..n : u[i] = u[i - 1] + h[i - 1]
  <2> HIDE DEF h
  <2> QED BY <1>0, PartialSumsType, PartialSumsStep
<1> HIDE DEF s, t, u, h
<1>2. Bad = {}
  <2> SUFFICES ASSUME Bad # {} PROVE FALSE
    OBVIOUS
  <2>1. PICK x \in Bad : \A y \in Bad : x <= y
    <3> Bad \in SUBSET Nat
      OBVIOUS
    <3> QED BY LeastNatural
  <2>2. x # 0
    BY <1>1
  <2>3. x - 1 \in 0..n /\ u[x - 1] = s[x - 1] + t[x - 1]
    BY <2>1, <2>2
  <2>4. /\ s[x] = s[x - 1] + f[x - 1] /\ t[x] = t[x - 1] + g[x - 1]
        /\ u[x] = u[x - 1] + f[x - 1] + g[x - 1]
        /\ s[x - 1] \in Nat /\ t[x - 1] \in Nat /\ f[x - 1] \in Nat /\ g[x - 1] \in Nat
    <3>1. x \in 1..n /\ x - 1 \in 0..n /\ x - 1 \in 0..(n - 1)
      BY <2>2
    <3>2. h[x - 1] = f[x - 1] + g[x - 1] /\ u[x] = u[x - 1] + h[x - 1] /\ u[x - 1] \in Nat
      BY <3>1, <1>0, <1>1
    <3>3. /\ s[x] = s[x - 1] + f[x - 1] /\ t[x] = t[x - 1] + g[x - 1]
          /\ s[x - 1] \in Nat /\ t[x - 1] \in Nat /\ f[x - 1] \in Nat /\ g[x - 1] \in Nat
      BY <3>1, <1>1
    <3> QED BY <3>2, <3>3
  <2>5. u[x] = s[x] + t[x]
    BY <2>3, <2>4
  <2> QED BY <2>5
<1>3. u[n] = s[n] + t[n]
  BY <1>2
<1> QED BY <1>3 DEF Total, s, t, u, h

\* A sum of larger terms is larger.
LEMMA TotalMonotone ==
  ASSUME NEW n \in Nat, NEW f \in [0..(n - 1) -> Nat], NEW g \in [0..(n - 1) -> Nat],
         \A i \in 0..(n - 1) : f[i] <= g[i]
  PROVE  Total(f, n) <= Total(g, n)
<1> DEFINE d == [i \in 0..(n - 1) |-> g[i] - f[i]]
           s == [i \in 0..(n - 1) |-> f[i] + d[i]]
<1>1. d \in [0..(n - 1) -> Nat]
  OBVIOUS
<1>2. s = g
  OBVIOUS
<1>3. Total(s, n) = Total(f, n) + Total(d, n)
  <2> HIDE DEF d
  <2> QED BY <1>1, TotalAdd
<1>4. Total(f, n) \in Nat /\ Total(d, n) \in Nat
  <2> HIDE DEF d
  <2> QED BY <1>1, TotalType
<1> HIDE DEF d, s
<1> QED BY <1>2, <1>3, <1>4

\* Two facts about products that the next lemma needs in isolation.
LEMMA ScaledSum ==
  ASSUME NEW t \in Nat, NEW a \in Nat, NEW b \in Nat, NEW r \in Nat,
         NEW c \in Nat, NEW d \in Nat,
         t * a <= r * c, t * b <= r * d
  PROVE  t * (a + b) <= r * (c + d)
<1> DEFINE ta == t * a
           tb == t * b
           rc == r * c
           rd == r * d
<1>1. t * (a + b) = ta + tb /\ r * (c + d) = rc + rd
  OBVIOUS
<1>2. ta \in Nat /\ tb \in Nat /\ rc \in Nat /\ rd \in Nat
  OBVIOUS
<1>3. ta <= rc /\ tb <= rd
  OBVIOUS
<1> HIDE DEF ta, tb, rc, rd
<1>4. ta + tb <= rc + rd
  BY <1>2, <1>3
<1> QED BY <1>1, <1>4

LEMMA ScaledCancel ==
  ASSUME NEW t \in Nat \ {0}, NEW a \in Nat, NEW r \in Nat, t * a <= r * t
  PROVE  a <= r
<1> SUFFICES ASSUME a >= r + 1 PROVE FALSE
  OBVIOUS
<1> DEFINE k == a - (r + 1)
           tr == t * r
           tk == t * k
<1>1. k \in Nat /\ a = r + 1 + k
  OBVIOUS
<1>2. t * a = tr + t + tk
  <2> HIDE DEF k
  <2> QED BY <1>1
<1>3. tr \in Nat /\ tk \in Nat
  <2> HIDE DEF k
  <2> QED BY <1>1
<1>4. r * t = tr
  OBVIOUS
<1> HIDE DEF tr, tk
<1> QED BY <1>2, <1>3, <1>4

\* Pro-rata shares rounded down never add up to more than what is shared.
LEMMA SharesBounded ==
  ASSUME NEW n \in Nat, NEW w \in [0..(n - 1) -> Nat], NEW fees \in Nat,
         Total(w, n) > 0
  PROVE  LET share == [i \in 0..(n - 1) |-> (fees * w[i]) \div Total(w, n)]
         IN  /\ share \in [0..(n - 1) -> Nat]
             /\ Total(share, n) <= fees
<1> DEFINE T == Total(w, n)
           share == [i \in 0..(n - 1) |-> (fees * w[i]) \div T]
           s == PartialSums(w, n)
           p == PartialSums(share, n)
           Bad == {m \in 0..n : ~(T * p[m] <= fees * s[m])}
<1>0. T \in Nat \ {0}
  BY TotalType
<1>1. ASSUME NEW i \in 0..(n - 1)
      PROVE  /\ (fees * w[i]) \div T \in Nat
             /\ T * ((fees * w[i]) \div T) <= fees * w[i]
  <2> HIDE DEF T
  <2>1. fees * w[i] \in Nat
    OBVIOUS
  <2> DEFINE x == fees * w[i]
  <2> HIDE DEF x
  <2>2. x \in Nat
    BY <2>1 DEF x
  <2>3. x \div T \in Nat /\ T * (x \div T) <= x
    BY <1>0, <2>2
  <2> QED BY <2>3 DEF x
<1>2. /\ share \in [0..(n - 1) -> Nat]
      /\ \A i \in 0..(n - 1) : T * share[i] <= fees * w[i]
  <2> HIDE DEF T
  <2> QED BY <1>1
<1>3. /\ s \in [0..n -> Nat] /\ p \in [0..n -> Nat]
      /\ s[0] = 0 /\ \A i \in 1..n : s[i] = s[i - 1] + w[i - 1]
      /\ p[0] = 0 /\ \A i \in 1..n : p[i] = p[i - 1] + share[i - 1]
  <2> HIDE DEF share
  <2> QED BY <1>2, PartialSumsType, PartialSumsStep
<1>4. s[n] = T
  BY DEF Total
<1>5. p[n] = Total(share, n)
  BY DEF Total
<1> HIDE DEF s, p, share, T
<1>6. Bad = {}
  <2> SUFFICES ASSUME Bad # {} PROVE FALSE
    OBVIOUS
  <2>1. PICK x \in Bad : \A y \in Bad : x <= y
    <3> Bad \in SUBSET Nat
      OBVIOUS
    <3> QED BY LeastNatural
  <2>2. x # 0
    BY <1>0, <1>3
  <2>3. x - 1 \in 0..n /\ T * p[x - 1] <= fees * s[x - 1]
    BY <2>1, <2>2
  <2>4. /\ s[x] = s[x - 1] + w[x - 1] /\ p[x] = p[x - 1] + share[x - 1]
        /\ T * share[x - 1] <= fees * w[x - 1]
        /\ s[x - 1] \in Nat /\ p[x - 1] \in Nat /\ share[x - 1] \in Nat /\ w[x - 1] \in Nat
    <3>1. x \in 1..n /\ x - 1 \in 0..n /\ x - 1 \in 0..(n - 1)
      BY <2>2
    <3> QED BY <3>1, <1>2, <1>3
  <2>8. T * p[x] <= fees * s[x]
    <3> HIDE DEF Bad
    <3> QED BY <2>3, <2>4, <1>0, ScaledSum
  <2> QED BY <2>8
<1>7. T * p[n] <= fees * T
  BY <1>6, <1>4
<1>8. p[n] <= fees
  BY <1>3, <1>7, <1>0, ScaledCancel
<1> QED
  BY <1>2, <1>5, <1>8 DEF share, T
=============================================================================
