----------------------------- MODULE LeastNumber -----------------------------
(***************************************************************************)
(* The least-number principle for sets of natural numbers, and what rests  *)
(* on it: Min and Max return what they should, and an induction is the     *)
(* absence of a least counterexample.                                      *)
(***************************************************************************)
EXTENDS Integers, FiniteSetsExt, WellFoundedInduction, TLAPS

\* A set of natural numbers that is not empty has a least element.
LEMMA Least ==
    ASSUME NEW T \in SUBSET Nat, T # {}
    PROVE  \E n \in T : \A m \in T : n <= m
<1> DEFINE R == OpToRel(<, Nat)
<1>1. IsWellFoundedOn(R, Nat)
  BY NatLessThanWellFounded
<1>2. R = {ss \in Nat \X Nat : ss[1] < ss[2]}
  BY DEF OpToRel
<1> HIDE DEF R
<1>3. PICK n \in T : \A m \in T : ~ (<<m, n>> \in R)
  BY <1>1, WFMin, Zenon
<1>4. \A m \in T : ~(m < n)
  BY <1>2, <1>3
<1> QED BY <1>4

\* A bounded set of natural numbers that is not empty has a greatest element.
LEMMA Greatest ==
    ASSUME NEW k \in Nat, NEW T \in SUBSET (0..k), T # {}
    PROVE  \E n \in T : \A m \in T : m <= n
<1> DEFINE Below == {k - n : n \in T}
<1>0. \A n \in T : k - n \in Nat
  OBVIOUS
<1>1. Below \in SUBSET Nat /\ Below # {}
  BY <1>0
<1>2. PICK b \in Below : \A c \in Below : b <= c
  <2> HIDE DEF Below
  <2> QED BY <1>1, Least
<1>3. PICK n \in T : b = k - n
  BY <1>2
<1>4. \A m \in T : k - m \in Below /\ b <= k - m
  BY <1>2
<1> QED BY <1>3, <1>4

\* Min is the least element.
LEMMA MinIsLeast ==
    ASSUME NEW T \in SUBSET Nat, T # {}
    PROVE  Min(T) \in T /\ \A m \in T : Min(T) <= m
<1>1. \E n \in T : \A m \in T : n <= m
  BY Least
<1> QED BY <1>1 DEF Min

\* Max is the greatest element of a bounded set.
LEMMA MaxIsGreatest ==
    ASSUME NEW k \in Nat, NEW T \in SUBSET (0..k), T # {}
    PROVE  Max(T) \in T /\ \A m \in T : m <= Max(T)
<1>1. \E n \in T : \A m \in T : n >= m
  BY Greatest
<1> QED BY <1>1 DEF Max

\* Induction up to a number: a set that has 0, and with each number the next,
\* has them all.
LEMMA Induct ==
    ASSUME NEW k \in Nat, NEW G, 0 \in G, \A n \in 1..k : n - 1 \in G => n \in G
    PROVE  \A n \in 0..k : n \in G
<1> DEFINE Fails == {n \in 0..k : n \notin G}
<1> SUFFICES ASSUME Fails # {} PROVE FALSE
  OBVIOUS
<1>1. Fails \in SUBSET Nat
  OBVIOUS
<1>2. PICK n \in Fails : \A m \in Fails : n <= m
  <2> HIDE DEF Fails
  <2> QED BY <1>1, Least
<1>3. n \in 1..k /\ n - 1 \in 0..k /\ n - 1 \notin Fails
  BY <1>2
<1> QED BY <1>3

\* Up to k, f is defined by recursion: it begins with b, and each value is got
\* from the one before.
Follows(f, k, b, step) == f[0] = b /\ \A n \in 1..k : f[n] = step[n][f[n - 1]]

\* A function defined by recursion exists.
LEMMA Recursion ==
    ASSUME NEW k \in Nat, NEW S, NEW b \in S, NEW step \in [1..k -> [S -> S]]
    PROVE  \E f \in [0..k -> S] : Follows(f, k, b, step)
<1> DEFINE G == {n \in 0..k : \E f \in [0..k -> S] : Follows(f, n, b, step)}
<1>1. 0 \in G
  <2> DEFINE f == [n \in 0..k |-> b]
  <2>1. f \in [0..k -> S] /\ Follows(f, 0, b, step)
    BY DEF Follows
  <2> HIDE DEF f
  <2> QED BY <2>1
<1>2. ASSUME NEW n \in 1..k, n - 1 \in G PROVE n \in G
  <2>1. PICK f \in [0..k -> S] : Follows(f, n - 1, b, step)
    BY <1>2
  <2> DEFINE g == [f EXCEPT ![n] = step[n][f[n - 1]]]
  <2>2. f[n - 1] \in S /\ step[n][f[n - 1]] \in S
    OBVIOUS
  <2>3. g \in [0..k -> S] /\ g[n] = step[n][f[n - 1]]
        /\ \A m \in 0..k : m # n => g[m] = f[m]
    BY <2>2
  <2>4. g[0] = b
    BY <2>1, <2>3 DEF Follows
  <2>5. Follows(g, n, b, step)
    <3> SUFFICES ASSUME NEW m \in 1..n PROVE g[m] = step[m][g[m - 1]]
      BY <2>4 DEF Follows
    <3>1. m - 1 \in 0..k /\ m - 1 # n /\ m \in 0..k
      OBVIOUS
    <3>2. g[m - 1] = f[m - 1]
      BY <2>3, <3>1
    <3>3. CASE m = n
      BY <2>3, <3>2, <3>3
    <3>4. CASE m # n
      <4>1. m \in 1..(n - 1)
        BY <3>4
      <4>2. g[m] = f[m]
        BY <2>3, <3>1, <3>4
      <4> HIDE DEF g
      <4> QED BY <2>1, <3>2, <4>1, <4>2 DEF Follows
    <3> QED BY <3>3, <3>4
  <2> HIDE DEF g
  <2> QED BY <2>3, <2>5
<1> HIDE DEF G
<1>3. \A n \in 0..k : n \in G
  BY <1>1, <1>2, Induct
<1>4. k \in G
  BY <1>3
<1> QED BY <1>4 DEF G
=============================================================================
