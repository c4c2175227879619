------------------------------ MODULE NatFacts ------------------------------
(***************************************************************************)
(* Facts about sets of natural numbers and numbered sets that several      *)
(* proofs need: serials, quotas and rows are counted in more than one      *)
(* component.                                                              *)
(***************************************************************************)
EXTENDS Integers, FiniteSets, FiniteSetTheorems, WellFoundedInduction, TLAPS

\* A set of natural numbers has a least element, and a bounded one a greatest.
LEMMA LeastNat ==
    ASSUME NEW T \in SUBSET Nat, T # {}
    PROVE  \E x \in T : \A y \in T : x <= y
<1>1. PICK x \in T : \A y \in T : ~ (<<y, x>> \in OpToRel(<, Nat))
    BY NatLessThanWellFounded, WFMin
<1>2. \A y \in T : ~ (y < x)
    BY <1>1 DEF OpToRel
<1>3. QED
    BY <1>2

LEMMA GreatestNat ==
    ASSUME NEW T \in SUBSET Nat, T # {}, NEW n \in Nat, \A x \in T : x <= n
    PROVE  \E x \in T : \A y \in T : y <= x
<1> DEFINE D == {n - x : x \in T}
<1>1. D \in SUBSET Nat /\ D # {}
    <2>1. \A x \in T : n - x \in Nat
        OBVIOUS
    <2>2. PICK x \in T : TRUE
        OBVIOUS
    <2>3. n - x \in D
        BY <2>2
    <2>4. QED
        BY <2>1, <2>3
<1>2. PICK d \in D : \A e \in D : d <= e
    <2> HIDE DEF D
    <2>1. QED
        BY <1>1, LeastNat
<1>3. PICK x \in T : d = n - x
    BY <1>2
<1>4. \A y \in T : y <= x
    BY <1>2, <1>3
<1>5. QED
    BY <1>4

\* What is numbered 1, 2, 3, ... without gaps or repeats has as many elements as
\* the greatest number says.
LEMMA NumberedCardinality ==
    ASSUME NEW S, IsFiniteSet(S), NEW f, NEW n \in Nat,
           \A x \in S : f[x] \in Nat \ {0} /\ f[x] <= n,
           \A x, y \in S : f[x] = f[y] => x = y,
           \A x \in S : f[x] = 1 \/ \E y \in S : f[y] + 1 = f[x],
           n = 0 \/ \E x \in S : f[x] = n
    PROVE  Cardinality(S) = n
<1> DEFINE g == [x \in S |-> f[x]]
<1>1. g \in [S -> 1 .. n]
    OBVIOUS
<1>2. \A k \in 1 .. n : \E x \in S : f[x] = k
    <2> DEFINE M == {k \in 1 .. n : \A x \in S : f[x] # k}
    <2>1. SUFFICES ASSUME M # {} PROVE FALSE
        OBVIOUS
    <2>2. M \in SUBSET Nat /\ \A k \in M : k <= n
        OBVIOUS
    <2>3. PICK m \in M : \A k \in M : k <= m
        <3> HIDE DEF M
        <3>1. QED
            BY <2>1, <2>2, GreatestNat
    <2>4. m \in 1 .. n /\ m # n
        BY <2>3
    <2>5. m + 1 \in 1 .. n /\ m + 1 \notin M
        BY <2>3, <2>4
    <2>6. PICK x \in S : f[x] = m + 1
        BY <2>5
    <2>7. PICK y \in S : f[y] + 1 = m + 1
        BY <2>4, <2>6
    <2>8. f[y] = m
        BY <2>4, <2>7
    <2>9. QED
        BY <2>3, <2>8
<1>3. g \in Bijection(S, 1 .. n)
    BY <1>1, <1>2 DEF Bijection, Injection, Surjection, IsInjective
<1>4. ExistsBijection(S, 1 .. n)
    BY <1>3 DEF ExistsBijection
<1>5. Cardinality(1 .. n) = Cardinality(S)
    BY <1>4, FS_Bijection
<1>6. Cardinality(1 .. n) = n
    BY FS_Interval
<1>7. QED
    BY <1>5, <1>6

=============================================================================
