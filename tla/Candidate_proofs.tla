-------------------------- MODULE Candidate_proofs --------------------------
(***************************************************************************)
(* The places of the candidates of a CORESET, whatever its size, duration, *)
(* interleaver and shift: the bundles are permuted as a whole and hold     *)
(* every symbol equally often, so the sorted resource blocks of a candidate *)
(* are the same blocks once for every symbol.                              *)
(***************************************************************************)
EXTENDS Candidate, FunctionTheorems, FiniteSetTheorems, WellFoundedInduction, TLAPS

-----------------------------------------------------------------------------
(* Sorting.                                                                *)

Ascends(s, n) == \A i, j \in 1 .. n : i < j => s[i] < s[j]

Distinct(s, n) == \A i, j \in 1 .. n : s[i] = s[j] => i = j

SameNumbers(s, t, n) ==
  /\ \A i \in 1 .. n : \E j \in 1 .. n : s[i] = t[j]
  /\ \A j \in 1 .. n : \E i \in 1 .. n : s[i] = t[j]

LEMMA LeastNumber ==
  ASSUME NEW S \in SUBSET Nat, S # {}
  PROVE  \E n \in S : \A m \in S : n <= m
<1> DEFINE R == OpToRel(<, Nat)
<1>1. IsWellFoundedOn(R, Nat)
  BY NatLessThanWellFounded
<1>2. PICK n \in S : \A m \in S : ~(<<m, n>> \in R)
  BY <1>1, WFMin
<1>3. \A m \in S : ~(m < n)
  BY <1>2 DEF OpToRel
<1>4. QED
  BY <1>3

\* There is one way to list numbers in ascending order.
LEMMA AscendingUnique ==
  ASSUME NEW n \in Nat, NEW s \in [1 .. n -> Int], NEW t \in [1 .. n -> Int],
         Ascends(s, n), Ascends(t, n), SameNumbers(s, t, n)
  PROVE  s = t
<1> DEFINE D == {k \in 1 .. n : s[k] # t[k]}
<1> SUFFICES ASSUME D # {}
             PROVE  FALSE
  OBVIOUS
<1>1. PICK k \in D : \A m \in D : k <= m
  <2> D \in SUBSET Nat
    OBVIOUS
  <2> HIDE DEF D
  <2> QED
    BY LeastNumber
<1>2. k \in 1 .. n /\ s[k] # t[k] /\ \A m \in 1 .. n : m < k => s[m] = t[m]
  BY <1>1
<1>3. CASE s[k] < t[k]
  <2>1. PICK j \in 1 .. n : s[k] = t[j]
    BY <1>2 DEF SameNumbers
  <2>2. j < k
    BY <1>2, <1>3, <2>1 DEF Ascends
  <2>3. s[j] = s[k] /\ s[j] < s[k]
    BY <1>2, <2>1, <2>2 DEF Ascends
  <2>4. QED
    BY <1>2, <2>3
<1>4. CASE t[k] < s[k]
  <2>1. PICK j \in 1 .. n : s[j] = t[k]
    BY <1>2 DEF SameNumbers
  <2>2. j < k
    BY <1>2, <1>4, <2>1 DEF Ascends
  <2>3. t[j] = t[k] /\ t[j] < t[k]
    BY <1>2, <2>1, <2>2 DEF Ascends
  <2>4. QED
    BY <1>2, <2>3
<1>5. QED
  BY <1>2, <1>3, <1>4

\* The sorted list of different numbers is an ascending list of these numbers.
LEMMA SortedAscends ==
  ASSUME NEW n \in Nat, NEW s \in [1 .. n -> Int], Distinct(s, n)
  PROVE  /\ Sorted(s) \in [1 .. n -> Int]
         /\ Ascends(Sorted(s), n)
         /\ SameNumbers(Sorted(s), s, n)
<1> DEFINE Less(i) == {j \in 1 .. n : s[j] < s[i] \/ (s[j] = s[i] /\ j < i)}
           before == [i \in 1 .. n |-> Cardinality(Less(i))]
<1>1. DOMAIN s = 1 .. n
  OBVIOUS
<1>2. Sorted(s) = [k \in 1 .. n |-> s[CHOOSE i \in 1 .. n : before[i] = k - 1]]
  BY <1>1 DEF Sorted
<1>3. \A i \in 1 .. n : Less(i) = {j \in 1 .. n : s[j] < s[i]}
  BY DEF Distinct
<1>4. IsFiniteSet(1 .. n) /\ Cardinality(1 .. n) = n
  BY FS_Interval
<1>5. \A i \in 1 .. n : IsFiniteSet(Less(i)) /\ Cardinality(Less(i)) \in Nat
  BY <1>4, FS_Subset, FS_CardinalityType
<1>6. \A i \in 1 .. n : Cardinality(Less(i)) < n
  <2> TAKE i \in 1 .. n
  <2>1. Less(i) \in SUBSET (1 .. n) /\ i \notin Less(i)
    OBVIOUS
  <2> HIDE DEF Less
  <2>2. Cardinality(Less(i)) <= n /\ Cardinality(Less(i)) # n
    BY <1>4, <2>1, FS_Subset
  <2>3. QED
    BY <1>5, <2>2
<1>7. \A i, j \in 1 .. n : s[i] < s[j] => Cardinality(Less(i)) < Cardinality(Less(j))
  <2> SUFFICES ASSUME NEW i \in 1 .. n, NEW j \in 1 .. n, s[i] < s[j]
               PROVE  Cardinality(Less(i)) < Cardinality(Less(j))
    OBVIOUS
  <2>1. s[i] \in Int /\ s[j] \in Int
    OBVIOUS
  <2>2. ASSUME NEW m \in 1 .. n, s[m] < s[i]
        PROVE  s[m] < s[j]
    <3>1. s[m] \in Int
      OBVIOUS
    <3>2. QED
      BY <2>1, <2>2, <3>1
  <2>3. Less(i) \in SUBSET Less(j)
    BY <1>3, <2>2
  <2>4. i \in Less(j) /\ i \notin Less(i)
    BY <1>3
  <2> HIDE DEF Less
  <2>5. Cardinality(Less(i)) <= Cardinality(Less(j)) /\ Cardinality(Less(i)) # Cardinality(Less(j))
    BY <1>5, <2>3, <2>4, FS_Subset
  <2>6. QED
    BY <1>5, <2>5
<1> HIDE DEF Less
<1>8. before \in [1 .. n -> 0 .. n - 1]
  BY <1>5, <1>6
<1>9. \A i, j \in 1 .. n : before[i] = before[j] => i = j
  <2> SUFFICES ASSUME NEW i \in 1 .. n, NEW j \in 1 .. n, before[i] = before[j], i # j
               PROVE  FALSE
    OBVIOUS
  <2>1. s[i] # s[j] /\ s[i] \in Int /\ s[j] \in Int
    BY DEF Distinct
  <2>2. before[i] \in Int /\ before[j] \in Int
    BY <1>8
  <2>3. s[i] < s[j] \/ s[j] < s[i]
    BY <2>1
  <2>4. QED
    BY <1>5, <1>7, <2>3
<1>10. \A k \in 1 .. n : \E i \in 1 .. n : before[i] = k - 1
  <2>1. before \in Injection(1 .. n, 0 .. n - 1)
    BY <1>8, <1>9 DEF Injection, IsInjective
  <2>2. IsFiniteSet(0 .. n - 1) /\ Cardinality(0 .. n - 1) = n
    BY FS_Interval
  <2> HIDE DEF before
  <2>3. before \in Surjection(1 .. n, 0 .. n - 1)
    BY <1>4, <2>1, <2>2, FS_Injection
  <2>4. \A k \in 1 .. n : k - 1 \in 0 .. n - 1
    OBVIOUS
  <2>5. QED
    BY <2>3, <2>4 DEF Surjection
<1> DEFINE at == [k \in 1 .. n |-> CHOOSE i \in 1 .. n : before[i] = k - 1]
<1>11. \A k \in 1 .. n : at[k] \in 1 .. n /\ before[at[k]] = k - 1
  <2> HIDE DEF before
  <2> QED
    BY <1>10
<1>12. \A k \in 1 .. n : Sorted(s)[k] = s[at[k]]
  <2> HIDE DEF before
  <2> QED
    BY <1>2
<1>13. Sorted(s) \in [1 .. n -> Int]
  <2> HIDE DEF before
  <2>1. \A k \in 1 .. n : s[CHOOSE i \in 1 .. n : before[i] = k - 1] \in Int
    BY <1>11
  <2>2. QED
    BY <1>2, <2>1
<1> HIDE DEF at
<1>14. Ascends(Sorted(s), n)
  <2> SUFFICES ASSUME NEW k \in 1 .. n, NEW l \in 1 .. n, k < l, ~(s[at[k]] < s[at[l]])
               PROVE  FALSE
    BY <1>12 DEF Ascends
  <2>1. at[k] \in 1 .. n /\ at[l] \in 1 .. n /\ before[at[k]] = k - 1 /\ before[at[l]] = l - 1
    BY <1>11
  <2>2. s[at[k]] \in Int /\ s[at[l]] \in Int
    BY <2>1
  <2>3. CASE s[at[l]] < s[at[k]]
    <3>1. before[at[l]] < before[at[k]]
      BY <1>7, <2>1, <2>3
    <3> HIDE DEF before
    <3>2. QED
      BY <2>1, <3>1
  <2>4. CASE s[at[l]] = s[at[k]]
    <3>1. at[k] = at[l]
      BY <2>1, <2>4 DEF Distinct
    <3> HIDE DEF before
    <3>2. k - 1 = l - 1
      BY <2>1, <3>1
    <3>3. QED
      BY <3>2
  <2>5. QED
    BY <2>2, <2>3, <2>4
<1>15. SameNumbers(Sorted(s), s, n)
  <2>1. \A k \in 1 .. n : \E j \in 1 .. n : Sorted(s)[k] = s[j]
    BY <1>11, <1>12
  <2>2. ASSUME NEW j \in 1 .. n
        PROVE  \E k \in 1 .. n : Sorted(s)[k] = s[j]
    <3>1. before[j] \in 0 .. n - 1
      BY <1>8
    <3> DEFINE k == before[j] + 1
    <3> HIDE DEF before
    <3>2. k \in 1 .. n /\ k - 1 = before[j]
      BY <3>1
    <3> HIDE DEF k
    <3>3. before[at[k]] = before[j] /\ at[k] \in 1 .. n
      BY <1>11, <3>2
    <3>4. at[k] = j
      BY <1>9, <3>3 DEF before
    <3>5. QED
      BY <1>12, <3>2, <3>4
  <2>3. QED
    BY <2>1, <2>2 DEF SameNumbers
<1>16. QED
  BY <1>13, <1>14, <1>15

-----------------------------------------------------------------------------
(* The bundles.                                                            *)

\* What coreset() makes of a configuration.
WellFormed(c) ==
  /\ c.rbs \in Nat
  /\ c.duration \in {1, 2, 3}
  /\ c.mapping \in {"interleaved", "non-interleaved"}
  /\ \/ c.bundle = 6
     \/ c.bundle = 2 /\ c.duration \in {1, 2}
     \/ c.bundle = 3 /\ c.duration = 3
  /\ c.interleaver \in {2, 3, 6}
  /\ c.shift \in Nat

ConfigRecords(M, K) ==
  [rbs : Nat, duration : Nat, mapping : M, bundle : Nat, interleaver : Nat, shift : Nat, candidates : K]

LEMMA SettersMakeWellFormed ==
  ASSUME NEW M, NEW K, NEW cfg \in ConfigRecords(M, K)
  PROVE  /\ WellFormed(coreset(cfg))
         /\ coreset(cfg).rbs = cfg.rbs
         /\ coreset(cfg).candidates = cfg.candidates
<1> DEFINE duration == ValidOr(cfg.duration, {1, 2, 3}, 1)
           mapping  == ValidOr(cfg.mapping, {"interleaved", "non-interleaved"}, "non-interleaved")
           bundle   == IF isvalid_coreset_reg_bundlesize(cfg.bundle, mapping, duration) THEN cfg.bundle ELSE 6
           interleaver == ValidOr(cfg.interleaver, {2, 3, 6}, 2)
           shift == ValidOr(cfg.shift, 0 .. nid_max, 0)
<1>1. coreset(cfg) = [rbs |-> cfg.rbs, duration |-> duration, mapping |-> mapping, bundle |-> bundle,
                      interleaver |-> interleaver, shift |-> shift, candidates |-> cfg.candidates]
  <2>1. cfg = [rbs |-> cfg.rbs, duration |-> cfg.duration, mapping |-> cfg.mapping, bundle |-> cfg.bundle,
               interleaver |-> cfg.interleaver, shift |-> cfg.shift, candidates |-> cfg.candidates]
    BY DEF ConfigRecords
  <2>2. coreset(cfg) = [cfg EXCEPT !.duration = duration, !.mapping = mapping, !.bundle = bundle,
                                   !.interleaver = interleaver, !.shift = shift]
    BY DEF coreset
  <2> HIDE DEF duration, mapping, bundle, interleaver, shift
  <2>3. QED
    BY <2>1, <2>2
<1>0. cfg.rbs \in Nat /\ cfg.bundle \in Nat /\ cfg.interleaver \in Nat /\ cfg.shift \in Nat
  BY DEF ConfigRecords
<1>2. duration \in {1, 2, 3}
  BY DEF ValidOr
<1>3. mapping \in {"interleaved", "non-interleaved"}
  BY DEF ValidOr
<1>4. interleaver \in {2, 3, 6} /\ shift \in Nat
  BY <1>0 DEF ValidOr, nid_max
<1> HIDE DEF duration, mapping, interleaver, shift
<1>5. \/ bundle = 6
      \/ bundle = 2 /\ duration \in {1, 2}
      \/ bundle = 3 /\ duration = 3
  BY <1>2, <1>3 DEF isvalid_coreset_reg_bundlesize
<1> HIDE DEF bundle
<1>6. QED
  BY <1>0, <1>1, <1>2, <1>3, <1>4, <1>5 DEF WellFormed

\* A column of the interleaver holds its rows, and all its bundles exist.
LEMMA Bundles ==
  ASSUME NEW c, WellFormed(c)
  PROVE  /\ N_CORESET_REG(c) \in Nat
         /\ Columns(c) \in Nat
         /\ Mapped(c) \in Nat
         /\ N_CORESET_REG(c) \div c.bundle \in Nat
         /\ Mapped(c) <= N_CORESET_REG(c) \div c.bundle
         /\ Mapped(c) * c.bundle <= N_CORESET_REG(c)
<1>1. PICK rbs \in Nat : rbs = c.rbs
  BY DEF WellFormed
<1>2. PICK N \in Nat : N = N_CORESET_REG(c)
  BY <1>1 DEF WellFormed, N_CORESET_REG
<1>3. PICK b \in {2, 3, 6} : b = c.bundle
  BY DEF WellFormed
<1>4. PICK r \in {2, 3, 6} : r = c.interleaver
  BY DEF WellFormed
<1>5. \A n \in Nat, x \in {2, 3, 6}, y \in {2, 3, 6} :
        LET k == n \div (x * y)
        IN /\ k \in Nat /\ k * x \in Nat /\ n \div y \in Nat
           /\ k * x <= n \div y
           /\ (k * x) * y <= n
  OBVIOUS
<1>6. QED
  BY <1>2, <1>3, <1>4, <1>5 DEF Columns, Mapped

LEMMA Positional ==
  ASSUME NEW C \in Nat, NEW a \in Nat, NEW b \in Nat, NEW p \in 0 .. C - 1, NEW q \in 0 .. C - 1,
         a * C + p = b * C + q
  PROVE  a = b /\ p = q
<1>1. ASSUME NEW x \in Nat, NEW y \in Nat, x < y
      PROVE  x * C + C <= y * C
  <2>1. \A d \in Nat : (x + 1 + d) * C = x * C + C + d * C /\ d * C \in Nat /\ x * C \in Nat
    OBVIOUS
  <2>2. PICK d \in Nat : y = x + 1 + d
    <3>1. y - x - 1 \in Nat /\ y = x + 1 + (y - x - 1)
      BY <1>1
    <3>2. QED
      BY <3>1
  <2>3. QED
    BY <2>1, <2>2
<1>2. a * C \in Nat /\ b * C \in Nat
  OBVIOUS
<1>3. ~(a < b)
  BY <1>1, <1>2
<1>4. ~(b < a)
  BY <1>1, <1>2
<1>5. QED
  BY <1>2, <1>3, <1>4

LEMMA RotationIsInjective ==
  ASSUME NEW B \in Nat \ {0}, NEW s \in Nat, NEW x \in 0 .. B - 1, NEW y \in 0 .. B - 1,
         (x + s) % B = (y + s) % B
  PROVE  x = y
<1> DEFINE p == (x + s) \div B
           q == (y + s) \div B
           m == (x + s) % B
<1>1. \A n \in Nat : n = B * (n \div B) + (n % B) /\ n \div B \in Nat /\ n % B \in 0 .. B - 1
  OBVIOUS
<1>2. x + s \in Nat /\ y + s \in Nat
  OBVIOUS
<1>3. /\ x + s = B * p + m
      /\ y + s = B * q + m
      /\ p \in Nat /\ q \in Nat /\ m \in 0 .. B - 1
  BY <1>1, <1>2
<1> HIDE DEF p, q, m
<1>4. \A i, j \in Nat : i < j => B * i + B <= B * j
  <2> SUFFICES ASSUME NEW i \in Nat, NEW j \in Nat, i < j
               PROVE  B * i + B <= B * j
    OBVIOUS
  <2>1. PICK d \in Nat : j = i + 1 + d
    <3>1. j - i - 1 \in Nat /\ j = i + 1 + (j - i - 1)
      OBVIOUS
    <3>2. QED
      BY <3>1
  <2>2. B * (i + 1 + d) = B * i + B + B * d /\ B * d \in Nat /\ B * i \in Nat
    OBVIOUS
  <2>3. QED
    BY <2>1, <2>2
<1>5. B * p \in Nat /\ B * q \in Nat
  BY <1>3
<1>6. ~(p < q)
  BY <1>3, <1>4, <1>5
<1>7. ~(q < p)
  BY <1>3, <1>4, <1>5
<1>8. p = q
  BY <1>3, <1>6, <1>7
<1>9. QED
  BY <1>3, <1>5, <1>8

\* The interleaver permutes bundles.
LEMMA Interleaves ==
  ASSUME NEW c, WellFormed(c), NEW i \in 0 .. Mapped(c) - 1
  PROVE  /\ cce_reg_interleaving(c)[i] \in Nat
         /\ cce_reg_interleaving(c)[i] < N_CORESET_REG(c) \div c.bundle
         /\ \A j \in 0 .. Mapped(c) - 1 : cce_reg_interleaving(c)[i] = cce_reg_interleaving(c)[j] => i = j
<1> DEFINE B == N_CORESET_REG(c) \div c.bundle
           C == Columns(c)
           r == c.interleaver
           M == Mapped(c)
           x(j) == (j % r) * C + j \div r
<1>1. B \in Nat /\ C \in Nat /\ M \in Nat /\ M <= B
  BY Bundles
<1>2. r \in {2, 3, 6}
  BY DEF WellFormed
<1>3. M = C * r
  BY DEF Mapped
<1>4. \A j \in 0 .. M - 1 :
        cce_reg_interleaving(c)[j] = IF c.mapping = "interleaved" THEN (x(j) + c.shift) % B ELSE j
  BY DEF cce_reg_interleaving
<1>5. c.shift \in Nat
  BY DEF WellFormed
<1> HIDE DEF B, C, r, M
<1>6. \A j \in 0 .. M - 1 : /\ j % r \in 0 .. r - 1
                            /\ j \div r \in 0 .. C - 1
                            /\ j = r * (j \div r) + (j % r)
  BY <1>1, <1>2, <1>3
<1>7. \A j \in 0 .. M - 1 : x(j) \in 0 .. M - 1
  <2> TAKE j \in 0 .. M - 1
  <2>1. PICK a \in 0 .. r - 1, q \in 0 .. C - 1 : a = j % r /\ q = j \div r
    BY <1>6
  <2>2. \A k \in 0 .. r - 1 : k * C + C <= r * C /\ k * C \in Nat
    BY <1>1, <1>2
  <2>3. a * C + q \in 0 .. M - 1
    BY <1>1, <1>2, <1>3, <2>1, <2>2
  <2>4. QED
    BY <2>1, <2>3
<1>8. \A j \in 0 .. M - 1, k \in 0 .. M - 1 : x(j) = x(k) => j = k
  <2> SUFFICES ASSUME NEW j \in 0 .. M - 1, NEW k \in 0 .. M - 1, x(j) = x(k)
               PROVE  j = k
    OBVIOUS
  <2>1. j % r = k % r /\ j \div r = k \div r
    <3>1. j % r \in Nat /\ k % r \in Nat
      BY <1>2, <1>6
    <3>2. QED
      BY <1>1, <1>6, <3>1, Positional
  <2>2. QED
    BY <1>6, <2>1
<1> HIDE DEF x
<1>9. CASE c.mapping = "interleaved"
  <2>1. B \in Nat \ {0}
    <3>1. M > 0
      BY <1>1 DEF M
    <3>2. QED
      BY <1>1, <3>1
  <2>2. \A j \in 0 .. M - 1 : x(j) \in 0 .. B - 1
    BY <1>1, <1>7
  <2>3. i \in 0 .. M - 1
    BY DEF M
  <2>4. \A n \in Nat : n % B \in Nat /\ n % B < B
    BY <2>1
  <2>5. x(i) + c.shift \in Nat
    BY <1>5, <2>2, <2>3
  <2>6. cce_reg_interleaving(c)[i] \in Nat /\ cce_reg_interleaving(c)[i] < B
    BY <1>4, <1>9, <2>3, <2>4, <2>5
  <2>7. ASSUME NEW j \in 0 .. M - 1, cce_reg_interleaving(c)[i] = cce_reg_interleaving(c)[j]
        PROVE  i = j
    <3>1. (x(i) + c.shift) % B = (x(j) + c.shift) % B
      BY <1>4, <1>9, <2>3, <2>7
    <3>2. x(i) = x(j)
      BY <1>5, <2>1, <2>2, <2>3, <3>1, RotationIsInjective
    <3>3. QED
      BY <1>8, <2>3, <3>2
  <2>8. QED
    BY <2>6, <2>7 DEF B, M
<1>10. CASE c.mapping # "interleaved"
  BY <1>1, <1>4, <1>10 DEF B, M
<1>11. QED
  BY <1>9, <1>10

-----------------------------------------------------------------------------
(* Division by the duration and by the size of a bundle.                   *)

LEMMA Dividing ==
  ASSUME NEW d \in {1, 2, 3, 6}, NEW W \in Nat, NEW x \in 0 .. W * d - 1
  PROVE  x \div d \in 0 .. W - 1 /\ (x % d) \in 0 .. d - 1 /\ x = d * (x \div d) + (x % d)
<1>1. \A n \in Nat : \A y \in 0 .. n * 1 - 1 : y \div 1 \in 0 .. n - 1 /\ (y % 1) \in 0 .. 0 /\ y = 1 * (y \div 1) + (y % 1)
  OBVIOUS
<1>2. \A n \in Nat : \A y \in 0 .. n * 2 - 1 : y \div 2 \in 0 .. n - 1 /\ (y % 2) \in 0 .. 1 /\ y = 2 * (y \div 2) + (y % 2)
  OBVIOUS
<1>3. \A n \in Nat : \A y \in 0 .. n * 3 - 1 : y \div 3 \in 0 .. n - 1 /\ (y % 3) \in 0 .. 2 /\ y = 3 * (y \div 3) + (y % 3)
  OBVIOUS
<1>4. \A n \in Nat : \A y \in 0 .. n * 6 - 1 : y \div 6 \in 0 .. n - 1 /\ (y % 6) \in 0 .. 5 /\ y = 6 * (y \div 6) + (y % 6)
  OBVIOUS
<1>5. QED
  BY <1>1, <1>2, <1>3, <1>4

LEMMA Bundling ==
  ASSUME NEW d \in {1, 2, 3}, NEW b \in {2, 3, 6}, b = 6 \/ (b = 2 /\ d \in {1, 2}) \/ (b = 3 /\ d = 3),
         NEW M \in Nat, NEW p \in Nat, NEW s \in 0 .. d - 1, d * p < M * b
  PROVE  /\ d * p + s \in 0 .. M * b - 1
         /\ (d * p + s) \div b = (d * p) \div b
         /\ (d * p + s) % b = ((d * p) % b) + s
         /\ (d * p) \div b \in 0 .. M - 1
         /\ ((d * p) % b) % d = 0
         /\ (d * p) % b \in 0 .. b - 1
<1>1. CASE d = 1 /\ b = 6
  <2>1. /\ 1 * p + 0 \in 0 .. M * 6 - 1
        /\ (1 * p + 0) \div 6 = (1 * p) \div 6
        /\ (1 * p + 0) % 6 = ((1 * p) % 6) + 0
        /\ (1 * p) \div 6 \in 0 .. M - 1
        /\ ((1 * p) % 6) % 1 = 0
        /\ (1 * p) % 6 \in 0 .. 6 - 1
    BY <1>1
  <2>2. s = 0
    BY <1>1
  <2>3. QED
    BY <1>1, <2>1, <2>2
<1>2. CASE d = 2 /\ b = 6
  <2>1. \A r \in 0 .. 1 :
        /\ 2 * p + r \in 0 .. M * 6 - 1
        /\ (2 * p + r) \div 6 = (2 * p) \div 6
        /\ (2 * p + r) % 6 = ((2 * p) % 6) + r
        /\ (2 * p) \div 6 \in 0 .. M - 1
        /\ ((2 * p) % 6) % 2 = 0
        /\ (2 * p) % 6 \in 0 .. 6 - 1
    BY <1>2
  <2>3. QED
    BY <1>2, <2>1
<1>3. CASE d = 3 /\ b = 6
  <2>1. \A r \in 0 .. 2 :
        /\ 3 * p + r \in 0 .. M * 6 - 1
        /\ (3 * p + r) \div 6 = (3 * p) \div 6
        /\ (3 * p + r) % 6 = ((3 * p) % 6) + r
        /\ (3 * p) \div 6 \in 0 .. M - 1
        /\ ((3 * p) % 6) % 3 = 0
        /\ (3 * p) % 6 \in 0 .. 6 - 1
    BY <1>3
  <2>3. QED
    BY <1>3, <2>1
<1>4. CASE d = 1 /\ b = 2
  <2>1. /\ 1 * p + 0 \in 0 .. M * 2 - 1
        /\ (1 * p + 0) \div 2 = (1 * p) \div 2
        /\ (1 * p + 0) % 2 = ((1 * p) % 2) + 0
        /\ (1 * p) \div 2 \in 0 .. M - 1
        /\ ((1 * p) % 2) % 1 = 0
        /\ (1 * p) % 2 \in 0 .. 2 - 1
    BY <1>4
  <2>2. s = 0
    BY <1>4
  <2>3. QED
    BY <1>4, <2>1, <2>2
<1>5. CASE d = b
  BY <1>5
<1>6. QED
  BY <1>1, <1>2, <1>3, <1>4, <1>5

-----------------------------------------------------------------------------
(* The resource blocks.                                                    *)

\* The places of the list of get_rb_interleaved, and the REG at each.
Listed(c) == 0 .. Mapped(c) * c.bundle - 1

Reg(c, k) == c.bundle * cce_reg_interleaving(c)[k \div c.bundle] + (k % c.bundle)

LEMMA RegsListed ==
  ASSUME NEW c, WellFormed(c), NEW k \in Listed(c)
  PROVE  /\ Reg(c, k) \in 0 .. N_CORESET_REG(c) - 1
         /\ get_rb_interleaved(c)[k] = (Reg(c, k) \div c.duration) + (Reg(c, k) % c.duration) * c.rbs
         /\ \A l \in Listed(c) : Reg(c, k) = Reg(c, l) => k = l
<1> DEFINE f == cce_reg_interleaving(c)
           b == c.bundle
           N == N_CORESET_REG(c)
           M == Mapped(c)
<1>1. N \in Nat /\ M \in Nat /\ M <= N \div b
  BY Bundles
<1>2. b \in {2, 3, 6}
  BY DEF WellFormed
<1>3. \A i \in 0 .. M - 1 : f[i] \in Nat /\ f[i] < N \div b
  BY Interleaves
<1>4. \A i \in 0 .. M - 1, j \in 0 .. M - 1 : f[i] = f[j] => i = j
  BY Interleaves
<1>5. get_rb_interleaved(c)[k] = (Reg(c, k) \div c.duration) + (Reg(c, k) % c.duration) * c.rbs
  BY DEF get_rb_interleaved, rb_complete_list, Reg, Listed
<1>6. \A l : Reg(c, l) = b * f[l \div b] + (l % b)
  BY DEF Reg
<1>7. Listed(c) = 0 .. M * b - 1
  BY DEF Listed
<1> HIDE DEF f, b, N, M
<1>8. \A l \in Listed(c) : l \div b \in 0 .. M - 1 /\ (l % b) \in 0 .. b - 1 /\ l = b * (l \div b) + (l % b)
  BY <1>1, <1>2, <1>7, Dividing
<1>9. Reg(c, k) \in 0 .. N - 1
  <2>1. PICK g \in Nat, m \in 0 .. b - 1 : g = f[k \div b] /\ m = k % b /\ g < N \div b
    BY <1>3, <1>8
  <2>2. b * g + m \in 0 .. N - 1
    BY <1>1, <1>2, <2>1
  <2>3. QED
    BY <1>6, <2>1, <2>2
<1>10. ASSUME NEW l \in Listed(c), Reg(c, k) = Reg(c, l)
       PROVE  k = l
  <2>1. PICK g \in Nat, m \in 0 .. b - 1 : g = f[k \div b] /\ m = k % b
    BY <1>3, <1>8
  <2>2. PICK h \in Nat, n \in 0 .. b - 1 : h = f[l \div b] /\ n = l % b
    BY <1>3, <1>8
  <2>3. b * g + m = b * h + n
    BY <1>6, <1>10, <2>1, <2>2
  <2>4. g = h /\ m = n
    BY <1>2, <2>3
  <2>5. k \div b = l \div b
    BY <1>4, <1>8, <2>1, <2>2, <2>4
  <2>6. QED
    BY <1>8, <2>1, <2>2, <2>4, <2>5
<1>11. QED
  BY <1>5, <1>9, <1>10 DEF N

\* The resource blocks of a list's places: different places have different blocks.
LEMMA BlocksApart ==
  ASSUME NEW c, WellFormed(c), NEW k \in Listed(c), NEW l \in Listed(c)
  PROVE  /\ get_rb_interleaved(c)[k] \in Nat
         /\ get_rb_interleaved(c)[k] = get_rb_interleaved(c)[l] => k = l
<1>1. PICK W \in Nat : W = c.rbs
  BY DEF WellFormed
<1>2. PICK d \in {1, 2, 3} : d = c.duration
  BY DEF WellFormed
<1>3. N_CORESET_REG(c) = W * d
  BY <1>1, <1>2 DEF N_CORESET_REG
<1>4. PICK x \in 0 .. W * d - 1 : x = Reg(c, k)
  BY <1>3, RegsListed
<1>5. PICK y \in 0 .. W * d - 1 : y = Reg(c, l)
  BY <1>3, RegsListed
<1>6. /\ get_rb_interleaved(c)[k] = (x \div d) + (x % d) * W
      /\ get_rb_interleaved(c)[l] = (y \div d) + (y % d) * W
  BY <1>1, <1>2, <1>4, <1>5, RegsListed
<1>7. /\ x \div d \in 0 .. W - 1 /\ (x % d) \in 0 .. d - 1 /\ x = d * (x \div d) + (x % d)
      /\ y \div d \in 0 .. W - 1 /\ (y % d) \in 0 .. d - 1 /\ y = d * (y \div d) + (y % d)
  BY <1>1, <1>2, Dividing
<1>8. PICK p \in 0 .. W - 1, m \in Nat : p = x \div d /\ m = x % d
  BY <1>7
<1>9. PICK q \in 0 .. W - 1, n \in Nat : q = y \div d /\ n = y % d
  BY <1>7
<1>10. p + m * W \in Nat
  BY <1>1
<1>11. ASSUME p + m * W = q + n * W
       PROVE  x = y
  <2>1. m * W + p = n * W + q
    <3>1. m * W \in Nat /\ n * W \in Nat
      BY <1>1
    <3>2. QED
      BY <1>11, <3>1
  <2>2. m = n /\ p = q
    BY <2>1, Positional
  <2>3. QED
    BY <1>7, <1>8, <1>9, <2>2
<1>12. x = y => k = l
  BY <1>4, <1>5, RegsListed
<1>13. QED
  BY <1>6, <1>8, <1>9, <1>10, <1>11, <1>12

\* The block, in its symbol, of the REGs with one number per symbol.
Place(c, p) == Reg(c, c.duration * p) \div c.duration

\* REGs are numbered in time first, and a bundle begins with the first symbol.
LEMMA SymbolsTakeTurns ==
  ASSUME NEW c, WellFormed(c), NEW p \in Nat, NEW s \in 0 .. c.duration - 1,
         c.duration * p \in Listed(c)
  PROVE  /\ c.duration * p + s \in Listed(c)
         /\ Place(c, p) \in 0 .. c.rbs - 1
         /\ get_rb_interleaved(c)[c.duration * p + s] = Place(c, p) + s * c.rbs
<1> DEFINE f == cce_reg_interleaving(c)
<1>1. PICK W \in Nat : W = c.rbs
  BY DEF WellFormed
<1>2. PICK d \in {1, 2, 3}, b \in {2, 3, 6} :
        d = c.duration /\ b = c.bundle /\ (b = 6 \/ (b = 2 /\ d \in {1, 2}) \/ (b = 3 /\ d = 3))
  BY DEF WellFormed
<1>3. PICK M \in Nat : M = Mapped(c)
  BY Bundles
<1>4. \A l : Reg(c, l) = b * f[l \div b] + (l % b)
  BY <1>2 DEF Reg
<1>5. Listed(c) = 0 .. M * b - 1
  BY <1>2, <1>3 DEF Listed
<1>6. s \in 0 .. d - 1 /\ d * p \in 0 .. M * b - 1
  BY <1>2, <1>5
<1>7. /\ d * p + s \in 0 .. M * b - 1
      /\ (d * p + s) \div b = (d * p) \div b
      /\ (d * p + s) % b = ((d * p) % b) + s
      /\ (d * p) \div b \in 0 .. M - 1
      /\ ((d * p) % b) % d = 0
      /\ (d * p) % b \in 0 .. b - 1
  <2>1. d * p < M * b
    BY <1>2, <1>6
  <2>2. /\ d \in {1, 2, 3} /\ b \in {2, 3, 6} /\ M \in Nat /\ p \in Nat
        /\ b = 6 \/ (b = 2 /\ d \in {1, 2}) \/ (b = 3 /\ d = 3)
        /\ s \in 0 .. d - 1
    BY <1>2, <1>6
  <2>3. QED
    BY ONLY <2>1, <2>2, Bundling
<1>8. f[(d * p) \div b] \in Nat
  BY <1>3, <1>7, Interleaves
<1>9. PICK g \in Nat, m \in 0 .. b - 1 : g = f[(d * p) \div b] /\ m = (d * p) % b
  BY <1>7, <1>8
<1>10. Reg(c, d * p) = b * g + m /\ Reg(c, d * p + s) = b * g + (m + s) /\ m % d = 0
  BY <1>4, <1>7, <1>9
<1>11. Reg(c, d * p) \in 0 .. W * d - 1
  BY <1>1, <1>2, <1>5, <1>6, RegsListed DEF N_CORESET_REG
<1>12. /\ (b * g + m) \div d \in 0 .. W - 1
       /\ (b * g + (m + s)) \div d = (b * g + m) \div d
       /\ (b * g + (m + s)) % d = s
  <2>1. b * g + m \in 0 .. W * d - 1 /\ (b * g + m) + s = b * g + (m + s)
    BY <1>2, <1>6, <1>10, <1>11
  <2>2. (b * g + m) % d = 0
    <3>1. CASE b = d
      BY <1>2, <1>10, <3>1
    <3>2. CASE b = 6
      BY <1>2, <1>10, <3>2
    <3>3. CASE b = 2 /\ d = 1
      BY <1>2, <1>10, <3>3
    <3>4. QED
      BY <1>2, <3>1, <3>2, <3>3
  <2>3. PICK n \in Nat : n = b * g + m
    BY <1>2
  <2>4. n \div d \in 0 .. W - 1
    BY <2>1, <2>3, Dividing
  <2>5. PICK t \in Nat : t = n + s
    BY <1>6
  <2>6. t \div d = n \div d /\ t % d = s
    <3>1. CASE d = 1
      <4>1. t \div 1 = n \div 1 /\ t % 1 = s
        BY <1>6, <2>5, <3>1
      <4>2. QED
        BY <3>1, <4>1
    <3>2. CASE d = 2
      <4>1. n % 2 = 0 /\ s \in 0 .. 1
        BY <1>6, <2>2, <2>3, <3>2
      <4>2. t \div 2 = n \div 2 /\ t % 2 = s
        BY <2>5, <4>1
      <4>3. QED
        BY <3>2, <4>2
    <3>3. CASE d = 3
      <4>1. n % 3 = 0 /\ s \in 0 .. 2
        BY <1>6, <2>2, <2>3, <3>3
      <4>2. t \div 3 = n \div 3 /\ t % 3 = s
        BY <2>5, <4>1
      <4>3. QED
        BY <3>3, <4>2
    <3>4. QED
      BY <3>1, <3>2, <3>3
  <2>7. QED
    BY <2>1, <2>3, <2>4, <2>5, <2>6
<1>13. d * p + s \in Listed(c)
  BY <1>5, <1>7
<1>14. get_rb_interleaved(c)[d * p + s] = (Reg(c, d * p + s) \div d) + (Reg(c, d * p + s) % d) * W
  BY <1>1, <1>2, <1>13, RegsListed
<1>15. Place(c, p) = Reg(c, d * p) \div d
  BY <1>2 DEF Place
<1>16. QED
  BY <1>1, <1>2, <1>10, <1>12, <1>13, <1>14, <1>15

-----------------------------------------------------------------------------
(* The resource blocks of a candidate.                                     *)

LEMMA Quotient ==
  ASSUME NEW C \in Nat \ {0}, NEW n \in Nat
  PROVE  /\ n \div C \in Nat /\ (n % C) \in 0 .. C - 1 /\ n = (n \div C) * C + (n % C)
         /\ \A q \in Nat : \A r \in 0 .. C - 1 : n = q * C + r => n \div C = q /\ n % C = r
         /\ \A d \in Nat : n < d * C => n \div C < d
<1> DEFINE e == n \div C
           m == n % C
<1>1. e \in Nat /\ m \in 0 .. C - 1 /\ n = e * C + m
  OBVIOUS
<1> HIDE DEF e, m
<1>2. \A q \in Nat : \A r \in 0 .. C - 1 : n = q * C + r => e = q /\ m = r
  BY <1>1, Positional
<1>3. ASSUME NEW d \in Nat, n < d * C, e >= d
      PROVE  FALSE
  <2>1. PICK x \in Nat : e = d + x
    <3>1. e - d \in Nat /\ e = d + (e - d)
      BY <1>1, <1>3
    <3>2. QED
      BY <3>1
  <2>2. (d + x) * C = d * C + x * C /\ x * C \in Nat /\ d * C \in Nat
    OBVIOUS
  <2>3. QED
    BY <1>1, <1>3, <2>1, <2>2
<1>4. QED
  BY <1>1, <1>2, <1>3 DEF e, m

LEMMA CceCount ==
  ASSUME NEW level \in Levels
  PROVE  2 ^ level \in {1, 2, 4, 8, 16}
<1>1. 2 ^ 0 = 1 /\ 2 ^ 1 = 2 /\ 2 ^ 2 = 4 /\ 2 ^ 3 = 8 /\ 2 ^ 4 = 16
  OBVIOUS
<1>2. level \in {0, 1, 2, 3, 4}
  BY DEF Levels
<1>3. QED
  BY <1>1, <1>2

\* The CCEs of a candidate, if its level fits.
LEMMA CandidateCces ==
  ASSUME NEW c, WellFormed(c), NEW level \in Levels, NEW idx \in Nat, NEW n \in Nat \ {0},
         Fits(c, level)
  PROVE  \E start \in Nat :
           /\ get_candidates(c, level, idx, n) = start .. start + 2 ^ level - 1
           /\ Min(get_candidates(c, level, idx, n)) = start
           /\ start = 2 ^ level * (((idx * num_CCE(c)) \div (2 ^ level * n)) % (num_CCE(c) \div 2 ^ level))
<1>1. PICK AL \in {1, 2, 4, 8, 16} : AL = 2 ^ level
  BY CceCount
<1>2. num_CCE(c) \in Nat
  <2>1. N_CORESET_REG(c) \div 6 \in Nat
    BY Bundles
  <2>2. QED
    BY <2>1 DEF num_CCE, CCE_REG
<1>3. num_CCE(c) \div AL \in Nat \ {0}
  BY <1>1, <1>2 DEF Fits
<1>4. idx * num_CCE(c) \in Nat /\ AL * n \in Nat \ {0}
  BY <1>1, <1>2
<1> DEFINE x == (idx * num_CCE(c)) \div (AL * n)
           start == AL * (x % (num_CCE(c) \div AL))
<1>5. x \in Nat
  BY <1>4, Quotient
<1> HIDE DEF x
<1>6. x % (num_CCE(c) \div AL) \in Nat
  <2>1. PICK m \in Nat \ {0} : m = num_CCE(c) \div AL
    BY <1>3
  <2>2. x % m \in Nat
    BY <1>5
  <2>3. QED
    BY <2>1, <2>2
<1>7. start \in Nat
  <2>1. \A y \in Nat : AL * y \in Nat
    BY <1>1
  <2>2. QED
    BY <1>6, <2>1
<1>8. get_candidates(c, level, idx, n) = start .. start + AL - 1
  BY <1>1 DEF get_candidates, x
<1>9. start = 2 ^ level * (((idx * num_CCE(c)) \div (2 ^ level * n)) % (num_CCE(c) \div 2 ^ level))
  BY <1>1 DEF x
<1> HIDE DEF start
<1>10. start \in start .. start + AL - 1 /\ \A y \in start .. start + AL - 1 : start <= y
  BY <1>1, <1>7
<1>11. Min(start .. start + AL - 1) = start
  <2>1. \A z \in start .. start + AL - 1 : (\A y \in start .. start + AL - 1 : z <= y) => z = start
    BY <1>1, <1>7
  <2>2. QED
    BY <1>10, <2>1 DEF Min
<1>12. QED
  BY <1>1, <1>7, <1>8, <1>9, <1>11

\* One symbol's blocks, and the same of every other symbol behind them.
Repeated(G, share, duration, rbs) ==
  [k \in 1 .. share * duration |-> G[((k - 1) % share) + 1] + ((k - 1) \div share) * rbs]

LEMMA RepeatedAscends ==
  ASSUME NEW share \in Nat \ {0}, NEW d \in Nat, NEW rbs \in Nat, NEW G \in [1 .. share -> 0 .. rbs - 1],
         Ascends(G, share)
  PROVE  /\ Repeated(G, share, d, rbs) \in [1 .. share * d -> Int]
         /\ Ascends(Repeated(G, share, d, rbs), share * d)
<1> DEFINE T == Repeated(G, share, d, rbs)
<1>0. share * d \in Nat
  OBVIOUS
<1>1. \A k \in 1 .. share * d :
        /\ (k - 1) \div share \in Nat /\ ((k - 1) % share) \in 0 .. share - 1
        /\ k - 1 = ((k - 1) \div share) * share + ((k - 1) % share)
  <2> TAKE k \in 1 .. share * d
  <2>1. PICK m \in Nat : m = k - 1
    BY <1>0
  <2>2. m \div share \in Nat /\ (m % share) \in 0 .. share - 1 /\ m = (m \div share) * share + (m % share)
    BY <2>1, Quotient
  <2>3. QED
    BY <2>1, <2>2
<1>2. \A k \in 1 .. share * d : T[k] = G[((k - 1) % share) + 1] + ((k - 1) \div share) * rbs
  BY DEF Repeated
<1>3. \A k \in 1 .. share * d : \E a \in Nat, m \in 0 .. share - 1 :
         /\ k = a * share + m + 1
         /\ G[m + 1] \in 0 .. rbs - 1
         /\ T[k] = a * rbs + G[m + 1]
  <2> TAKE k \in 1 .. share * d
  <2>1. PICK a \in Nat, m \in 0 .. share - 1 :
          a = (k - 1) \div share /\ m = (k - 1) % share /\ k - 1 = a * share + m
    BY <1>1
  <2>2. T[k] = G[m + 1] + a * rbs
    BY <1>2, <2>1
  <2>3. G[m + 1] \in 0 .. rbs - 1 /\ a * rbs \in Nat /\ a * share \in Nat
    <3>1. m + 1 \in 1 .. share
      OBVIOUS
    <3>2. QED
      BY <3>1
  <2>4. k = a * share + m + 1
    BY <1>0, <2>1, <2>3
  <2>5. T[k] = a * rbs + G[m + 1]
    BY <2>2, <2>3
  <2> HIDE DEF T
  <2>6. QED
    BY ONLY <2>3, <2>4, <2>5, a \in Nat, m \in 0 .. share - 1
<1>4. T \in [1 .. share * d -> Int]
  <2>1. \A k \in 1 .. share * d : T[k] \in Int
    <3> TAKE k \in 1 .. share * d
    <3>1. PICK a \in Nat, m \in 0 .. share - 1 : G[m + 1] \in 0 .. rbs - 1 /\ T[k] = a * rbs + G[m + 1]
      BY <1>3
    <3>2. a * rbs \in Nat
      OBVIOUS
    <3>3. QED
      BY <3>1, <3>2
  <2>2. T = [k \in 1 .. share * d |-> T[k]]
    BY DEF Repeated
  <2> HIDE DEF T
  <2>3. QED
    BY <2>1, <2>2
<1>5. ASSUME NEW k \in 1 .. share * d, NEW l \in 1 .. share * d, k < l
      PROVE  T[k] < T[l]
  <2>1. PICK a \in Nat, m \in 0 .. share - 1 :
          k = a * share + m + 1 /\ G[m + 1] \in 0 .. rbs - 1 /\ T[k] = a * rbs + G[m + 1]
    BY <1>3
  <2>2. PICK b \in Nat, n \in 0 .. share - 1 :
          l = b * share + n + 1 /\ G[n + 1] \in 0 .. rbs - 1 /\ T[l] = b * rbs + G[n + 1]
    BY <1>3
  <2> HIDE DEF T
  <2>3. ~(b < a)
    <3>1. \A x \in Nat : (b + 1 + x) * share = b * share + share + x * share /\ x * share \in Nat /\ b * share \in Nat
      OBVIOUS
    <3>2. SUFFICES ASSUME b < a
                   PROVE  FALSE
      OBVIOUS
    <3>3. a - b - 1 \in Nat /\ a = b + 1 + (a - b - 1)
      BY <3>2
    <3>4. PICK x \in Nat : a = b + 1 + x
      BY <3>3
    <3>5. PICK p \in Nat, q \in Nat : p = b * share /\ q = x * share /\ a * share = p + share + q
      BY <3>1, <3>4
    <3>6. k = p + share + q + m + 1 /\ l = p + n + 1
      BY <2>1, <2>2, <3>5
    <3>7. QED
      BY <1>5, <3>6
  <2>4. CASE a = b
    <3>1. m < n
      <4>1. a * share \in Nat
        OBVIOUS
      <4>2. QED
        BY <1>5, <2>1, <2>2, <2>4, <4>1
    <3>2. G[m + 1] < G[n + 1]
      <4>1. m + 1 \in 1 .. share /\ n + 1 \in 1 .. share /\ m + 1 < n + 1
        BY <3>1
      <4>2. QED
        BY <4>1 DEF Ascends
    <3>3. a * rbs \in Nat
      OBVIOUS
    <3>4. QED
      BY <2>1, <2>2, <2>4, <3>2, <3>3
  <2>5. CASE a < b
    <3>1. \A x \in Nat : (a + 1 + x) * rbs = a * rbs + rbs + x * rbs /\ x * rbs \in Nat /\ a * rbs \in Nat
      OBVIOUS
    <3>2. b - a - 1 \in Nat /\ b = a + 1 + (b - a - 1)
      BY <2>5
    <3>3. PICK x \in Nat : b = a + 1 + x
      BY <3>2
    <3>4. PICK p \in Nat, q \in Nat : p = a * rbs /\ q = x * rbs /\ b * rbs = p + rbs + q
      BY <3>1, <3>3
    <3>5. T[k] = p + G[m + 1] /\ T[l] = p + rbs + q + G[n + 1]
      BY <2>1, <2>2, <3>4
    <3>6. QED
      BY <2>1, <2>2, <3>5
  <2>6. QED
    BY <2>3, <2>4, <2>5
<1>6. QED
  BY <1>4, <1>5 DEF Ascends

\* The list of a candidate's blocks before it is sorted.
Unsorted(c, level, start) ==
  [k \in 1 .. CCE_REG * 2 ^ level |-> get_rb_interleaved(c)[CCE_REG * start + k - 1]]

StartOf(c, level, idx) ==
  2 ^ level * (((idx * num_CCE(c)) \div (2 ^ level * c.candidates[level])) % (num_CCE(c) \div 2 ^ level))

\* The candidate has a place, and all of its CCEs are in the list.
Placed(c, level, idx) ==
  /\ WellFormed(c)
  /\ level \in Levels
  /\ idx \in Nat
  /\ c.candidates[level] \in Nat \ {0}
  /\ Fits(c, level)
  /\ InList(c, get_candidates(c, level, idx, c.candidates[level]))

LEMMA CandidateList ==
  ASSUME NEW c, NEW level, NEW idx, Placed(c, level, idx)
  PROVE  /\ StartOf(c, level, idx) \in Nat
         /\ \A k \in 1 .. CCE_REG * 2 ^ level : CCE_REG * StartOf(c, level, idx) + k - 1 \in Listed(c)
         /\ Unsorted(c, level, StartOf(c, level, idx)) \in [1 .. CCE_REG * 2 ^ level -> Int]
         /\ Distinct(Unsorted(c, level, StartOf(c, level, idx)), CCE_REG * 2 ^ level)
         /\ get_rb_candidates(c, level, idx) = Sorted(Unsorted(c, level, StartOf(c, level, idx)))
<1> DEFINE n == c.candidates[level]
           cces == get_candidates(c, level, idx, n)
<1>1. WellFormed(c) /\ level \in Levels /\ idx \in Nat /\ n \in Nat \ {0} /\ Fits(c, level) /\ InList(c, cces)
  BY DEF Placed
<1>2. PICK AL \in {1, 2, 4, 8, 16} : AL = 2 ^ level
  BY <1>1, CceCount
<1>3. PICK start \in Nat : cces = start .. start + AL - 1 /\ Min(cces) = start /\ start = StartOf(c, level, idx)
  <2>1. PICK start \in Nat :
          /\ cces = start .. start + 2 ^ level - 1
          /\ Min(cces) = start
          /\ start = 2 ^ level * (((idx * num_CCE(c)) \div (2 ^ level * n)) % (num_CCE(c) \div 2 ^ level))
    BY <1>1, CandidateCces
  <2> HIDE DEF cces
  <2>2. QED
    BY <1>2, <2>1 DEF StartOf
<1>4. PICK Z \in Nat : Z = Mapped(c) * c.bundle
  BY <1>1, Bundles DEF WellFormed
<1>5. 6 * (start + AL) <= Z
  <2>1. start + AL - 1 \in cces
    BY <1>2, <1>3
  <2>2. 6 * ((start + AL - 1) + 1) <= Z
    BY <1>1, <1>4, <2>1 DEF InList, CCE_REG
  <2>3. QED
    BY <1>2, <2>2
<1>6. \A k \in 1 .. 6 * AL : 6 * start + k - 1 \in Listed(c)
  BY <1>2, <1>4, <1>5 DEF Listed
<1> DEFINE L == Unsorted(c, level, start)
<1>7. L = [k \in 1 .. 6 * AL |-> get_rb_interleaved(c)[6 * start + k - 1]]
  BY <1>2 DEF Unsorted, CCE_REG
<1>8. get_rb_candidates(c, level, idx) = Sorted(L)
  BY <1>2, <1>3 DEF get_rb_candidates, Unsorted, CCE_REG
<1> HIDE DEF L, cces, n
<1>9. L \in [1 .. 6 * AL -> Int]
  <2>1. \A k \in 1 .. 6 * AL : get_rb_interleaved(c)[6 * start + k - 1] \in Int
    <3> TAKE k \in 1 .. 6 * AL
    <3>1. get_rb_interleaved(c)[6 * start + k - 1] \in Nat
      BY <1>1, <1>6, BlocksApart
    <3>2. QED
      BY <3>1
  <2>2. QED
    BY <1>7, <2>1
<1>10. Distinct(L, 6 * AL)
  <2> SUFFICES ASSUME NEW k \in 1 .. 6 * AL, NEW l \in 1 .. 6 * AL, L[k] = L[l]
               PROVE  k = l
    BY DEF Distinct
  <2>1. get_rb_interleaved(c)[6 * start + k - 1] = get_rb_interleaved(c)[6 * start + l - 1]
    BY <1>7
  <2>2. 6 * start + k - 1 = 6 * start + l - 1
    BY <1>1, <1>6, <2>1, BlocksApart
  <2>3. QED
    BY <1>2, <2>2
<1>11. QED
  BY <1>2, <1>3, <1>6, <1>8, <1>9, <1>10 DEF L, CCE_REG

\* The sorted blocks of a candidate are those of its first symbol, once per symbol.
LEMMA CandidateBlocks ==
  ASSUME NEW c, NEW level, NEW idx, Placed(c, level, idx)
  PROVE  \E share \in Nat \ {0} : \E G \in [1 .. share -> 0 .. c.rbs - 1] :
           /\ share * c.duration = CCE_REG * 2 ^ level
           /\ Ascends(G, share)
           /\ get_rb_candidates(c, level, idx) = Repeated(G, share, c.duration, c.rbs)
<1>1. WellFormed(c) /\ level \in Levels
  BY DEF Placed
<1>2. PICK AL \in {1, 2, 4, 8, 16} : AL = 2 ^ level
  BY <1>1, CceCount
<1>3. PICK d \in {1, 2, 3} : d = c.duration
  BY <1>1 DEF WellFormed
<1>4. PICK W \in Nat : W = c.rbs
  BY <1>1 DEF WellFormed
<1>5. PICK start \in Nat : start = StartOf(c, level, idx)
  BY CandidateList
<1>6. PICK share \in Nat \ {0} : share * d = 6 * AL
  <2>1. CASE d = 1
    BY <1>2, <2>1
  <2>2. CASE d = 2
    <3>1. (3 * AL) * 2 = 6 * AL /\ 3 * AL \in Nat \ {0}
      BY <1>2
    <3>2. QED
      BY <2>2, <3>1
  <2>3. CASE d = 3
    <3>1. (2 * AL) * 3 = 6 * AL /\ 2 * AL \in Nat \ {0}
      BY <1>2
    <3>2. QED
      BY <2>3, <3>1
  <2>4. QED
    BY <2>1, <2>2, <2>3
<1>7. PICK e \in Nat : d * e = 6 * start
  <2>1. CASE d = 1
    BY <2>1
  <2>2. CASE d = 2
    <3>1. 2 * (3 * start) = 6 * start /\ 3 * start \in Nat
      OBVIOUS
    <3>2. QED
      BY <2>2, <3>1
  <2>3. CASE d = 3
    <3>1. 3 * (2 * start) = 6 * start /\ 2 * start \in Nat
      OBVIOUS
    <3>2. QED
      BY <2>3, <3>1
  <2>4. QED
    BY <2>1, <2>2, <2>3
<1> DEFINE n == 6 * AL
           L == Unsorted(c, level, start)
           P(q) == Place(c, e + q)
<1>8. n \in Nat /\ \A q \in 0 .. share - 1 : \A s \in 0 .. d - 1 : d * q + s + 1 \in 1 .. n
  <2>1. CASE d = 1
    BY <1>2, <1>6, <2>1
  <2>2. CASE d = 2
    BY <1>2, <1>6, <2>2
  <2>3. CASE d = 3
    BY <1>2, <1>6, <2>3
  <2>4. QED
    BY <2>1, <2>2, <2>3
<1>9. L \in [1 .. n -> Int] /\ Distinct(L, n) /\ get_rb_candidates(c, level, idx) = Sorted(L)
  BY <1>2, <1>5, CandidateList DEF CCE_REG
<1>10. \A k \in 1 .. n : L[k] = get_rb_interleaved(c)[6 * start + k - 1] /\ 6 * start + k - 1 \in Listed(c)
  BY <1>2, <1>5, CandidateList DEF CCE_REG, Unsorted
<1> HIDE DEF n, L, P
<1>11. ASSUME NEW q \in 0 .. share - 1, NEW s \in 0 .. d - 1
       PROVE  /\ d * q + s + 1 \in 1 .. n
              /\ P(q) \in 0 .. W - 1
              /\ L[d * q + s + 1] = P(q) + s * W
  <2>1. PICK p \in Nat : p = e + q
    OBVIOUS
  <2>2. d * p = 6 * start + d * q
    <3>1. \A x \in Nat, y \in Nat : d * (x + y) = d * x + d * y
      BY <1>3
    <3>2. QED
      BY <1>7, <2>1, <3>1
  <2>3. d * q + s + 1 \in 1 .. n /\ d * q + 0 + 1 \in 1 .. n /\ d * q \in Nat
    <3>1. 0 \in 0 .. d - 1
      BY <1>3
    <3>2. d * q \in Nat
      BY <1>3
    <3>3. QED
      BY <1>8, <3>1, <3>2
  <2>4. d * p \in Listed(c)
    <3>1. 6 * start + (d * q + 0 + 1) - 1 \in Listed(c)
      BY <1>10, <2>3
    <3>2. 6 * start + (d * q + 0 + 1) - 1 = d * p
      BY <2>2, <2>3
    <3>3. QED
      BY <3>1, <3>2
  <2>5. Place(c, p) \in 0 .. W - 1 /\ get_rb_interleaved(c)[d * p + s] = Place(c, p) + s * W
    BY <1>1, <1>3, <1>4, <2>4, SymbolsTakeTurns
  <2>6. L[d * q + s + 1] = get_rb_interleaved(c)[6 * start + (d * q + s + 1) - 1]
    BY <1>10, <2>3
  <2>7. 6 * start + (d * q + s + 1) - 1 = d * p + s
    BY <2>2, <2>3
  <2>8. QED
    BY <2>1, <2>3, <2>5, <2>6, <2>7 DEF P
<1> DEFINE Q == [i \in 1 .. share |-> P(i - 1)]
           G == Sorted(Q)
<1>12. Q \in [1 .. share -> Int]
  <2>1. \A i \in 1 .. share : P(i - 1) \in Int
    <3>1. 0 \in 0 .. d - 1
      BY <1>3
    <3>2. QED
      BY <1>11, <3>1
  <2>2. QED
    BY <2>1
<1>13. Distinct(Q, share)
  <2> SUFFICES ASSUME NEW i \in 1 .. share, NEW j \in 1 .. share, P(i - 1) = P(j - 1)
               PROVE  i = j
    BY DEF Distinct
  <2>1. PICK a \in 0 .. share - 1, b \in 0 .. share - 1 : a = i - 1 /\ b = j - 1
    OBVIOUS
  <2>2. 0 \in 0 .. d - 1
    BY <1>3
  <2>3. L[d * a + 0 + 1] = L[d * b + 0 + 1] /\ d * a + 0 + 1 \in 1 .. n /\ d * b + 0 + 1 \in 1 .. n
    BY <1>11, <2>1, <2>2
  <2>4. d * a + 0 + 1 = d * b + 0 + 1
    BY <1>9, <2>3 DEF Distinct
  <2>5. a = b
    BY <1>3, <2>4
  <2>6. QED
    BY <2>1, <2>5
<1> HIDE DEF Q
<1>14. G \in [1 .. share -> Int] /\ Ascends(G, share) /\ SameNumbers(G, Q, share)
  BY <1>12, <1>13, SortedAscends
<1>15. G \in [1 .. share -> 0 .. W - 1]
  <2>1. 0 \in 0 .. d - 1
    BY <1>3
  <2>2. \A i \in 1 .. share : Q[i] \in 0 .. W - 1
    <3> TAKE i \in 1 .. share
    <3>1. Q[i] = P(i - 1) /\ i - 1 \in 0 .. share - 1
      BY DEF Q
    <3>2. QED
      BY <1>11, <2>1, <3>1
  <2>3. \A i \in 1 .. share : G[i] \in 0 .. W - 1
    BY <1>14, <2>2 DEF SameNumbers
  <2> HIDE DEF G
  <2>4. QED
    BY <1>14, <2>3
<1> HIDE DEF G
<1> DEFINE T == Repeated(G, share, d, W)
<1>16. T \in [1 .. n -> Int] /\ Ascends(T, n)
  BY <1>6, <1>14, <1>15, RepeatedAscends DEF n
<1>17. \A k \in 1 .. n : T[k] = G[((k - 1) % share) + 1] + ((k - 1) \div share) * W
  BY <1>6 DEF Repeated, n
<1> HIDE DEF T
<1>18. ASSUME NEW i \in 1 .. share, NEW s \in 0 .. d - 1
       PROVE  \E k \in 1 .. n : T[k] = G[i] + s * W
  <2> DEFINE k == s * share + i
  <2>1. k - 1 = s * share + (i - 1) /\ k - 1 \in Nat /\ k \in 1 .. n
    <3>1. CASE d = 1
      BY <1>6, <3>1 DEF n
    <3>2. CASE d = 2
      BY <1>6, <3>2 DEF n
    <3>3. CASE d = 3
      BY <1>6, <3>3 DEF n
    <3>4. QED
      BY <3>1, <3>2, <3>3
  <2> HIDE DEF k
  <2>2. PICK m \in Nat, j \in 0 .. share - 1 : m = k - 1 /\ j = i - 1 /\ m = s * share + j
    BY <2>1
  <2>3. m \div share = s /\ m % share = j
    <3>1. s \in Nat
      BY <1>3
    <3>2. \A q \in Nat : \A r \in 0 .. share - 1 : m = q * share + r => m \div share = q /\ m % share = r
      BY Quotient
    <3>3. QED
      BY ONLY <2>2, <3>1, <3>2, j \in 0 .. share - 1
  <2>4. T[k] = G[j + 1] + s * W
    BY <1>17, <2>1, <2>2, <2>3
  <2>5. QED
    BY <2>1, <2>2, <2>4
<1>19. \A k \in 1 .. n : \E q \in 0 .. share - 1, s \in 0 .. d - 1 : k = d * q + s + 1
  <2>1. CASE d = 1
    BY <1>6, <2>1 DEF n
  <2>2. CASE d = 2
    <3>1. ASSUME NEW k \in 1 .. n
          PROVE  (k - 1) \div 2 \in 0 .. share - 1 /\ (k - 1) % 2 \in 0 .. 1 /\ k = 2 * ((k - 1) \div 2) + ((k - 1) % 2) + 1
      BY <1>6, <2>2 DEF n
    <3>2. QED
      BY <2>2, <3>1
  <2>3. CASE d = 3
    <3>1. ASSUME NEW k \in 1 .. n
          PROVE  (k - 1) \div 3 \in 0 .. share - 1 /\ (k - 1) % 3 \in 0 .. 2 /\ k = 3 * ((k - 1) \div 3) + ((k - 1) % 3) + 1
      BY <1>6, <2>3 DEF n
    <3>2. QED
      BY <2>3, <3>1
  <2>4. QED
    BY <2>1, <2>2, <2>3
<1>20. SameNumbers(L, T, n)
  <2>1. ASSUME NEW k \in 1 .. n
        PROVE  \E l \in 1 .. n : L[k] = T[l]
    <3>1. PICK q \in 0 .. share - 1, s \in 0 .. d - 1 : k = d * q + s + 1
      BY <1>19
    <3>2. L[k] = P(q) + s * W
      BY <1>11, <3>1
    <3>3. q + 1 \in 1 .. share /\ Q[q + 1] = P(q)
      BY DEF Q
    <3>4. PICK i \in 1 .. share : G[i] = P(q)
      BY <1>14, <3>3 DEF SameNumbers
    <3>5. QED
      BY <1>18, <3>2, <3>4
  <2>2. ASSUME NEW l \in 1 .. n
        PROVE  \E k \in 1 .. n : L[k] = T[l]
    <3>1. PICK m \in Nat : m = l - 1
      BY <1>8
    <3>2. m < d * share
      BY <1>3, <1>6, <3>1 DEF n
    <3>3. m \div share \in 0 .. d - 1 /\ (m % share) \in 0 .. share - 1
      <4>1. m \div share \in Nat /\ m \div share < d /\ (m % share) \in 0 .. share - 1
        BY <1>3, <3>2, Quotient
      <4>2. QED
        BY <1>3, <4>1
    <3>4. PICK s \in 0 .. d - 1, j \in 0 .. share - 1 : s = m \div share /\ j = m % share
      BY <3>3
    <3>5. T[l] = G[j + 1] + s * W
      BY <1>17, <3>1, <3>4
    <3>6. PICK i \in 1 .. share : G[j + 1] = Q[i]
      <4>1. j + 1 \in 1 .. share
        OBVIOUS
      <4>2. QED
        BY <1>14, <4>1 DEF SameNumbers
    <3>7. PICK q \in 0 .. share - 1 : q = i - 1 /\ Q[i] = P(q)
      BY DEF Q
    <3>8. L[d * q + s + 1] = T[l] /\ d * q + s + 1 \in 1 .. n
      BY <1>11, <3>5, <3>6, <3>7
    <3>9. QED
      BY <3>8
  <2>3. QED
    BY <2>1, <2>2 DEF SameNumbers
<1>21. Sorted(L) = T
  <2>1. Sorted(L) \in [1 .. n -> Int] /\ Ascends(Sorted(L), n) /\ SameNumbers(Sorted(L), L, n)
    BY <1>8, <1>9, SortedAscends
  <2>2. SameNumbers(Sorted(L), T, n)
    <3> DEFINE S == Sorted(L)
    <3>1. SameNumbers(S, L, n)
      BY <2>1
    <3> HIDE DEF S
    <3>2. SameNumbers(S, T, n)
      BY <1>20, <3>1 DEF SameNumbers
    <3>3. QED
      BY <3>2 DEF S
  <2>3. QED
    BY <1>8, <1>16, <2>1, <2>2, AscendingUnique
<1>22. QED
  BY <1>2, <1>3, <1>4, <1>6, <1>9, <1>14, <1>15, <1>21 DEF T, CCE_REG

-----------------------------------------------------------------------------
(* What follows for the tables.                                            *)

LEMMA SequenceOfLength ==
  ASSUME NEW n \in Nat, NEW s, DOMAIN s = 1 .. n
  PROVE  Len(s) = n
  OBVIOUS

\* Every reference symbol of a candidate is generated for the symbol and for the
\* resource block it is received in.
LEMMA PatternAgrees ==
  ASSUME NEW c, NEW level, NEW idx, Placed(c, level, idx)
  PROVE  LET p == Pattern(c, level, idx)
         IN /\ Len(p.received) = Len(p.generated)
            /\ DOMAIN p.received = DOMAIN p.generated
            /\ \A k \in DOMAIN p.received :
                 /\ p.received[k] = p.generated[k].rb + p.generated[k].symbol * c.rbs
                 /\ p.generated[k].rb \in Nat /\ p.generated[k].rb < c.rbs
<1>1. WellFormed(c) /\ level \in Levels
  BY DEF Placed
<1>2. PICK d \in {1, 2, 3} : d = c.duration
  BY <1>1 DEF WellFormed
<1>3. PICK W \in Nat : W = c.rbs
  BY <1>1 DEF WellFormed
<1> DEFINE S == get_rb_candidates(c, level, idx)
<1>3a. PICK share \in Nat \ {0} : \E H \in [1 .. share -> 0 .. W - 1] : S = Repeated(H, share, d, W)
  BY <1>2, <1>3, CandidateBlocks
<1>4. PICK G \in [1 .. share -> 0 .. W - 1] : S = Repeated(G, share, d, W)
  BY <1>3a
<1> HIDE DEF S
<1>5. PICK n \in Nat : n = share * d
  BY <1>2
<1>6. DOMAIN S = 1 .. n /\ \A k \in 1 .. n : S[k] = G[((k - 1) % share) + 1] + ((k - 1) \div share) * W
  BY <1>4, <1>5 DEF Repeated
<1>7. Len(S) = n
  BY <1>6, SequenceOfLength
<1>8. n \div d = share
  <2>1. CASE d = 1
    BY <1>5, <2>1
  <2>2. CASE d = 2
    BY <1>5, <2>2
  <2>3. CASE d = 3
    BY <1>5, <2>3
  <2>4. QED
    BY <2>1, <2>2, <2>3
<1> DEFINE p == Pattern(c, level, idx)
           gen == [k \in 1 .. n |-> [symbol |-> (k - 1) \div share, rb |-> S[((k - 1) % share) + 1]]]
<1>9. p.received = S /\ p.generated = gen
  BY <1>2, <1>5, <1>7, <1>8 DEF Pattern, S
<1> HIDE DEF p
<1>10. Len(gen) = n /\ DOMAIN gen = 1 .. n
  BY SequenceOfLength
<1>11. ASSUME NEW k \in 1 .. n
       PROVE  /\ S[k] = gen[k].rb + gen[k].symbol * W
              /\ gen[k].rb \in Nat /\ gen[k].rb < W
  <2>1. PICK m \in Nat : m = k - 1
    BY <1>5
  <2>2. PICK j \in 0 .. share - 1, q \in Nat : j = m % share /\ q = m \div share
    BY <2>1, Quotient
  <2>3. j + 1 \in 1 .. n
    BY <1>2, <1>5
  <2>4. PICK i \in Nat : i = (j + 1) - 1 /\ i = j
    OBVIOUS
  <2>5. i \div share = 0 /\ i % share = j
    <3>1. j = 0 * share + j
      OBVIOUS
    <3>2. \A x \in Nat : \A r \in 0 .. share - 1 : i = x * share + r => i \div share = x /\ i % share = r
      BY <2>4, Quotient
    <3>3. QED
      BY ONLY <2>4, <3>1, <3>2, j \in 0 .. share - 1, 0 \in Nat
  <2>6. S[j + 1] = G[j + 1] + 0 * W
    BY <1>6, <2>3, <2>4, <2>5
  <2>7. G[j + 1] \in 0 .. W - 1
    OBVIOUS
  <2>8. S[k] = G[j + 1] + q * W
    BY <1>6, <2>1, <2>2
  <2>9. gen[k].symbol = q /\ gen[k].rb = S[j + 1]
    BY <2>1, <2>2
  <2> HIDE DEF gen
  <2>10. QED
    BY <2>6, <2>7, <2>8, <2>9
<1> HIDE DEF gen
<1>12. QED
  BY <1>3, <1>6, <1>7, <1>9, <1>10, <1>11 DEF p

\* Nothing stops the making of the tables of a CORESET of at most 96 blocks whose
\* interleaver leaves no rest and whose candidates fit side by side.
LEMMA WholeCoresetsAreMade ==
  ASSUME NEW c, WellFormed(c), c.candidates \in [Levels -> 0 .. 255],
         N_CORESET_REG(c) % (c.interleaver * c.bundle) = 0,
         c.rbs <= 96,
         \A level \in Levels : c.candidates[level] * 2 ^ level <= num_CCE(c)
  PROVE  /\ ~Throws(c)
         /\ \A cd \in Candidates(c) : cd[2] < N_CORESET_REG(c) \div 6
<1>1. PICK N \in Nat : N = N_CORESET_REG(c)
  BY Bundles
<1>2. N \div 6 \in 0 .. 255 /\ N <= 96 * 3
  <2>1. PICK W \in Nat, d \in {1, 2, 3} : W = c.rbs /\ d = c.duration
    BY DEF WellFormed
  <2>2. N = W * d /\ W <= 96
    BY <1>1, <2>1 DEF N_CORESET_REG
  <2>3. QED
    BY <2>1, <2>2
<1>3. PICK E \in 0 .. 255 : E = N \div 6 /\ E = num_CCE(c)
  BY <1>1, <1>2 DEF num_CCE, CCE_REG
<1>4. Mapped(c) * c.bundle = N
  <2>1. PICK r \in {2, 3, 6}, b \in {2, 3, 6} : r = c.interleaver /\ b = c.bundle
    BY DEF WellFormed
  <2>2. \A n \in Nat, x \in {2, 3, 6}, y \in {2, 3, 6} : n % (x * y) = 0 => ((n \div (x * y)) * x) * y = n
    OBVIOUS
  <2>3. QED
    BY <1>1, <2>1, <2>2 DEF Mapped, Columns
<1>5. ASSUME NEW cd \in Candidates(c)
      PROVE  Placed(c, cd[1], cd[2]) /\ cd[2] < E
  <2>1. PICK level \in Levels, idx \in 0 .. 255 : level = cd[1] /\ idx = cd[2] /\ idx < c.candidates[level]
    BY DEF Candidates
  <2>2. PICK AL \in {1, 2, 4, 8, 16} : AL = 2 ^ level
    BY CceCount
  <2>3. PICK n \in 1 .. 255 : n = c.candidates[level] /\ n * AL <= E
    <3>1. PICK n \in 0 .. 255 : n = c.candidates[level]
      OBVIOUS
    <3>2. c.candidates[level] * 2 ^ level <= num_CCE(c)
      OBVIOUS
    <3>3. n * AL <= E
      BY <1>3, <2>2, <3>1, <3>2
    <3>4. n >= 1
      BY <2>1, <3>1
    <3>5. QED
      BY <3>1, <3>3, <3>4
  <2>4. idx < E /\ AL <= E
    <3>1. \A x \in 1 .. 255 : x <= x * AL /\ AL <= x * AL /\ x * AL \in Nat
      BY <2>2
    <3>2. n <= n * AL /\ AL <= n * AL /\ n * AL \in Nat
      BY <3>1
    <3>3. idx < n
      BY <2>1, <2>3
    <3>4. QED
      BY <2>2, <2>3, <3>2, <3>3
  <2>5. Fits(c, level)
    <3>1. E \div AL > 0
      BY <2>2, <2>4
    <3>2. QED
      BY <1>3, <2>2, <3>1 DEF Fits
  <2>6. PICK start \in Nat : /\ get_candidates(c, level, idx, n) = start .. start + AL - 1
                             /\ start = AL * (((idx * E) \div (AL * n)) % (E \div AL))
    <3>1. WellFormed(c) /\ level \in Levels /\ n \in Nat \ {0} /\ idx \in Nat /\ Fits(c, level)
      BY <2>5
    <3>2. PICK start \in Nat :
            /\ get_candidates(c, level, idx, n) = start .. start + 2 ^ level - 1
            /\ Min(get_candidates(c, level, idx, n)) = start
            /\ start = 2 ^ level * (((idx * num_CCE(c)) \div (2 ^ level * n)) % (num_CCE(c) \div 2 ^ level))
      BY ONLY <3>1, CandidateCces
    <3>3. QED
      BY <1>3, <2>2, <3>2
  <2>7. start + AL <= E
    <3>1. PICK m \in Nat \ {0} : m = E \div AL /\ AL * m <= E
      BY <2>2, <2>4
    <3>2. PICK x \in Nat : x = (idx * E) \div (AL * n)
      <4>1. PICK p \in Nat : p = idx * E
        OBVIOUS
      <4>2. PICK q \in Nat \ {0} : q = AL * n
        BY <2>2, <2>3
      <4>3. p \in Nat /\ q \in Nat \ {0}
        BY <4>1, <4>2
      <4>4. p \div q \in Nat
        BY ONLY <4>3, SMT
      <4>5. QED
        BY <4>1, <4>2, <4>4
    <3>3. PICK y \in 0 .. m - 1 : y = x % m
      BY Quotient
    <3>4. start = AL * y
      BY <2>6, <3>1, <3>2, <3>3
    <3>5. AL * y + AL <= AL * m
      BY <2>2
    <3>6. QED
      BY <2>2, <3>1, <3>4, <3>5
  <2>8. InList(c, get_candidates(c, level, idx, n))
    <3> SUFFICES ASSUME NEW cce \in start .. start + AL - 1
                 PROVE  6 * (cce + 1) <= N
      BY <1>4, <2>6 DEF InList, CCE_REG
    <3>1. cce + 1 <= E /\ 6 * E <= N
      BY <1>3, <2>2, <2>7
    <3>2. QED
      BY <3>1
  <2>9. QED
    BY <2>1, <2>3, <2>4, <2>5, <2>8 DEF Placed
<1>6. ASSUME NEW cd \in Candidates(c), NEW symbol \in Range(Pattern(c, cd[1], cd[2]).generated)
      PROVE  ~(symbol.rb >= GoldBlocks)
  <2> DEFINE p == Pattern(c, cd[1], cd[2])
  <2>1. Placed(c, cd[1], cd[2])
    BY <1>5
  <2>2. /\ DOMAIN p.received = DOMAIN p.generated
        /\ \A k \in DOMAIN p.received : p.generated[k].rb \in Nat /\ p.generated[k].rb < c.rbs
    BY <2>1, PatternAgrees
  <2> HIDE DEF p
  <2>3. PICK k \in DOMAIN p.generated : symbol = p.generated[k]
    BY <1>6 DEF Range, p
  <2>4. symbol.rb \in Nat /\ symbol.rb < c.rbs /\ c.rbs \in Nat
    BY <2>2, <2>3 DEF WellFormed
  <2>5. QED
    BY <2>4 DEF GoldBlocks
<1>7. ~Throws(c)
  BY <1>5, <1>6 DEF Throws, Placed
<1>8. QED
  BY <1>1, <1>3, <1>5, <1>7

\* Candidates that fit side by side begin at different multiples of their size.
LEMMA StartsApart ==
  ASSUME NEW AL \in {1, 2, 4, 8, 16}, NEW n \in Nat \ {0}, NEW E \in Nat, n * AL <= E,
         NEW i \in Nat, NEW j \in Nat, i < j, j < n,
         NEW x \in Nat, NEW y \in Nat, x = (i * E) \div (AL * n), y = (j * E) \div (AL * n),
         NEW m \in Nat, m = E \div AL
  PROVE  x < y /\ y < m
<1>1. PICK D \in Nat \ {0} : D = AL * n /\ D = n * AL
  <2>1. AL * n \in Nat \ {0} /\ AL * n = n * AL
    OBVIOUS
  <2>2. QED
    BY <2>1
<1>2. PICK p \in Nat, q \in Nat : p = i * E /\ q = j * E
  <2>1. i * E \in Nat /\ j * E \in Nat
    OBVIOUS
  <2>2. QED
    BY <2>1
<1>3. \A k \in Nat : /\ k \div D \in Nat /\ (k % D) \in 0 .. D - 1
                     /\ k = (k \div D) * D + (k % D)
  BY Quotient
<1>4. PICK r \in 0 .. D - 1 : p = x * D + r
  BY <1>1, <1>2, <1>3
<1>5. PICK s \in 0 .. D - 1 : q = y * D + s
  BY <1>1, <1>2, <1>3
<1>6. p + E <= q
  <2>1. PICK d \in Nat : j = i + 1 + d
    <3>1. j - i - 1 \in Nat /\ j = i + 1 + (j - i - 1)
      OBVIOUS
    <3>2. QED
      BY <3>1
  <2>2. (i + 1 + d) * E = i * E + E + d * E /\ d * E \in Nat
    OBVIOUS
  <2>3. QED
    BY <1>2, <2>1, <2>2
<1>7. q + E <= n * E
  <2>1. PICK d \in Nat : n = j + 1 + d
    <3>1. n - j - 1 \in Nat /\ n = j + 1 + (n - j - 1)
      OBVIOUS
    <3>2. QED
      BY <3>1
  <2>2. (j + 1 + d) * E = j * E + E + d * E /\ d * E \in Nat
    OBVIOUS
  <2>3. QED
    BY <1>2, <2>1, <2>2
<1>8. x * D \in Nat /\ y * D \in Nat /\ D <= E
  BY <1>1
<1>9. x < y
  <2> SUFFICES ASSUME y <= x
               PROVE  FALSE
    OBVIOUS
  <2>1. PICK d \in Nat : x = y + d
    <3>1. x - y \in Nat /\ x = y + (x - y)
      OBVIOUS
    <3>2. QED
      BY <3>1
  <2>2. (y + d) * D = y * D + d * D /\ d * D \in Nat
    OBVIOUS
  <2>3. QED
    BY <1>4, <1>5, <1>6, <1>8, <2>1, <2>2
<1>10. y < m
  <2> SUFFICES ASSUME m <= y
               PROVE  FALSE
    OBVIOUS
  <2>1. E <= AL * m + AL - 1
    OBVIOUS
  <2>2. n * E <= n * (AL * m + AL - 1)
    <3>1. PICK d \in Nat : E + d = AL * m + AL - 1
      <4>1. AL * m + AL - 1 - E \in Nat /\ E + (AL * m + AL - 1 - E) = AL * m + AL - 1
        BY <2>1
      <4>2. QED
        BY <4>1
    <3>2. n * (E + d) = n * E + n * d /\ n * d \in Nat /\ n * E \in Nat
      OBVIOUS
    <3>3. QED
      BY <3>1, <3>2
  <2>3. n * (AL * m + AL - 1) = m * D + D - n
    <3>1. \A a \in Nat : n * (a * m + a - 1) = m * (n * a) + (n * a) - n
      OBVIOUS
    <3>2. n * AL = D /\ AL \in Nat
      BY <1>1
    <3>3. n * (AL * m + AL - 1) = m * (n * AL) + (n * AL) - n
      BY ONLY <3>1, <3>2, Zenon
    <3>4. QED
      BY ONLY <3>2, <3>3, Zenon
  <2>4. m * D <= y * D
    <3>1. PICK d \in Nat : y = m + d
      <4>1. y - m \in Nat /\ y = m + (y - m)
        OBVIOUS
      <4>2. QED
        BY <4>1
    <3>2. (m + d) * D = m * D + d * D /\ d * D \in Nat /\ m * D \in Nat
      OBVIOUS
    <3>3. QED
      BY <3>1, <3>2
  <2>5. PICK u \in Nat, v \in Nat, w \in Nat : u = n * E /\ v = m * D /\ w = y * D
    <3>1. n * E \in Nat /\ m * D \in Nat
      OBVIOUS
    <3>2. QED
      BY <1>8, <3>1
  <2>6. q + E <= u /\ u <= v + D - n /\ v <= w /\ w <= q /\ D <= E
    BY <1>5, <1>7, <1>8, <2>2, <2>3, <2>4, <2>5
  <2>7. QED
    BY <2>6
<1>11. QED
  BY <1>9, <1>10

LEMMA CandidatesDisjoint ==
  ASSUME NEW c, NEW level, NEW i, NEW j, Placed(c, level, i), Placed(c, level, j),
         i < j, j < c.candidates[level], c.candidates[level] * 2 ^ level <= num_CCE(c)
  PROVE  Range(get_rb_candidates(c, level, i)) \cap Range(get_rb_candidates(c, level, j)) = {}
<1>1. /\ WellFormed(c) /\ level \in Levels /\ i \in Nat /\ j \in Nat
      /\ c.candidates[level] \in Nat \ {0}
  BY DEF Placed
<1>2. PICK AL \in {1, 2, 4, 8, 16} : AL = 2 ^ level
  BY <1>1, CceCount
<1>3. PICK n \in Nat \ {0} : n = c.candidates[level]
  BY <1>1
<1>4. PICK E \in Nat : E = num_CCE(c)
  <2>1. N_CORESET_REG(c) \div 6 \in Nat
    BY <1>1, Bundles
  <2>2. num_CCE(c) \in Nat
    BY <2>1 DEF num_CCE, CCE_REG
  <2>3. QED
    BY <2>2
<1>5. PICK m \in Nat : m = E \div AL
  BY <1>2
<1>6. \A k \in Nat : (k * E) \div (AL * n) \in Nat
  <2> TAKE k \in Nat
  <2>1. k * E \in Nat /\ AL * n \in Nat \ {0}
    BY <1>2
  <2>2. QED
    BY <2>1, Quotient
<1>7. PICK x \in Nat : x = (i * E) \div (AL * n)
  BY <1>1, <1>6
<1>8. PICK y \in Nat : y = (j * E) \div (AL * n)
  BY <1>1, <1>6
<1>9. x < y /\ y < m
  <2>1. n * AL <= E /\ i < j /\ j < n
    BY <1>2, <1>3, <1>4
  <2>2. QED
    BY <1>1, <1>5, <1>7, <1>8, <2>1, StartsApart
<1>10. PICK s \in Nat : s = StartOf(c, level, i)
  BY CandidateList
<1>11. PICK t \in Nat : t = StartOf(c, level, j)
  BY CandidateList
<1>12. s = AL * x /\ t = AL * y
  <2>1. x % m = x /\ y % m = y
    BY <1>9
  <2>2. s = AL * (x % m) /\ t = AL * (y % m)
    BY <1>2, <1>3, <1>4, <1>5, <1>7, <1>8, <1>10, <1>11 DEF StartOf
  <2>3. QED
    BY <2>1, <2>2
<1>13. s + AL <= t
  BY <1>2, <1>9, <1>12
<1> DEFINE K == Unsorted(c, level, s)
           L == Unsorted(c, level, t)
           z == 6 * AL
<1>14. z \in Nat /\ z = CCE_REG * 2 ^ level
  BY <1>2 DEF CCE_REG
<1>15. /\ K \in [1 .. z -> Int] /\ Distinct(K, z) /\ get_rb_candidates(c, level, i) = Sorted(K)
       /\ L \in [1 .. z -> Int] /\ Distinct(L, z) /\ get_rb_candidates(c, level, j) = Sorted(L)
  BY <1>10, <1>11, <1>14, CandidateList
<1>16. \A k \in 1 .. z : /\ K[k] = get_rb_interleaved(c)[6 * s + k - 1] /\ 6 * s + k - 1 \in Listed(c)
                         /\ L[k] = get_rb_interleaved(c)[6 * t + k - 1] /\ 6 * t + k - 1 \in Listed(c)
  BY <1>10, <1>11, <1>14, CandidateList DEF Unsorted, CCE_REG
<1> HIDE DEF K, L
<1>17. ASSUME NEW k \in 1 .. z, NEW l \in 1 .. z, K[k] = L[l]
       PROVE  FALSE
  <2>1. 6 * s + k - 1 = 6 * t + l - 1
    BY <1>1, <1>16, <1>17, BlocksApart
  <2>2. QED
    BY <1>2, <1>13, <2>1
<1> DEFINE S == get_rb_candidates(c, level, i)
           T == get_rb_candidates(c, level, j)
<1>18. /\ DOMAIN S = 1 .. z /\ SameNumbers(S, K, z)
       /\ DOMAIN T = 1 .. z /\ SameNumbers(T, L, z)
  BY <1>14, <1>15, SortedAscends
<1> HIDE DEF S, T
<1>19. /\ \A e \in 1 .. z : \E k \in 1 .. z : S[e] = K[k]
       /\ \A e \in 1 .. z : \E k \in 1 .. z : T[e] = L[k]
  BY <1>18 DEF SameNumbers
<1>20. ASSUME NEW r \in Range(S) \cap Range(T)
       PROVE  FALSE
  <2>1. PICK a \in 1 .. z, b \in 1 .. z : r = S[a] /\ r = T[b]
    BY <1>18, <1>20 DEF Range
  <2>2. PICK k \in 1 .. z : S[a] = K[k]
    BY <1>19
  <2>3. PICK l \in 1 .. z : T[b] = L[l]
    BY <1>19
  <2>4. K[k] = L[l]
    BY <2>1, <2>2, <2>3
  <2>5. QED
    BY <1>17, <2>4
<1>21. QED
  BY <1>20 DEF S, T

=============================================================================
