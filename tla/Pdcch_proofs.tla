---------------------------- MODULE Pdcch_proofs ----------------------------
(***************************************************************************)
(* Proofs about Pdcch: whatever any number of threads find, the list of    *)
(* RNTIs keeps every RNTI, and each once, and a deletion takes out only    *)
(* candidates under the one found; a thread alone reports all that is sent.*)
(***************************************************************************)
EXTENDS PdcchInv, FiniteSetTheorems, WellFoundedInduction, TLAPS

-----------------------------------------------------------------------------
(* Taking an element out of a sequence and putting it in front.            *)

LEMMA RangeFacts ==
  ASSUME NEW S, NEW s \in Seq(S)
  PROVE  /\ \A x : x \in Range(s) <=> \E i \in 1 .. Len(s) : s[i] = x
         /\ IsInjective(s) <=> \A i, j \in 1 .. Len(s) : s[i] = s[j] => i = j
         /\ \A x : Contains(s, x) <=> x \in Range(s)
<1>1. DOMAIN s = 1 .. Len(s)
  OBVIOUS
<1>2. QED
  BY <1>1 DEF Range, IsInjective, Contains

\* A set of natural numbers that is not empty has a least element.
LEMMA LeastNat ==
  ASSUME NEW S \in SUBSET Nat, S # {}
  PROVE  \E n \in S : \A m \in S : n <= m
<1> DEFINE R == OpToRel(<, Nat)
<1>1. IsWellFoundedOn(R, Nat)
  BY NatLessThanWellFounded
<1>2. PICK n \in S : \A m \in S : ~(<<m, n>> \in R)
  BY <1>1, WFMin
<1>3. \A m \in S : ~(m < n)
  BY <1>2 DEF OpToRel
<1>4. QED
  BY <1>3

\* RemoveFirst takes out the element at some position, and there is one.
LEMMA RemoveFirstIsRemoveAt ==
  ASSUME NEW s \in Seq(Nat), NEW e, Contains(s, e)
  PROVE  \E p \in 1 .. Len(s) : s[p] = e /\ RemoveFirst(s, e) = RemoveAt(s, p)
<1> DEFINE I == {i \in 1 .. Len(s) : s[i] = e}
<1>1. I \in SUBSET Nat /\ I # {}
  BY DEF Contains
<1>2. \E n \in I : \A m \in I : n <= m
  BY <1>1, LeastNat
<1>3. Min(I) \in I
  BY <1>2 DEF Min
<1>4. RemoveFirst(s, e) = RemoveAt(s, Min(I))
  BY <1>1 DEF RemoveFirst, SelectInSeq
<1>5. QED
  BY <1>3, <1>4

LEMMA ConcatFacts ==
  ASSUME NEW a \in Seq(Nat), NEW b \in Seq(Nat)
  PROVE  /\ a \o b \in Seq(Nat)
         /\ Len(a \o b) = Len(a) + Len(b)
         /\ \A i \in 1 .. Len(a) : (a \o b)[i] = a[i]
         /\ \A i \in 1 .. Len(b) : (a \o b)[Len(a) + i] = b[i]
<1>1. a \o b \in Seq(Nat) /\ Len(a \o b) = Len(a) + Len(b)
  OBVIOUS
<1>2. \A i \in 1 .. Len(a) : (a \o b)[i] = a[i]
  OBVIOUS
<1>3. \A i \in 1 .. Len(b) : (a \o b)[Len(a) + i] = b[i]
  OBVIOUS
<1>4. QED
  BY <1>1, <1>2, <1>3

LEMMA RemoveAtFacts ==
  ASSUME NEW s \in Seq(Nat), NEW p \in 1 .. Len(s)
  PROVE  /\ RemoveAt(s, p) \in Seq(Nat)
         /\ Len(RemoveAt(s, p)) = Len(s) - 1
         /\ \A i \in 1 .. Len(s) - 1 : RemoveAt(s, p)[i] = IF i < p THEN s[i] ELSE s[i + 1]
<1> DEFINE a == SubSeq(s, 1, p - 1)
           b == SubSeq(s, p + 1, Len(s))
<1>1. Len(s) \in Nat /\ p \in Nat /\ 1 <= p /\ p <= Len(s)
  OBVIOUS
<1>2. a \in Seq(Nat) /\ Len(a) = p - 1 /\ \A i \in 1 .. p - 1 : a[i] = s[i]
  BY <1>1
<1>3. b \in Seq(Nat) /\ Len(b) = Len(s) - p /\ \A i \in 1 .. Len(s) - p : b[i] = s[p + i]
  BY <1>1
<1>4. RemoveAt(s, p) = a \o b
  BY DEF RemoveAt
<1> HIDE DEF a, b
<1>5. /\ a \o b \in Seq(Nat) /\ Len(a \o b) = Len(a) + Len(b)
      /\ \A i \in 1 .. Len(a) : (a \o b)[i] = a[i]
      /\ \A i \in 1 .. Len(b) : (a \o b)[Len(a) + i] = b[i]
  BY ONLY <1>2, <1>3, ConcatFacts
<1>6. ASSUME NEW i \in 1 .. Len(s) - 1
      PROVE  (a \o b)[i] = IF i < p THEN s[i] ELSE s[i + 1]
  <2>1. CASE i < p
    <3>1. i \in 1 .. Len(a) /\ i \in 1 .. p - 1
      BY <1>1, <1>2, <2>1
    <3>2. QED
      BY <1>2, <1>5, <2>1, <3>1
  <2>2. CASE ~(i < p)
    <3> DEFINE k == i - (p - 1)
    <3>1. k \in 1 .. Len(b) /\ k \in 1 .. Len(s) - p /\ p + k = i + 1 /\ Len(a) + k = i
      BY <1>1, <1>2, <1>3, <2>2
    <3> HIDE DEF k
    <3>2. (a \o b)[i] = b[k] /\ b[k] = s[i + 1]
      BY <1>3, <1>5, <3>1
    <3>3. QED
      BY <2>2, <3>2
  <2>3. QED
    BY <2>1, <2>2
<1>7. QED
  BY <1>1, <1>2, <1>3, <1>4, <1>5, <1>6

\* Out of a sequence without repetition goes just that element.
LEMMA RemoveFirstFacts ==
  ASSUME NEW s \in Seq(Nat), NEW e, IsInjective(s), e \in Range(s)
  PROVE  /\ RemoveFirst(s, e) \in Seq(Nat)
         /\ Len(RemoveFirst(s, e)) = Len(s) - 1
         /\ IsInjective(RemoveFirst(s, e))
         /\ Range(RemoveFirst(s, e)) = Range(s) \ {e}
<1>1. PICK p \in 1 .. Len(s) : s[p] = e /\ RemoveFirst(s, e) = RemoveAt(s, p)
  BY RangeFacts, RemoveFirstIsRemoveAt
<1> DEFINE r == RemoveAt(s, p)
           old(i) == IF i < p THEN i ELSE i + 1
<1>2. /\ r \in Seq(Nat) /\ Len(r) = Len(s) - 1 /\ Len(s) \in Nat
      /\ \A i \in 1 .. Len(s) - 1 : r[i] = s[old(i)] /\ old(i) \in 1 .. Len(s) /\ old(i) # p
  <2>1. /\ r \in Seq(Nat) /\ Len(r) = Len(s) - 1 /\ Len(s) \in Nat
        /\ \A i \in 1 .. Len(s) - 1 : r[i] = IF i < p THEN s[i] ELSE s[i + 1]
    <3>1. p \in 1 .. Len(s) /\ s \in Seq(Nat)
      OBVIOUS
    <3>2. Len(s) \in Nat
      BY <3>1
    <3>3. QED
      BY ONLY <3>1, <3>2, RemoveAtFacts, Zenon
  <2> HIDE DEF r
  <2>2. \A i \in 1 .. Len(s) - 1 : old(i) \in 1 .. Len(s) /\ old(i) # p
    BY <2>1
  <2>3. \A i \in 1 .. Len(s) - 1 : r[i] = s[old(i)]
    BY <2>1
  <2>4. QED
    BY <2>1, <2>2, <2>3
<1>3. \A i, j \in 1 .. Len(s) : s[i] = s[j] => i = j
  BY RangeFacts
<1>4. \A i, j \in 1 .. Len(s) - 1 : old(i) = old(j) => i = j
  OBVIOUS
<1> HIDE DEF r
<1>5. IsInjective(r)
  <2>1. \A i, j \in 1 .. Len(r) : r[i] = r[j] => i = j
    <3> HIDE DEF old
    <3>1. \A i \in 1 .. Len(r) : i \in 1 .. Len(s) - 1
      BY <1>2
    <3>2. ASSUME NEW i \in 1 .. Len(r), NEW j \in 1 .. Len(r), r[i] = r[j]
          PROVE  i = j
      <4>1. i \in 1 .. Len(s) - 1 /\ j \in 1 .. Len(s) - 1
        BY <3>1
      <4>2. s[old(i)] = s[old(j)] /\ old(i) \in 1 .. Len(s) /\ old(j) \in 1 .. Len(s)
        BY <1>2, <3>2, <4>1
      <4>3. QED
        BY <1>3, <1>4, <4>1, <4>2
    <3>3. QED
      BY <3>2
  <2>2. QED
    BY <1>2, <2>1, RangeFacts
<1>6. ASSUME NEW x
      PROVE  x \in Range(r) <=> x \in Range(s) /\ x # e
  <2>1. ASSUME x \in Range(r)
        PROVE  x \in Range(s) /\ x # e
    <3>1. PICK i \in 1 .. Len(s) - 1 : r[i] = x
      BY <1>2, <2>1, RangeFacts
    <3> HIDE DEF old
    <3>2. s[old(i)] = x /\ old(i) \in 1 .. Len(s) /\ old(i) # p
      BY <1>2, <3>1
    <3>3. QED
      BY <1>1, <1>3, <3>2, RangeFacts
  <2>2. ASSUME x \in Range(s), x # e
        PROVE  x \in Range(r)
    <3>1. PICK i \in 1 .. Len(s) : s[i] = x
      BY <2>2, RangeFacts
    <3>2. i # p
      BY <1>1, <2>2, <3>1
    <3>3. \E j \in 1 .. Len(s) - 1 : old(j) = i
      <4>1. CASE i < p
        <5>1. i \in 1 .. Len(s) - 1 /\ old(i) = i
          BY <1>2, <4>1
        <5>2. QED
          BY <5>1
      <4>2. CASE i > p
        <5>1. i - 1 \in 1 .. Len(s) - 1 /\ old(i - 1) = i
          BY <1>2, <4>2
        <5>2. QED
          BY <5>1
      <4>3. QED
        BY <3>2, <4>1, <4>2
    <3> HIDE DEF old
    <3>4. QED
      BY <1>2, <3>1, <3>3, RangeFacts
  <2>3. QED
    BY <2>1, <2>2
<1>7. Range(r) = Range(s) \ {e}
  BY <1>6
<1>8. QED
  BY <1>1, <1>2, <1>5, <1>7 DEF r

LEMMA InFrontFacts ==
  ASSUME NEW s \in Seq(Nat), NEW e \in Nat, IsInjective(s), e \notin Range(s)
  PROVE  /\ <<e>> \o s \in Seq(Nat)
         /\ Len(<<e>> \o s) = Len(s) + 1
         /\ IsInjective(<<e>> \o s)
         /\ Range(<<e>> \o s) = Range(s) \cup {e}
<1> DEFINE r == <<e>> \o s
<1>1. /\ r \in Seq(Nat) /\ Len(r) = Len(s) + 1 /\ Len(s) \in Nat
      /\ r[1] = e /\ \A i \in 2 .. Len(s) + 1 : r[i] = s[i - 1]
  OBVIOUS
<1> HIDE DEF r
<1>2. \A i \in 1 .. Len(s) : i + 1 \in 2 .. Len(s) + 1 /\ (i + 1) - 1 = i
  BY <1>1
<1>3. \A i \in 1 .. Len(r) : i = 1 \/ (i \in 2 .. Len(s) + 1 /\ i - 1 \in 1 .. Len(s))
  BY <1>1
<1>4. \A i \in 1 .. Len(s) : s[i] # e
  BY RangeFacts
<1>5. IsInjective(r)
  <2>1. \A i, j \in 1 .. Len(s) : s[i] = s[j] => i = j
    BY RangeFacts
  <2>2. ASSUME NEW i \in 1 .. Len(r), NEW j \in 1 .. Len(r), r[i] = r[j]
        PROVE  i = j
    <3>1. CASE i = 1 /\ j = 1
      BY <3>1
    <3>2. CASE i # 1 /\ j = 1
      BY <1>1, <1>3, <1>4, <2>2, <3>2
    <3>3. CASE i = 1 /\ j # 1
      BY <1>1, <1>3, <1>4, <2>2, <3>3
    <3>4. CASE i # 1 /\ j # 1
      <4>1. i - 1 \in 1 .. Len(s) /\ j - 1 \in 1 .. Len(s) /\ s[i - 1] = s[j - 1]
        BY <1>1, <1>3, <2>2, <3>4
      <4>2. i - 1 = j - 1 /\ i \in Nat /\ j \in Nat
        BY <2>1, <4>1
      <4>3. QED
        BY <4>2
    <3>5. QED
      BY <3>1, <3>2, <3>3, <3>4
  <2>3. QED
    BY <1>1, <2>2, RangeFacts
<1>6. ASSUME NEW x
      PROVE  x \in Range(r) <=> x \in Range(s) \/ x = e
  <2>1. x \in Range(r) <=> \E i \in 1 .. Len(r) : r[i] = x
    BY <1>1, RangeFacts
  <2>2. x \in Range(s) <=> \E i \in 1 .. Len(s) : s[i] = x
    BY RangeFacts
  <2>3. ASSUME NEW i \in 1 .. Len(r), r[i] = x
        PROVE  x = e \/ \E j \in 1 .. Len(s) : s[j] = x
    BY <1>1, <1>3, <2>3
  <2>4. ASSUME NEW j \in 1 .. Len(s), s[j] = x
        PROVE  r[j + 1] = x /\ j + 1 \in 1 .. Len(r)
    <3>1. Len(s) \in Nat /\ j \in Nat /\ 1 <= j /\ j <= Len(s)
      OBVIOUS
    <3>2. j + 1 \in 1 .. Len(r)
      BY ONLY <1>1, <3>1
    <3>3. r[j + 1] = s[j]
      <4>1. j + 1 \in 2 .. Len(s) + 1 /\ (j + 1) - 1 = j
        BY ONLY <3>1
      <4>2. \A i \in 2 .. Len(s) + 1 : r[i] = s[i - 1]
        BY <1>1
      <4>3. r[j + 1] = s[(j + 1) - 1]
        BY ONLY <4>1, <4>2
      <4>4. QED
        BY ONLY <4>1, <4>3
    <3>4. QED
      BY <2>4, <3>2, <3>3
  <2>5. 1 \in 1 .. Len(r)
    BY <1>1
  <2>6. QED
    BY <1>1, <2>1, <2>2, <2>3, <2>4, <2>5
<1>7. Range(r) = Range(s) \cup {e}
  BY <1>6
<1>8. QED
  BY <1>1, <1>5, <1>7 DEF r

-----------------------------------------------------------------------------
(* The list under update_RNTI_list.                                        *)

LEMMA SingletonCard == Cardinality({}) = 0 /\ \A x : Cardinality({x}) = 1
  BY FS_Singleton, FS_EmptySet

LEMMA InitUpdate == Init => UpdateInv
<1> SUFFICES ASSUME Init PROVE UpdateInv
  OBVIOUS
<1>1. Rntis \in Seq(Nat) /\ Rntis \in Seq(Nat \ {0}) /\ IsInjective(Rntis)
  BY PdcchAssumption
<1>2. \A t \in Threads : pc[t] = "idle"
  BY DEF Init
<1>3. AllBut(found_RNTI_list, {})
  <2>1. Len(Rntis) - Cardinality({}) = Len(Rntis)
    BY ONLY <1>1, SingletonCard
  <2>2. QED
    BY <1>1, <2>1 DEF AllBut, Init
<1>4. pc \in [Threads -> PCs]
  BY DEF Init, PCs
<1>5. DOMAIN job = Threads /\ found_RNTI_list \in Seq(Nat) /\ rnti_list_mutex \in {0, 1}
  BY <1>1 DEF Init
<1>6. QED
  BY <1>2, <1>3, <1>4, <1>5 DEF UpdateInv, Updating

\* A step of one thread that leaves the list alone and neither enters nor leaves
\* the update keeps the invariant.
LEMMA Elsewhere ==
  ASSUME UpdateInv, NEW t \in Threads, ~Updating(t), UNCHANGED shared,
         NEW label \in PCs \ {"erase", "insert", "release"}, NEW update,
         Goto(t, label, update)
  PROVE  UpdateInv'
<1>1. /\ pc' \in [Threads -> PCs] /\ DOMAIN job' = Threads
      /\ pc'[t] = label
      /\ \A u \in Threads \ {t} : pc'[u] = pc[u] /\ job'[u] = job[u]
  BY DEF Goto, UpdateInv
<1>2. \A u \in Threads : Updating(u)' <=> Updating(u)
  BY <1>1 DEF Updating
<1>3. found_RNTI_list' = found_RNTI_list /\ rnti_list_mutex' = rnti_list_mutex
  BY DEF shared
<1>5. \A u \in Threads : pc'[u] \in {"erase", "insert"} =>
        pc'[u] = pc[u] /\ job'[u] = job[u]
  BY <1>1
<1>6. \A u \in Threads : pc[u] = "insert" => pc'[u] = "insert"
  BY <1>1 DEF Updating
<1>7. /\ found_RNTI_list' \in Seq(Nat)
      /\ rnti_list_mutex' \in {0, 1}
      /\ rnti_list_mutex' = 1 => \A u \in Threads : ~Updating(u)'
      /\ \A u, v \in Threads : Updating(u)' /\ Updating(v)' => u = v
  BY <1>2, <1>3 DEF UpdateInv
<1>8. \A u \in Threads : pc'[u] \in {"erase", "insert"} => job'[u].rnti \in Range(Rntis)
  BY <1>5 DEF UpdateInv
<1>9. (\A u \in Threads : pc'[u] # "insert") => AllBut(found_RNTI_list', {})
  BY <1>3, <1>6 DEF UpdateInv
<1>10. \A u \in Threads : pc'[u] = "insert" => AllBut(found_RNTI_list', {job'[u].rnti})
  BY <1>3, <1>5 DEF UpdateInv
<1>11. QED
  BY <1>1, <1>7, <1>8, <1>9, <1>10 DEF UpdateInv

LEMMA AcquireUpdate ==
  ASSUME UpdateInv, NEW t \in Threads, Acquire(t)
  PROVE  UpdateInv'
<1> DEFINE label == IF Contains(found_RNTI_list, job[t].rnti) THEN "erase" ELSE "release"
<1>1. /\ pc' \in [Threads -> PCs] /\ DOMAIN job' = Threads /\ pc'[t] = label
      /\ \A u \in Threads : job'[u] = job[u]
      /\ \A u \in Threads \ {t} : pc'[u] = pc[u]
      /\ found_RNTI_list' = found_RNTI_list /\ rnti_list_mutex' = 0
  BY DEF Acquire, Goto, UpdateInv, PCs
<1>2. \A u \in Threads : ~Updating(u)
  BY DEF Acquire, UpdateInv
<1>3. \A u \in Threads : pc'[u] \in {"erase", "insert", "release"} => u = t
  BY <1>1, <1>2 DEF Updating
<1>4. \A u \in Threads : pc[u] # "insert"
  BY <1>2 DEF Updating
<1>5. \A u \in Threads : pc'[u] # "insert"
  BY <1>1, <1>3, <1>4
<1>6. AllBut(found_RNTI_list', {})
  BY <1>1, <1>4 DEF UpdateInv
<1>7. ASSUME NEW u \in Threads, pc'[u] = "erase"
      PROVE  job'[u].rnti \in Range(Rntis)
  <2>1. u = t /\ Contains(found_RNTI_list, job[t].rnti)
    BY <1>1, <1>3, <1>7
  <2>2. found_RNTI_list \in Seq(Nat)
    BY DEF UpdateInv
  <2>3. job[t].rnti \in Range(found_RNTI_list)
    BY <2>1, <2>2, RangeFacts
  <2>4. QED
    BY <1>1, <1>6, <2>1, <2>3 DEF AllBut
<1>8. found_RNTI_list' \in Seq(Nat) /\ rnti_list_mutex' \in {0, 1} /\ rnti_list_mutex' # 1
  BY <1>1 DEF UpdateInv
<1>9. \A u, v \in Threads : Updating(u)' /\ Updating(v)' => u = v
  BY <1>3 DEF Updating
<1>10. \A u \in Threads : pc'[u] \in {"erase", "insert"} => job'[u].rnti \in Range(Rntis)
  BY <1>5, <1>7
<1>11. QED
  BY <1>1, <1>5, <1>6, <1>8, <1>9, <1>10 DEF UpdateInv

LEMMA EraseUpdate ==
  ASSUME UpdateInv, NEW t \in Threads, Erase(t)
  PROVE  UpdateInv'
<1>1. /\ pc' \in [Threads -> PCs] /\ DOMAIN job' = Threads /\ pc'[t] = "insert"
      /\ \A u \in Threads : job'[u] = job[u]
      /\ \A u \in Threads \ {t} : pc'[u] = pc[u]
      /\ rnti_list_mutex' = rnti_list_mutex
      /\ found_RNTI_list' = RemoveFirst(found_RNTI_list, job[t].rnti)
  BY DEF Erase, Goto, UpdateInv, PCs
<1>2. Updating(t) /\ pc[t] = "erase"
  BY DEF Erase, Updating
<1>3. \A u \in Threads : Updating(u)' <=> Updating(u)
  BY <1>1, <1>2 DEF Updating
<1>4. \A u \in Threads : Updating(u) => u = t
  BY <1>2 DEF UpdateInv
<1>5. \A u \in Threads : pc[u] # "insert"
  BY <1>2, <1>4 DEF Updating
<1>6. found_RNTI_list \in Seq(Nat) /\ AllBut(found_RNTI_list, {})
  BY <1>5 DEF UpdateInv
<1>7. job[t].rnti \in Range(Rntis)
  BY <1>2 DEF UpdateInv
<1>8. job[t].rnti \in Range(found_RNTI_list) /\ IsInjective(found_RNTI_list)
      /\ Range(found_RNTI_list) = Range(Rntis) /\ Len(found_RNTI_list) = Len(Rntis)
  <2>1. Len(Rntis) - Cardinality({}) = Len(Rntis)
    <3>1. Len(Rntis) \in Nat
      BY PdcchAssumption
    <3>2. QED
      BY ONLY <3>1, SingletonCard
  <2>2. QED
    BY <1>6, <1>7, <2>1 DEF AllBut
<1>9. found_RNTI_list' \in Seq(Nat)
  BY <1>1, <1>6, <1>8, RemoveFirstFacts
<1>10. AllBut(found_RNTI_list', {job[t].rnti})
  <2>1. Cardinality({job[t].rnti}) = 1
    BY SingletonCard
  <2>2. QED
    BY <1>1, <1>6, <1>8, <2>1, RemoveFirstFacts DEF AllBut
<1>11. ASSUME NEW u \in Threads, pc'[u] \in {"erase", "insert"}
       PROVE  u = t /\ job'[u].rnti \in Range(Rntis)
  BY <1>1, <1>3, <1>4, <1>7, <1>11 DEF Updating
<1>12. \A u \in Threads : pc'[u] = "insert" => AllBut(found_RNTI_list', {job'[u].rnti})
  BY <1>1, <1>10, <1>11
<1>13. /\ rnti_list_mutex' \in {0, 1}
       /\ rnti_list_mutex' = 1 => \A u \in Threads : ~Updating(u)'
       /\ \A u, v \in Threads : Updating(u)' /\ Updating(v)' => u = v
  BY <1>1, <1>3 DEF UpdateInv
<1>14. QED
  BY <1>1, <1>9, <1>11, <1>12, <1>13 DEF UpdateInv

LEMMA InsertUpdate ==
  ASSUME UpdateInv, NEW t \in Threads, Insert(t)
  PROVE  UpdateInv'
<1>1. /\ pc' \in [Threads -> PCs] /\ DOMAIN job' = Threads /\ pc'[t] = "release"
      /\ \A u \in Threads : job'[u] = job[u]
      /\ \A u \in Threads \ {t} : pc'[u] = pc[u]
      /\ rnti_list_mutex' = rnti_list_mutex
      /\ found_RNTI_list' = <<job[t].rnti>> \o found_RNTI_list
  BY DEF Insert, Goto, UpdateInv, PCs
<1>2. Updating(t) /\ pc[t] = "insert"
  BY DEF Insert, Updating
<1>3. \A u \in Threads : Updating(u)' <=> Updating(u)
  BY <1>1, <1>2 DEF Updating
<1>4. \A u \in Threads : Updating(u) => u = t
  BY <1>2 DEF UpdateInv
<1>5. \A u \in Threads : pc'[u] \notin {"erase", "insert"}
  BY <1>1, <1>3, <1>4 DEF Updating
<1>6. found_RNTI_list \in Seq(Nat) /\ AllBut(found_RNTI_list, {job[t].rnti})
  BY <1>2 DEF UpdateInv
<1>7. job[t].rnti \in Range(Rntis) /\ job[t].rnti \in Nat
  <2>1. job[t].rnti \in Range(Rntis)
    BY <1>2 DEF UpdateInv
  <2>2. Rntis \in Seq(Nat)
    BY PdcchAssumption
  <2>3. PICK i \in 1 .. Len(Rntis) : Rntis[i] = job[t].rnti
    BY <2>1, <2>2, RangeFacts
  <2>4. QED
    BY <2>1, <2>2, <2>3
<1>8. found_RNTI_list' \in Seq(Nat) /\ AllBut(found_RNTI_list', {})
  <2>1. IsInjective(found_RNTI_list) /\ job[t].rnti \notin Range(found_RNTI_list)
        /\ Range(found_RNTI_list) \cup {job[t].rnti} = Range(Rntis)
    BY <1>6, <1>7 DEF AllBut
  <2>2. Len(found_RNTI_list) + 1 = Len(Rntis) - Cardinality({})
    <3>1. Len(found_RNTI_list) = Len(Rntis) - Cardinality({job[t].rnti})
      BY <1>6 DEF AllBut
    <3>2. Len(Rntis) \in Nat /\ Len(found_RNTI_list) \in Nat
      BY <1>6, PdcchAssumption
    <3>3. Cardinality({job[t].rnti}) = 1 /\ Cardinality({}) = 0
      BY SingletonCard
    <3>4. QED
      BY ONLY <3>1, <3>2, <3>3
  <2>3. QED
    BY <1>1, <1>6, <1>7, <2>1, <2>2, InFrontFacts DEF AllBut
<1>9. /\ rnti_list_mutex' \in {0, 1}
      /\ rnti_list_mutex' = 1 => \A u \in Threads : ~Updating(u)'
      /\ \A u, v \in Threads : Updating(u)' /\ Updating(v)' => u = v
  BY <1>1, <1>3 DEF UpdateInv
<1>10. QED
  BY <1>1, <1>5, <1>8, <1>9 DEF UpdateInv

LEMMA ReleaseUpdate ==
  ASSUME UpdateInv, NEW t \in Threads, Release(t)
  PROVE  UpdateInv'
<1>1. /\ pc' \in [Threads -> PCs] /\ DOMAIN job' = Threads /\ pc'[t] = "decoded"
      /\ \A u \in Threads : job'[u] = job[u]
      /\ \A u \in Threads \ {t} : pc'[u] = pc[u]
      /\ rnti_list_mutex' = rnti_list_mutex + 1
      /\ found_RNTI_list' = found_RNTI_list
  BY DEF Release, Goto, UpdateInv, PCs
<1>2. Updating(t) /\ pc[t] = "release"
  BY DEF Release, Updating
<1>3. rnti_list_mutex = 0
  BY <1>2 DEF UpdateInv
<1>4. \A u \in Threads : Updating(u) => u = t
  BY <1>2 DEF UpdateInv
<1>5. \A u \in Threads : ~Updating(u)'
  BY <1>1, <1>4 DEF Updating
<1>6. \A u \in Threads : pc[u] # "insert" /\ pc'[u] \notin {"erase", "insert"}
  BY <1>2, <1>4, <1>5 DEF Updating
<1>7. found_RNTI_list' \in Seq(Nat) /\ AllBut(found_RNTI_list', {})
  BY <1>1, <1>6 DEF UpdateInv
<1>8. QED
  BY <1>1, <1>3, <1>5, <1>6, <1>7 DEF UpdateInv

LEMMA NextUpdate ==
  ASSUME UpdateInv, [Next]_vars
  PROVE  UpdateInv'
<1>1. CASE UNCHANGED vars
  BY <1>1 DEF vars, UpdateInv, Updating
<1>2. ASSUME NEW t \in Threads, Receive(t) \/ Work(t)
      PROVE  UpdateInv'
  <2>1. CASE Acquire(t)
    BY <2>1, AcquireUpdate
  <2>2. CASE Erase(t)
    BY <2>2, EraseUpdate
  <2>3. CASE Insert(t)
    BY <2>3, InsertUpdate
  <2>4. CASE Release(t)
    BY <2>4, ReleaseUpdate
  <2>5. CASE ~(Acquire(t) \/ Erase(t) \/ Insert(t) \/ Release(t))
    <3>1. ~Updating(t) /\ UNCHANGED shared
      BY <1>2, <2>5
         DEF Work, Receive, NextLevel, Finish, NextDci, NextSize, CheckBound, At, decode_pdcch,
             Decoded, Updating
    <3>2. \E label \in PCs \ {"erase", "insert", "release"} : \E update : Goto(t, label, update)
      BY <1>2, <2>5
         DEF Work, Receive, NextLevel, Finish, NextDci, NextSize, CheckBound, At, decode_pdcch,
             Decoded, LeaveRntis, PCs
    <3>3. QED
      BY <3>1, <3>2, Elsewhere
  <2>6. QED
    BY <1>2, <2>1, <2>2, <2>3, <2>4, <2>5
<1>3. QED
  BY <1>1, <1>2 DEF Next

-----------------------------------------------------------------------------
(* The candidates a thread has before it.                                  *)

LEMMA GreatestLevel ==
  ASSUME NEW S \in SUBSET (0 .. 4), S # {}
  PROVE  Max(S) \in S /\ \A n \in S : n <= Max(S)
<1>1. \E m \in S : \A n \in S : m >= n
  <2>1. CASE 4 \in S
    BY <2>1
  <2>2. CASE 4 \notin S /\ 3 \in S
    BY <2>2
  <2>3. CASE 4 \notin S /\ 3 \notin S /\ 2 \in S
    BY <2>3
  <2>4. CASE 4 \notin S /\ 3 \notin S /\ 2 \notin S /\ 1 \in S
    BY <2>4
  <2>5. CASE 4 \notin S /\ 3 \notin S /\ 2 \notin S /\ 1 \notin S
    <3>1. \A n \in S : n = 0
      BY <2>5
    <3>2. 0 \in S
      BY <3>1
    <3>3. QED
      BY <3>1, <3>2
  <2>6. QED
    BY <2>1, <2>2, <2>3, <2>4, <2>5
<1>2. Max(S) = CHOOSE m \in S : \A n \in S : m >= n
  BY DEF Max
<1>3. Max(S) \in S /\ \A n \in S : Max(S) >= n
  BY <1>1, <1>2
<1>4. QED
  BY <1>3

LEMMA FirstIsOne ==
  ASSUME NEW k, NEW dcis \in SUBSET Candidates(k), dcis # {}
  PROVE  First(dcis) \in dcis
<1> DEFINE S == {x.idx : x \in dcis}
<1>1. \A x \in dcis : x.idx \in Nat
  BY DEF Candidates
<1>2. S \in SUBSET Nat /\ S # {}
  BY <1>1
<1>3. PICK n \in S : \A m \in S : n <= m
  BY <1>2, LeastNat
<1>4. \E x \in dcis : \A y \in dcis : x.idx <= y.idx
  BY <1>3
<1>5. QED
  BY <1>4 DEF First

LEMMA InitJobs == Init => JobsInv
<1> SUFFICES ASSUME Init PROVE JobsInv
  OBVIOUS
<1>1. NoJob \in Jobs
  <2>1. Len(Sizes) \in Nat /\ Len(Rntis) \in Nat
    BY PdcchAssumption
  <2>2. QED
    BY <2>1 DEF NoJob, Jobs
<1>2. JobOK("idle", NoJob)
  BY <1>1 DEF JobOK, NoJob
<1>3. <<>> \in Seq(DCIs)
  OBVIOUS
<1>4. QED
  BY <1>2, <1>3 DEF Init, JobsInv, PCs

\* A step of one thread.
LEMMA StepJobs ==
  ASSUME JobsInv, NEW t \in active, NEW label \in PCs, NEW update,
         Goto(t, label, update), UNCHANGED fixed, JobOK(label, update),
         reported' \in [Threads -> Seq(DCIs)]
  PROVE  JobsInv'
<1>1. /\ c' = c /\ active' = active /\ t \in Threads
      /\ pc' \in [Threads -> PCs] /\ DOMAIN job' = Threads
      /\ pc'[t] = label /\ job'[t] = update
      /\ \A u \in Threads \ {t} : pc'[u] = pc[u] /\ job'[u] = job[u]
  BY DEF Goto, fixed, JobsInv
<1>2. \A u \in Threads : JobOK(pc'[u], job'[u])
  BY <1>1 DEF JobsInv
<1>3. \A u \in Threads : JobOK(pc[u], job[u])'
  BY <1>1, <1>2 DEF JobOK, Jobs
<1>4. \A u \in Threads : u \notin active' => pc'[u] = "idle"
  BY <1>1 DEF JobsInv
<1>5. QED
  BY <1>1, <1>3, <1>4 DEF JobsInv


\* The updates that the steps make.
LEMMA JobWith ==
  ASSUME NEW j \in Jobs
  PROVE  /\ \A AL \in 0 .. 6, todo \in SUBSET Candidates(c) :
              [j EXCEPT !.AL = AL, !.todo = todo] \in Jobs
         /\ \A k \in 0 .. Len(Sizes), i \in 0 .. Len(Rntis), r \in Nat, outp \in {0, 1} :
              [j EXCEPT !.dci_idx = k, !.rnti_i = i, !.rnti = r, !.outp = outp] \in Jobs
         /\ \A k \in 0 .. Len(Sizes), todo \in SUBSET Candidates(c) :
              [j EXCEPT !.todo = todo, !.dci_idx = k] \in Jobs
         /\ \A k \in 0 .. Len(Sizes), found, todo \in SUBSET Candidates(c) :
              [j EXCEPT !.found = found, !.todo = todo, !.dci_idx = k] \in Jobs
         /\ \A r \in Nat : [j EXCEPT !.rnti = r] \in Jobs
         /\ \A r \in Nat, outp \in {0, 1} : [j EXCEPT !.outp = outp, !.rnti = r] \in Jobs
         /\ \A outp \in {0, 1} : [j EXCEPT !.outp = outp] \in Jobs
         /\ \A i \in 0 .. Len(Rntis) : [j EXCEPT !.rnti_i = i] \in Jobs
  BY DEF Jobs

LEMMA JobFacts ==
  ASSUME JobsInv, NEW t \in Threads
  PROVE  /\ job[t] \in Jobs /\ JobOK(pc[t], job[t]) /\ pc[t] \in PCs
         /\ pc[t] # "idle" => t \in active
         /\ job[t].todo \subseteq job[t].found /\ \A x \in job[t].todo : x.level = level(t)
         /\ job[t].todo # {} => cand(t) \in job[t].todo
         /\ Len(Sizes) \in Nat /\ Len(Rntis) \in Nat
<1>1. job[t] \in Jobs /\ JobOK(pc[t], job[t]) /\ pc[t] \in PCs /\ (pc[t] # "idle" => t \in active)
  BY DEF JobsInv, JobOK
<1>2. job[t].todo \subseteq Candidates(c)
  BY <1>1 DEF Jobs
<1>3. job[t].todo # {} => cand(t) \in job[t].todo
  BY <1>2, FirstIsOne DEF cand
<1>4. Len(Sizes) \in Nat /\ Len(Rntis) \in Nat
  BY PdcchAssumption
<1>5. job[t].todo \subseteq job[t].found /\ \A x \in job[t].todo : x.level = level(t)
  BY <1>1 DEF JobOK, level
<1>6. QED
  BY <1>1, <1>3, <1>4, <1>5

LEMMA ReceiveJobs ==
  ASSUME JobsInv, NEW t \in Threads, Receive(t)
  PROVE  JobsInv'
<1>1. PICK sent \in Transmissions(c), within \in BOOLEAN :
        Goto(t, "next",
             [NoJob EXCEPT !.sent = sent, !.found = correlate_DMRS(sent, within), !.AL = 6])
  BY DEF Receive
<1>2. PICK f : f = correlate_DMRS(sent, within) /\ f \subseteq Candidates(c)
  BY DEF correlate_DMRS
<1>3. PICK j : j = [NoJob EXCEPT !.sent = sent, !.found = f, !.AL = 6]
  OBVIOUS
<1>4. JobOK("next", j)
  <2>1. Len(Sizes) \in Nat /\ Len(Rntis) \in Nat
    BY PdcchAssumption
  <2>2. j = [sent |-> sent, found |-> f, todo |-> {}, AL |-> 6, dci_idx |-> 0, rnti_i |-> 0,
             rnti |-> 0, outp |-> 0]
    BY <1>3 DEF NoJob
  <2>3. j \in Jobs
    BY <1>2, <2>1, <2>2 DEF Jobs
  <2>4. QED
    BY <2>2, <2>3 DEF JobOK
<1>5. reported' \in [Threads -> Seq(DCIs)]
  BY DEF Receive, JobsInv
<1>6. t \in active /\ UNCHANGED fixed
  BY DEF Receive
<1>7. QED
  BY <1>1, <1>2, <1>3, <1>4, <1>5, <1>6, StepJobs DEF PCs

LEMMA WalkingJobs ==
  ASSUME JobsInv, NEW t \in Threads, NextLevel(t) \/ Finish(t) \/ NextSize(t) \/ NextDci(t)
  PROVE  JobsInv'
<1>1. /\ job[t] \in Jobs /\ JobOK(pc[t], job[t]) /\ t \in active /\ pc[t] = "next"
      /\ job[t].todo # {} => cand(t) \in job[t].todo
      /\ Len(Sizes) \in Nat /\ Len(Rntis) \in Nat
  BY JobFacts DEF NextLevel, Finish, NextSize, NextDci
<1>2. UNCHANGED fixed /\ reported' \in [Threads -> Seq(DCIs)]
  BY DEF NextLevel, Finish, NextSize, NextDci, JobsInv
<1>3. PICK j : j = job[t]
  OBVIOUS
<1>4. CASE NextLevel(t)
  <2> DEFINE l == Max(Remaining(t))
             some == {x \in j.found : x.level = l}
             j1 == [j EXCEPT !.AL = l + 1, !.todo = some]
  <2>1. Goto(t, "next", j1) /\ Remaining(t) # {} /\ j.todo = {}
    BY <1>3, <1>4 DEF NextLevel
  <2>2. Remaining(t) \in SUBSET (0 .. 4)
    BY <1>1 DEF Remaining, Jobs
  <2>3. l \in Remaining(t)
    BY <2>1, <2>2, GreatestLevel
  <2>4. l \in 0 .. 4 /\ \E x \in j.found : x.level = l
    BY <1>3, <2>2, <2>3 DEF Remaining
  <2> HIDE DEF l
  <2>5. some \subseteq j.found /\ some # {} /\ \A x \in some : x.level = l
    BY <2>4
  <2> HIDE DEF some
  <2>6. j1 \in Jobs
    <3>1. j \in Jobs /\ l + 1 \in 0 .. 6 /\ some \in SUBSET Candidates(c)
      BY <1>1, <1>3, <2>4, <2>5 DEF Jobs
    <3>2. QED
      BY <3>1, JobWith
  <2>7. JobOK("next", j1)
    BY <1>1, <1>3, <2>4, <2>6, <2>5 DEF JobOK, Jobs
  <2>8. QED
    BY <1>1, <1>2, <2>1, <2>7, StepJobs DEF PCs
<1>5. CASE Finish(t)
  <2> DEFINE j1 == [NoJob EXCEPT !.sent = j.sent]
  <2>1. Goto(t, "idle", j1)
    BY <1>3, <1>5 DEF Finish
  <2>2. JobOK("idle", j1)
    BY <1>1, <1>3 DEF JobOK, Jobs, NoJob
  <2>3. QED
    BY <1>1, <1>2, <2>1, <2>2, StepJobs DEF PCs
<1>6. CASE NextSize(t)
  <2> DEFINE k == j.dci_idx + 1
             j1 == [j EXCEPT !.dci_idx = k, !.rnti_i = 0, !.rnti = 0, !.outp = 0]
  <2>1. PICK label \in {"decode", "bound"} : Goto(t, label, j1)
    BY <1>3, <1>6 DEF NextSize
  <2>2. j.todo # {} /\ j.dci_idx < Len(Sizes)
    BY <1>3, <1>6 DEF NextSize
  <2>3. j \in Jobs /\ k \in 0 .. Len(Sizes) /\ k > 0
    BY <1>1, <1>3, <2>2 DEF Jobs
  <2> HIDE DEF k
  <2>6. j1 \in Jobs
    <3>1. 0 \in 0 .. Len(Rntis) /\ 0 \in Nat /\ 0 \in {0, 1}
      BY <1>1
    <3>2. QED
      BY ONLY <2>3, <3>1, JobWith
  <2>4. Len(Rntis) > 0
    BY PdcchAssumption
  <2>7. JobOK(label, j1)
    BY <1>1, <1>3, <2>2, <2>3, <2>4, <2>6 DEF JobOK, Jobs
  <2>8. QED
    BY <1>1, <1>2, <2>1, <2>7, StepJobs DEF PCs, k
<1>7. CASE NextDci(t)
  <2> DEFINE left == j.todo \ {cand(t)}
             j1 == [j EXCEPT !.todo = left, !.dci_idx = 0]
  <2>0. left \subseteq j.todo
    OBVIOUS
  <2>1. Goto(t, "next", j1)
    BY <1>3, <1>7 DEF NextDci
  <2> HIDE DEF left
  <2>2. j1 \in Jobs
    <3>1. j \in Jobs /\ 0 \in 0 .. Len(Sizes) /\ left \in SUBSET Candidates(c)
      BY <1>1, <1>3, <2>0 DEF Jobs
    <3>2. QED
      BY <3>1, JobWith
  <2>3. JobOK("next", j1)
    BY <1>1, <1>3, <2>2, <2>0 DEF JobOK, Jobs
  <2>4. QED
    BY <1>1, <1>2, <2>1, <2>3, StepJobs DEF PCs
<1>8. QED
  BY <1>4, <1>5, <1>6, <1>7

\* What LeaveRntis makes of the job.
LEMMA Leaving ==
  ASSUME JobsInv, NEW t \in Threads, pc[t] \notin {"idle", "next"}, LeaveRntis(t)
  PROVE  \E j1 : /\ Goto(t, "next", j1) /\ JobOK("next", j1)
                 /\ ~Found(t) => j1 = job[t]
                 /\ Found(t) =>
                      j1 = [job[t] EXCEPT !.found = delete_lower_AL_dcis(t),
                                          !.todo = @ \ {cand(t)}, !.dci_idx = 0]
<1>1. /\ job[t] \in Jobs /\ JobOK(pc[t], job[t]) /\ job[t].todo # {} /\ cand(t) \in job[t].todo
      /\ job[t].todo \subseteq job[t].found /\ \A x \in job[t].todo : x.level = level(t)
  BY JobFacts DEF JobOK
<1>2. PICK j : j = job[t]
  OBVIOUS
<1>3. CASE ~Found(t)
  <2>1. Goto(t, "next", j)
    BY <1>2, <1>3 DEF LeaveRntis
  <2>2. JobOK("next", j)
    BY <1>1, <1>2 DEF JobOK
  <2>3. QED
    BY <1>2, <1>3, <2>1, <2>2
<1>4. CASE Found(t)
  <2> DEFINE left == j.todo \ {cand(t)}
             j1 == [j EXCEPT !.found = delete_lower_AL_dcis(t), !.todo = left, !.dci_idx = 0]
  <2>0. left \subseteq j.todo
    OBVIOUS
  <2>1. Goto(t, "next", j1)
    BY <1>2, <1>4 DEF LeaveRntis
  <2>2. level(t) \in Int
    BY <1>1 DEF Jobs, level
  <2>3. PICK f : f = delete_lower_AL_dcis(t)
    OBVIOUS
  <2>4. f \subseteq job[t].found /\ job[t].todo \subseteq f
    BY <1>1, <2>2, <2>3 DEF delete_lower_AL_dcis
  <2>5. PICK j2 : j2 = j1
    OBVIOUS
  <2>6. j2 = [j EXCEPT !.found = f, !.todo = left, !.dci_idx = 0]
    BY <2>3, <2>5
  <2> HIDE DEF left
  <2>7. j2 \in Jobs
    <3>1. /\ j \in Jobs /\ 0 \in 0 .. Len(Sizes)
          /\ left \in SUBSET Candidates(c) /\ f \in SUBSET Candidates(c)
      BY <1>1, <1>2, <2>4, <2>0 DEF Jobs
    <3>2. QED
      BY <2>6, <3>1, JobWith
  <2>8. JobOK("next", j2)
    BY <1>1, <1>2, <2>4, <2>6, <2>7, <2>0 DEF JobOK, Jobs
  <2>9. QED
    BY <1>2, <1>4, <2>1, <2>5, <2>8 DEF left
<1>5. QED
  BY <1>3, <1>4

LEMMA ListBounds ==
  ASSUME UpdateInv
  PROVE  /\ found_RNTI_list \in Seq(Nat) /\ Len(found_RNTI_list) \in Nat
         /\ Len(found_RNTI_list) <= Len(Rntis)
<1>1. found_RNTI_list \in Seq(Nat) /\ Len(found_RNTI_list) \in Nat /\ Len(Rntis) \in Nat
  BY PdcchAssumption DEF UpdateInv
<1>2. Len(found_RNTI_list) = Len(Rntis) - 0 \/ Len(found_RNTI_list) = Len(Rntis) - 1
  BY SingletonCard DEF UpdateInv, AllBut
<1>3. QED
  BY <1>1, <1>2

LEMMA RntisJobs ==
  ASSUME JobsInv, UpdateInv, NEW t \in Threads, CheckBound(t) \/ At(t)
  PROVE  JobsInv'
<1>1. /\ job[t] \in Jobs /\ JobOK(pc[t], job[t]) /\ t \in active
      /\ Len(Sizes) \in Nat /\ Len(Rntis) \in Nat
  BY JobFacts DEF CheckBound, At
<1>2. UNCHANGED fixed /\ reported' \in [Threads -> Seq(DCIs)]
  BY DEF CheckBound, At, JobsInv
<1>3. CASE CheckBound(t) /\ job[t].rnti_i < Limit(t)
  <2>1. Goto(t, "at", job[t]) /\ pc[t] = "bound"
    BY <1>3 DEF CheckBound
  <2>2. Limit(t) \in Int /\ Limit(t) <= Len(found_RNTI_list)
    <3>1. rnti_list_length \in Nat /\ Len(found_RNTI_list) \in Nat
      BY ListBounds, PdcchAssumption
    <3>2. \A a, b \in Nat : Min({a, b}) \in {a, b} /\ Min({a, b}) <= b
      BY LeastNat DEF Min
    <3>3. QED
      BY <3>1, <3>2 DEF Limit
  <2>3. JobOK("at", job[t])
    BY <1>1, <1>3, <2>1, <2>2, ListBounds DEF JobOK, Jobs
  <2>4. QED
    BY <1>1, <1>2, <2>1, <2>3, StepJobs DEF PCs
<1>4. CASE CheckBound(t) /\ ~(job[t].rnti_i < Limit(t))
  <2>1. LeaveRntis(t) /\ pc[t] = "bound"
    BY <1>4 DEF CheckBound
  <2>2. PICK j1 : Goto(t, "next", j1) /\ JobOK("next", j1)
    BY <2>1, Leaving
  <2>3. QED
    BY <1>1, <1>2, <2>2, StepJobs DEF PCs
<1>5. CASE At(t)
  <2>1. CASE job[t].rnti_i < Len(found_RNTI_list)
    <3> DEFINE j1 == [job[t] EXCEPT !.rnti = found_RNTI_list[job[t].rnti_i + 1]]
    <3>1. Goto(t, "decode", j1)
      BY <1>5, <2>1 DEF At
    <3>2. found_RNTI_list[job[t].rnti_i + 1] \in Nat
      <4>1. job[t].rnti_i + 1 \in 1 .. Len(found_RNTI_list)
        BY <1>1, <2>1, ListBounds DEF Jobs
      <4>2. QED
        BY <4>1, ListBounds
    <3>3. j1 \in Jobs
      BY <1>1, <3>2 DEF Jobs
    <3>4. JobOK("decode", j1)
      BY <1>1, <1>5, <3>3 DEF JobOK, Jobs, At
    <3>5. QED
      BY <1>1, <1>2, <3>1, <3>4, StepJobs DEF PCs
  <2>2. CASE ~(job[t].rnti_i < Len(found_RNTI_list))
    <3>1. Goto(t, "exception", job[t])
      BY <1>5, <2>2 DEF At
    <3>2. JobOK("exception", job[t])
      BY <1>1, <1>5 DEF JobOK, At
    <3>3. QED
      BY <1>1, <1>2, <3>1, <3>2, StepJobs DEF PCs
  <2>3. QED
    BY <2>1, <2>2
<1>6. QED
  BY <1>3, <1>4, <1>5


LEMMA DecodeJobs ==
  ASSUME JobsInv, NEW t \in Threads, decode_pdcch(t)
  PROVE  JobsInv'
<1>1. /\ job[t] \in Jobs /\ JobOK(pc[t], job[t]) /\ t \in active /\ pc[t] = "decode"
      /\ reported \in [Threads -> Seq(DCIs)] /\ UNCHANGED fixed /\ c \in Coresets
  BY JobFacts DEF decode_pdcch, JobsInv
<1> DEFINE d == [level |-> level(t), idx |-> cand(t).idx, rnti |-> Tried(t),
                 size |-> Sizes[job[t].dci_idx]]
<1>2. CASE d \in job[t].sent
  <2>1. PICK e : e = d
    OBVIOUS
  <2>2. e \in DCIs
    <3>1. job[t].sent = {} \/ job[t].sent \in Transmissions(c)
      BY <1>1 DEF Jobs
    <3>2. Transmissions(c) \subseteq SUBSET DCIs
      BY <1>1, PdcchAssumption DEF DCIs
    <3>3. QED
      BY <1>2, <2>1, <3>1, <3>2
  <2>3. Goto(t, "acquire", [job[t] EXCEPT !.outp = 1, !.rnti = e.rnti])
        /\ reported' = [reported EXCEPT ![t] = Append(@, e)]
    BY <1>2, <2>1 DEF decode_pdcch
  <2>4. e.rnti \in Nat
    BY <2>2 DEF DCIs
  <2> DEFINE j1 == [job[t] EXCEPT !.outp = 1, !.rnti = e.rnti]
  <2>5. j1 \in Jobs
    BY <1>1, <2>4, JobWith
  <2>6. JobOK("acquire", j1)
    BY <1>1, <2>5 DEF JobOK, Jobs
  <2>7. reported' \in [Threads -> Seq(DCIs)]
    BY <1>1, <2>2, <2>3
  <2>8. QED
    BY <1>1, <2>3, <2>6, <2>7, StepJobs DEF PCs
<1>3. CASE d \notin job[t].sent
  <2> DEFINE j1 == [job[t] EXCEPT !.outp = 0]
  <2>1. Goto(t, "decoded", j1) /\ reported' = reported
    BY <1>3 DEF decode_pdcch
  <2>2. j1 \in Jobs
    BY <1>1, JobWith
  <2>3. JobOK("decoded", j1)
    BY <1>1, <2>2 DEF JobOK, Jobs
  <2>4. QED
    BY <1>1, <2>1, <2>3, StepJobs DEF PCs
<1>4. QED
  BY <1>2, <1>3

LEMMA UpdatingJobs ==
  ASSUME JobsInv, NEW t \in Threads, Acquire(t) \/ Erase(t) \/ Insert(t) \/ Release(t)
  PROVE  JobsInv'
<1>1. job[t] \in Jobs /\ JobOK(pc[t], job[t]) /\ t \in active
  BY JobFacts DEF Acquire, Erase, Insert, Release
<1>2. UNCHANGED fixed /\ reported' \in [Threads -> Seq(DCIs)]
  BY DEF Acquire, Erase, Insert, Release, JobsInv
<1>3. PICK label \in PCs \ {"idle", "next", "bound"} : Goto(t, label, job[t])
  BY DEF Acquire, Erase, Insert, Release, PCs
<1>4. pc[t] \notin {"idle", "next", "bound"}
  BY DEF Acquire, Erase, Insert, Release
<1>5. JobOK(label, job[t])
  BY <1>1, <1>3, <1>4 DEF JobOK
<1>6. QED
  BY <1>1, <1>2, <1>3, <1>5, StepJobs

LEMMA DecodedJobs ==
  ASSUME JobsInv, NEW t \in Threads, Decoded(t)
  PROVE  JobsInv'
<1>1. /\ job[t] \in Jobs /\ JobOK(pc[t], job[t]) /\ t \in active /\ pc[t] = "decoded"
      /\ Len(Rntis) \in Nat
  BY JobFacts DEF Decoded
<1>2. UNCHANGED fixed /\ reported' \in [Threads -> Seq(DCIs)]
  BY DEF Decoded, JobsInv
<1>3. CASE Single(t) \/ (job[t].AL <= 3 /\ Found(t))
  <2>1. LeaveRntis(t)
    BY <1>3 DEF Decoded
  <2>2. PICK j1 : Goto(t, "next", j1) /\ JobOK("next", j1)
    BY <1>1, <2>1, Leaving
  <2>3. QED
    BY <1>1, <1>2, <2>2, StepJobs DEF PCs
<1>4. CASE ~(Single(t) \/ (job[t].AL <= 3 /\ Found(t)))
  <2> DEFINE i == job[t].rnti_i + 1
             j1 == [job[t] EXCEPT !.rnti_i = i]
  <2>1. Goto(t, "bound", j1)
    BY <1>4 DEF Decoded
  <2>2. i \in 0 .. Len(Rntis)
    BY <1>1 DEF JobOK, Jobs
  <2> HIDE DEF i
  <2>3. j1 \in Jobs
    BY <1>1, <2>2, JobWith
  <2>4. JobOK("bound", j1)
    BY <1>1, <2>3 DEF JobOK, Jobs
  <2>5. QED
    BY <1>1, <1>2, <2>1, <2>4, StepJobs DEF PCs, i
<1>5. QED
  BY <1>3, <1>4

LEMMA NextJobs ==
  ASSUME JobsInv, UpdateInv, [Next]_vars
  PROVE  JobsInv'
<1>1. CASE UNCHANGED vars
  BY <1>1 DEF vars, JobsInv, JobOK, Jobs
<1>2. ASSUME NEW t \in Threads, Receive(t) \/ Work(t)
      PROVE  JobsInv'
  BY <1>2, ReceiveJobs, WalkingJobs, RntisJobs, DecodeJobs, UpdatingJobs, DecodedJobs DEF Work
<1>3. QED
  BY <1>1, <1>2 DEF Next

-----------------------------------------------------------------------------
(* What a thread that is alone has reported.                               *)

LEMMA AloneList ==
  ASSUME UpdateInv, JobsInv, NEW t \in Threads, Alone(t), pc[t] # "insert"
  PROVE  /\ found_RNTI_list \in Seq(Nat) /\ IsInjective(found_RNTI_list)
         /\ Range(found_RNTI_list) = Range(Rntis)
         /\ Len(found_RNTI_list) = Len(Rntis) /\ Len(Rntis) \in Nat
<1>1. \A u \in Threads : pc[u] # "insert"
  BY DEF Alone, JobsInv
<1>2. AllBut(found_RNTI_list, {}) /\ found_RNTI_list \in Seq(Nat)
  BY <1>1 DEF UpdateInv
<1>3. Len(Rntis) \in Nat
  BY PdcchAssumption
<1>4. QED
  BY <1>2, <1>3, SingletonCard DEF AllBut

LEMMA SentFacts ==
  ASSUME SentApart, c \in Coresets, NEW S \in {{}} \cup Transmissions(c)
  PROVE  /\ \A d \in S : d \in DCIs /\ d.rnti # 0 /\ d.size \in Range(Sizes)
         /\ \A d \in S : place(d) \in Candidates(c)
         /\ \A d, e \in S : place(d) = place(e) => d = e
         /\ \A d, e \in S : d # e => ~(CCEs(c, place(d)) \subseteq CCEs(c, place(e)))
<1>1. CASE S = {}
  BY <1>1
<1>2. CASE S \in Transmissions(c)
  <2>1. \A d \in S : d \in DCIs
    BY <1>2, PdcchAssumption DEF DCIs
  <2>2. \A d \in S : d.idx < c.candidates[d.level] /\ d.rnti # 0 /\ d.size \in Range(Sizes)
    BY <1>2 DEF SentApart
  <2>3. \A d, e \in S : d # e => ~(CCEs(c, d) \subseteq CCEs(c, e))
    BY <1>2 DEF SentApart
  <2>4. ASSUME NEW d \in S
        PROVE  place(d) \in Candidates(c)
    <3>1. d.level \in Levels /\ d.idx \in Nat /\ d.idx < c.candidates[d.level]
      BY <2>1, <2>2 DEF DCIs
    <3>2. c.candidates[d.level] \in 0 .. 255
      BY <3>1, PdcchAssumption
    <3>3. d.idx \in 0 .. 255
      BY <3>1, <3>2
    <3>4. QED
      BY <3>1, <3>3 DEF place, Candidates
  <2>5. \A d : CCEs(c, place(d)) = CCEs(c, d)
    BY DEF CCEs, place
  <2>6. ASSUME NEW d \in S, NEW e \in S, place(d) = place(e)
        PROVE  d = e
    <3>1. CCEs(c, d) = CCEs(c, e)
      BY <2>5, <2>6
    <3>2. QED
      BY <2>3, <3>1
  <2>7. QED
    BY <2>1, <2>2, <2>3, <2>4, <2>5, <2>6
<1>3. QED
  BY <1>1, <1>2

\* The candidate stays, and nothing is reported.
LEMMA StayingWalk ==
  ASSUME NEW t, WalkInv(t), reported' = reported,
         job'[t].sent = job[t].sent, job'[t].found = job[t].found, job'[t].todo = job[t].todo,
         job'[t].AL = job[t].AL,
         \A d \in Wanted(t) : Here(t, d) => (Behind(t, d)' <=> Behind(t, d)),
         PositionInv(t)'
  PROVE  WalkInv(t)'
<1>1. /\ cand(t)' = cand(t) /\ level(t)' = level(t)
      /\ Wanted(t)' = Wanted(t) /\ Reported(t)' = Reported(t)
  BY DEF cand, level, Wanted, Reported
<1>2. \A d : Here(t, d)' <=> Here(t, d)
  BY <1>1 DEF Here
<1>3. ASSUME NEW d \in Wanted(t)
      PROVE  Done(t, d)' <=> Done(t, d)
  BY <1>1, <1>2 DEF Done
<1>4. \A d \in Wanted(t) : d \in Reported(t) <=> Done(t, d)'
  BY <1>3 DEF WalkInv
<1>5. QED
  BY <1>1, <1>4 DEF WalkInv


LEMMA GotoFacts ==
  ASSUME JobsInv, NEW t \in Threads, NEW label, NEW update, Goto(t, label, update)
  PROVE  pc'[t] = label /\ job'[t] = update
  BY DEF JobsInv, Goto

\* The fields that the walk keeps.
LEMMA Kept ==
  ASSUME NEW j \in Jobs
  PROVE  /\ \A k, i, r, o :
              LET j1 == [j EXCEPT !.dci_idx = k, !.rnti_i = i, !.rnti = r, !.outp = o] IN
              /\ j1.sent = j.sent /\ j1.found = j.found /\ j1.todo = j.todo /\ j1.AL = j.AL
              /\ j1.dci_idx = k /\ j1.rnti_i = i /\ j1.rnti = r /\ j1.outp = o
         /\ \A r :
              LET j1 == [j EXCEPT !.rnti = r] IN
              /\ j1.sent = j.sent /\ j1.found = j.found /\ j1.todo = j.todo /\ j1.AL = j.AL
              /\ j1.dci_idx = j.dci_idx /\ j1.rnti_i = j.rnti_i /\ j1.rnti = r /\ j1.outp = j.outp
         /\ \A o :
              LET j1 == [j EXCEPT !.outp = o] IN
              /\ j1.sent = j.sent /\ j1.found = j.found /\ j1.todo = j.todo /\ j1.AL = j.AL
              /\ j1.dci_idx = j.dci_idx /\ j1.rnti_i = j.rnti_i /\ j1.rnti = j.rnti /\ j1.outp = o
         /\ \A i :
              LET j1 == [j EXCEPT !.rnti_i = i] IN
              /\ j1.sent = j.sent /\ j1.found = j.found /\ j1.todo = j.todo /\ j1.AL = j.AL
              /\ j1.dci_idx = j.dci_idx /\ j1.rnti_i = i /\ j1.rnti = j.rnti /\ j1.outp = j.outp
  BY DEF Jobs

LEMMA NextSizeWalk ==
  ASSUME UpdateInv, JobsInv, NEW t \in Threads, Alone(t), WalkInv(t), NextSize(t)
  PROVE  WalkInv(t)'
<1>1. job[t] \in Jobs /\ JobOK(pc[t], job[t]) /\ pc[t] = "next" /\ reported' = reported
  BY JobFacts DEF NextSize
<1>2. PICK k : k = job[t].dci_idx /\ k \in Nat
  BY <1>1 DEF Jobs
<1>3. /\ pc'[t] = IF Single(t) THEN "decode" ELSE "bound"
      /\ job'[t] = [job[t] EXCEPT !.dci_idx = k + 1, !.rnti_i = 0, !.rnti = 0, !.outp = 0]
  BY <1>2, GotoFacts DEF NextSize
<1>4. /\ job'[t].sent = job[t].sent /\ job'[t].found = job[t].found /\ job'[t].todo = job[t].todo
      /\ job'[t].AL = job[t].AL /\ job'[t].dci_idx = k + 1 /\ job'[t].rnti_i = 0
      /\ job'[t].rnti = 0 /\ job'[t].outp = 0
  BY <1>1, <1>3, Kept
<1>5. Single(t)' <=> Single(t)
  BY <1>4 DEF Single
<1>6. PositionInv(t)'
  BY <1>3, <1>4, <1>5 DEF PositionInv, Found
<1>7. ASSUME NEW d
      PROVE  Behind(t, d)' <=> Behind(t, d)
  <2>1. ~RntiTried(t, d.rnti)'
    BY <1>3, <1>4 DEF RntiTried
  <2>2. (k + 1) - 1 = k
    BY <1>2
  <2>3. QED
    BY <1>1, <1>2, <1>3, <1>4, <2>1, <2>2 DEF Behind
<1>8. QED
  BY <1>1, <1>4, <1>6, <1>7, StayingWalk

LEMMA BoundWalk ==
  ASSUME UpdateInv, JobsInv, NEW t \in Threads, Alone(t), WalkInv(t), CheckBound(t)
  PROVE  WalkInv(t)'
<1>1. job[t] \in Jobs /\ JobOK(pc[t], job[t]) /\ pc[t] = "bound" /\ reported' = reported
      /\ found_RNTI_list' = found_RNTI_list
  BY JobFacts DEF CheckBound, shared
<1>2. ~Single(t) /\ ~Found(t)
  BY <1>1 DEF WalkInv, PositionInv
<1>3. /\ found_RNTI_list \in Seq(Nat) /\ Range(found_RNTI_list) = Range(Rntis)
      /\ Len(found_RNTI_list) = Len(Rntis) /\ Len(Rntis) \in Nat
  BY <1>1, AloneList
<1>4. Limit(t) = Len(Rntis)
  <2>1. rnti_list_length \in Nat /\ rnti_list_length >= Len(Rntis)
    BY PdcchAssumption DEF Alone
  <2>2. Min({rnti_list_length, Len(Rntis)}) = Len(Rntis)
    BY <1>3, <2>1 DEF Min
  <2>3. job[t].AL <= 3
    BY <1>1, <1>2 DEF Single, Alone, Jobs
  <2>4. QED
    BY <1>1, <1>3, <2>2, <2>3 DEF Limit, Jobs
<1>5. job'[t] = job[t]
  BY <1>2, GotoFacts DEF CheckBound, LeaveRntis
<1>6. CASE job[t].rnti_i < Len(Rntis)
  <2>1. pc'[t] = "at"
    BY <1>4, <1>6, GotoFacts DEF CheckBound
  <2>2. PositionInv(t)'
    BY <1>1, <1>2, <1>5, <2>1 DEF PositionInv, Single, Found
  <2>3. \A d : Behind(t, d)' <=> Behind(t, d)
    BY <1>1, <1>5, <2>1 DEF Behind, RntiTried
  <2>4. QED
    BY <1>1, <1>5, <2>2, <2>3, StayingWalk
<1>7. CASE ~(job[t].rnti_i < Len(Rntis))
  <2>1. pc'[t] = "next"
    BY <1>2, <1>4, <1>7, GotoFacts DEF CheckBound, LeaveRntis
  <2>2. PositionInv(t)'
    BY <1>5, <2>1 DEF PositionInv
  <2>3. job[t].rnti_i = Len(Rntis)
    BY <1>1, <1>3, <1>7 DEF Jobs
  <2>4. ASSUME NEW d \in Wanted(t)
        PROVE  Behind(t, d)' <=> Behind(t, d)
    <3>1. \E i \in 1 .. Len(Rntis) : found_RNTI_list[i] = d.rnti
      BY <1>3, RangeFacts DEF Wanted
    <3>2. RntiTried(t, d.rnti)
      <4>1. job[t].rnti_i + 0 = Len(Rntis)
        BY <1>3, <2>3
      <4>2. QED
        BY <1>1, <3>1, <4>1 DEF RntiTried
    <3>3. PICK k : k = job[t].dci_idx /\ k \in Nat /\ k > 0
      BY <1>1 DEF JobOK, Jobs
    <3>4. 1 .. k = (1 .. k - 1) \cup {k}
      BY <3>3
    <3>5. Behind(t, d) <=> (\E i \in 1 .. k - 1 : Sizes[i] = d.size) \/ Sizes[k] = d.size
      BY <1>1, <3>2, <3>3 DEF Behind
    <3>6. Behind(t, d)' <=> \E i \in 1 .. k : Sizes[i] = d.size
      BY <1>5, <2>1, <3>3 DEF Behind
    <3>7. QED
      BY <3>4, <3>5, <3>6
  <2>5. QED
    BY <1>1, <1>5, <2>2, <2>4, StayingWalk
<1>8. QED
  BY <1>6, <1>7

LEMMA AtWalk ==
  ASSUME UpdateInv, JobsInv, NEW t \in Threads, Alone(t), WalkInv(t), At(t)
  PROVE  WalkInv(t)'
<1>1. job[t] \in Jobs /\ JobOK(pc[t], job[t]) /\ pc[t] = "at" /\ reported' = reported
      /\ found_RNTI_list' = found_RNTI_list
  BY JobFacts DEF At, shared
<1>2. ~Single(t) /\ ~Found(t)
  BY <1>1 DEF WalkInv, PositionInv
<1>3. job[t].rnti_i < Len(found_RNTI_list)
  BY <1>1, AloneList DEF JobOK
<1>4. PICK r : r = found_RNTI_list[job[t].rnti_i + 1]
  OBVIOUS
<1>5. pc'[t] = "decode" /\ job'[t] = [job[t] EXCEPT !.rnti = r]
  BY <1>3, <1>4, GotoFacts DEF At
<1>6. /\ job'[t].sent = job[t].sent /\ job'[t].found = job[t].found /\ job'[t].todo = job[t].todo
      /\ job'[t].AL = job[t].AL /\ job'[t].dci_idx = job[t].dci_idx
      /\ job'[t].rnti_i = job[t].rnti_i /\ job'[t].rnti = r
  BY <1>1, <1>5, Kept
<1>7. PositionInv(t)'
  BY <1>1, <1>2, <1>4, <1>5, <1>6 DEF PositionInv, Single
<1>8. \A d : Behind(t, d)' <=> Behind(t, d)
  BY <1>1, <1>5, <1>6 DEF Behind, RntiTried
<1>9. QED
  BY <1>1, <1>6, <1>7, <1>8, StayingWalk


\* There is one DCI at most at a candidate.
LEMMA OneAtCand ==
  ASSUME SentApart, JobsInv, NEW t \in Threads, job[t].todo # {}
  PROVE  /\ \A d, e \in job[t].sent : Here(t, d) /\ Here(t, e) => d = e
         /\ \A r, s : Here(t, [level |-> level(t), idx |-> cand(t).idx, rnti |-> r, size |-> s])
         /\ \A d \in job[t].sent : d \in DCIs /\ d.rnti # 0 /\ d.size \in Range(Sizes)
         /\ \A d \in job[t].sent : Here(t, d) => d.level = level(t) /\ d.idx = cand(t).idx
<1>1. c \in Coresets /\ job[t].sent \in {{}} \cup Transmissions(c)
      /\ cand(t) \in Candidates(c) /\ cand(t).level = level(t)
  BY JobFacts DEF JobsInv, Jobs
<1>2. cand(t) = [level |-> level(t), idx |-> cand(t).idx]
  BY <1>1 DEF Candidates
<1>3. QED
  BY <1>1, <1>2, SentFacts DEF Here, place

LEMMA UpdatingWalk ==
  ASSUME SentApart, UpdateInv, JobsInv, NEW t \in Threads, Alone(t), WalkInv(t),
         Acquire(t) \/ Erase(t) \/ Insert(t) \/ Release(t)
  PROVE  WalkInv(t)'
<1>1. /\ job[t] \in Jobs /\ JobOK(pc[t], job[t]) /\ reported' = reported
      /\ pc[t] \in {"acquire", "erase", "insert", "release"}
      /\ job[t].todo # {}
  BY JobFacts DEF Acquire, Erase, Insert, Release, JobOK
<1>2. /\ job[t].outp = 1 /\ dci(t) \in Reported(t) /\ dci(t) \in Wanted(t)
      /\ Single(t) => job[t].rnti_i = 0
  BY <1>1 DEF WalkInv, PositionInv
<1>3. job'[t] = job[t]
  BY GotoFacts DEF Acquire, Erase, Insert, Release
<1>4. dci(t)' = dci(t) /\ Reported(t)' = Reported(t) /\ (Single(t)' <=> Single(t))
  BY <1>1, <1>3 DEF dci, level, cand, Reported, Single
<1>5. CASE Acquire(t)
  <2>1. Contains(found_RNTI_list, job[t].rnti)
    <3>1. job[t].rnti \in Range(Rntis)
      BY <1>2 DEF Wanted, dci
    <3>2. pc[t] # "insert"
      BY <1>5 DEF Acquire
    <3>3. QED
      BY <3>1, <3>2, AloneList, RangeFacts
  <2>2. pc'[t] = "erase"
    BY <1>5, <2>1, GotoFacts DEF Acquire
  <2>3. PositionInv(t)'
    BY <1>2, <1>3, <1>4, <2>2 DEF PositionInv
  <2>4. \A d : Behind(t, d)' <=> Behind(t, d)
    BY <1>1, <1>3, <2>2 DEF Behind, RntiTried
  <2>5. QED
    BY <1>1, <1>3, <2>3, <2>4, StayingWalk
<1>6. CASE Erase(t)
  <2>1. pc'[t] = "insert"
    BY <1>6, GotoFacts DEF Erase
  <2>2. PositionInv(t)'
    BY <1>2, <1>3, <1>4, <2>1 DEF PositionInv
  <2>3. \A d : Behind(t, d)' <=> Behind(t, d)
    BY <1>1, <1>3, <2>1 DEF Behind, RntiTried
  <2>4. QED
    BY <1>1, <1>3, <2>2, <2>3, StayingWalk
<1>7. CASE Insert(t)
  <2>1. pc'[t] = "release" /\ found_RNTI_list' = <<job[t].rnti>> \o found_RNTI_list
    BY <1>7, GotoFacts DEF Insert
  <2>2. found_RNTI_list'[1] = job[t].rnti
    <3>1. job[t].rnti \in Nat /\ found_RNTI_list \in Seq(Nat)
      BY <1>1 DEF Jobs, UpdateInv
    <3>2. \A r \in Nat, s \in Seq(Nat) : (<<r>> \o s)[1] = r
      OBVIOUS
    <3>3. QED
      BY <2>1, <3>1, <3>2
  <2>3. PositionInv(t)'
    BY <1>2, <1>3, <1>4, <2>1, <2>2 DEF PositionInv
  <2>4. \A d : Behind(t, d)' <=> Behind(t, d)
    BY <1>1, <1>3, <2>1 DEF Behind, RntiTried
  <2>5. QED
    BY <1>1, <1>3, <2>3, <2>4, StayingWalk
<1>8. CASE Release(t)
  <2>1. pc'[t] = "decoded" /\ pc[t] = "release" /\ found_RNTI_list' = found_RNTI_list
    BY <1>8, GotoFacts DEF Release
  <2>2. found_RNTI_list[1] = job[t].rnti
    BY <2>1 DEF WalkInv, PositionInv
  <2>4. PositionInv(t)'
    BY <1>2, <1>3, <1>4, <2>1, <2>2 DEF PositionInv
  <2>5. ASSUME NEW d \in Wanted(t), Here(t, d)
        PROVE  Behind(t, d)' <=> Behind(t, d)
    <3>1. d.rnti = job[t].rnti
      <4>1. d \in job[t].sent /\ dci(t) \in job[t].sent /\ Here(t, dci(t))
        BY <1>1, <1>2, OneAtCand DEF Wanted, dci
      <4>2. d = dci(t)
        BY <1>1, <2>5, <4>1, OneAtCand
      <4>3. QED
        BY <4>2 DEF dci
    <3>2. 1 \in 1 .. job[t].rnti_i + 1
      BY <1>1 DEF Jobs
    <3>3. RntiTried(t, d.rnti)'
      BY <1>3, <2>1, <2>2, <3>1, <3>2 DEF RntiTried
    <3>4. RntiTried(t, d.rnti)
      BY <2>1 DEF RntiTried
    <3>5. QED
      BY <1>3, <2>1, <3>3, <3>4 DEF Behind
  <2>6. QED
    BY <1>1, <1>3, <2>4, <2>5, StayingWalk
<1>9. QED
  BY <1>5, <1>6, <1>7, <1>8


\* What decode_pdcch tries.
LEMMA TriedFacts ==
  ASSUME SentApart, UpdateInv, JobsInv, NEW t \in Threads, Alone(t), WalkInv(t), pc[t] = "decode"
  PROVE  /\ ~Single(t) => /\ Tried(t) = found_RNTI_list[job[t].rnti_i + 1]
                          /\ Tried(t) \in Range(Rntis)
         /\ Single(t) => /\ \A d \in Wanted(t) : Here(t, d) => Tried(t) = d.rnti
                         /\ Tried(t) # 0 => Tried(t) \in Range(Rntis)
<1>1. /\ job[t] \in Jobs /\ job[t].todo # {} /\ job[t].rnti_i < Len(Rntis)
      /\ job[t].rnti_i \in Nat /\ job[t].AL \in 0 .. 6
  BY JobFacts DEF JobOK, Jobs
<1>2. /\ found_RNTI_list \in Seq(Nat) /\ Range(found_RNTI_list) = Range(Rntis)
      /\ Len(found_RNTI_list) = Len(Rntis) /\ Len(Rntis) \in Nat /\ Len(Rntis) > 1
  BY AloneList DEF Alone
<1>3. job[t].rnti = IF Single(t) THEN 0 ELSE found_RNTI_list[job[t].rnti_i + 1]
  BY DEF WalkInv, PositionInv
<1>4. CASE ~Single(t)
  <2>1. ~(job[t].AL > 3)
    BY <1>4 DEF Single, Alone
  <2>2. Tried(t) = found_RNTI_list[job[t].rnti_i + 1]
    BY <1>3, <1>4, <2>1 DEF Tried
  <2>3. job[t].rnti_i + 1 \in 1 .. Len(found_RNTI_list)
    BY <1>1, <1>2
  <2>4. QED
    BY <1>2, <1>4, <2>2, <2>3, RangeFacts
<1>5. CASE Single(t)
  <2>1. job[t].AL > 3
    BY <1>5 DEF Single
  <2>2. ASSUME NEW d \in Wanted(t), Here(t, d)
        PROVE  Tried(t) = d.rnti
    <3>1. \A x \in job[t].sent : x.level = level(t) /\ x.idx = cand(t).idx => x = d
      <4>1. \A x \in job[t].sent : x.level = level(t) /\ x.idx = cand(t).idx => place(x) = place(d)
        BY <1>1, <2>2, OneAtCand DEF place, Wanted
      <4>2. QED
        BY <1>1, <2>2, <4>1, OneAtCand DEF Here, Wanted
    <3>2. \E k \in DOMAIN found_RNTI_list : found_RNTI_list[k] = d.rnti
      BY <1>2, RangeFacts DEF Wanted
    <3>3. d \in job[t].sent /\ d.level = level(t) /\ d.idx = cand(t).idx
      BY <1>1, <2>2, OneAtCand DEF Wanted
    <3>4. ByRepetition(t) = {d.rnti}
      BY <1>2, <3>1, <3>2, <3>3 DEF ByRepetition
    <3>5. QED
      BY <2>1, <3>4 DEF Tried
  <2>3. ASSUME Tried(t) # 0
        PROVE  Tried(t) \in Range(Rntis)
    <3>1. ByRepetition(t) # {}
      BY <1>3, <1>5, <2>3 DEF Tried
    <3>2. Tried(t) \in ByRepetition(t)
      BY <2>1, <3>1 DEF Tried
    <3>3. \E k \in DOMAIN found_RNTI_list : found_RNTI_list[k] = Tried(t)
      BY <3>2 DEF ByRepetition
    <3>4. QED
      BY <1>2, <3>3, RangeFacts
  <2>4. QED
    BY <1>5, <2>2, <2>3
<1>6. QED
  BY <1>4, <1>5

LEMMA AppendFacts ==
  ASSUME NEW S, NEW s \in Seq(S), NEW e \in S, e \notin Range(s), IsInjective(s)
  PROVE  IsInjective(Append(s, e)) /\ Range(Append(s, e)) = Range(s) \cup {e}
<1>1. PICK r : r = Append(s, e)
  OBVIOUS
<1>2. /\ r \in Seq(S) /\ Len(r) = Len(s) + 1 /\ Len(s) \in Nat /\ r[Len(s) + 1] = e
      /\ \A i \in 1 .. Len(s) : r[i] = s[i]
  BY <1>1
<1>3. 1 .. Len(r) = (1 .. Len(s)) \cup {Len(s) + 1}
  BY <1>2
<1>4. \A i \in 1 .. Len(s) : s[i] # e
  BY RangeFacts
<1>5. \A i, j \in 1 .. Len(s) : s[i] = s[j] => i = j
  BY RangeFacts
<1>6. \A i, j \in 1 .. Len(r) : r[i] = r[j] => i = j
  BY <1>2, <1>3, <1>4, <1>5
<1>7. \A x : x \in Range(r) <=> x \in Range(s) \/ x = e
  BY <1>2, <1>3, RangeFacts
<1>8. QED
  BY <1>1, <1>2, <1>6, <1>7, RangeFacts

LEMMA DecodeWalk ==
  ASSUME SentApart, SizesDiffer, UpdateInv, JobsInv, NEW t \in Threads, Alone(t), WalkInv(t),
         decode_pdcch(t)
  PROVE  WalkInv(t)'
<1>1. /\ job[t] \in Jobs /\ JobOK(pc[t], job[t]) /\ pc[t] = "decode"
      /\ job[t].todo # {} /\ found_RNTI_list' = found_RNTI_list
      /\ job[t].rnti_i \in Nat /\ job[t].rnti_i < Len(Rntis)
      /\ reported \in [Threads -> Seq(DCIs)]
  BY JobFacts DEF decode_pdcch, JobOK, Jobs, shared, JobsInv
<1>2. PICK k : k = job[t].dci_idx /\ k \in 1 .. Len(Sizes)
  BY <1>1 DEF JobOK, Jobs
<1>3. /\ found_RNTI_list \in Seq(Nat) /\ IsInjective(found_RNTI_list)
      /\ Len(found_RNTI_list) = Len(Rntis) /\ Len(Rntis) \in Nat
  BY <1>1, AloneList
<1>4. Single(t) => job[t].rnti_i = 0
  BY <1>1 DEF WalkInv, PositionInv
<1>5. PICK e : e = [level |-> level(t), idx |-> cand(t).idx, rnti |-> Tried(t), size |-> Sizes[k]]
  OBVIOUS
<1>6. Here(t, e) /\ e.rnti = Tried(t) /\ e.size = Sizes[k]
  BY <1>1, <1>5, OneAtCand
<1>7. \A d : RntiTried(t, d.rnti) <=> \E i \in 1 .. job[t].rnti_i : found_RNTI_list[i] = d.rnti
  <2>1. job[t].rnti_i + 0 = job[t].rnti_i
    BY <1>1
  <2>2. QED
    BY <1>1, <2>1 DEF RntiTried
<1>8. \A d : Behind(t, d) <=> \/ \E i \in 1 .. k - 1 : Sizes[i] = d.size
                             \/ (Sizes[k] = d.size /\ RntiTried(t, d.rnti))
  BY <1>1, <1>2 DEF Behind
<1>9. CASE e \in job[t].sent
  <2>1. pc'[t] = "acquire" /\ job'[t] = [job[t] EXCEPT !.outp = 1, !.rnti = e.rnti]
        /\ reported'[t] = Append(reported[t], e)
    BY <1>1, <1>2, <1>5, <1>6, <1>9, GotoFacts DEF decode_pdcch
  <2>2. /\ job'[t].sent = job[t].sent /\ job'[t].found = job[t].found /\ job'[t].todo = job[t].todo
        /\ job'[t].AL = job[t].AL /\ job'[t].dci_idx = k /\ job'[t].rnti_i = job[t].rnti_i
        /\ job'[t].rnti = e.rnti /\ job'[t].outp = 1
    BY <1>1, <1>2, <2>1 DEF Jobs
  <2>3. /\ cand(t)' = cand(t) /\ level(t)' = level(t) /\ Wanted(t)' = Wanted(t)
        /\ (Single(t)' <=> Single(t))
    BY <2>2 DEF cand, level, Wanted, Single
  <2>4. e \in Wanted(t) /\ e \in DCIs
    <3>1. e.rnti # 0 /\ e \in DCIs
      BY <1>1, <1>9, OneAtCand
    <3>2. QED
      BY <1>1, <1>6, <1>9, <3>1, TriedFacts DEF Wanted
  <2>5. ~Behind(t, e)
    <3>1. \A i \in 1 .. k - 1 : Sizes[i] # Sizes[k]
      <4>1. \A i, j \in 1 .. Len(Sizes) : Sizes[i] = Sizes[j] => i = j
        BY RangeFacts, PdcchAssumption DEF SizesDiffer
      <4>2. \A i \in 1 .. k - 1 : i \in 1 .. Len(Sizes) /\ i # k
        BY <1>2
      <4>3. QED
        BY <1>2, <4>1, <4>2
    <3>2. ~RntiTried(t, e.rnti)
      <4>1. CASE Single(t)
        BY <1>4, <1>7, <4>1
      <4>2. CASE ~Single(t)
        <5>1. e.rnti = found_RNTI_list[job[t].rnti_i + 1]
          BY <1>1, <1>6, <4>2, TriedFacts
        <5>2. \A i, j \in 1 .. Len(Rntis) : found_RNTI_list[i] = found_RNTI_list[j] => i = j
          BY <1>3, RangeFacts
        <5>3. \A i \in 1 .. job[t].rnti_i : i \in 1 .. Len(Rntis) /\ i # job[t].rnti_i + 1
          BY <1>1, <1>3
        <5>4. job[t].rnti_i + 1 \in 1 .. Len(Rntis)
          BY <1>1, <1>3
        <5>5. QED
          BY <1>7, <5>1, <5>2, <5>3, <5>4
      <4>3. QED
        BY <4>1, <4>2
    <3>3. QED
      BY <1>6, <1>8, <3>1, <3>2
  <2>6. e \notin Reported(t)
    BY <1>6, <2>4, <2>5 DEF WalkInv, Done
  <2>7. IsInjective(reported'[t]) /\ Reported(t)' = Reported(t) \cup {e}
    BY <1>1, <2>1, <2>4, <2>6, AppendFacts DEF Reported, WalkInv
  <2>8. \A d : Here(t, d)' <=> Here(t, d)
    BY <2>2, <2>3 DEF Here
  <2>9. ASSUME NEW d \in Wanted(t)
        PROVE  d \in Reported(t)' <=> Done(t, d)'
    <3>1. CASE d = e
      <4>1. RntiTried(t, e.rnti)'
        BY <2>1 DEF RntiTried
      <4>2. Behind(t, e)'
        BY <1>6, <2>1, <2>2, <4>1 DEF Behind
      <4>3. QED
        BY <1>6, <2>7, <2>8, <3>1, <4>2 DEF Done
    <3>2. CASE d # e
      <4>1. ~Here(t, d)
        BY <1>1, <1>6, <1>9, <3>2, OneAtCand DEF Wanted
      <4>2. Done(t, d)' <=> Done(t, d)
        BY <2>2, <2>3, <2>8, <4>1 DEF Done
      <4>3. QED
        BY <2>7, <3>2, <4>2 DEF WalkInv
    <3>3. QED
      BY <3>1, <3>2
  <2>10. PositionInv(t)'
    <3>1. dci(t)' = e
      BY <1>5, <2>2, <2>3 DEF dci
    <3>2. QED
      BY <1>4, <2>1, <2>2, <2>3, <2>7, <3>1 DEF PositionInv
  <2>11. QED
    BY <2>2, <2>3, <2>4, <2>7, <2>9, <2>10 DEF WalkInv
<1>10. CASE e \notin job[t].sent
  <2>1. pc'[t] = "decoded" /\ job'[t] = [job[t] EXCEPT !.outp = 0] /\ reported' = reported
    BY <1>2, <1>5, <1>10, GotoFacts DEF decode_pdcch
  <2>2. /\ job'[t].sent = job[t].sent /\ job'[t].found = job[t].found /\ job'[t].todo = job[t].todo
        /\ job'[t].AL = job[t].AL /\ job'[t].dci_idx = k /\ job'[t].rnti_i = job[t].rnti_i
        /\ job'[t].outp = 0
    BY <1>1, <1>2, <2>1, Kept
  <2>3. Single(t)' <=> Single(t)
    BY <2>2 DEF Single
  <2>4. PositionInv(t)'
    BY <1>4, <2>1, <2>2, <2>3 DEF PositionInv
  <2>5. ASSUME NEW d \in Wanted(t), Here(t, d)
        PROVE  Behind(t, d)' <=> Behind(t, d)
    <3>1. Behind(t, d)' <=> \/ \E i \in 1 .. k - 1 : Sizes[i] = d.size
                           \/ (Sizes[k] = d.size /\ RntiTried(t, d.rnti)')
      BY <2>1, <2>2 DEF Behind
    <3>2. Sizes[k] = d.size => (RntiTried(t, d.rnti)' <=> RntiTried(t, d.rnti))
      <4>1. ASSUME Sizes[k] = d.size
            PROVE  Tried(t) # d.rnti
        <5>1. d \in job[t].sent /\ d \in DCIs /\ d.level = level(t) /\ d.idx = cand(t).idx
          BY <1>1, <2>5, OneAtCand DEF Wanted
        <5>2. Tried(t) = d.rnti => e = d
          BY <1>5, <4>1, <5>1 DEF DCIs
        <5>3. QED
          BY <1>10, <5>1, <5>2
      <4>2. CASE Single(t)
        BY <1>1, <2>5, <4>1, <4>2, TriedFacts
      <4>3. CASE ~Single(t)
        <5>1. RntiTried(t, d.rnti)'
                <=> \E i \in 1 .. job[t].rnti_i + 1 : found_RNTI_list[i] = d.rnti
          BY <1>1, <2>1, <2>2, <2>3, <4>3 DEF RntiTried
        <5>2. 1 .. job[t].rnti_i + 1 = (1 .. job[t].rnti_i) \cup {job[t].rnti_i + 1}
          BY <1>1
        <5>3. Tried(t) = found_RNTI_list[job[t].rnti_i + 1]
          BY <1>1, <4>3, TriedFacts
        <5>4. QED
          BY <1>7, <4>1, <5>1, <5>2, <5>3
      <4>4. QED
        BY <4>2, <4>3
    <3>3. QED
      BY <1>8, <3>1, <3>2
  <2>6. QED
    BY <2>1, <2>2, <2>4, <2>5, StayingWalk
<1>11. QED
  BY <1>9, <1>10


\* The thread goes on to the next candidate of the level.
LEMMA LeavingWalk ==
  ASSUME SentApart, UpdateInv, JobsInv, NEW t \in Threads, WalkInv(t), JobsInv',
         job[t].todo # {}, pc'[t] = "next", reported' = reported,
         job'[t].sent = job[t].sent, job'[t].todo = job[t].todo \ {cand(t)},
         job'[t].AL = job[t].AL, job'[t].dci_idx = 0,
         \A d \in Wanted(t) : Here(t, d) => d \in Reported(t),
         \A d \in Wanted(t) : d.level < level(t) => place(d) \in job'[t].found
  PROVE  WalkInv(t)'
<1>1. /\ level(t)' = level(t) /\ Wanted(t)' = Wanted(t) /\ Reported(t)' = Reported(t)
      /\ cand(t)' = First(job'[t].todo)
  BY DEF level, Wanted, Reported, cand
<1>2. /\ job[t] \in Jobs /\ cand(t) \in job[t].todo /\ level(t) \in Int
      /\ \A x \in job[t].todo : x.level = level(t)
  BY JobFacts DEF Jobs, level
<1>3. job'[t].todo # {} => cand(t)' \in job'[t].todo
  <2>1. job'[t].todo \subseteq Candidates(c)
    BY <1>2 DEF Jobs
  <2>2. QED
    BY <1>1, <2>1, FirstIsOne
<1>4. ASSUME NEW d \in Wanted(t)
      PROVE  d \in Reported(t) <=> Done(t, d)'
  <2>1. d \in Reported(t) <=> Done(t, d)
    BY DEF WalkInv
  <2>2. CASE Here(t, d)
    <3>1. place(d) \notin job'[t].todo /\ d.level = level(t) /\ d \in Reported(t)
      BY <1>2, <2>2 DEF Here, place
    <3>2. ~Here(t, d)'
      BY <1>3, <3>1 DEF Here
    <3>3. QED
      BY <1>1, <1>2, <3>1, <3>2 DEF Done
  <2>3. CASE ~Here(t, d) /\ place(d) \in job[t].todo
    <3>1. place(d) \in job'[t].todo /\ d \notin Reported(t)
      BY <1>2, <2>1, <2>3 DEF Here, Done
    <3>2. ~Behind(t, d)'
      BY DEF Behind
    <3>3. QED
      BY <3>1, <3>2 DEF Done
  <2>4. CASE ~Here(t, d) /\ place(d) \notin job[t].todo
    <3>1. place(d) \notin job'[t].todo /\ ~Here(t, d)'
      BY <1>3, <2>4 DEF Here
    <3>2. QED
      BY <1>1, <2>1, <2>4, <3>1 DEF Done
  <2>5. QED
    BY <2>2, <2>3, <2>4
<1>5. PositionInv(t)'
  BY DEF PositionInv
<1>6. QED
  BY <1>1, <1>4, <1>5 DEF WalkInv

LEMMA DecodedWalk ==
  ASSUME PlacesAgree, SentApart, UpdateInv, JobsInv, JobsInv', NEW t \in Threads, Alone(t),
         WalkInv(t), Decoded(t)
  PROVE  WalkInv(t)'
<1>1. /\ job[t] \in Jobs /\ JobOK(pc[t], job[t]) /\ pc[t] = "decoded" /\ reported' = reported
      /\ job[t].todo # {} /\ found_RNTI_list' = found_RNTI_list
      /\ job[t].rnti_i \in Nat /\ job[t].outp \in {0, 1} /\ job[t].AL \in 0 .. 6
      /\ cand(t) \in job[t].todo
  BY JobFacts DEF Decoded, JobOK, Jobs, shared
<1>2. PICK k : k = job[t].dci_idx /\ k \in 1 .. Len(Sizes)
  BY <1>1, PdcchAssumption DEF JobOK, Jobs
<1>3. Single(t) <=> job[t].AL > 3
  BY DEF Single, Alone
<1>4. \A d : Behind(t, d) <=> \/ \E i \in 1 .. k - 1 : Sizes[i] = d.size
                             \/ (Sizes[k] = d.size /\ RntiTried(t, d.rnti))
  BY <1>1, <1>2 DEF Behind
<1>5. CASE ~Single(t) /\ ~Found(t)
  <2>1. pc'[t] = "bound" /\ job'[t] = [job[t] EXCEPT !.rnti_i = job[t].rnti_i + 1]
    BY <1>5, GotoFacts DEF Decoded
  <2>2. /\ job'[t].sent = job[t].sent /\ job'[t].found = job[t].found /\ job'[t].todo = job[t].todo
        /\ job'[t].AL = job[t].AL /\ job'[t].dci_idx = k /\ job'[t].outp = job[t].outp
        /\ job'[t].rnti_i = job[t].rnti_i + 1
    BY <1>1, <1>2, <2>1, Kept
  <2>3. PositionInv(t)'
    BY <1>5, <2>1, <2>2 DEF PositionInv, Single, Found
  <2>4. \A d : RntiTried(t, d.rnti)' <=> RntiTried(t, d.rnti)
    <3>1. (job[t].rnti_i + 1) + 0 = job[t].rnti_i + 1
      BY <1>1
    <3>2. QED
      BY <1>1, <1>5, <2>1, <2>2, <3>1 DEF RntiTried
  <2>5. \A d : Behind(t, d)' <=> Behind(t, d)
    BY <1>4, <2>1, <2>2, <2>4 DEF Behind
  <2>6. QED
    BY <1>1, <2>2, <2>3, <2>5, StayingWalk
<1>6. CASE Single(t) /\ ~Found(t)
  <2>1. pc'[t] = "next" /\ job'[t] = job[t]
    BY <1>6, GotoFacts DEF Decoded, LeaveRntis
  <2>2. PositionInv(t)'
    BY <2>1 DEF PositionInv
  <2>3. \A d : Behind(t, d)' <=> Behind(t, d)
    <3>1. \A d : RntiTried(t, d.rnti)
      BY <1>1, <1>6 DEF RntiTried
    <3>2. 1 .. k = (1 .. k - 1) \cup {k}
      BY <1>2
    <3>3. \A d : Behind(t, d)' <=> \E i \in 1 .. k : Sizes[i] = d.size
      BY <1>2, <2>1 DEF Behind
    <3>4. QED
      BY <1>4, <3>1, <3>2, <3>3
  <2>4. QED
    BY <1>1, <2>1, <2>2, <2>3, StayingWalk
<1>7. CASE Found(t)
  <2>1. LeaveRntis(t)
    BY <1>1, <1>3, <1>7 DEF Decoded
  <2>2. PICK f : f = delete_lower_AL_dcis(t)
    OBVIOUS
  <2>3. PICK left : left = job[t].todo \ {cand(t)}
    OBVIOUS
  <2>4. pc'[t] = "next" /\ job'[t] = [job[t] EXCEPT !.found = f, !.todo = left, !.dci_idx = 0]
    BY <1>7, <2>1, <2>2, <2>3, GotoFacts DEF LeaveRntis
  <2>5. /\ job'[t].sent = job[t].sent /\ job'[t].found = f /\ job'[t].todo = left
        /\ job'[t].AL = job[t].AL /\ job'[t].dci_idx = 0
    BY <1>1, <2>4 DEF Jobs
  <2>6. dci(t) \in Reported(t) /\ dci(t) \in job[t].sent /\ Here(t, dci(t))
    <3>1. job[t].outp = 1
      BY <1>7 DEF Found
    <3>2. dci(t) \in Reported(t) /\ dci(t) \in job[t].sent
      BY <1>1, <3>1 DEF WalkInv, PositionInv, Wanted
    <3>3. QED
      BY <1>1, <3>2, OneAtCand DEF dci
  <2>7. \A d \in Wanted(t) : Here(t, d) => d \in Reported(t)
    BY <1>1, <2>6, OneAtCand DEF Wanted
  <2>8. ASSUME NEW d \in Wanted(t), d.level < level(t)
        PROVE  place(d) \in f
    <3>1. place(d) \in job[t].found /\ d \in job[t].sent
      BY <2>8 DEF WalkInv, Wanted
    <3>2. cand(t) = place(dci(t))
      BY <2>6 DEF Here
    <3>3. d # dci(t)
      <4>1. dci(t).level = level(t) /\ level(t) \in Int
        BY <1>1 DEF dci, level
      <4>2. QED
        BY <2>8, <4>1
    <3>4. c \in Coresets /\ job[t].sent \in {{}} \cup Transmissions(c)
      BY <1>1 DEF JobsInv, Jobs
    <3>5. ~(CCEs(c, place(d)) \subseteq CCEs(c, cand(t)))
      BY <2>6, <3>1, <3>2, <3>3, <3>4, SentFacts
    <3>6. place(d) \in Candidates(c) /\ cand(t) \in Candidates(c)
      BY <1>1, <3>1 DEF Jobs
    <3>7. c.candidates[0] \in 0 .. 255
      BY <3>4, PdcchAssumption DEF Levels
    <3>8. c.candidates[0] # 0 => ~(CCEsToDelete(c, place(d)) \subseteq CCEsToDelete(c, cand(t)))
      BY <3>4, <3>5, <3>6, <3>7 DEF PlacesAgree
    <3>9. QED
      BY <2>2, <3>1, <3>8 DEF delete_lower_AL_dcis
  <2>9. QED
    BY <1>1, <2>3, <2>4, <2>5, <2>7, <2>8, LeavingWalk
<1>8. QED
  BY <1>5, <1>6, <1>7

LEMMA NextDciWalk ==
  ASSUME SentApart, UpdateInv, JobsInv, JobsInv', NEW t \in Threads, WalkInv(t), NextDci(t)
  PROVE  WalkInv(t)'
<1>1. /\ job[t] \in Jobs /\ pc[t] = "next" /\ reported' = reported
      /\ job[t].todo # {} /\ job[t].dci_idx = Len(Sizes)
  BY JobFacts DEF NextDci
<1>2. PICK left : left = job[t].todo \ {cand(t)}
  OBVIOUS
<1>3. pc'[t] = "next" /\ job'[t] = [job[t] EXCEPT !.todo = left, !.dci_idx = 0]
  BY <1>2, GotoFacts DEF NextDci
<1>4. /\ job'[t].sent = job[t].sent /\ job'[t].found = job[t].found /\ job'[t].todo = left
      /\ job'[t].AL = job[t].AL /\ job'[t].dci_idx = 0
  BY <1>1, <1>3 DEF Jobs
<1>5. ASSUME NEW d \in Wanted(t), Here(t, d)
      PROVE  d \in Reported(t)
  <2>1. d.size \in Range(Sizes)
    BY <1>1, OneAtCand DEF Wanted
  <2>2. \E i \in 1 .. Len(Sizes) : Sizes[i] = d.size
    BY <2>1, RangeFacts, PdcchAssumption
  <2>3. Behind(t, d)
    BY <1>1, <2>2 DEF Behind
  <2>4. QED
    BY <1>5, <2>3 DEF WalkInv, Done
<1>6. \A d \in Wanted(t) : d.level < level(t) => place(d) \in job'[t].found
  BY <1>4 DEF WalkInv
<1>7. QED
  BY <1>1, <1>2, <1>3, <1>4, <1>5, <1>6, LeavingWalk

LEMMA NextLevelWalk ==
  ASSUME SentApart, UpdateInv, JobsInv, NEW t \in Threads, WalkInv(t), NextLevel(t)
  PROVE  WalkInv(t)'
<1> DEFINE l == Max(Remaining(t))
<1>1. /\ job[t] \in Jobs /\ JobOK(pc[t], job[t]) /\ pc[t] = "next" /\ reported' = reported
      /\ job[t].todo = {} /\ job[t].dci_idx = 0 /\ Remaining(t) # {} /\ level(t) \in Int
      /\ job[t].found \subseteq Candidates(c)
  BY JobFacts DEF NextLevel, JobOK, Jobs, level
<1>2. /\ Remaining(t) \in SUBSET (0 .. 4)
      /\ \A x \in job[t].found : x.level < level(t) => x.level \in Remaining(t)
      /\ \A n \in Remaining(t) : n < level(t)
  <2>1. \A x \in job[t].found : x.level \in 0 .. 4
    BY <1>1 DEF Candidates, Levels
  <2>2. PICK a : a = job[t].AL /\ a \in 0 .. 6
    BY <1>1 DEF Jobs
  <2>3. \A n : n \in Remaining(t) <=> (\E x \in job[t].found : x.level = n) /\ n \in 0 .. a - 2
    BY <2>2 DEF Remaining
  <2>4. level(t) = a - 1
    BY <2>2 DEF level
  <2>5. \A n \in Remaining(t) : n \in 0 .. 4 /\ n < level(t)
    BY <2>2, <2>3, <2>4
  <2>6. \A x \in job[t].found : x.level < level(t) => x.level \in 0 .. a - 2
    BY <2>1, <2>2, <2>4
  <2>7. QED
    BY <2>3, <2>5, <2>6
<1>3. l \in 0 .. 4 /\ l < level(t) /\ \A n \in Remaining(t) : n <= l
  BY <1>1, <1>2, GreatestLevel
<1>4. PICK some : some = {x \in job[t].found : x.level = l}
  OBVIOUS
<1>5. pc'[t] = "next" /\ job'[t] = [job[t] EXCEPT !.AL = l + 1, !.todo = some]
  BY <1>4, GotoFacts DEF NextLevel
<1> HIDE DEF l
<1>6. /\ job'[t].sent = job[t].sent /\ job'[t].found = job[t].found /\ job'[t].todo = some
      /\ job'[t].AL = l + 1 /\ job'[t].dci_idx = 0
  BY <1>1, <1>5 DEF Jobs
<1>7. level(t)' = l /\ Wanted(t)' = Wanted(t) /\ Reported(t)' = Reported(t)
  <2>1. (l + 1) - 1 = l
    BY <1>3
  <2>2. QED
    BY <1>1, <1>6, <2>1 DEF level, Wanted, Reported
<1>8. ASSUME NEW d \in Wanted(t)
      PROVE  /\ d \in Reported(t) <=> Done(t, d)'
             /\ d.level < l => place(d) \in job[t].found
  <2>1. d \in Reported(t) <=> d.level >= level(t)
    BY <1>1 DEF WalkInv, Done, Here
  <2>2. d.level < level(t) => place(d) \in job[t].found
    BY DEF WalkInv
  <2>3. d.level \in 0 .. 4
    <3>1. job[t].sent \in {{}} \cup Transmissions(c) /\ c \in Coresets
      BY <1>1 DEF Jobs, JobsInv
    <3>2. QED
      BY <3>1, SentFacts DEF Wanted, DCIs, Levels
  <2>4. place(d).level = d.level
    BY DEF place
  <2>5. ~Behind(t, d)'
    BY <1>5, <1>6 DEF Behind
  <2>6. d.level < level(t) => d.level <= l
    BY <1>2, <1>3, <2>2, <2>4
  <2>7. CASE d.level >= level(t)
    <3>1. place(d) \notin some /\ d.level >= l
      BY <1>1, <1>3, <1>4, <2>3, <2>4, <2>7
    <3>2. some # {} => First(some) \in some
      BY <1>1, <1>4, FirstIsOne
    <3>3. ~Here(t, d)'
      BY <1>6, <3>1, <3>2 DEF Here, cand
    <3>4. QED
      BY <1>1, <1>3, <1>6, <1>7, <2>1, <2>3, <2>7, <3>1, <3>3 DEF Done
  <2>8. CASE d.level < level(t) /\ d.level = l
    <3>1. place(d) \in some
      BY <1>4, <2>2, <2>4, <2>8
    <3>2. QED
      BY <1>1, <1>3, <1>6, <2>1, <2>3, <2>5, <2>8, <3>1 DEF Done
  <2>9. CASE d.level < level(t) /\ d.level # l
    <3>1. d.level < l
      BY <1>3, <2>3, <2>6, <2>9
    <3>2. QED
      BY <1>1, <1>3, <1>7, <2>1, <2>2, <2>3, <2>5, <2>9, <3>1 DEF Done
  <2>10. QED
    BY <1>1, <2>3, <2>7, <2>8, <2>9
<1>9. PositionInv(t)'
  BY <1>5 DEF PositionInv
<1>10. QED
  BY <1>1, <1>6, <1>7, <1>8, <1>9 DEF WalkInv

LEMMA FinishWalk ==
  ASSUME SentApart, UpdateInv, JobsInv, NEW t \in Threads, WalkInv(t), Finish(t)
  PROVE  WalkInv(t)'
<1>1. /\ job[t] \in Jobs /\ JobOK(pc[t], job[t]) /\ pc[t] = "next" /\ reported' = reported
      /\ job[t].todo = {} /\ Remaining(t) = {} /\ level(t) \in Int
      /\ job[t].found \subseteq Candidates(c)
      /\ job[t].sent \in {{}} \cup Transmissions(c) /\ c \in Coresets
  BY JobFacts DEF Finish, JobOK, Jobs, level, JobsInv
<1>2. \A d \in Wanted(t) : d.level \in 0 .. 4
  BY <1>1, SentFacts DEF Wanted, DCIs, Levels
<1>3. ASSUME NEW d \in Wanted(t)
      PROVE  d \in Reported(t)
  <2>1. CASE d.level < level(t)
    <3>1. place(d) \in job[t].found /\ place(d).level = d.level
      BY <2>1 DEF WalkInv, place
    <3>2. d.level \in Remaining(t)
      <4>1. PICK a : a = job[t].AL /\ a \in 0 .. 6
        BY <1>1 DEF Jobs
      <4>2. level(t) = a - 1
        BY <4>1 DEF level
      <4>3. d.level \in 0 .. 4
        BY <1>2
      <4>4. d.level \in 0 .. a - 2
        BY <2>1, <4>1, <4>2, <4>3
      <4>5. QED
        BY <3>1, <4>1, <4>4 DEF Remaining
    <3>3. QED
      BY <1>1, <3>2
  <2>2. CASE ~(d.level < level(t))
    <3>1. Done(t, d)
      BY <1>1, <1>2, <2>2 DEF Done, Here
    <3>2. QED
      BY <3>1 DEF WalkInv
  <2>3. QED
    BY <2>1, <2>2
<1>4. pc'[t] = "idle" /\ job'[t] = [NoJob EXCEPT !.sent = job[t].sent]
  BY GotoFacts DEF Finish
<1>5. job'[t].sent = job[t].sent /\ job'[t].todo = {} /\ job'[t].AL = 0
  BY <1>4 DEF NoJob
<1>6. level(t)' = -1 /\ Wanted(t)' = Wanted(t) /\ Reported(t)' = Reported(t)
  BY <1>1, <1>5 DEF level, Wanted, Reported
<1>7. \A d \in Wanted(t) : Done(t, d)' /\ ~(d.level < -1)
  BY <1>2, <1>5, <1>6 DEF Done, Here
<1>8. PositionInv(t)'
  BY <1>4 DEF PositionInv
<1>9. QED
  BY <1>1, <1>3, <1>5, <1>6, <1>7, <1>8 DEF WalkInv

LEMMA ReceiveWalk ==
  ASSUME SentApart, JobsInv, NEW t \in Threads, Receive(t)
  PROVE  WalkInv(t)'
<1>1. PICK sent \in Transmissions(c), within \in BOOLEAN :
        Goto(t, "next",
             [NoJob EXCEPT !.sent = sent, !.found = correlate_DMRS(sent, within), !.AL = 6])
  BY DEF Receive
<1>2. PICK f : f = correlate_DMRS(sent, within)
  OBVIOUS
<1>3. pc'[t] = "next" /\ job'[t] = [NoJob EXCEPT !.sent = sent, !.found = f, !.AL = 6]
      /\ reported'[t] = <<>> /\ c \in Coresets
  BY <1>1, <1>2, GotoFacts DEF Receive, JobsInv
<1>4. job'[t].sent = sent /\ job'[t].found = f /\ job'[t].todo = {} /\ job'[t].AL = 6
  BY <1>3 DEF NoJob
<1>5. /\ \A d \in sent : d \in DCIs
      /\ \A d \in sent : place(d) \in Candidates(c)
  BY <1>3, SentFacts
<1>6. ASSUME NEW d \in sent
      PROVE  place(d) \in f
  <2>1. Carries(sent, place(d)) /\ Covered(sent, place(d))
    BY DEF Carries, Covered, place, CCEs
  <2>2. QED
    BY <1>2, <1>5, <2>1 DEF correlate_DMRS
<1>7. Reported(t)' = {} /\ IsInjective(reported'[t])
  BY <1>3 DEF Reported, Range, IsInjective
<1>8. level(t)' = 5 /\ Wanted(t)' \subseteq sent
  BY <1>4 DEF level, Wanted
<1>9. \A d \in sent : ~Done(t, d)'
  <2>1. \A d \in sent : d.level \in 0 .. 4
    BY <1>5 DEF DCIs, Levels
  <2>2. QED
    BY <1>4, <1>8, <2>1 DEF Done, Here
<1>10. PositionInv(t)'
  BY <1>3 DEF PositionInv
<1>11. QED
  BY <1>4, <1>6, <1>7, <1>8, <1>9, <1>10 DEF WalkInv

LEMMA InitAlone == Init => AloneInv
<1> SUFFICES ASSUME Init, NEW t \in Threads PROVE WalkInv(t)
  BY DEF AloneInv
<1>1. pc[t] = "idle" /\ job[t] = NoJob /\ reported[t] = <<>>
  BY DEF Init
<1>2. Wanted(t) = {}
  BY <1>1 DEF Wanted, NoJob
<1>3. Reported(t) = {} /\ IsInjective(reported[t])
  BY <1>1 DEF Reported, Range, IsInjective
<1>4. PositionInv(t)
  BY <1>1 DEF PositionInv
<1>5. QED
  BY <1>2, <1>3, <1>4 DEF WalkInv

LEMMA NextAlone ==
  ASSUME PlacesAgree, SentApart, SizesDiffer, UpdateInv, JobsInv, AloneInv, [Next]_vars
  PROVE  AloneInv'
<1>1. JobsInv'
  BY NextJobs
<1>2. CASE UNCHANGED vars
  BY <1>2 DEF vars, AloneInv, Alone, WalkInv, Wanted, Reported, level, Done, Here, cand, Behind,
     RntiTried, Single, PositionInv, Found, dci
<1>3. ASSUME NEW t \in Threads, Alone(t)', NEW u \in Threads, Receive(u) \/ Work(u)
      PROVE  WalkInv(t)'
  <2>1. active' = active
    BY <1>3 DEF Receive, Work, NextLevel, Finish, NextDci, NextSize, CheckBound, At,
       decode_pdcch, Acquire, Erase, Insert, Release, Decoded, fixed
  <2>2. Alone(t) /\ WalkInv(t)
    BY <1>3, <2>1 DEF Alone, AloneInv
  <2>3. u = t
    <3>1. pc[u] # "idle" => u \in active
      BY JobFacts
    <3>2. u \in active
      BY <1>3, <3>1 DEF Receive, Work, NextLevel, Finish, NextDci, NextSize, CheckBound, At,
         decode_pdcch, Acquire, Erase, Insert, Release, Decoded
    <3>3. QED
      BY <2>2, <3>2 DEF Alone
  <2>4. QED
    BY <1>1, <1>3, <2>2, <2>3, ReceiveWalk, NextLevelWalk, FinishWalk, NextDciWalk, NextSizeWalk,
       BoundWalk, AtWalk, DecodeWalk, UpdatingWalk, DecodedWalk DEF Work
<1>4. QED
  BY <1>2, <1>3 DEF Next, AloneInv

-----------------------------------------------------------------------------
(* The theorems.                                                           *)

LEMMA UpdateInductive == Spec => []UpdateInv
  BY InitUpdate, NextUpdate, PTL DEF Spec

LEMMA JobsInductive == Spec => [](UpdateInv /\ JobsInv)
<1>1. Init => UpdateInv /\ JobsInv
  BY InitUpdate, InitJobs
<1>2. UpdateInv /\ JobsInv /\ [Next]_vars => (UpdateInv /\ JobsInv)'
  BY NextUpdate, NextJobs
<1>3. QED
  BY <1>1, <1>2, PTL DEF Spec

\* Whatever the threads find at the same time, no RNTI is lost from found_RNTI_list
\* when none of them is updating it (update_RNTI_list, pdcch.cc:132).
THEOREM RntisKept == Spec => []RntiListKept
<1>1. ASSUME UpdateInv
      PROVE  RntiListKept
  <2>1. SUFFICES ASSUME rnti_list_mutex = 1
                 PROVE  Len(found_RNTI_list) = Len(Rntis)
                        /\ Range(found_RNTI_list) = Range(Rntis)
    BY DEF RntiListKept
  <2>2. AllBut(found_RNTI_list, {})
    BY <1>1, <2>1 DEF UpdateInv, Updating
  <2>3. Len(Rntis) \in Nat
    BY PdcchAssumption
  <2>4. Cardinality({}) = 0
    BY SingletonCard
  <2>5. QED
    BY <2>2, <2>3, <2>4 DEF AllBut
<1>2. QED
  BY <1>1, UpdateInductive, PTL

\* And none is ever in it twice, not even in the middle of an update (pdcch.cc:138).
THEOREM NoneTwice == Spec => []IsInjective(found_RNTI_list)
<1>1. UpdateInv => IsInjective(found_RNTI_list)
  BY DEF UpdateInv, AllBut
<1>2. QED
  BY <1>1, UpdateInductive, PTL

\* No index of the walk of process (pdcch.cc:155-223) leaves its range, in any thread.
THEOREM TypeCorrect == Spec => []TypeOK
<1>1. UpdateInv /\ JobsInv => TypeOK
  <2> SUFFICES ASSUME UpdateInv, JobsInv PROVE TypeOK
    OBVIOUS
  <2>1. \A t \in Threads : job[t] \in Jobs
    BY DEF JobsInv, JobOK
  <2>2. \A t \in Threads : /\ job[t].AL \in 0 .. 6
                           /\ job[t].dci_idx \in 0 .. Len(Sizes)
                           /\ job[t].rnti_i \in 0 .. Len(Rntis)
                           /\ job[t].outp \in {0, 1}
    BY <2>1 DEF Jobs
  <2>3. QED
    BY <2>2 DEF TypeOK, UpdateInv, JobsInv, DCIs
<1>2. QED
  BY <1>1, JobsInductive, PTL

\* A thread that has the pdcch for itself, with more than one RNTI and a list not cut short,
\* reports all that was sent with an RNTI of the list, each once and nothing else ("Look for
\* DCIs across the whole PDCCH region", pdcch.cc:147), although the list is reordered and the
\* candidates below a found one deleted meanwhile.
THEOREM DcisAreFound ==
  ASSUME PlacesAgree, SentApart, SizesDiffer
  PROVE  Spec => []EveryDciFound
<1>1. ASSUME JobsInv, AloneInv
      PROVE  EveryDciFound
  <2> SUFFICES ASSUME NEW t \in Threads, active = {t}, pc[t] = "idle", RepetitionOnly,
                      Len(Rntis) > 1, rnti_list_length >= Len(Rntis)
               PROVE  /\ IsInjective(reported[t])
                      /\ Range(reported[t]) = {d \in job[t].sent : Contains(Rntis, d.rnti)}
    BY DEF EveryDciFound
  <2>1. WalkInv(t)
    BY <1>1 DEF Alone, AloneInv
  <2>2. job[t].AL = 0 /\ job[t].todo = {} /\ job[t].sent \in {{}} \cup Transmissions(c)
        /\ c \in Coresets
    BY <1>1 DEF JobsInv, JobOK, Jobs
  <2>3. \A d \in Wanted(t) : d.level \in 0 .. 4
    BY <2>2, SentFacts DEF Wanted, DCIs, Levels
  <2>4. \A d \in Wanted(t) : Done(t, d)
    BY <2>2, <2>3 DEF Done, Here, level
  <2>5. Reported(t) = Wanted(t)
    BY <2>1, <2>4 DEF WalkInv
  <2>6. Wanted(t) = {d \in job[t].sent : Contains(Rntis, d.rnti)}
    BY RangeFacts, PdcchAssumption DEF Wanted
  <2>7. QED
    BY <2>1, <2>5, <2>6 DEF WalkInv, Reported
<1>2. Init => AloneInv
  BY InitAlone
<1>3. UpdateInv /\ JobsInv /\ AloneInv /\ [Next]_vars => AloneInv'
  BY NextAlone
<1>4. QED
  BY <1>1, <1>2, <1>3, JobsInductive, PTL DEF Spec
=============================================================================
