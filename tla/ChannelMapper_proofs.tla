------------------------ MODULE ChannelMapper_proofs ------------------------
(***************************************************************************)
(* Proofs about Ofdm and ChannelMapper, for every grid and every sequence  *)
(* of buffers: the symbols are cut and numbered as the grid has them, the  *)
(* CORESETs are passed on once and in order, and the mapper throws only    *)
(* for a buffer shorter than its CORESET.                                  *)
(***************************************************************************)
EXTENDS ChannelMapperInv, FiniteSetTheorems, WellFoundedInduction, TLAPS

-----------------------------------------------------------------------------
(* Induction over the natural numbers for a set of numbers instead of a    *)
(* predicate, from the well-foundedness of <, and that a recursion has a   *)
(* function.                                                               *)

\* A set of natural numbers that is not empty has a least element.
LEMMA LeastNat ==
  ASSUME NEW S \in SUBSET Nat, S # {}
  PROVE  \E n \in S : \A m \in S : n <= m
<1> DEFINE R == OpToRel(<, Nat)
<1>1. IsWellFoundedOn(R, Nat)
  BY NatLessThanWellFounded
<1>2. PICK n \in S : \A m \in S : ~(<<m, n>> \in R)
  BY <1>1, WFMin
<1>3. \A m \in S : ~(m < n)
  BY <1>2 DEF OpToRel
<1>4. QED
  BY <1>3

\* A set with 0 and with the successor of each of its elements has them all.
LEMMA Induct ==
  ASSUME NEW S \in SUBSET Nat, 0 \in S, \A n \in S : n + 1 \in S
  PROVE  S = Nat
<1> SUFFICES ASSUME Nat \ S # {}
             PROVE  FALSE
  OBVIOUS
<1>1. PICK n \in Nat \ S : \A m \in Nat \ S : n <= m
  BY LeastNat
<1>2. n - 1 \in S
  BY <1>1
<1>3. QED
  BY <1>1, <1>2

\* There is a function with a given first value and a given step.
IsRecursion(g, a, step) == g[0] = a /\ \A n \in Nat : g[n + 1] = step[<<n, g[n]>>]

LEMMA RecursiveNat ==
  ASSUME NEW S, NEW a \in S, NEW step \in [Nat \X S -> S]
  PROVE  \E g \in [Nat -> S] : IsRecursion(g, a, step)
<1> DEFINE Approx(g, n) ==
             /\ g \in [0 .. n -> S]
             /\ g[0] = a
             /\ \A k \in 0 .. n - 1 : g[k + 1] = step[<<k, g[k]>>]
<1>1. \A n \in Nat : \E g : Approx(g, n)
  <2> DEFINE A == {n \in Nat : \E g : Approx(g, n)}
  <2>1. 0 \in A
    <3>1. Approx([k \in 0 .. 0 |-> a], 0)
      OBVIOUS
    <3>2. QED
      BY <3>1
  <2>2. ASSUME NEW n \in A
        PROVE  n + 1 \in A
    <3>1. PICK g : Approx(g, n)
      BY <2>2
    <3> DEFINE h == [k \in 0 .. n + 1 |-> IF k = n + 1 THEN step[<<n, g[n]>>] ELSE g[k]]
    <3>2. n \in Nat /\ g[n] \in S
      BY <3>1
    <3>3. step[<<n, g[n]>>] \in S
      BY <3>2
    <3>4. h \in [0 .. n + 1 -> S]
      BY <3>1, <3>2, <3>3
    <3>5. h[0] = a
      BY <3>1, <3>2
    <3>6. ASSUME NEW k \in 0 .. (n + 1) - 1
          PROVE  h[k + 1] = step[<<k, h[k]>>]
      <4>1. h[k] = g[k]
        BY <3>2
      <4>2. CASE k = n
        <5>1. h[n + 1] = step[<<n, g[n]>>]
          BY <3>2
        <5> HIDE DEF h
        <5>2. QED
          BY <4>1, <4>2, <5>1
      <4>3. CASE k # n
        <5>1. k \in 0 .. n - 1 /\ h[k + 1] = g[k + 1]
          BY <3>2, <4>3
        <5>2. g[k + 1] = step[<<k, g[k]>>]
          BY <3>1, <5>1
        <5> HIDE DEF h
        <5>3. QED
          BY <4>1, <5>1, <5>2
      <4>4. QED
        BY <4>2, <4>3
    <3>7. Approx(h, n + 1)
      BY <3>4, <3>5, <3>6
    <3> HIDE DEF h, Approx
    <3>8. QED
      BY <3>2, <3>7
  <2>3. A = Nat
    <3> HIDE DEF A
    <3>1. A \in SUBSET Nat
      BY DEF A
    <3>2. QED
      BY <2>1, <2>2, <3>1, Induct
  <2>4. QED
    BY <2>3
<1>2. ASSUME NEW m \in Nat, NEW n \in Nat, NEW g, NEW h, Approx(g, m), Approx(h, n)
      PROVE  \A k \in Nat : k <= m /\ k <= n => g[k] = h[k]
  <2> DEFINE E == {k \in Nat : k <= m /\ k <= n => g[k] = h[k]}
  <2>1. 0 \in E
    BY <1>2
  <2>2. ASSUME NEW k \in E
        PROVE  k + 1 \in E
    <3>1. SUFFICES ASSUME k + 1 <= m, k + 1 <= n
                   PROVE  g[k + 1] = h[k + 1]
      BY <2>2
    <3>2. g[k] = h[k] /\ k \in 0 .. m - 1 /\ k \in 0 .. n - 1
      BY <2>2, <3>1
    <3>3. QED
      BY <1>2, <3>2
  <2>3. E = Nat
    <3> HIDE DEF E
    <3>1. E \in SUBSET Nat
      BY DEF E
    <3>2. QED
      BY <2>1, <2>2, <3>1, Induct
  <2>4. QED
    BY <2>3
<1> DEFINE G == [n \in Nat |-> (CHOOSE g : Approx(g, n))[n]]
<1>3. ASSUME NEW n \in Nat
      PROVE  Approx(CHOOSE g : Approx(g, n), n)
  BY <1>1
<1> HIDE DEF Approx
<1>4. ASSUME NEW n \in Nat, NEW g, Approx(g, n)
      PROVE  \A k \in 0 .. n : G[k] = g[k]
  <2> SUFFICES ASSUME NEW k \in 0 .. n
               PROVE  G[k] = g[k]
    OBVIOUS
  <2>1. Approx(CHOOSE f : Approx(f, k), k)
    BY <1>3
  <2>2. (CHOOSE f : Approx(f, k))[k] = g[k]
    BY <1>2, <1>4, <2>1
  <2>3. QED
    BY <2>2
<1>5. ASSUME NEW n \in Nat
      PROVE  G[n] \in S /\ G[n + 1] = step[<<n, G[n]>>]
  <2>1. PICK g : Approx(g, n + 1)
    BY <1>1
  <2>2. G[n] = g[n] /\ G[n + 1] = g[n + 1]
    BY <1>4, <2>1
  <2>3. g[n] \in S /\ g[n + 1] = step[<<n, g[n]>>]
    BY <2>1 DEF Approx
  <2>4. QED
    BY <2>2, <2>3
<1>6. G[0] = a
  <2>1. PICK g : Approx(g, 0)
    BY <1>1
  <2>2. G[0] = g[0]
    BY <1>4, <2>1
  <2>3. QED
    BY <2>1, <2>2 DEF Approx
<1>7. G \in [Nat -> S]
  BY <1>5
<1>8. QED
  BY <1>5, <1>6, <1>7 DEF IsRecursion

-----------------------------------------------------------------------------
(* Arithmetic of the grid.                                                 *)

\* How quotient and remainder go on from one number to the next.
LEMMA Wrap ==
  ASSUME NEW m \in {10, 12, 14, 20, 40}, NEW c \in Nat
  PROVE  /\ c % m \in 0 .. m - 1
         /\ c \div m \in Nat
         /\ (c + 1) % m = ((c % m) + 1) % m
         /\ ((c % m) + 1) % m = IF c % m = m - 1 THEN 0 ELSE (c % m) + 1
         /\ (c + 1) \div m = IF (c + 1) % m = 0 THEN (c \div m) + 1 ELSE c \div m
  OBVIOUS

LEMMA Powers == 2 ^ 0 = 1 /\ 2 ^ 1 = 2 /\ 2 ^ 2 = 4
  OBVIOUS

LEMMA GridNumbers ==
  /\ symbols_per_slot \in {12, 14}
  /\ slots_per_frame \in {10, 20, 40}
  /\ symbols_per_subframe \in Nat \ {0}
<1>1. numerology \in {0, 1, 2} /\ extended_prefix \in BOOLEAN
  BY GridAssumption
<1>2. 2 ^ numerology \in {1, 2, 4}
  BY <1>1, Powers
<1>3. QED
  BY <1>1, <1>2 DEF symbols_per_slot, slots_per_frame, slots_per_subframe, symbols_per_subframe

\* No symbol is empty, and none is longer than the first of a slot.
LEMMA SymbolLength ==
  ASSUME NEW l \in Nat
  PROVE  /\ samples_per_symbol(l) \in Nat \ {0}
         /\ samples_per_symbol(l) <= samples_per_symbol(0)
         /\ samples_per_cp(l) \in Nat \ {0}
  BY GridAssumption DEF samples_per_symbol, samples_per_cp, long_prefix

\* If the slot is the subframe, or all prefixes are equal, the index within the
\* slot and the one within the subframe have the same length.
LEMMA SameLength ==
  ASSUME SlotIsSubframe, NEW c \in Nat
  PROVE  samples_per_symbol(c % symbols_per_slot) = samples_per_symbol(c % symbols_per_subframe)
<1>1. CASE extended_prefix
  BY <1>1 DEF samples_per_symbol, samples_per_cp, long_prefix
<1>2. CASE ~extended_prefix
  <2>1. symbols_per_slot = 14 /\ 2 ^ numerology = 1
    BY <1>2, Powers DEF SlotIsSubframe, symbols_per_slot
  <2>2. symbols_per_subframe = symbols_per_slot
    BY <2>1 DEF symbols_per_subframe, slots_per_subframe
  <2>3. QED
    BY <2>2
<1>3. QED
  BY <1>1, <1>2, GridAssumption

\* The recursion by which the grid is defined.
LEMMA GridStep ==
  /\ GridStart \in [Nat -> Nat]
  /\ GridStart[0] = 0
  /\ \A k \in Nat :
       GridStart[k + 1] = GridStart[k] + samples_per_symbol(k % symbols_per_subframe)
<1> DEFINE length(k) == samples_per_symbol(k % symbols_per_subframe)
           step == [p \in Nat \X Nat |-> p[2] + length(p[1])]
<1>1. \A k \in Nat : length(k) \in Nat
  <2> SUFFICES ASSUME NEW k \in Nat
               PROVE  length(k) \in Nat
    OBVIOUS
  <2>1. k % symbols_per_subframe \in Nat
    BY GridNumbers
  <2>2. QED
    BY <2>1, SymbolLength
<1> HIDE DEF length
<1>2. step \in [Nat \X Nat -> Nat]
  BY <1>1
<1>3. \A k, n \in Nat : step[<<k, n>>] = n + length(k)
  OBVIOUS
<1> HIDE DEF step
<1>4. PICK g \in [Nat -> Nat] : IsRecursion(g, 0, step)
  <2>1. 0 \in Nat
    OBVIOUS
  <2>2. QED
    BY <1>2, <2>1, RecursiveNat
<1>5. g[0] = 0 /\ \A n \in Nat : g[n + 1] = g[n] + length(n)
  BY <1>3, <1>4 DEF IsRecursion
<1>6. g = [k \in Nat |-> IF k = 0 THEN 0 ELSE g[k - 1] + length(k - 1)]
  <2> SUFFICES ASSUME NEW k \in Nat
               PROVE  g[k] = IF k = 0 THEN 0 ELSE g[k - 1] + length(k - 1)
    BY <1>4
  <2>1. k # 0 => k - 1 \in Nat /\ (k - 1) + 1 = k
    OBVIOUS
  <2>2. QED
    BY <1>4, <1>5, <2>1
<1>7. GridStart = [k \in Nat |-> IF k = 0 THEN 0 ELSE GridStart[k - 1] + length(k - 1)]
  BY <1>6 DEF GridStart, length
<1>8. \A k \in Nat : GridStart[k] = IF k = 0 THEN 0 ELSE GridStart[k - 1] + length(k - 1)
  BY <1>7
<1>9. ASSUME NEW k \in Nat
      PROVE  GridStart[k + 1] = GridStart[k] + length(k)
  <2>1. k + 1 \in Nat /\ k + 1 # 0 /\ (k + 1) - 1 = k
    OBVIOUS
  <2>2. GridStart[k + 1] = GridStart[(k + 1) - 1] + length((k + 1) - 1)
    BY <1>8, <2>1
  <2>3. QED
    BY <2>1, <2>2
<1>10. GridStart[0] = 0
  BY <1>8
<1>11. GridStart \in [Nat -> Nat]
  <2> DEFINE A == {k \in Nat : GridStart[k] \in Nat}
  <2>1. 0 \in A
    BY <1>10
  <2>2. \A k \in A : k + 1 \in A
    BY <1>1, <1>9
  <2>3. A = Nat
    <3> HIDE DEF A
    <3>1. A \in SUBSET Nat
      BY DEF A
    <3>2. QED
      BY <2>1, <2>2, <3>1, Induct
  <2>4. \A k \in Nat : GridStart[k] \in Nat
    BY <2>3
  <2>5. QED
    BY <1>7, <2>4
<1>12. QED
  BY <1>9, <1>10, <1>11 DEF length

-----------------------------------------------------------------------------
(* Type correctness.  The loop never passes the end of the buffer.         *)

TypeInv == TypeOK /\ (pc = "loop" => symbol_ctr <= size)

LEMMA AppendElements ==
  ASSUME NEW S, NEW s \in Seq(S), NEW e \in S
  PROVE  /\ Append(s, e) \in Seq(S)
         /\ Len(Append(s, e)) = Len(s) + 1 /\ Len(s) \in Nat
         /\ \A j \in 1 .. Len(s) : Append(s, e)[j] = s[j]
         /\ Append(s, e)[Len(s) + 1] = e
  OBVIOUS

LEMMA TypeFacts ==
  ASSUME TypeOK
  PROVE  /\ base \in Int /\ size \in Nat /\ symbol_ctr \in Int
         /\ leftover.from \in Int /\ leftover.len \in Nat
         /\ symbol_index \in Nat /\ slot_index \in Nat /\ samples_processed \in Nat
         /\ samples_per_symbol(symbol_index) \in Nat \ {0}
         /\ samples_per_symbol(symbol_index) <= samples_per_symbol(0)
         /\ samples_per_symbol(0) \in Nat \ {0}
         /\ samples_per_cp(symbol_index) \in Nat
<1>1. symbol_index \in Nat /\ slot_index \in Nat
  BY GridNumbers DEF TypeOK
<1>2. /\ samples_per_symbol(symbol_index) \in Nat \ {0}
      /\ samples_per_symbol(symbol_index) <= samples_per_symbol(0)
      /\ samples_per_cp(symbol_index) \in Nat
      /\ samples_per_symbol(0) \in Nat \ {0}
  BY <1>1, SymbolLength
<1>3. leftover.from \in Int /\ leftover.len \in Nat
  BY <1>2 DEF TypeOK
<1>4. QED
  BY <1>1, <1>2, <1>3, OfdmAssumption DEF TypeOK

LEMMA NextNumbers ==
  ASSUME TypeOK
  PROVE  /\ next_symbol \in 0 .. symbols_per_slot - 1
         /\ next_slot \in 0 .. slots_per_frame - 1
<1>1. next_symbol \in 0 .. symbols_per_slot - 1
  BY GridNumbers DEF TypeOK, next_symbol
<1>2. next_slot \in 0 .. slots_per_frame - 1
  BY GridNumbers DEF TypeOK, next_slot
<1>3. QED
  BY <1>1, <1>2

LEMMA CutSymbolType ==
  ASSUME TypeOK
  PROVE  CutSymbol \in Symbols
<1>1. base + symbol_ctr - leftover.len \in Int
  BY TypeFacts
<1>2. (IF leftover.len > samples_per_cp(symbol_index) /\ leftover.from # base - leftover.len
       THEN leftover.len - samples_per_cp(symbol_index) ELSE 0) \in Nat
  BY TypeFacts
<1>3. QED
  BY <1>1, <1>2, TypeFacts DEF CutSymbol, Symbols

LEMMA InitType == Init => TypeInv
<1> SUFFICES ASSUME Init
             PROVE  TypeInv
  OBVIOUS
<1>1. samples_per_symbol(0) \in Nat
  BY SymbolLength
<1>2. leftover \in [from : Int, len : 0 .. samples_per_symbol(0)]
  BY <1>1 DEF Init
<1>3. QED
  BY <1>2, GridNumbers, OfdmAssumption DEF Init, TypeInv, TypeOK

LEMMA NextType == TypeInv /\ [Next]_vars => TypeInv'
<1> SUFFICES ASSUME TypeInv, [Next]_vars
             PROVE  TypeInv'
  OBVIOUS
<1> USE DEF TypeInv
<1>1. ASSUME NEW n \in BufferSizes, process(n)
      PROVE  TypeInv'
  <2>1. base' \in 0 .. MaxSamples /\ size' \in BufferSizes /\ 0 <= size'
    BY <1>1, TypeFacts, OfdmAssumption DEF process, TypeOK
  <2>2. QED
    BY <1>1, <2>1 DEF process, TypeOK
<1>2. CASE Demodulate
  <2>1. produced_symbols' \in Seq(Symbols)
    BY <1>2, CutSymbolType, AppendElements DEF Demodulate, TypeOK
  <2>2. symbol_ctr' \in Int /\ symbol_ctr' <= size'
    BY <1>2, TypeFacts DEF Demodulate, next_ctr, SymbolFits, buffer
  <2>3. leftover' \in [from : Int, len : 0 .. samples_per_symbol(0)]
    <3>1. 0 \in 0 .. samples_per_symbol(0)
      BY TypeFacts
    <3>2. leftover \in [from : Int, len : 0 .. samples_per_symbol(0)]
      BY DEF TypeOK
    <3>3. leftover' = [leftover EXCEPT !.len = 0]
      BY <1>2 DEF Demodulate
    <3> HIDE DEF TypeInv
    <3>4. QED
      BY ONLY <3>1, <3>2, <3>3
  <2>4. samples_processed' \in Nat
    <3>1. next_symbol \in Nat
      BY NextNumbers, GridNumbers
    <3>2. samples_per_symbol(next_symbol) \in Nat
      BY <3>1, SymbolLength
    <3>3. QED
      BY <1>2, <3>2, TypeFacts DEF Demodulate, next_processed
  <2>5. QED
    BY <1>2, <2>1, <2>2, <2>3, <2>4, NextNumbers DEF Demodulate, TypeOK, buffer
<1>3. CASE KeepLeftover
  <2>1. /\ size - symbol_ctr \in 0 .. samples_per_symbol(0)
        /\ base + symbol_ctr - 1 \in Int
    BY <1>3, TypeFacts DEF KeepLeftover, SymbolFits
  <2>2. leftover' \in [from : Int, len : 0 .. samples_per_symbol(0)]
    BY <1>3, <2>1 DEF KeepLeftover
  <2>3. QED
    BY <1>3, <2>2 DEF KeepLeftover, TypeOK, buffer
<1>4. CASE UNCHANGED vars
  BY <1>4 DEF vars, buffer, TypeOK
<1>5. QED
  BY <1>1, <1>2, <1>3, <1>4 DEF Next

\* The demodulator's variables keep their ranges for every grid and every sequence
\* of buffers; above all, what is left of a buffer is never of negative length.
THEOREM TypeCorrect == Spec => []TypeOK
<1>1. TypeInv => TypeOK
  BY DEF TypeInv
<1>2. QED
  BY <1>1, InitType, NextType, PTL DEF Spec

-----------------------------------------------------------------------------
(* The demodulator: the numbers of the symbols.                            *)

LEMMA NumbersGoOn ==
  ASSUME TypeOK, NumbersInv
  PROVE  /\ next_symbol = (count + 1) % symbols_per_slot
         /\ next_slot = ((count + 1) \div symbols_per_slot) % slots_per_frame
<1>1. count \in Nat
  BY DEF TypeOK
<1>2. /\ (count + 1) % symbols_per_slot = ((count % symbols_per_slot) + 1) % symbols_per_slot
      /\ (count + 1) \div symbols_per_slot
           = IF (count + 1) % symbols_per_slot = 0 THEN (count \div symbols_per_slot) + 1
             ELSE count \div symbols_per_slot
      /\ count \div symbols_per_slot \in Nat
  <2>1. symbols_per_slot \in {10, 12, 14, 20, 40}
    BY GridNumbers
  <2>2. QED
    BY <1>1, <2>1, Wrap
<1>3. ((count \div symbols_per_slot) + 1) % slots_per_frame
        = (((count \div symbols_per_slot) % slots_per_frame) + 1) % slots_per_frame
  BY <1>2, GridNumbers, Wrap
<1>4. QED
  BY <1>2, <1>3 DEF NumbersInv, next_symbol, next_slot

LEMMA InitNumbers == Init => NumbersInv
  BY GridNumbers DEF Init, NumbersInv, Batch

\* The batch after one more symbol.
LEMMA BatchGrows ==
  ASSUME TypeOK, Demodulate
  PROVE  /\ Batch' = Batch + 1 /\ Batch \in Nat
         /\ \A j \in 1 .. Batch : produced_symbols'[j] = produced_symbols[j]
         /\ produced_symbols'[Batch + 1] = CutSymbol
         /\ count' = count + 1 /\ count \in Nat
  BY CutSymbolType, AppendElements DEF Demodulate, Batch, TypeOK

LEMMA NextNumbersInv ==
  ASSUME TypeOK, NumbersInv, [Next]_vars
  PROVE  NumbersInv'
<1>1. ASSUME NEW n \in BufferSizes, process(n)
      PROVE  NumbersInv'
  BY <1>1 DEF process, NumbersInv, Batch, TypeOK
<1>2. CASE Demodulate
  <2>1. IsNumbered(CutSymbol, count)
    BY DEF CutSymbol, IsNumbered, NumbersInv
  <2>2. ASSUME NEW j \in 1 .. Batch'
        PROVE  IsNumbered(produced_symbols'[j], count' - Batch' + j - 1)
    <3>1. count' - Batch' + j - 1 = count - Batch + j - 1
      BY <1>2, BatchGrows
    <3>2. CASE j \in 1 .. Batch
      BY <1>2, <3>1, <3>2, BatchGrows DEF NumbersInv
    <3>3. CASE j = Batch + 1
      <4>1. count - Batch + j - 1 = count
        BY <1>2, <3>3, BatchGrows
      <4>2. QED
        BY <1>2, <2>1, <3>1, <3>3, <4>1, BatchGrows
    <3>4. QED
      BY <1>2, <3>2, <3>3, BatchGrows
  <2>3. Batch' <= count'
    BY <1>2, BatchGrows DEF NumbersInv
  <2>4. /\ symbol_index' = count' % symbols_per_slot
        /\ slot_index' = (count' \div symbols_per_slot) % slots_per_frame
    BY <1>2, NumbersGoOn, BatchGrows DEF Demodulate
  <2>5. QED
    BY <2>2, <2>3, <2>4 DEF NumbersInv, IsNumbered
<1>3. CASE KeepLeftover
  BY <1>3 DEF KeepLeftover, NumbersInv, Batch
<1>4. CASE UNCHANGED vars
  BY <1>4 DEF vars, NumbersInv, Batch
<1>5. QED
  BY <1>1, <1>2, <1>3, <1>4 DEF Next

LEMMA NumbersProperty ==
  ASSUME TypeOK, NumbersInv
  PROVE  NumbersOnGrid
<1> SUFFICES ASSUME produced_symbols # <<>>
             PROVE  IsNumbered(Last, count - 1)
  BY DEF NumbersOnGrid, IsNumbered
<1>1. Batch \in Nat \ {0} /\ count \in Nat
  BY DEF Batch, TypeOK
<1>2. IsNumbered(produced_symbols[Batch], count - Batch + Batch - 1)
  BY <1>1 DEF NumbersInv
<1>3. count - Batch + Batch - 1 = count - 1
  BY <1>1
<1>4. QED
  BY <1>2, <1>3 DEF Last, Batch

\* For every grid and every sequence of buffers, each symbol carries the symbol and
\* slot number of its place in the stream.
THEOREM SymbolsNumbered == Spec => []NumbersOnGrid
<1>1. TypeInv => TypeOK
  BY DEF TypeInv
<1>2. Init => TypeInv /\ NumbersInv
  BY InitType, InitNumbers
<1>3. TypeInv /\ NumbersInv /\ [Next]_vars => TypeInv' /\ NumbersInv'
  BY <1>1, NextType, NextNumbersInv
<1>4. TypeInv /\ NumbersInv => NumbersOnGrid
  BY <1>1, NumbersProperty
<1>5. QED
  BY <1>2, <1>3, <1>4, PTL DEF Spec

-----------------------------------------------------------------------------
(* The demodulator: symbols on the grid.                                   *)

LEMMA InitSamples == Init => SamplesInv
  BY GridStep, SymbolLength DEF Init, SamplesInv, Cut, SymbolsOnGrid

LEMMA NextSamples ==
  ASSUME SlotIsSubframe, LeftoverContinued, TypeInv, NumbersInv, SamplesInv, [Next]_vars
  PROVE  SamplesInv'
<1>0. TypeOK /\ count \in Nat
  BY DEF TypeInv, TypeOK
<1>1. ASSUME NEW n \in BufferSizes, process(n)
      PROVE  SamplesInv'
  <2>1. Cut' = Cut
    BY <1>0, <1>1, TypeFacts, OfdmAssumption DEF process, Cut
  <2>2. n \in Nat
    BY OfdmAssumption
  <2>3. QED
    BY <1>0, <1>1, <2>1, <2>2 DEF process, SamplesInv, SymbolsOnGrid
<1>2. CASE Demodulate
  <2>0. /\ pc = "loop" /\ pc' = "loop" /\ base' = base /\ size' = size /\ leftover'.len = 0
        /\ symbol_ctr' = symbol_ctr - leftover.len + samples_per_symbol(symbol_index)
        /\ count' = count + 1 /\ symbol_ctr \in Nat
    BY <1>0, <1>2 DEF Demodulate, next_ctr, SamplesInv, TypeOK, buffer
  <2>1. Cut = base + symbol_ctr - leftover.len
    BY <2>0 DEF Cut
  <2>2. Cut' = Cut + samples_per_symbol(symbol_index)
    BY <1>0, <2>0, <2>1, TypeFacts DEF Cut
  <2>3. GridStart[count + 1] = GridStart[count] + samples_per_symbol(symbol_index)
    BY <1>0, GridStep, SameLength DEF NumbersInv
  <2>4. Cut' = GridStart[count']
    BY <1>0, <2>0, <2>2, <2>3 DEF SamplesInv
  <2>5. symbol_ctr' \in 0 .. size'
    <3>1. leftover.len < samples_per_symbol(symbol_index)
      BY DEF SamplesInv
    <3>2. size - symbol_ctr >= samples_per_symbol(symbol_index)
      BY <1>2 DEF Demodulate, SymbolFits
    <3>3. QED
      BY <1>0, <2>0, <3>1, <3>2, TypeFacts
  <2>6. samples_per_symbol(symbol_index') \in Nat \ {0}
    BY <1>0, <1>2, NextNumbers, GridNumbers, SymbolLength DEF Demodulate
  <2>7. SymbolsOnGrid'
    <3>1. Last' = CutSymbol
      BY <1>0, <1>2, BatchGrows DEF Last, Batch
    <3>2. count' - 1 = count
      BY <1>0, <2>0
    <3>3. CutSymbol.start = GridStart[count]
      BY <2>1 DEF CutSymbol, SamplesInv
    <3>4. QED
      BY <3>1, <3>2, <3>3 DEF SymbolsOnGrid
  <2>8. QED
    BY <1>0, <2>0, <2>4, <2>5, <2>6, <2>7 DEF SamplesInv
<1>3. CASE KeepLeftover
  <2>1. /\ pc = "loop" /\ pc' = "idle" /\ base' = base /\ size' = size
        /\ leftover'.len = size - symbol_ctr
        /\ UNCHANGED <<symbol_ctr, symbol_index, slot_index, produced_symbols, count>>
    BY <1>3 DEF KeepLeftover, buffer
  <2>2. leftover.len = 0
    <3>1. leftover.len > 0 => symbol_ctr = 0 /\ samples_per_symbol(symbol_index) <= size
      BY <1>0, <2>1 DEF LeftoverContinued, SamplesInv
    <3>2. QED
      BY <1>0, <1>3, <3>1, TypeFacts DEF KeepLeftover, SymbolFits
  <2>3. Cut' = Cut
    BY <1>0, <2>1, <2>2, TypeFacts DEF Cut
  <2>4. leftover'.len < samples_per_symbol(symbol_index)
    BY <1>0, <1>3, <2>1, TypeFacts DEF KeepLeftover, SymbolFits
  <2>5. SymbolsOnGrid'
    BY <2>1 DEF SymbolsOnGrid, Last, SamplesInv
  <2>6. QED
    BY <1>0, <2>1, <2>3, <2>4, <2>5 DEF SamplesInv
<1>4. CASE UNCHANGED vars
  BY <1>4 DEF vars, buffer, SamplesInv, Cut, SymbolsOnGrid, Last
<1>5. QED
  BY <1>1, <1>2, <1>3, <1>4 DEF Next

GridInv == TypeInv /\ NumbersInv /\ SamplesInv

LEMMA GridInductive ==
  ASSUME SlotIsSubframe
  PROVE  Spec /\ []LeftoverContinued => []GridInv
<1>1. Init => GridInv
  BY InitType, InitNumbers, InitSamples DEF GridInv
<1>2. GridInv /\ LeftoverContinued /\ [Next]_vars => GridInv'
  BY NextType, NextNumbersInv, NextSamples DEF GridInv, TypeInv
<1>3. QED
  BY <1>1, <1>2, PTL DEF Spec

\* However the stream is divided into buffers, every symbol is cut where the grid
\* of the bandwidth part has it, for every length of the symbols and the prefixes
\* and every bound on the stream, as long as a buffer that continues a symbol is
\* not shorter than one.
THEOREM SymbolsCutOnGrid ==
  ASSUME SlotIsSubframe
  PROVE  Spec /\ []LeftoverContinued => []SymbolsOnGrid
<1>1. GridInv => SymbolsOnGrid
  BY DEF GridInv, SamplesInv
<1>2. QED
  BY <1>1, GridInductive, PTL

\* Under the same condition less than a symbol is left over between two buffers,
\* and nothing between it and the last symbol.
THEOREM NothingLeftOut ==
  ASSUME SlotIsSubframe
  PROVE  Spec /\ []LeftoverContinued => []LessThanSymbolLeft
<1>1. GridInv => LessThanSymbolLeft
  BY DEF GridInv, SamplesInv, Cut, LessThanSymbolLeft
<1>2. QED
  BY <1>1, GridInductive, PTL

-----------------------------------------------------------------------------
(* The slots of a batch in ascending order.                                *)

IsAscending(s, S) ==
  /\ s \in [1 .. Cardinality(S) -> S]
  /\ \A j, k \in DOMAIN s : j < k => s[j] < s[k]

\* A finite set of numbers can be put in ascending order: its largest possible
\* element, if it is one, goes to the end of the rest.
LEMMA AscendingExists ==
  ASSUME NEW m \in Nat, NEW S \in SUBSET (0 .. m - 1)
  PROVE  \E s : IsAscending(s, S)
<1> DEFINE A == {n \in Nat : \A T \in SUBSET (0 .. n - 1) : \E s : IsAscending(s, T)}
<1>1. 0 \in A
  <2> SUFFICES ASSUME NEW T \in SUBSET (0 .. 0 - 1)
               PROVE  \E s : IsAscending(s, T)
    OBVIOUS
  <2>0. 0 .. 0 - 1 = {}
    OBVIOUS
  <2>1. T = {} /\ Cardinality(T) = 0
    BY <2>0, FS_EmptySet
  <2>2. IsAscending([k \in {} |-> 0], T)
    BY <2>1 DEF IsAscending
  <2>3. QED
    BY <2>2
<1>2. ASSUME NEW n \in A
      PROVE  n + 1 \in A
  <2> SUFFICES ASSUME NEW T \in SUBSET (0 .. (n + 1) - 1)
               PROVE  \E s : IsAscending(s, T)
    BY <1>2
  <2>0. n \in Nat /\ IsFiniteSet(T)
    <3>1. n \in Nat
      BY <1>2
    <3>2. \A t \in T : t \in Nat /\ t <= n
      BY <3>1
    <3>3. T \in SUBSET Nat
      BY <3>2
    <3>4. QED
      BY <3>1, <3>2, <3>3, FS_BoundedSetOfNaturals
  <2>1. CASE n \notin T
    <3>1. T \in SUBSET (0 .. n - 1)
      BY <2>0, <2>1
    <3>2. QED
      BY <1>2, <3>1
  <2>2. CASE n \in T
    <3> DEFINE U == T \ {n}
               c == Cardinality(U)
    <3>1. U \in SUBSET (0 .. n - 1)
      BY <2>0
    <3>2. PICK s : IsAscending(s, U)
      BY <1>2, <3>1
    <3>3. Cardinality(T) = c + 1 /\ c \in Nat
      <4>1. Cardinality(T) \in Nat
        BY <2>0, FS_CardinalityType
      <4>2. IsFiniteSet(U) /\ Cardinality(U) = Cardinality(T) - 1
        BY <2>0, <2>2, FS_RemoveElement
      <4>3. Cardinality(U) \in Nat
        BY <4>2, FS_CardinalityType
      <4>4. QED
        BY <4>1, <4>2, <4>3
    <3> HIDE DEF c
    <3> DEFINE t == [k \in 1 .. c + 1 |-> IF k = c + 1 THEN n ELSE s[k]]
    <3>4. s \in [1 .. c -> U] /\ \A j, k \in 1 .. c : j < k => s[j] < s[k]
      BY <3>2 DEF IsAscending, c
    <3>5. ASSUME NEW k \in 1 .. c
          PROVE  s[k] \in T /\ s[k] < n /\ t[k] = s[k]
      <4>1. s[k] \in U
        BY <3>4
      <4>2. s[k] \in T /\ s[k] \in 0 .. n - 1
        BY <3>1, <4>1
      <4>3. k \in 1 .. c + 1 /\ k # c + 1
        BY <3>3
      <4>4. t[k] = s[k]
        BY <4>3
      <4>5. QED
        BY <2>0, <4>2, <4>4
    <3>6. t[c + 1] = n
      BY <3>3
    <3>7. \A k \in 1 .. c + 1 : k \in 1 .. c \/ k = c + 1
      BY <3>3
    <3>8. DOMAIN t = 1 .. c + 1
      OBVIOUS
    <3>9. t \in [1 .. c + 1 -> T]
      BY <2>2, <3>5, <3>6, <3>7
    <3> HIDE DEF t
    <3>10. ASSUME NEW j \in 1 .. c + 1, NEW k \in 1 .. c + 1, j < k
           PROVE  t[j] < t[k]
      <4>1. j \in 1 .. c
        BY <3>3, <3>10
      <4>2. QED
        BY <3>4, <3>5, <3>6, <3>7, <3>10, <4>1
    <3>11. IsAscending(t, T)
      BY <3>3, <3>8, <3>9, <3>10 DEF IsAscending
    <3>12. QED
      BY <3>11
  <2>3. QED
    BY <2>1, <2>2
<1>3. A = Nat
  <2> HIDE DEF A
  <2>1. A \in SUBSET Nat
    BY DEF A
  <2>2. QED
    BY <1>1, <1>2, <2>1, Induct
<1>4. QED
  BY <1>3

\* The order has every element of the set.
LEMMA AscendingFacts ==
  ASSUME NEW m \in Nat, NEW S \in SUBSET (0 .. m - 1)
  PROVE  /\ IsAscending(Ascending(S), S)
         /\ Ascending(S) \in Seq(S)
         /\ \A x \in S : \E k \in DOMAIN Ascending(S) : Ascending(S)[k] = x
<1> DEFINE s == Ascending(S)
           n == Cardinality(S)
<1>0. IsFiniteSet(S) /\ n \in Nat
  <2>1. S \in SUBSET Nat /\ \A x \in S : x <= m
    OBVIOUS
  <2>2. IsFiniteSet(S)
    BY <2>1, FS_BoundedSetOfNaturals
  <2>3. QED
    BY <2>2, FS_CardinalityType
<1>1. IsAscending(s, S)
  <2>1. \E f : IsAscending(f, S)
    BY AscendingExists
  <2>2. \E f \in [1 .. Cardinality(S) -> S] : \A j, k \in DOMAIN f : j < k => f[j] < f[k]
    BY <2>1 DEF IsAscending
  <2>3. QED
    BY <2>2 DEF Ascending, IsAscending
<1> HIDE DEF s, n
<1>2. s \in [1 .. n -> S] /\ \A j, k \in 1 .. n : j < k => s[j] < s[k]
  BY <1>1 DEF IsAscending, n
<1>3. s \in Injection(1 .. n, S)
  <2>1. \A x \in S : x \in Int
    OBVIOUS
  <2>2. ASSUME NEW j \in 1 .. n, NEW k \in 1 .. n, s[j] = s[k], j # k
        PROVE  FALSE
    <3>1. s[j] \in Int /\ s[k] \in Int
      BY <1>2, <2>1
    <3>2. j < k \/ k < j
      BY <1>0, <2>2
    <3>3. s[j] < s[k] \/ s[k] < s[j]
      BY <1>2, <3>2
    <3>4. QED
      BY <2>2, <3>1, <3>3
  <2>3. QED
    BY <1>2, <2>2 DEF Injection, IsInjective
<1>4. IsFiniteSet(1 .. n) /\ Cardinality(1 .. n) = n
  BY <1>0, FS_Interval
<1>5. s \in Surjection(1 .. n, S)
  BY <1>0, <1>3, <1>4, FS_Injection DEF n
<1>6. \A x \in S : \E k \in 1 .. n : s[k] = x
  BY <1>5 DEF Surjection
<1>7. s \in Seq(S)
  BY <1>0, <1>2
<1>8. DOMAIN s = 1 .. n
  BY <1>2
<1>9. QED
  BY <1>1, <1>6, <1>7, <1>8 DEF s

-----------------------------------------------------------------------------
(* The mapper.                                                             *)

\* The mapper never disturbs the demodulator, so that what holds of it holds here.
THEOREM MapperKeepsOfdm == MapperSpec => Spec
<1>1. MapperInit => Init
  BY DEF MapperInit
<1>2. [MapperNext]_mapperVars => [Next]_vars
  BY DEF MapperNext, Demodulation, Map, Next, mapperVars
<1>3. QED
  BY <1>1, <1>2, PTL DEF MapperSpec, Spec

LEMMA CoresetNumbers ==
  /\ symbols_per_slot \in {12, 14}
  /\ coreset_ofdm_symbol_start \in 0 .. symbols_per_slot - 3
  /\ \A d \in Durations : d \in {1, 2, 3}
  BY GridNumbers, CoresetAssumption

\* Where the CORESET of a slot starts, and in which slot a symbol is.
LEMMA SlotArithmetic ==
  /\ \A slot \in Nat : /\ CoresetStart(slot) \in Nat /\ slot <= CoresetStart(slot)
                       /\ CoresetStart(slot) % symbols_per_slot = coreset_ofdm_symbol_start
                       /\ CoresetStart(slot) \div symbols_per_slot = slot
  /\ \A k \in Nat : /\ k \div symbols_per_slot \in Nat
                    /\ k \div symbols_per_slot <= k
                    /\ k % symbols_per_slot = coreset_ofdm_symbol_start
                         => CoresetStart(k \div symbols_per_slot) = k
  /\ \A a, b \in Nat : CoresetStart(a) < CoresetStart(b) => a < b
<1>1. CASE symbols_per_slot = 12
  BY <1>1, CoresetNumbers DEF CoresetStart
<1>2. CASE symbols_per_slot = 14
  BY <1>2, CoresetNumbers DEF CoresetStart
<1>3. QED
  BY <1>1, <1>2, CoresetNumbers

\* The slots the mapper finds in the batch are those whose CORESET is within it.
LEMMA SlotsAreWithin ==
  ASSUME TypeOK, NumbersInv, coreset_duration \in Durations
  PROVE  /\ Slots \in SUBSET (0 .. count - 1)
         /\ \A slot \in Nat : slot \in Slots <=> Within(slot, count - Batch, count)
<1>0. /\ Batch \in Nat /\ count \in Nat /\ Batch <= count
      /\ coreset_duration \in {1, 2, 3}
  BY CoresetNumbers DEF TypeOK, NumbersInv, Batch
<1>1. ASSUME NEW x \in Slots
      PROVE  x \in Nat /\ Within(x, count - Batch, count)
  <2>1. PICK idx \in CoresetStarts : x = (count - Batch + idx - 1) \div symbols_per_slot
    BY DEF Slots
  <2> DEFINE k == count - Batch + idx - 1
  <2>2. /\ idx \in 1 .. Batch - (coreset_duration - 1)
        /\ produced_symbols[idx].symbol_index = coreset_ofdm_symbol_start
    BY DEF CoresetStarts
  <2>3. idx \in 1 .. Batch /\ k \in Nat /\ count - Batch <= k /\ k + coreset_duration <= count
    BY <1>0, <2>2
  <2>4. k % symbols_per_slot = coreset_ofdm_symbol_start
    BY <2>2, <2>3 DEF NumbersInv, IsNumbered
  <2> HIDE DEF k
  <2>5. x = k \div symbols_per_slot
    BY <2>1 DEF k
  <2>6. x \in Nat /\ CoresetStart(x) = k
    BY <2>3, <2>4, <2>5, SlotArithmetic
  <2>7. QED
    BY <2>3, <2>6 DEF Within
<1>2. ASSUME NEW slot \in Nat, Within(slot, count - Batch, count)
      PROVE  slot \in Slots
  <2> DEFINE k == CoresetStart(slot)
             idx == k - (count - Batch) + 1
  <2>1. k \in Nat /\ count - Batch <= k /\ k + coreset_duration <= count
    BY <1>2, SlotArithmetic DEF Within
  <2>2. k % symbols_per_slot = coreset_ofdm_symbol_start /\ k \div symbols_per_slot = slot
    BY SlotArithmetic
  <2> HIDE DEF k
  <2>3. /\ idx \in 1 .. Batch - (coreset_duration - 1) /\ idx \in 1 .. Batch
        /\ count - Batch + idx - 1 = k
    BY <1>0, <2>1
  <2> HIDE DEF idx
  <2>4. produced_symbols[idx].symbol_index = coreset_ofdm_symbol_start
    BY <2>2, <2>3 DEF NumbersInv, IsNumbered
  <2>5. idx \in CoresetStarts
    BY <2>3, <2>4 DEF CoresetStarts
  <2>6. slot = (count - Batch + idx - 1) \div symbols_per_slot
    BY <2>2, <2>3
  <2>7. QED
    BY <2>5, <2>6 DEF Slots
<1>3. ASSUME NEW x \in Slots
      PROVE  x \in 0 .. count - 1
  <2>1. x \in Nat /\ x <= CoresetStart(x) /\ CoresetStart(x) \in Nat
        /\ CoresetStart(x) + coreset_duration <= count
    BY <1>1, SlotArithmetic DEF Within
  <2>2. QED
    BY <1>0, <2>1
<1>4. QED
  BY <1>1, <1>2, <1>3

LEMMA InitMapper == MapperInit => MapperInv
<1> SUFFICES ASSUME MapperInit
             PROVE  MapperInv
  OBVIOUS
<1> USE DEF MapperInit
<1>1. TypeInv /\ NumbersInv /\ Init
  BY InitType, InitNumbers
<1>2. /\ count = 0 /\ Batch = 0 /\ passed = <<>> /\ pc = "idle" /\ mapper = "ok" /\ latest = -1
      /\ coreset_duration \in Durations
  BY DEF Init, Batch
<1>3. MapperTypeOK
  BY <1>1, <1>2 DEF MapperTypeOK, TypeInv
<1>4. \A slot \in 0 .. count : ~Within(slot, count - Batch, count)
  <2>1. CoresetStart(0) \in Nat /\ coreset_duration \in {1, 2, 3}
    BY <1>2, SlotArithmetic, CoresetNumbers
  <2>2. ~(CoresetStart(0) + coreset_duration <= 0)
    BY <2>1
  <2>3. QED
    BY <1>2, <2>2 DEF Within
<1>5. PassedInv
  BY <1>2, <1>4 DEF PassedInv
<1>6. FirstInv /\ ThrowsOnlyOnTinyBuffer
  BY <1>2 DEF FirstInv, ThrowsOnlyOnTinyBuffer
<1>7. QED
  BY <1>1, <1>3, <1>5, <1>6 DEF MapperInv, TypeInv

\* The first symbol of a buffer ends at most a symbol after its start.
LEMMA NextFirst ==
  ASSUME TypeInv, FirstInv, [Next]_vars
  PROVE  FirstInv'
<1>0. TypeOK
  BY DEF TypeInv
<1>1. ASSUME NEW n \in BufferSizes, process(n)
      PROVE  FirstInv'
  BY <1>1 DEF process, FirstInv, Batch
<1>2. CASE Demodulate
  <2>1. pc = "loop" /\ symbol_ctr' = symbol_ctr - leftover.len + samples_per_symbol(symbol_index)
    BY <1>2 DEF Demodulate, next_ctr
  <2>2. Batch = 0 => symbol_ctr' <= samples_per_symbol(0)
    BY <1>0, <2>1, TypeFacts DEF FirstInv
  <2>3. QED
    BY <1>0, <1>2, <2>2, BatchGrows DEF FirstInv
<1>3. CASE KeepLeftover
  BY <1>3 DEF KeepLeftover, FirstInv
<1>4. CASE UNCHANGED vars
  BY <1>4 DEF vars, FirstInv, Batch, buffer
<1>5. QED
  BY <1>1, <1>2, <1>3, <1>4 DEF Next

LEMMA NextThrows ==
  ASSUME MapperInv, [MapperNext]_mapperVars
  PROVE  ThrowsOnlyOnTinyBuffer'
<1>0. /\ TypeOK /\ FirstInv /\ ThrowsOnlyOnTinyBuffer
      /\ coreset_duration \in {1, 2, 3}
  BY CoresetNumbers DEF MapperInv, MapperTypeOK
<1>1. CASE Demodulation
  BY <1>1 DEF Demodulation, ThrowsOnlyOnTinyBuffer
<1>2. CASE Map
  <2>1. CASE Batch > 0 /\ BoundUnderflows
    <3>1. coreset_duration = 3 /\ Batch = 1
      <4>1. Batch \in Nat
        BY <1>0 DEF Batch, TypeOK
      <4>2. Batch > 0 /\ Batch < coreset_duration - 1
        BY <2>1 DEF BoundUnderflows
      <4>3. QED
        BY <1>0, <4>1, <4>2
    <3>2. size < symbol_ctr + samples_per_symbol(symbol_index) /\ size' = size /\ pc = "loop"
      BY <1>0, <1>2, TypeFacts DEF Map, KeepLeftover, SymbolFits, buffer
    <3>3. symbol_ctr <= samples_per_symbol(0)
      BY <1>0, <3>1, <3>2 DEF FirstInv
    <3>4. size < 2 * samples_per_symbol(0)
      BY <1>0, <3>2, <3>3, TypeFacts
    <3>5. QED
      BY <1>2, <3>1, <3>2, <3>4 DEF Map, ThrowsOnlyOnTinyBuffer
  <2>2. CASE ~(Batch > 0 /\ BoundUnderflows)
    BY <1>2, <2>2 DEF Map, ThrowsOnlyOnTinyBuffer
  <2>3. QED
    BY <2>1, <2>2
<1>3. CASE UNCHANGED mapperVars
  BY <1>0, <1>3 DEF mapperVars, vars, buffer, ThrowsOnlyOnTinyBuffer
<1>4. QED
  BY <1>1, <1>2, <1>3 DEF MapperNext

LEMMA WithinBound ==
  ASSUME coreset_duration \in {1, 2, 3}, NEW slot \in Nat, NEW a \in Int, NEW b \in Int,
         Within(slot, a, b)
  PROVE  slot < b
<1>1. slot <= CoresetStart(slot) /\ CoresetStart(slot) \in Nat
  BY SlotArithmetic
<1>2. QED
  BY <1>1 DEF Within

\* The slot passed on last before the end of a batch.
LEMMA NextLatest ==
  ASSUME MapperInv, Map
  PROVE  /\ latest' \in -1 .. count
         /\ latest' >= 0 => Within(latest', 0, count - Batch)
<1>0. /\ PassedInv /\ coreset_duration \in {1, 2, 3}
      /\ passed \in Seq(Nat) /\ latest \in -1 .. count
      /\ Batch \in Nat /\ count \in Nat /\ Batch <= count
  BY CoresetNumbers DEF MapperInv, MapperTypeOK, TypeOK, NumbersInv, Batch
<1>1. /\ mapper = "ok" /\ pc = "loop"
      /\ latest' = (IF passed = <<>> THEN latest ELSE passed[Len(passed)])
  BY DEF Map, KeepLeftover
<1>2. CASE passed # <<>>
  <2>1. Len(passed) \in DOMAIN passed /\ latest' = passed[Len(passed)] /\ latest' \in Nat
    BY <1>0, <1>1, <1>2
  <2>2. Within(latest', 0, count - Batch)
    BY <1>0, <1>1, <2>1 DEF PassedInv
  <2>3. latest' < count - Batch
    <3>1. 0 \in Int /\ count - Batch \in Int
      BY <1>0
    <3>2. QED
      BY <1>0, <2>1, <2>2, <3>1, WithinBound
  <2>4. QED
    BY <1>0, <2>1, <2>2, <2>3
<1>3. CASE passed = <<>>
  BY <1>0, <1>1, <1>3 DEF PassedInv
<1>4. QED
  BY <1>2, <1>3

LEMMA NextPassed ==
  ASSUME MapperInv, [MapperNext]_mapperVars
  PROVE  /\ PassedInv'
         /\ passed' \in Seq(Nat) /\ latest' \in -1 .. count'
<1>0. /\ TypeOK /\ NumbersInv /\ PassedInv
      /\ coreset_duration \in Durations /\ coreset_duration \in {1, 2, 3}
      /\ passed \in Seq(Nat) /\ latest \in -1 .. count
      /\ Batch \in Nat /\ count \in Nat /\ Batch <= count
      /\ \A k \in DOMAIN passed : passed[k] \in Nat
  BY CoresetNumbers DEF MapperInv, MapperTypeOK, TypeOK, NumbersInv, Batch
<1>1. ASSUME NEW n \in BufferSizes, process(n), Demodulation
      PROVE  /\ PassedInv'
             /\ passed' \in Seq(Nat) /\ latest' \in -1 .. count'
  <2>1. /\ pc = "idle" /\ pc' = "loop" /\ count' = count /\ Batch' = 0
        /\ UNCHANGED <<coreset_duration, mapper, passed, latest>>
    BY <1>1 DEF process, Demodulation, Batch
  <2>2. mapper = "ok" => \A k \in DOMAIN passed :
          0 <= CoresetStart(passed[k]) /\ CoresetStart(passed[k]) + coreset_duration <= count
    BY <1>0, <2>1, SlotArithmetic DEF PassedInv, Within
  <2>3. mapper = "ok" /\ latest >= 0 =>
          0 <= CoresetStart(latest) /\ CoresetStart(latest) + coreset_duration <= count
    <3> SUFFICES ASSUME mapper = "ok", latest >= 0
                 PROVE  0 <= CoresetStart(latest) /\ CoresetStart(latest) + coreset_duration <= count
      OBVIOUS
    <3>0. latest \in Nat
      BY <1>0
    <3>1. CoresetStart(latest) \in Nat
      BY <3>0, SlotArithmetic
    <3>2. CoresetStart(latest) + coreset_duration <= count - Batch
      BY <1>0 DEF PassedInv, Within
    <3>3. QED
      BY <1>0, <3>1, <3>2
  <2>4. PassedInv'
    BY <1>0, <2>1, <2>2, <2>3 DEF PassedInv, Within
  <2>5. QED
    BY <1>0, <2>1, <2>4
<1>2. CASE Demodulate /\ Demodulation
  <2>1. /\ pc = "loop" /\ pc' = "loop" /\ count' = count + 1 /\ Batch' = Batch + 1
        /\ UNCHANGED <<coreset_duration, mapper, passed, latest>>
    BY <1>0, <1>2, BatchGrows DEF Demodulate, Demodulation
  <2>2. count' - Batch' = count - Batch
    BY <1>0, <2>1
  <2>3. PassedInv'
    BY <1>0, <2>1, <2>2 DEF PassedInv, Within
  <2>4. QED
    BY <1>0, <2>1, <2>3
<1>3. CASE Map /\ Batch > 0 /\ BoundUnderflows
  <2>1. mapper' = "exception" /\ passed' = <<>> /\ count' = count
    BY <1>3 DEF Map, KeepLeftover
  <2>2. QED
    BY <1>3, <2>1, NextLatest DEF PassedInv
<1>4. CASE Map /\ ~(Batch > 0 /\ BoundUnderflows)
  <2>1. /\ pc' = "idle" /\ passed' = Ascending(Slots) /\ count' = count /\ Batch' = Batch
        /\ coreset_duration' = coreset_duration
    BY <1>4 DEF Map, KeepLeftover, Batch
  <2>2. /\ Slots \in SUBSET (0 .. count - 1)
        /\ \A slot \in Nat : slot \in Slots <=> Within(slot, count - Batch, count)
    BY <1>0, SlotsAreWithin
  <2>3. /\ IsAscending(passed', Slots)
        /\ passed' \in Seq(Slots)
        /\ \A x \in Slots : \E k \in DOMAIN passed' : passed'[k] = x
    BY <1>0, <2>1, <2>2, AscendingFacts
  <2>4. \A x \in Slots : x \in Nat
    BY <2>2
  <2>5. \A k \in DOMAIN passed' : passed'[k] \in Slots
    BY <2>3
  <2>6. passed' \in Seq(Nat)
    BY <2>3, <2>4
  <2>7. \A j, k \in DOMAIN passed' : j < k => passed'[j] < passed'[k]
    BY <2>3 DEF IsAscending
  <2>8. \A k \in DOMAIN passed' : Within(passed'[k], count - Batch, count)
    BY <2>2, <2>4, <2>5
  <2>9. \A slot \in 0 .. count :
          Within(slot, count - Batch, count) => \E k \in DOMAIN passed' : passed'[k] = slot
    BY <1>0, <2>2, <2>3
  <2>10. latest' >= 0 => Within(latest', 0, count - Batch)
    BY <1>4, NextLatest
  <2>11. PassedInv'
    BY <2>1, <2>7, <2>8, <2>9, <2>10 DEF PassedInv, Within
  <2>12. QED
    BY <1>4, <2>1, <2>6, <2>11, NextLatest
<1>5. CASE UNCHANGED mapperVars
  BY <1>0, <1>5 DEF mapperVars, vars, PassedInv, Within, Batch
<1>6. QED
  BY <1>1, <1>2, <1>3, <1>4, <1>5 DEF MapperNext, Demodulation

LEMMA NextMapper == MapperInv /\ [MapperNext]_mapperVars => MapperInv'
<1> SUFFICES ASSUME MapperInv, [MapperNext]_mapperVars
             PROVE  MapperInv'
  OBVIOUS
<1>1. [Next]_vars
  BY DEF MapperNext, Demodulation, Map, Next, mapperVars
<1>2. TypeInv /\ TypeOK /\ NumbersInv /\ FirstInv
  BY DEF MapperInv, MapperTypeOK, TypeInv
<1>3. TypeInv' /\ NumbersInv' /\ FirstInv'
  BY <1>1, <1>2, NextType, NextNumbersInv, NextFirst
<1>4. coreset_duration' \in Durations /\ mapper' \in {"ok", "exception"}
  BY DEF MapperInv, MapperTypeOK, MapperNext, Demodulation, Map, mapperVars
<1>5. QED
  BY <1>3, <1>4, NextThrows, NextPassed DEF MapperInv, MapperTypeOK, TypeInv

\* The invariant of ChannelMapperInv holds in every reachable state of demodulator and
\* mapper (ofdm.cc:60, channel_mapper.cc:81).
THEOREM MapperInductive == MapperSpec => []MapperInv
  BY InitMapper, NextMapper, PTL DEF MapperSpec

\* For every grid, every CORESET and every sequence of buffers, the CORESETs that
\* are whole within a batch are passed on once and in order, and none again later.
THEOREM CoresetsPassed == MapperSpec => []EveryCoresetPassed
<1>1. MapperInv => EveryCoresetPassed
  <2> SUFFICES ASSUME MapperInv, pc = "idle", mapper = "ok"
               PROVE  EveryCoresetPassed
    BY DEF EveryCoresetPassed
  <2>0. /\ PassedInv /\ Batch \in Nat /\ count \in Nat /\ Batch <= count
        /\ passed \in Seq(Nat) /\ latest \in -1 .. count /\ coreset_duration \in {1, 2, 3}
    BY CoresetNumbers DEF MapperInv, MapperTypeOK, TypeOK, NumbersInv, Batch
  <2>1. ASSUME NEW slot \in 0 .. count \div symbols_per_slot
        PROVE  (\E k \in DOMAIN passed : passed[k] = slot) <=> Within(slot, count - Batch, count)
    <3>1. slot \in 0 .. count
      BY <2>0, SlotArithmetic
    <3>2. QED
      BY <2>0, <3>1 DEF PassedInv
  <2>2. ASSUME NEW k \in DOMAIN passed
        PROVE  latest < passed[k]
    <3>1. passed[k] \in Nat /\ Within(passed[k], count - Batch, count)
      BY <2>0 DEF PassedInv
    <3>2. CASE latest >= 0
      <4>1. Within(latest, 0, count - Batch) /\ latest \in Nat
        BY <2>0, <3>2 DEF PassedInv
      <4>2. CoresetStart(latest) \in Nat /\ CoresetStart(passed[k]) \in Nat
        BY <3>1, <4>1, SlotArithmetic
      <4>3. CoresetStart(latest) < CoresetStart(passed[k])
        BY <2>0, <3>1, <4>1, <4>2 DEF Within
      <4>4. QED
        BY <3>1, <4>1, <4>3, SlotArithmetic
    <3>3. QED
      BY <2>0, <3>1, <3>2
  <2>3. QED
    BY <2>0, <2>1, <2>2 DEF EveryCoresetPassed, PassedInv, Within
<1>2. QED
  BY <1>1, MapperInductive, PTL

\* The unsigned bound of the mapper's loop underflows for no buffer that is as long
\* as the CORESET less one symbol, whatever was left over before it.
THEOREM ThrowsOnTinyBufferOnly == MapperSpec => []ThrowsOnlyOnTinyBuffer
<1>1. MapperInv => ThrowsOnlyOnTinyBuffer
  BY DEF MapperInv
<1>2. QED
  BY <1>1, MapperInductive, PTL
=============================================================================
