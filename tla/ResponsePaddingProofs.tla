------------------------ MODULE ResponsePaddingProofs ------------------------
(***************************************************************************)
(* The padding of GetNonEncryptedResponse agrees with the specification's  *)
(* rule for every compressed size up to 2^30 and every minimum.            *)
(*                                                                         *)
(* Induction over the naturals is done with NatLeast (LeastElement): the   *)
(* set of counterexamples is written out in each proof, so no theorem is   *)
(* instantiated with an operator.  The recursive functions Pow2 and        *)
(* BitWidth are first shown to satisfy their defining equations, by        *)
(* building their restrictions to 0 .. n for every n.                      *)
(***************************************************************************)
EXTENDS ResponsePadding, LeastElement

-----------------------------------------------------------------------------
(* Pow2 satisfies its defining equation.                                   *)

Pow2Step(g, k) == IF k = 0 THEN 1 ELSE 2 * g[k - 1]

\* The functions on 0 .. n that follow the equation of Pow2.
Pow2Upto(n) == {g \in [0 .. n -> Nat] : \A k \in 0 .. n : g[k] = Pow2Step(g, k)}

LEMMA Pow2UptoNonEmpty ==
  ASSUME NEW n \in Nat
  PROVE  Pow2Upto(n) # {}
<1>. DEFINE T == {m \in Nat : Pow2Upto(m) = {}}
<1>. SUFFICES ASSUME T # {} PROVE FALSE  OBVIOUS
<1>1. PICK m \in T : \A y \in T : m <= y  BY NatLeast
<1>2. CASE m = 0
  <2>1. [k \in 0 .. 0 |-> 1] \in Pow2Upto(0)  BY DEF Pow2Upto, Pow2Step
  <2>. QED  BY <1>1, <1>2, <2>1
<1>3. CASE m # 0
  <2>1. m - 1 \in Nat /\ m - 1 \notin T  BY <1>1, <1>3
  <2>2. PICK g \in Pow2Upto(m - 1) : TRUE  BY <2>1
  <2>. DEFINE h == [k \in 0 .. m |-> IF k < m THEN g[k] ELSE 2 * g[m - 1]]
  <2>3. h \in [0 .. m -> Nat]  BY <1>3, <2>1, <2>2 DEF Pow2Upto
  <2>4. ASSUME NEW k \in 0 .. m PROVE h[k] = Pow2Step(h, k)
    <3>1. CASE k < m
      <4>1. g[k] = Pow2Step(g, k)  BY <2>1, <2>2, <3>1 DEF Pow2Upto
      <4>. QED  BY <2>1, <3>1, <4>1 DEF Pow2Step
    <3>2. CASE k = m  BY <1>3, <3>2, <2>1 DEF Pow2Step
    <3>. QED  BY <3>1, <3>2
  <2>5. h \in Pow2Upto(m)  BY <2>3, <2>4 DEF Pow2Upto
  <2>. QED  BY <1>1, <2>5
<1>. QED  BY <1>2, <1>3

\* Two such functions agree where both are defined.
LEMMA Pow2UptoAgree ==
  ASSUME NEW n \in Nat, NEW m \in Nat, NEW g \in Pow2Upto(n), NEW h \in Pow2Upto(m)
  PROVE  \A k \in 0 .. n : k <= m => g[k] = h[k]
<1>. DEFINE T == {k \in 0 .. n : k <= m /\ g[k] # h[k]}
<1>. SUFFICES ASSUME T # {} PROVE FALSE  OBVIOUS
<1>0. T \in SUBSET Nat  OBVIOUS
<1>1. PICK k \in T : \A y \in T : k <= y  BY <1>0, NatLeast
<1>2. g[k] = Pow2Step(g, k) /\ h[k] = Pow2Step(h, k)
  <2>1. k \in 0 .. n /\ k \in 0 .. m  BY <1>1
  <2>. QED  BY <2>1 DEF Pow2Upto
<1>3. CASE k = 0  BY <1>1, <1>2, <1>3 DEF Pow2Step
<1>4. CASE k # 0
  <2>1. k - 1 \notin T /\ k - 1 \in 0 .. n /\ k - 1 <= m  BY <1>1, <1>4
  <2>2. g[k - 1] = h[k - 1]  BY <2>1
  <2>. QED  BY <1>1, <1>2, <1>4, <2>2 DEF Pow2Step
<1>. QED  BY <1>3, <1>4

LEMMA Pow2Def == Pow2 = [k \in Nat |-> IF k = 0 THEN 1 ELSE 2 * Pow2[k - 1]]
<1>. DEFINE G(k) == CHOOSE g \in Pow2Upto(k) : TRUE
            F == [k \in Nat |-> G(k)[k]]
<1>1. ASSUME NEW k \in Nat PROVE G(k) \in Pow2Upto(k)  BY Pow2UptoNonEmpty
<1>2. ASSUME NEW k \in Nat PROVE F[k] = Pow2Step(F, k)
  <2>1. G(k)[k] = Pow2Step(G(k), k)
    <3>1. k \in 0 .. k  OBVIOUS
    <3>. QED  BY <1>1, <3>1 DEF Pow2Upto
  <2>2. CASE k = 0  BY <2>1, <2>2 DEF Pow2Step
  <2>3. CASE k # 0
    <3>1. G(k - 1) \in Pow2Upto(k - 1) /\ G(k) \in Pow2Upto(k)  BY <1>1, <2>3
    <3>2. G(k - 1)[k - 1] = G(k)[k - 1]  BY <2>3, <3>1, Pow2UptoAgree
    <3>. QED  BY <2>1, <2>3, <3>2 DEF Pow2Step
  <2>. QED  BY <2>2, <2>3
<1>3. F = [k \in Nat |-> Pow2Step(F, k)]
  <2>1. F = [k \in Nat |-> F[k]]  OBVIOUS
  <2>. QED  BY <1>2, <2>1
<1>4. F = [k \in Nat |-> IF k = 0 THEN 1 ELSE 2 * F[k - 1]]  BY <1>3 DEF Pow2Step
<1>5. \E f : f = [k \in Nat |-> IF k = 0 THEN 1 ELSE 2 * f[k - 1]]  BY <1>4
<1>. QED  BY <1>5 DEF Pow2


-----------------------------------------------------------------------------
(* BitWidth satisfies its defining equation.                               *)

BitWidthStep(g, x) == IF x = 0 THEN 0 ELSE 1 + g[x \div 2]

\* The functions on 0 .. n that follow the equation of BitWidth.
BitWidthUpto(n) ==
  {g \in [0 .. n -> Nat] : \A x \in 0 .. n : g[x] = BitWidthStep(g, x)}

LEMMA BitWidthUptoNonEmpty ==
  ASSUME NEW n \in Nat
  PROVE  BitWidthUpto(n) # {}
<1>. DEFINE T == {m \in Nat : BitWidthUpto(m) = {}}
<1>. SUFFICES ASSUME T # {} PROVE FALSE  OBVIOUS
<1>1. PICK m \in T : \A y \in T : m <= y  BY NatLeast
<1>2. CASE m = 0
  <2>1. [x \in 0 .. 0 |-> 0] \in BitWidthUpto(0)  BY DEF BitWidthUpto, BitWidthStep
  <2>. QED  BY <1>1, <1>2, <2>1
<1>3. CASE m # 0
  <2>1. m - 1 \in Nat /\ m - 1 \notin T  BY <1>1, <1>3
  <2>2. PICK g \in BitWidthUpto(m - 1) : TRUE  BY <2>1
  <2>. DEFINE h == [x \in 0 .. m |-> IF x < m THEN g[x] ELSE 1 + g[m \div 2]]
  <2>3. m \div 2 \in 0 .. m - 1  BY <1>3
  <2>4. h \in [0 .. m -> Nat]  BY <2>2, <2>3 DEF BitWidthUpto
  <2>5. ASSUME NEW x \in 0 .. m PROVE h[x] = BitWidthStep(h, x)
    <3>1. CASE x < m
      <4>1. g[x] = BitWidthStep(g, x)  BY <2>2, <3>1 DEF BitWidthUpto
      <4>2. x \div 2 \in 0 .. m - 1  BY <3>1
      <4>. QED  BY <3>1, <4>1, <4>2 DEF BitWidthStep
    <3>2. CASE x = m  BY <1>3, <2>3, <3>2 DEF BitWidthStep
    <3>. QED  BY <3>1, <3>2
  <2>6. h \in BitWidthUpto(m)  BY <2>4, <2>5 DEF BitWidthUpto
  <2>. QED  BY <1>1, <2>6
<1>. QED  BY <1>2, <1>3

\* Two such functions agree where both are defined.
LEMMA BitWidthUptoAgree ==
  ASSUME NEW n \in Nat, NEW m \in Nat,
         NEW g \in BitWidthUpto(n), NEW h \in BitWidthUpto(m)
  PROVE  \A x \in 0 .. n : x <= m => g[x] = h[x]
<1>. DEFINE T == {x \in 0 .. n : x <= m /\ g[x] # h[x]}
<1>. SUFFICES ASSUME T # {} PROVE FALSE  OBVIOUS
<1>0. T \in SUBSET Nat  OBVIOUS
<1>1. PICK x \in T : \A y \in T : x <= y  BY <1>0, NatLeast
<1>2. g[x] = BitWidthStep(g, x) /\ h[x] = BitWidthStep(h, x)
  <2>1. x \in 0 .. n /\ x \in 0 .. m  BY <1>1
  <2>. QED  BY <2>1 DEF BitWidthUpto
<1>3. CASE x = 0  BY <1>1, <1>2, <1>3 DEF BitWidthStep
<1>4. CASE x # 0
  <2>1. x \div 2 \notin T /\ x \div 2 \in 0 .. n /\ x \div 2 <= m  BY <1>1, <1>4
  <2>2. g[x \div 2] = h[x \div 2]  BY <2>1
  <2>. QED  BY <1>1, <1>2, <1>4, <2>2 DEF BitWidthStep
<1>. QED  BY <1>3, <1>4

LEMMA BitWidthDef ==
  BitWidth = [x \in Nat |-> IF x = 0 THEN 0 ELSE 1 + BitWidth[x \div 2]]
<1>. DEFINE G(x) == CHOOSE g \in BitWidthUpto(x) : TRUE
            F == [x \in Nat |-> G(x)[x]]
<1>1. ASSUME NEW x \in Nat PROVE G(x) \in BitWidthUpto(x)  BY BitWidthUptoNonEmpty
<1>2. ASSUME NEW x \in Nat PROVE F[x] = BitWidthStep(F, x)
  <2>1. G(x)[x] = BitWidthStep(G(x), x)
    <3>1. x \in 0 .. x  OBVIOUS
    <3>. QED  BY <1>1, <3>1 DEF BitWidthUpto
  <2>2. CASE x = 0  BY <2>1, <2>2 DEF BitWidthStep
  <2>3. CASE x # 0
    <3>. DEFINE h == x \div 2
    <3>0. h \in Nat /\ h <= x /\ h \in 0 .. h  BY <2>3
    <3>1. G(h) \in BitWidthUpto(h) /\ G(x) \in BitWidthUpto(x)  BY <1>1, <3>0
    <3>2. G(h)[h] = G(x)[h]  BY <3>0, <3>1, BitWidthUptoAgree
    <3>. QED  BY <2>1, <2>3, <3>0, <3>2 DEF BitWidthStep
  <2>. QED  BY <2>2, <2>3
<1>3. F = [x \in Nat |-> BitWidthStep(F, x)]
  <2>1. F = [x \in Nat |-> F[x]]  OBVIOUS
  <2>. QED  BY <1>2, <2>1
<1>4. F = [x \in Nat |-> IF x = 0 THEN 0 ELSE 1 + F[x \div 2]]
  BY <1>3 DEF BitWidthStep
<1>5. \E f : f = [x \in Nat |-> IF x = 0 THEN 0 ELSE 1 + f[x \div 2]]  BY <1>4
<1>. QED  BY <1>5 DEF BitWidth


-----------------------------------------------------------------------------
(* Arithmetic of 1 << k and std::bit_width.                                *)

\* 1 << k is a positive natural.
LEMMA Pow2Type ==
  ASSUME NEW k \in Nat
  PROVE  Pow2[k] \in Nat /\ Pow2[k] >= 1
<1>. DEFINE T == {j \in Nat : ~(Pow2[j] \in Nat /\ Pow2[j] >= 1)}
<1>. SUFFICES ASSUME T # {} PROVE FALSE  OBVIOUS
<1>1. PICK j \in T : \A y \in T : j <= y  BY NatLeast
<1>2. CASE j = 0  BY <1>1, <1>2, Pow2Def
<1>3. CASE j # 0
  <2>1. j - 1 \in Nat /\ j - 1 \notin T  BY <1>1, <1>3
  <2>2. Pow2[j] = 2 * Pow2[j - 1]  BY <1>3, Pow2Def
  <2>. QED  BY <1>1, <2>1, <2>2
<1>. QED  BY <1>2, <1>3

\* Shifting one place further doubles.
LEMMA Pow2Succ ==
  ASSUME NEW k \in Nat
  PROVE  Pow2[k + 1] = 2 * Pow2[k]
BY Pow2Def

\* 1 << k is strictly increasing in k.
LEMMA Pow2Less ==
  ASSUME NEW j \in Nat, NEW k \in Nat, j < k
  PROVE  Pow2[j] < Pow2[k]
<1>. DEFINE T == {i \in Nat : j < i /\ ~(Pow2[j] < Pow2[i])}
<1>. SUFFICES ASSUME T # {} PROVE FALSE  OBVIOUS
<1>1. PICK i \in T : \A y \in T : i <= y  BY NatLeast
<1>2. i - 1 \in Nat /\ Pow2[i] = 2 * Pow2[i - 1]  BY <1>1, Pow2Succ
<1>3. Pow2[i - 1] \in Nat /\ Pow2[i - 1] >= 1 /\ Pow2[j] \in Nat  BY <1>2, Pow2Type
<1>4. CASE i = j + 1  BY <1>1, <1>2, <1>3, <1>4
<1>5. CASE i # j + 1
  <2>1. i - 1 \notin T /\ j < i - 1  BY <1>1, <1>2, <1>5
  <2>2. Pow2[j] < Pow2[i - 1]  BY <1>2, <2>1
  <2>. QED  BY <1>1, <1>2, <1>3, <2>2
<1>. QED  BY <1>4, <1>5

\* std::bit_width(m) of a positive m is the w with 2^(w-1) <= m < 2^w.
LEMMA BitWidthBounds ==
  ASSUME NEW m \in Nat, m >= 1
  PROVE  /\ BitWidth[m] \in Nat /\ BitWidth[m] >= 1
         /\ Pow2[BitWidth[m] - 1] <= m
         /\ m < Pow2[BitWidth[m]]
<1>. DEFINE Bounded(x) == /\ BitWidth[x] \in Nat /\ BitWidth[x] >= 1
                          /\ Pow2[BitWidth[x] - 1] <= x
                          /\ x < Pow2[BitWidth[x]]
            T == {x \in Nat : x >= 1 /\ ~Bounded(x)}
<1>. SUFFICES ASSUME T # {} PROVE FALSE  OBVIOUS
<1>1. PICK x \in T : \A y \in T : x <= y  BY NatLeast
<1>2. CASE x = 1
  <2>1. BitWidth[1] = 1
    <3>1. BitWidth[1] = 1 + BitWidth[0] /\ BitWidth[0] = 0  BY BitWidthDef
    <3>. QED  BY <3>1
  <2>2. Pow2[0] = 1 /\ Pow2[1] = 2  BY Pow2Def
  <2>. QED  BY <1>1, <1>2, <2>1, <2>2
<1>3. CASE x # 1
  <2>. DEFINE h == x \div 2
             v == BitWidth[h]
  <2>1. h \in Nat /\ h >= 1 /\ h < x /\ 2 * h <= x /\ x <= 2 * h + 1  BY <1>1, <1>3
  <2>2. Bounded(h)  BY <1>1, <2>1
  <2>3. BitWidth[x] = v + 1  BY <1>1, <2>1, BitWidthDef
  <2>4. v - 1 \in Nat /\ Pow2[v] = 2 * Pow2[v - 1] /\ Pow2[v + 1] = 2 * Pow2[v]
    BY <2>2, Pow2Succ
  <2>5. Pow2[v - 1] \in Nat /\ Pow2[v] \in Nat  BY <2>2, <2>4, Pow2Type
  <2>6. Pow2[v] <= x /\ x < Pow2[v + 1]  BY <2>1, <2>2, <2>4, <2>5
  <2>. QED  BY <1>1, <2>2, <2>3, <2>6
<1>. QED  BY <1>2, <1>3


-----------------------------------------------------------------------------
(* The padding rule.                                                       *)

\* absl::bit_ceil(n) is the least power of two that is at least n, for
\* every n up to 2^30, the sizes 0 and 1 and the exact powers included.
LEMMA BitCeilIsNextPowerOfTwo ==
  ASSUME NEW n \in 0 .. Pow2[30]
  PROVE  /\ BitCeil(n) \in PowersOfTwo
         /\ BitCeil(n) >= n
         /\ \A q \in PowersOfTwo : q >= n => BitCeil(n) <= q
<1>0. Pow2[30] \in Nat  BY Pow2Type
<1>1. CASE n <= 1
  <2>1. BitCeil(n) = Pow2[0] /\ Pow2[0] = 1  BY <1>1, Pow2Def DEF BitCeil
  <2>2. ASSUME NEW j \in 0 .. 30 PROVE Pow2[j] >= 1  BY Pow2Type
  <2>. QED  BY <1>0, <1>1, <2>1, <2>2 DEF PowersOfTwo
<1>2. CASE n > 1
  <2>. DEFINE m == n - 1
              w == BitWidth[m]
  <2>1. m \in Nat /\ m >= 1 /\ m < Pow2[30]  BY <1>0, <1>2
  <2>2. w \in Nat /\ w >= 1 /\ Pow2[w - 1] <= m /\ m < Pow2[w]
    BY <2>1, BitWidthBounds
  <2>3. BitCeil(n) = Pow2[w]  BY <1>2 DEF BitCeil
  <2>4. w <= 30
    <3>1. CASE w - 1 = 30
      <4>1. Pow2[w - 1] = Pow2[30]  BY <3>1
      <4>. QED  BY <1>0, <2>1, <2>2, <4>1
    <3>2. CASE w - 1 > 30
      <4>1. Pow2[30] < Pow2[w - 1]  BY <2>2, <3>2, Pow2Less
      <4>. QED  BY <2>1, <2>2, <4>1, <1>0, Pow2Type
    <3>. QED  BY <2>2, <3>1, <3>2
  <2>5. ASSUME NEW j \in 0 .. 30, Pow2[j] >= n PROVE Pow2[w] <= Pow2[j]
    <3>1. Pow2[j] \in Nat /\ Pow2[w] \in Nat /\ Pow2[w - 1] \in Nat
      BY <2>2, Pow2Type
    <3>2. CASE j < w - 1
      <4>1. Pow2[j] < Pow2[w - 1]  BY <2>2, <3>2, Pow2Less
      <4>. QED  BY <2>2, <2>5, <3>1, <4>1
    <3>3. CASE j = w - 1  BY <2>2, <2>5, <3>1, <3>3
    <3>4. CASE j = w
      <4>1. Pow2[j] = Pow2[w]  BY <3>4
      <4>. QED  BY <3>1, <4>1
    <3>5. CASE j > w
      <4>1. Pow2[w] < Pow2[j]  BY <2>2, <3>5, Pow2Less
      <4>. QED  BY <4>1, <3>1
    <3>. QED  BY <2>2, <3>2, <3>3, <3>4, <3>5
  <2>6. BitCeil(n) \in PowersOfTwo  BY <2>2, <2>3, <2>4 DEF PowersOfTwo
  <2>7. Pow2[w] >= n  BY <2>2, Pow2Type
  <2>8. ASSUME NEW q \in PowersOfTwo, q >= n PROVE BitCeil(n) <= q
    <3>1. PICK j \in 0 .. 30 : q = Pow2[j]  BY DEF PowersOfTwo
    <3>. QED  BY <2>3, <2>5, <2>8, <3>1
  <2>. QED  BY <2>1, <2>3, <2>6, <2>7, <2>8
<1>. QED  BY <1>1, <1>2

\* The CHOOSE of NextPowerOfTwo picks absl::bit_ceil(n).
LEMMA NextPowerOfTwoIsBitCeil ==
  ASSUME NEW n \in 0 .. Pow2[30]
  PROVE  NextPowerOfTwo(n) = BitCeil(n)
<1>. DEFINE Least(p) == p >= n /\ \A q \in PowersOfTwo : q >= n => p <= q
<1>1. BitCeil(n) \in PowersOfTwo /\ Least(BitCeil(n))  BY BitCeilIsNextPowerOfTwo
<1>2. ASSUME NEW p \in PowersOfTwo, Least(p) PROVE p = BitCeil(n)
  <2>1. PowersOfTwo \subseteq Nat  BY Pow2Type DEF PowersOfTwo
  <2>2. p <= BitCeil(n) /\ BitCeil(n) <= p  BY <1>1, <1>2
  <2>3. p \in Nat /\ BitCeil(n) \in Nat  BY <1>1, <2>1
  <2>. QED  BY <2>2, <2>3
<1>3. Least(NextPowerOfTwo(n)) /\ NextPowerOfTwo(n) \in PowersOfTwo
  BY <1>1 DEF NextPowerOfTwo
<1>. QED  BY <1>2, <1>3

\* For every minimum and every compressed size up to 2^30, the resize of
\* GetNonEncryptedResponse never truncates and pads to
\* max(next power of two, kMinAuctionResultBytes), as the specification
\* says.
THEOREM PaddingCorrect == Spec => []PaddingMatchesSpec
<1>. DEFINE Inv == compressedSize \in 0 .. MaxCompressedSize
<1>1. Init => Inv  BY DEF Init
<1>2. Inv /\ [Next]_compressedSize => Inv'  BY DEF Next
<1>3. Inv => PaddingMatchesSpec
  <2>. SUFFICES ASSUME Inv PROVE PaddingMatchesSpec  OBVIOUS
  <2>. DEFINE n == compressedSize
  <2>1. n \in 0 .. Pow2[30] /\ MinAuctionResultBytes \in Nat
    BY PaddingAssumption, Pow2Type
  <2>2. NextPowerOfTwo(n) = BitCeil(n) /\ BitCeil(n) >= n /\ BitCeil(n) \in Nat
    BY <2>1, NextPowerOfTwoIsBitCeil, BitCeilIsNextPowerOfTwo, Pow2Type
    DEF PowersOfTwo
  <2>. QED  BY <2>1, <2>2 DEF PaddingMatchesSpec, PaddedSize
<1>. QED  BY <1>1, <1>2, <1>3, PTL DEF Spec

=============================================================================
