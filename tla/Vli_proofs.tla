----------------------------- MODULE Vli_proofs -----------------------------
(***************************************************************************)
(* The arithmetic of uECC.c on words is that of the integers, for every    *)
(* size of a word and of a number: sums and differences with their carry   *)
(* and borrow, shifts, comparisons, bits, bytes, residues, the product,    *)
(* the fast reduction modulo curve_p and the inverse.  What a loop over    *)
(* the words has computed so far is a loop over the places of a number     *)
(* too (IsLoop); equal parts and equal first values make equal loops.      *)
(* VliInv, the inductive invariant, has one part for each operation that   *)
(* takes several steps: what the words so far stand for.                   *)
(***************************************************************************)
EXTENDS Vli, NaturalsInduction, WellFoundedInduction, TLAPS

-----------------------------------------------------------------------------
(* Numbers: division, induction, loops.                                    *)

\* Quotient and remainder of naturals.
LEMMA DivMod ==
  ASSUME NEW d \in Nat \ {0}, NEW n \in Nat
  PROVE  n \div d \in Nat /\ n % d \in 0 .. d - 1 /\ n = d * (n \div d) + (n % d)
  OBVIOUS

\* Multiples of d are at least d apart.
LEMMA Multiples ==
  ASSUME NEW d \in Nat \ {0}, NEW x \in Int, NEW y \in Int, x < y
  PROVE  d * x + d <= d * y
<1>1. y - x - 1 \in Nat
  OBVIOUS
<1>2. d * (y - x - 1) \in Nat
  BY <1>1
<1>3. d * (y - x - 1) = d * y - d * x - d
  OBVIOUS
<1>. QED BY <1>2, <1>3

\* Quotient and remainder are the only ones that there are.
LEMMA DivIs ==
  ASSUME NEW d \in Nat \ {0}, NEW q \in Int, NEW e \in 0 .. d - 1
  PROVE  (d * q + e) \div d = q /\ (d * q + e) % d = e
<1> DEFINE n == d * q + e
           k == n \div d
           s == n % d
<1>1. k \in Int /\ s \in 0 .. d - 1 /\ n = d * k + s
  OBVIOUS
<1>2. d * q \in Int /\ d * k \in Int /\ d * k + s = d * q + e
  BY <1>1
<1> HIDE DEF k, s, n
<1>3. k = q
  <2>1. CASE k < q
    <3>1. d * k + d <= d * q
      BY <1>1, <2>1, Multiples
    <3>. QED BY <1>1, <1>2, <3>1
  <2>2. CASE q < k
    <3>1. d * q + d <= d * k
      BY <1>1, <2>2, Multiples
    <3>. QED BY <1>1, <1>2, <3>1
  <2>. QED BY <1>1, <2>1, <2>2
<1>4. s = e
  BY <1>1, <1>2, <1>3
<1>. QED BY <1>3, <1>4 DEF k, s, n

\* Induction up to n, for the set of the numbers for which something holds.
LEMMA UpTo ==
  ASSUME NEW n \in Nat, NEW S, 0 \in S, \A i \in 1 .. n : i - 1 \in S => i \in S
  PROVE  \A i \in 0 .. n : i \in S
<1> DEFINE Bad == {i \in 0 .. n : i \notin S}
<1> SUFFICES ASSUME Bad # {} PROVE FALSE
  OBVIOUS
<1>1. PICK x \in Bad : \A y \in Bad : ~ (<<y, x>> \in OpToRel(<, Nat))
  <2>1. Bad \in SUBSET Nat
    OBVIOUS
  <2> HIDE DEF Bad
  <2>. QED BY <2>1, NatLessThanWellFounded, WFMin
<1>2. \A y \in Bad : ~(y < x)
  <2> SUFFICES ASSUME NEW y \in Bad, y < x PROVE FALSE
    OBVIOUS
  <2>1. <<y, x>> \in Nat \X Nat /\ y \in Nat /\ x \in Nat
    OBVIOUS
  <2>2. <<y, x>> \in OpToRel(<, Nat)
    BY <2>1 DEF OpToRel
  <2>. QED BY <1>1, <2>2
<1>3. x \in 1 .. n /\ x - 1 \in 0 .. n
  OBVIOUS
<1>4. x - 1 \in S
  <2>1. x - 1 < x
    BY <1>3
  <2>. QED BY <1>2, <1>3, <2>1
<1>. QED BY <1>3, <1>4

\* A loop of n turns over S has its partial results.
IsLoop(f, n, S, base, turn) ==
  f \in [0 .. n -> S] /\ f[0] = base /\ \A i \in 1 .. n : f[i] = turn[<<i, f[i - 1]>>]

\* Every loop has its partial results.
LEMMA Loop ==
  ASSUME NEW n \in Nat, NEW S, NEW base \in S, NEW turn \in [(1 .. n) \X S -> S]
  PROVE  \E f : IsLoop(f, n, S, base, turn)
<1> DEFINE Ok(m) == \E f : IsLoop(f, m, S, base, turn)
           T == {m \in 0 .. n : Ok(m)}
<1>1. 0 \in T
  <2>1. IsLoop([i \in 0 .. 0 |-> base], 0, S, base, turn)
    BY DEF IsLoop
  <2>2. Ok(0)
    BY <2>1
  <2>. QED BY <2>2
<1>2. ASSUME NEW m \in 1 .. n, m - 1 \in T PROVE m \in T
  <2>1. PICK f : IsLoop(f, m - 1, S, base, turn)
    BY <1>2
  <2>9. f \in [0 .. m - 1 -> S] /\ f[0] = base /\ \A i \in 1 .. m - 1 : f[i] = turn[<<i, f[i - 1]>>]
    BY <2>1 DEF IsLoop
  <2> DEFINE g == [i \in 0 .. m |-> IF i = m THEN turn[<<m, f[m - 1]>>] ELSE f[i]]
  <2>2. turn[<<m, f[m - 1]>>] \in S
    BY <2>9
  <2>3. g \in [0 .. m -> S] /\ g[0] = base
    BY <2>9, <2>2
  <2>4. ASSUME NEW i \in 1 .. m PROVE g[i] = turn[<<i, g[i - 1]>>]
    <3>1. g[i - 1] = f[i - 1]
      OBVIOUS
    <3>2. CASE i = m
      <4>1. g[m] = turn[<<m, f[m - 1]>>] /\ f[m - 1] = g[m - 1]
        BY <3>1, <3>2
      <4> HIDE DEF g
      <4>. QED BY <3>2, <4>1
    <3>3. CASE i \in 1 .. m - 1
      BY <2>9, <3>1, <3>3
    <3>. QED BY <3>2, <3>3
  <2> HIDE DEF g
  <2>5. IsLoop(g, m, S, base, turn)
    BY <2>3, <2>4 DEF IsLoop
  <2>6. Ok(m)
    BY <2>5
  <2>. QED BY <2>6
<1> HIDE DEF T
<1>3. \A m \in 0 .. n : m \in T
  BY <1>1, <1>2, UpTo
<1>4. n \in T
  BY <1>3
<1>. QED BY <1>4 DEF T

\* What steps as x loop does is that loop.
LEMMA LoopIs ==
  ASSUME NEW n \in Nat, NEW S, NEW base \in S, NEW turn \in [(1 .. n) \X S -> S], NEW g,
         g = [i \in 0 .. n |-> g[i]], g[0] = base,
         \A i \in 1 .. n : g[i - 1] \in S => g[i] = turn[<<i, g[i - 1]>>]
  PROVE  IsLoop(g, n, S, base, turn)
<1> DEFINE T == {i \in 0 .. n : g[i] \in S}
<1>1. 0 \in T
  OBVIOUS
<1>2. ASSUME NEW i \in 1 .. n, i - 1 \in T PROVE i \in T
  <2>1. <<i, g[i - 1]>> \in (1 .. n) \X S /\ g[i] = turn[<<i, g[i - 1]>>]
    BY <1>2
  <2>. QED BY <2>1
<1> HIDE DEF T
<1>3. \A i \in 0 .. n : i \in T
  BY <1>1, <1>2, UpTo
<1>4. \A i \in 0 .. n : g[i] \in S
  BY <1>3 DEF T
<1>5. \A i \in 1 .. n : g[i - 1] \in S
  BY <1>4
<1>6. g \in [0 .. n -> S]
  BY <1>4
<1>. QED BY <1>5, <1>6 DEF IsLoop

\* Products of naturals.
LEMMA Product ==
  ASSUME NEW x \in Nat, NEW y \in Nat
  PROVE  x * y \in Nat
OBVIOUS

\* A product grows with its factor.
LEMMA ProductMonotonic ==
  ASSUME NEW x \in Nat, NEW y \in Int, NEW z \in Int, y <= z
  PROVE  x * y <= x * z
<1>1. z - y \in Nat
  OBVIOUS
<1>2. x * (z - y) \in Nat /\ x * (z - y) = x * z - x * y
  BY <1>1
<1>. QED BY <1>2

\* Factors are not greater than their product.
LEMMA ProductPositive ==
  ASSUME NEW x \in Nat \ {0}, NEW y \in Nat \ {0}
  PROVE  x * y \in Nat \ {0} /\ x * y >= x /\ x * y >= y
<1>1. x * 1 <= x * y /\ y * 1 <= y * x
  BY ProductMonotonic
<1>. QED BY <1>1

\* Remainders of numbers near the modulus.
LEMMA ModSmall ==
  ASSUME NEW d \in Nat \ {0}, NEW x \in Int, 0 <= x, x < d
  PROVE  x % d = x /\ x \div d = 0
<1>1. (d * 0 + x) \div d = 0 /\ (d * 0 + x) % d = x
  BY DivIs
<1>. QED BY <1>1

\* A number between the modulus and twice the modulus.
LEMMA ModAbove ==
  ASSUME NEW d \in Nat \ {0}, NEW x \in Int, d <= x, x - d < d
  PROVE  x % d = x - d /\ x \div d = 1
<1>1. (d * 1 + (x - d)) \div d = 1 /\ (d * 1 + (x - d)) % d = x - d
  BY DivIs
<1>. QED BY <1>1

\* A negative number not below minus the modulus.
LEMMA ModBelow ==
  ASSUME NEW d \in Nat \ {0}, NEW x \in Int, -d <= x, x < 0
  PROVE  x % d = x + d /\ x \div d = -1
<1>1. (d * (-1) + (x + d)) \div d = -1 /\ (d * (-1) + (x + d)) % d = x + d
  BY DivIs
<1>2. d * (-1) + (x + d) = x
  OBVIOUS
<1>. QED BY <1>1, <1>2

\* Quotient and remainder of integers.
LEMMA DivModInt ==
  ASSUME NEW d \in Nat \ {0}, NEW n \in Int
  PROVE  n \div d \in Int /\ n % d \in 0 .. d - 1 /\ n = d * (n \div d) + (n % d)
OBVIOUS

\* A quotient divided again.
LEMMA DivDiv ==
  ASSUME NEW c \in Nat \ {0}, NEW d \in Nat \ {0}, NEW n \in Nat
  PROVE  c * d \in Nat \ {0} /\ n \div (c * d) = (n \div c) \div d
<1> DEFINE q == n \div c
           e == n % c
           k == q \div d
           s == q % d
<1>0. c * d \in Nat \ {0}
  BY ProductPositive
<1>1. q \in Nat /\ e \in 0 .. c - 1 /\ n = c * q + e
  BY DivMod
<1>2. k \in Nat /\ s \in 0 .. d - 1 /\ q = d * k + s
  BY <1>1, DivMod
<1> HIDE DEF q, e, k, s
<1>3. c * s + e \in 0 .. c * d - 1
  <2>1. c * s <= c * (d - 1) /\ 0 <= c * s
    BY <1>2, ProductMonotonic, Product
  <2>2. c * (d - 1) = c * d - c
    OBVIOUS
  <2>. QED BY <1>1, <1>2, <2>1, <2>2
<1>4. n = (c * d) * k + (c * s + e)
  <2>1. c * q = c * (d * k) + c * s
    BY <1>2
  <2>. QED BY <1>1, <1>2, <2>1
<1>5. ((c * d) * k + (c * s + e)) \div (c * d) = k
  <2> DEFINE m == c * d
             t == c * s + e
  <2>1. m \in Nat \ {0} /\ t \in 0 .. m - 1 /\ k \in Int
    BY <1>0, <1>2, <1>3
  <2> HIDE DEF m, t
  <2>2. (m * k + t) \div m = k
    BY <2>1, DivIs
  <2>. QED BY <2>2 DEF m, t
<1>. QED BY <1>0, <1>4, <1>5 DEF k, q

-----------------------------------------------------------------------------
(* Powers, places and values.                                              *)

\* The powers of 2.
LEMMA TwoIs ==
  /\ two \in [0 .. num_words * WORD_BITS -> Nat \ {0}] /\ two[0] = 1
  /\ \A k \in 1 .. num_words * WORD_BITS : two[k] = 2 * two[k - 1]
<1> DEFINE N == num_words * WORD_BITS
           S == Nat \ {0}
           turn == [w \in (1 .. N) \X S |-> 2 * w[2]]
           Def(f) == f = [k \in 0 .. N |-> IF k = 0 THEN 1 ELSE 2 * f[k - 1]]
<1>1. N \in Nat
  BY VliInputs, Product DEF VliAssumption
<1>2. turn \in [(1 .. N) \X S -> S]
  OBVIOUS
<1>3. \A w \in (1 .. N) \X S : turn[w] = 2 * w[2]
  OBVIOUS
<1> HIDE DEF N, turn
<1>4. PICK f : IsLoop(f, N, S, 1, turn)
  <2>1. 1 \in S
    OBVIOUS
  <2> HIDE DEF S
  <2>. QED BY <1>1, <1>2, <2>1, Loop
<1>5. f \in [0 .. N -> S] /\ f[0] = 1 /\ \A k \in 1 .. N : f[k] = 2 * f[k - 1]
  <2>1. \A k \in 1 .. N : <<k, f[k - 1]>> \in (1 .. N) \X S
    BY <1>1, <1>4 DEF IsLoop
  <2>. QED BY <1>3, <1>4, <2>1 DEF IsLoop
<1>6. Def(f)
  <2>1. \A k \in 0 .. N : f[k] = IF k = 0 THEN 1 ELSE 2 * f[k - 1]
    BY <1>1, <1>5
  <2>. QED BY <1>5, <2>1
<1>7. Def(two)
  <2>1. two = CHOOSE g : Def(g)
    BY DEF two, N
  <2> HIDE DEF Def
  <2>. QED BY <1>6, <2>1
<1>8. IsLoop(two, N, S, 1, turn)
  <2>1. two = [k \in 0 .. N |-> two[k]] /\ two[0] = 1
    BY <1>1, <1>7
  <2>2. \A k \in 1 .. N : two[k - 1] \in S => two[k] = turn[<<k, two[k - 1]>>]
    <3> SUFFICES ASSUME NEW k \in 1 .. N, two[k - 1] \in S PROVE two[k] = turn[<<k, two[k - 1]>>]
      OBVIOUS
    <3>1. two[k] = 2 * two[k - 1]
      BY <1>1, <1>7
    <3>. QED BY <1>3, <3>1
  <2>3. 1 \in S
    OBVIOUS
  <2> HIDE DEF S, Def
  <2>. QED BY <1>1, <1>2, <2>1, <2>2, <2>3, LoopIs
<1>9. \A k \in 1 .. N : <<k, two[k - 1]>> \in (1 .. N) \X S
  BY <1>1, <1>8 DEF IsLoop
<1>. QED BY <1>1, <1>3, <1>8, <1>9 DEF N, IsLoop

\* The number of a word's values is even.
LEMMA WIs ==
  /\ two[WORD_BITS - 1] \in Nat \ {0} /\ W = 2 * two[WORD_BITS - 1] /\ W \in Nat \ {0, 1}
  /\ num_words \in Nat \ {0} /\ WORD_BITS \in Nat \ {0} /\ WORD_BITS <= num_words * WORD_BITS
<1>1. num_words \in Nat \ {0} /\ WORD_BITS \in Nat \ {0} /\ WORD_BITS <= num_words * WORD_BITS
  BY VliInputs, ProductPositive DEF VliAssumption
<1> DEFINE N == num_words * WORD_BITS
<1>2. N \in Nat /\ WORD_BITS \in 1 .. N
  BY <1>1, Product
<1>3. two \in [0 .. N -> Nat \ {0}] /\ two[0] = 1 /\ \A k \in 1 .. N : two[k] = 2 * two[k - 1]
  BY TwoIs
<1> HIDE DEF N
<1>4. two[WORD_BITS - 1] \in Nat \ {0} /\ two[WORD_BITS] = 2 * two[WORD_BITS - 1]
  BY <1>2, <1>3
<1>. QED BY <1>1, <1>4 DEF W, N

\* The sizes are positive.
LEMMA Sizes == W \in Nat \ {0} /\ num_words \in Nat \ {0} /\ num_words \in 0 .. 2 * num_words
BY WIs

\* Exponents of 2 add up.
LEMMA TwoAdds ==
  ASSUME NEW x \in Nat, NEW y \in Nat, x + y <= num_words * WORD_BITS
  PROVE  two[x + y] = two[x] * two[y]
<1> DEFINE T == {j \in 0 .. y : two[x + j] = two[x] * two[j]}
           N == num_words * WORD_BITS
<1>1. N \in Nat
  BY WIs, Product
<1> HIDE DEF N
<1>2. two \in [0 .. N -> Nat \ {0}] /\ two[0] = 1 /\ \A k \in 1 .. N : two[k] = 2 * two[k - 1]
  BY TwoIs DEF N
<1>3. x + y <= N
  BY DEF N
<1>4. 0 \in T
  BY <1>1, <1>2, <1>3
<1>5. ASSUME NEW j \in 1 .. y, j - 1 \in T PROVE j \in T
  <2>1. two[x + (j - 1)] = two[x] * two[j - 1]
    BY <1>5
  <2>2. two[x + j] = 2 * two[x + (j - 1)] /\ two[j] = 2 * two[j - 1]
    <3>1. x + j \in 1 .. N /\ j \in 1 .. N /\ (x + j) - 1 = x + (j - 1)
      BY <1>1, <1>3
    <3>. QED BY <1>2, <3>1
  <2>3. two[x] \in Int /\ two[j - 1] \in Int
    BY <1>1, <1>2, <1>3
  <2>4. 2 * (two[x] * two[j - 1]) = two[x] * (2 * two[j - 1])
    BY <2>3
  <2>. QED BY <2>1, <2>2, <2>4
<1> HIDE DEF T
<1>6. \A j \in 0 .. y : j \in T
  BY <1>4, <1>5, UpTo
<1>. QED BY <1>6 DEF T

\* The powers of W.
LEMMA PlaceIs ==
  /\ place \in [0 .. 2 * num_words -> Nat \ {0}] /\ place[0] = 1
  /\ \A i \in 1 .. 2 * num_words : place[i] = W * place[i - 1]
<1> DEFINE N == 2 * num_words
           S == Nat \ {0}
           turn == [w \in (1 .. N) \X S |-> W * w[2]]
           Def(f) == f = [k \in 0 .. N |-> IF k = 0 THEN 1 ELSE W * f[k - 1]]
<1>1. N \in Nat /\ W \in S
  BY WIs
<1>2. turn \in [(1 .. N) \X S -> S]
  BY <1>1, ProductPositive
<1>3. \A w \in (1 .. N) \X S : turn[w] = W * w[2]
  OBVIOUS
<1> HIDE DEF N, turn
<1>4. PICK f : IsLoop(f, N, S, 1, turn)
  <2>1. 1 \in S
    OBVIOUS
  <2> HIDE DEF S
  <2>. QED BY <1>1, <1>2, <2>1, Loop
<1>5. f \in [0 .. N -> S] /\ f[0] = 1 /\ \A k \in 1 .. N : f[k] = W * f[k - 1]
  <2>1. \A k \in 1 .. N : <<k, f[k - 1]>> \in (1 .. N) \X S
    BY <1>1, <1>4 DEF IsLoop
  <2>. QED BY <1>3, <1>4, <2>1 DEF IsLoop
<1>6. Def(f)
  <2>1. \A k \in 0 .. N : f[k] = IF k = 0 THEN 1 ELSE W * f[k - 1]
    BY <1>1, <1>5
  <2>. QED BY <1>5, <2>1
<1>7. Def(place)
  <2>1. place = CHOOSE g : Def(g)
    BY DEF place, N
  <2> HIDE DEF Def
  <2>. QED BY <1>6, <2>1
<1>8. IsLoop(place, N, S, 1, turn)
  <2>1. place = [k \in 0 .. N |-> place[k]] /\ place[0] = 1
    BY <1>1, <1>7
  <2>2. \A k \in 1 .. N : place[k - 1] \in S => place[k] = turn[<<k, place[k - 1]>>]
    <3> SUFFICES ASSUME NEW k \in 1 .. N, place[k - 1] \in S PROVE place[k] = turn[<<k, place[k - 1]>>]
      OBVIOUS
    <3>1. place[k] = W * place[k - 1]
      BY <1>1, <1>7
    <3>. QED BY <1>3, <3>1
  <2>3. 1 \in S
    OBVIOUS
  <2> HIDE DEF S, Def
  <2>. QED BY <1>1, <1>2, <2>1, <2>2, <2>3, LoopIs
<1>9. \A k \in 1 .. N : <<k, place[k - 1]>> \in (1 .. N) \X S
  BY <1>1, <1>8 DEF IsLoop
<1>. QED BY <1>1, <1>3, <1>8, <1>9 DEF N, IsLoop

\* Each place is W times the one before it.
LEMMA PlaceAt ==
  ASSUME NEW k \in 0 .. 2 * num_words
  PROVE  /\ \A i \in 0 .. k : place[i] \in Nat \ {0}
         /\ \A i \in 1 .. k : place[i] = W * place[i - 1] /\ place[i - 1] \in Nat \ {0}
<1>1. num_words \in Nat /\ k \in Nat
  BY WIs
<1>2. \A i \in 0 .. k : i \in 0 .. 2 * num_words
  BY <1>1
<1>3. \A i \in 1 .. k : i \in 1 .. 2 * num_words /\ i - 1 \in 0 .. 2 * num_words
  BY <1>1
<1>. QED BY <1>2, <1>3, PlaceIs

\* Exponents of W add up.
LEMMA PlaceAdds ==
  ASSUME NEW x \in Nat, NEW y \in Nat, x + y <= 2 * num_words
  PROVE  place[x + y] = place[x] * place[y]
<1> DEFINE T == {j \in 0 .. y : place[x + j] = place[x] * place[j]}
           N == 2 * num_words
<1>1. N \in Nat /\ W \in Nat
  BY WIs
<1> HIDE DEF N
<1>2. place \in [0 .. N -> Nat \ {0}] /\ place[0] = 1 /\ \A k \in 1 .. N : place[k] = W * place[k - 1]
  BY PlaceIs DEF N
<1>3. x + y <= N
  BY DEF N
<1>4. 0 \in T
  BY <1>1, <1>2, <1>3
<1>5. ASSUME NEW j \in 1 .. y, j - 1 \in T PROVE j \in T
  <2>1. place[x + (j - 1)] = place[x] * place[j - 1]
    BY <1>5
  <2>2. place[x + j] = W * place[x + (j - 1)] /\ place[j] = W * place[j - 1]
    <3>1. x + j \in 1 .. N /\ j \in 1 .. N /\ (x + j) - 1 = x + (j - 1)
      BY <1>1, <1>3
    <3>. QED BY <1>2, <3>1
  <2>3. place[x] \in Int /\ place[j - 1] \in Int
    BY <1>1, <1>2, <1>3
  <2>4. W * (place[x] * place[j - 1]) = place[x] * (W * place[j - 1])
    BY <1>1, <2>3
  <2>. QED BY <2>1, <2>2, <2>4
<1> HIDE DEF T
<1>6. \A j \in 0 .. y : j \in T
  BY <1>4, <1>5, UpTo
<1>. QED BY <1>6 DEF T

\* The powers of W are powers of 2.
LEMMA PlaceIsTwo ==
  ASSUME NEW i \in 0 .. num_words
  PROVE  i * WORD_BITS \in 0 .. num_words * WORD_BITS /\ place[i] = two[i * WORD_BITS]
<1> DEFINE N == num_words * WORD_BITS
           T == {j \in 0 .. num_words : place[j] = two[j * WORD_BITS]}
<1>1. num_words \in Nat /\ WORD_BITS \in Nat
  BY WIs
<1>2. \A j \in 0 .. num_words : j * WORD_BITS \in 0 .. N
  <2> TAKE j \in 0 .. num_words
  <2>1. WORD_BITS * j <= WORD_BITS * num_words /\ WORD_BITS * j \in Nat
    BY <1>1, ProductMonotonic, Product
  <2>. QED BY <1>1, <2>1
<1>3. 0 \in T
  BY <1>1, PlaceIs, TwoIs
<1>4. ASSUME NEW j \in 1 .. num_words, j - 1 \in T PROVE j \in T
  <2>1. place[j] = W * place[j - 1]
    BY <1>1, PlaceIs
  <2>2. j * WORD_BITS = WORD_BITS + (j - 1) * WORD_BITS
    BY <1>1
  <2>3. j * WORD_BITS \in 0 .. N /\ (j - 1) * WORD_BITS \in 0 .. N
    BY <1>1, <1>2
  <2>4. two[WORD_BITS + (j - 1) * WORD_BITS] = two[WORD_BITS] * two[(j - 1) * WORD_BITS]
    BY <1>1, <2>2, <2>3, TwoAdds
  <2>. QED BY <1>4, <2>1, <2>2, <2>4 DEF W
<1> HIDE DEF T
<1>5. \A j \in 0 .. num_words : j \in T
  BY <1>1, <1>3, <1>4, UpTo
<1>. QED BY <1>2, <1>5 DEF T

\* The numbers of k words, and the partial sums of Value.
Vlis(k) == [1 .. k -> 0 .. W - 1]
Sums(f) ==
  LET value[i \in 0 .. Len(f)] == IF i = 0 THEN 0 ELSE value[i - 1] + f[i] * place[i - 1]
  IN  value

\* The length of a sequence of k words.
LEMMA LenIs ==
  ASSUME NEW k \in Nat, NEW S, NEW f \in [1 .. k -> S]
  PROVE  Len(f) = k
<1>1. f \in Seq(S)
  BY DEF Seq
<1>2. DOMAIN f = 1 .. Len(f) /\ DOMAIN f = 1 .. k /\ Len(f) \in Nat
  BY <1>1
<1>. QED BY <1>2

\* Value adds up the words in their places, one by one.
LEMMA SumsAre ==
  ASSUME NEW k \in 0 .. 2 * num_words, NEW f \in [1 .. k -> Int]
  PROVE  /\ Sums(f) \in [0 .. k -> Int] /\ Sums(f)[0] = 0 /\ Value(f) = Sums(f)[k]
         /\ \A i \in 1 .. k : Sums(f)[i] = Sums(f)[i - 1] + f[i] * place[i - 1]
<1> DEFINE turn == [w \in (1 .. k) \X Int |-> w[2] + f[w[1]] * place[w[1] - 1]]
           Def(g) == g = [i \in 0 .. k |-> IF i = 0 THEN 0 ELSE g[i - 1] + f[i] * place[i - 1]]
<1>0. k \in Nat /\ num_words \in Nat
  BY WIs
<1>1. \A i \in 1 .. k : f[i] \in Int /\ place[i - 1] \in Int
  BY <1>0, PlaceIs
<1>2. turn \in [(1 .. k) \X Int -> Int]
  <2>1. \A w \in (1 .. k) \X Int : w[2] + f[w[1]] * place[w[1] - 1] \in Int
    BY <1>1
  <2>. QED BY <2>1
<1>3. \A i \in 1 .. k, x \in Int : turn[<<i, x>>] = x + f[i] * place[i - 1]
  OBVIOUS
<1> DEFINE Z == Int
<1> HIDE DEF turn
<1>z. 0 \in Z
  OBVIOUS
<1> HIDE DEF Z
<1>2z. turn \in [(1 .. k) \X Z -> Z]
  BY <1>2 DEF Z
<1>4. PICK g : IsLoop(g, k, Z, 0, turn)
  BY <1>0, <1>2z, <1>z, Loop
<1>5. Def(g)
  <2>1. g \in [0 .. k -> Int] /\ g[0] = 0 /\ \A i \in 1 .. k : g[i] = turn[<<i, g[i - 1]>>]
    BY <1>4 DEF IsLoop, Z
  <2>2. \A i \in 1 .. k : g[i - 1] \in Int
    BY <1>0, <2>1
  <2>3. \A i \in 1 .. k : g[i] = g[i - 1] + f[i] * place[i - 1]
    BY <1>3, <2>1, <2>2
  <2>4. \A i \in 0 .. k : i = 0 \/ i \in 1 .. k
    BY <1>0
  <2>5. \A i \in 0 .. k : g[i] = IF i = 0 THEN 0 ELSE g[i - 1] + f[i] * place[i - 1]
    BY <2>1, <2>3, <2>4
  <2>. QED BY <2>1, <2>5
<1>6. Len(f) = k
  BY <1>0, LenIs
<1>7. Def(Sums(f))
  <2>1. Sums(f) = CHOOSE h : Def(h)
    BY <1>6 DEF Sums
  <2> HIDE DEF Def
  <2>. QED BY <1>5, <2>1
<1>8. Value(f) = Sums(f)[k]
  <2>1. Value(f) = (CHOOSE h : Def(h))[k] /\ Sums(f) = CHOOSE h : Def(h)
    BY <1>6 DEF Value, Sums
  <2> HIDE DEF Def
  <2>. QED BY <2>1
<1> DEFINE s == Sums(f)
<1> HIDE DEF s
<1>9. Def(s)
  BY <1>7 DEF s
<1>10. IsLoop(s, k, Z, 0, turn)
  <2>1. s = [i \in 0 .. k |-> s[i]] /\ s[0] = 0
    BY <1>0, <1>9
  <2>2. \A i \in 1 .. k : s[i - 1] \in Z => s[i] = turn[<<i, s[i - 1]>>]
    BY <1>0, <1>3, <1>9 DEF Z
  <2> HIDE DEF Def
  <2>. QED BY <1>0, <1>z, <1>2z, <2>1, <2>2, LoopIs
<1>11. s \in [0 .. k -> Int] /\ s[0] = 0 /\ \A i \in 1 .. k : s[i] = s[i - 1] + f[i] * place[i - 1]
  <2>1. s \in [0 .. k -> Int] /\ s[0] = 0 /\ \A i \in 1 .. k : s[i] = turn[<<i, s[i - 1]>>]
    BY <1>10 DEF IsLoop, Z
  <2>2. \A i \in 1 .. k : s[i - 1] \in Int
    BY <1>0, <2>1
  <2>. QED BY <1>3, <2>1, <2>2
<1>. QED BY <1>8, <1>11 DEF s

\* What adds up as the words do is the value.
AddsUp(s, f, k) ==
  /\ k \in 0 .. 2 * num_words /\ f \in [1 .. k -> Int] /\ s[0] = 0
  /\ \A i \in 1 .. k : s[i] = s[i - 1] + f[i] * place[i - 1]

\* Whatever adds up the words in their places is Value.
LEMMA ValueBy ==
  ASSUME NEW k, NEW f, NEW s, AddsUp(s, f, k)
  PROVE  Value(f) = s[k] /\ \A i \in 0 .. k : Sums(f)[i] = s[i]
<1>t. k \in 0 .. 2 * num_words /\ f \in [1 .. k -> Int] /\ s[0] = 0
  BY DEF AddsUp
<1> DEFINE T == {i \in 0 .. k : Sums(f)[i] = s[i]}
<1>0. k \in Nat
  BY <1>t, Sizes
<1>1. 0 \in T
  BY <1>t, <1>0, SumsAre
<1>2. ASSUME NEW i \in 1 .. k, i - 1 \in T PROVE i \in T
  <2>1. Sums(f)[i] = Sums(f)[i - 1] + f[i] * place[i - 1]
    BY <1>t, SumsAre
  <2>2. Sums(f)[i - 1] = s[i - 1] /\ s[i] = s[i - 1] + f[i] * place[i - 1]
    BY <1>2 DEF AddsUp
  <2>. QED BY <1>0, <2>1, <2>2
<1> HIDE DEF T
<1>3. \A i \in 0 .. k : i \in T
  BY <1>0, <1>1, <1>2, UpTo
<1>4. \A i \in 0 .. k : Sums(f)[i] = s[i]
  BY <1>3 DEF T
<1>5. Value(f) = Sums(f)[k]
  BY <1>t, SumsAre
<1>6. k \in 0 .. k
  BY <1>0
<1>. QED BY <1>4, <1>5, <1>6

\* The first words are less than the next place.
LEMMA SumsBounded ==
  ASSUME NEW k \in 0 .. 2 * num_words, NEW f \in Vlis(k)
  PROVE  f \in [1 .. k -> Int] /\ \A i \in 0 .. k : Sums(f)[i] \in 0 .. place[i] - 1
<1> DEFINE T == {i \in 0 .. k : Sums(f)[i] \in 0 .. place[i] - 1}
<1>0. k \in Nat /\ W \in Nat /\ num_words \in Nat
  BY WIs
<1>1. f \in [1 .. k -> Int]
  BY <1>0 DEF Vlis
<1>2. 0 \in T
  <2>1. Sums(f)[0] = 0
    BY <1>1, SumsAre
  <2>2. place[0] = 1
    BY PlaceIs
  <2>. QED BY <1>0, <2>1, <2>2
<1>3. ASSUME NEW i \in 1 .. k, i - 1 \in T PROVE i \in T
  <2>1. Sums(f)[i] = Sums(f)[i - 1] + f[i] * place[i - 1]
    BY <1>1, SumsAre
  <2>2. Sums(f)[i - 1] \in 0 .. place[i - 1] - 1
    BY <1>3
  <2>3. place[i - 1] \in Nat \ {0} /\ place[i] = W * place[i - 1]
    BY <1>0, PlaceIs
  <2>4. f[i] \in 0 .. W - 1
    BY DEF Vlis
  <2>5. place[i - 1] * f[i] \in Nat /\ place[i - 1] * f[i] <= place[i - 1] * (W - 1)
    BY <1>0, <2>3, <2>4, Product, ProductMonotonic
  <2>6. place[i - 1] * (W - 1) = W * place[i - 1] - place[i - 1]
    BY <1>0, <2>3
  <2>7. Sums(f)[i] \in 0 .. place[i] - 1
    BY <1>0, <2>1, <2>2, <2>3, <2>4, <2>5, <2>6
  <2>. QED BY <1>0, <2>7
<1> HIDE DEF T
<1>4. \A i \in 0 .. k : i \in T
  BY <1>0, <1>2, <1>3, UpTo
<1>. QED BY <1>1, <1>4 DEF T

\* k words stand for less than the k-th place.
LEMMA ValueBounded ==
  ASSUME NEW k \in 0 .. 2 * num_words, NEW f \in Vlis(k)
  PROVE  Value(f) \in 0 .. place[k] - 1 /\ place[k] \in Nat \ {0}
<1>0. k \in 0 .. k /\ k \in Nat /\ num_words \in Nat
  BY WIs
<1>1. f \in [1 .. k -> Int] /\ Sums(f)[k] \in 0 .. place[k] - 1
  BY <1>0, SumsBounded
<1>2. Value(f) = Sums(f)[k]
  BY <1>1, SumsAre
<1>. QED BY <1>0, <1>1, <1>2, PlaceIs

\* The first words that differ, from the most significant one, tell which number is greater.
FirstDifference(f, g, k, i) == i \in 1 .. k /\ f[i] # g[i] /\ \A j \in i + 1 .. k : f[j] = g[j]

\* Numbers that differ somewhere have a first difference.
LEMMA DifferenceExists ==
  ASSUME NEW k \in Nat, NEW f, NEW g, \E i \in 1 .. k : f[i] # g[i]
  PROVE  \E i \in 1 .. k : FirstDifference(f, g, k, i)
<1> SUFFICES ASSUME \A i \in 1 .. k : ~FirstDifference(f, g, k, i) PROVE FALSE
  OBVIOUS
<1> DEFINE T == {j \in 0 .. k : \A i \in k - j + 1 .. k : f[i] = g[i]}
<1>1. 0 \in T
  OBVIOUS
<1>2. ASSUME NEW j \in 1 .. k, j - 1 \in T PROVE j \in T
  <2> DEFINE i == k - j + 1
  <2>1. i \in 1 .. k /\ \A m \in i + 1 .. k : f[m] = g[m]
    BY <1>2
  <2>2. f[i] = g[i]
    BY <2>1 DEF FirstDifference
  <2>. QED BY <2>1, <2>2
<1>3. k \in 0 .. k
  OBVIOUS
<1> HIDE DEF T
<1>4. k \in T
  BY <1>1, <1>2, <1>3, UpTo
<1>5. \A i \in 1 .. k : f[i] = g[i]
  BY <1>4 DEF T
<1>. QED BY <1>5

\* Whoever is greater at the first difference is greater.
LEMMA DifferenceDecides ==
  ASSUME NEW k \in 0 .. 2 * num_words, NEW f \in Vlis(k), NEW g \in Vlis(k),
         NEW i \in 1 .. k, FirstDifference(f, g, k, i), f[i] > g[i]
  PROVE  Value(f) > Value(g)
<1> DEFINE d(j) == Sums(f)[j] - Sums(g)[j]
           T == {j \in 0 .. k - i : d(i + j) > 0}
<1>0. k \in Nat /\ W \in Nat /\ num_words \in Nat
  BY WIs
<1>t. f \in [1 .. k -> Int] /\ g \in [1 .. k -> Int]
  BY SumsBounded
<1>1. Sums(f) \in [0 .. k -> Int] /\ Sums(g) \in [0 .. k -> Int]
  BY <1>t, SumsAre
<1>2. \A j \in 1 .. k : Sums(f)[j] = Sums(f)[j - 1] + f[j] * place[j - 1]
                        /\ Sums(g)[j] = Sums(g)[j - 1] + g[j] * place[j - 1]
  BY <1>t, SumsAre
<1>3. \A j \in 1 .. k : f[j] \in Int /\ g[j] \in Int /\ place[j - 1] \in Nat \ {0}
  BY <1>t, PlaceAt
<1>4. 0 \in T
  <2>1. Sums(f)[i - 1] \in 0 .. place[i - 1] - 1 /\ Sums(g)[i - 1] \in 0 .. place[i - 1] - 1
    BY <1>0, SumsBounded
  <2>2. place[i - 1] * (g[i] + 1) <= place[i - 1] * f[i]
    BY <1>3, ProductMonotonic
  <2>3. place[i - 1] * (g[i] + 1) = g[i] * place[i - 1] + place[i - 1] /\ place[i - 1] * f[i] = f[i] * place[i - 1]
    BY <1>3
  <2>4. f[i] * place[i - 1] \in Int /\ g[i] * place[i - 1] \in Int
    BY <1>3
  <2>5. d(i) > 0
    BY <1>2, <1>3, <2>1, <2>2, <2>3, <2>4
  <2>. QED BY <1>0, <2>5
<1>5. ASSUME NEW j \in 1 .. k - i, j - 1 \in T PROVE j \in T
  <2>1. i + j \in 1 .. k /\ f[i + j] = g[i + j] /\ (i + j) - 1 = i + (j - 1)
    BY <1>0 DEF FirstDifference
  <2>2. d(i + j) = d(i + (j - 1))
    <3> DEFINE m == i + j
               p == f[m] * place[m - 1]
    <3>1. Sums(f)[m] = Sums(f)[m - 1] + p /\ Sums(g)[m] = Sums(g)[m - 1] + p
      BY <1>2, <2>1
    <3>2. p \in Int /\ Sums(f)[m - 1] \in Int /\ Sums(g)[m - 1] \in Int
      <4>1. m \in 1 .. k /\ m - 1 \in 0 .. k
        BY <1>0, <2>1
      <4>2. f[m] \in Int /\ place[m - 1] \in Int
        BY <1>3, <4>1
      <4>3. Sums(f)[m - 1] \in Int /\ Sums(g)[m - 1] \in Int
        <5> HIDE DEF m
        <5>. QED BY <1>1, <4>1
      <4> HIDE DEF m
      <4>4. p \in Int
        BY <4>2
      <4>. QED BY <4>3, <4>4
    <3>3. d(m) = d(m - 1)
      <4> HIDE DEF p, m
      <4>. QED BY <3>1, <3>2
    <3>. QED BY <2>1, <3>3
  <2>. QED BY <1>5, <2>2
<1>6. k - i \in Nat /\ i + (k - i) = k
  BY <1>0
<1> HIDE DEF T
<1>7. k - i \in T
  BY <1>4, <1>5, <1>6, UpTo
<1>8. d(k) > 0
  BY <1>6, <1>7 DEF T
<1>9. Value(f) = Sums(f)[k] /\ Value(g) = Sums(g)[k]
  BY <1>t, SumsAre
<1>. QED BY <1>0, <1>1, <1>8, <1>9

\* Different numbers have different values.
LEMMA SameValue ==
  ASSUME NEW k \in 0 .. 2 * num_words, NEW f \in Vlis(k), NEW g \in Vlis(k), Value(f) = Value(g)
  PROVE  f = g
<1>0. k \in Nat /\ W \in Nat
  BY WIs
<1> SUFFICES ASSUME f # g PROVE FALSE
  OBVIOUS
<1>1. \E i \in 1 .. k : f[i] # g[i]
  BY DEF Vlis
<1>2. PICK i \in 1 .. k : FirstDifference(f, g, k, i)
  BY <1>0, <1>1, DifferenceExists
<1>3. FirstDifference(g, f, k, i) /\ f[i] # g[i]
  BY <1>2 DEF FirstDifference
<1>4. f[i] \in Int /\ g[i] \in Int
  BY <1>0 DEF Vlis
<1>5. Value(f) \in Int /\ Value(g) \in Int
  BY ValueBounded
<1>6. f[i] > g[i] \/ g[i] > f[i]
  BY <1>3, <1>4
<1>. QED BY <1>2, <1>3, <1>5, <1>6, DifferenceDecides

\* The words of a number.
LEMMA WordsOf ==
  ASSUME NEW k \in 0 .. 2 * num_words, NEW x \in 0 .. place[k] - 1, NEW f,
         f = [i \in 1 .. k |-> (x \div place[i - 1]) % W]
  PROVE  f \in Vlis(k) /\ Value(f) = x
<1> DEFINE q(i) == x \div place[i]
           T == {i \in 0 .. k : x = Sums(f)[i] + place[i] * q(i)}
<1>0. k \in Nat /\ W \in Nat \ {0} /\ num_words \in Nat
  BY WIs
<1>1. \A i \in 0 .. k : place[i] \in Nat \ {0}
  BY <1>0, PlaceIs
<1>2. x \in Nat
  BY <1>0, <1>1
<1>3. \A i \in 0 .. k : q(i) \in Nat
  BY <1>1, <1>2, DivMod
<1>4. \A i \in 1 .. k : f[i] \in 0 .. W - 1 /\ q(i - 1) = W * q(i) + f[i]
  <2> TAKE i \in 1 .. k
  <2>1. q(i - 1) \in Nat /\ f[i] = q(i - 1) % W
    BY <1>0, <1>3
  <2>2. q(i) = q(i - 1) \div W
    <3>1. place[i] = place[i - 1] * W
      BY <1>0, <1>1, PlaceIs
    <3>2. x \div (place[i - 1] * W) = (x \div place[i - 1]) \div W
      BY <1>0, <1>1, <1>2, DivDiv
    <3>. QED BY <3>1, <3>2
  <2> HIDE DEF q
  <2>. QED BY <1>0, <2>1, <2>2, DivMod
<1>5. f \in Vlis(k) /\ f \in [1 .. k -> Int]
  <2>1. f \in Vlis(k)
    BY <1>4 DEF Vlis
  <2>. QED BY <2>1, SumsBounded
<1> DEFINE s == Sums(f)
<1> HIDE DEF s, q
<1>6. s \in [0 .. k -> Int] /\ s[0] = 0 /\ Value(f) = s[k] /\ \A i \in 1 .. k : s[i] = s[i - 1] + f[i] * place[i - 1]
  BY <1>5, SumsAre DEF s
<1>7. 0 \in T
  <2>1. place[0] = 1 /\ q(0) = x
    BY <1>2, PlaceIs DEF q
  <2>2. x = s[0] + place[0] * q(0)
    BY <1>2, <1>6, <2>1
  <2>3. 0 \in 0 .. k
    BY <1>0
  <2>. QED BY <2>2, <2>3 DEF s
<1>8. ASSUME NEW i \in 1 .. k, i - 1 \in T PROVE i \in T
  <2>1. x = s[i - 1] + place[i - 1] * q(i - 1)
    BY <1>8 DEF s
  <2>2. place[i] = W * place[i - 1] /\ place[i - 1] \in Nat /\ q(i) \in Nat /\ f[i] \in Int
    <3>1. i \in 0 .. k
      BY <1>0
    <3>2. place[i] = W * place[i - 1] /\ place[i - 1] \in Nat
      BY PlaceAt
    <3>. QED BY <1>3, <1>5, <3>1, <3>2
  <2>3. place[i - 1] * q(i - 1) = place[i] * q(i) + f[i] * place[i - 1]
    <3> DEFINE p == place[i - 1]
               w == f[i]
               y == q(i)
               z == q(i - 1)
    <3>1. z = W * y + w /\ place[i] = W * p
      BY <1>4, <2>2
    <3>2. p \in Int /\ w \in Int /\ y \in Int /\ W \in Int
      BY <1>0, <2>2
    <3> HIDE DEF p, w, y, z
    <3>3. p * (W * y + w) = (W * p) * y + w * p
      BY <3>2
    <3>4. p * z = place[i] * y + w * p
      BY <3>1, <3>3
    <3>. QED BY <3>4 DEF p, w, y, z
  <2>4. s[i] = s[i - 1] + f[i] * place[i - 1]
    BY <1>6
  <2>5. s[i - 1] \in Int /\ f[i] * place[i - 1] \in Int /\ place[i] * q(i) \in Int
    <3>1. s[i - 1] \in Int
      BY <1>0, <1>6
    <3>2. f[i] * place[i - 1] \in Int
      BY <2>2
    <3>3. place[i] * q(i) \in Int
      <4>1. place[i] \in Int
        BY <1>0, <2>2
      <4>. QED BY <2>2, <4>1
    <3>. QED BY <3>1, <3>2, <3>3
  <2>6. x = s[i] + place[i] * q(i)
    BY <2>1, <2>3, <2>4, <2>5
  <2>7. i \in 0 .. k
    BY <1>0
  <2>. QED BY <2>6, <2>7 DEF s
<1> HIDE DEF T
<1>9. \A i \in 0 .. k : i \in T
  BY <1>0, <1>7, <1>8, UpTo
<1>10. x = s[k] + place[k] * q(k)
  BY <1>0, <1>9 DEF T, s
<1>11. q(k) = 0
  BY <1>0, <1>1, <1>2, ModSmall DEF q
<1>12. place[k] \in Int /\ s[k] \in Int
  BY <1>0, <1>1, <1>6
<1>. QED BY <1>5, <1>6, <1>10, <1>11, <1>12

\* A word of a number, from its value.
LEMMA WordIs ==
  ASSUME NEW k \in 0 .. 2 * num_words, NEW f \in Vlis(k), NEW i \in 1 .. k
  PROVE  (Value(f) \div place[i - 1]) % W = f[i]
<1> DEFINE x == Value(f)
           g == [j \in 1 .. k |-> (x \div place[j - 1]) % W]
<1>1. x \in 0 .. place[k] - 1
  BY ValueBounded
<1> HIDE DEF x
<1>2. g \in Vlis(k) /\ Value(g) = x
  BY <1>1, WordsOf
<1>3. g[i] = (x \div place[i - 1]) % W
  OBVIOUS
<1> HIDE DEF g
<1>4. Value(g) = Value(f)
  BY <1>2 DEF x
<1>5. g = f
  BY <1>2, <1>4, SameValue
<1>. QED BY <1>3, <1>5 DEF x

-----------------------------------------------------------------------------
(* Sums, differences, comparisons and shifts.                              *)

\* One word of a sum and of a difference, and the carry or borrow that goes on.
AddTurned(x, y, before, sum, after) ==
  /\ x \in 0 .. W - 1 /\ y \in 0 .. W - 1 /\ before \in {0, 1} /\ sum = (x + y + before) % W
  /\ after = IF sum # x THEN Bit(sum < x) ELSE before
AddGood(x, y, before, sum, after) ==
  sum \in 0 .. W - 1 /\ after \in {0, 1} /\ sum + W * after = x + y + before

\* The comparison of the sum with a summand finds the carry, the case that they are equal included.
LEMMA AddWord ==
  ASSUME NEW x, NEW y, NEW before, NEW sum, NEW after, AddTurned(x, y, before, sum, after)
  PROVE  AddGood(x, y, before, sum, after)
<1>0. /\ x \in 0 .. W - 1 /\ y \in 0 .. W - 1 /\ before \in {0, 1} /\ sum = (x + y + before) % W
      /\ after = IF sum # x THEN Bit(sum < x) ELSE before
  BY DEF AddTurned
<1> SUFFICES sum \in 0 .. W - 1 /\ after \in {0, 1} /\ sum + W * after = x + y + before
  BY DEF AddGood
<1> DEFINE m == x + y + before
<1>1. W \in Nat \ {0} /\ x \in Nat /\ y \in Nat /\ m \in Nat /\ sum = m % W /\ m < 2 * W
  BY <1>0, Sizes
<1>2. m = x + y + before
  OBVIOUS
<1> HIDE DEF m
<1>3. CASE m < W
  <2>1. sum = m
    BY <1>1, <1>3, ModSmall
  <2>2. after = 0
    BY <1>0, <1>1, <1>2, <2>1 DEF Bit
  <2>. QED BY <1>1, <1>2, <1>3, <2>1, <2>2
<1>4. CASE m >= W
  <2>0. m % W = m - W
    <3>1. W \in Nat \ {0} /\ m \in Int /\ W <= m /\ m - W < W
      BY <1>1, <1>4
    <3>. QED BY <3>1, ModAbove
  <2>1. sum = m - W
    BY <1>1, <2>0
  <2>2. after = 1
    BY <1>0, <1>1, <1>2, <2>1 DEF Bit
  <2>. QED BY <1>1, <1>2, <1>4, <2>1, <2>2
<1>. QED BY <1>1, <1>3, <1>4

SubTurned(x, y, before, diff, after) ==
  /\ x \in 0 .. W - 1 /\ y \in 0 .. W - 1 /\ before \in {0, 1} /\ diff = (x - y - before) % W
  /\ after = IF diff # x THEN Bit(diff > x) ELSE before
SubGood(x, y, before, diff, after) ==
  diff \in 0 .. W - 1 /\ after \in {0, 1} /\ diff - W * after = x - y - before

\* The comparison of the difference with the minuend finds the borrow.
LEMMA SubWord ==
  ASSUME NEW x, NEW y, NEW before, NEW diff, NEW after, SubTurned(x, y, before, diff, after)
  PROVE  SubGood(x, y, before, diff, after)
<1>0. /\ x \in 0 .. W - 1 /\ y \in 0 .. W - 1 /\ before \in {0, 1} /\ diff = (x - y - before) % W
      /\ after = IF diff # x THEN Bit(diff > x) ELSE before
  BY DEF SubTurned
<1> SUFFICES diff \in 0 .. W - 1 /\ after \in {0, 1} /\ diff - W * after = x - y - before
  BY DEF SubGood
<1> DEFINE m == x - y - before
<1>1. W \in Nat \ {0} /\ x \in Nat /\ y \in Nat /\ m \in Int /\ diff = m % W /\ m < W /\ m >= -W
  BY <1>0, Sizes
<1>2. m = x - y - before
  OBVIOUS
<1> HIDE DEF m
<1>3. CASE m >= 0
  <2>1. diff = m
    BY <1>1, <1>3, ModSmall
  <2>2. after = 0
    BY <1>0, <1>1, <1>2, <2>1 DEF Bit
  <2>. QED BY <1>1, <1>2, <1>3, <2>1, <2>2
<1>4. CASE m < 0
  <2>1. diff = m + W
    BY <1>1, <1>4, ModBelow
  <2>2. after = 1
    BY <1>0, <1>1, <1>2, <2>1 DEF Bit
  <2>. QED BY <1>1, <1>2, <1>4, <2>1, <2>2
<1>. QED BY <1>1, <1>3, <1>4

\* The carries of a sum, and the borrows of a difference.
AddTurn(x, y, i, before) ==
  LET sum == (x[i] + y[i] + before) % W IN IF sum # x[i] THEN Bit(sum < x[i]) ELSE before
SubTurn(x, y, i, before) ==
  LET diff == (x[i] - y[i] - before) % W IN IF diff # x[i] THEN Bit(diff > x[i]) ELSE before
AddCarry(x, y) ==
  LET c[i \in 0 .. num_words] ==
        IF i = 0 THEN 0
        ELSE LET before == c[i - 1] sum == (x[i] + y[i] + before) % W
             IN  IF sum # x[i] THEN Bit(sum < x[i]) ELSE before
  IN  c
SubCarry(x, y) ==
  LET c[i \in 0 .. num_words] ==
        IF i = 0 THEN 0
        ELSE LET before == c[i - 1] diff == (x[i] - y[i] - before) % W
             IN  IF diff # x[i] THEN Bit(diff > x[i]) ELSE before
  IN  c

AddWords(x, y) == [i \in 1 .. num_words |-> (x[i] + y[i] + AddCarry(x, y)[i - 1]) % W]
AddBalances(x, y, c, words) ==
  /\ c \in [0 .. num_words -> {0, 1}] /\ c[0] = 0 /\ words \in Vlis(num_words)
  /\ \A i \in 1 .. num_words : words[i] + W * c[i] = x[i] + y[i] + c[i - 1]

\* Every word of vli_add balances, for the carries of the whole loop.
LEMMA AddLoop ==
  ASSUME NEW x \in Vlis(num_words), NEW y \in Vlis(num_words)
  PROVE  AddBalances(x, y, AddCarry(x, y), AddWords(x, y))
<1> DEFINE c == AddCarry(x, y)
           words == [i \in 1 .. num_words |-> (x[i] + y[i] + c[i - 1]) % W]
<1>c. c = AddCarry(x, y)
  OBVIOUS
<1>w. AddWords(x, y) = words
  BY DEF AddWords
<1> HIDE DEF c
<1> DEFINE n == num_words
           turn == [w \in (1 .. n) \X {0, 1} |-> AddTurn(x, y, w[1], w[2])]
           Def(g) == g = [i \in 0 .. n |-> IF i = 0 THEN 0 ELSE AddTurn(x, y, i, g[i - 1])]
<1>1. n \in Nat
  BY WIs
<1>2. \A i \in 1 .. n, e \in {0, 1} : AddTurn(x, y, i, e) \in {0, 1}
  BY DEF AddTurn, Bit
<1>3. turn \in [(1 .. n) \X {0, 1} -> {0, 1}]
  BY <1>2
<1>4. \A i \in 1 .. n, e \in {0, 1} : turn[<<i, e>>] = AddTurn(x, y, i, e)
  OBVIOUS
<1> HIDE DEF n, turn
<1>5. PICK g : IsLoop(g, n, {0, 1}, 0, turn)
  BY <1>1, <1>3, Loop
<1>6. \A i \in 1 .. n : g[i - 1] \in {0, 1} /\ g[i] = AddTurn(x, y, i, g[i - 1])
  <2>1. g \in [0 .. n -> {0, 1}] /\ \A i \in 1 .. n : g[i] = turn[<<i, g[i - 1]>>]
    BY <1>5 DEF IsLoop
  <2>2. \A i \in 1 .. n : g[i - 1] \in {0, 1}
    BY <1>1, <2>1
  <2>. QED BY <1>4, <2>1, <2>2
<1>7. Def(g)
  <2>1. \A i \in 0 .. n : i = 0 \/ i \in 1 .. n
    BY <1>1
  <2>2. \A i \in 0 .. n : g[i] = IF i = 0 THEN 0 ELSE AddTurn(x, y, i, g[i - 1])
    BY <1>5, <1>6, <2>1 DEF IsLoop
  <2>. QED BY <1>5, <2>2 DEF IsLoop
<1>8. Def(c)
  <2>1. c = CHOOSE h : Def(h)
    BY <1>c DEF AddCarry, AddTurn, n
  <2> HIDE DEF Def
  <2>. QED BY <1>7, <2>1
<1>9. IsLoop(c, n, {0, 1}, 0, turn)
  <2>1. c = [i \in 0 .. n |-> c[i]] /\ c[0] = 0
    BY <1>1, <1>8
  <2>2. \A i \in 1 .. n : c[i] = AddTurn(x, y, i, c[i - 1])
    BY <1>1, <1>8
  <2>3. \A i \in 1 .. n : c[i - 1] \in {0, 1} => c[i] = turn[<<i, c[i - 1]>>]
    BY <1>4, <2>2
  <2> HIDE DEF Def
  <2>. QED BY <1>1, <1>3, <2>1, <2>3, LoopIs
<1>10. c \in [0 .. n -> {0, 1}] /\ c[0] = 0
  BY <1>9 DEF IsLoop
<1>11. \A i \in 1 .. n : c[i - 1] \in {0, 1} /\ c[i] = AddTurn(x, y, i, c[i - 1])
  <2>1. \A i \in 1 .. n : c[i - 1] \in {0, 1}
    BY <1>1, <1>10
  <2>2. \A i \in 1 .. n : c[i] = turn[<<i, c[i - 1]>>]
    BY <1>9 DEF IsLoop
  <2>. QED BY <1>4, <2>1, <2>2
<1>12. \A i \in 1 .. n : words[i] \in 0 .. W - 1 /\ words[i] + W * c[i] = x[i] + y[i] + c[i - 1]
  <2> TAKE i \in 1 .. n
  <2>1. x[i] \in 0 .. W - 1 /\ y[i] \in 0 .. W - 1
    BY DEF Vlis, n
  <2>2. words[i] = (x[i] + y[i] + c[i - 1]) % W
    BY DEF n
  <2>3. c[i] = IF words[i] # x[i] THEN Bit(words[i] < x[i]) ELSE c[i - 1]
    BY <1>11, <2>2 DEF AddTurn
  <2>4. c[i - 1] \in {0, 1}
    BY <1>11
  <2> DEFINE x1 == x[i]
             y1 == y[i]
             e == c[i - 1]
             w == words[i]
             f == c[i]
  <2> HIDE DEF x1, y1, e, w, f
  <2>5. AddTurned(x1, y1, e, w, f)
    BY <2>1, <2>2, <2>3, <2>4 DEF x1, y1, e, w, f, AddTurned
  <2>6. AddGood(x1, y1, e, w, f)
    BY <2>5, AddWord
  <2>. QED BY <2>6 DEF x1, y1, e, w, f, AddGood
<1>13. words \in Vlis(n)
  BY <1>12 DEF Vlis, n
<1>. QED BY <1>c, <1>w, <1>10, <1>12, <1>13 DEF n, AddBalances

SubWords(x, y) == [i \in 1 .. num_words |-> (x[i] - y[i] - SubCarry(x, y)[i - 1]) % W]
SubBalances(x, y, c, words) ==
  /\ c \in [0 .. num_words -> {0, 1}] /\ c[0] = 0 /\ words \in Vlis(num_words)
  /\ \A i \in 1 .. num_words : words[i] - W * c[i] = x[i] - y[i] - c[i - 1]

\* Every word of vli_sub balances, for the borrows of the whole loop.
LEMMA SubLoop ==
  ASSUME NEW x \in Vlis(num_words), NEW y \in Vlis(num_words)
  PROVE  SubBalances(x, y, SubCarry(x, y), SubWords(x, y))
<1> DEFINE c == SubCarry(x, y)
           words == [i \in 1 .. num_words |-> (x[i] - y[i] - c[i - 1]) % W]
<1>c. c = SubCarry(x, y)
  OBVIOUS
<1>w. SubWords(x, y) = words
  BY DEF SubWords
<1> HIDE DEF c
<1> DEFINE n == num_words
           turn == [w \in (1 .. n) \X {0, 1} |-> SubTurn(x, y, w[1], w[2])]
           Def(g) == g = [i \in 0 .. n |-> IF i = 0 THEN 0 ELSE SubTurn(x, y, i, g[i - 1])]
<1>1. n \in Nat
  BY WIs
<1>2. \A i \in 1 .. n, e \in {0, 1} : SubTurn(x, y, i, e) \in {0, 1}
  BY DEF SubTurn, Bit
<1>3. turn \in [(1 .. n) \X {0, 1} -> {0, 1}]
  BY <1>2
<1>4. \A i \in 1 .. n, e \in {0, 1} : turn[<<i, e>>] = SubTurn(x, y, i, e)
  OBVIOUS
<1> HIDE DEF n, turn
<1>5. PICK g : IsLoop(g, n, {0, 1}, 0, turn)
  BY <1>1, <1>3, Loop
<1>6. \A i \in 1 .. n : g[i - 1] \in {0, 1} /\ g[i] = SubTurn(x, y, i, g[i - 1])
  <2>1. g \in [0 .. n -> {0, 1}] /\ \A i \in 1 .. n : g[i] = turn[<<i, g[i - 1]>>]
    BY <1>5 DEF IsLoop
  <2>2. \A i \in 1 .. n : g[i - 1] \in {0, 1}
    BY <1>1, <2>1
  <2>. QED BY <1>4, <2>1, <2>2
<1>7. Def(g)
  <2>1. \A i \in 0 .. n : i = 0 \/ i \in 1 .. n
    BY <1>1
  <2>2. \A i \in 0 .. n : g[i] = IF i = 0 THEN 0 ELSE SubTurn(x, y, i, g[i - 1])
    BY <1>5, <1>6, <2>1 DEF IsLoop
  <2>. QED BY <1>5, <2>2 DEF IsLoop
<1>8. Def(c)
  <2>1. c = CHOOSE h : Def(h)
    BY <1>c DEF SubCarry, SubTurn, n
  <2> HIDE DEF Def
  <2>. QED BY <1>7, <2>1
<1>9. IsLoop(c, n, {0, 1}, 0, turn)
  <2>1. c = [i \in 0 .. n |-> c[i]] /\ c[0] = 0
    BY <1>1, <1>8
  <2>2. \A i \in 1 .. n : c[i] = SubTurn(x, y, i, c[i - 1])
    BY <1>1, <1>8
  <2>3. \A i \in 1 .. n : c[i - 1] \in {0, 1} => c[i] = turn[<<i, c[i - 1]>>]
    BY <1>4, <2>2
  <2> HIDE DEF Def
  <2>. QED BY <1>1, <1>3, <2>1, <2>3, LoopIs
<1>10. c \in [0 .. n -> {0, 1}] /\ c[0] = 0
  BY <1>9 DEF IsLoop
<1>11. \A i \in 1 .. n : c[i - 1] \in {0, 1} /\ c[i] = SubTurn(x, y, i, c[i - 1])
  <2>1. \A i \in 1 .. n : c[i - 1] \in {0, 1}
    BY <1>1, <1>10
  <2>2. \A i \in 1 .. n : c[i] = turn[<<i, c[i - 1]>>]
    BY <1>9 DEF IsLoop
  <2>. QED BY <1>4, <2>1, <2>2
<1>12. \A i \in 1 .. n : words[i] \in 0 .. W - 1 /\ words[i] - W * c[i] = x[i] - y[i] - c[i - 1]
  <2> TAKE i \in 1 .. n
  <2>1. x[i] \in 0 .. W - 1 /\ y[i] \in 0 .. W - 1
    BY DEF Vlis, n
  <2>2. words[i] = (x[i] - y[i] - c[i - 1]) % W
    BY DEF n
  <2>3. c[i] = IF words[i] # x[i] THEN Bit(words[i] > x[i]) ELSE c[i - 1]
    BY <1>11, <2>2 DEF SubTurn
  <2>4. c[i - 1] \in {0, 1}
    BY <1>11
  <2> DEFINE x1 == x[i]
             y1 == y[i]
             e == c[i - 1]
             w == words[i]
             f == c[i]
  <2> HIDE DEF x1, y1, e, w, f
  <2>5. SubTurned(x1, y1, e, w, f)
    BY <2>1, <2>2, <2>3, <2>4 DEF x1, y1, e, w, f, SubTurned
  <2>6. SubGood(x1, y1, e, w, f)
    BY <2>5, SubWord
  <2>. QED BY <2>6 DEF x1, y1, e, w, f, SubGood
<1>13. words \in Vlis(n)
  BY <1>12 DEF Vlis, n
<1>. QED BY <1>c, <1>w, <1>10, <1>12, <1>13 DEF n, SubBalances

\* When every word balances with a carry of weight sign, so do the values.
Balanced(words, x, y, c, sign, k) ==
  /\ k \in 0 .. 2 * num_words /\ sign \in Int /\ c \in [0 .. k -> Int] /\ c[0] = 0
  /\ x \in [1 .. k -> Int] /\ y \in [1 .. k -> Int] /\ words \in [1 .. k -> Int]
  /\ \A i \in 1 .. k : words[i] + sign * (W * c[i]) = x[i] + sign * (y[i] + c[i - 1])

BalanceBefore(sign, w, p, e, f, x, y, z, s, t, q) ==
  /\ w \in Int /\ p \in Int /\ e \in Int /\ f \in Int /\ x \in Int /\ y \in Int /\ z \in Int
  /\ s \in Int /\ t \in Int /\ q \in Int /\ sign \in Int
  /\ x + sign * (w * f) = y + sign * (z + e) /\ s + sign * (p * e) = t + sign * q
BalanceAfter(sign, w, p, e, f, x, y, z, s, t, q) ==
  (s + x * p) + sign * ((w * p) * f) = (t + y * p) + sign * (q + z * p)

\* One more word keeps the balance.
LEMMA BalanceStep ==
  ASSUME NEW sign, NEW w, NEW p, NEW e, NEW f, NEW x, NEW y, NEW z, NEW s, NEW t, NEW q,
         BalanceBefore(sign, w, p, e, f, x, y, z, s, t, q)
  PROVE  BalanceAfter(sign, w, p, e, f, x, y, z, s, t, q)
<1>0. /\ w \in Int /\ p \in Int /\ e \in Int /\ f \in Int /\ x \in Int /\ y \in Int /\ z \in Int
      /\ s \in Int /\ t \in Int /\ q \in Int /\ sign \in Int
      /\ x + sign * (w * f) = y + sign * (z + e) /\ s + sign * (p * e) = t + sign * q
  BY DEF BalanceBefore
<1> SUFFICES (s + x * p) + sign * ((w * p) * f) = (t + y * p) + sign * (q + z * p)
  BY DEF BalanceAfter
<1>1. (x + sign * (w * f)) * p = (y + sign * (z + e)) * p
  BY <1>0
<1>2. (x + sign * (w * f)) * p = x * p + sign * ((w * p) * f)
  BY <1>0
<1>3. (y + sign * (z + e)) * p = y * p + sign * (z * p) + sign * (p * e)
  BY <1>0
<1>4. sign * (q + z * p) = sign * q + sign * (z * p)
  BY <1>0
<1>5. x * p \in Int /\ y * p \in Int /\ sign * (z * p) \in Int /\ sign * (p * e) \in Int /\ sign * q \in Int
      /\ sign * ((w * p) * f) \in Int
  BY <1>0
<1>. QED BY <1>0, <1>1, <1>2, <1>3, <1>4, <1>5

ValuesBalance(words, x, y, c, sign, k) == Value(words) + sign * (place[k] * c[k]) = Value(x) + sign * Value(y)

\* Words that balance one by one balance as numbers.
LEMMA Balance ==
  ASSUME NEW k, NEW sign, NEW c, NEW x, NEW y, NEW words, Balanced(words, x, y, c, sign, k)
  PROVE  ValuesBalance(words, x, y, c, sign, k)
<1>t. /\ k \in 0 .. 2 * num_words /\ sign \in Int /\ c \in [0 .. k -> Int] /\ c[0] = 0
      /\ x \in [1 .. k -> Int] /\ y \in [1 .. k -> Int] /\ words \in [1 .. k -> Int]
  BY DEF Balanced
<1>0. k \in Nat /\ W \in Nat /\ num_words \in Nat
  BY <1>t, Sizes
<1> DEFINE s == Sums(words)
           t == Sums(x)
           u1 == Sums(y)
           T == {i \in 0 .. k : s[i] + sign * (place[i] * c[i]) = t[i] + sign * u1[i]}
<1>1. /\ s \in [0 .. k -> Int] /\ s[0] = 0 /\ Value(words) = s[k]
      /\ \A i \in 1 .. k : s[i] = s[i - 1] + words[i] * place[i - 1]
  BY <1>t, SumsAre
<1>2. /\ t \in [0 .. k -> Int] /\ t[0] = 0 /\ Value(x) = t[k]
      /\ \A i \in 1 .. k : t[i] = t[i - 1] + x[i] * place[i - 1]
  BY <1>t, SumsAre
<1>3. /\ u1 \in [0 .. k -> Int] /\ u1[0] = 0 /\ Value(y) = u1[k]
      /\ \A i \in 1 .. k : u1[i] = u1[i - 1] + y[i] * place[i - 1]
  BY <1>t, SumsAre
<1> HIDE DEF s, t, u1
<1>4. 0 \in T
  <2>1. place[0] = 1 /\ 0 \in 0 .. k
    BY <1>0, PlaceIs
  <2>2. s[0] + sign * (place[0] * c[0]) = t[0] + sign * u1[0]
    BY <1>t, <1>1, <1>2, <1>3, <2>1
  <2>. QED BY <2>1, <2>2
<1>5. ASSUME NEW i \in 1 .. k, i - 1 \in T PROVE i \in T
  <2>1. s[i - 1] + sign * (place[i - 1] * c[i - 1]) = t[i - 1] + sign * u1[i - 1]
    BY <1>5
  <2>2. place[i] = W * place[i - 1] /\ place[i - 1] \in Int
    BY <1>t, PlaceAt
  <2>3. i \in 0 .. k /\ i - 1 \in 0 .. k
    BY <1>0
  <2>4. c[i] \in Int /\ c[i - 1] \in Int /\ x[i] \in Int /\ y[i] \in Int /\ words[i] \in Int
    BY <1>t, <2>3
  <2>5. s[i - 1] \in Int /\ t[i - 1] \in Int /\ u1[i - 1] \in Int
    BY <1>1, <1>2, <1>3, <2>3
  <2>6. words[i] + sign * (W * c[i]) = x[i] + sign * (y[i] + c[i - 1])
    BY DEF Balanced
  <2>7. s[i] = s[i - 1] + words[i] * place[i - 1] /\ t[i] = t[i - 1] + x[i] * place[i - 1]
        /\ u1[i] = u1[i - 1] + y[i] * place[i - 1]
    BY <1>1, <1>2, <1>3
  <2>8. W \in Int
    BY <1>0
  <2>9. (s[i - 1] + words[i] * place[i - 1]) + sign * ((W * place[i - 1]) * c[i])
        = (t[i - 1] + x[i] * place[i - 1]) + sign * (u1[i - 1] + y[i] * place[i - 1])
    <3> DEFINE p == place[i - 1]
               e == c[i - 1]
               f == c[i]
               xi == x[i]
               yi == y[i]
               wi == words[i]
               s1 == s[i - 1]
               t1 == t[i - 1]
               q1 == u1[i - 1]
    <3>1. /\ p \in Int /\ e \in Int /\ f \in Int /\ xi \in Int /\ yi \in Int /\ wi \in Int
          /\ s1 \in Int /\ t1 \in Int /\ q1 \in Int
      BY <2>2, <2>4, <2>5
    <3>2. wi + sign * (W * f) = xi + sign * (yi + e)
      BY <2>6
    <3>3. s1 + sign * (p * e) = t1 + sign * q1
      BY <2>1
    <3> HIDE DEF p, e, f, xi, yi, wi, s1, t1, q1
    <3>4. BalanceBefore(sign, W, p, e, f, wi, xi, yi, s1, t1, q1)
      BY <1>t, <2>8, <3>1, <3>2, <3>3 DEF BalanceBefore
    <3>5. BalanceAfter(sign, W, p, e, f, wi, xi, yi, s1, t1, q1)
      BY <3>4, BalanceStep
    <3>. QED BY <3>5 DEF BalanceAfter, p, e, f, xi, yi, wi, s1, t1, q1
  <2>. QED BY <2>2, <2>3, <2>7, <2>9
<1> HIDE DEF T
<1>6. \A i \in 0 .. k : i \in T
  BY <1>0, <1>4, <1>5, UpTo
<1>7. k \in 0 .. k
  BY <1>0
<1>. QED BY <1>1, <1>2, <1>3, <1>6, <1>7 DEF T, ValuesBalance

\* uECC_vli_add: sum and carry are those of the numbers.
LEMMA AddIs ==
  ASSUME NEW x \in Vlis(num_words), NEW y \in Vlis(num_words)
  PROVE  /\ vli_add(x, y).words \in Vlis(num_words) /\ vli_add(x, y).carry \in {0, 1}
         /\ Value(vli_add(x, y).words) + Size * vli_add(x, y).carry = Value(x) + Value(y)
<1> DEFINE c == AddCarry(x, y)
           words == AddWords(x, y)
<1>1. vli_add(x, y) = [carry |-> c[num_words], words |-> words]
  BY DEF vli_add, AddCarry, AddWords
<1> HIDE DEF c, words
<1>2. AddBalances(x, y, c, words)
  BY AddLoop DEF c, words
<1>2a. /\ c \in [0 .. num_words -> {0, 1}] /\ c[0] = 0 /\ words \in Vlis(num_words)
       /\ \A i \in 1 .. num_words : words[i] + W * c[i] = x[i] + y[i] + c[i - 1]
  BY <1>2 DEF AddBalances
<1>3. num_words \in Nat /\ W \in Nat /\ num_words \in 0 .. 2 * num_words
  BY WIs
<1>4. x \in [1 .. num_words -> Int] /\ y \in [1 .. num_words -> Int] /\ words \in [1 .. num_words -> Int]
  BY <1>2a, <1>3, SumsBounded
<1>5. c \in [0 .. num_words -> Int]
  BY <1>2a
<1> DEFINE sign == 1
<1>6. Balanced(words, x, y, c, sign, num_words)
  <2> SUFFICES ASSUME NEW i \in 1 .. num_words
               PROVE  words[i] + sign * (W * c[i]) = x[i] + sign * (y[i] + c[i - 1])
    BY <1>2a, <1>3, <1>4, <1>5 DEF Balanced
  <2>1. i \in 0 .. num_words /\ i - 1 \in 0 .. num_words
    BY <1>3
  <2>2. c[i] \in Int /\ c[i - 1] \in Int /\ W * c[i] \in Int /\ x[i] \in Int /\ y[i] \in Int
    BY <1>3, <1>4, <1>5, <2>1
  <2>. QED BY <1>2a, <2>2
<1>7. ValuesBalance(words, x, y, c, sign, num_words)
  <2> HIDE DEF sign
  <2>. QED BY <1>6, Balance
<1>8. Value(words) + 1 * (place[num_words] * c[num_words]) = Value(x) + 1 * Value(y)
  BY <1>7 DEF ValuesBalance
<1>9. place[num_words] \in Int /\ Value(y) \in Int /\ Value(x) \in Int /\ Value(words) \in Int
  BY <1>2a, <1>3, ValueBounded
<1>10. c[num_words] \in {0, 1}
  BY <1>2a, <1>3
<1>. QED BY <1>1, <1>2a, <1>8, <1>9, <1>10 DEF Size

\* uECC_vli_sub: difference and borrow are those of the numbers.
LEMMA SubIs ==
  ASSUME NEW x \in Vlis(num_words), NEW y \in Vlis(num_words)
  PROVE  /\ vli_sub(x, y).words \in Vlis(num_words) /\ vli_sub(x, y).carry \in {0, 1}
         /\ Value(vli_sub(x, y).words) - Size * vli_sub(x, y).carry = Value(x) - Value(y)
<1> DEFINE c == SubCarry(x, y)
           words == SubWords(x, y)
<1>1. vli_sub(x, y) = [carry |-> c[num_words], words |-> words]
  BY DEF vli_sub, SubCarry, SubWords
<1> HIDE DEF c, words
<1>2. SubBalances(x, y, c, words)
  BY SubLoop DEF c, words
<1>2a. /\ c \in [0 .. num_words -> {0, 1}] /\ c[0] = 0 /\ words \in Vlis(num_words)
       /\ \A i \in 1 .. num_words : words[i] - W * c[i] = x[i] - y[i] - c[i - 1]
  BY <1>2 DEF SubBalances
<1>3. num_words \in Nat /\ W \in Nat /\ num_words \in 0 .. 2 * num_words
  BY WIs
<1>4. x \in [1 .. num_words -> Int] /\ y \in [1 .. num_words -> Int] /\ words \in [1 .. num_words -> Int]
  BY <1>2a, <1>3, SumsBounded
<1>5. c \in [0 .. num_words -> Int]
  BY <1>2a
<1> DEFINE sign == (-1)
<1>6. Balanced(words, x, y, c, sign, num_words)
  <2> SUFFICES ASSUME NEW i \in 1 .. num_words
               PROVE  words[i] + sign * (W * c[i]) = x[i] + sign * (y[i] + c[i - 1])
    BY <1>2a, <1>3, <1>4, <1>5 DEF Balanced
  <2>1. i \in 0 .. num_words /\ i - 1 \in 0 .. num_words
    BY <1>3
  <2>2. c[i] \in Int /\ c[i - 1] \in Int /\ W * c[i] \in Int /\ x[i] \in Int /\ y[i] \in Int /\ words[i] \in Int
    BY <1>3, <1>4, <1>5, <2>1
  <2>. QED BY <1>2a, <2>2
<1>7. ValuesBalance(words, x, y, c, sign, num_words)
  <2> HIDE DEF sign
  <2>. QED BY <1>6, Balance
<1>8. Value(words) + (-1) * (place[num_words] * c[num_words]) = Value(x) + (-1) * Value(y)
  BY <1>7 DEF ValuesBalance
<1>9. place[num_words] \in Int /\ Value(y) \in Int /\ Value(x) \in Int /\ Value(words) \in Int
  BY <1>2a, <1>3, ValueBounded
<1>10. c[num_words] \in {0, 1}
  BY <1>2a, <1>3
<1>. QED BY <1>1, <1>2a, <1>8, <1>9, <1>10 DEF Size

\* Comparisons.
LEMMA CmpUnsafeIs ==
  ASSUME NEW x \in Vlis(num_words), NEW y \in Vlis(num_words)
  PROVE  /\ Value(x) > Value(y) => cmp_unsafe(x, y) = 1
         /\ Value(x) < Value(y) => cmp_unsafe(x, y) = -1
         /\ Value(x) = Value(y) => cmp_unsafe(x, y) = 0
<1>0. num_words \in Nat /\ W \in Nat /\ num_words \in 0 .. 2 * num_words
  BY Sizes
<1>1. Value(x) \in Int /\ Value(y) \in Int
  BY <1>0, ValueBounded
<1>2. CASE x = y
  BY <1>1, <1>2 DEF cmp_unsafe
<1>3. CASE x # y
  <2> DEFINE First(j) == j \in 1 .. num_words /\ x[j] # y[j] /\ \A k \in j + 1 .. num_words : x[k] = y[k]
             i == CHOOSE j \in 1 .. num_words : x[j] # y[j] /\ \A k \in j + 1 .. num_words : x[k] = y[k]
  <2>1. \E j \in 1 .. num_words : x[j] # y[j]
    <3>1. x = [j \in 1 .. num_words |-> x[j]] /\ y = [j \in 1 .. num_words |-> y[j]]
      BY DEF Vlis
    <3>. QED BY <1>3, <3>1
  <2>2. \E j \in 1 .. num_words : x[j] # y[j] /\ \A k \in j + 1 .. num_words : x[k] = y[k]
    <3>1. \E j \in 1 .. num_words : FirstDifference(x, y, num_words, j)
      BY <1>0, <2>1, DifferenceExists
    <3>. QED BY <3>1 DEF FirstDifference
  <2>3. i \in 1 .. num_words /\ FirstDifference(x, y, num_words, i) /\ FirstDifference(y, x, num_words, i)
    BY <2>2 DEF FirstDifference
  <2>4. Len(x) = num_words /\ DOMAIN x = 1 .. num_words
    BY <1>0, LenIs DEF Vlis
  <2>5. cmp_unsafe(x, y) = IF x[i] > y[i] THEN 1 ELSE -1
    BY <1>3, <2>4 DEF cmp_unsafe
  <2> HIDE DEF i
  <2>6. x[i] \in Int /\ y[i] \in Int /\ x[i] # y[i]
    BY <1>0, <2>3 DEF Vlis, FirstDifference
  <2>7. CASE x[i] > y[i]
    <3>1. Value(x) > Value(y)
      BY <1>0, <2>3, <2>7, DifferenceDecides
    <3>. QED BY <1>1, <2>5, <2>7, <3>1
  <2>8. CASE y[i] > x[i]
    <3>1. Value(y) > Value(x)
      BY <1>0, <2>3, <2>8, DifferenceDecides
    <3>. QED BY <1>1, <2>5, <2>6, <2>8, <3>1
  <2>. QED BY <2>6, <2>7, <2>8
<1>. QED BY <1>2, <1>3

\* uECC_vli_isZero.
LEMMA ZeroIs ==
  ASSUME NEW x \in Vlis(num_words)
  PROVE  isZero(x) <=> Value(x) = 0
<1> DEFINE z == [i \in 1 .. num_words |-> 0]
           s == [i \in 0 .. num_words |-> 0]
<1>0. num_words \in Nat /\ W \in Nat \ {0} /\ num_words \in 0 .. 2 * num_words
  BY Sizes
<1>1. z \in Vlis(num_words) /\ z \in [1 .. num_words -> Int]
  BY <1>0 DEF Vlis
<1>2. \A i \in 1 .. num_words : s[i] = s[i - 1] + z[i] * place[i - 1]
  <2> TAKE i \in 1 .. num_words
  <2>1. place[i - 1] \in Int /\ i - 1 \in 0 .. num_words /\ i \in 0 .. num_words
    BY <1>0, PlaceAt
  <2>. QED BY <2>1
<1>3. s[0] = 0 /\ s[num_words] = 0
  BY <1>0
<1> HIDE DEF z, s
<1>4. Value(z) = 0
  <2>1. Value(z) = s[num_words]
    <3>1. AddsUp(s, z, num_words)
      BY <1>0, <1>1, <1>2, <1>3 DEF AddsUp
    <3>. QED BY <3>1, ValueBy
  <2>. QED BY <1>3, <2>1
<1>5. isZero(x) <=> x = z
  <2>1. DOMAIN x = 1 .. num_words /\ x = [i \in 1 .. num_words |-> x[i]]
    BY DEF Vlis
  <2>2. isZero(x) => x = z
    BY <2>1 DEF isZero, z
  <2>3. x = z => isZero(x)
    BY DEF isZero, z
  <2>. QED BY <2>2, <2>3
<1>6. Value(x) = 0 => x = z
  BY <1>0, <1>1, <1>4, SameValue
<1>. QED BY <1>4, <1>5, <1>6

\* uECC_vli_cmp, by the borrow and the difference.
LEMMA CmpIs ==
  ASSUME NEW x \in Vlis(num_words), NEW y \in Vlis(num_words)
  PROVE  /\ Value(x) > Value(y) => cmp(x, y) = 1
         /\ Value(x) < Value(y) => cmp(x, y) = -1
         /\ Value(x) = Value(y) => cmp(x, y) = 0
<1> DEFINE d == vli_sub(x, y)
           w == d.words
           c == d.carry
<1>1. w \in Vlis(num_words) /\ c \in {0, 1} /\ Value(w) - Size * c = Value(x) - Value(y)
  BY SubIs
<1>2. cmp(x, y) = Bit(~isZero(w)) - 2 * c
  BY DEF cmp
<1> HIDE DEF d, w, c
<1>3. isZero(w) <=> Value(w) = 0
  BY <1>1, ZeroIs
<1>4. Value(x) \in 0 .. Size - 1 /\ Value(y) \in 0 .. Size - 1 /\ Value(w) \in 0 .. Size - 1 /\ Size \in Nat \ {0}
  BY <1>1, Sizes, ValueBounded DEF Size
<1>5. CASE c = 0
  BY <1>1, <1>2, <1>3, <1>4, <1>5 DEF Bit
<1>6. CASE c = 1
  BY <1>1, <1>2, <1>3, <1>4, <1>6 DEF Bit
<1>. QED BY <1>1, <1>5, <1>6

\* Half a number.
LEMMA HalfWord ==
  ASSUME NEW h \in Nat \ {0}, NEW x \in Nat
  PROVE  (x * h) % (2 * h) = (x % 2) * h
<1> DEFINE q == x \div 2
           b2 == x % 2
           d == 2 * h
           r1 == b2 * h
<1>1. q \in Nat /\ b2 \in {0, 1} /\ x = 2 * q + b2
  OBVIOUS
<1>2. x * h = d * q + r1
  <2> HIDE DEF q, b2
  <2>. QED BY <1>1
<1>3. d \in Nat \ {0} /\ r1 \in 0 .. d - 1 /\ q \in Int
  <2> HIDE DEF q, b2
  <2>1. CASE b2 = 0
    BY <1>1, <2>1
  <2>2. CASE b2 = 1
    BY <1>1, <2>2
  <2>. QED BY <1>1, <2>1, <2>2
<1> HIDE DEF d, q, r1
<1>4. (d * q + r1) % d = r1
  BY <1>3, DivIs
<1>. QED BY <1>2, <1>4 DEF d, r1

ShiftedWord(x, y, h, w) == w \in 0 .. W - 1 /\ 2 * w = x - (x % 2) + (y % 2) * W

\* A word shifted, with the bit that comes from the next one.
LEMMA ShiftWord ==
  ASSUME NEW x \in 0 .. W - 1, NEW y \in 0 .. W - 1
  PROVE  /\ (y * two[WORD_BITS - 1]) % W = (y % 2) * two[WORD_BITS - 1]
         /\ x \div 2 + (y % 2) * two[WORD_BITS - 1] \in 0 .. W - 1
         /\ 2 * (x \div 2 + (y % 2) * two[WORD_BITS - 1]) = x - (x % 2) + (y % 2) * W
         /\ x \div 2 \in 0 .. W - 1 /\ 2 * (x \div 2) = x - (x % 2)
<1> DEFINE h == two[WORD_BITS - 1]
           q == x \div 2
           e == y % 2
           b2 == x % 2
<1>1. h \in Nat \ {0} /\ W = 2 * h /\ x \in Nat /\ y \in Nat
  BY WIs
<1> HIDE DEF h
<1>2. q \in Nat /\ b2 \in {0, 1} /\ e \in {0, 1} /\ x = 2 * q + b2
  BY <1>1
<1>3. (y * h) % (2 * h) = (y % 2) * h
  BY <1>1, HalfWord
<1> HIDE DEF q, e, b2
<1>4. e * h \in {0, h} /\ e * W = 2 * (e * h)
  BY <1>1, <1>2
<1>5. q + e * h \in 0 .. W - 1 /\ 2 * (q + e * h) = x - b2 + e * W /\ q \in 0 .. W - 1 /\ 2 * q = x - b2
  <2>1. x <= W - 1
    OBVIOUS
  <2>. QED BY <1>1, <1>2, <1>4, <2>1
<1>. QED BY <1>1, <1>3, <1>5 DEF h, q, e, b2

HalfBefore(W1, p, x, d, e, w, s, t, f) ==
  /\ W1 \in Int /\ p \in Int /\ x \in Int /\ d \in Int /\ e \in Int /\ w \in Int /\ s \in Int /\ t \in Int /\ f \in Int
  /\ 2 * w = x - d + e * W1 /\ 2 * s + f = t + d * p
HalfAfter(W1, p, x, d, e, w, s, t, f) == 2 * (s + w * p) + f = (t + x * p) + e * (W1 * p)

\* One more word keeps the half.
LEMMA HalfStep ==
  ASSUME NEW W1, NEW p, NEW x, NEW d, NEW e, NEW w, NEW s, NEW t, NEW f, HalfBefore(W1, p, x, d, e, w, s, t, f)
  PROVE  HalfAfter(W1, p, x, d, e, w, s, t, f)
<1>0. /\ W1 \in Int /\ p \in Int /\ x \in Int /\ d \in Int /\ e \in Int /\ w \in Int /\ s \in Int /\ t \in Int /\ f \in Int
      /\ 2 * w = x - d + e * W1 /\ 2 * s + f = t + d * p
  BY DEF HalfBefore
<1>1. (2 * w) * p = (x - d + e * W1) * p
  BY <1>0
<1>2. (x - d + e * W1) * p = x * p - d * p + e * (W1 * p)
  BY <1>0
<1>3. (2 * w) * p = 2 * (w * p) /\ x * p \in Int /\ d * p \in Int /\ e * (W1 * p) \in Int /\ w * p \in Int
  BY <1>0
<1>4. 2 * (s + w * p) = 2 * s + 2 * (w * p)
  BY <1>0, <1>3
<1>. QED BY <1>0, <1>1, <1>2, <1>3, <1>4 DEF HalfAfter

\* uECC_vli_rshift1 halves the number.
LEMMA ShiftIs ==
  ASSUME NEW x \in Vlis(num_words)
  PROVE  /\ rshift1(x) \in Vlis(num_words)
         /\ 2 * Value(rshift1(x)) + (x[1] % 2) = Value(x) /\ x[1] % 2 \in {0, 1}
<1> DEFINE n == num_words
           h == two[WORD_BITS - 1]
           w == rshift1(x)
           odd(i) == IF i < n THEN x[i + 1] % 2 ELSE 0
<1>0. n \in Nat \ {0} /\ W \in Nat \ {0} /\ n \in 0 .. 2 * n
  BY Sizes
<1>1. DOMAIN x = 1 .. n /\ Len(x) = n
  BY <1>0, LenIs DEF Vlis
<1>2. w = [i \in 1 .. n |-> x[i] \div 2 + IF i < n THEN (x[i + 1] * h) % W ELSE 0]
  BY <1>1 DEF rshift1
<1> HIDE DEF w, n
<1>3. x \in Vlis(n) /\ \A i \in 1 .. n : x[i] \in 0 .. W - 1
  BY DEF Vlis, n
<1>4. \A i \in 1 .. n : w[i] \in 0 .. W - 1 /\ 2 * w[i] = x[i] - (x[i] % 2) + odd(i) * W /\ odd(i) \in {0, 1}
  <2> TAKE i \in 1 .. n
  <2>1. CASE i < n
    <3> DEFINE xi == x[i]
               yi == x[i + 1]
    <3>1. i + 1 \in 1 .. n
      BY <1>0, <2>1
    <3>2. xi \in 0 .. W - 1 /\ yi \in 0 .. W - 1
      BY <1>3, <3>1
    <3>3. w[i] = xi \div 2 + ((yi * h) % W) /\ odd(i) = yi % 2
      BY <1>2, <2>1
    <3>4. yi % 2 \in {0, 1}
      BY <1>0, <3>2
    <3> HIDE DEF xi, yi
    <3>5. /\ (yi * h) % W = (yi % 2) * h /\ xi \div 2 + (yi % 2) * h \in 0 .. W - 1
          /\ 2 * (xi \div 2 + (yi % 2) * h) = xi - (xi % 2) + (yi % 2) * W
      BY <3>2, ShiftWord
    <3> DEFINE o == odd(i)
               v1 == w[i]
    <3>6. v1 \in 0 .. W - 1 /\ 2 * v1 = xi - (xi % 2) + o * W /\ o \in {0, 1}
      BY <3>3, <3>4, <3>5
    <3>. QED BY <3>6 DEF xi
  <2>2. CASE ~(i < n)
    <3> DEFINE xi == x[i]
    <3>1. xi \in 0 .. W - 1
      BY <1>3
    <3>2. xi \div 2 \in 0 .. W - 1 /\ 2 * (xi \div 2) = xi - (xi % 2)
      <4> HIDE DEF xi
      <4>. QED BY <3>1, ShiftWord
    <3>3. w[i] = xi \div 2 + 0 /\ odd(i) = 0
      BY <1>2, <2>2
    <3>4. xi \div 2 \in Int /\ xi % 2 \in Int /\ xi \in Int
      BY <1>0, <3>1
    <3>. QED BY <1>0, <3>2, <3>3, <3>4
  <2>. QED BY <2>1, <2>2
<1>5. w \in Vlis(n) /\ w \in [1 .. n -> Int] /\ x \in [1 .. n -> Int]
  <2>1. w \in Vlis(n)
    BY <1>2, <1>4 DEF Vlis
  <2>. QED BY <1>0, <1>3, <2>1, SumsBounded DEF n
<1> DEFINE s == Sums(w)
           t == Sums(x)
           T == {i \in 0 .. n : 2 * s[i] + odd(0) = t[i] + odd(i) * place[i]}
<1>6. /\ s \in [0 .. n -> Int] /\ s[0] = 0 /\ Value(w) = s[n] /\ \A i \in 1 .. n : s[i] = s[i - 1] + w[i] * place[i - 1]
      /\ t \in [0 .. n -> Int] /\ t[0] = 0 /\ Value(x) = t[n] /\ \A i \in 1 .. n : t[i] = t[i - 1] + x[i] * place[i - 1]
  BY <1>0, <1>5, SumsAre DEF n
<1>7. odd(0) = x[1] % 2 /\ odd(n) = 0 /\ x[1] % 2 \in {0, 1}
  <2>1. 1 \in 1 .. n /\ 0 < n /\ ~(n < n)
    BY <1>0
  <2>2. x[1] \in Nat
    BY <1>0, <1>3, <2>1
  <2>. QED BY <1>0, <2>1, <2>2
<1>8. \A i \in 0 .. n : odd(i) \in {0, 1}
  <2> TAKE i \in 0 .. n
  <2>1. i = 0 \/ i \in 1 .. n
    BY <1>0
  <2>. QED BY <1>4, <1>7, <2>1
<1> HIDE DEF s, t
<1>9. 0 \in T
  <2> DEFINE o == odd(0)
  <2>1. o \in Int /\ place[0] = 1 /\ 0 \in 0 .. n
    BY <1>0, <1>7, PlaceIs
  <2>2. 2 * s[0] + o = t[0] + o * place[0]
    <3> HIDE DEF o
    <3>. QED BY <1>6, <2>1
  <2>. QED BY <2>1, <2>2
<1>10. ASSUME NEW i \in 1 .. n, i - 1 \in T PROVE i \in T
  <2> DEFINE p == place[i - 1]
             e == odd(i)
             d == odd(i - 1)
             f == odd(0)
             xi == x[i]
             wi == w[i]
             s1 == s[i - 1]
             t1 == t[i - 1]
  <2>1. i \in 0 .. n /\ i - 1 \in 0 .. n /\ 0 \in 0 .. n
    BY <1>0
  <2>2. p \in Int /\ place[i] = W * p
    BY <1>0, PlaceAt DEF n
  <2>3. d = xi % 2
    <3>1. i - 1 < n /\ (i - 1) + 1 = i
      BY <1>0
    <3>. QED BY <3>1
  <2>4. xi \in Int /\ wi \in Int /\ s1 \in Int /\ t1 \in Int
    BY <1>5, <1>6, <2>1
  <2>5. e \in Int /\ d \in Int /\ f \in Int
    BY <1>8, <2>1
  <2>6. 2 * wi = xi - (xi % 2) + e * W
    BY <1>4
  <2>7. 2 * s1 + f = t1 + d * p
    BY <1>10
  <2>8. s[i] = s1 + wi * p /\ t[i] = t1 + xi * p
    BY <1>6
  <2> HIDE DEF p, e, d, f, xi, wi, s1, t1
  <2>9. HalfBefore(W, p, xi, d, e, wi, s1, t1, f)
    BY <1>0, <2>2, <2>3, <2>4, <2>5, <2>6, <2>7 DEF HalfBefore
  <2>10. HalfAfter(W, p, xi, d, e, wi, s1, t1, f)
    BY <2>9, HalfStep
  <2>11. 2 * s[i] + f = t[i] + e * place[i]
    BY <2>2, <2>8, <2>10 DEF HalfAfter
  <2>. QED BY <2>1, <2>11 DEF f, e
<1> HIDE DEF T
<1>11. \A i \in 0 .. n : i \in T
  BY <1>0, <1>9, <1>10, UpTo
<1>12. n \in 0 .. n /\ place[n] \in Int
  BY <1>0, PlaceAt DEF n
<1>13. 2 * s[n] + odd(0) = t[n] + odd(n) * place[n]
  BY <1>11, <1>12 DEF T
<1>14. s[n] \in Int /\ t[n] \in Int
  BY <1>6, <1>12
<1>15. 2 * s[n] + (x[1] % 2) = t[n]
  BY <1>7, <1>12, <1>13, <1>14
<1>. QED BY <1>5, <1>6, <1>7, <1>15 DEF n, w

-----------------------------------------------------------------------------
(* Bits and bytes.                                                         *)

\* The words that count.
LEMMA DigitsAre ==
  ASSUME NEW x \in Vlis(num_words)
  PROVE  /\ numDigits(x) \in 0 .. num_words /\ (numDigits(x) > 0 => x[numDigits(x)] # 0)
         /\ \A j \in numDigits(x) + 1 .. num_words : x[j] = 0
<1> DEFINE n == num_words
           z == [j \in 1 .. n |-> 0]
           Ok(d) == (d > 0 => x[d] # 0) /\ \A j \in d + 1 .. n : x[j] = 0
<1>0. n \in Nat
  BY Sizes
<1>1. Len(x) = n
  BY <1>0, LenIs DEF Vlis
<1>2. numDigits(x) = CHOOSE d \in 0 .. n : Ok(d)
  BY <1>1 DEF numDigits
<1> HIDE DEF n
<1>3. \E d \in 0 .. n : Ok(d)
  <2>1. CASE \E j \in 1 .. n : x[j] # z[j]
    <3>1. PICK i \in 1 .. n : FirstDifference(x, z, n, i)
      BY <1>0, <2>1, DifferenceExists
    <3>2. i \in 0 .. n /\ x[i] # z[i] /\ \A j \in i + 1 .. n : x[j] = z[j] /\ j \in 1 .. n
      BY <1>0, <3>1 DEF FirstDifference
    <3>3. Ok(i)
      BY <3>2
    <3>. QED BY <3>2, <3>3
  <2>2. CASE \A j \in 1 .. n : x[j] = z[j]
    <3>1. Ok(0)
      BY <1>0, <2>2
    <3>2. 0 \in 0 .. n
      BY <1>0
    <3>. QED BY <3>1, <3>2
  <2>. QED BY <2>1, <2>2
<1> DEFINE d == CHOOSE d \in 0 .. n : Ok(d)
<1>4. d \in 0 .. n /\ Ok(d)
  <2> HIDE DEF Ok
  <2>. QED BY <1>3
<1>. QED BY <1>2, <1>4 DEF n

\* The bits of a word.
WordBits(x, bits) == bits \in 1 .. WORD_BITS /\ x < two[bits] /\ x >= two[bits - 1]

ChosenBits(x, bits) ==
  bits = CHOOSE b1 \in 0 .. WORD_BITS : x < two[b1] /\ \A k \in 0 .. b1 - 1 : x >= two[k]

\* The bits of a word that is not 0.
LEMMA BitsOfWord ==
  ASSUME NEW x \in 1 .. W - 1, NEW bits, ChosenBits(x, bits)
  PROVE  WordBits(x, bits)
<1> DEFINE Ok(b1) == x < two[b1] /\ \A k \in 0 .. b1 - 1 : x >= two[k]
           T == {j \in 0 .. WORD_BITS : \A k \in 0 .. j : x >= two[k]}
<1>0. WORD_BITS \in Nat \ {0} /\ W \in Nat /\ two[0] = 1 /\ two[WORD_BITS] = W
  BY WIs, TwoIs DEF W
<1>1. \E b1 \in 0 .. WORD_BITS : Ok(b1)
  <2> SUFFICES ASSUME \A b1 \in 0 .. WORD_BITS : ~Ok(b1) PROVE FALSE
    OBVIOUS
  <2>t. \A k \in 0 .. WORD_BITS : two[k] \in Int
    <3>1. WORD_BITS <= num_words * WORD_BITS /\ num_words * WORD_BITS \in Int
      BY WIs
    <3> DEFINE N == num_words * WORD_BITS
    <3>2. two \in [0 .. N -> Nat \ {0}] /\ WORD_BITS <= N /\ N \in Int
      BY <3>1, TwoIs
    <3> HIDE DEF N
    <3>. QED BY <1>0, <3>2
  <2>1. 0 \in T
    BY <1>0
  <2>2. ASSUME NEW j \in 1 .. WORD_BITS, j - 1 \in T PROVE j \in T
    <3>1. \A k \in 0 .. j - 1 : x >= two[k]
      BY <2>2
    <3>2. ~(x < two[j]) /\ two[j] \in Int /\ j \in 0 .. WORD_BITS
      BY <1>0, <2>t, <3>1
    <3>3. \A k \in 0 .. j : k = j \/ k \in 0 .. j - 1
      BY <1>0
    <3>4. x >= two[j]
      BY <1>0, <3>2
    <3>. QED BY <3>1, <3>2, <3>3, <3>4
  <2> HIDE DEF T
  <2>3. WORD_BITS \in T
    BY <1>0, <2>1, <2>2, UpTo
  <2>4. WORD_BITS \in 0 .. WORD_BITS
    BY <1>0
  <2>5. x >= two[WORD_BITS]
    BY <2>3, <2>4 DEF T
  <2>. QED BY <1>0, <2>5
<1>2. bits \in 0 .. WORD_BITS /\ Ok(bits)
  <2>1. bits = CHOOSE b1 \in 0 .. WORD_BITS : Ok(b1)
    BY DEF ChosenBits
  <2> HIDE DEF Ok
  <2>. QED BY <1>1, <2>1
<1>3. bits # 0
  <2>1. bits = 0 => x < two[0]
    BY <1>2
  <2>. QED BY <1>0, <2>1
<1>4. bits \in 1 .. WORD_BITS /\ bits - 1 \in 0 .. bits - 1
  <2>1. bits \in 0 .. WORD_BITS
    BY <1>2
  <2>. QED BY <1>0, <1>3, <2>1
<1>. QED BY <1>2, <1>4 DEF WordBits

\* Above the highest word that counts nothing is added.
LEMMA TopWord ==
  ASSUME NEW x \in Vlis(num_words), NEW d \in 1 .. num_words, \A j \in d + 1 .. num_words : x[j] = 0
  PROVE  Value(x) >= x[d] * place[d - 1] /\ Value(x) < (x[d] + 1) * place[d - 1] /\ x[d] \in 0 .. W - 1
<1> DEFINE s == Sums(x)
           n == num_words
           T == {j \in 0 .. n - d : s[d + j] = s[d]}
<1>0. n \in Nat /\ n \in 0 .. 2 * num_words /\ W \in Nat
  BY Sizes
<1>1. x \in [1 .. n -> Int] /\ \A i \in 0 .. n : s[i] \in 0 .. place[i] - 1
  BY <1>0, SumsBounded
<1>2. /\ s \in [0 .. n -> Int] /\ s[0] = 0 /\ Value(x) = s[n]
      /\ \A i \in 1 .. n : s[i] = s[i - 1] + x[i] * place[i - 1]
  BY <1>0, <1>1, SumsAre
<1>3. \A i \in 1 .. n : place[i - 1] \in Nat \ {0}
  BY <1>0, PlaceAt
<1> HIDE DEF s, n
<1>4. 0 \in T
  BY <1>0 DEF n
<1>5. ASSUME NEW j \in 1 .. n - d, j - 1 \in T PROVE j \in T
  <2>1. d + j \in 1 .. n /\ x[d + j] = 0 /\ (d + j) - 1 = d + (j - 1) /\ d + (j - 1) \in 0 .. n
    BY <1>0 DEF n
  <2> DEFINE i == d + j
  <2>2. s[i] = s[i - 1] + x[i] * place[i - 1] /\ place[i - 1] \in Int /\ s[i - 1] \in Int
    BY <1>2, <1>3, <2>1
  <2>3. x[i] * place[i - 1] = 0
    <3>1. x[i] = 0
      BY <2>1
    <3> HIDE DEF i
    <3>. QED BY <2>2, <3>1
  <2>4. s[i] = s[i - 1]
    <3> HIDE DEF i
    <3>. QED BY <2>2, <2>3
  <2>. QED BY <1>5, <2>1, <2>4
<1> HIDE DEF T
<1>6. n - d \in Nat /\ d + (n - d) = n /\ n - d \in 0 .. n - d
  BY <1>0 DEF n
<1>7. n - d \in T
  BY <1>4, <1>5, <1>6, UpTo
<1>8. s[n] = s[d]
  BY <1>6, <1>7 DEF T
<1>9. d \in 1 .. n /\ d - 1 \in 0 .. n /\ d \in 0 .. n
  BY <1>0 DEF n
<1>10. s[d] = s[d - 1] + x[d] * place[d - 1] /\ s[d - 1] \in 0 .. place[d - 1] - 1 /\ place[d - 1] \in Nat \ {0}
  BY <1>1, <1>2, <1>3, <1>9
<1>11. x[d] \in 0 .. W - 1
  BY <1>9 DEF Vlis, n
<1>12. (x[d] + 1) * place[d - 1] = x[d] * place[d - 1] + place[d - 1] /\ x[d] * place[d - 1] \in Int
  BY <1>0, <1>10, <1>11
<1>. QED BY <1>2, <1>8, <1>10, <1>11, <1>12

\* uECC_vli_numBits: the number lies between its highest bit and the next power.
LEMMA NumBitsIs ==
  ASSUME NEW x \in Vlis(num_words)
  PROVE  /\ numBits(x) \in 0 .. num_words * WORD_BITS /\ two[numBits(x)] > Value(x)
         /\ Value(x) > 0 => Value(x) >= two[numBits(x) - 1]
<1> DEFINE d == numDigits(x)
           n == num_words
           N == n * WORD_BITS
           bits == CHOOSE b1 \in 0 .. WORD_BITS : x[d] < two[b1] /\ \A k \in 0 .. b1 - 1 : x[d] >= two[k]
<1>0. n \in Nat /\ n \in 0 .. 2 * n /\ W \in Nat /\ WORD_BITS \in Nat \ {0} /\ N \in Nat /\ WORD_BITS <= N
  BY WIs
<1>1. d \in 0 .. n /\ (d > 0 => x[d] # 0) /\ \A j \in d + 1 .. n : x[j] = 0
  BY DigitsAre
<1>2. numBits(x) = IF d = 0 THEN 0 ELSE (d - 1) * WORD_BITS + bits
  BY DEF numBits
<1>b. bits = CHOOSE b1 \in 0 .. WORD_BITS : x[d] < two[b1] /\ \A k \in 0 .. b1 - 1 : x[d] >= two[k]
  OBVIOUS
<1>t. two \in [0 .. N -> Nat \ {0}] /\ two[0] = 1
  BY TwoIs
<1>v. Value(x) \in Nat
  BY <1>0, Sizes, ValueBounded
<1> HIDE DEF d, N, bits
<1>3. CASE d = 0
  <2>1. \A j \in 1 .. n : x[j] = 0
    BY <1>1, <1>3
  <2>2. isZero(x)
    BY <2>1 DEF isZero, Vlis
  <2>3. Value(x) = 0
    BY <2>2, ZeroIs
  <2>. QED BY <1>0, <1>2, <1>3, <1>t, <2>3 DEF N
<1>4. CASE d # 0
  <2> DEFINE y == x[d]
             i == d - 1
             p == place[i]
  <2>1. d \in 1 .. n /\ i \in 0 .. n
    BY <1>0, <1>1, <1>4
  <2>2. Value(x) >= y * p /\ Value(x) < (y + 1) * p /\ y \in 1 .. W - 1
    <3>1. d \in 1 .. num_words /\ \A j \in d + 1 .. num_words : x[j] = 0
      BY <1>1, <2>1
    <3>2. Value(x) >= x[d] * place[d - 1] /\ Value(x) < (x[d] + 1) * place[d - 1] /\ x[d] \in 0 .. W - 1
      BY <3>1, TopWord
    <3>. QED BY <1>0, <1>1, <2>1, <3>2
  <2>b. ChosenBits(y, bits)
    BY <1>b DEF ChosenBits
  <2> HIDE DEF y
  <2>3. WordBits(y, bits)
    BY <2>2, <2>b, BitsOfWord
  <2>4. bits \in 1 .. WORD_BITS /\ y < two[bits] /\ y >= two[bits - 1]
    BY <2>3 DEF WordBits
  <2> HIDE DEF i, p
  <2>5. i * WORD_BITS \in 0 .. N /\ p = two[i * WORD_BITS] /\ p \in Nat \ {0}
    BY <2>1, PlaceIsTwo, <1>t DEF N, p
  <2>6. i * WORD_BITS + bits <= N
    <3>1. WORD_BITS * (i + 1) <= WORD_BITS * n
      BY <1>0, <2>1, ProductMonotonic DEF i
    <3>2. WORD_BITS * (i + 1) = i * WORD_BITS + WORD_BITS /\ WORD_BITS * n = N
      BY <1>0, <2>1 DEF N
    <3>. QED BY <1>0, <2>4, <2>5, <3>1, <3>2
  <2>7. two[i * WORD_BITS + bits] = p * two[bits] /\ two[i * WORD_BITS + (bits - 1)] = p * two[bits - 1]
    <3> DEFINE e == i * WORD_BITS
    <3>1. e \in Nat /\ bits \in Nat /\ bits - 1 \in Nat /\ e + bits <= n * WORD_BITS /\ e + (bits - 1) <= n * WORD_BITS
      BY <1>0, <2>4, <2>5, <2>6 DEF N
    <3>2. p = two[e]
      BY <2>5
    <3> HIDE DEF e
    <3>3. two[e + bits] = two[e] * two[bits] /\ two[e + (bits - 1)] = two[e] * two[bits - 1]
      BY <3>1, TwoAdds
    <3>. QED BY <3>2, <3>3 DEF e
  <2>8. numBits(x) = i * WORD_BITS + bits /\ numBits(x) - 1 = i * WORD_BITS + (bits - 1) /\ numBits(x) \in 0 .. N
    BY <1>0, <1>2, <1>4, <2>4, <2>5, <2>6 DEF i
  <2>9. two[bits] \in Nat /\ two[bits - 1] \in Nat
    BY <1>0, <1>t, <2>4
  <2>10. (y + 1) * p <= p * two[bits] /\ p * two[bits - 1] <= y * p
    <3>1. p * (y + 1) <= p * two[bits] /\ p * two[bits - 1] <= p * y
      BY <2>2, <2>4, <2>5, <2>9, ProductMonotonic
    <3>. QED BY <2>2, <2>5, <3>1
  <2>11. (y + 1) * p \in Int /\ y * p \in Int /\ p * two[bits] \in Int /\ p * two[bits - 1] \in Int
    BY <2>2, <2>5, <2>9
  <2>. QED BY <1>v, <2>2, <2>7, <2>8, <2>10, <2>11 DEF N, p
<1>. QED BY <1>3, <1>4

\* One bit.
LEMMA BitOfRemainder ==
  ASSUME NEW c \in Nat \ {0}, NEW d \in Nat \ {0}, NEW m, m = 2 * (c * d), NEW y \in Nat
  PROVE  ((y % m) \div c) % 2 = (y \div c) % 2
<1> DEFINE q == y \div c
           v1 == y % c
           k == q \div (2 * d)
           w == q % (2 * d)
<1>1. q \in Nat /\ v1 \in 0 .. c - 1 /\ y = c * q + v1
  BY DivMod
<1>2. k \in Nat /\ w \in 0 .. 2 * d - 1 /\ q = (2 * d) * k + w
  <2> DEFINE e == 2 * d
  <2>1. e \in Nat \ {0} /\ q \in Nat
    BY <1>1
  <2> HIDE DEF q, e
  <2>2. q \div e \in Nat /\ q % e \in 0 .. e - 1 /\ q = e * (q \div e) + (q % e)
    BY <2>1, DivMod
  <2>. QED BY <2>2 DEF e
<1> HIDE DEF q, v1, k, w
<1> DEFINE t == c * w + v1
<1>3. m \in Nat \ {0}
  BY ProductPositive
<1>4. t \in 0 .. m - 1
  <2>1. c * w <= c * (2 * d - 1) /\ c * w \in Nat
    BY <1>2, ProductMonotonic, Product
  <2>2. c * (2 * d - 1) = m - c
    OBVIOUS
  <2>. QED BY <1>1, <1>3, <2>1, <2>2
<1>5. y = m * k + t
  <2>1. c * q = c * ((2 * d) * k) + c * w
    BY <1>2
  <2>2. c * ((2 * d) * k) = m * k
    BY <1>2
  <2>. QED BY <1>1, <1>2, <1>3, <2>1, <2>2
<1>6. y % m = t
  <2> HIDE DEF t
  <2>1. (m * k + t) % m = t
    BY <1>2, <1>3, <1>4, DivIs
  <2>. QED BY <1>5, <2>1
<1>7. t \div c = w
  <2>1. (c * w + v1) \div c = w
    BY <1>1, <1>2, DivIs
  <2>. QED BY <2>1
<1>8. w % 2 = q % 2
  <2> DEFINE e == d * k
  <2>1. e \in Int /\ q = 2 * e + w
    BY <1>2
  <2> HIDE DEF e
  <2>. QED BY <1>1, <1>2, <2>1
<1>. QED BY <1>6, <1>7, <1>8 DEF q

\* uECC_vli_testBit: the bit of the word is that of the number.
LEMMA TestBitIs ==
  ASSUME NEW x \in Vlis(num_words), NEW j \in 0 .. num_words * WORD_BITS - 1
  PROVE  testBit(x, j) = ((Value(x) \div two[j]) % 2 = 1)
<1> DEFINE n == num_words
           N == n * WORD_BITS
           i == j \div WORD_BITS
           e == j % WORD_BITS
           f == WORD_BITS - e - 1
           c == two[e]
           d == two[f]
           y == Value(x) \div place[i]
<1>0. n \in Nat /\ n \in 0 .. 2 * n /\ W \in Nat \ {0} /\ WORD_BITS \in Nat \ {0} /\ N \in Nat /\ WORD_BITS <= N
  BY WIs
<1>t. two \in [0 .. N -> Nat \ {0}]
  BY TwoIs
<1>1. j \in Nat /\ j < N
  BY <1>0
<1>2. i \in Nat /\ e \in 0 .. WORD_BITS - 1 /\ j = WORD_BITS * i + e
  BY <1>0, <1>1, DivMod
<1>3. testBit(x, j) = ((x[i + 1] \div c) % 2 = 1)
  BY DEF testBit
<1> HIDE DEF i, e
<1>4. i < n
  <2> SUFFICES ASSUME n <= i PROVE FALSE
    BY <1>0, <1>2
  <2>1. WORD_BITS * n <= WORD_BITS * i
    BY <1>0, <1>2, ProductMonotonic
  <2>2. WORD_BITS * n = N /\ WORD_BITS * i \in Int
    BY <1>0, <1>2
  <2>. QED BY <1>0, <1>1, <1>2, <2>1, <2>2
<1>5. i + 1 \in 1 .. n /\ i \in 0 .. n /\ (i + 1) - 1 = i
  BY <1>0, <1>2, <1>4
<1>6. place[i] = two[i * WORD_BITS] /\ place[i] \in Nat \ {0}
  BY <1>0, <1>5, PlaceIsTwo, PlaceAt
<1>7. f \in Nat /\ e + f <= N /\ e \in Nat /\ f + 1 <= N /\ e \in 0 .. N /\ f \in 0 .. N
  BY <1>0, <1>2
<1>8. c \in Nat \ {0} /\ d \in Nat \ {0}
  BY <1>t, <1>7
<1>9. W = 2 * (c * d)
  <2> HIDE DEF f
  <2>1. two[e + f] = two[e] * two[f]
    BY <1>7, TwoAdds
  <2>2. e + f = WORD_BITS - 1
    BY <1>0, <1>2 DEF f
  <2>. QED BY <2>1, <2>2, WIs
<1>10. two[j] = place[i] * c
  <2> DEFINE m == i * WORD_BITS
  <2>1. m \in Nat /\ e \in Nat /\ m + e <= n * WORD_BITS /\ j = m + e
    BY <1>0, <1>1, <1>2, Product
  <2> HIDE DEF m
  <2>2. two[m + e] = two[m] * two[e]
    BY <2>1, TwoAdds
  <2>. QED BY <1>6, <2>1, <2>2 DEF m
<1>11. x[i + 1] = y % W
  BY <1>0, <1>5, WordIs
<1> DEFINE l == Value(x)
           p == place[i]
<1>12. l \in Nat
  BY <1>0, Sizes, ValueBounded
<1>13. y \in Nat
  BY <1>6, <1>12, DivMod
<1>14. l \div (p * c) = y \div c
  <2>1. p \in Nat \ {0} /\ y = l \div p
    BY <1>6
  <2> HIDE DEF l, p, y, c
  <2>2. l \div (p * c) = (l \div p) \div c
    BY <1>8, <1>12, <2>1, DivDiv
  <2>. QED BY <2>1, <2>2
<1> HIDE DEF c, d, y
<1>15. ((y % W) \div c) % 2 = (y \div c) % 2
  BY <1>8, <1>9, <1>13, BitOfRemainder
<1>. QED BY <1>3, <1>10, <1>11, <1>14, <1>15

\* Bytes of a word.
LEMMA ByteSizes ==
  /\ PerWord \in Nat \ {0} /\ BYTE_BITS \in Nat \ {0} /\ BYTE_BITS * PerWord = WORD_BITS
  /\ \A k \in 0 .. PerWord : BYTE_BITS * k \in 0 .. WORD_BITS
<1>0. WORD_BITS \in Nat \ {0} /\ BYTE_BITS \in Nat \ {0} /\ WORD_BITS % BYTE_BITS = 0
  BY VliInputs DEF VliAssumption
<1>1. PerWord \in Nat /\ WORD_BITS = BYTE_BITS * PerWord + (WORD_BITS % BYTE_BITS)
  BY <1>0, DivMod DEF PerWord
<1>2. PerWord # 0
  BY <1>0, <1>1
<1>3. ASSUME NEW k \in 0 .. PerWord PROVE BYTE_BITS * k \in 0 .. WORD_BITS
  <2>1. BYTE_BITS * k <= BYTE_BITS * PerWord /\ BYTE_BITS * k \in Nat
    BY <1>0, <1>1, ProductMonotonic, Product
  <2>. QED BY <1>0, <1>1, <2>1
<1>. QED BY <1>0, <1>1, <1>2, <1>3

ByteOf(y, k) == (y \div two[BYTE_BITS * (k - 1)]) % two[BYTE_BITS]
ByteSum(s, y) == s = [k \in 0 .. PerWord |-> IF k = 0 THEN 0 ELSE s[k - 1] + ByteOf(y, k) * two[BYTE_BITS * (k - 1)]]

\* The weights of the bytes in a word.
LEMMA ByteWeights ==
  /\ \A k \in 0 .. PerWord : two[BYTE_BITS * k] \in Nat \ {0}
  /\ \A k \in 1 .. PerWord : two[BYTE_BITS * k] = two[BYTE_BITS * (k - 1)] * two[BYTE_BITS]
  /\ two[BYTE_BITS] \in Nat \ {0} /\ two[BYTE_BITS * PerWord] = W /\ two[BYTE_BITS * 0] = 1
<1> DEFINE N == num_words * WORD_BITS
<1>0. /\ PerWord \in Nat \ {0} /\ BYTE_BITS \in Nat \ {0} /\ BYTE_BITS * PerWord = WORD_BITS
      /\ \A k \in 0 .. PerWord : BYTE_BITS * k \in 0 .. WORD_BITS
  BY ByteSizes
<1>1. N \in Nat /\ WORD_BITS <= N /\ WORD_BITS \in Nat
  BY WIs
<1>2. two \in [0 .. N -> Nat \ {0}] /\ two[0] = 1
  BY TwoIs
<1> HIDE DEF N
<1>3. \A k \in 0 .. PerWord : BYTE_BITS * k \in 0 .. N
  BY <1>0, <1>1
<1>4. ASSUME NEW k \in 1 .. PerWord PROVE two[BYTE_BITS * k] = two[BYTE_BITS * (k - 1)] * two[BYTE_BITS]
  <2> DEFINE m == BYTE_BITS * (k - 1)
  <2>1. k \in 0 .. PerWord /\ k - 1 \in 0 .. PerWord /\ BYTE_BITS * k = m + BYTE_BITS
    BY <1>0
  <2>2. m \in Nat /\ BYTE_BITS \in Nat /\ m + BYTE_BITS <= num_words * WORD_BITS
    <3>1. m \in 0 .. N /\ BYTE_BITS * k \in 0 .. N
      BY <1>3, <2>1
    <3>. QED BY <1>0, <1>1, <2>1, <3>1 DEF N
  <2>3. two[m + BYTE_BITS] = two[m] * two[BYTE_BITS]
    <3> HIDE DEF m
    <3>. QED BY <2>2, TwoAdds
  <2>. QED BY <2>1, <2>3
<1>5. \A k \in 0 .. PerWord : two[BYTE_BITS * k] \in Nat \ {0}
  BY <1>2, <1>3
<1>6. two[BYTE_BITS] \in Nat \ {0}
  <2>1. 1 \in 0 .. PerWord /\ BYTE_BITS * 1 = BYTE_BITS
    BY <1>0
  <2>. QED BY <1>5, <2>1
<1>7. BYTE_BITS * 0 = 0
  BY <1>0
<1>. QED BY <1>0, <1>2, <1>4, <1>5, <1>6, <1>7 DEF W

\* The loop of uECC_vli_bytesToNative has its partial results.
LEMMA ByteSumExists ==
  ASSUME NEW y \in 0 .. W - 1
  PROVE  \E s : ByteSum(s, y)
<1> DEFINE Z == Int
           turn == [w \in (1 .. PerWord) \X Z |-> w[2] + ByteOf(y, w[1]) * two[BYTE_BITS * (w[1] - 1)]]
<1>0. PerWord \in Nat /\ y \in Nat
  BY ByteSizes, Sizes
<1>1. \A k \in 1 .. PerWord : ByteOf(y, k) * two[BYTE_BITS * (k - 1)] \in Int
  <2> TAKE k \in 1 .. PerWord
  <2> DEFINE c == two[BYTE_BITS * (k - 1)]
             d == two[BYTE_BITS]
  <2>1. k - 1 \in 0 .. PerWord
    BY <1>0
  <2>2. c \in Nat \ {0} /\ d \in Nat \ {0}
    BY <2>1, ByteWeights
  <2> HIDE DEF c, d
  <2>3. ((y \div c) % d) * c \in Int
    BY <1>0, <2>2
  <2>. QED BY <2>3 DEF ByteOf, c, d
<1>2. turn \in [(1 .. PerWord) \X Z -> Z]
  BY <1>1
<1>3. 0 \in Z /\ \A k \in 1 .. PerWord, x \in Z : turn[<<k, x>>] = x + ByteOf(y, k) * two[BYTE_BITS * (k - 1)]
  OBVIOUS
<1> HIDE DEF turn, Z
<1>4. PICK s : IsLoop(s, PerWord, Z, 0, turn)
  BY <1>0, <1>2, <1>3, Loop
<1>5. s \in [0 .. PerWord -> Z] /\ s[0] = 0 /\ \A k \in 1 .. PerWord : s[k] = turn[<<k, s[k - 1]>>]
  BY <1>4 DEF IsLoop
<1>6. \A k \in 1 .. PerWord : s[k - 1] \in Z
  BY <1>0, <1>5
<1>7. \A k \in 1 .. PerWord : s[k] = s[k - 1] + ByteOf(y, k) * two[BYTE_BITS * (k - 1)]
  BY <1>3, <1>5, <1>6
<1>8. \A k \in 0 .. PerWord : k = 0 \/ k \in 1 .. PerWord
  BY <1>0
<1>9. \A k \in 0 .. PerWord : s[k] = IF k = 0 THEN 0 ELSE s[k - 1] + ByteOf(y, k) * two[BYTE_BITS * (k - 1)]
  BY <1>5, <1>7, <1>8
<1>10. ByteSum(s, y)
  BY <1>5, <1>9 DEF ByteSum
<1>. QED BY <1>10

\* Put together, the bytes of a word are the word.
LEMMA ByteSumIs ==
  ASSUME NEW y \in 0 .. W - 1, NEW s, ByteSum(s, y)
  PROVE  s[PerWord] = y
<1> DEFINE q(k) == y \div two[BYTE_BITS * k]
           p(k) == two[BYTE_BITS * k]
           T == {k \in 0 .. PerWord : y = s[k] + p(k) * q(k) /\ s[k] \in Int}
           B == two[BYTE_BITS]
<1>0. PerWord \in Nat /\ y \in Nat /\ y < W /\ W \in Nat \ {0}
  BY ByteSizes, Sizes
<1>1. /\ \A k \in 0 .. PerWord : p(k) \in Nat \ {0}
      /\ \A k \in 1 .. PerWord : p(k) = p(k - 1) * B
      /\ B \in Nat \ {0} /\ p(PerWord) = W /\ p(0) = 1
  BY ByteWeights
<1>2. s[0] = 0 /\ \A k \in 1 .. PerWord : s[k] = s[k - 1] + ByteOf(y, k) * p(k - 1)
  BY <1>0 DEF ByteSum
<1>3. \A k \in 0 .. PerWord : q(k) \in Nat /\ q(k) = y \div p(k)
  BY <1>0, <1>1, DivMod
<1>4. \A k \in 1 .. PerWord : ByteOf(y, k) = q(k - 1) % B
  BY DEF ByteOf
<1>5. q(0) = y
  BY <1>0, <1>1
<1> HIDE DEF p, q, B
<1>6. 0 \in T
  <2>1. 0 \in 0 .. PerWord /\ p(0) * q(0) = y
    BY <1>0, <1>1, <1>5
  <2>. QED BY <1>0, <1>2, <2>1
<1>7. ASSUME NEW k \in 1 .. PerWord, k - 1 \in T PROVE k \in T
  <2>1. k \in 0 .. PerWord /\ k - 1 \in 0 .. PerWord
    BY <1>0
  <2> DEFINE p1 == p(k - 1)
             p2 == p(k)
             q1 == q(k - 1)
             q2 == q(k)
             e == ByteOf(y, k)
             s1 == s[k - 1]
  <2>2. /\ p1 \in Nat \ {0} /\ p2 = p1 * B /\ B \in Nat \ {0} /\ q1 \in Nat /\ q2 \in Nat
        /\ q1 = y \div p1 /\ q2 = y \div p2 /\ e = q1 % B /\ y = s1 + p1 * q1 /\ s1 \in Int
    BY <1>1, <1>3, <1>4, <1>7, <2>1
  <2>3. s[k] = s1 + e * p1
    BY <1>2
  <2> HIDE DEF p1, p2, q1, q2, e, s1
  <2>4. q2 = q1 \div B
    BY <1>0, <2>2, DivDiv
  <2>5. q1 = B * q2 + e /\ e \in Int
    <3>1. q1 = B * (q1 \div B) + (q1 % B) /\ q1 % B \in Int
      <4>1. B \in Nat \ {0} /\ q1 \in Nat
        BY <2>2
      <4>. QED BY <4>1, DivMod
    <3>2. e = q1 % B
      BY <2>2
    <3>. QED BY <2>4, <3>1, <3>2
  <2>6. p1 \in Int /\ q2 \in Int /\ B \in Int /\ p2 = p1 * B /\ y = s1 + p1 * q1 /\ s1 \in Int
    BY <2>2
  <2>7. p1 * q1 = p2 * q2 + e * p1
    <3>1. p1 * (B * q2 + e) = (p1 * B) * q2 + e * p1
      BY <2>5, <2>6
    <3>. QED BY <2>5, <2>6, <3>1
  <2>8. p2 * q2 \in Int /\ e * p1 \in Int
    BY <2>5, <2>6
  <2>9. y = s[k] + p2 * q2 /\ s[k] \in Int
    BY <2>3, <2>6, <2>7, <2>8
  <2>. QED BY <2>1, <2>9 DEF p2, q2
<1> HIDE DEF T
<1>8. \A k \in 0 .. PerWord : k \in T
  BY <1>0, <1>6, <1>7, UpTo
<1>9. PerWord \in 0 .. PerWord
  BY <1>0
<1>10. y = s[PerWord] + W * q(PerWord) /\ s[PerWord] \in Int
  BY <1>1, <1>8, <1>9 DEF T
<1>11. q(PerWord) = 0
  <2>1. y \div W = 0
    BY <1>0, ModSmall
  <2>. QED BY <1>1, <1>3, <1>9, <2>1
<1>. QED BY <1>0, <1>10, <1>11

\* uECC_vli_nativeToBytes and uECC_vli_bytesToNative give the number back.
LEMMA BytesBack ==
  ASSUME NEW x \in Vlis(num_words)
  PROVE  bytesToNative(nativeToBytes(x)) = x
<1> DEFINE n == num_words
           bytes == nativeToBytes(x)
           Filled(s, w) == [k \in 0 .. PerWord |->
             IF k = 0 THEN 0
             ELSE s[k - 1] + bytes[num_bytes - ((w - 1) * PerWord + k - 1)] * two[BYTE_BITS * (k - 1)]]
<1>0. n \in Nat \ {0} /\ PerWord \in Nat \ {0} /\ W \in Nat
  BY Sizes, ByteSizes
<1>1. num_bytes = n * PerWord /\ num_bytes \in Nat
  BY <1>0, Product DEF num_bytes
<1>2. bytes = [i \in 1 .. num_bytes |->
                 (x[(num_bytes - i) \div PerWord + 1] \div two[BYTE_BITS * ((num_bytes - i) % PerWord)]) % two[BYTE_BITS]]
  BY DEF nativeToBytes
<1>3. bytesToNative(bytes) = [w \in 1 .. n |-> (CHOOSE s : s = Filled(s, w))[PerWord]]
  BY DEF bytesToNative
<1> HIDE DEF bytes, n
<1>4. ASSUME NEW w \in 1 .. n, NEW k \in 1 .. PerWord
      PROVE  bytes[num_bytes - ((w - 1) * PerWord + k - 1)] = ByteOf(x[w], k)
  <2> DEFINE m == (w - 1) * PerWord + k - 1
             i == num_bytes - m
  <2>1. m = PerWord * (w - 1) + (k - 1) /\ w - 1 \in Int /\ k - 1 \in 0 .. PerWord - 1 /\ m \in Nat
    <3>1. PerWord * (w - 1) \in Nat
      BY <1>0, Product
    <3>. QED BY <1>0, <3>1
  <2>2. m \div PerWord = w - 1 /\ m % PerWord = k - 1
    <3> DEFINE w1 == w - 1
               k1 == k - 1
    <3>1. m = PerWord * w1 + k1 /\ w1 \in Int /\ k1 \in 0 .. PerWord - 1
      BY <2>1
    <3> HIDE DEF m, w1, k1
    <3>2. (PerWord * w1 + k1) \div PerWord = w1 /\ (PerWord * w1 + k1) % PerWord = k1
      BY <1>0, <3>1, DivIs
    <3>. QED BY <3>1, <3>2 DEF w1, k1
  <2>3. m < num_bytes
    <3>1. PerWord * w <= PerWord * n
      BY <1>0, ProductMonotonic
    <3>2. PerWord * (w - 1) = PerWord * w - PerWord /\ PerWord * w \in Int /\ PerWord * n = num_bytes
      BY <1>0, <1>1
    <3>. QED BY <1>0, <1>1, <2>1, <3>1, <3>2
  <2> HIDE DEF m
  <2>4. i \in 1 .. num_bytes /\ num_bytes - i = m
    BY <1>1, <2>1, <2>3
  <2> HIDE DEF i
  <2>5. bytes[i] = (x[m \div PerWord + 1] \div two[BYTE_BITS * (m % PerWord)]) % two[BYTE_BITS]
    BY <1>2, <2>4
  <2>6. (w - 1) + 1 = w
    OBVIOUS
  <2>7. bytes[i] = ByteOf(x[w], k)
    BY <2>2, <2>5, <2>6 DEF ByteOf
  <2>. QED BY <2>7 DEF i, m
<1>5. ASSUME NEW w \in 1 .. n PROVE (CHOOSE s : s = Filled(s, w))[PerWord] = x[w]
  <2>0. x[w] \in 0 .. W - 1
    BY DEF Vlis, n
  <2> DEFINE s == CHOOSE s : s = Filled(s, w)
  <2>1. \A s1 : Filled(s1, w) = [k \in 0 .. PerWord |->
                  IF k = 0 THEN 0 ELSE s1[k - 1] + ByteOf(x[w], k) * two[BYTE_BITS * (k - 1)]]
    <3> TAKE s1
    <3>1. \A k \in 0 .. PerWord : k = 0 \/ k \in 1 .. PerWord
      BY <1>0
    <3>. QED BY <1>4, <3>1
  <2>2. PICK s2 : ByteSum(s2, x[w])
    BY <2>0, ByteSumExists
  <2>3. s2 = Filled(s2, w)
    BY <2>1, <2>2 DEF ByteSum
  <2>4. s = Filled(s, w)
    <3> HIDE DEF Filled
    <3>. QED BY <2>3
  <2> HIDE DEF s
  <2>5. ByteSum(s, x[w])
    BY <2>1, <2>4 DEF ByteSum
  <2>6. s[PerWord] = x[w]
    BY <2>0, <2>5, ByteSumIs
  <2>. QED BY <2>6 DEF s
<1>6. x = [w \in 1 .. n |-> x[w]]
  BY DEF Vlis, n
<1> HIDE DEF Filled
<1>7. bytesToNative(bytes) = x
  BY <1>3, <1>5, <1>6
<1>. QED BY <1>7 DEF bytes

-----------------------------------------------------------------------------
(* Residues, and the operations all together.                              *)

\* What num_words words stand for.
LEMMA ValueRange ==
  ASSUME NEW x \in Vlis(num_words)
  PROVE  Value(x) \in 0 .. Size - 1 /\ Size \in Nat \ {0}
BY Sizes, ValueBounded DEF Size

\* Sums and differences of residues.
LEMMA ModAddIs ==
  ASSUME NEW x \in Vlis(num_words), NEW y \in Vlis(num_words), NEW m \in Vlis(num_words),
         Value(x) < Value(m), Value(y) < Value(m)
  PROVE  modAdd(x, y, m) \in Vlis(num_words) /\ Value(modAdd(x, y, m)) = (Value(x) + Value(y)) % Value(m)
<1> DEFINE s == vli_add(x, y)
           w == s.words
           c == s.carry
           d == vli_sub(w, m)
           e == d.words
           f == d.carry
<1>1. w \in Vlis(num_words) /\ c \in {0, 1} /\ Value(w) + Size * c = Value(x) + Value(y)
  BY AddIs
<1>2. e \in Vlis(num_words) /\ f \in {0, 1} /\ Value(e) - Size * f = Value(w) - Value(m)
  <2> HIDE DEF w
  <2>. QED BY <1>1, SubIs
<1>3. modAdd(x, y, m) = IF c = 1 \/ cmp_unsafe(m, w) # 1 THEN e ELSE w
  BY DEF modAdd
<1> HIDE DEF s, w, c, d, e, f
<1>4. /\ Value(x) \in 0 .. Size - 1 /\ Value(y) \in 0 .. Size - 1 /\ Value(m) \in 0 .. Size - 1
      /\ Value(w) \in 0 .. Size - 1 /\ Value(e) \in 0 .. Size - 1 /\ Size \in Nat \ {0}
  BY <1>1, <1>2, ValueRange
<1>5. cmp_unsafe(m, w) = 1 <=> Value(m) > Value(w)
  <2>1. Value(m) > Value(w) \/ Value(m) = Value(w) \/ Value(m) < Value(w)
    BY <1>4
  <2>. QED BY <1>1, <1>4, <2>1, CmpUnsafeIs
<1> DEFINE vx == Value(x)
           vy == Value(y)
           vm == Value(m)
           vw == Value(w)
           ve == Value(e)
<1>6. /\ vx \in 0 .. Size - 1 /\ vy \in 0 .. Size - 1 /\ vm \in 0 .. Size - 1 /\ vx < vm /\ vy < vm
      /\ vw \in 0 .. Size - 1 /\ ve \in 0 .. Size - 1 /\ Size \in Nat \ {0}
      /\ vw + Size * c = vx + vy /\ ve - Size * f = vw - vm
  BY <1>1, <1>2, <1>4
<1>7. CASE c = 1 \/ ~(vm > vw)
  <2>1. modAdd(x, y, m) = e
    BY <1>3, <1>5, <1>7
  <2> HIDE DEF vx, vy, vm, vw, ve
  <2>2. ve = vx + vy - vm
    <3>1. CASE c = 1
      <4>1. CASE f = 0
        BY <1>6, <3>1, <4>1
      <4>2. CASE f = 1
        BY <1>6, <3>1, <4>2
      <4>. QED BY <1>2, <4>1, <4>2
    <3>2. CASE c = 0
      <4>1. CASE f = 0
        BY <1>6, <3>2, <4>1
      <4>2. CASE f = 1
        BY <1>6, <1>7, <3>2, <4>2
      <4>. QED BY <1>2, <4>1, <4>2
    <3>. QED BY <1>1, <3>1, <3>2
  <2>3. ve = (vx + vy) % vm
    <3> DEFINE t == vx + vy
    <3>1. vm \in Nat \ {0} /\ t \in Int /\ vm <= t /\ t - vm < vm
      BY <1>6, <2>2
    <3>2. ve = t - vm
      BY <1>6, <2>2
    <3> HIDE DEF t
    <3>3. t % vm = t - vm
      BY <3>1, ModAbove
    <3>. QED BY <3>2, <3>3 DEF t
  <2>. QED BY <1>2, <2>1, <2>3 DEF vx, vy, vm, ve
<1>8. CASE c # 1 /\ vm > vw
  <2>1. modAdd(x, y, m) = w
    BY <1>3, <1>5, <1>8
  <2> HIDE DEF vx, vy, vm, vw, ve
  <2>2. vw = vx + vy
    BY <1>1, <1>6, <1>8
  <2>3. vw % vm = vw
    BY <1>6, <1>8, ModSmall
  <2>4. vw = (vx + vy) % vm
    BY <2>2, <2>3
  <2>. QED BY <1>1, <2>1, <2>4 DEF vx, vy, vm, vw
<1>. QED BY <1>7, <1>8

\* uECC_vli_modSub, for residues.
LEMMA ModSubIs ==
  ASSUME NEW x \in Vlis(num_words), NEW y \in Vlis(num_words), NEW m \in Vlis(num_words),
         Value(x) < Value(m), Value(y) < Value(m)
  PROVE  modSub(x, y, m) \in Vlis(num_words) /\ Value(modSub(x, y, m)) = (Value(x) - Value(y)) % Value(m)
<1> DEFINE s == vli_sub(x, y)
           w == s.words
           c == s.carry
           d == vli_add(w, m)
           e == d.words
           f == d.carry
<1>1. w \in Vlis(num_words) /\ c \in {0, 1} /\ Value(w) - Size * c = Value(x) - Value(y)
  BY SubIs
<1>2. e \in Vlis(num_words) /\ f \in {0, 1} /\ Value(e) + Size * f = Value(w) + Value(m)
  <2> HIDE DEF w
  <2>. QED BY <1>1, AddIs
<1>3. modSub(x, y, m) = IF c = 1 THEN e ELSE w
  BY DEF modSub
<1> HIDE DEF s, w, c, d, e, f
<1> DEFINE vx == Value(x)
           vy == Value(y)
           vm == Value(m)
           vw == Value(w)
           ve == Value(e)
<1>4. /\ vx \in 0 .. Size - 1 /\ vy \in 0 .. Size - 1 /\ vm \in 0 .. Size - 1
      /\ vw \in 0 .. Size - 1 /\ ve \in 0 .. Size - 1 /\ Size \in Nat \ {0}
  BY <1>1, <1>2, ValueRange
<1>6. /\ vw - Size * c = vx - vy /\ ve + Size * f = vw + vm /\ vx < vm /\ vy < vm
  BY <1>1, <1>2
<1>7. CASE c = 1
  <2>1. modSub(x, y, m) = e
    BY <1>3, <1>7
  <2> HIDE DEF vx, vy, vm, vw, ve
  <2>2. ve = vx - vy + vm /\ vx - vy < 0
    <3>1. CASE f = 0
      BY <1>4, <1>6, <1>7, <3>1
    <3>2. CASE f = 1
      BY <1>4, <1>6, <1>7, <3>2
    <3>. QED BY <1>2, <3>1, <3>2
  <2>3. ve = (vx - vy) % vm
    <3> DEFINE t == vx - vy
    <3>1. vm \in Nat \ {0} /\ t \in Int /\ -vm <= t /\ t < 0
      BY <1>4, <1>6, <2>2
    <3>2. ve = t + vm
      BY <2>2
    <3> HIDE DEF t
    <3>3. t % vm = t + vm
      BY <3>1, ModBelow
    <3>. QED BY <3>2, <3>3 DEF t
  <2>. QED BY <1>2, <2>1, <2>3 DEF vx, vy, vm, ve
<1>8. CASE c = 0
  <2>1. modSub(x, y, m) = w
    BY <1>3, <1>8
  <2> HIDE DEF vx, vy, vm, vw, ve
  <2>2. vw = vx - vy
    BY <1>4, <1>6, <1>8
  <2>3. vw % vm = vw
    <3>1. vm \in Nat \ {0} /\ vw \in Int /\ 0 <= vw /\ vw < vm
      BY <1>4, <1>6, <2>2
    <3>. QED BY <3>1, ModSmall
  <2>4. vw = (vx - vy) % vm
    BY <2>2, <2>3
  <2>. QED BY <1>1, <2>1, <2>4 DEF vx, vy, vm, vw
<1>. QED BY <1>1, <1>7, <1>8

\* All operations that products and inverses are made of compute.
LEMMA StepsAre ==
  ASSUME left \in Vlis(num_words), right \in Vlis(num_words), mod \in Vlis(num_words)
  PROVE  StepsCompute
<1> DEFINE l == Value(left)
           k == Value(right)
           m == Value(mod)
<1>1. l \in 0 .. Size - 1 /\ k \in 0 .. Size - 1 /\ m \in 0 .. Size - 1 /\ Size \in Nat \ {0}
  BY ValueRange
<1>2. Value(vli_add(left, right).words) + Size * vli_add(left, right).carry = l + k
  BY AddIs
<1>3. Value(vli_sub(left, right).words) - Size * vli_sub(left, right).carry = l - k
  BY SubIs
<1>4. Value(rshift1(left)) = l \div 2
  <2> DEFINE r1 == Value(rshift1(left))
             e == left[1] % 2
  <2>1. rshift1(left) \in Vlis(num_words) /\ 2 * r1 + e = l /\ e \in {0, 1}
    BY ShiftIs
  <2>2. r1 \in Int
    BY <1>1, <2>1, ValueRange
  <2> HIDE DEF r1, e, l
  <2>3. r1 = l \div 2
    BY <1>1, <2>1, <2>2
  <2>. QED BY <2>3 DEF r1
<1>5. cmp(left, right) = Bit(l > k) - Bit(l < k) /\ cmp_unsafe(left, right) = cmp(left, right)
  <2>1. l > k \/ l = k \/ l < k
    BY <1>1
  <2>2. CASE l > k
    BY <1>1, <2>2, CmpIs, CmpUnsafeIs DEF Bit
  <2>3. CASE l = k
    BY <1>1, <2>3, CmpIs, CmpUnsafeIs DEF Bit
  <2>4. CASE l < k
    BY <1>1, <2>4, CmpIs, CmpUnsafeIs DEF Bit
  <2>. QED BY <2>1, <2>2, <2>3, <2>4
<1>6. two[numBits(left)] > l /\ (l > 0 => l >= two[numBits(left) - 1])
  BY NumBitsIs
<1>7. \A bit \in 0 .. num_words * WORD_BITS - 1 : testBit(left, bit) = ((l \div two[bit]) % 2 = 1)
  BY TestBitIs
<1>8. bytesToNative(nativeToBytes(left)) = left
  BY BytesBack
<1>9. l < m /\ k < m =>
        Value(modAdd(left, right, mod)) = (l + k) % m /\ Value(modSub(left, right, mod)) = (l - k) % m
  BY ModAddIs, ModSubIs
<1>. QED BY <1>2, <1>3, <1>4, <1>5, <1>6, <1>7, <1>8, <1>9 DEF StepsCompute

-----------------------------------------------------------------------------
(* The product.                                                            *)

\* Values of sums, and of one more word.
LEMMA ValueAdds ==
  ASSUME NEW k \in 0 .. 2 * num_words, NEW f \in [1 .. k -> Int], NEW g \in [1 .. k -> Int]
  PROVE  Value([i \in 1 .. k |-> f[i] + g[i]]) = Value(f) + Value(g)
<1> DEFINE h == [i \in 1 .. k |-> f[i] + g[i]]
           s == [i \in 0 .. k |-> Sums(f)[i] + Sums(g)[i]]
           t == Sums(f)
           u1 == Sums(g)
<1>0. k \in Nat
  BY Sizes
<1>1. /\ t \in [0 .. k -> Int] /\ t[0] = 0 /\ Value(f) = t[k]
      /\ \A i \in 1 .. k : t[i] = t[i - 1] + f[i] * place[i - 1]
  BY SumsAre
<1>2. /\ u1 \in [0 .. k -> Int] /\ u1[0] = 0 /\ Value(g) = u1[k]
      /\ \A i \in 1 .. k : u1[i] = u1[i - 1] + g[i] * place[i - 1]
  BY SumsAre
<1>3. s = [i \in 0 .. k |-> t[i] + u1[i]]
  OBVIOUS
<1> HIDE DEF s, t, u1
<1>4. s[0] = 0 /\ s[k] = Value(f) + Value(g)
  BY <1>0, <1>1, <1>2, <1>3
<1>5. h \in [1 .. k -> Int]
  OBVIOUS
<1>6. ASSUME NEW i \in 1 .. k PROVE s[i] = s[i - 1] + h[i] * place[i - 1]
  <2>1. i \in 0 .. k /\ i - 1 \in 0 .. k
    BY <1>0
  <2> DEFINE p == place[i - 1]
             fi == f[i]
             gi == g[i]
             ti == t[i - 1]
             ui == u1[i - 1]
  <2>a. p \in Int
    BY PlaceAt
  <2>b. fi \in Int /\ gi \in Int
    OBVIOUS
  <2>c. ti \in Int /\ ui \in Int
    BY <1>1, <1>2, <2>1
  <2>2. p \in Int /\ fi \in Int /\ gi \in Int /\ ti \in Int /\ ui \in Int
    BY <2>a, <2>b, <2>c
  <2>3. s[i] = (ti + fi * p) + (ui + gi * p) /\ s[i - 1] = ti + ui /\ h[i] = fi + gi
    BY <1>1, <1>2, <1>3, <2>1
  <2> HIDE DEF p, fi, gi, ti, ui
  <2>4. (ti + fi * p) + (ui + gi * p) = (ti + ui) + (fi + gi) * p
    BY <2>2
  <2>. QED BY <2>3, <2>4 DEF p
<1> HIDE DEF h
<1>7. AddsUp(s, h, k)
  BY <1>4, <1>5, <1>6 DEF AddsUp
<1>8. Value(h) = s[k]
  BY <1>7, ValueBy
<1>. QED BY <1>4, <1>8 DEF h

\* One more word, in the next place.
LEMMA ValueAppend ==
  ASSUME NEW k \in 0 .. 2 * num_words - 1, NEW f \in Vlis(k), NEW w \in 0 .. W - 1
  PROVE  Append(f, w) \in Vlis(k + 1) /\ Value(Append(f, w)) = Value(f) + w * place[k]
<1> DEFINE h == Append(f, w)
           t == Sums(f)
           s == [i \in 0 .. k + 1 |-> IF i = k + 1 THEN t[k] + w * place[k] ELSE t[i]]
<1>0. k \in Nat /\ k \in 0 .. 2 * num_words /\ k + 1 \in 0 .. 2 * num_words /\ W \in Nat
  BY Sizes
<1>1. f \in [1 .. k -> Int]
  BY <1>0, SumsBounded
<1>2. /\ t \in [0 .. k -> Int] /\ t[0] = 0 /\ Value(f) = t[k]
      /\ \A i \in 1 .. k : t[i] = t[i - 1] + f[i] * place[i - 1]
  BY <1>0, <1>1, SumsAre
<1>3. h \in Vlis(k + 1) /\ h[k + 1] = w /\ \A i \in 1 .. k : h[i] = f[i]
  <2>1. f \in Seq(0 .. W - 1) /\ Len(f) = k
    BY <1>0, LenIs DEF Vlis, Seq
  <2>2. h = [i \in 1 .. k + 1 |-> IF i = k + 1 THEN w ELSE f[i]]
    <3>1. DOMAIN h = 1 .. k + 1
      BY <1>0, <2>1
    <3>2. h[k + 1] = w
      BY <1>0, <2>1
    <3>3. \A i \in 1 .. k : h[i] = f[i]
      BY <1>0, <2>1
    <3>4. h = [i \in 1 .. k + 1 |-> h[i]]
      <4>1. h \in Seq(0 .. W - 1)
        BY <2>1
      <4> HIDE DEF h
      <4>. QED BY <3>1, <4>1
    <3>5. \A i \in 1 .. k + 1 : h[i] = IF i = k + 1 THEN w ELSE f[i]
      <4> HIDE DEF h
      <4>1. \A i \in 1 .. k + 1 : i = k + 1 \/ i \in 1 .. k
        BY <1>0
      <4>. QED BY <3>2, <3>3, <4>1
    <3> HIDE DEF h
    <3>. QED BY <3>4, <3>5
  <2>3. \A i \in 1 .. k + 1 : i = k + 1 \/ i \in 1 .. k
    BY <1>0
  <2>4. \A i \in 1 .. k : f[i] \in 0 .. W - 1 /\ i # k + 1 /\ i \in 1 .. k + 1
    BY <1>0 DEF Vlis
  <2> HIDE DEF h
  <2>. QED BY <1>0, <2>2, <2>3, <2>4 DEF Vlis
<1> HIDE DEF t, h
<1>4. h \in [1 .. k + 1 -> Int]
  BY <1>0, <1>3, SumsBounded
<1>5. s[0] = 0 /\ s[k + 1] = Value(f) + w * place[k]
  BY <1>0, <1>2
<1>6. ASSUME NEW i \in 1 .. k + 1 PROVE s[i] = s[i - 1] + h[i] * place[i - 1]
  <2>1. CASE i = k + 1
    <3>1. s[i] = t[k] + w * place[k] /\ i - 1 = k /\ i - 1 \in 0 .. k + 1 /\ i - 1 # k + 1
      BY <1>0, <2>1
    <3>2. s[i - 1] = t[k] /\ h[i] = w
      BY <1>3, <2>1, <3>1
    <3>. QED BY <3>1, <3>2
  <2>2. CASE i # k + 1
    <3>1. i \in 1 .. k /\ i - 1 \in 0 .. k + 1 /\ i - 1 # k + 1 /\ i \in 0 .. k + 1
      BY <1>0, <2>2
    <3>2. s[i] = t[i] /\ s[i - 1] = t[i - 1] /\ h[i] = f[i]
      BY <1>3, <2>2, <3>1
    <3>. QED BY <1>2, <3>1, <3>2
  <2>. QED BY <2>1, <2>2
<1> HIDE DEF s
<1>7. AddsUp(s, h, k + 1)
  BY <1>0, <1>4, <1>5, <1>6 DEF AddsUp
<1>8. Value(h) = s[k + 1]
  BY <1>7, ValueBy
<1>. QED BY <1>3, <1>5, <1>8 DEF h

\* The three words r0, r1, r2.
Accs == (0 .. W - 1) \X (0 .. W - 1) \X (0 .. W - 1)
AccValue(acc) == acc[1] + W * acc[2] + (W * W) * acc[3]

\* The value of r0, r1, r2 is a natural number.
LEMMA AccRange ==
  ASSUME NEW acc \in Accs
  PROVE  /\ AccValue(acc) \in Nat /\ acc[1] + W * acc[2] \in 0 .. W * W - 1 /\ W * W \in Nat \ {0}
         /\ acc[1] \in 0 .. W - 1 /\ acc[2] \in 0 .. W - 1 /\ acc[3] \in 0 .. W - 1
<1>0. W \in Nat \ {0} /\ W * W \in Nat \ {0}
  BY Sizes, ProductPositive
<1>1. acc[1] \in 0 .. W - 1 /\ acc[2] \in 0 .. W - 1 /\ acc[3] \in 0 .. W - 1
  BY DEF Accs
<1>2. W * acc[2] \in Nat /\ W * acc[2] <= W * (W - 1) /\ (W * W) * acc[3] \in Nat
  BY <1>0, <1>1, Product, ProductMonotonic
<1>3. W * (W - 1) = W * W - W
  BY <1>0
<1>. QED BY <1>0, <1>1, <1>2, <1>3 DEF AccValue

\* muladd adds the product, if there is room in r2.
LEMMA MulAddIs ==
  ASSUME NEW x \in 0 .. W - 1, NEW y \in 0 .. W - 1, NEW acc \in Accs, AccValue(acc) + x * y < (W * W) * W
  PROVE  muladd(x, y, acc) \in Accs /\ AccValue(muladd(x, y, acc)) = AccValue(acc) + x * y
<1> DEFINE Q == W * W
           p == x * y
           lo == acc[2] * W + acc[1]
           a3 == acc[3]
           sum == lo + p
           r01 == sum % Q
           c == Bit(r01 < p)
<1>0. W \in Nat \ {0} /\ Q \in Nat \ {0} /\ x \in Nat /\ y \in Nat
  BY Sizes, ProductPositive
<1>1. lo \in 0 .. Q - 1 /\ a3 \in 0 .. W - 1 /\ AccValue(acc) = lo + Q * a3
  <2>1. acc[1] + W * acc[2] \in 0 .. W * W - 1 /\ acc[1] \in Int /\ acc[2] \in Int /\ a3 \in 0 .. W - 1
    BY <1>0, AccRange
  <2>2. lo = acc[1] + W * acc[2]
    BY <1>0, <2>1
  <2>. QED BY <2>1, <2>2 DEF AccValue
<1>2. p \in 0 .. Q - 1
  <2>1. x * y <= x * (W - 1) /\ (W - 1) * x <= (W - 1) * (W - 1) /\ x * y \in Nat
    BY <1>0, Product, ProductMonotonic
  <2>2. x * (W - 1) = (W - 1) * x /\ (W - 1) * (W - 1) = Q - 2 * W + 1
    BY <1>0
  <2>. QED BY <1>0, <2>1, <2>2
<1>3. muladd(x, y, acc) = <<r01 % W, r01 \div W, (a3 + c) % W>>
  BY DEF muladd
<1>4. lo + Q * a3 + p < Q * W
  BY <1>1
<1> HIDE DEF lo, a3, p, Q
<1>5. r01 \in 0 .. Q - 1 /\ c \in {0, 1} /\ sum = r01 + Q * c
  <2>1. sum \in Nat /\ sum < 2 * Q
    BY <1>0, <1>1, <1>2
  <2>s. sum = lo + p
    OBVIOUS
  <2>2. CASE sum < Q
    <3>1. r01 = sum
      <4> HIDE DEF sum
      <4>. QED BY <1>0, <2>1, <2>2, ModSmall
    <3>2. ~(r01 < p)
      BY <1>1, <1>2, <3>1
    <3>3. c = 0
      BY <3>2 DEF Bit
    <3> HIDE DEF sum, c, r01
    <3>. QED BY <1>0, <2>1, <2>2, <3>1, <3>3
  <2>3. CASE sum >= Q
    <3>1. r01 = sum - Q
      <4>1. sum - Q < Q /\ Q <= sum /\ sum \in Int
        BY <1>0, <2>1, <2>3
      <4> HIDE DEF sum
      <4>. QED BY <1>0, <4>1, ModAbove
    <3>2. r01 < p
      BY <1>0, <1>1, <1>2, <3>1
    <3>3. c = 1
      BY <3>2 DEF Bit
    <3> HIDE DEF sum, c, r01
    <3>. QED BY <1>0, <2>1, <2>3, <3>1, <3>3
  <2>. QED BY <1>0, <2>1, <2>2, <2>3
<1>s. sum = lo + p
  OBVIOUS
<1> HIDE DEF sum, c, r01
<1>6. a3 + c < W
  <2> SUFFICES ASSUME W <= a3 + c PROVE FALSE
    BY <1>0, <1>1, <1>5
  <2>1. Q * W <= Q * (a3 + c)
    BY <1>0, <1>1, <1>5, ProductMonotonic
  <2>2. Q * (a3 + c) = Q * a3 + Q * c /\ Q * a3 \in Int /\ Q * c \in Int
    BY <1>0, <1>1, <1>5
  <2>. QED BY <1>0, <1>1, <1>2, <1>4, <1>5, <1>s, <2>1, <2>2
<1>7. (a3 + c) % W = a3 + c
  <2> DEFINE e == a3 + c
  <2>1. e \in Int /\ 0 <= e /\ e < W
    BY <1>1, <1>5, <1>6
  <2> HIDE DEF e
  <2>2. e % W = e
    BY <1>0, <2>1, ModSmall
  <2>. QED BY <2>2 DEF e
<1> DEFINE u0 == r01 % W
           u2 == r01 \div W
<1>8. u0 \in 0 .. W - 1 /\ u2 \in Nat /\ r01 = W * u2 + u0
  <2>1. W \in Nat \ {0} /\ r01 \in Nat
    BY <1>0, <1>5
  <2>. QED BY <2>1, DivMod
<1> HIDE DEF u0, u2
<1>9. u2 < W
  <2> SUFFICES ASSUME W <= u2 PROVE FALSE
    BY <1>0, <1>8
  <2>1. W * W <= W * u2
    BY <1>0, <1>8, ProductMonotonic
  <2>. QED BY <1>0, <1>5, <1>8, <2>1 DEF Q
<1>10. muladd(x, y, acc) = <<u0, u2, a3 + c>>
  BY <1>3, <1>7 DEF u0, u2
<1>11. muladd(x, y, acc) \in Accs
  <2>1. a3 + c \in 0 .. W - 1
    BY <1>0, <1>1, <1>5, <1>6
  <2>. QED BY <1>0, <1>8, <1>9, <1>10, <2>1 DEF Accs
<1>12. AccValue(muladd(x, y, acc)) = (u0 + W * u2) + Q * (a3 + c)
  BY <1>10 DEF AccValue, Q
<1>13. (u0 + W * u2) + Q * (a3 + c) = (lo + Q * a3) + p
  <2>1. Q * (a3 + c) = Q * a3 + Q * c /\ Q * a3 \in Int /\ Q * c \in Int /\ W * u2 \in Int
    BY <1>0, <1>1, <1>5, <1>8
  <2>. QED BY <1>0, <1>1, <1>2, <1>5, <1>8, <1>s, <2>1
<1>. QED BY <1>1, <1>11, <1>12, <1>13 DEF p

\* The products of words in column k of a product, the one of x[i] and all of the first ones.
Cell(x, y, k, i) == IF k - i \in 0 .. num_words - 1 THEN x[i] * y[k + 1 - i] ELSE 0
Row(x, y, i) == [k \in 1 .. 2 * num_words |-> Cell(x, y, k, i)]
Grid(x, y) ==
  LET sums[i \in 0 .. num_words] ==
        IF i = 0 THEN [k \in 1 .. 2 * num_words |-> 0]
        ELSE [k \in 1 .. 2 * num_words |-> sums[i - 1][k] + Row(x, y, i)[k]]
  IN  sums
Columns(x, y) == Grid(x, y)[num_words]

CellGood(x, y, k, i) ==
  /\ Cell(x, y, k, i) \in 0 .. (W - 1) * (W - 1)
  /\ k - i \in 0 .. num_words - 1 =>
       x[i] \in 0 .. W - 1 /\ y[k + 1 - i] \in 0 .. W - 1 /\ k + 1 - i \in 1 .. num_words

\* A cell of the grid is a product of two words or nothing.
LEMMA CellIs ==
  ASSUME NEW x \in Vlis(num_words), NEW y \in Vlis(num_words), NEW i \in 1 .. num_words, NEW k \in 1 .. 2 * num_words
  PROVE  CellGood(x, y, k, i)
<1>0. num_words \in Nat /\ W \in Nat \ {0}
  BY Sizes
<1>1. (W - 1) * (W - 1) \in Nat
  <2>1. W - 1 \in Nat
    BY <1>0
  <2>. QED BY <2>1, Product
<1>2. CASE k - i \notin 0 .. num_words - 1
  <2>1. Cell(x, y, k, i) = 0
    BY <1>2 DEF Cell
  <2>. QED BY <1>1, <1>2, <2>1 DEF CellGood
<1>3. CASE k - i \in 0 .. num_words - 1
  <2> DEFINE a1 == x[i]
             b1 == y[k + 1 - i]
             w == W - 1
  <2>1. k + 1 - i \in 1 .. num_words
    BY <1>0, <1>3
  <2>2. a1 \in 0 .. w /\ b1 \in 0 .. w /\ w \in Nat
    BY <1>0, <2>1 DEF Vlis
  <2>3. Cell(x, y, k, i) = a1 * b1
    BY <1>3 DEF Cell
  <2>4. a1 * b1 \in 0 .. w * w
    <3> HIDE DEF a1, b1, w
    <3>1. a1 * b1 \in Nat /\ a1 * b1 <= a1 * w /\ w * a1 <= w * w
      BY <2>2, Product, ProductMonotonic
    <3>2. a1 * w = w * a1 /\ w * w \in Nat
      BY <2>2, Product
    <3>. QED BY <2>2, <3>1, <3>2
  <2>. QED BY <2>1, <2>2, <2>3, <2>4 DEF CellGood
<1>. QED BY <1>2, <1>3

GridGood(x, y, g) ==
  /\ g \in [0 .. num_words -> [1 .. 2 * num_words -> Int]]
  /\ g[0] = [k \in 1 .. 2 * num_words |-> 0]
  /\ \A i \in 1 .. num_words :
       g[i - 1] \in [1 .. 2 * num_words -> Int] /\ g[i] = [k \in 1 .. 2 * num_words |-> g[i - 1][k] + Row(x, y, i)[k]]

\* A row has integers in its cells.
LEMMA RowTyped ==
  ASSUME NEW x \in Vlis(num_words), NEW y \in Vlis(num_words), NEW i \in 1 .. num_words
  PROVE  Row(x, y, i) \in [1 .. 2 * num_words -> Int]
<1>1. \A k \in 1 .. 2 * num_words : Cell(x, y, k, i) \in Int
  <2> TAKE k \in 1 .. 2 * num_words
  <2>1. Cell(x, y, k, i) \in 0 .. (W - 1) * (W - 1)
    BY CellIs DEF CellGood
  <2>. QED BY <2>1
<1>. QED BY <1>1 DEF Row

\* The rows of the grid add up, column by column.
LEMMA GridIs ==
  ASSUME NEW x \in Vlis(num_words), NEW y \in Vlis(num_words)
  PROVE  GridGood(x, y, Grid(x, y))
<1> DEFINE n == num_words
           K == 1 .. 2 * num_words
           Z == [K -> Int]
           base == [k \in K |-> 0]
           Filled(i, z) == [k \in K |-> z[k] + Row(x, y, i)[k]]
           turn == [w \in (1 .. n) \X Z |-> Filled(w[1], w[2])]
           Def(g) == g = [i \in 0 .. n |-> IF i = 0 THEN base ELSE Filled(i, g[i - 1])]
<1>1. n \in Nat
  BY Sizes
<1>2. \A i \in 1 .. n, z \in Z : Filled(i, z) \in Z
  <2> TAKE i \in 1 .. n, z \in Z
  <2>1. Row(x, y, i) \in Z
    BY RowTyped
  <2>2. \A k \in K : z[k] + Row(x, y, i)[k] \in Int
    BY <2>1
  <2>. QED BY <2>2
<1>z. base \in Z
  OBVIOUS
<1>3. turn \in [(1 .. n) \X Z -> Z]
  <2> HIDE DEF Z, Filled
  <2>. QED BY <1>2
<1>4. \A i \in 1 .. n, z \in Z : turn[<<i, z>>] = Filled(i, z)
  <2> HIDE DEF Z, Filled
  <2>. QED OBVIOUS
<1>d. Grid(x, y) = CHOOSE h : Def(h)
  BY DEF Grid
<1>g. \A g : GridGood(x, y, g) <=>
         g \in [0 .. n -> Z] /\ g[0] = base /\ \A i \in 1 .. n : g[i - 1] \in Z /\ g[i] = Filled(i, g[i - 1])
  BY DEF GridGood
<1> HIDE DEF n, Z, K, base, turn, Filled
<1>5. PICK g : IsLoop(g, n, Z, base, turn)
  BY <1>1, <1>3, <1>z, Loop
<1>6. \A i \in 1 .. n : g[i - 1] \in Z /\ g[i] = Filled(i, g[i - 1])
  <2>1. g \in [0 .. n -> Z] /\ \A i \in 1 .. n : g[i] = turn[<<i, g[i - 1]>>]
    BY <1>5 DEF IsLoop
  <2>2. \A i \in 1 .. n : g[i - 1] \in Z
    BY <1>1, <2>1
  <2>. QED BY <1>4, <2>1, <2>2
<1>7. Def(g)
  <2>1. \A i \in 0 .. n : i = 0 \/ i \in 1 .. n
    BY <1>1
  <2>2. \A i \in 0 .. n : g[i] = IF i = 0 THEN base ELSE Filled(i, g[i - 1])
    BY <1>5, <1>6, <2>1 DEF IsLoop
  <2>. QED BY <1>5, <2>2 DEF IsLoop
<1> DEFINE c == Grid(x, y)
<1>8. Def(c)
  <2> HIDE DEF Def
  <2>. QED BY <1>7, <1>d
<1> HIDE DEF c
<1>9. IsLoop(c, n, Z, base, turn)
  <2>1. c = [i \in 0 .. n |-> c[i]] /\ c[0] = base
    BY <1>1, <1>8
  <2>2. \A i \in 1 .. n : c[i] = Filled(i, c[i - 1])
    BY <1>1, <1>8
  <2>3. \A i \in 1 .. n : c[i - 1] \in Z => c[i] = turn[<<i, c[i - 1]>>]
    BY <1>4, <2>2
  <2> HIDE DEF Def
  <2>. QED BY <1>1, <1>3, <1>z, <2>1, <2>3, LoopIs
<1>10. c \in [0 .. n -> Z] /\ c[0] = base
  BY <1>9 DEF IsLoop
<1>11. \A i \in 1 .. n : c[i - 1] \in Z /\ c[i] = Filled(i, c[i - 1])
  <2>1. \A i \in 1 .. n : c[i - 1] \in Z
    BY <1>1, <1>10
  <2>2. \A i \in 1 .. n : c[i] = turn[<<i, c[i - 1]>>]
    BY <1>9 DEF IsLoop
  <2>. QED BY <1>4, <2>1, <2>2
<1>. QED BY <1>g, <1>10, <1>11 DEF c

\* A row is its word times the other number, in its place.
LEMMA RowValue ==
  ASSUME NEW x \in Vlis(num_words), NEW y \in Vlis(num_words), NEW i \in 1 .. num_words
  PROVE  Value(Row(x, y, i)) = (x[i] * place[i - 1]) * Value(y)
<1> DEFINE n == num_words
           row == Row(x, y, i)
           q == x[i] * place[i - 1]
           t == Sums(y)
           At(k) == IF k - (i - 1) < 0 THEN 0 ELSE IF k - (i - 1) > n THEN n ELSE k - (i - 1)
           s == [k \in 0 .. 2 * n |-> q * t[At(k)]]
<1>0. n \in Nat \ {0} /\ W \in Nat /\ n \in 0 .. 2 * num_words /\ 2 * n \in 0 .. 2 * num_words
  BY Sizes
<1>1. row \in [1 .. 2 * n -> Int]
  BY RowTyped
<1>2. x[i] \in Int /\ place[i - 1] \in Int /\ q \in Int
  <2>1. x[i] \in Int
    BY <1>0 DEF Vlis
  <2>2. place[i - 1] \in Nat \ {0}
    BY <1>0, PlaceAt
  <2>. QED BY <2>1, <2>2
<1>3. /\ t \in [0 .. n -> Int] /\ t[0] = 0 /\ Value(y) = t[n]
      /\ \A j \in 1 .. n : t[j] = t[j - 1] + y[j] * place[j - 1]
  <2>1. y \in [1 .. n -> Int]
    BY <1>0, SumsBounded
  <2>. QED BY <1>0, <2>1, SumsAre
<1>4. \A k \in 0 .. 2 * n : s[k] = q * t[At(k)]
  OBVIOUS
<1>r. \A k \in 1 .. 2 * n : row[k] = IF k - i \in 0 .. n - 1 THEN x[i] * y[k + 1 - i] ELSE 0
  BY DEF Row, Cell
<1> HIDE DEF s, t, row
<1>5. s[0] = 0
  <2>1. At(0) = 0
    BY <1>0
  <2>2. 0 \in 0 .. 2 * n
    BY <1>0
  <2> HIDE DEF At, q
  <2>. QED BY <1>2, <1>3, <1>4, <2>1, <2>2
<1>6. s[2 * n] = q * Value(y)
  <2>1. At(2 * n) = n
    BY <1>0
  <2>2. 2 * n \in 0 .. 2 * n
    BY <1>0
  <2> HIDE DEF At, q
  <2>. QED BY <1>3, <1>4, <2>1, <2>2
<1>7. ASSUME NEW k \in 1 .. 2 * n PROVE s[k] = s[k - 1] + row[k] * place[k - 1]
  <2>0. k \in 0 .. 2 * n /\ k - 1 \in 0 .. 2 * n /\ place[k - 1] \in Int
    BY <1>0, PlaceAt
  <2>1. s[k] = q * t[At(k)] /\ s[k - 1] = q * t[At(k - 1)]
    BY <1>4, <2>0
  <2>2. CASE k - i \notin 0 .. n - 1
    <3>1. row[k] = 0
      BY <1>r, <2>2
    <3>2. At(k) = At(k - 1)
      BY <1>0, <2>2
    <3>3. At(k) \in 0 .. n
      BY <1>0
    <3>4. q * t[At(k)] \in Int
      BY <1>2, <1>3, <3>3
    <3> HIDE DEF At, q
    <3>. QED BY <2>0, <2>1, <3>1, <3>2, <3>4
  <2>3. CASE k - i \in 0 .. n - 1
    <3> DEFINE j == k + 1 - i
               yj == y[j]
               tj == t[j - 1]
               pj == place[j - 1]
               pi == place[i - 1]
               xi == x[i]
    <3>1. row[k] = xi * yj
      BY <1>r, <2>3
    <3>2. At(k) = j /\ At(k - 1) = j - 1 /\ j \in 1 .. n
      BY <1>0, <2>3
    <3>3. t[j] = tj + yj * pj
      BY <1>3, <3>2
    <3>4. tj \in Int /\ yj \in Int
      <4>1. j - 1 \in 0 .. n
        BY <1>0, <3>2
      <4>2. yj \in 0 .. W - 1
        BY <3>2 DEF Vlis
      <4>. QED BY <1>3, <4>1, <4>2
    <3>5. pj \in Int
      BY <3>2, PlaceAt, <1>0
    <3>6. place[k - 1] = pi * pj
      <4>1. i - 1 \in Nat /\ j - 1 \in Nat /\ (i - 1) + (j - 1) <= 2 * num_words /\ (i - 1) + (j - 1) = k - 1
        BY <1>0, <3>2
      <4> DEFINE i1 == i - 1
                 j1 == j - 1
      <4> HIDE DEF i1, j1
      <4>2. place[i1 + j1] = place[i1] * place[j1]
        BY <4>1, PlaceAdds DEF i1, j1
      <4>. QED BY <4>1, <4>2 DEF i1, j1
    <3>7. s[k] = q * (tj + yj * pj) /\ s[k - 1] = q * tj
      <4> HIDE DEF At, q, tj, yj, pj, j
      <4>1. t[At(k - 1)] = tj
        BY <3>2 DEF tj
      <4>. QED BY <2>1, <3>2, <3>3, <4>1
    <3>8. q = xi * pi /\ xi \in Int /\ pi \in Int
      BY <1>2
    <3> HIDE DEF q, tj, yj, pj, pi, xi
    <3>9. (xi * pi) * (tj + yj * pj) = (xi * pi) * tj + (xi * yj) * (pi * pj)
      BY <3>4, <3>5, <3>8
    <3>. QED BY <3>1, <3>6, <3>7, <3>8, <3>9
  <2>. QED BY <2>2, <2>3
<1>8. AddsUp(s, row, 2 * n)
  BY <1>0, <1>1, <1>5, <1>7 DEF AddsUp
<1> DEFINE m == 2 * n
<1> HIDE DEF m
<1>9. Value(row) = s[m]
  <2>1. AddsUp(s, row, m)
    BY <1>8 DEF m
  <2>. QED BY <2>1, ValueBy
<1>. QED BY <1>6, <1>9 DEF m, row

\* The columns of a product.
LEMMA ColumnsValue ==
  ASSUME NEW x \in Vlis(num_words), NEW y \in Vlis(num_words)
  PROVE  Columns(x, y) \in [1 .. 2 * num_words -> Int] /\ Value(Columns(x, y)) = Value(x) * Value(y)
<1> DEFINE n == num_words
           m == 2 * n
           g == Grid(x, y)
           s == Sums(x)
           V == Value(y)
           T == {i \in 0 .. n : Value(g[i]) = s[i] * V}
<1>0. n \in Nat /\ W \in Nat /\ n \in 0 .. 2 * num_words /\ m \in 0 .. 2 * num_words
  BY Sizes
<1>1. /\ g \in [0 .. n -> [1 .. m -> Int]] /\ g[0] = [k \in 1 .. m |-> 0]
      /\ \A i \in 1 .. n : g[i - 1] \in [1 .. m -> Int] /\ g[i] = [k \in 1 .. m |-> g[i - 1][k] + Row(x, y, i)[k]]
  BY GridIs DEF GridGood
<1>2. x \in [1 .. n -> Int] /\ V \in Int
  BY <1>0, SumsBounded, ValueBounded
<1>3. s \in [0 .. n -> Int] /\ s[0] = 0 /\ Value(x) = s[n] /\ \A i \in 1 .. n : s[i] = s[i - 1] + x[i] * place[i - 1]
  BY <1>0, <1>2, SumsAre
<1> HIDE DEF g, s, V, m
<1>4. 0 \in T
  <2> DEFINE z == [k \in 1 .. m |-> 0]
             zs == [k \in 0 .. m |-> 0]
  <2>1. m \in Nat
    BY <1>0
  <2>2. AddsUp(zs, z, m)
    <3>1. \A k \in 1 .. m : zs[k] = zs[k - 1] + z[k] * place[k - 1]
      <4> TAKE k \in 1 .. m
      <4>1. place[k - 1] \in Int /\ k \in 0 .. m /\ k - 1 \in 0 .. m
        BY <1>0, <2>1, PlaceAt
      <4>. QED BY <4>1
    <3>2. z \in [1 .. m -> Int] /\ zs[0] = 0
      BY <2>1
    <3> HIDE DEF z, zs
    <3>. QED BY <1>0, <3>1, <3>2 DEF AddsUp
  <2>3. zs[m] = 0
    BY <2>1
  <2>4. Value(z) = 0
    <3> HIDE DEF z, zs
    <3>. QED BY <2>2, <2>3, ValueBy
  <2> HIDE DEF zs
  <2>5. Value(g[0]) = s[0] * V
    BY <1>1, <1>2, <1>3, <2>4
  <2>. QED BY <1>0, <2>5
<1>5. ASSUME NEW i \in 1 .. n, i - 1 \in T PROVE i \in T
  <2> DEFINE f == g[i - 1]
             row == Row(x, y, i)
  <2>1. f \in [1 .. m -> Int] /\ row \in [1 .. m -> Int] /\ g[i] = [k \in 1 .. m |-> f[k] + row[k]]
    BY <1>1, RowTyped DEF m
  <2>2. Value(f) = s[i - 1] * V
    BY <1>5
  <2>3. Value(row) = (x[i] * place[i - 1]) * V
    BY RowValue DEF V
  <2> HIDE DEF f, row
  <2>4. Value([k \in 1 .. m |-> f[k] + row[k]]) = Value(f) + Value(row)
    BY <1>0, <2>1, ValueAdds
  <2>5. x[i] \in Int /\ place[i - 1] \in Int /\ s[i - 1] \in Int /\ s[i] = s[i - 1] + x[i] * place[i - 1]
    <3>1. place[i - 1] \in Nat \ {0}
      BY <1>0, PlaceAt
    <3>2. i - 1 \in 0 .. n
      BY <1>0
    <3>. QED BY <1>2, <1>3, <3>1, <3>2
  <2>6. s[i] * V = s[i - 1] * V + (x[i] * place[i - 1]) * V
    BY <1>2, <2>5
  <2>7. Value(g[i]) = s[i] * V /\ i \in 0 .. n
    BY <1>0, <2>1, <2>2, <2>3, <2>4, <2>6
  <2>. QED BY <2>7
<1> HIDE DEF T
<1>6. \A i \in 0 .. n : i \in T
  BY <1>0, <1>4, <1>5, UpTo
<1>7. Value(g[n]) = s[n] * V /\ g[n] \in [1 .. m -> Int]
  BY <1>0, <1>1, <1>6 DEF T
<1>. QED BY <1>3, <1>7 DEF Columns, g, m, V

\* What is in a column after some of the words.
LEMMA GridBounded ==
  ASSUME NEW x \in Vlis(num_words), NEW y \in Vlis(num_words), NEW k \in 1 .. 2 * num_words
  PROVE  /\ \A i \in 0 .. num_words : Grid(x, y)[i][k] \in 0 .. ((W - 1) * (W - 1)) * i
         /\ \A i \in 1 .. num_words : Grid(x, y)[i][k] = Grid(x, y)[i - 1][k] + Cell(x, y, k, i)
<1> DEFINE n == num_words
           m == 2 * n
           g == Grid(x, y)
           q == (W - 1) * (W - 1)
           T == {i \in 0 .. n : g[i][k] \in 0 .. q * i}
<1>0. n \in Nat /\ W \in Nat \ {0}
  BY Sizes
<1>q. q \in Nat
  <2>1. W - 1 \in Nat
    BY <1>0
  <2>. QED BY <2>1, Product
<1>1. /\ g \in [0 .. n -> [1 .. m -> Int]] /\ g[0] = [j \in 1 .. m |-> 0]
      /\ \A i \in 1 .. n : g[i - 1] \in [1 .. m -> Int] /\ g[i] = [j \in 1 .. m |-> g[i - 1][j] + Row(x, y, i)[j]]
  BY GridIs DEF GridGood
<1> HIDE DEF g
<1>2. \A i \in 1 .. n : g[i][k] = g[i - 1][k] + Cell(x, y, k, i)
  <2> TAKE i \in 1 .. n
  <2>1. g[i][k] = g[i - 1][k] + Row(x, y, i)[k]
    BY <1>1
  <2>2. Row(x, y, i)[k] = Cell(x, y, k, i)
    BY DEF Row
  <2>. QED BY <2>1, <2>2
<1>3. 0 \in T
  BY <1>0, <1>1, <1>q
<1>4. ASSUME NEW i \in 1 .. n, i - 1 \in T PROVE i \in T
  <2>1. Cell(x, y, k, i) \in 0 .. q
    BY CellIs DEF CellGood
  <2>2. g[i - 1][k] \in 0 .. q * (i - 1) /\ g[i][k] = g[i - 1][k] + Cell(x, y, k, i)
    BY <1>2, <1>4
  <2> HIDE DEF q
  <2>3. q * (i - 1) + q = q * i /\ q * (i - 1) \in Int
    BY <1>0, <1>q
  <2>4. g[i][k] \in 0 .. q * i /\ i \in 0 .. n
    BY <1>0, <1>q, <2>1, <2>2, <2>3
  <2>. QED BY <2>4 DEF q
<1> HIDE DEF T
<1>5. \A i \in 0 .. n : i \in T
  BY <1>0, <1>3, <1>4, UpTo
<1>6. \A i \in 0 .. n : g[i][k] \in 0 .. q * i
  BY <1>5 DEF T
<1>. QED BY <1>2, <1>6 DEF g

\* The loop over a column.
ColumnTurn(x, y, k, i, acc) ==
  IF k - i \in 0 .. num_words - 1 THEN muladd(x[i], y[k + 1 - i], acc) ELSE acc
ColumnAt(x, y, k, i, acc) ==
  IF (k - 1) + 1 - i \in 0 .. num_words - 1 THEN muladd(x[i], y[(k - 1) + 2 - i], acc) ELSE acc
ColumnSteps(x, y, k, acc) ==
  LET t[i \in 0 .. num_words] ==
        IF i = 0 THEN acc
        ELSE IF (k - 1) + 1 - i \in 0 .. num_words - 1 THEN muladd(x[i], y[(k - 1) + 2 - i], t[i - 1]) ELSE t[i - 1]
  IN  t
ColumnRuns(x, y, k, acc, t) ==
  t[0] = acc /\ \A i \in 1 .. num_words : t[i] = ColumnTurn(x, y, k, i, t[i - 1])

\* The loop over a column has its partial results.
LEMMA ColumnLoop ==
  ASSUME NEW x \in Vlis(num_words), NEW y \in Vlis(num_words), NEW k \in 1 .. 2 * num_words, NEW acc \in Accs
  PROVE  ColumnRuns(x, y, k, acc, ColumnSteps(x, y, k, acc))
<1> DEFINE n == num_words
           Z == Int \X Int \X Int
           turn == [w \in (1 .. n) \X Z |-> ColumnTurn(x, y, k, w[1], w[2])]
           Def(g) == g = [i \in 0 .. n |-> IF i = 0 THEN acc ELSE ColumnAt(x, y, k, i, g[i - 1])]
<1>1. n \in Nat /\ W \in Nat \ {0} /\ W * W \in Nat \ {0}
  BY Sizes, ProductPositive
<1>2. \A i \in 1 .. n, z \in Z : ColumnTurn(x, y, k, i, z) \in Z
  <2> TAKE i \in 1 .. n, z \in Z
  <2>1. CASE k - i \in 0 .. num_words - 1
    <3> DEFINE a1 == x[i]
               b1 == y[k + 1 - i]
               r01 == (z[2] * W + z[1] + a1 * b1) % (W * W)
               c == Bit(r01 < a1 * b1)
    <3>1. a1 \in Int /\ b1 \in Int
      <4>1. a1 \in 0 .. W - 1 /\ b1 \in 0 .. W - 1
        BY <2>1, CellIs DEF CellGood
      <4>. QED BY <1>1, <4>1
    <3>2. z[1] \in Int /\ z[2] \in Int /\ z[3] \in Int
      OBVIOUS
    <3>3. ColumnTurn(x, y, k, i, z) = <<r01 % W, r01 \div W, (z[3] + c) % W>>
      BY <2>1 DEF ColumnTurn, muladd
    <3>4. r01 \in Int
      <4> DEFINE d == W * W
                 e == z[2] * W + z[1] + a1 * b1
      <4>1. d \in Nat \ {0} /\ e \in Int
        BY <1>1, <3>1, <3>2
      <4> HIDE DEF d, e
      <4>2. e % d \in 0 .. d - 1
        BY <4>1, DivModInt
      <4>3. e % d \in Int
        BY <4>1, <4>2
      <4>. QED BY <4>3 DEF d, e
    <3>5. c \in Int
      BY DEF Bit
    <3> HIDE DEF r01, c
    <3>6. r01 % W \in Int /\ r01 \div W \in Int
      BY <1>1, <3>4
    <3>7. (z[3] + c) % W \in Int
      BY <1>1, <3>2, <3>5
    <3>. QED BY <3>3, <3>6, <3>7
  <2>2. CASE k - i \notin 0 .. num_words - 1
    BY <2>2 DEF ColumnTurn
  <2>. QED BY <2>1, <2>2
<1>z. acc \in Z
  <2>1. \A e \in 0 .. W - 1 : e \in Int
    BY <1>1
  <2>. QED BY <2>1 DEF Accs
<1>3. turn \in [(1 .. n) \X Z -> Z]
  <2> HIDE DEF Z
  <2>. QED BY <1>2
<1>4. \A i \in 1 .. n, z \in Z : turn[<<i, z>>] = ColumnTurn(x, y, k, i, z)
  <2> HIDE DEF Z
  <2>. QED OBVIOUS
<1> DEFINE c == ColumnSteps(x, y, k, acc)
<1>d. c = CHOOSE h : Def(h)
  BY DEF ColumnSteps, ColumnAt
<1>e. ASSUME NEW i \in 1 .. n, NEW z PROVE ColumnAt(x, y, k, i, z) = ColumnTurn(x, y, k, i, z)
  <2>1. (k - 1) + 1 - i = k - i /\ (k - 1) + 2 - i = k + 1 - i
    BY <1>1
  <2>. QED BY <2>1 DEF ColumnAt, ColumnTurn
<1> HIDE DEF n, Z, turn, c
<1>5. PICK g : IsLoop(g, n, Z, acc, turn)
  BY <1>1, <1>3, <1>z, Loop
<1>6. \A i \in 1 .. n : g[i - 1] \in Z /\ g[i] = ColumnTurn(x, y, k, i, g[i - 1])
  <2>1. g \in [0 .. n -> Z] /\ \A i \in 1 .. n : g[i] = turn[<<i, g[i - 1]>>]
    BY <1>5 DEF IsLoop
  <2>2. \A i \in 1 .. n : g[i - 1] \in Z
    BY <1>1, <2>1
  <2>. QED BY <1>4, <2>1, <2>2
<1>7. Def(g)
  <2>1. \A i \in 0 .. n : i = 0 \/ i \in 1 .. n
    BY <1>1
  <2>2. \A i \in 0 .. n : g[i] = IF i = 0 THEN acc ELSE ColumnAt(x, y, k, i, g[i - 1])
    BY <1>5, <1>6, <1>e, <2>1 DEF IsLoop
  <2>. QED BY <1>5, <2>2 DEF IsLoop
<1>8. Def(c)
  <2> HIDE DEF Def
  <2>. QED BY <1>7, <1>d
<1>9. c[0] = acc /\ \A i \in 1 .. n : c[i] = ColumnAt(x, y, k, i, c[i - 1])
  BY <1>1, <1>8
<1>10. \A i \in 1 .. n : c[i] = ColumnTurn(x, y, k, i, c[i - 1])
  BY <1>9, <1>e
<1>. QED BY <1>9, <1>10 DEF c, n, ColumnRuns

\* The three words hold the sum as long as a column has fewer than W words.
ColumnFits(acc) == acc \in Accs /\ AccValue(acc) <= num_words * (W - 1)
ColumnSum(acc, x, y, k, out) ==
  out \in Accs /\ AccValue(out) = AccValue(acc) + Columns(x, y)[k] /\ AccValue(out) <= (num_words * (W - 1)) * W

\* Column adds the products of its column, and they fit.
LEMMA ColumnIs ==
  ASSUME NEW x \in Vlis(num_words), NEW y \in Vlis(num_words), NEW k \in 1 .. 2 * num_words,
         NEW acc, ColumnFits(acc), num_words < W
  PROVE  ColumnSum(acc, x, y, k, Column(x, y, k - 1, acc))
<1> DEFINE n == num_words
           t == ColumnSteps(x, y, k, acc)
           g(i) == Grid(x, y)[i][k]
           q == (W - 1) * (W - 1)
           A == AccValue(acc)
           T == {i \in 0 .. n : t[i] \in Accs /\ AccValue(t[i]) = A + g(i)}
<1>0. n \in Nat \ {0} /\ W \in Nat \ {0} /\ n <= W - 1
  BY Sizes
<1>a. acc \in Accs /\ A <= n * (W - 1) /\ A \in Nat
  BY AccRange DEF ColumnFits
<1>1. t[0] = acc /\ \A i \in 1 .. n : t[i] = ColumnTurn(x, y, k, i, t[i - 1])
  BY <1>a, ColumnLoop DEF ColumnRuns
<1>2. /\ \A i \in 0 .. n : g(i) \in 0 .. q * i
      /\ \A i \in 1 .. n : g(i) = g(i - 1) + Cell(x, y, k, i)
  BY GridBounded
<1>q. q \in Nat
  <2>1. W - 1 \in Nat
    BY <1>0
  <2>. QED BY <2>1, Product
<1>3. \A i \in 0 .. n : A + g(i) <= (n * (W - 1)) * W
  <2> TAKE i \in 0 .. n
  <2>1. q * i <= q * n
    BY <1>0, <1>q, ProductMonotonic
  <2>2. n * (W - 1) + q * n = (n * (W - 1)) * W
    <3> DEFINE w == W - 1
    <3>1. w \in Nat /\ W = w + 1
      BY <1>0
    <3> HIDE DEF w
    <3>2. n * w + (w * w) * n = (n * w) * (w + 1)
      BY <1>0, <3>1
    <3>. QED BY <3>1, <3>2 DEF w
  <2>3. g(i) \in 0 .. q * i /\ q * n \in Int /\ n * (W - 1) \in Int /\ q * i \in Int
    BY <1>0, <1>2, <1>q
  <2> HIDE DEF g, q
  <2>. QED BY <1>a, <2>1, <2>2, <2>3
<1>4. (n * (W - 1)) * W < (W * W) * W
  <2>1. (W - 1) * n <= (W - 1) * (W - 1)
    <3>1. W - 1 \in Nat
      BY <1>0
    <3>. QED BY <1>0, <3>1, ProductMonotonic
  <2>2. n * (W - 1) <= q /\ q = W * W - 2 * W + 1 /\ q \in Nat /\ n * (W - 1) \in Int /\ W * W \in Int
    BY <1>0, <1>q, <2>1
  <2>3. n * (W - 1) + 1 <= W * W
    BY <1>0, <2>2
  <2> DEFINE e == n * (W - 1)
             d == W * W
  <2>4. e \in Int /\ d \in Int /\ e + 1 <= d
    BY <2>2, <2>3
  <2> HIDE DEF e, d
  <2>5. W * (e + 1) <= W * d /\ W * (e + 1) = e * W + W /\ W * d = d * W
    BY <1>0, <2>4, ProductMonotonic
  <2>6. e * W < d * W
    <3>1. e * W \in Int /\ d * W \in Int
      BY <1>0, <2>4
    <3>. QED BY <1>0, <2>5, <3>1
  <2>. QED BY <2>6 DEF e, d
<1>g. g(0) = 0
  BY <1>0, <1>2
<1> HIDE DEF t, g
<1>5. 0 \in T
  BY <1>0, <1>1, <1>a, <1>g
<1>6. ASSUME NEW i \in 1 .. n, i - 1 \in T PROVE i \in T
  <2>0. i \in 0 .. n /\ i - 1 \in 0 .. n
    BY <1>0
  <2> DEFINE tt == t[i - 1]
  <2>1. tt \in Accs /\ AccValue(tt) = A + g(i - 1) /\ t[i] = ColumnTurn(x, y, k, i, tt)
    BY <1>1, <1>6
  <2>2. g(i) = g(i - 1) + Cell(x, y, k, i) /\ g(i) \in Int /\ g(i - 1) \in Int
    BY <1>2, <1>q, <2>0
  <2> HIDE DEF tt
  <2>3. CASE k - i \notin 0 .. num_words - 1
    <3>1. Cell(x, y, k, i) = 0 /\ t[i] = tt
      BY <2>1, <2>3 DEF Cell, ColumnTurn
    <3>2. t[i] \in Accs /\ AccValue(t[i]) = A + g(i)
      BY <1>a, <2>1, <2>2, <3>1
    <3>. QED BY <2>0, <3>2
  <2>4. CASE k - i \in 0 .. num_words - 1
    <3> DEFINE a1 == x[i]
               b1 == y[k + 1 - i]
    <3>1. a1 \in 0 .. W - 1 /\ b1 \in 0 .. W - 1
      BY <2>4, CellIs DEF CellGood
    <3>2. Cell(x, y, k, i) = a1 * b1 /\ t[i] = muladd(a1, b1, tt)
      BY <2>1, <2>4 DEF Cell, ColumnTurn
    <3> HIDE DEF a1, b1
    <3>3. a1 * b1 \in Int
      BY <1>0, <3>1
    <3>4. A + g(i) <= (n * (W - 1)) * W
      BY <1>3, <2>0
    <3>5. AccValue(tt) + a1 * b1 = A + g(i)
      BY <1>a, <2>1, <2>2, <3>2, <3>3
    <3>6. AccValue(tt) + a1 * b1 < (W * W) * W
      <4>1. (n * (W - 1)) * W \in Int /\ (W * W) * W \in Int
        BY <1>0
      <4>. QED BY <1>4, <1>a, <2>2, <3>4, <3>5, <4>1
    <3>7. muladd(a1, b1, tt) \in Accs /\ AccValue(muladd(a1, b1, tt)) = AccValue(tt) + a1 * b1
      BY <2>1, <3>1, <3>6, MulAddIs
    <3>8. t[i] \in Accs /\ AccValue(t[i]) = A + g(i)
      BY <3>2, <3>5, <3>7
    <3>. QED BY <2>0, <3>8
  <2>. QED BY <2>3, <2>4
<1> HIDE DEF T
<1>7. \A i \in 0 .. n : i \in T
  BY <1>0, <1>5, <1>6, UpTo
<1>8. t[n] \in Accs /\ AccValue(t[n]) = A + g(n) /\ A + g(n) <= (n * (W - 1)) * W
  BY <1>0, <1>3, <1>7 DEF T
<1>9. Column(x, y, k - 1, acc) = t[n]
  BY DEF Column, ColumnSteps, t
<1>. QED BY <1>8, <1>9 DEF ColumnSum, Columns, g

\* Between two turns of uECC_vli_mult: what is written and what is carried are the columns so far.
Multiplying(x, y, p, acc) ==
  /\ num_words < W /\ Len(p) \in 0 .. 2 * num_words - 1 /\ p \in Vlis(Len(p))
  /\ ColumnFits(acc) /\ acc[3] = 0
  /\ Value(p) + place[Len(p)] * AccValue(acc) = Sums(Columns(x, y))[Len(p)]

\* Nothing multiplied, nothing found.
LEMMA MultiplyStarts ==
  ASSUME NEW x \in Vlis(num_words), NEW y \in Vlis(num_words), num_words < W
  PROVE  Multiplying(x, y, <<>>, <<0, 0, 0>>)
<1> DEFINE acc == <<0, 0, 0>>
           p == <<>>
<1>0. num_words \in Nat \ {0} /\ W \in Nat \ {0} /\ 0 \in 0 .. 2 * num_words
  BY Sizes
<1>1. acc \in Accs /\ AccValue(acc) = 0 /\ acc[3] = 0
  BY <1>0 DEF Accs, AccValue
<1>2. 0 <= num_words * (W - 1)
  <2>1. W - 1 \in Nat
    BY <1>0
  <2>2. num_words * (W - 1) \in Nat
    BY <1>0, <2>1, Product
  <2>. QED BY <2>2
<1>3. ColumnFits(acc)
  BY <1>1, <1>2 DEF ColumnFits
<1>4. Len(p) = 0 /\ p \in [1 .. 0 -> 0 .. W - 1]
  OBVIOUS
<1>5. p \in Vlis(0) /\ p \in [1 .. 0 -> Int]
  BY <1>4 DEF Vlis
<1> HIDE DEF p, acc
<1>6. Value(p) = 0
  BY <1>0, <1>5, SumsAre
<1>7. Sums(Columns(x, y))[0] = 0
  <2>1. 2 * num_words \in 0 .. 2 * num_words
    BY <1>0
  <2> DEFINE m == 2 * num_words
             f == Columns(x, y)
  <2>2. m \in 0 .. 2 * num_words /\ f \in [1 .. m -> Int]
    BY <2>1, ColumnsValue
  <2> HIDE DEF m, f
  <2>3. Sums(f)[0] = 0
    BY <2>2, SumsAre
  <2>. QED BY <2>3 DEF f
<1>8. place[0] = 1
  BY PlaceIs
<1>9. Value(p) + place[0] * AccValue(acc) = 0
  BY <1>1, <1>6, <1>8
<1>10. Len(p) \in 0 .. 2 * num_words - 1
  BY <1>0, <1>4
<1>11. Multiplying(x, y, p, acc)
  BY <1>1, <1>3, <1>4, <1>5, <1>7, <1>9, <1>10 DEF Multiplying
<1>. QED BY <1>11 DEF p, acc

ColumnsSum(x, y, s) ==
  /\ s \in [0 .. 2 * num_words -> Int] /\ s[2 * num_words] = Value(x) * Value(y)
  /\ \A k \in 1 .. 2 * num_words : s[k] = s[k - 1] + Columns(x, y)[k] * place[k - 1] /\ Columns(x, y)[k] \in Int
  /\ Columns(x, y)[2 * num_words] = 0

\* All columns together are the product, and the last one is empty.
LEMMA ColumnsAre ==
  ASSUME NEW x \in Vlis(num_words), NEW y \in Vlis(num_words)
  PROVE  ColumnsSum(x, y, Sums(Columns(x, y)))
<1> DEFINE n == num_words
           m == 2 * n
           f == Columns(x, y)
           q == (W - 1) * (W - 1)
<1>0. n \in Nat \ {0} /\ W \in Nat \ {0} /\ m \in 0 .. 2 * num_words /\ m \in 1 .. 2 * n
  BY Sizes
<1>1. f \in [1 .. m -> Int] /\ Value(f) = Value(x) * Value(y)
  BY ColumnsValue
<1>2. f[m] = 0
  <2> DEFINE g(i) == Grid(x, y)[i][m]
             T == {i \in 0 .. n : g(i) = 0}
  <2>1. \A i \in 0 .. n : g(i) \in 0 .. q * i
    BY <1>0, GridBounded
  <2>2. \A i \in 1 .. n : g(i) = g(i - 1) + Cell(x, y, m, i)
    BY <1>0, GridBounded
  <2> HIDE DEF g
  <2>3. 0 \in T
    <3>1. q * 0 = 0
      BY <1>0
    <3>2. g(0) \in 0 .. 0
      BY <1>0, <2>1, <3>1
    <3>. QED BY <1>0, <3>2
  <2>4. ASSUME NEW i \in 1 .. n, i - 1 \in T PROVE i \in T
    <3>1. m - i \notin 0 .. n - 1
      BY <1>0
    <3>2. Cell(x, y, m, i) = 0
      BY <3>1 DEF Cell
    <3>. QED BY <1>0, <2>2, <2>4, <3>2
  <2> HIDE DEF T
  <2>5. \A i \in 0 .. n : i \in T
    BY <1>0, <2>3, <2>4, UpTo
  <2>6. g(n) = 0
    BY <1>0, <2>5 DEF T
  <2>. QED BY <2>6 DEF g, Columns
<1> HIDE DEF f
<1>3. /\ Sums(f) \in [0 .. m -> Int] /\ Value(f) = Sums(f)[m]
      /\ \A k \in 1 .. m : Sums(f)[k] = Sums(f)[k - 1] + f[k] * place[k - 1]
  <2> HIDE DEF m
  <2>. QED BY <1>0, <1>1, SumsAre
<1>4. \A k \in 1 .. m : f[k] \in Int
  BY <1>1
<1>. QED BY <1>1, <1>2, <1>3, <1>4 DEF ColumnsSum, f

\* A turn, for any number of words but the last.
LEMMA MultiplyTurn ==
  ASSUME NEW x \in Vlis(num_words), NEW y \in Vlis(num_words), NEW p, NEW acc, NEW c,
         Multiplying(x, y, p, acc), Len(p) < 2 * num_words - 1, c = Column(x, y, Len(p), acc)
  PROVE  Multiplying(x, y, Append(p, c[1]), <<c[2], c[3], 0>>)
<1> DEFINE n == num_words
           K == Len(p)
           k == K + 1
           s == Sums(Columns(x, y))
           col == Columns(x, y)[k]
           B == n * (W - 1)
           p2 == Append(p, c[1])
           acc2 == <<c[2], c[3], 0>>
<1>0. n \in Nat \ {0} /\ W \in Nat \ {0} /\ n < W
  BY Sizes DEF Multiplying
<1>1. K \in 0 .. 2 * n - 1 /\ K < 2 * n - 1 /\ p \in Vlis(K) /\ ColumnFits(acc) /\ acc[3] = 0
      /\ Value(p) + place[K] * AccValue(acc) = s[K]
  BY DEF Multiplying
<1>2. k \in 1 .. 2 * n /\ k - 1 = K /\ K \in Nat /\ K \in 0 .. 2 * n /\ k \in 0 .. 2 * n - 1
  BY <1>0, <1>1
<1> HIDE DEF K
<1>3. ColumnSum(acc, x, y, k, c)
  <2>1. ColumnSum(acc, x, y, k, Column(x, y, k - 1, acc))
    BY <1>0, <1>1, <1>2, ColumnIs
  <2>. QED BY <1>2, <2>1 DEF K
<1>4. c \in Accs /\ AccValue(c) = AccValue(acc) + col /\ AccValue(c) <= B * W
  BY <1>3 DEF ColumnSum
<1>5. c[1] \in 0 .. W - 1 /\ c[2] \in 0 .. W - 1 /\ c[3] \in 0 .. W - 1
  BY <1>4, AccRange
<1>6. acc2 \in Accs /\ acc2[3] = 0 /\ AccValue(acc2) = c[2] + W * c[3]
  <2>1. 0 \in 0 .. W - 1 /\ (W * W) * 0 = 0
    BY <1>0
  <2>2. c[2] + W * c[3] \in Int
    BY <1>0, <1>5
  <2>. QED BY <1>5, <2>1, <2>2 DEF Accs, AccValue
<1> DEFINE A2 == AccValue(acc2)
           c1 == c[1]
<1>7. AccValue(c) = c1 + W * A2 /\ A2 \in Nat /\ c1 \in 0 .. W - 1
  <2>1. (W * W) * c[3] = W * (W * c[3]) /\ W * (c[2] + W * c[3]) = W * c[2] + W * (W * c[3])
    <3>1. c[2] \in Int /\ c[3] \in Int /\ W \in Int
      BY <1>0, <1>5
    <3>. QED BY <3>1
  <2>2. W * c[2] \in Nat /\ W * (W * c[3]) \in Nat /\ W * c[3] \in Nat
    <3>1. c[2] \in Nat /\ c[3] \in Nat /\ W \in Nat
      BY <1>0, <1>5
    <3>2. W * c[2] \in Nat /\ W * c[3] \in Nat
      BY <3>1, Product
    <3>3. W * (W * c[3]) \in Nat
      BY <3>1, <3>2, Product
    <3>. QED BY <3>2, <3>3
  <2>. QED BY <1>5, <1>6, <2>1, <2>2 DEF AccValue
<1> HIDE DEF A2, c1, acc2
<1>8. ColumnFits(acc2)
  <2>1. A2 <= B
    <3> SUFFICES ASSUME B + 1 <= A2 PROVE FALSE
      BY <1>0, <1>7
    <3>1. B \in Int
      BY <1>0
    <3> HIDE DEF B
    <3>2. W * (B + 1) <= W * A2 /\ W * (B + 1) = B * W + W /\ B * W \in Int /\ W * A2 \in Int
      BY <1>0, <1>7, <3>1, ProductMonotonic
    <3>. QED BY <1>0, <1>4, <1>7, <3>2
  <2>. QED BY <1>6, <2>1 DEF ColumnFits, A2
<1>9. p2 \in Vlis(k) /\ Value(p2) = Value(p) + c1 * place[K]
  <2>1. K \in 0 .. 2 * num_words - 1
    BY <1>0, <1>1
  <2>2. c1 \in 0 .. W - 1
    BY <1>7
  <2>3. Append(p, c1) \in Vlis(K + 1) /\ Value(Append(p, c1)) = Value(p) + c1 * place[K]
    BY <1>1, <2>1, <2>2, ValueAppend
  <2>. QED BY <2>3 DEF c1
<1>10. Len(p2) = k
  <2>1. k \in Nat
    BY <1>2
  <2>. QED BY <1>9, <2>1, LenIs DEF Vlis
<1> HIDE DEF p2, s
<1>11. s[k] = s[K] + col * place[K] /\ col \in Int
  BY <1>2, ColumnsAre DEF ColumnsSum, s
<1>12. place[k] = W * place[K] /\ place[K] \in Int
  <2>1. k \in 0 .. 2 * num_words
    BY <1>0, <1>2
  <2>2. k \in 1 .. k
    BY <1>2
  <2>3. place[k] = W * place[k - 1] /\ place[k - 1] \in Nat \ {0}
    BY <2>1, <2>2, PlaceAt
  <2>. QED BY <1>2, <2>3
<1>13. Value(p2) + place[k] * A2 = s[k]
  <2> DEFINE P == place[K]
             V == Value(p)
             A == AccValue(acc)
  <2>1. V \in Int /\ A \in Int /\ P \in Int
    <3>1. K \in 0 .. 2 * num_words /\ acc \in Accs
      BY <1>1, <1>2 DEF ColumnFits
    <3>2. Value(p) \in 0 .. place[K] - 1 /\ AccValue(acc) \in Nat
      BY <1>1, <3>1, ValueBounded, AccRange
    <3>. QED BY <1>12, <3>2
  <2>2. A + col = c1 + W * A2 /\ s[k] = (V + P * A) + col * P
    BY <1>1, <1>4, <1>7, <1>11
  <2>3. Value(p2) + place[k] * A2 = (V + c1 * P) + (W * P) * A2
    BY <1>9, <1>12
  <2> HIDE DEF P, V, A, col, k
  <2>4. (A + col) * P = (c1 + W * A2) * P
    BY <2>2
  <2>5. (A + col) * P = P * A + col * P /\ (c1 + W * A2) * P = c1 * P + (W * P) * A2
    BY <1>0, <1>7, <1>11, <2>1
  <2>6. P * A \in Int /\ col * P \in Int /\ c1 * P \in Int /\ (W * P) * A2 \in Int
    BY <1>0, <1>7, <1>11, <2>1
  <2>. QED BY <2>1, <2>2, <2>3, <2>4, <2>5, <2>6
<1>14. Multiplying(x, y, p2, acc2)
  <2>1. acc2[3] = 0
    BY <1>6
  <2>. QED BY <1>0, <1>2, <1>8, <1>9, <1>10, <1>13, <2>1 DEF Multiplying, A2, s
<1>. QED BY <1>14 DEF p2, acc2

\* The last word, and no carry is left.
LEMMA MultiplyEnds ==
  ASSUME NEW x \in Vlis(num_words), NEW y \in Vlis(num_words), NEW p, NEW acc,
         Multiplying(x, y, p, acc), Len(p) = 2 * num_words - 1
  PROVE  Value(Append(p, acc[1])) = Value(x) * Value(y)
<1> DEFINE n == num_words
           K == 2 * n - 1
           s == Sums(Columns(x, y))
           A == AccValue(acc)
           P == place[K]
           V == Value(p)
<1>0. n \in Nat \ {0} /\ W \in Nat \ {0} /\ K \in 0 .. 2 * num_words - 1 /\ K \in 0 .. 2 * num_words
      /\ 2 * n \in 1 .. 2 * n /\ 2 * n - 1 = K /\ 2 * n \in 0 .. 2 * num_words
  BY Sizes
<1>1. p \in Vlis(K) /\ acc \in Accs /\ acc[3] = 0 /\ V + P * A = s[K]
  BY DEF Multiplying, ColumnFits
<1>2. acc[1] \in 0 .. W - 1 /\ acc[2] \in 0 .. W - 1 /\ A \in Nat
  BY <1>1, AccRange
<1>3. A = acc[1] + W * acc[2]
  <2>1. (W * W) * 0 = 0
    BY <1>0
  <2>2. acc[1] + W * acc[2] \in Int
    BY <1>0, <1>2
  <2>. QED BY <1>1, <2>1, <2>2 DEF AccValue
<1>4. V \in 0 .. P - 1 /\ P \in Nat \ {0}
  <2> HIDE DEF K
  <2>. QED BY <1>0, <1>1, ValueBounded
<1>5. Value(Append(p, acc[1])) = V + acc[1] * P
  <2> HIDE DEF K
  <2>. QED BY <1>0, <1>1, <1>2, ValueAppend
<1>6. s[2 * n] = Value(x) * Value(y) /\ s[2 * n] = s[K] /\ s[K] \in Int
  <2>1. /\ s[2 * n] = Value(x) * Value(y) /\ Columns(x, y)[2 * n] = 0 /\ s \in [0 .. 2 * n -> Int]
        /\ s[2 * n] = s[K] + Columns(x, y)[2 * n] * place[K]
    BY <1>0, ColumnsAre DEF ColumnsSum
  <2>2. s[K] \in Int /\ 0 * place[K] = 0
    BY <1>0, <1>4, <2>1
  <2>. QED BY <2>1, <2>2
<1>7. Value(x) * Value(y) < W * P
  <2> DEFINE S == place[n]
             vx == Value(x)
             vy == Value(y)
  <2>1. vx \in 0 .. S - 1 /\ vy \in 0 .. S - 1 /\ S \in Nat \ {0}
    BY <1>0, Sizes, ValueBounded
  <2>2. place[2 * n] = S * S
    <3>1. n \in Nat /\ n + n <= 2 * num_words /\ n + n = 2 * n
      BY <1>0
    <3>2. place[n + n] = place[n] * place[n]
      BY <3>1, PlaceAdds
    <3>. QED BY <3>1, <3>2
  <2>3. place[2 * n] = W * P
    BY <1>0, PlaceIs
  <2> HIDE DEF S, vx, vy, P
  <2>4. vx * vy <= vx * S /\ S * vx <= S * (S - 1) /\ S * (S - 1) = S * S - S /\ vx * S = S * vx
    BY <2>1, ProductMonotonic
  <2>5. vx * vy \in Int /\ S * vx \in Int /\ S * S \in Int
    BY <2>1
  <2>6. vx * vy < W * P
    BY <2>1, <2>2, <2>3, <2>4, <2>5
  <2>. QED BY <2>6 DEF vx, vy
<1>8. A < W
  <2> SUFFICES ASSUME W <= A PROVE FALSE
    BY <1>0, <1>2
  <2> HIDE DEF P, A, V, s
  <2>1. P * W <= P * A /\ P * W = W * P /\ P * A \in Int /\ W * P \in Int
    BY <1>0, <1>2, <1>4, ProductMonotonic
  <2>. QED BY <1>1, <1>4, <1>6, <1>7, <2>1
<1>9. acc[2] = 0
  <2> SUFFICES ASSUME acc[2] >= 1 PROVE FALSE
    BY <1>2
  <2>1. W * 1 <= W * acc[2] /\ W * acc[2] \in Int
    BY <1>0, <1>2, ProductMonotonic
  <2>. QED BY <1>0, <1>2, <1>3, <1>8, <2>1
<1>10. A = acc[1]
  BY <1>0, <1>2, <1>3, <1>9
<1>11. P * A = acc[1] * P
  <2> HIDE DEF P
  <2>. QED BY <1>2, <1>4, <1>10
<1>. QED BY <1>1, <1>5, <1>6, <1>11

-----------------------------------------------------------------------------
(* The fast reduction.                                                     *)

\* The values of eight and of sixteen words.
LEMMA EightWords ==
  ASSUME num_words = 8, NEW f \in [1 .. 8 -> Int]
  PROVE  Value(f) = f[1] * place[0] + f[2] * place[1] + f[3] * place[2] + f[4] * place[3] + f[5] * place[4]
    + f[6] * place[5] + f[7] * place[6] + f[8] * place[7]
<1>0. 8 \in 0 .. 2 * num_words
  OBVIOUS
<1>1. /\ Sums(f) \in [0 .. 8 -> Int] /\ Sums(f)[0] = 0 /\ Value(f) = Sums(f)[8]
      /\ \A i \in 1 .. 8 : Sums(f)[i] = Sums(f)[i - 1] + f[i] * place[i - 1]
  BY <1>0, SumsAre
<1> DEFINE s == Sums(f)
           x(i) == f[i] * place[i - 1]
<1>2. \A i \in 1 .. 8 : x(i) \in Int
  <2> TAKE i \in 1 .. 8
  <2>1. place[i - 1] \in Nat \ {0} /\ f[i] \in Int
    BY <1>0, PlaceAt
  <2>. QED BY <2>1
<1> HIDE DEF s, x
<1>3. \A i \in 1 .. 8 : s[i] = s[i - 1] + x(i)
  BY <1>1 DEF s, x
<1>4. s[0] = 0 /\ s[1] = s[0] + x(1) /\ s[2] = s[1] + x(2) /\ s[3] = s[2] + x(3) /\ s[4] = s[3] + x(4)
        /\ s[5] = s[4] + x(5) /\ s[6] = s[5] + x(6) /\ s[7] = s[6] + x(7) /\ s[8] = s[7] + x(8)
  BY <1>1, <1>3 DEF s
<1>5. s[8] = x(1) + x(2) + x(3) + x(4) + x(5) + x(6) + x(7) + x(8)
  BY <1>2, <1>4
<1>6. x(1) = f[1] * place[0] /\ x(2) = f[2] * place[1] /\ x(3) = f[3] * place[2] /\ x(4) = f[4] * place[3]
        /\ x(5) = f[5] * place[4] /\ x(6) = f[6] * place[5] /\ x(7) = f[7] * place[6] /\ x(8) = f[8] * place[7]
  BY DEF x
<1>. QED BY <1>1, <1>5, <1>6 DEF s

\* The value of the product by its lower half and its upper words.
LEMMA SixteenWords ==
  ASSUME num_words = 8, NEW f \in [1 .. 16 -> Int]
  PROVE  Value(f) = Value([i \in 1 .. 8 |-> f[i]])
                    + (f[9] * place[8] + f[10] * place[9] + f[11] * place[10] + f[12] * place[11]
                       + f[13] * place[12] + f[14] * place[13] + f[15] * place[14] + f[16] * place[15])
<1> DEFINE h == [i \in 1 .. 8 |-> f[i]]
           s == Sums(f)
           x(i) == f[i] * place[i - 1]
<1>0. 16 \in 0 .. 2 * num_words /\ 8 \in 0 .. 2 * num_words
  OBVIOUS
<1>1. /\ s \in [0 .. 16 -> Int] /\ s[0] = 0 /\ Value(f) = s[16]
      /\ \A i \in 1 .. 16 : s[i] = s[i - 1] + f[i] * place[i - 1]
  BY <1>0, SumsAre
<1>2. \A i \in 1 .. 16 : x(i) \in Int
  <2> TAKE i \in 1 .. 16
  <2>1. place[i - 1] \in Nat \ {0} /\ f[i] \in Int
    BY <1>0, PlaceAt
  <2>. QED BY <2>1
<1> HIDE DEF s, x
<1>h. h \in [1 .. 8 -> Int] /\ \A i \in 1 .. 8 : h[i] = f[i]
  OBVIOUS
<1> HIDE DEF h
<1>3. Value(h) = s[8]
  <2>1. AddsUp(s, h, 8)
    BY <1>0, <1>1, <1>h DEF AddsUp
  <2>. QED BY <2>1, ValueBy
<1>4. \A i \in 1 .. 16 : s[i] = s[i - 1] + x(i)
  BY <1>1 DEF x
<1>5. s[8] \in Int /\ s[9] = s[8] + x(9) /\ s[10] = s[9] + x(10) /\ s[11] = s[10] + x(11) /\ s[12] = s[11]
        + x(12) /\ s[13] = s[12] + x(13) /\ s[14] = s[13] + x(14) /\ s[15] = s[14] + x(15) /\ s[16] = s[15] + x(16)
  BY <1>1, <1>4
<1>6. s[16] = s[8] + (x(9) + x(10) + x(11) + x(12) + x(13) + x(14) + x(15) + x(16))
  BY <1>2, <1>5
<1>7. x(9) = f[9] * place[8] /\ x(10) = f[10] * place[9] /\ x(11) = f[11] * place[10] /\ x(12) = f[12]
        * place[11] /\ x(13) = f[13] * place[12] /\ x(14) = f[14] * place[13] /\ x(15) = f[15] * place[14]
        /\ x(16) = f[16] * place[15]
  BY DEF x
<1>. QED BY <1>1, <1>3, <1>6, <1>7 DEF h

\* The powers of W modulo curve_p.
LEMMA CurveTimes ==
  ASSUME num_words = 8, NEW k \in 0 .. 7
  PROVE  place[k] * curve_p = place[k + 8] - place[k + 7] + place[k + 6] + place[k + 3] - place[k]
<1> DEFINE q == place[k]
<1>1. q \in Int /\ place[8] \in Int /\ place[7] \in Int /\ place[6] \in Int /\ place[3] \in Int
  BY PlaceIs
<1>2. place[k + 8] = q * place[8] /\ place[k + 7] = q * place[7] /\ place[k + 6] = q * place[6] /\ place[k
        + 3] = q * place[3]
  <2>1. \A j \in 0 .. 8 : place[k + j] = place[k] * place[j]
    <3> TAKE j \in 0 .. 8
    <3>1. k \in Nat /\ j \in Nat /\ k + j <= 2 * num_words
      OBVIOUS
    <3>. QED BY <3>1, PlaceAdds
  <2>. QED BY <2>1
<1> DEFINE p3 == place[3]
           p6 == place[6]
           p7 == place[7]
           p8 == place[8]
<1> HIDE DEF q, p3, p6, p7, p8
<1>3. q * (p8 - p7 + p6 + p3 - 1) = q * p8 - q * p7 + q * p6 + q * p3 - q
  BY <1>1 DEF p3, p6, p7, p8
<1>. QED BY <1>2, <1>3 DEF curve_p, q, p3, p6, p7, p8

HighPlaces ==
  /\ place[8] = (place[0] - place[3] - place[6] + place[7]) + (place[0]) * curve_p
  /\ place[9] = (place[0] + place[1] - place[3] - place[4] - place[6]) + (place[0] + place[1]) * curve_p
  /\ place[10] = (place[1] + place[2] - place[4] - place[5] - place[7]) + (place[1] + place[2]) * curve_p
  /\ place[11] = (0 - place[0] + place[2] + 2 * place[3] - place[5] - place[7]) + (0 - place[0] + place[2]
      + place[3]) * curve_p
  /\ place[12] = (0 - place[0] - place[1] + 2 * place[3] + 2 * place[4] - place[7]) + (0 - place[0] - place[1]
      + place[3] + place[4]) * curve_p
  /\ place[13] = (0 - place[0] - place[1] - place[2] + place[3] + 2 * place[4] + 2 * place[5] + place[6]
      - place[7]) + (0 - place[0] - place[1] - place[2] + place[4] + place[5]) * curve_p
  /\ place[14] = (0 - place[0] - place[1] - place[2] + place[4] + 2 * place[5] + 3 * place[6]) + (0 - place[0]
      - place[1] - place[2] - place[3] + place[5] + place[6]) * curve_p
  /\ place[15] = (0 - place[1] - place[2] - place[3] + place[5] + 2 * place[6] + 3 * place[7]) + (0 - place[1]
      - place[2] - place[3] - place[4] + place[6] + place[7]) * curve_p

\* By a multiple of curve_p each, for the upper places.
LEMMA HighPlacesAre ==
  ASSUME num_words = 8
  PROVE  HighPlaces
<1> DEFINE m == curve_p
           t(k) == place[k] * m
<1>1. \A k \in 0 .. 15 : place[k] \in Int
  <2> TAKE k \in 0 .. 15
  <2>1. place[k] \in Nat \ {0}
    BY PlaceIs
  <2>. QED BY <2>1
<1>2. m \in Int
  <2>1. place[8] \in Int /\ place[7] \in Int /\ place[6] \in Int /\ place[3] \in Int
    BY <1>1
  <2>. QED BY <2>1 DEF curve_p
<1>3. /\ t(0) = place[8] - place[7] + place[6] + place[3] - place[0]
      /\ t(1) = place[9] - place[8] + place[7] + place[4] - place[1]
      /\ t(2) = place[10] - place[9] + place[8] + place[5] - place[2]
      /\ t(3) = place[11] - place[10] + place[9] + place[6] - place[3]
      /\ t(4) = place[12] - place[11] + place[10] + place[7] - place[4]
      /\ t(5) = place[13] - place[12] + place[11] + place[8] - place[5]
      /\ t(6) = place[14] - place[13] + place[12] + place[9] - place[6]
      /\ t(7) = place[15] - place[14] + place[13] + place[10] - place[7]
  BY CurveTimes
<1> DEFINE p0 == place[0]
           p1 == place[1]
           p2 == place[2]
           p3 == place[3]
           p4 == place[4]
           p5 == place[5]
           p6 == place[6]
           p7 == place[7]
           p8 == place[8]
           p9 == place[9]
           p10 == place[10]
           p11 == place[11]
           p12 == place[12]
           p13 == place[13]
           p14 == place[14]
           p15 == place[15]
<1> HIDE DEF m, t, p0, p1, p2, p3, p4, p5, p6, p7, p8, p9, p10, p11, p12, p13, p14, p15
<1>4. p0 \in Int /\ p1 \in Int /\ p2 \in Int /\ p3 \in Int /\ p4 \in Int /\ p5 \in Int /\ p6 \in Int
        /\ p7 \in Int /\ p8 \in Int /\ p9 \in Int /\ p10 \in Int /\ p11 \in Int /\ p12 \in Int /\ p13 \in Int
        /\ p14 \in Int /\ p15 \in Int
  BY <1>1 DEF p0, p1, p2, p3, p4, p5, p6, p7, p8, p9, p10, p11, p12, p13, p14, p15
<1>5. /\ t(0) = p8 - p7 + p6 + p3 - p0 /\ t(0) = p0 * m
      /\ t(1) = p9 - p8 + p7 + p4 - p1 /\ t(1) = p1 * m
      /\ t(2) = p10 - p9 + p8 + p5 - p2 /\ t(2) = p2 * m
      /\ t(3) = p11 - p10 + p9 + p6 - p3 /\ t(3) = p3 * m
      /\ t(4) = p12 - p11 + p10 + p7 - p4 /\ t(4) = p4 * m
      /\ t(5) = p13 - p12 + p11 + p8 - p5 /\ t(5) = p5 * m
      /\ t(6) = p14 - p13 + p12 + p9 - p6 /\ t(6) = p6 * m
      /\ t(7) = p15 - p14 + p13 + p10 - p7 /\ t(7) = p7 * m
  BY <1>3 DEF t, p0, p1, p2, p3, p4, p5, p6, p7, p8, p9, p10, p11, p12, p13, p14, p15
<1>6. p8 = (p0 - p3 - p6 + p7) + (p0) * m
  <2>1. (p0) * m = t(0)
    BY <1>2, <1>4, <1>5
  <2>. QED BY <1>4, <1>5, <2>1
<1>7. p9 = (p0 + p1 - p3 - p4 - p6) + (p0 + p1) * m
  <2>1. (p0 + p1) * m = t(0) + t(1)
    BY <1>2, <1>4, <1>5
  <2>. QED BY <1>4, <1>5, <2>1
<1>8. p10 = (p1 + p2 - p4 - p5 - p7) + (p1 + p2) * m
  <2>1. (p1 + p2) * m = t(1) + t(2)
    BY <1>2, <1>4, <1>5
  <2>. QED BY <1>4, <1>5, <2>1
<1>9. p11 = (0 - p0 + p2 + 2 * p3 - p5 - p7) + (0 - p0 + p2 + p3) * m
  <2>1. (0 - p0 + p2 + p3) * m = 0 - t(0) + t(2) + t(3)
    BY <1>2, <1>4, <1>5
  <2>. QED BY <1>4, <1>5, <2>1
<1>10. p12 = (0 - p0 - p1 + 2 * p3 + 2 * p4 - p7) + (0 - p0 - p1 + p3 + p4) * m
  <2>1. (0 - p0 - p1 + p3 + p4) * m = 0 - t(0) - t(1) + t(3) + t(4)
    BY <1>2, <1>4, <1>5
  <2>. QED BY <1>4, <1>5, <2>1
<1>11. p13 = (0 - p0 - p1 - p2 + p3 + 2 * p4 + 2 * p5 + p6 - p7) + (0 - p0 - p1 - p2 + p4 + p5) * m
  <2>1. (0 - p0 - p1 - p2 + p4 + p5) * m = 0 - t(0) - t(1) - t(2) + t(4) + t(5)
    BY <1>2, <1>4, <1>5
  <2>. QED BY <1>4, <1>5, <2>1
<1>12. p14 = (0 - p0 - p1 - p2 + p4 + 2 * p5 + 3 * p6) + (0 - p0 - p1 - p2 - p3 + p5 + p6) * m
  <2>1. (0 - p0 - p1 - p2 - p3 + p5 + p6) * m = 0 - t(0) - t(1) - t(2) - t(3) + t(5) + t(6)
    BY <1>2, <1>4, <1>5
  <2>. QED BY <1>4, <1>5, <2>1
<1>13. p15 = (0 - p1 - p2 - p3 + p5 + 2 * p6 + 3 * p7) + (0 - p1 - p2 - p3 - p4 + p6 + p7) * m
  <2>1. (0 - p1 - p2 - p3 - p4 + p6 + p7) * m = 0 - t(1) - t(2) - t(3) - t(4) + t(6) + t(7)
    BY <1>2, <1>4, <1>5
  <2>. QED BY <1>4, <1>5, <2>1
<1>. QED BY <1>6, <1>7, <1>8, <1>9, <1>10, <1>11, <1>12, <1>13 DEF HighPlaces, m, p0, p1, p2, p3, p4, p5, p6, p7,
       p8, p9, p10, p11, p12, p13, p14, p15

\* What a term adds.
TermWords(c, t) == [i \in 1 .. 8 |-> IF Terms[t].of[i] = 0 THEN 0 ELSE c[Terms[t].of[i] + 1]]
TermValue(c, t) == Terms[t].sign * ((IF Terms[t].twice THEN 2 ELSE 1) * Value(TermWords(c, t)))
Added(c, j, t) == IF j < t THEN TermValue(c, j) ELSE 0
Folded(c, t) ==
  Value([i \in 1 .. 8 |-> c[i]])
  + (Added(c, 1, t) + Added(c, 2, t) + Added(c, 3, t) + Added(c, 4, t)
     + Added(c, 5, t) + Added(c, 6, t) + Added(c, 7, t) + Added(c, 8, t))

TermGood(t) ==
  /\ Terms[t].sign \in {-1, 1} /\ Terms[t].twice \in BOOLEAN
  /\ \A i \in 1 .. 8 : Terms[t].of[i] = 0 \/ Terms[t].of[i] \in 8 .. 15

\* The terms have a sign, and take upper words or none.
LEMMA TermsAre ==
  /\ Len(Terms) = 8 /\ \A t \in 1 .. 8 : TermGood(t)
<1>1. Len(Terms) = 8
  BY DEF Terms
<1>2. TermGood(1)
  <2>1. Terms[1] = [twice |-> TRUE, sign |-> 1, of |-> <<0, 0, 0, 11, 12, 13, 14, 15>>]
    BY DEF Terms
  <2>2. Terms[1].sign = 1 /\ Terms[1].twice = TRUE /\ Terms[1].of = <<0, 0, 0, 11, 12, 13, 14, 15>>
    BY <2>1
  <2> DEFINE of == Terms[1].of
  <2>3. of[1] = 0 /\ of[2] = 0 /\ of[3] = 0 /\ of[4] = 11 /\ of[5] = 12 /\ of[6] = 13 /\ of[7] = 14 /\ of[8] = 15
    BY <2>2
  <2>4. 11 \in 8 .. 15 /\ 12 \in 8 .. 15 /\ 13 \in 8 .. 15 /\ 14 \in 8 .. 15 /\ 15 \in 8 .. 15
    OBVIOUS
  <2> HIDE DEF of
  <2>5. \A i \in 1 .. 8 : i \in {1, 2, 3, 4, 5, 6, 7, 8}
    OBVIOUS
  <2>6. \A i \in 1 .. 8 : of[i] = 0 \/ of[i] \in 8 .. 15
    BY <2>3, <2>4, <2>5
  <2>. QED BY <2>2, <2>6 DEF TermGood, of
<1>3. TermGood(2)
  <2>1. Terms[2] = [twice |-> TRUE, sign |-> 1, of |-> <<0, 0, 0, 12, 13, 14, 15, 0>>]
    BY DEF Terms
  <2>2. Terms[2].sign = 1 /\ Terms[2].twice = TRUE /\ Terms[2].of = <<0, 0, 0, 12, 13, 14, 15, 0>>
    BY <2>1
  <2> DEFINE of == Terms[2].of
  <2>3. of[1] = 0 /\ of[2] = 0 /\ of[3] = 0 /\ of[4] = 12 /\ of[5] = 13 /\ of[6] = 14 /\ of[7] = 15 /\ of[8] = 0
    BY <2>2
  <2>4. 12 \in 8 .. 15 /\ 13 \in 8 .. 15 /\ 14 \in 8 .. 15 /\ 15 \in 8 .. 15
    OBVIOUS
  <2> HIDE DEF of
  <2>5. \A i \in 1 .. 8 : i \in {1, 2, 3, 4, 5, 6, 7, 8}
    OBVIOUS
  <2>6. \A i \in 1 .. 8 : of[i] = 0 \/ of[i] \in 8 .. 15
    BY <2>3, <2>4, <2>5
  <2>. QED BY <2>2, <2>6 DEF TermGood, of
<1>4. TermGood(3)
  <2>1. Terms[3] = [twice |-> FALSE, sign |-> 1, of |-> <<8, 9, 10, 0, 0, 0, 14, 15>>]
    BY DEF Terms
  <2>2. Terms[3].sign = 1 /\ Terms[3].twice = FALSE /\ Terms[3].of = <<8, 9, 10, 0, 0, 0, 14, 15>>
    BY <2>1
  <2> DEFINE of == Terms[3].of
  <2>3. of[1] = 8 /\ of[2] = 9 /\ of[3] = 10 /\ of[4] = 0 /\ of[5] = 0 /\ of[6] = 0 /\ of[7] = 14 /\ of[8] = 15
    BY <2>2
  <2>4. 8 \in 8 .. 15 /\ 9 \in 8 .. 15 /\ 10 \in 8 .. 15 /\ 14 \in 8 .. 15 /\ 15 \in 8 .. 15
    OBVIOUS
  <2> HIDE DEF of
  <2>5. \A i \in 1 .. 8 : i \in {1, 2, 3, 4, 5, 6, 7, 8}
    OBVIOUS
  <2>6. \A i \in 1 .. 8 : of[i] = 0 \/ of[i] \in 8 .. 15
    BY <2>3, <2>4, <2>5
  <2>. QED BY <2>2, <2>6 DEF TermGood, of
<1>5. TermGood(4)
  <2>1. Terms[4] = [twice |-> FALSE, sign |-> 1, of |-> <<9, 10, 11, 13, 14, 15, 13, 8>>]
    BY DEF Terms
  <2>2. Terms[4].sign = 1 /\ Terms[4].twice = FALSE /\ Terms[4].of = <<9, 10, 11, 13, 14, 15, 13, 8>>
    BY <2>1
  <2> DEFINE of == Terms[4].of
  <2>3. of[1] = 9 /\ of[2] = 10 /\ of[3] = 11 /\ of[4] = 13 /\ of[5] = 14 /\ of[6] = 15 /\ of[7] = 13 /\ of[8] = 8
    BY <2>2
  <2>4. 8 \in 8 .. 15 /\ 9 \in 8 .. 15 /\ 10 \in 8 .. 15 /\ 11 \in 8 .. 15 /\ 13 \in 8 .. 15 /\ 14 \in 8 .. 15
          /\ 15 \in 8 .. 15
    OBVIOUS
  <2> HIDE DEF of
  <2>5. \A i \in 1 .. 8 : i \in {1, 2, 3, 4, 5, 6, 7, 8}
    OBVIOUS
  <2>6. \A i \in 1 .. 8 : of[i] = 0 \/ of[i] \in 8 .. 15
    BY <2>3, <2>4, <2>5
  <2>. QED BY <2>2, <2>6 DEF TermGood, of
<1>6. TermGood(5)
  <2>1. Terms[5] = [twice |-> FALSE, sign |-> -1, of |-> <<11, 12, 13, 0, 0, 0, 8, 10>>]
    BY DEF Terms
  <2>2. Terms[5].sign = -1 /\ Terms[5].twice = FALSE /\ Terms[5].of = <<11, 12, 13, 0, 0, 0, 8, 10>>
    BY <2>1
  <2> DEFINE of == Terms[5].of
  <2>3. of[1] = 11 /\ of[2] = 12 /\ of[3] = 13 /\ of[4] = 0 /\ of[5] = 0 /\ of[6] = 0 /\ of[7] = 8 /\ of[8] = 10
    BY <2>2
  <2>4. 8 \in 8 .. 15 /\ 10 \in 8 .. 15 /\ 11 \in 8 .. 15 /\ 12 \in 8 .. 15 /\ 13 \in 8 .. 15
    OBVIOUS
  <2> HIDE DEF of
  <2>5. \A i \in 1 .. 8 : i \in {1, 2, 3, 4, 5, 6, 7, 8}
    OBVIOUS
  <2>6. \A i \in 1 .. 8 : of[i] = 0 \/ of[i] \in 8 .. 15
    BY <2>3, <2>4, <2>5
  <2>. QED BY <2>2, <2>6 DEF TermGood, of
<1>7. TermGood(6)
  <2>1. Terms[6] = [twice |-> FALSE, sign |-> -1, of |-> <<12, 13, 14, 15, 0, 0, 9, 11>>]
    BY DEF Terms
  <2>2. Terms[6].sign = -1 /\ Terms[6].twice = FALSE /\ Terms[6].of = <<12, 13, 14, 15, 0, 0, 9, 11>>
    BY <2>1
  <2> DEFINE of == Terms[6].of
  <2>3. of[1] = 12 /\ of[2] = 13 /\ of[3] = 14 /\ of[4] = 15 /\ of[5] = 0 /\ of[6] = 0 /\ of[7] = 9 /\ of[8] = 11
    BY <2>2
  <2>4. 9 \in 8 .. 15 /\ 11 \in 8 .. 15 /\ 12 \in 8 .. 15 /\ 13 \in 8 .. 15 /\ 14 \in 8 .. 15 /\ 15 \in 8 .. 15
    OBVIOUS
  <2> HIDE DEF of
  <2>5. \A i \in 1 .. 8 : i \in {1, 2, 3, 4, 5, 6, 7, 8}
    OBVIOUS
  <2>6. \A i \in 1 .. 8 : of[i] = 0 \/ of[i] \in 8 .. 15
    BY <2>3, <2>4, <2>5
  <2>. QED BY <2>2, <2>6 DEF TermGood, of
<1>8. TermGood(7)
  <2>1. Terms[7] = [twice |-> FALSE, sign |-> -1, of |-> <<13, 14, 15, 8, 9, 10, 0, 12>>]
    BY DEF Terms
  <2>2. Terms[7].sign = -1 /\ Terms[7].twice = FALSE /\ Terms[7].of = <<13, 14, 15, 8, 9, 10, 0, 12>>
    BY <2>1
  <2> DEFINE of == Terms[7].of
  <2>3. of[1] = 13 /\ of[2] = 14 /\ of[3] = 15 /\ of[4] = 8 /\ of[5] = 9 /\ of[6] = 10 /\ of[7] = 0 /\ of[8] = 12
    BY <2>2
  <2>4. 8 \in 8 .. 15 /\ 9 \in 8 .. 15 /\ 10 \in 8 .. 15 /\ 12 \in 8 .. 15 /\ 13 \in 8 .. 15 /\ 14 \in 8 .. 15
          /\ 15 \in 8 .. 15
    OBVIOUS
  <2> HIDE DEF of
  <2>5. \A i \in 1 .. 8 : i \in {1, 2, 3, 4, 5, 6, 7, 8}
    OBVIOUS
  <2>6. \A i \in 1 .. 8 : of[i] = 0 \/ of[i] \in 8 .. 15
    BY <2>3, <2>4, <2>5
  <2>. QED BY <2>2, <2>6 DEF TermGood, of
<1>9. TermGood(8)
  <2>1. Terms[8] = [twice |-> FALSE, sign |-> -1, of |-> <<14, 15, 0, 9, 10, 11, 0, 13>>]
    BY DEF Terms
  <2>2. Terms[8].sign = -1 /\ Terms[8].twice = FALSE /\ Terms[8].of = <<14, 15, 0, 9, 10, 11, 0, 13>>
    BY <2>1
  <2> DEFINE of == Terms[8].of
  <2>3. of[1] = 14 /\ of[2] = 15 /\ of[3] = 0 /\ of[4] = 9 /\ of[5] = 10 /\ of[6] = 11 /\ of[7] = 0 /\ of[8] = 13
    BY <2>2
  <2>4. 9 \in 8 .. 15 /\ 10 \in 8 .. 15 /\ 11 \in 8 .. 15 /\ 13 \in 8 .. 15 /\ 14 \in 8 .. 15 /\ 15 \in 8 .. 15
    OBVIOUS
  <2> HIDE DEF of
  <2>5. \A i \in 1 .. 8 : i \in {1, 2, 3, 4, 5, 6, 7, 8}
    OBVIOUS
  <2>6. \A i \in 1 .. 8 : of[i] = 0 \/ of[i] \in 8 .. 15
    BY <2>3, <2>4, <2>5
  <2>. QED BY <2>2, <2>6 DEF TermGood, of
<1>10. \A t \in 1 .. 8 : t \in {1, 2, 3, 4, 5, 6, 7, 8}
  OBVIOUS
<1>. QED BY <1>1, <1>2, <1>3, <1>4, <1>5, <1>6, <1>7, <1>8, <1>9, <1>10

\* What is doubled is added.
LEMMA TermsSigned ==
  ASSUME NEW t \in 1 .. 8
  PROVE  Terms[t].sign = 1 \/ ~Terms[t].twice
<1>1. Terms[1].sign = 1 \/ ~Terms[1].twice
  BY DEF Terms
<1>2. Terms[2].sign = 1 \/ ~Terms[2].twice
  BY DEF Terms
<1>3. Terms[3].sign = 1 \/ ~Terms[3].twice
  BY DEF Terms
<1>4. Terms[4].sign = 1 \/ ~Terms[4].twice
  BY DEF Terms
<1>5. Terms[5].sign = 1 \/ ~Terms[5].twice
  BY DEF Terms
<1>6. Terms[6].sign = 1 \/ ~Terms[6].twice
  BY DEF Terms
<1>7. Terms[7].sign = 1 \/ ~Terms[7].twice
  BY DEF Terms
<1>8. Terms[8].sign = 1 \/ ~Terms[8].twice
  BY DEF Terms
<1>9. t \in {1, 2, 3, 4, 5, 6, 7, 8}
  OBVIOUS
<1>. QED BY <1>1, <1>2, <1>3, <1>4, <1>5, <1>6, <1>7, <1>8, <1>9

\* The words of a term.
LEMMA TermWordsTyped ==
  ASSUME num_words = 8, NEW c \in Vlis(16), NEW t \in 1 .. 8
  PROVE  TermWords(c, t) \in Vlis(8) /\ TermWords(c, t) \in [1 .. 8 -> Int]
<1>0. W \in Nat \ {0} /\ 8 \in 0 .. 2 * num_words
  BY Sizes
<1>1. \A i \in 1 .. 8 : Terms[t].of[i] = 0 \/ Terms[t].of[i] \in 8 .. 15
  BY TermsAre DEF TermGood
<1>2. TermWords(c, t) \in Vlis(8)
  <2>1. \A i \in 1 .. 8 : (IF Terms[t].of[i] = 0 THEN 0 ELSE c[Terms[t].of[i] + 1]) \in 0 .. W - 1
    <3> TAKE i \in 1 .. 8
    <3>1. CASE Terms[t].of[i] = 0
      BY <1>0, <3>1
    <3>2. CASE Terms[t].of[i] # 0
      <4> DEFINE j == Terms[t].of[i]
      <4>1. j \in 8 .. 15 /\ j # 0
        BY <1>1, <3>2
      <4> HIDE DEF j
      <4>2. c[j + 1] \in 0 .. W - 1
        <5>1. j + 1 \in 1 .. 16
          BY <4>1
        <5>. QED BY <5>1 DEF Vlis
      <4>. QED BY <4>1, <4>2 DEF j
    <3>. QED BY <3>1, <3>2
  <2>. QED BY <2>1 DEF TermWords, Vlis
<1>. QED BY <1>0, <1>2, SumsBounded

\* What each term adds, word by word.
TermSums(c) ==
  /\ TermValue(c, 1) = 2 * (c[12] * place[3] + c[13] * place[4] + c[14] * place[5] + c[15] * place[6] + c[16]
      * place[7])
  /\ TermValue(c, 2) = 2 * (c[13] * place[3] + c[14] * place[4] + c[15] * place[5] + c[16] * place[6])
  /\ TermValue(c, 3) = (c[9] * place[0] + c[10] * place[1] + c[11] * place[2] + c[15] * place[6] + c[16] * place[7])
  /\ TermValue(c, 4) = (c[10] * place[0] + c[11] * place[1] + c[12] * place[2] + c[14] * place[3] + c[15]
      * place[4] + c[16] * place[5] + c[14] * place[6] + c[9] * place[7])
  /\ TermValue(c, 5) = 0 - (c[12] * place[0] + c[13] * place[1] + c[14] * place[2] + c[9] * place[6] + c[11]
      * place[7])
  /\ TermValue(c, 6) = 0 - (c[13] * place[0] + c[14] * place[1] + c[15] * place[2] + c[16] * place[3] + c[10]
      * place[6] + c[12] * place[7])
  /\ TermValue(c, 7) = 0 - (c[14] * place[0] + c[15] * place[1] + c[16] * place[2] + c[9] * place[3] + c[10]
      * place[4] + c[11] * place[5] + c[13] * place[7])
  /\ TermValue(c, 8) = 0 - (c[15] * place[0] + c[16] * place[1] + c[10] * place[3] + c[11] * place[4] + c[12]
      * place[5] + c[14] * place[7])

\* What each term adds up to.
LEMMA TermSumsAre ==
  ASSUME num_words = 8, NEW c \in Vlis(16)
  PROVE  TermSums(c)
<1>0. \A i \in 1 .. 16 : c[i] \in Int
  <2>1. 16 \in 0 .. 2 * num_words
    OBVIOUS
  <2>2. c \in [1 .. 16 -> Int]
    BY <2>1, SumsBounded
  <2>. QED BY <2>2
<1>p. \A k \in 0 .. 7 : place[k] \in Int
  <2> TAKE k \in 0 .. 7
  <2>1. place[k] \in Nat \ {0}
    BY PlaceIs
  <2>. QED BY <2>1
<1> DEFINE z(k) == 0 * place[k]
<1>z. \A k \in 0 .. 7 : z(k) = 0
  BY <1>p
<1>1. TermValue(c, 1) = 2 * (c[12] * place[3] + c[13] * place[4] + c[14] * place[5] + c[15] * place[6] + c[16]
        * place[7])
  <2> DEFINE f == TermWords(c, 1)
  <2>1. Terms[1] = [twice |-> TRUE, sign |-> 1, of |-> <<0, 0, 0, 11, 12, 13, 14, 15>>]
    BY DEF Terms
  <2>2. Terms[1].sign = 1 /\ Terms[1].twice = TRUE /\ Terms[1].of = <<0, 0, 0, 11, 12, 13, 14, 15>>
    BY <2>1
  <2>3. f[1] = 0 /\ f[2] = 0 /\ f[3] = 0 /\ f[4] = c[12] /\ f[5] = c[13] /\ f[6] = c[14] /\ f[7] = c[15]
          /\ f[8] = c[16]
    BY <2>2 DEF TermWords
  <2>4. f \in [1 .. 8 -> Int]
    BY TermWordsTyped
  <2>5. TermValue(c, 1) = (1) * (2 * Value(f))
    BY <2>2 DEF TermValue
  <2> HIDE DEF f
  <2>6. Value(f) = f[1] * place[0] + f[2] * place[1] + f[3] * place[2] + f[4] * place[3] + f[5] * place[4] + f[6]
          * place[5] + f[7] * place[6] + f[8] * place[7]
    BY <2>4, EightWords
  <2>7. Value(f) = c[12] * place[3] + c[13] * place[4] + c[14] * place[5] + c[15] * place[6] + c[16] * place[7]
    <3>1. 0 * place[0] = 0 /\ 0 * place[1] = 0 /\ 0 * place[2] = 0
      BY <1>z
    <3>2. c[12] * place[3] \in Int /\ c[13] * place[4] \in Int /\ c[14] * place[5] \in Int /\ c[15]
            * place[6] \in Int /\ c[16] * place[7] \in Int
      BY <1>0, <1>p
    <3>. QED BY <2>3, <2>6, <3>1, <3>2
  <2>8. Value(f) \in Int
    BY <1>0, <1>p, <2>7
  <2>. QED BY <2>5, <2>7, <2>8
<1>2. TermValue(c, 2) = 2 * (c[13] * place[3] + c[14] * place[4] + c[15] * place[5] + c[16] * place[6])
  <2> DEFINE f == TermWords(c, 2)
  <2>1. Terms[2] = [twice |-> TRUE, sign |-> 1, of |-> <<0, 0, 0, 12, 13, 14, 15, 0>>]
    BY DEF Terms
  <2>2. Terms[2].sign = 1 /\ Terms[2].twice = TRUE /\ Terms[2].of = <<0, 0, 0, 12, 13, 14, 15, 0>>
    BY <2>1
  <2>3. f[1] = 0 /\ f[2] = 0 /\ f[3] = 0 /\ f[4] = c[13] /\ f[5] = c[14] /\ f[6] = c[15] /\ f[7] = c[16] /\ f[8] = 0
    BY <2>2 DEF TermWords
  <2>4. f \in [1 .. 8 -> Int]
    BY TermWordsTyped
  <2>5. TermValue(c, 2) = (1) * (2 * Value(f))
    BY <2>2 DEF TermValue
  <2> HIDE DEF f
  <2>6. Value(f) = f[1] * place[0] + f[2] * place[1] + f[3] * place[2] + f[4] * place[3] + f[5] * place[4] + f[6]
          * place[5] + f[7] * place[6] + f[8] * place[7]
    BY <2>4, EightWords
  <2>7. Value(f) = c[13] * place[3] + c[14] * place[4] + c[15] * place[5] + c[16] * place[6]
    <3>1. 0 * place[0] = 0 /\ 0 * place[1] = 0 /\ 0 * place[2] = 0 /\ 0 * place[7] = 0
      BY <1>z
    <3>2. c[13] * place[3] \in Int /\ c[14] * place[4] \in Int /\ c[15] * place[5] \in Int /\ c[16] * place[6] \in Int
      BY <1>0, <1>p
    <3>. QED BY <2>3, <2>6, <3>1, <3>2
  <2>8. Value(f) \in Int
    BY <1>0, <1>p, <2>7
  <2>. QED BY <2>5, <2>7, <2>8
<1>3. TermValue(c, 3) = (c[9] * place[0] + c[10] * place[1] + c[11] * place[2] + c[15] * place[6] + c[16] * place[7])
  <2> DEFINE f == TermWords(c, 3)
  <2>1. Terms[3] = [twice |-> FALSE, sign |-> 1, of |-> <<8, 9, 10, 0, 0, 0, 14, 15>>]
    BY DEF Terms
  <2>2. Terms[3].sign = 1 /\ Terms[3].twice = FALSE /\ Terms[3].of = <<8, 9, 10, 0, 0, 0, 14, 15>>
    BY <2>1
  <2>3. f[1] = c[9] /\ f[2] = c[10] /\ f[3] = c[11] /\ f[4] = 0 /\ f[5] = 0 /\ f[6] = 0 /\ f[7] = c[15]
          /\ f[8] = c[16]
    BY <2>2 DEF TermWords
  <2>4. f \in [1 .. 8 -> Int]
    BY TermWordsTyped
  <2>5. TermValue(c, 3) = (1) * (1 * Value(f))
    BY <2>2 DEF TermValue
  <2> HIDE DEF f
  <2>6. Value(f) = f[1] * place[0] + f[2] * place[1] + f[3] * place[2] + f[4] * place[3] + f[5] * place[4] + f[6]
          * place[5] + f[7] * place[6] + f[8] * place[7]
    BY <2>4, EightWords
  <2>7. Value(f) = c[9] * place[0] + c[10] * place[1] + c[11] * place[2] + c[15] * place[6] + c[16] * place[7]
    <3>1. 0 * place[3] = 0 /\ 0 * place[4] = 0 /\ 0 * place[5] = 0
      BY <1>z
    <3>2. c[9] * place[0] \in Int /\ c[10] * place[1] \in Int /\ c[11] * place[2] \in Int /\ c[15]
            * place[6] \in Int /\ c[16] * place[7] \in Int
      BY <1>0, <1>p
    <3>. QED BY <2>3, <2>6, <3>1, <3>2
  <2>8. Value(f) \in Int
    BY <1>0, <1>p, <2>7
  <2>. QED BY <2>5, <2>7, <2>8
<1>4. TermValue(c, 4) = (c[10] * place[0] + c[11] * place[1] + c[12] * place[2] + c[14] * place[3] + c[15]
        * place[4] + c[16] * place[5] + c[14] * place[6] + c[9] * place[7])
  <2> DEFINE f == TermWords(c, 4)
  <2>1. Terms[4] = [twice |-> FALSE, sign |-> 1, of |-> <<9, 10, 11, 13, 14, 15, 13, 8>>]
    BY DEF Terms
  <2>2. Terms[4].sign = 1 /\ Terms[4].twice = FALSE /\ Terms[4].of = <<9, 10, 11, 13, 14, 15, 13, 8>>
    BY <2>1
  <2>3. f[1] = c[10] /\ f[2] = c[11] /\ f[3] = c[12] /\ f[4] = c[14] /\ f[5] = c[15] /\ f[6] = c[16]
          /\ f[7] = c[14] /\ f[8] = c[9]
    BY <2>2 DEF TermWords
  <2>4. f \in [1 .. 8 -> Int]
    BY TermWordsTyped
  <2>5. TermValue(c, 4) = (1) * (1 * Value(f))
    BY <2>2 DEF TermValue
  <2> HIDE DEF f
  <2>6. Value(f) = f[1] * place[0] + f[2] * place[1] + f[3] * place[2] + f[4] * place[3] + f[5] * place[4] + f[6]
          * place[5] + f[7] * place[6] + f[8] * place[7]
    BY <2>4, EightWords
  <2>7. Value(f) = c[10] * place[0] + c[11] * place[1] + c[12] * place[2] + c[14] * place[3] + c[15] * place[4]
          + c[16] * place[5] + c[14] * place[6] + c[9] * place[7]
    <3>1. TRUE
      BY <1>z
    <3>2. c[10] * place[0] \in Int /\ c[11] * place[1] \in Int /\ c[12] * place[2] \in Int /\ c[14]
            * place[3] \in Int /\ c[15] * place[4] \in Int /\ c[16] * place[5] \in Int /\ c[14]
            * place[6] \in Int /\ c[9] * place[7] \in Int
      BY <1>0, <1>p
    <3>. QED BY <2>3, <2>6, <3>1, <3>2
  <2>8. Value(f) \in Int
    BY <1>0, <1>p, <2>7
  <2>. QED BY <2>5, <2>7, <2>8
<1>5. TermValue(c, 5) = 0 - (c[12] * place[0] + c[13] * place[1] + c[14] * place[2] + c[9] * place[6] + c[11]
        * place[7])
  <2> DEFINE f == TermWords(c, 5)
  <2>1. Terms[5] = [twice |-> FALSE, sign |-> -1, of |-> <<11, 12, 13, 0, 0, 0, 8, 10>>]
    BY DEF Terms
  <2>2. Terms[5].sign = -1 /\ Terms[5].twice = FALSE /\ Terms[5].of = <<11, 12, 13, 0, 0, 0, 8, 10>>
    BY <2>1
  <2>3. f[1] = c[12] /\ f[2] = c[13] /\ f[3] = c[14] /\ f[4] = 0 /\ f[5] = 0 /\ f[6] = 0 /\ f[7] = c[9]
          /\ f[8] = c[11]
    BY <2>2 DEF TermWords
  <2>4. f \in [1 .. 8 -> Int]
    BY TermWordsTyped
  <2>5. TermValue(c, 5) = (-1) * (1 * Value(f))
    BY <2>2 DEF TermValue
  <2> HIDE DEF f
  <2>6. Value(f) = f[1] * place[0] + f[2] * place[1] + f[3] * place[2] + f[4] * place[3] + f[5] * place[4] + f[6]
          * place[5] + f[7] * place[6] + f[8] * place[7]
    BY <2>4, EightWords
  <2>7. Value(f) = c[12] * place[0] + c[13] * place[1] + c[14] * place[2] + c[9] * place[6] + c[11] * place[7]
    <3>1. 0 * place[3] = 0 /\ 0 * place[4] = 0 /\ 0 * place[5] = 0
      BY <1>z
    <3>2. c[12] * place[0] \in Int /\ c[13] * place[1] \in Int /\ c[14] * place[2] \in Int /\ c[9]
            * place[6] \in Int /\ c[11] * place[7] \in Int
      BY <1>0, <1>p
    <3>. QED BY <2>3, <2>6, <3>1, <3>2
  <2>8. Value(f) \in Int
    BY <1>0, <1>p, <2>7
  <2>. QED BY <2>5, <2>7, <2>8
<1>6. TermValue(c, 6) = 0 - (c[13] * place[0] + c[14] * place[1] + c[15] * place[2] + c[16] * place[3] + c[10]
        * place[6] + c[12] * place[7])
  <2> DEFINE f == TermWords(c, 6)
  <2>1. Terms[6] = [twice |-> FALSE, sign |-> -1, of |-> <<12, 13, 14, 15, 0, 0, 9, 11>>]
    BY DEF Terms
  <2>2. Terms[6].sign = -1 /\ Terms[6].twice = FALSE /\ Terms[6].of = <<12, 13, 14, 15, 0, 0, 9, 11>>
    BY <2>1
  <2>3. f[1] = c[13] /\ f[2] = c[14] /\ f[3] = c[15] /\ f[4] = c[16] /\ f[5] = 0 /\ f[6] = 0 /\ f[7] = c[10]
          /\ f[8] = c[12]
    BY <2>2 DEF TermWords
  <2>4. f \in [1 .. 8 -> Int]
    BY TermWordsTyped
  <2>5. TermValue(c, 6) = (-1) * (1 * Value(f))
    BY <2>2 DEF TermValue
  <2> HIDE DEF f
  <2>6. Value(f) = f[1] * place[0] + f[2] * place[1] + f[3] * place[2] + f[4] * place[3] + f[5] * place[4] + f[6]
          * place[5] + f[7] * place[6] + f[8] * place[7]
    BY <2>4, EightWords
  <2>7. Value(f) = c[13] * place[0] + c[14] * place[1] + c[15] * place[2] + c[16] * place[3] + c[10] * place[6]
          + c[12] * place[7]
    <3>1. 0 * place[4] = 0 /\ 0 * place[5] = 0
      BY <1>z
    <3>2. c[13] * place[0] \in Int /\ c[14] * place[1] \in Int /\ c[15] * place[2] \in Int /\ c[16]
            * place[3] \in Int /\ c[10] * place[6] \in Int /\ c[12] * place[7] \in Int
      BY <1>0, <1>p
    <3>. QED BY <2>3, <2>6, <3>1, <3>2
  <2>8. Value(f) \in Int
    BY <1>0, <1>p, <2>7
  <2>. QED BY <2>5, <2>7, <2>8
<1>7. TermValue(c, 7) = 0 - (c[14] * place[0] + c[15] * place[1] + c[16] * place[2] + c[9] * place[3] + c[10]
        * place[4] + c[11] * place[5] + c[13] * place[7])
  <2> DEFINE f == TermWords(c, 7)
  <2>1. Terms[7] = [twice |-> FALSE, sign |-> -1, of |-> <<13, 14, 15, 8, 9, 10, 0, 12>>]
    BY DEF Terms
  <2>2. Terms[7].sign = -1 /\ Terms[7].twice = FALSE /\ Terms[7].of = <<13, 14, 15, 8, 9, 10, 0, 12>>
    BY <2>1
  <2>3. f[1] = c[14] /\ f[2] = c[15] /\ f[3] = c[16] /\ f[4] = c[9] /\ f[5] = c[10] /\ f[6] = c[11] /\ f[7] = 0
          /\ f[8] = c[13]
    BY <2>2 DEF TermWords
  <2>4. f \in [1 .. 8 -> Int]
    BY TermWordsTyped
  <2>5. TermValue(c, 7) = (-1) * (1 * Value(f))
    BY <2>2 DEF TermValue
  <2> HIDE DEF f
  <2>6. Value(f) = f[1] * place[0] + f[2] * place[1] + f[3] * place[2] + f[4] * place[3] + f[5] * place[4] + f[6]
          * place[5] + f[7] * place[6] + f[8] * place[7]
    BY <2>4, EightWords
  <2>7. Value(f) = c[14] * place[0] + c[15] * place[1] + c[16] * place[2] + c[9] * place[3] + c[10] * place[4]
          + c[11] * place[5] + c[13] * place[7]
    <3>1. 0 * place[6] = 0
      BY <1>z
    <3>2. c[14] * place[0] \in Int /\ c[15] * place[1] \in Int /\ c[16] * place[2] \in Int /\ c[9]
            * place[3] \in Int /\ c[10] * place[4] \in Int /\ c[11] * place[5] \in Int /\ c[13] * place[7] \in Int
      BY <1>0, <1>p
    <3>. QED BY <2>3, <2>6, <3>1, <3>2
  <2>8. Value(f) \in Int
    BY <1>0, <1>p, <2>7
  <2>. QED BY <2>5, <2>7, <2>8
<1>8. TermValue(c, 8) = 0 - (c[15] * place[0] + c[16] * place[1] + c[10] * place[3] + c[11] * place[4] + c[12]
        * place[5] + c[14] * place[7])
  <2> DEFINE f == TermWords(c, 8)
  <2>1. Terms[8] = [twice |-> FALSE, sign |-> -1, of |-> <<14, 15, 0, 9, 10, 11, 0, 13>>]
    BY DEF Terms
  <2>2. Terms[8].sign = -1 /\ Terms[8].twice = FALSE /\ Terms[8].of = <<14, 15, 0, 9, 10, 11, 0, 13>>
    BY <2>1
  <2>3. f[1] = c[15] /\ f[2] = c[16] /\ f[3] = 0 /\ f[4] = c[10] /\ f[5] = c[11] /\ f[6] = c[12] /\ f[7] = 0
          /\ f[8] = c[14]
    BY <2>2 DEF TermWords
  <2>4. f \in [1 .. 8 -> Int]
    BY TermWordsTyped
  <2>5. TermValue(c, 8) = (-1) * (1 * Value(f))
    BY <2>2 DEF TermValue
  <2> HIDE DEF f
  <2>6. Value(f) = f[1] * place[0] + f[2] * place[1] + f[3] * place[2] + f[4] * place[3] + f[5] * place[4] + f[6]
          * place[5] + f[7] * place[6] + f[8] * place[7]
    BY <2>4, EightWords
  <2>7. Value(f) = c[15] * place[0] + c[16] * place[1] + c[10] * place[3] + c[11] * place[4] + c[12] * place[5]
          + c[14] * place[7]
    <3>1. 0 * place[2] = 0 /\ 0 * place[6] = 0
      BY <1>z
    <3>2. c[15] * place[0] \in Int /\ c[16] * place[1] \in Int /\ c[10] * place[3] \in Int /\ c[11]
            * place[4] \in Int /\ c[12] * place[5] \in Int /\ c[14] * place[7] \in Int
      BY <1>0, <1>p
    <3>. QED BY <2>3, <2>6, <3>1, <3>2
  <2>8. Value(f) \in Int
    BY <1>0, <1>p, <2>7
  <2>. QED BY <2>5, <2>7, <2>8
<1>. QED BY <1>1, <1>2, <1>3, <1>4, <1>5, <1>6, <1>7, <1>8 DEF TermSums

\* Word by word, the terms replace each power of W from the eighth on.
TermsTogether(c8, c9, c10, c11, c12, c13, c14, c15, p0, p1, p2, p3, p4, p5, p6, p7) ==
  (2 * (c11 * p3 + c12 * p4 + c13 * p5 + c14 * p6 + c15 * p7))
    + (2 * (c12 * p3 + c13 * p4 + c14 * p5 + c15 * p6))
    + ((c8 * p0 + c9 * p1 + c10 * p2 + c14 * p6 + c15 * p7))
    + ((c9 * p0 + c10 * p1 + c11 * p2 + c13 * p3 + c14 * p4 + c15 * p5 + c13 * p6 + c8 * p7))
    + (0 - (c11 * p0 + c12 * p1 + c13 * p2 + c8 * p6 + c10 * p7))
    + (0 - (c12 * p0 + c13 * p1 + c14 * p2 + c15 * p3 + c9 * p6 + c11 * p7))
    + (0 - (c13 * p0 + c14 * p1 + c15 * p2 + c8 * p3 + c9 * p4 + c10 * p5 + c12 * p7))
    + (0 - (c14 * p0 + c15 * p1 + c9 * p3 + c10 * p4 + c11 * p5 + c13 * p7))
  = c8 * (p0 - p3 - p6 + p7)
    + c9 * (p0 + p1 - p3 - p4 - p6)
    + c10 * (p1 + p2 - p4 - p5 - p7)
    + c11 * (0 - p0 + p2 + 2 * p3 - p5 - p7)
    + c12 * (0 - p0 - p1 + 2 * p3 + 2 * p4 - p7)
    + c13 * (0 - p0 - p1 - p2 + p3 + 2 * p4 + 2 * p5 + p6 - p7)
    + c14 * (0 - p0 - p1 - p2 + p4 + 2 * p5 + 3 * p6)
    + c15 * (0 - p1 - p2 - p3 + p5 + 2 * p6 + 3 * p7)

\* The eight terms, sorted by the words of the product.
LEMMA TermsTogetherAre ==
  ASSUME NEW c8 \in Int, NEW c9 \in Int, NEW c10 \in Int, NEW c11 \in Int, NEW c12 \in Int, NEW c13 \in Int,
    NEW c14 \in Int, NEW c15 \in Int,
         NEW p0 \in Int, NEW p1 \in Int, NEW p2 \in Int, NEW p3 \in Int, NEW p4 \in Int, NEW p5 \in Int,
           NEW p6 \in Int, NEW p7 \in Int
  PROVE  TermsTogether(c8, c9, c10, c11, c12, c13, c14, c15, p0, p1, p2, p3, p4, p5, p6, p7)
BY DEF TermsTogether

\* The parts of the sum are integers.
LEMMA FoldedParts ==
  ASSUME num_words = 8, NEW c \in Vlis(16)
  PROVE  Value([i \in 1 .. 8 |-> c[i]]) \in Int /\ \A t \in 1 .. 8 : TermValue(c, t) \in Int
<1>0. 8 \in 0 .. 2 * num_words /\ 16 \in 0 .. 2 * num_words
  OBVIOUS
<1>1. c \in [1 .. 16 -> Int]
  BY <1>0, SumsBounded
<1> DEFINE low == Value([i \in 1 .. 8 |-> c[i]])
           v1(t) == TermValue(c, t)
<1>2. low \in Int
  <2> DEFINE h == [i \in 1 .. 8 |-> c[i]]
  <2>1. h \in [1 .. 8 -> Int]
    BY <1>1
  <2> HIDE DEF h
  <2>2. Sums(h) \in [0 .. 8 -> Int] /\ Value(h) = Sums(h)[8]
    BY <1>0, <2>1, SumsAre
  <2>3. Sums(h)[8] \in Int
    BY <2>2
  <2>. QED BY <2>2, <2>3 DEF h
<1>3. \A t \in 1 .. 8 : v1(t) \in Int
  <2> TAKE t \in 1 .. 8
  <2> DEFINE h == TermWords(c, t)
             sg == Terms[t].sign
  <2>1. h \in [1 .. 8 -> Int]
    BY TermWordsTyped
  <2> HIDE DEF h
  <2>2. Sums(h) \in [0 .. 8 -> Int] /\ Value(h) = Sums(h)[8]
    BY <1>0, <2>1, SumsAre
  <2>3. Value(h) \in Int
    BY <2>2
  <2>4. sg \in Int
    BY TermsAre DEF TermGood
  <2> HIDE DEF sg
  <2>5. sg * ((IF Terms[t].twice THEN 2 ELSE 1) * Value(h)) \in Int
    BY <2>3, <2>4
  <2>. QED BY <2>5 DEF sg, h, TermValue
<1>. QED BY <1>2, <1>3

\* What the terms make of a product has its residue.
LEMMA FoldedIs ==
  ASSUME num_words = 8, NEW c \in Vlis(16)
  PROVE  /\ \A t \in 1 .. 9 : Folded(c, t) \in Int
         /\ \E q \in Int : Value(c) = Folded(c, 9) + q * curve_p
<1>0. 8 \in 0 .. 2 * num_words /\ 16 \in 0 .. 2 * num_words
  OBVIOUS
<1>1. c \in [1 .. 16 -> Int]
  BY <1>0, SumsBounded
<1> DEFINE low == Value([i \in 1 .. 8 |-> c[i]])
           m == curve_p
           v1(t) == TermValue(c, t)
<1>2. low \in Int
  BY FoldedParts
<1>3. \A t \in 1 .. 8 : v1(t) \in Int
  BY FoldedParts
<1> HIDE DEF low, v1
<1>4. \A t \in 1 .. 9 : Folded(c, t) \in Int
  <2> TAKE t \in 1 .. 9
  <2>1. \A j \in 1 .. 8 : Added(c, j, t) \in Int
    BY <1>3 DEF Added, v1
  <2>2. Added(c, 1, t) \in Int /\ Added(c, 2, t) \in Int /\ Added(c, 3, t) \in Int /\ Added(c, 4, t) \in Int
          /\ Added(c, 5, t) \in Int /\ Added(c, 6, t) \in Int /\ Added(c, 7, t) \in Int /\ Added(c, 8, t) \in Int
    BY <2>1
  <2>. QED BY <1>2, <2>2 DEF Folded, low
<1>5. Folded(c, 9) = low + (v1(1) + v1(2) + v1(3) + v1(4) + v1(5) + v1(6) + v1(7) + v1(8))
  BY DEF Folded, Added, low, v1
<1>6. \E q \in Int : Value(c) = Folded(c, 9) + q * m
  <2> DEFINE c8 == c[9]
             c9 == c[10]
             c10 == c[11]
             c11 == c[12]
             c12 == c[13]
             c13 == c[14]
             c14 == c[15]
             c15 == c[16]
             p0 == place[0]
             p1 == place[1]
             p2 == place[2]
             p3 == place[3]
             p4 == place[4]
             p5 == place[5]
             p6 == place[6]
             p7 == place[7]
             p8 == place[8]
             p9 == place[9]
             p10 == place[10]
             p11 == place[11]
             p12 == place[12]
             p13 == place[13]
             p14 == place[14]
             p15 == place[15]
  <2>1. c8 \in Int /\ c9 \in Int /\ c10 \in Int /\ c11 \in Int /\ c12 \in Int /\ c13 \in Int /\ c14 \in Int
          /\ c15 \in Int
    BY <1>1
  <2>2. p0 \in Int /\ p1 \in Int /\ p2 \in Int /\ p3 \in Int /\ p4 \in Int /\ p5 \in Int /\ p6 \in Int
          /\ p7 \in Int /\ p8 \in Int /\ p9 \in Int /\ p10 \in Int /\ p11 \in Int /\ p12 \in Int /\ p13 \in Int
          /\ p14 \in Int /\ p15 \in Int
    <3>1. \A k \in 0 .. 15 : place[k] \in Int
      <4> TAKE k \in 0 .. 15
      <4>1. place[k] \in Nat \ {0}
        BY PlaceIs
      <4>. QED BY <4>1
    <3>. QED BY <3>1
  <2>3. m \in Int
    BY <2>2 DEF curve_p
  <2>4. Value(c) = low + (c8 * p8 + c9 * p9 + c10 * p10 + c11 * p11 + c12 * p12 + c13 * p13 + c14 * p14 + c15 * p15)
    BY <1>1, SixteenWords DEF low
  <2>5. /\ p8 = (p0 - p3 - p6 + p7) + (p0) * m
        /\ p9 = (p0 + p1 - p3 - p4 - p6) + (p0 + p1) * m
        /\ p10 = (p1 + p2 - p4 - p5 - p7) + (p1 + p2) * m
        /\ p11 = (0 - p0 + p2 + 2 * p3 - p5 - p7) + (0 - p0 + p2 + p3) * m
        /\ p12 = (0 - p0 - p1 + 2 * p3 + 2 * p4 - p7) + (0 - p0 - p1 + p3 + p4) * m
        /\ p13 = (0 - p0 - p1 - p2 + p3 + 2 * p4 + 2 * p5 + p6 - p7) + (0 - p0 - p1 - p2 + p4 + p5) * m
        /\ p14 = (0 - p0 - p1 - p2 + p4 + 2 * p5 + 3 * p6) + (0 - p0 - p1 - p2 - p3 + p5 + p6) * m
        /\ p15 = (0 - p1 - p2 - p3 + p5 + 2 * p6 + 3 * p7) + (0 - p1 - p2 - p3 - p4 + p6 + p7) * m
    BY HighPlacesAre DEF HighPlaces
  <2>6. /\ v1(1) = 2 * (c11 * p3 + c12 * p4 + c13 * p5 + c14 * p6 + c15 * p7)
        /\ v1(2) = 2 * (c12 * p3 + c13 * p4 + c14 * p5 + c15 * p6)
        /\ v1(3) = (c8 * p0 + c9 * p1 + c10 * p2 + c14 * p6 + c15 * p7)
        /\ v1(4) = (c9 * p0 + c10 * p1 + c11 * p2 + c13 * p3 + c14 * p4 + c15 * p5 + c13 * p6 + c8 * p7)
        /\ v1(5) = 0 - (c11 * p0 + c12 * p1 + c13 * p2 + c8 * p6 + c10 * p7)
        /\ v1(6) = 0 - (c12 * p0 + c13 * p1 + c14 * p2 + c15 * p3 + c9 * p6 + c11 * p7)
        /\ v1(7) = 0 - (c13 * p0 + c14 * p1 + c15 * p2 + c8 * p3 + c9 * p4 + c10 * p5 + c12 * p7)
        /\ v1(8) = 0 - (c14 * p0 + c15 * p1 + c9 * p3 + c10 * p4 + c11 * p5 + c13 * p7)
    BY TermSumsAre DEF TermSums, v1
  <2> HIDE DEF m, c8, c9, c10, c11, c12, c13, c14, c15, p0, p1, p2, p3, p4, p5, p6, p7, p8, p9, p10, p11, p12, p13,
        p14, p15
  <2>7. TermsTogether(c8, c9, c10, c11, c12, c13, c14, c15, p0, p1, p2, p3, p4, p5, p6, p7)
    BY <2>1, <2>2, TermsTogetherAre
  <2> DEFINE r8 == p0 - p3 - p6 + p7
             r9 == p0 + p1 - p3 - p4 - p6
             r10 == p1 + p2 - p4 - p5 - p7
             r11 == 0 - p0 + p2 + 2 * p3 - p5 - p7
             r12 == 0 - p0 - p1 + 2 * p3 + 2 * p4 - p7
             r13 == 0 - p0 - p1 - p2 + p3 + 2 * p4 + 2 * p5 + p6 - p7
             r14 == 0 - p0 - p1 - p2 + p4 + 2 * p5 + 3 * p6
             r15 == 0 - p1 - p2 - p3 + p5 + 2 * p6 + 3 * p7
             q8 == p0
             q9 == p0 + p1
             q10 == p1 + p2
             q11 == 0 - p0 + p2 + p3
             q12 == 0 - p0 - p1 + p3 + p4
             q13 == 0 - p0 - p1 - p2 + p4 + p5
             q14 == 0 - p0 - p1 - p2 - p3 + p5 + p6
             q15 == 0 - p1 - p2 - p3 - p4 + p6 + p7
  <2>8. r8 \in Int /\ r9 \in Int /\ r10 \in Int /\ r11 \in Int /\ r12 \in Int /\ r13 \in Int /\ r14 \in Int
          /\ r15 \in Int /\ q8 \in Int /\ q9 \in Int /\ q10 \in Int /\ q11 \in Int /\ q12 \in Int /\ q13 \in Int
          /\ q14 \in Int /\ q15 \in Int
    BY <2>2
  <2>9. v1(1) + v1(2) + v1(3) + v1(4) + v1(5) + v1(6) + v1(7) + v1(8) = c8 * r8 + c9 * r9 + c10 * r10 + c11 * r11
          + c12 * r12 + c13 * r13 + c14 * r14 + c15 * r15
    BY <2>6, <2>7 DEF TermsTogether
  <2>10. p8 = r8 + q8 * m /\ p9 = r9 + q9 * m /\ p10 = r10 + q10 * m /\ p11 = r11 + q11 * m /\ p12 = r12 + q12
           * m /\ p13 = r13 + q13 * m /\ p14 = r14 + q14 * m /\ p15 = r15 + q15 * m
    BY <2>5
  <2> HIDE DEF r8, q8, r9, q9, r10, q10, r11, q11, r12, q12, r13, q13, r14, q14, r15, q15
  <2>11. /\ c8 * p8 = c8 * r8 + (c8 * q8) * m
         /\ c9 * p9 = c9 * r9 + (c9 * q9) * m
         /\ c10 * p10 = c10 * r10 + (c10 * q10) * m
         /\ c11 * p11 = c11 * r11 + (c11 * q11) * m
         /\ c12 * p12 = c12 * r12 + (c12 * q12) * m
         /\ c13 * p13 = c13 * r13 + (c13 * q13) * m
         /\ c14 * p14 = c14 * r14 + (c14 * q14) * m
         /\ c15 * p15 = c15 * r15 + (c15 * q15) * m
    BY <2>1, <2>3, <2>8, <2>10
  <2> DEFINE q == c8 * q8 + c9 * q9 + c10 * q10 + c11 * q11 + c12 * q12 + c13 * q13 + c14 * q14 + c15 * q15
  <2>12. c8 * q8 \in Int /\ c8 * r8 \in Int /\ c9 * q9 \in Int /\ c9 * r9 \in Int /\ c10 * q10 \in Int /\ c10
           * r10 \in Int /\ c11 * q11 \in Int /\ c11 * r11 \in Int /\ c12 * q12 \in Int /\ c12 * r12 \in Int
           /\ c13 * q13 \in Int /\ c13 * r13 \in Int /\ c14 * q14 \in Int /\ c14 * r14 \in Int /\ c15
           * q15 \in Int /\ c15 * r15 \in Int
    BY <2>1, <2>8
  <2>13. q \in Int
    BY <2>12
  <2>14. q * m = (c8 * q8) * m + (c9 * q9) * m + (c10 * q10) * m + (c11 * q11) * m + (c12 * q12) * m + (c13
           * q13) * m + (c14 * q14) * m + (c15 * q15) * m
    <3> DEFINE x8 == c8 * q8
               x9 == c9 * q9
               x10 == c10 * q10
               x11 == c11 * q11
               x12 == c12 * q12
               x13 == c13 * q13
               x14 == c14 * q14
               x15 == c15 * q15
    <3>1. x8 \in Int /\ x9 \in Int /\ x10 \in Int /\ x11 \in Int /\ x12 \in Int /\ x13 \in Int /\ x14 \in Int
            /\ x15 \in Int
      BY <2>12
    <3> HIDE DEF x8, x9, x10, x11, x12, x13, x14, x15
    <3>2. (x8 + x9 + x10 + x11 + x12 + x13 + x14 + x15) * m = x8 * m + x9 * m + x10 * m + x11 * m + x12 * m + x13
            * m + x14 * m + x15 * m
      BY <2>3, <3>1
    <3>. QED BY <3>2 DEF x8, x9, x10, x11, x12, x13, x14, x15
  <2>15. (c8 * q8) * m \in Int /\ (c9 * q9) * m \in Int /\ (c10 * q10) * m \in Int /\ (c11 * q11) * m \in Int
           /\ (c12 * q12) * m \in Int /\ (c13 * q13) * m \in Int /\ (c14 * q14) * m \in Int /\ (c15 * q15) * m \in Int
    BY <2>3, <2>12
  <2> DEFINE y8 == (c8 * q8) * m
             y9 == (c9 * q9) * m
             y10 == (c10 * q10) * m
             y11 == (c11 * q11) * m
             y12 == (c12 * q12) * m
             y13 == (c13 * q13) * m
             y14 == (c14 * q14) * m
             y15 == (c15 * q15) * m
             z8 == c8 * r8
             z9 == c9 * r9
             z10 == c10 * r10
             z11 == c11 * r11
             z12 == c12 * r12
             z13 == c13 * r13
             z14 == c14 * r14
             z15 == c15 * r15
  <2>16. y8 \in Int /\ z8 \in Int /\ y9 \in Int /\ z9 \in Int /\ y10 \in Int /\ z10 \in Int /\ y11 \in Int
           /\ z11 \in Int /\ y12 \in Int /\ z12 \in Int /\ y13 \in Int /\ z13 \in Int /\ y14 \in Int
           /\ z14 \in Int /\ y15 \in Int /\ z15 \in Int
    BY <2>12, <2>15
  <2>17. Value(c) = low + ((z8 + y8) + (z9 + y9) + (z10 + y10) + (z11 + y11) + (z12 + y12) + (z13 + y13) + (z14
           + y14) + (z15 + y15))
    BY <2>4, <2>11
  <2>18. Folded(c, 9) = low + (z8 + z9 + z10 + z11 + z12 + z13 + z14 + z15) /\ q * m = y8 + y9 + y10 + y11 + y12
           + y13 + y14 + y15
    BY <1>5, <2>9, <2>14
  <2> HIDE DEF q, y8, z8, y9, z9, y10, z10, y11, z11, y12, z12, y13, z13, y14, z14, y15, z15
  <2>19. Value(c) = Folded(c, 9) + q * m
    BY <1>2, <2>16, <2>17, <2>18
  <2>. QED BY <2>13, <2>19
<1>. QED BY <1>4, <1>6

\* Between two terms, and in the loops after them, for the product n of the inputs.
Residue(x, n, m) == \E q \in Int : n = x + q * m
Reducing(n, md, c, res, cy, t) ==
  /\ num_words = 8 /\ md \in Vlis(8) /\ Value(md) = curve_p /\ c \in Vlis(16) /\ Value(c) = n
  /\ res \in Vlis(8) /\ cy \in Int /\ t \in 1 .. 9
  /\ t < 9 => Value(res) + Size * cy = Folded(c, t)
  /\ t = 9 => Residue(Value(res) + Size * cy, n, curve_p)

\* curve_p is an odd number of eight words.
LEMMA CurveIs ==
  ASSUME num_words = 8
  PROVE  curve_p \in 1 .. Size - 1 /\ Size = place[8] /\ Size \in Nat \ {0}
<1>1. \A k \in 0 .. 8 : place[k] \in Nat \ {0}
  BY PlaceIs
<1>2. \A k \in 1 .. 8 : place[k] = W * place[k - 1]
  BY PlaceIs
<1>3. \A k \in 1 .. 8 : 2 * place[k - 1] <= place[k]
  <2> TAKE k \in 1 .. 8
  <2>1. place[k - 1] \in Nat /\ W \in Nat /\ 2 <= W
    BY <1>1, WIs
  <2>2. place[k - 1] * 2 <= place[k - 1] * W
    BY <2>1, ProductMonotonic
  <2>. QED BY <1>2, <2>1, <2>2
<1> DEFINE p(k) == place[k]
<1> HIDE DEF p
<1>4. p(3) \in Nat \ {0} /\ p(4) \in Nat /\ p(5) \in Nat /\ p(6) \in Nat /\ p(7) \in Nat /\ p(8) \in Nat \ {0}
  BY <1>1 DEF p
<1>5. 2 * p(3) <= p(4) /\ 2 * p(4) <= p(5) /\ 2 * p(5) <= p(6) /\ 2 * p(6) <= p(7) /\ 2 * p(7) <= p(8)
  BY <1>3 DEF p
<1>6. curve_p = p(8) - p(7) + p(6) + p(3) - 1 /\ Size = p(8)
  BY DEF curve_p, Size, p
<1>7. curve_p \in 1 .. p(8) - 1
  BY <1>4, <1>5, <1>6
<1>. QED BY <1>4, <1>6, <1>7 DEF p

\* The reduction starts with the lower half of the product.
LEMMA ReduceStarts ==
  ASSUME num_words = 8, NEW x \in Vlis(8), NEW y \in Vlis(8), NEW md, md = Words(curve_p), NEW c, NEW n,
         n = Value(x) * Value(y), c = [i \in 1 .. 16 |-> (n \div place[i - 1]) % W]
  PROVE  Reducing(n, md, c, SubSeq(c, 1, 8), 0, 1)
<1>0. 8 \in 0 .. 2 * num_words /\ 16 \in 0 .. 2 * num_words
  OBVIOUS
<1>1. md \in Vlis(8) /\ Value(md) = curve_p
  <2> DEFINE p == curve_p
  <2>1. p \in 0 .. place[8] - 1 /\ md = [i \in 1 .. 8 |-> (p \div place[i - 1]) % W]
    BY CurveIs DEF Words
  <2> HIDE DEF p
  <2>2. md \in Vlis(8) /\ Value(md) = p
    BY <1>0, <2>1, WordsOf
  <2>. QED BY <2>2 DEF p
<1>2. n \in 0 .. place[16] - 1
  <2> DEFINE S == place[8]
             vx == Value(x)
             vy == Value(y)
  <2>1. vx \in 0 .. S - 1 /\ vy \in 0 .. S - 1 /\ S \in Nat \ {0}
    BY <1>0, ValueBounded
  <2>2. place[16] = S * S
    <3>1. 8 \in Nat /\ 8 + 8 <= 2 * num_words /\ 8 + 8 = 16
      OBVIOUS
    <3>2. place[8 + 8] = place[8] * place[8]
      BY <3>1, PlaceAdds
    <3>. QED BY <3>1, <3>2
  <2> HIDE DEF S, vx, vy
  <2>3. vx * vy <= vx * S /\ S * vx <= S * (S - 1) /\ S * (S - 1) = S * S - S /\ vx * S = S * vx
    BY <2>1, ProductMonotonic
  <2>4. vx * vy \in Nat /\ S * vx \in Int /\ S * S \in Int
    BY <2>1, Product
  <2>5. vx * vy \in 0 .. place[16] - 1
    BY <2>1, <2>2, <2>3, <2>4
  <2>. QED BY <2>5 DEF vx, vy
<1>3. c \in Vlis(16) /\ Value(c) = n
  BY <1>0, <1>2, WordsOf
<1> DEFINE low == [i \in 1 .. 8 |-> c[i]]
<1>4. SubSeq(c, 1, 8) = low
  <2>1. c \in Seq(0 .. W - 1) /\ Len(c) = 16
    <3>1. c \in [1 .. 16 -> 0 .. W - 1]
      BY <1>3 DEF Vlis
    <3> DEFINE k16 == 16
               S == 0 .. W - 1
    <3>2. k16 \in Nat /\ c \in [1 .. k16 -> S]
      BY <3>1
    <3> HIDE DEF low, k16, S
    <3>3. Len(c) = k16 /\ c \in Seq(S)
      BY <3>2, LenIs DEF Seq
    <3>. QED BY <3>3 DEF k16, S
  <2>. QED BY <2>1
<1>5. low \in Vlis(8)
  BY <1>3 DEF Vlis
<1>6. Folded(c, 1) = Value(low)
  <2>1. Value(low) \in Int
    <3>1. Value(low) \in 0 .. place[8] - 1 /\ place[8] \in Nat \ {0}
      BY <1>0, <1>5, ValueBounded
    <3>. QED BY <3>1
  <2>. QED BY <2>1 DEF Folded, Added
<1>7. Value(low) + Size * 0 = Folded(c, 1)
  <2>1. Value(low) \in Int /\ Size \in Int
    <3>1. Value(low) \in 0 .. place[8] - 1 /\ place[8] \in Nat \ {0}
      BY <1>0, <1>5, ValueBounded
    <3>. QED BY <3>1, CurveIs
  <2>. QED BY <1>6, <2>1
<1> DEFINE res == SubSeq(c, 1, 8)
           t == 1
           cy == 0
<1>8. t \in 1 .. 9 /\ t # 9 /\ cy \in Int
  OBVIOUS
<1> HIDE DEF low
<1>9. res \in Vlis(8) /\ Value(res) + Size * cy = Folded(c, t)
  BY <1>4, <1>5, <1>7, Zenon
<1> HIDE DEF res, t, cy
<1>10. Reducing(n, md, c, res, cy, t)
  BY <1>1, <1>3, <1>8, <1>9 DEF Reducing
<1>. QED BY <1>10 DEF res, t, cy

\* A term is added or subtracted, and its carries are counted.
TermStep(c, res, cy, t, tmp, s, cy2) ==
  /\ tmp = IF Terms[t].twice THEN vli_add(TermWords(c, t), TermWords(c, t)) ELSE [words |-> TermWords(c, t), carry |-> 0]
  /\ s = IF Terms[t].sign = 1 THEN vli_add(res, tmp.words) ELSE vli_sub(res, tmp.words)
  /\ cy2 = cy + tmp.carry + Terms[t].sign * s.carry

\* One term more, with its carries.
LEMMA TermAdds ==
  ASSUME NEW n, NEW md, NEW c, NEW res, NEW cy, NEW t \in 1 .. 8, NEW tmp, NEW s, NEW cy2,
         Reducing(n, md, c, res, cy, t), TermStep(c, res, cy, t, tmp, s, cy2), Terms[t].sign = 1 \/ ~Terms[t].twice
  PROVE  Reducing(n, md, c, s.words, cy2, t + 1)
<1>0. /\ num_words = 8 /\ md \in Vlis(8) /\ Value(md) = curve_p /\ c \in Vlis(16) /\ Value(c) = n
      /\ res \in Vlis(8) /\ cy \in Int /\ Value(res) + Size * cy = Folded(c, t) /\ 8 \in 0 .. 2 * num_words
  BY DEF Reducing
<1>1. /\ tmp = IF Terms[t].twice THEN vli_add(TermWords(c, t), TermWords(c, t)) ELSE [words |-> TermWords(c, t), carry |-> 0]
      /\ s = IF Terms[t].sign = 1 THEN vli_add(res, tmp.words) ELSE vli_sub(res, tmp.words)
      /\ cy2 = cy + tmp.carry + Terms[t].sign * s.carry
  BY DEF TermStep
<1> DEFINE f == TermWords(c, t)
           e == tmp.carry
           w == tmp.words
           d == s.carry
           o == s.words
           sg == Terms[t].sign
           by == IF Terms[t].twice THEN 2 ELSE 1
<1>2. f \in Vlis(8)
  BY <1>0, TermWordsTyped
<1>3. sg \in {-1, 1} /\ Terms[t].twice \in BOOLEAN
  BY TermsAre DEF TermGood
<1>4. Size \in Nat
  BY <1>0, CurveIs
<1> HIDE DEF f
<1>5. w \in Vlis(8) /\ e \in {0, 1} /\ Value(w) + Size * e = by * Value(f) /\ (sg = -1 => e = 0)
  <2>1. Value(f) \in Int
    <3>1. Value(f) \in 0 .. place[8] - 1 /\ place[8] \in Nat \ {0}
      BY <1>0, <1>2, ValueBounded
    <3>. QED BY <3>1
  <2>2. CASE Terms[t].twice
    <3>1. tmp = vli_add(f, f)
      BY <1>1, <2>2 DEF f
    <3>2. vli_add(f, f).words \in Vlis(num_words) /\ vli_add(f, f).carry \in {0, 1}
          /\ Value(vli_add(f, f).words) + Size * vli_add(f, f).carry = Value(f) + Value(f)
      BY <1>0, <1>2, AddIs
    <3>3. Value(w) + Size * e = by * Value(f)
      BY <2>1, <2>2, <3>1, <3>2
    <3>4. sg # -1
      BY <2>2
    <3>. QED BY <1>0, <3>1, <3>2, <3>3, <3>4
  <2>3. CASE ~Terms[t].twice
    <3>1. w = f /\ e = 0
      BY <1>1, <2>3 DEF f
    <3>2. Value(f) + Size * 0 = 1 * Value(f)
      BY <1>4, <2>1
    <3>. QED BY <1>2, <2>3, <3>1, <3>2
  <2>. QED BY <1>3, <2>2, <2>3
<1>6. /\ o \in Vlis(8) /\ d \in {0, 1}
      /\ Value(o) + Size * (sg * d) = Value(res) + sg * Value(w)
  <2>0. Value(w) \in Int /\ Value(res) \in Int
    <3>1. Value(w) \in 0 .. place[8] - 1 /\ Value(res) \in 0 .. place[8] - 1 /\ place[8] \in Nat \ {0}
      BY <1>0, <1>5, ValueBounded
    <3>. QED BY <3>1
  <2>1. CASE sg = 1
    <3>1. s = vli_add(res, w)
      BY <1>1, <2>1
    <3>2. vli_add(res, w).words \in Vlis(num_words) /\ vli_add(res, w).carry \in {0, 1}
          /\ Value(vli_add(res, w).words) + Size * vli_add(res, w).carry = Value(res) + Value(w)
      BY <1>0, <1>5, AddIs
    <3>3. o \in Vlis(8) /\ d \in {0, 1} /\ Value(o) + Size * d = Value(res) + Value(w)
      BY <1>0, <3>1, <3>2
    <3>4. sg * d = d /\ sg * Value(w) = Value(w)
      BY <2>0, <2>1, <3>3
    <3>. QED BY <3>3, <3>4
  <2>2. CASE sg = -1
    <3>1. s = vli_sub(res, w)
      BY <1>1, <2>2
    <3>2. vli_sub(res, w).words \in Vlis(num_words) /\ vli_sub(res, w).carry \in {0, 1}
          /\ Value(vli_sub(res, w).words) - Size * vli_sub(res, w).carry = Value(res) - Value(w)
      BY <1>0, <1>5, SubIs
    <3>3. o \in Vlis(8) /\ d \in {0, 1} /\ Value(o) - Size * d = Value(res) - Value(w)
      BY <1>0, <3>1, <3>2
    <3>4. Size * (sg * d) = 0 - Size * d /\ sg * Value(w) = 0 - Value(w) /\ Size * d \in Int /\ Value(o) \in Int
      <4>1. Value(o) \in 0 .. place[8] - 1 /\ place[8] \in Nat \ {0}
        BY <1>0, <3>3, ValueBounded
      <4>2. sg * d = -d /\ sg * Value(w) = 0 - Value(w)
        BY <2>0, <2>2, <3>3
      <4>3. d \in Int /\ Value(o) \in Int
        BY <3>3, <4>1
      <4> HIDE DEF sg, d, w, o
      <4>4. Size * (-d) = 0 - Size * d /\ Size * d \in Int
        BY <1>4, <4>3
      <4>. QED BY <4>2, <4>3, <4>4
    <3>. QED BY <2>0, <3>3, <3>4
  <2>. QED BY <1>3, <2>1, <2>2
<1>7. /\ Value(o) \in Int /\ Value(res) \in Int /\ Value(w) \in Int /\ Value(f) \in Int
  <2>1. /\ Value(o) \in 0 .. place[8] - 1 /\ Value(res) \in 0 .. place[8] - 1 /\ Value(w) \in 0 .. place[8] - 1
        /\ Value(f) \in 0 .. place[8] - 1 /\ place[8] \in Nat \ {0}
    BY <1>0, <1>2, <1>5, <1>6, ValueBounded
  <2>. QED BY <2>1
<1>8. cy2 = cy + e + sg * d /\ cy2 \in Int
  <2>1. cy2 = cy + e + sg * d
    BY <1>1
  <2>2. sg \in Int /\ d \in Int /\ e \in Int
    BY <1>3, <1>5, <1>6
  <2>. QED BY <1>0, <2>1, <2>2
<1>9. TermValue(c, t) = sg * (by * Value(f))
  BY DEF TermValue, f
<1> HIDE DEF e, w, d, o, sg, by
<1>10. Value(o) + Size * cy2 = Folded(c, t) + sg * (by * Value(f))
  <2>1. Size * cy2 = Size * cy + Size * e + Size * (sg * d)
    BY <1>0, <1>3, <1>4, <1>5, <1>6, <1>8
  <2>2. sg * (by * Value(f)) = sg * Value(w) + Size * e
    <3>1. CASE sg = 1
      <4>1. by * Value(f) = Value(w) + Size * e /\ Size * e \in Int
        BY <1>4, <1>5
      <4>. QED BY <1>7, <3>1, <4>1
    <3>2. CASE sg = -1
      <4>1. e = 0 /\ Size * e = 0 /\ by * Value(f) = Value(w)
        BY <1>4, <1>5, <1>7, <3>2
      <4>. QED BY <1>7, <3>2, <4>1
    <3>. QED BY <1>3, <3>1, <3>2
  <2>3. Size * cy \in Int /\ Size * e \in Int /\ Size * (sg * d) \in Int /\ sg * Value(w) \in Int
    BY <1>0, <1>3, <1>4, <1>5, <1>6, <1>7
  <2>. QED BY <1>0, <1>6, <1>7, <2>1, <2>2, <2>3
<1>11. Folded(c, t + 1) = Folded(c, t) + TermValue(c, t)
  <2> DEFINE v1(j) == TermValue(c, j)
             low == Value([i \in 1 .. 8 |-> c[i]])
  <2>1. low \in Int /\ \A j \in 1 .. 8 : v1(j) \in Int
    BY <1>0, FoldedParts
  <2> HIDE DEF v1, low
  <2>2. \A j \in 1 .. 8 : Added(c, j, t + 1) = IF j <= t THEN v1(j) ELSE 0
    BY DEF Added, v1
  <2>3. \A j \in 1 .. 8 : Added(c, j, t) = IF j <= t - 1 THEN v1(j) ELSE 0
    BY DEF Added, v1
  <2> DEFINE x(j) == Added(c, j, t + 1)
             y(j) == Added(c, j, t)
  <2>4. \A j \in 1 .. 8 : x(j) = y(j) + (IF j = t THEN v1(t) ELSE 0) /\ y(j) \in Int
    BY <2>1, <2>2, <2>3
  <2>5. Folded(c, t + 1) = low + (x(1) + x(2) + x(3) + x(4) + x(5) + x(6) + x(7) + x(8))
        /\ Folded(c, t) = low + (y(1) + y(2) + y(3) + y(4) + y(5) + y(6) + y(7) + y(8))
    BY DEF Folded, low
  <2> HIDE DEF x, y
  <2> DEFINE z(j) == IF j = t THEN v1(t) ELSE 0
  <2>6. /\ x(1) = y(1) + z(1) /\ x(2) = y(2) + z(2) /\ x(3) = y(3) + z(3) /\ x(4) = y(4) + z(4)
        /\ x(5) = y(5) + z(5) /\ x(6) = y(6) + z(6) /\ x(7) = y(7) + z(7) /\ x(8) = y(8) + z(8)
    BY <2>4
  <2>7. /\ y(1) \in Int /\ y(2) \in Int /\ y(3) \in Int /\ y(4) \in Int /\ y(5) \in Int /\ y(6) \in Int
        /\ y(7) \in Int /\ y(8) \in Int /\ v1(t) \in Int
    BY <2>1, <2>4
  <2>8. z(1) + z(2) + z(3) + z(4) + z(5) + z(6) + z(7) + z(8) = v1(t)
        /\ z(1) \in Int /\ z(2) \in Int /\ z(3) \in Int /\ z(4) \in Int /\ z(5) \in Int /\ z(6) \in Int
        /\ z(7) \in Int /\ z(8) \in Int
    BY <2>7
  <2> HIDE DEF z
  <2>9. Folded(c, t + 1) = Folded(c, t) + v1(t)
    BY <2>1, <2>5, <2>6, <2>7, <2>8
  <2>. QED BY <2>9 DEF v1
<1>12. Value(o) + Size * cy2 = Folded(c, t + 1)
  BY <1>9, <1>10, <1>11
<1>13. t + 1 = 9 => Residue(Value(o) + Size * cy2, n, curve_p)
  <2> SUFFICES ASSUME t + 1 = 9 PROVE Residue(Folded(c, 9), n, curve_p)
    BY <1>12
  <2>1. \E q \in Int : Value(c) = Folded(c, 9) + q * curve_p
    BY <1>0, FoldedIs
  <2>. QED BY <1>0, <2>1 DEF Residue
<1>14. t + 1 \in 1 .. 9
  OBVIOUS
<1>. QED BY <1>0, <1>6, <1>8, <1>12, <1>13, <1>14 DEF Reducing, o

\* The loops at the end.
LEMMA ResidueMoves ==
  ASSUME NEW n \in Int, NEW x \in Int, NEW m \in Int, NEW e \in Int, Residue(x, n, m)
  PROVE  Residue(x + e * m, n, m)
<1>1. PICK q \in Int : n = x + q * m
  BY DEF Residue
<1>2. q - e \in Int /\ (q - e) * m = q * m - e * m /\ q * m \in Int /\ e * m \in Int
  OBVIOUS
<1>3. n = (x + e * m) + (q - e) * m
  BY <1>1, <1>2
<1>. QED BY <1>2, <1>3 DEF Residue

\* The modulus added or subtracted leaves the residue.
LEMMA ReduceMoves ==
  ASSUME NEW n \in Int, NEW md, NEW c, NEW res, NEW cy, NEW s, NEW cy2, Reducing(n, md, c, res, cy, 9),
         \/ s = vli_add(res, md) /\ cy2 = cy + s.carry
         \/ s = vli_sub(res, md) /\ cy2 = cy - s.carry
  PROVE  Reducing(n, md, c, s.words, cy2, 9)
<1>0. /\ num_words = 8 /\ md \in Vlis(8) /\ Value(md) = curve_p /\ c \in Vlis(16) /\ Value(c) = n
      /\ res \in Vlis(8) /\ cy \in Int /\ Residue(Value(res) + Size * cy, n, curve_p) /\ 8 \in 0 .. 2 * num_words
  BY DEF Reducing
<1> DEFINE d == s.carry
           o == s.words
           x == Value(res) + Size * cy
           m == curve_p
<1>1. Size \in Nat /\ m \in Int /\ Value(res) \in Int
  <2>1. Value(res) \in 0 .. place[8] - 1 /\ place[8] \in Nat \ {0}
    BY <1>0, ValueBounded
  <2>. QED BY <1>0, <2>1, CurveIs
<1>2. o \in Vlis(8) /\ d \in {0, 1}
  BY <1>0, AddIs, SubIs
<1>3. Value(o) \in Int
  <2>1. Value(o) \in 0 .. place[8] - 1 /\ place[8] \in Nat \ {0}
    BY <1>0, <1>2, ValueBounded
  <2>. QED BY <2>1
<1>4. cy2 \in Int
  <2>1. d \in Int /\ (cy2 = cy + d \/ cy2 = cy - d)
    BY <1>2
  <2>. QED BY <1>0, <2>1
<1>5. Value(o) + Size * cy2 = x + 1 * m \/ Value(o) + Size * cy2 = x + (-1) * m
  <2>1. CASE s = vli_add(res, md) /\ cy2 = cy + d
    <3>1. Value(o) + Size * d = Value(res) + m
      BY <1>0, <2>1, AddIs
    <3> HIDE DEF o, d, m
    <3>2. Size * cy2 = Size * cy + Size * d /\ Size * cy \in Int /\ Size * d \in Int
      BY <1>0, <1>1, <1>2, <2>1
    <3>. QED BY <1>1, <1>3, <3>1, <3>2
  <2>2. CASE s = vli_sub(res, md) /\ cy2 = cy - d
    <3>1. Value(o) - Size * d = Value(res) - m
      BY <1>0, <2>2, SubIs
    <3> HIDE DEF o, d, m
    <3>2. Size * cy2 = Size * cy - Size * d /\ Size * cy \in Int /\ Size * d \in Int
      BY <1>0, <1>1, <1>2, <2>2
    <3>. QED BY <1>1, <1>3, <3>1, <3>2
  <2>. QED BY <2>1, <2>2
<1>6. x \in Int
  BY <1>0, <1>1
<1>7. Residue(Value(o) + Size * cy2, n, m)
  <2> DEFINE e1 == 1
             e2 == -1
  <2>1. e1 \in Int /\ e2 \in Int
    OBVIOUS
  <2>2. Residue(x, n, m)
    BY <1>0
  <2> HIDE DEF x, m, e1, e2
  <2>3. Residue(x + e1 * m, n, m) /\ Residue(x + e2 * m, n, m)
    BY <1>1, <1>6, <2>1, <2>2, ResidueMoves
  <2>. QED BY <1>5, <2>3 DEF e1, e2
<1>. QED BY <1>0, <1>2, <1>4, <1>7 DEF Reducing

\* What is left is the remainder.
LEMMA ReduceEnds ==
  ASSUME NEW n \in Int, NEW md, NEW c, NEW res, Reducing(n, md, c, res, 0, 9), cmp_unsafe(md, res) = 1
  PROVE  Value(res) = n % Value(md)
<1>0. /\ num_words = 8 /\ md \in Vlis(8) /\ Value(md) = curve_p
      /\ res \in Vlis(8) /\ Residue(Value(res) + Size * 0, n, curve_p) /\ 8 \in 0 .. 2 * num_words
  BY DEF Reducing
<1> DEFINE m == curve_p
           x == Value(res)
<1>1. m \in Nat \ {0} /\ Size \in Nat /\ x \in Nat
  <2>1. Value(res) \in 0 .. place[8] - 1 /\ place[8] \in Nat \ {0}
    BY <1>0, ValueBounded
  <2>. QED BY <1>0, <2>1, CurveIs
<1>2. x < m
  <2>1. Value(md) > x
    BY <1>0, <1>1, CmpUnsafeIs
  <2>. QED BY <1>0, <2>1
<1>3. PICK q \in Int : n = x + q * m
  BY <1>0, <1>1 DEF Residue
<1> HIDE DEF m, x
<1>4. (m * q + x) % m = x
  BY <1>1, <1>2, DivIs
<1>5. n = m * q + x
  BY <1>1, <1>3
<1>. QED BY <1>0, <1>4, <1>5 DEF m, x

\* A residue, as the property has it.
LEMMA ResidueIs ==
  ASSUME NEW n \in Int, NEW x \in Int, NEW m \in Nat \ {0}, Residue(x, n, m)
  PROVE  (x - n) % m = 0
<1>1. PICK q \in Int : n = x + q * m
  BY DEF Residue
<1>2. x - n = m * (-q) + 0
  BY <1>1
<1>3. (m * (-q) + 0) % m = 0
  <2>1. -q \in Int /\ 0 \in 0 .. m - 1
    OBVIOUS
  <2>. QED BY <2>1, DivIs
<1>. QED BY <1>2, <1>3

\* Residues are congruent.
LEMMA ResidueBack ==
  ASSUME NEW n \in Int, NEW x \in Int, NEW m \in Nat \ {0}, Residue(x, n, m)
  PROVE  (n - x) % m = 0
<1>1. PICK q \in Int : n = x + q * m
  BY DEF Residue
<1>2. n - x = m * q + 0
  BY <1>1
<1>3. (m * q + 0) % m = 0
  <2>1. 0 \in 0 .. m - 1
    OBVIOUS
  <2>. QED BY <2>1, DivIs
<1>. QED BY <1>2, <1>3

-----------------------------------------------------------------------------
(* The inverse.                                                            *)

\* The last bit, which is that of the first word.
LEMMA EvenIs ==
  ASSUME NEW x \in Vlis(num_words)
  PROVE  /\ rshift1(x) \in Vlis(num_words)
         /\ Even(x) => 2 * Value(rshift1(x)) = Value(x)
         /\ ~Even(x) => 2 * Value(rshift1(x)) + 1 = Value(x)
<1>1. rshift1(x) \in Vlis(num_words) /\ 2 * Value(rshift1(x)) + (x[1] % 2) = Value(x) /\ x[1] % 2 \in {0, 1}
  BY ShiftIs
<1>2. Value(rshift1(x)) \in Int
  <2>1. Value(rshift1(x)) \in 0 .. Size - 1 /\ Size \in Nat \ {0}
    BY <1>1, ValueRange
  <2>. QED BY <2>1
<1> DEFINE e == x[1] % 2
           h == Value(rshift1(x))
<1> HIDE DEF e, h
<1>3. 2 * h + e = Value(x) /\ e \in {0, 1} /\ h \in Int
  BY <1>1, <1>2 DEF e, h
<1>4. Even(x) => e = 0
  BY DEF Even, e
<1>5. ~Even(x) => e = 1
  BY <1>3 DEF Even, e
<1>. QED BY <1>1, <1>3, <1>4, <1>5 DEF h

\* The highest word of a shifted number has a free bit at its top.
LEMMA TopHalf ==
  ASSUME NEW x \in Vlis(num_words)
  PROVE  rshift1(x)[num_words] = x[num_words] \div 2 /\ x[num_words] \in 0 .. W - 1
<1> DEFINE n == num_words
<1>1. n \in Nat \ {0} /\ n \in 1 .. n /\ W \in Nat /\ x \in [1 .. n -> 0 .. W - 1]
  BY Sizes DEF Vlis
<1>2. Len(x) = n
  BY <1>1, LenIs
<1>3. n \in DOMAIN x /\ ~(n < Len(x)) /\ x[n] \in 0 .. W - 1
  BY <1>1, <1>2
<1> HIDE DEF n
<1>4. rshift1(x)[n] = x[n] \div 2 + IF n < Len(x) THEN (x[n + 1] * two[WORD_BITS - 1]) % W ELSE 0
  BY <1>3, Zenon DEF rshift1
<1>5. x[n] \div 2 \in Int
  BY <1>1, <1>3
<1>. QED BY <1>3, <1>4, <1>5 DEF n

\* A carry that comes back as the highest bit.
LEMMA TopBit ==
  ASSUME NEW x \in Vlis(num_words), NEW e \in {0, 1}, NEW f,
         f = [rshift1(x) EXCEPT ![num_words] = @ + e * two[WORD_BITS - 1]]
  PROVE  /\ f \in Vlis(num_words)
         /\ 2 * Value(f) = 2 * Value(rshift1(x)) + Size * e
<1> DEFINE n == num_words
           h == two[WORD_BITS - 1]
           g == rshift1(x)
           d == e * h
           z == [i \in 1 .. n |-> IF i = n THEN d ELSE 0]
           zs == [i \in 0 .. n |-> IF i = n THEN d * place[n - 1] ELSE 0]
<1>0. n \in Nat \ {0} /\ h \in Nat \ {0} /\ W = 2 * h /\ n \in 0 .. 2 * num_words /\ n \in 1 .. n /\ W \in Nat
  BY WIs
<1>1. g \in Vlis(n)
  BY ShiftIs
<1>2. g[n] = x[n] \div 2 /\ x[n] \in 0 .. W - 1
  BY TopHalf
<1>3. g[n] \in 0 .. h - 1
  <2> DEFINE y == x[n]
             q == y \div 2
  <2>1. y \in Nat /\ y < 2 * h
    BY <1>0, <1>2
  <2> HIDE DEF y
  <2>2. q \in Nat /\ y = 2 * q + (y % 2) /\ y % 2 \in 0 .. 1
    BY <2>1, DivMod
  <2> HIDE DEF q
  <2>3. q < h
    BY <1>0, <2>1, <2>2
  <2>. QED BY <1>0, <1>2, <2>2, <2>3 DEF q, y
<1>4. d \in {0, h} /\ d \in Int
  BY <1>0
<1> HIDE DEF d, h, g
<1>5. g \in [1 .. n -> Int] /\ z \in [1 .. n -> Int]
  BY <1>0, <1>1, <1>4, SumsBounded
<1>6. f = [i \in 1 .. n |-> g[i] + z[i]]
  <2>1. f = [i \in 1 .. n |-> IF i = n THEN g[n] + d ELSE g[i]]
    <3>1. g = [i \in 1 .. n |-> g[i]]
      BY <1>5
    <3>2. f = [g EXCEPT ![n] = @ + d]
      BY DEF g, d, h
    <3> HIDE DEF z
    <3>. QED BY <1>0, <3>1, <3>2
  <2>2. \A i \in 1 .. n : (IF i = n THEN g[n] + d ELSE g[i]) = g[i] + z[i]
    BY <1>4, <1>5
  <2> HIDE DEF z
  <2>. QED BY <2>1, <2>2
<1>7. f \in Vlis(n)
  <2>1. \A i \in 1 .. n : g[i] + z[i] \in 0 .. W - 1
    <3> TAKE i \in 1 .. n
    <3>1. g[i] \in 0 .. W - 1
      BY <1>1 DEF Vlis
    <3>2. CASE i = n
      BY <1>0, <1>3, <1>4, <3>2
    <3>3. CASE i # n
      BY <1>0, <3>1, <3>3
    <3>. QED BY <3>2, <3>3
  <2> HIDE DEF z
  <2>. QED BY <1>6, <2>1 DEF Vlis
<1>8. Value(z) = d * place[n - 1] /\ place[n - 1] \in Nat /\ place[n] = W * place[n - 1]
  <2>0. place[n - 1] \in Nat \ {0} /\ place[n] = W * place[n - 1] /\ \A i \in 1 .. n : place[i - 1] \in Nat \ {0}
    BY <1>0, PlaceAt
  <2>1. ASSUME NEW i \in 1 .. n PROVE zs[i] = zs[i - 1] + z[i] * place[i - 1]
    <3>1. i \in 0 .. n /\ i - 1 \in 0 .. n /\ i - 1 # n /\ place[i - 1] \in Int
      BY <1>0, <2>0
    <3>2. zs[i - 1] = 0
      BY <3>1
    <3>3. CASE i = n
      <4>1. zs[i] = d * place[i - 1] /\ z[i] = d /\ d * place[i - 1] \in Int
        BY <1>4, <3>1, <3>3
      <4> HIDE DEF zs, z
      <4>. QED BY <3>2, <4>1
    <3>4. CASE i # n
      <4>1. zs[i] = 0 /\ z[i] = 0
        BY <3>1, <3>4
      <4> HIDE DEF zs, z
      <4>. QED BY <3>1, <3>2, <4>1
    <3>. QED BY <3>3, <3>4
  <2>2. zs[0] = 0 /\ zs[n] = d * place[n - 1]
    BY <1>0
  <2> HIDE DEF zs, z
  <2>3. AddsUp(zs, z, n)
    BY <1>0, <1>5, <2>1, <2>2 DEF AddsUp
  <2>4. Value(z) = zs[n]
    BY <2>3, ValueBy
  <2>. QED BY <2>0, <2>2, <2>4
<1> HIDE DEF z
<1>9. Value(f) = Value(g) + d * place[n - 1]
  <2> DEFINE k == num_words
  <2>1. k \in 0 .. 2 * num_words /\ g \in [1 .. k -> Int] /\ z \in [1 .. k -> Int]
    BY <1>0, <1>5
  <2> HIDE DEF k
  <2>2. Value([i \in 1 .. k |-> g[i] + z[i]]) = Value(g) + Value(z)
    BY <2>1, ValueAdds
  <2>. QED BY <1>6, <1>8, <2>2, Zenon DEF k
<1>10. Value(g) \in Int
  <2>1. Value(g) \in 0 .. Size - 1 /\ Size \in Nat \ {0}
    BY <1>1, ValueRange
  <2>. QED BY <2>1
<1>11. 2 * (d * place[n - 1]) = Size * e
  <2> DEFINE p == place[n - 1]
  <2>1. p \in Int /\ Size = (2 * h) * p /\ d = e * h /\ h \in Int /\ e \in Int
    BY <1>0, <1>8 DEF Size, d
  <2> HIDE DEF p
  <2>2. 2 * ((e * h) * p) = ((2 * h) * p) * e
    BY <2>1
  <2>. QED BY <2>1, <2>2 DEF p
<1>12. d * place[n - 1] \in Int
  BY <1>4, <1>8
<1>. QED BY <1>7, <1>9, <1>10, <1>11, <1>12 DEF g

\* Half of a residue or of its sum with the modulus, whichever is even.
Odd(x) == \E q \in Int : x = 2 * q + 1

\* vli_modInv_update halves a residue, or its sum with the modulus: the carry is not lost.
LEMMA UpdateIs ==
  ASSUME mod \in Vlis(num_words), Odd(Value(mod)), NEW x \in Vlis(num_words), Value(x) < Value(mod)
  PROVE  /\ modInv_update(x) \in Vlis(num_words) /\ Value(modInv_update(x)) < Value(mod)
         /\ \E e \in {0, 1} : 2 * Value(modInv_update(x)) = Value(x) + e * Value(mod)
<1> DEFINE X == Value(x)
           M == Value(mod)
           y == modInv_update(x)
<1>0. X \in 0 .. Size - 1 /\ M \in 0 .. Size - 1 /\ Size \in Nat \ {0}
  BY ValueRange
<1>1. CASE Even(x)
  <2>1. y = rshift1(x)
    BY <1>1 DEF modInv_update
  <2>2. y \in Vlis(num_words) /\ 2 * Value(y) = X
    BY <1>1, <2>1, EvenIs
  <2>3. Value(y) \in 0 .. Size - 1
    BY <2>2, ValueRange
  <2>4. X + 0 * M = X
    BY <1>0
  <2> HIDE DEF y, X, M
  <2>5. Value(y) < M
    BY <1>0, <2>2, <2>3 DEF X, M
  <2>6. \E e \in {0, 1} : 2 * Value(y) = X + e * M
    BY <2>2, <2>4
  <2>. QED BY <2>2, <2>5, <2>6 DEF y, X, M
<1>2. CASE ~Even(x)
  <2> DEFINE s == vli_add(x, mod)
             w == s.words
             c == s.carry
  <2>1. y = [rshift1(w) EXCEPT ![num_words] = @ + c * two[WORD_BITS - 1]]
    BY <1>2 DEF modInv_update
  <2>2. w \in Vlis(num_words) /\ c \in {0, 1} /\ Value(w) + Size * c = X + M
    BY AddIs
  <2> HIDE DEF y, w, c
  <2>3. y \in Vlis(num_words) /\ 2 * Value(y) = 2 * Value(rshift1(w)) + Size * c
    BY <2>1, <2>2, TopBit
  <2>4. PICK q \in Int : M = 2 * q + 1
    BY DEF Odd
  <2> DEFINE h == Value(rshift1(x))
             k == Value(rshift1(w))
  <2>5. X = 2 * h + 1 /\ h \in Int
    <3>1. 2 * h + 1 = X /\ rshift1(x) \in Vlis(num_words)
      BY <1>2, EvenIs
    <3>2. h \in 0 .. Size - 1
      BY <3>1, ValueRange
    <3>. QED BY <1>0, <3>1, <3>2
  <2>6. k \in Int /\ (Even(w) => 2 * k = Value(w)) /\ (~Even(w) => 2 * k + 1 = Value(w))
    <3>1. rshift1(w) \in Vlis(num_words) /\ (Even(w) => 2 * k = Value(w)) /\ (~Even(w) => 2 * k + 1 = Value(w))
      BY <2>2, EvenIs
    <3>2. k \in 0 .. Size - 1
      BY <3>1, ValueRange
    <3>. QED BY <1>0, <3>1, <3>2
  <2>7. PICK t \in Int : Size = 2 * t
    <3> DEFINE p == place[num_words - 1]
    <3>1. num_words \in 1 .. 2 * num_words /\ num_words \in 0 .. 2 * num_words /\ num_words \in 1 .. num_words
      BY Sizes
    <3>2. p \in Nat /\ place[num_words] = W * p
      BY <3>1, PlaceAt
    <3>3. W = 2 * two[WORD_BITS - 1] /\ two[WORD_BITS - 1] \in Nat
      BY WIs
    <3> HIDE DEF p
    <3> DEFINE g == two[WORD_BITS - 1]
    <3>4. (2 * g) * p = 2 * (g * p) /\ g * p \in Int
      BY <3>2, <3>3
    <3>. QED BY <3>2, <3>3, <3>4 DEF Size
  <2>8. t * c \in Int /\ Size * c = 2 * (t * c)
    BY <2>2, <2>7
  <2>9. 2 * k = Value(w)
    <3> SUFFICES ASSUME ~Even(w) PROVE FALSE
      BY <2>6
    <3> DEFINE tc == t * c
    <3>1. 2 * k + 1 + 2 * tc = (2 * h + 1) + (2 * q + 1) /\ tc \in Int
      BY <2>2, <2>4, <2>5, <2>6, <2>8
    <3> HIDE DEF tc, k, h
    <3>. QED BY <2>4, <2>5, <2>6, <3>1
  <2>10. 2 * Value(y) = X + 1 * M
    BY <1>0, <2>2, <2>3, <2>9
  <2>11. Value(y) \in 0 .. Size - 1
    BY <2>3, ValueRange
  <2> HIDE DEF X, M
  <2>12. Value(y) < M
    BY <1>0, <2>10, <2>11 DEF X, M
  <2>. QED BY <2>3, <2>10, <2>12 DEF y, X, M
<1>. QED BY <1>1, <1>2

\* The difference of residues.
LEMMA DifferenceIs ==
  ASSUME mod \in Vlis(num_words), NEW x \in Vlis(num_words), NEW y \in Vlis(num_words),
         Value(x) < Value(mod), Value(y) < Value(mod)
  PROVE  /\ Difference(x, y) \in Vlis(num_words) /\ Value(Difference(x, y)) < Value(mod)
         /\ \E e \in {0, 1} : Value(Difference(x, y)) = Value(x) - Value(y) + e * Value(mod)
<1> DEFINE X == Value(x)
           Y == Value(y)
           M == Value(mod)
           D == Difference(x, y)
<1>0. X \in 0 .. Size - 1 /\ Y \in 0 .. Size - 1 /\ M \in 0 .. Size - 1 /\ Size \in Nat \ {0}
  BY ValueRange
<1>1. CASE X < Y
  <2> DEFINE s == vli_add(x, mod)
             w == s.words
             c == s.carry
             o == vli_sub(w, y)
             d == o.carry
  <2>1. cmp_unsafe(x, y) < 0
    BY <1>1, CmpUnsafeIs
  <2>2. D = o.words
    BY <2>1 DEF Difference
  <2>3. w \in Vlis(num_words) /\ c \in {0, 1} /\ Value(w) + Size * c = X + M
    BY AddIs
  <2> HIDE DEF w, c
  <2>4. D \in Vlis(num_words) /\ d \in {0, 1} /\ Value(D) - Size * d = Value(w) - Y
    BY <2>2, <2>3, SubIs
  <2>5. Value(D) \in 0 .. Size - 1 /\ Value(w) \in 0 .. Size - 1
    BY <2>3, <2>4, ValueRange
  <2> HIDE DEF d, D, X, Y, M
  <2>6. X < M /\ Y < M
    BY DEF X, Y, M
  <2>7. Value(D) = X - Y + 1 * M /\ Value(D) < M
    BY <1>0, <1>1, <2>3, <2>4, <2>5, <2>6
  <2>. QED BY <2>4, <2>7 DEF D, X, Y, M
<1>2. CASE X >= Y
  <2> DEFINE o == vli_sub(x, y)
             d == o.carry
  <2>1. ~(cmp_unsafe(x, y) < 0)
    <3>1. X > Y \/ X = Y
      BY <1>0, <1>2
    <3>2. cmp_unsafe(x, y) = 1 \/ cmp_unsafe(x, y) = 0
      BY <3>1, CmpUnsafeIs
    <3>. QED BY <3>2
  <2>2. D = o.words
    BY <2>1 DEF Difference
  <2>3. D \in Vlis(num_words) /\ d \in {0, 1} /\ Value(D) - Size * d = X - Y
    BY <2>2, SubIs
  <2>4. Value(D) \in 0 .. Size - 1
    BY <2>3, ValueRange
  <2> HIDE DEF d, D, X, Y, M
  <2>5. X < M /\ Y < M
    BY DEF X, Y, M
  <2>6. Value(D) = X - Y + 0 * M /\ Value(D) < M
    BY <1>0, <1>2, <2>3, <2>4, <2>5
  <2>. QED BY <2>3, <2>6 DEF D, X, Y, M
<1>. QED BY <1>0, <1>1, <1>2

\* Half of an even number of multiples of an odd modulus.
LEMMA HalfResidue ==
  ASSUME NEW m \in Int, Odd(m), NEW l \in Int, NEW x \in Int, NEW y \in Int, NEW x2 \in Int, NEW y2 \in Int,
         NEW e \in Int, 2 * x2 = x + e * m, 2 * y2 = y, Residue(y, l * x, m)
  PROVE  Residue(y2, l * x2, m)
<1>1. PICK q \in Int : l * x = y + q * m
  BY DEF Residue
<1>2. PICK k \in Int : m = 2 * k + 1
  BY DEF Odd
<1> DEFINE t == q + l * e
           d == l * x2 - y2
<1>3. t \in Int /\ d \in Int
  OBVIOUS
<1>4. 2 * d = t * m
  <2>1. l * (2 * x2) = 2 * (l * x2) /\ l * (x + e * m) = l * x + (l * e) * m /\ t * m = q * m + (l * e) * m
    OBVIOUS
  <2>2. l * x2 \in Int /\ l * x \in Int /\ (l * e) * m \in Int /\ q * m \in Int
    OBVIOUS
  <2>. QED BY <1>1, <2>1, <2>2
<1> HIDE DEF t, d
<1> DEFINE f == d - t * k
<1>5. t * m = 2 * (t * k) + t /\ t * k \in Int
  BY <1>2, <1>3
<1>6. t = 2 * f /\ f \in Int
  BY <1>3, <1>4, <1>5
<1> HIDE DEF f
<1>7. t * m = 2 * (f * m) /\ f * m \in Int
  BY <1>6
<1>8. d = f * m
  BY <1>3, <1>4, <1>7
<1>9. l * x2 = y2 + f * m /\ l * x2 \in Int
  BY <1>7, <1>8 DEF d
<1>. QED BY <1>6, <1>9 DEF Residue

\* Residues subtract.
LEMMA ResidueSubtracts ==
  ASSUME NEW m \in Int, NEW l \in Int, NEW x \in Int, NEW y \in Int, NEW x2 \in Int, NEW y2 \in Int, NEW e \in Int,
         Residue(y, l * x, m), Residue(y2, l * x2, m)
  PROVE  Residue(y - y2, l * (x - x2 + e * m), m)
<1>1. PICK q \in Int : l * x = y + q * m
  BY DEF Residue
<1>2. PICK k \in Int : l * x2 = y2 + k * m
  BY DEF Residue
<1> DEFINE t == q - k + l * e
<1>3. t \in Int /\ t * m = q * m - k * m + (l * e) * m /\ q * m \in Int /\ k * m \in Int /\ (l * e) * m \in Int
  OBVIOUS
<1>4. l * (x - x2 + e * m) = l * x - l * x2 + (l * e) * m
  OBVIOUS
<1> HIDE DEF t
<1>5. l * (x - x2 + e * m) = (y - y2) + t * m
  BY <1>1, <1>2, <1>3, <1>4
<1>. QED BY <1>3, <1>5 DEF Residue

-----------------------------------------------------------------------------
(* The invariant.                                                          *)

\* On the way to the inverse: a and b are, but for multiples of mod, the products of left
\* with u and v, which are residues.
Inverting ==
  /\ a \in Vlis(num_words) /\ b \in Vlis(num_words) /\ u \in Vlis(num_words) /\ v \in Vlis(num_words)
  /\ Value(left) # 0 /\ Value(u) < Value(mod) /\ Value(v) < Value(mod)
  /\ Residue(Value(a), Value(left) * Value(u), Value(mod)) /\ Residue(Value(b), Value(left) * Value(v), Value(mod))

InputsTyped ==
  left \in Vlis(num_words) /\ right \in Vlis(num_words) /\ mod \in Vlis(num_words) /\ Odd(Value(mod))

VliInv ==
  /\ InputsTyped
  /\ step = "start" => product = <<>> /\ r = <<0, 0, 0>>
  /\ step = "mult" => Multiplying(left, right, product, r)
  /\ step = "multiplied" => Value(product) = Value(left) * Value(right)
  /\ step = "reduce" => Reducing(Value(left) * Value(right), mod, product, result, carry, term)
  /\ step = "reduced" => Value(result) = (Value(left) * Value(right)) % Value(mod)
  /\ step = "inverse" => Inverting
  /\ step = "inverted" => IF Value(left) = 0 THEN isZero(u) ELSE Inverting

\* The inputs are numbers.
LEMMA ValuesTyped ==
  ASSUME InputsTyped
  PROVE  /\ Value(left) \in 0 .. Size - 1 /\ Value(right) \in 0 .. Size - 1 /\ Value(mod) \in 1 .. Size - 1
         /\ Value(left) \in Nat /\ Value(right) \in Nat /\ Value(mod) \in Nat \ {0}
         /\ Size \in Nat \ {0} /\ Value(left) * Value(right) \in Nat
<1>1. /\ Value(left) \in 0 .. Size - 1 /\ Value(right) \in 0 .. Size - 1 /\ Value(mod) \in 0 .. Size - 1
      /\ Size \in Nat \ {0}
  BY ValueRange DEF InputsTyped
<1>2. Value(mod) # 0
  <2>1. PICK q \in Int : Value(mod) = 2 * q + 1
    BY DEF InputsTyped, Odd
  <2>. QED BY <2>1
<1>3. Value(left) \in Nat /\ Value(right) \in Nat
  BY <1>1
<1>4. Value(left) * Value(right) \in Nat
  BY <1>3, Product
<1>. QED BY <1>1, <1>2, <1>3, <1>4

\* Words gives the words of a number.
LEMMA WordsAre ==
  ASSUME NEW x \in 0 .. Size - 1
  PROVE  Words(x) \in Vlis(num_words) /\ Value(Words(x)) = x
BY Sizes, WordsOf DEF Words, Size

\* VliInv holds at the start.
LEMMA InitInv == VliInit => VliInv
<1> SUFFICES ASSUME VliInit PROVE VliInv
  OBVIOUS
<1>1. Numbers \subseteq 0 .. Size - 1 /\ Moduli \subseteq 1 .. Size - 1 /\ \A m \in Moduli : m % 2 = 1
  BY VliInputs DEF VliAssumption
<1>2. left \in Vlis(num_words) /\ right \in Vlis(num_words)
  BY <1>1, WordsAre DEF VliInit
<1>3. PICK m \in Moduli : mod = Words(m)
  BY DEF VliInit
<1>4. m \in 0 .. Size - 1 /\ m % 2 = 1 /\ m \in Int
  <2>1. Size \in Nat
    <3>1. Value(left) \in 0 .. Size - 1 /\ Size \in Nat \ {0}
      BY <1>2, ValueRange
    <3>. QED BY <3>1
  <2>. QED BY <1>1, <2>1
<1>5. mod \in Vlis(num_words) /\ Value(mod) = m
  BY <1>3, <1>4, WordsAre
<1>6. Odd(m)
  <2>1. m = 2 * (m \div 2) + 1 /\ m \div 2 \in Int
    BY <1>4
  <2>. QED BY <2>1 DEF Odd
<1>7. step = "start" /\ product = <<>> /\ r = <<0, 0, 0>>
  BY DEF VliInit
<1>. QED BY <1>2, <1>5, <1>6, <1>7 DEF VliInv, InputsTyped

\* The product.
LEMMA MultiplyInv == VliInv /\ (Multiply \/ NextWord \/ Multiplied) => VliInv'
<1> SUFFICES ASSUME VliInv, Multiply \/ NextWord \/ Multiplied PROVE VliInv'
  OBVIOUS
<1>1. InputsTyped /\ left' = left /\ right' = right /\ mod' = mod
  BY DEF VliInv, Multiply, NextWord, Multiplied, inputs
<1>2. InputsTyped'
  BY <1>1 DEF InputsTyped
<1>t. left \in Vlis(num_words) /\ right \in Vlis(num_words)
  BY <1>1 DEF InputsTyped
<1>3. CASE Multiply
  <2>1. step = "start" /\ step' = "mult" /\ num_words < W /\ product' = product /\ r' = r
    BY <1>3 DEF Multiply, ofMult
  <2>2. product = <<>> /\ r = <<0, 0, 0>>
    BY <2>1 DEF VliInv
  <2>3. Multiplying(left, right, <<>>, <<0, 0, 0>>)
    BY <1>t, <2>1, MultiplyStarts
  <2>4. Multiplying(left, right, product, r)
    BY <2>2, <2>3
  <2>5. Multiplying(left', right', product', r')
    BY <1>1, <2>1, <2>4
  <2>. QED BY <1>2, <2>1, <2>5 DEF VliInv
<1>4. CASE NextWord
  <2> DEFINE c == Column(left, right, Len(product), r)
  <2>1. step = "mult" /\ step' = "mult" /\ Len(product) < 2 * num_words - 1
    BY <1>4 DEF NextWord
  <2>2. product' = Append(product, c[1]) /\ r' = <<c[2], c[3], 0>>
    BY <1>4 DEF NextWord
  <2>3. Multiplying(left, right, product, r)
    BY <2>1 DEF VliInv
  <2>c. c = Column(left, right, Len(product), r)
    OBVIOUS
  <2> HIDE DEF c
  <2>4. Multiplying(left, right, Append(product, c[1]), <<c[2], c[3], 0>>)
    BY <1>t, <2>1, <2>3, <2>c, MultiplyTurn
  <2>5. Multiplying(left', right', product', r')
    BY <1>1, <2>2, <2>4
  <2>. QED BY <1>2, <2>1, <2>5 DEF VliInv
<1>5. CASE Multiplied
  <2>1. step = "mult" /\ step' = "multiplied" /\ Len(product) = 2 * num_words - 1 /\ product' = Append(product, r[1])
    BY <1>5 DEF Multiplied
  <2>2. Multiplying(left, right, product, r)
    BY <2>1 DEF VliInv
  <2>3. Value(Append(product, r[1])) = Value(left) * Value(right)
    BY <1>t, <2>1, <2>2, MultiplyEnds
  <2>4. Value(product') = Value(left') * Value(right')
    BY <1>1, <2>1, <2>3
  <2>. QED BY <1>2, <2>1, <2>4 DEF VliInv
<1>. QED BY <1>3, <1>4, <1>5

\* The fast reduction.
LEMMA TermInv == VliInv /\ Term => VliInv'
<1> SUFFICES ASSUME VliInv, Term PROVE VliInv'
  OBVIOUS
<1>1. InputsTyped /\ left' = left /\ right' = right /\ mod' = mod /\ product' = product
      /\ step = "reduce" /\ step' = "reduce" /\ term <= Len(Terms) /\ term' = term + 1
  BY DEF VliInv, Term, inputs
<1>2. InputsTyped'
  BY <1>1 DEF InputsTyped
<1> DEFINE n == Value(left) * Value(right)
           t == Terms[term]
           w1 == [i \in 1 .. 8 |-> IF t.of[i] = 0 THEN 0 ELSE product[t.of[i] + 1]]
           tmp == IF t.twice THEN vli_add(w1, w1) ELSE [words |-> w1, carry |-> 0]
           s == IF t.sign = 1 THEN vli_add(result, tmp.words) ELSE vli_sub(result, tmp.words)
<1>3. result' = s.words /\ carry' = carry + tmp.carry + t.sign * s.carry
  BY DEF Term
<1>4. Reducing(n, mod, product, result, carry, term)
  BY <1>1 DEF VliInv
<1>5. term \in 1 .. 8
  <2>1. term \in 1 .. 9 /\ Len(Terms) = 8
    BY <1>4, TermsAre DEF Reducing
  <2>. QED BY <1>1, <2>1
<1>6. w1 = TermWords(product, term)
  BY DEF TermWords
<1> DEFINE tmp1 == IF t.twice THEN vli_add(TermWords(product, term), TermWords(product, term))
                   ELSE [words |-> TermWords(product, term), carry |-> 0]
<1>7. tmp = tmp1
  <2> HIDE DEF w1
  <2>. QED BY <1>6
<1> HIDE DEF tmp, n
<1>8. TermStep(product, result, carry, term, tmp, s, carry + tmp.carry + t.sign * s.carry)
  BY <1>7 DEF TermStep
<1>9. t.sign = 1 \/ ~t.twice
  BY <1>5, TermsSigned
<1> HIDE DEF s
<1>10. Reducing(n, mod, product, s.words, carry + tmp.carry + t.sign * s.carry, term + 1)
  BY <1>4, <1>5, <1>8, <1>9, TermAdds
<1>11. Reducing(n, mod', product', result', carry', term')
  BY <1>1, <1>3, <1>10
<1>12. n = Value(left') * Value(right')
  BY <1>1 DEF n
<1>13. Reducing(Value(left') * Value(right'), mod', product', result', carry', term')
  BY <1>11, <1>12
<1>. QED BY <1>1, <1>2, <1>13 DEF VliInv

\* It is preserved by the start and the end of the reduction.
LEMMA ReduceInv == VliInv /\ (Reduce \/ Raise \/ Lower \/ Reduced) => VliInv'
<1> SUFFICES ASSUME VliInv, Reduce \/ Raise \/ Lower \/ Reduced PROVE VliInv'
  OBVIOUS
<1>1. InputsTyped /\ left' = left /\ right' = right /\ mod' = mod
  BY DEF VliInv, Reduce, Raise, Lower, Reduced, inputs
<1>2. InputsTyped'
  BY <1>1 DEF InputsTyped
<1> DEFINE n == Value(left) * Value(right)
           n2 == Value(left') * Value(right')
<1>n. n = n2 /\ n \in Int
  BY <1>1, ValuesTyped
<1>3. CASE Reduce
  <2>1. /\ num_words = 8 /\ mod = Words(curve_p) /\ step' = "reduce"
        /\ product' = [i \in 1 .. 16 |-> (n \div place[i - 1]) % W]
        /\ result' = SubSeq(product', 1, 8) /\ carry' = 0 /\ term' = 1
    BY <1>3 DEF Reduce
  <2> DEFINE c == [i \in 1 .. 16 |-> (n \div place[i - 1]) % W]
  <2>2. left \in Vlis(8) /\ right \in Vlis(8)
    BY <1>1, <2>1 DEF InputsTyped
  <2>n. n = Value(left) * Value(right)
    OBVIOUS
  <2>c. c = [i \in 1 .. 16 |-> (n \div place[i - 1]) % W] /\ product' = c
    BY <2>1
  <2> HIDE DEF n, n2
  <2> HIDE DEF c
  <2>3. Reducing(n, mod, c, SubSeq(c, 1, 8), 0, 1)
    BY <2>1, <2>2, <2>n, <2>c, ReduceStarts
  <2>4. result' = SubSeq(c, 1, 8)
    BY <2>1, <2>c
  <2>5. Reducing(n2, mod', product', result', carry', term')
    BY <1>1, <1>n, <2>1, <2>3, <2>4, <2>c
  <2>. QED BY <1>2, <2>1, <2>5 DEF VliInv, n2
<1>l. Len(Terms) = 8
  BY TermsAre
<1>4. CASE Raise
  <2> DEFINE s == vli_add(result, mod)
             cy2 == carry + s.carry
  <2>1. step = "reduce" /\ step' = "reduce" /\ term = 9 /\ UNCHANGED <<product, term>> /\ result' = s.words /\ carry' = cy2
    BY <1>4, <1>l DEF Raise
  <2>2. Reducing(n, mod, product, result, carry, 9)
    BY <2>1 DEF VliInv
  <2>s. s = vli_add(result, mod) /\ cy2 = carry + s.carry
    OBVIOUS
  <2> HIDE DEF n, n2, s, cy2
  <2>3. Reducing(n, mod, product, s.words, cy2, 9)
    BY <1>n, <2>2, <2>s, ReduceMoves
  <2>4. Reducing(n2, mod', product', result', carry', term')
    BY <1>1, <1>n, <2>1, <2>3
  <2>. QED BY <1>2, <2>1, <2>4 DEF VliInv, n2
<1>5. CASE Lower
  <2> DEFINE s == vli_sub(result, mod)
             cy2 == carry - s.carry
  <2>1. step = "reduce" /\ step' = "reduce" /\ term = 9 /\ UNCHANGED <<product, term>> /\ result' = s.words /\ carry' = cy2
    BY <1>5, <1>l DEF Lower
  <2>2. Reducing(n, mod, product, result, carry, 9)
    BY <2>1 DEF VliInv
  <2>s. s = vli_sub(result, mod) /\ cy2 = carry - s.carry
    OBVIOUS
  <2> HIDE DEF n, n2, s, cy2
  <2>3. Reducing(n, mod, product, s.words, cy2, 9)
    BY <1>n, <2>2, <2>s, ReduceMoves
  <2>4. Reducing(n2, mod', product', result', carry', term')
    BY <1>1, <1>n, <2>1, <2>3
  <2>. QED BY <1>2, <2>1, <2>4 DEF VliInv, n2
<1>6. CASE Reduced
  <2>1. step = "reduce" /\ step' = "reduced" /\ term = 9 /\ carry = 0 /\ result' = result /\ cmp_unsafe(mod, result) = 1
    BY <1>6, <1>l DEF Reduced, ofMult
  <2>2. Reducing(n, mod, product, result, 0, 9)
    BY <2>1 DEF VliInv
  <2> HIDE DEF n, n2
  <2>3. Value(result) = n % Value(mod)
    BY <1>n, <2>1, <2>2, ReduceEnds
  <2>4. Value(result') = n2 % Value(mod')
    BY <1>1, <1>n, <2>1, <2>3
  <2>. QED BY <1>2, <2>1, <2>4 DEF VliInv, n2
<1>. QED BY <1>3, <1>4, <1>5, <1>6

\* The inverse.
LEMMA InvertInv == VliInv /\ (Invert \/ Inverted) => VliInv'
<1> SUFFICES ASSUME VliInv, Invert \/ Inverted PROVE VliInv'
  OBVIOUS
<1>1. InputsTyped /\ left' = left /\ mod' = mod
  BY DEF VliInv, Invert, Inverted, inputs
<1>0. Words(0) \in Vlis(num_words) /\ Value(Words(0)) = 0
  <2>1. 0 \in 0 .. Size - 1
    BY <1>1, ValuesTyped
  <2>. QED BY <2>1, WordsAre
<1>2. InputsTyped'
  <2>1. right' = Words(0) \/ right' = right
    BY DEF Invert, Inverted, inputs
  <2>. QED BY <1>0, <1>1, <2>1 DEF InputsTyped
<1>t. left \in Vlis(num_words) /\ mod \in Vlis(num_words)
  BY <1>1 DEF InputsTyped
<1>v. Value(left) \in Nat /\ Value(mod) \in Nat \ {0} /\ Value(mod) \in 1 .. Size - 1
  BY <1>1, ValuesTyped
<1>3. CASE Invert
  <2>1. /\ cmp_unsafe(left, mod) < 0 /\ step' = (IF isZero(left) THEN "inverted" ELSE "inverse")
        /\ a' = left /\ b' = mod /\ u' = (IF isZero(left) THEN left ELSE one) /\ v' = Words(0)
    BY <1>3 DEF Invert
  <2>2. isZero(left) <=> Value(left) = 0
    BY <1>t, ZeroIs
  <2>3. CASE isZero(left)
    <3>1. Value(left') = 0 /\ isZero(u') /\ step' = "inverted"
      BY <1>1, <2>1, <2>2, <2>3
    <3>. QED BY <1>2, <3>1 DEF VliInv
  <2>4. CASE ~isZero(left)
    <3>1. Value(left) < Value(mod)
      <4>1. Value(left) > Value(mod) => cmp_unsafe(left, mod) = 1
        BY <1>t, CmpUnsafeIs
      <4>2. Value(left) = Value(mod) => cmp_unsafe(left, mod) = 0
        BY <1>t, CmpUnsafeIs
      <4>. QED BY <1>v, <2>1, <4>1, <4>2
    <3>2. 1 < Value(mod)
      BY <1>v, <2>2, <2>4, <3>1
    <3>3. one \in Vlis(num_words) /\ Value(one) = 1
      <4>1. 1 \in 0 .. Size - 1
        BY <1>1, <1>v, <3>2, ValuesTyped
      <4>. QED BY <4>1, WordsAre DEF one
    <3> DEFINE l == Value(left)
               m == Value(mod)
    <3>4. Residue(l, l * 1, m)
      <4>1. l * 1 = l + 0 * m /\ 0 \in Int
        BY <1>v
      <4>. QED BY <4>1 DEF Residue
    <3>5. Residue(m, l * 0, m)
      <4>1. l * 0 = m + (-1) * m /\ -1 \in Int
        BY <1>v
      <4>. QED BY <4>1 DEF Residue
    <3>6. a' = left /\ b' = mod /\ u' = one /\ v' = Words(0) /\ step' = "inverse"
      BY <2>1, <2>4
    <3>7. /\ a' \in Vlis(num_words) /\ b' \in Vlis(num_words) /\ u' \in Vlis(num_words) /\ v' \in Vlis(num_words)
          /\ Value(left') # 0 /\ Value(u') < Value(mod') /\ Value(v') < Value(mod')
      <4>1. Value(Words(0)) < Value(mod) /\ Value(one) < Value(mod)
        BY <1>0, <1>v, <3>2, <3>3
      <4>. QED BY <1>0, <1>1, <1>t, <2>2, <2>4, <3>3, <3>6, <4>1
    <3>8. Residue(Value(a'), Value(left') * Value(u'), Value(mod'))
      BY <1>1, <3>3, <3>4, <3>6
    <3>9. Residue(Value(b'), Value(left') * Value(v'), Value(mod'))
      BY <1>0, <1>1, <3>5, <3>6
    <3>10. Inverting'
      BY <3>7, <3>8, <3>9 DEF Inverting
    <3>. QED BY <1>2, <3>6, <3>10 DEF VliInv
  <2>. QED BY <2>3, <2>4
<1>4. CASE Inverted
  <2>1. step = "inverse" /\ step' = "inverted" /\ UNCHANGED <<left, mod, a, b, u, v>>
    BY <1>4 DEF Inverted, inputs, ofInv
  <2>2. Inverting /\ Value(left) # 0
    BY <2>1 DEF VliInv, Inverting
  <2>3. Inverting' /\ Value(left') # 0
    BY <2>1, <2>2 DEF Inverting
  <2>. QED BY <1>2, <2>1, <2>3 DEF VliInv
<1>. QED BY <1>3, <1>4

\* Halves, on either side.
Side(x, y) ==
  /\ x \in Vlis(num_words) /\ y \in Vlis(num_words) /\ Value(y) < Value(mod)
  /\ Residue(Value(x), Value(left) * Value(y), Value(mod))

\* An even side halved.
LEMMA SideHalves ==
  ASSUME InputsTyped, NEW x, NEW y, Side(x, y), Even(x)
  PROVE  Side(rshift1(x), modInv_update(y))
<1> DEFINE m == Value(mod)
           l == Value(left)
           x1 == Value(x)
           y1 == Value(y)
           x2 == Value(rshift1(x))
           y2 == Value(modInv_update(y))
<1>1. x \in Vlis(num_words) /\ y \in Vlis(num_words) /\ y1 < m /\ Residue(x1, l * y1, m)
  BY DEF Side
<1>2. mod \in Vlis(num_words) /\ Odd(m)
  BY DEF InputsTyped
<1>3. rshift1(x) \in Vlis(num_words) /\ 2 * x2 = x1
  BY <1>1, EvenIs
<1>4. /\ modInv_update(y) \in Vlis(num_words) /\ y2 < m
      /\ \E e \in {0, 1} : 2 * y2 = y1 + e * m
  BY <1>1, <1>2, UpdateIs
<1>5. PICK e \in {0, 1} : 2 * y2 = y1 + e * m
  BY <1>4
<1>6. m \in Int /\ l \in Int /\ x1 \in Int /\ y1 \in Int /\ x2 \in Int /\ y2 \in Int /\ e \in Int
  <2>1. /\ x1 \in 0 .. Size - 1 /\ y1 \in 0 .. Size - 1 /\ x2 \in 0 .. Size - 1 /\ y2 \in 0 .. Size - 1
        /\ m \in 0 .. Size - 1 /\ l \in 0 .. Size - 1 /\ Size \in Nat
    BY <1>1, <1>2, <1>3, <1>4, ValueRange, ValuesTyped
  <2>. QED BY <2>1
<1> HIDE DEF m, l, x1, y1, x2, y2
<1>7. Residue(x2, l * y2, m)
  BY <1>1, <1>2, <1>3, <1>5, <1>6, HalfResidue
<1>. QED BY <1>3, <1>4, <1>7 DEF Side, m, l, x2, y2

\* The smaller side subtracted from the greater one, both odd.
LEMMA SidesSubtract ==
  ASSUME InputsTyped, NEW x, NEW y, NEW p, NEW q, Side(x, y), Side(p, q), Value(x) > Value(p), ~Even(x), ~Even(p)
  PROVE  Side(vli_sub(x, p).words, Difference(y, q)) /\ Even(vli_sub(x, p).words)
<1> DEFINE m == Value(mod)
           l == Value(left)
           x1 == Value(x)
           y1 == Value(y)
           p1 == Value(p)
           q1 == Value(q)
           d == vli_sub(x, p).words
           f == vli_sub(x, p).carry
           g == Difference(y, q)
           d1 == Value(d)
           g1 == Value(g)
<1>1. /\ x \in Vlis(num_words) /\ y \in Vlis(num_words) /\ y1 < m /\ Residue(x1, l * y1, m)
      /\ p \in Vlis(num_words) /\ q \in Vlis(num_words) /\ q1 < m /\ Residue(p1, l * q1, m)
  BY DEF Side
<1>2. mod \in Vlis(num_words) /\ left \in Vlis(num_words)
  BY DEF InputsTyped
<1>3. d \in Vlis(num_words) /\ f \in {0, 1} /\ d1 - Size * f = x1 - p1
  BY <1>1, SubIs
<1>4. g \in Vlis(num_words) /\ g1 < m /\ \E e \in {0, 1} : g1 = y1 - q1 + e * m
  BY <1>1, <1>2, DifferenceIs
<1>5. /\ x1 \in 0 .. Size - 1 /\ y1 \in 0 .. Size - 1 /\ p1 \in 0 .. Size - 1 /\ q1 \in 0 .. Size - 1
      /\ d1 \in 0 .. Size - 1 /\ g1 \in 0 .. Size - 1 /\ m \in 0 .. Size - 1 /\ l \in 0 .. Size - 1 /\ Size \in Nat
  BY <1>1, <1>2, <1>3, <1>4, ValueRange
<1>6. 2 * Value(rshift1(x)) + 1 = x1 /\ 2 * Value(rshift1(p)) + 1 = p1
  BY <1>1, EvenIs
<1>7. /\ Value(rshift1(x)) \in 0 .. Size - 1 /\ Value(rshift1(p)) \in 0 .. Size - 1 /\ Value(rshift1(d)) \in 0 .. Size - 1
  BY <1>1, <1>3, EvenIs, ValueRange
<1>8. ~Even(d) => 2 * Value(rshift1(d)) + 1 = d1
  BY <1>3, EvenIs
<1>9. PICK e \in {0, 1} : g1 = y1 - q1 + e * m
  BY <1>4
<1>10. x1 > p1
  OBVIOUS
<1> DEFINE h1 == Value(rshift1(x))
           h2 == Value(rshift1(p))
           h3 == Value(rshift1(d))
<1> HIDE DEF m, l, x1, y1, p1, q1, d, f, g, d1, g1, h1, h2, h3
<1>11. d1 = x1 - p1
  <2>1. CASE f = 0
    BY <1>3, <1>5, <2>1
  <2>2. CASE f = 1
    BY <1>3, <1>5, <1>10, <2>2
  <2>. QED BY <1>3, <2>1, <2>2
<1>12. Even(d)
  <2> SUFFICES ASSUME ~Even(d) PROVE FALSE
    OBVIOUS
  <2>1. 2 * h3 + 1 = (2 * h1 + 1) - (2 * h2 + 1)
    BY <1>5, <1>6, <1>8, <1>11 DEF h1, h2, h3
  <2>2. h1 \in Int /\ h2 \in Int /\ h3 \in Int
    BY <1>5, <1>7 DEF h1, h2, h3
  <2>. QED BY <2>1, <2>2
<1>13. Residue(d1, l * g1, m)
  <2>1. /\ m \in Int /\ l \in Int /\ y1 \in Int /\ x1 \in Int /\ q1 \in Int /\ p1 \in Int /\ e \in Int
    BY <1>5
  <2>2. Residue(x1 - p1, l * (y1 - q1 + e * m), m)
    BY <1>1, <2>1, ResidueSubtracts
  <2>. QED BY <1>9, <1>11, <2>2
<1>14. Side(d, g)
  BY <1>3, <1>4, <1>13 DEF Side, m, l, d1, g1
<1>. QED BY <1>12, <1>14 DEF d, g

\* A turn of the loop of uECC_vli_modInv preserves VliInv.
LEMMA TurnInv == VliInv /\ Turn => VliInv'
<1> SUFFICES ASSUME VliInv, Turn PROVE VliInv'
  OBVIOUS
<1>1. InputsTyped /\ step = "inverse" /\ step' = "inverse" /\ left' = left /\ right' = right /\ mod' = mod
  BY DEF VliInv, Turn, inputs
<1>2. InputsTyped'
  BY <1>1 DEF InputsTyped
<1>3. Side(a, u) /\ Side(b, v) /\ Value(left) # 0
  BY <1>1 DEF VliInv, Inverting, Side
<1>s. SUFFICES Side(a', u') /\ Side(b', v')
  <2>1. Side(a', u') /\ Side(b', v') => Inverting'
    BY <1>1, <1>3 DEF Side, Inverting
  <2>. QED BY <1>1, <1>2, <2>1 DEF VliInv
<1>4. CASE Even(a) /\ a' = rshift1(a) /\ u' = modInv_update(u) /\ UNCHANGED <<b, v>>
  <2>1. Side(rshift1(a), modInv_update(u))
    BY <1>1, <1>3, <1>4, SideHalves
  <2>. QED BY <1>3, <1>4, <2>1
<1>5. CASE ~Even(a) /\ Even(b) /\ b' = rshift1(b) /\ v' = modInv_update(v) /\ UNCHANGED <<a, u>>
  <2>1. Side(rshift1(b), modInv_update(v))
    BY <1>1, <1>3, <1>5, SideHalves
  <2>. QED BY <1>3, <1>5, <2>1
<1>t. a \in Vlis(num_words) /\ b \in Vlis(num_words)
  BY <1>3 DEF Side
<1>v. Value(a) \in Int /\ Value(b) \in Int
  <2>1. Value(a) \in 0 .. Size - 1 /\ Value(b) \in 0 .. Size - 1 /\ Size \in Nat \ {0}
    BY <1>t, ValueRange
  <2>. QED BY <2>1
<1>c. /\ Value(a) > Value(b) => cmp_unsafe(a, b) = 1
      /\ Value(a) < Value(b) => cmp_unsafe(a, b) = -1
      /\ Value(a) = Value(b) => cmp_unsafe(a, b) = 0
  BY <1>t, CmpUnsafeIs
<1>6. CASE /\ ~Even(a) /\ ~Even(b) /\ cmp_unsafe(a, b) > 0
           /\ a' = rshift1(vli_sub(a, b).words) /\ u' = modInv_update(Difference(u, v)) /\ UNCHANGED <<b, v>>
  <2>1. Value(a) > Value(b)
    BY <1>6, <1>c, <1>v
  <2> DEFINE d == vli_sub(a, b).words
             g == Difference(u, v)
  <2>2. Side(d, g) /\ Even(d)
    BY <1>1, <1>3, <1>6, <2>1, SidesSubtract
  <2>3. a' = rshift1(d) /\ u' = modInv_update(g) /\ UNCHANGED <<b, v>>
    BY <1>6
  <2> HIDE DEF d, g
  <2>4. Side(rshift1(d), modInv_update(g))
    BY <1>1, <2>2, SideHalves
  <2>. QED BY <1>3, <2>3, <2>4
<1>7. CASE /\ ~Even(a) /\ ~Even(b) /\ cmp_unsafe(a, b) < 0
           /\ b' = rshift1(vli_sub(b, a).words) /\ v' = modInv_update(Difference(v, u)) /\ UNCHANGED <<a, u>>
  <2>1. Value(b) > Value(a)
    BY <1>7, <1>c, <1>v
  <2> DEFINE d == vli_sub(b, a).words
             g == Difference(v, u)
  <2>2. Side(d, g) /\ Even(d)
    BY <1>1, <1>3, <1>7, <2>1, SidesSubtract
  <2>3. b' = rshift1(d) /\ v' = modInv_update(g) /\ UNCHANGED <<a, u>>
    BY <1>7
  <2> HIDE DEF d, g
  <2>4. Side(rshift1(d), modInv_update(g))
    BY <1>1, <2>2, SideHalves
  <2>. QED BY <1>3, <2>3, <2>4
<1>. QED BY <1>4, <1>5, <1>6, <1>7 DEF Turn

\* Rest preserves VliInv.
LEMMA RestInv == VliInv /\ UNCHANGED vliVars => VliInv'
BY DEF VliInv, InputsTyped, Inverting, vliVars, inputs, ofMult, ofInv

\* Every step preserves VliInv.
LEMMA NextInv == VliInv /\ [VliNext]_vliVars => VliInv'
BY MultiplyInv, TermInv, ReduceInv, InvertInv, TurnInv, RestInv DEF VliNext

\* The invariant says what the words compute.
LEMMA InvComputes == VliInv => WordsCompute
<1> SUFFICES ASSUME VliInv PROVE WordsCompute
  OBVIOUS
<1> DEFINE l == Value(left)
           k == Value(right)
           m == Value(mod)
           Congruent(x, y) == (x - y) % m = 0
<1>1. InputsTyped
  BY DEF VliInv
<1>2. l \in Nat /\ k \in Nat /\ m \in Nat \ {0} /\ l * k \in Nat
  BY <1>1, ValuesTyped
<1>3. step = "start" => StepsCompute
  BY <1>1, StepsAre DEF InputsTyped
<1>4. step = "multiplied" => Value(product) = l * k
  BY DEF VliInv
<1>5. ASSUME step = "reduce", term > Len(Terms) PROVE Congruent(Value(result) + Size * carry, l * k)
  <2> DEFINE n == l * k
             x == Value(result) + Size * carry
  <2>1. Reducing(n, mod, product, result, carry, term)
    BY <1>5 DEF VliInv
  <2>2. term = 9
    <3>1. term \in 1 .. 9 /\ Len(Terms) = 8
      BY <2>1, TermsAre DEF Reducing
    <3>. QED BY <1>5, <3>1
  <2>3. /\ num_words = 8 /\ mod \in Vlis(8) /\ m = curve_p /\ result \in Vlis(num_words) /\ carry \in Int
        /\ Residue(x, n, m)
    BY <2>1, <2>2 DEF Reducing
  <2>4. x \in Int
    <3>1. Value(result) \in 0 .. Size - 1 /\ Size \in Nat \ {0}
      BY <2>3, ValueRange
    <3>. QED BY <2>3, <3>1
  <2>5. n \in Int
    BY <1>2
  <2> HIDE DEF n, x, m
  <2>6. (x - n) % m = 0
    BY <1>2, <2>3, <2>4, <2>5, ResidueIs
  <2>. QED BY <2>6 DEF n, x, m
<1>6. step = "reduced" => Value(result) = (l * k) % m
  BY DEF VliInv
<1>7. ASSUME Inverting PROVE Congruent(l * Value(u), Value(a)) /\ Congruent(l * Value(v), Value(b))
  <2>1. /\ a \in Vlis(num_words) /\ b \in Vlis(num_words) /\ u \in Vlis(num_words) /\ v \in Vlis(num_words)
        /\ Residue(Value(a), l * Value(u), m) /\ Residue(Value(b), l * Value(v), m)
    BY <1>7 DEF Inverting
  <2> DEFINE a1 == Value(a)
             b1 == Value(b)
             n1 == l * Value(u)
             n2 == l * Value(v)
  <2>2. a1 \in Int /\ b1 \in Int /\ n1 \in Int /\ n2 \in Int
    <3>1. /\ Value(a) \in 0 .. Size - 1 /\ Value(b) \in 0 .. Size - 1
          /\ Value(u) \in 0 .. Size - 1 /\ Value(v) \in 0 .. Size - 1 /\ Size \in Nat \ {0}
      BY <2>1, ValueRange
    <3>. QED BY <1>2, <3>1
  <2>3. Residue(a1, n1, m) /\ Residue(b1, n2, m)
    BY <2>1
  <2> HIDE DEF a1, b1, n1, n2, m
  <2>4. (n1 - a1) % m = 0 /\ (n2 - b1) % m = 0
    BY <1>2, <2>2, <2>3, ResidueBack
  <2>. QED BY <2>4 DEF a1, b1, n1, n2, m
<1>8. step = "inverse" => Congruent(l * Value(u), Value(a)) /\ Congruent(l * Value(v), Value(b))
  BY <1>7 DEF VliInv
<1>9. step = "inverted" =>
        IF l = 0 THEN isZero(u) ELSE Value(u) < m /\ (Value(a) = 1 => Congruent(l * Value(u), 1))
  <2> SUFFICES ASSUME step = "inverted"
               PROVE  IF l = 0 THEN isZero(u) ELSE Value(u) < m /\ (Value(a) = 1 => Congruent(l * Value(u), 1))
    OBVIOUS
  <2>1. CASE l = 0
    BY <2>1 DEF VliInv
  <2>2. CASE l # 0
    <3>1. Inverting
      BY <2>2 DEF VliInv
    <3>2. Value(u) < m
      BY <3>1 DEF Inverting
    <3>. QED BY <1>7, <2>2, <3>1, <3>2
  <2>. QED BY <2>1, <2>2
<1>. QED BY <1>3, <1>4, <1>5, <1>6, <1>8, <1>9 DEF WordsCompute

\* For every size of a word and of a byte, every number of words, odd modulus and inputs, the
\* operations of uECC.c on words are those on the integers that the words stand for: sums and
\* differences with carry and borrow, shift, comparisons, bits, bytes, modAdd and modSub, the
\* product, the fast reduction modulo curve_p and the inverse.
THEOREM WordsComputeAlways == VliSpec => []WordsCompute
<1>1. VliInit => VliInv
  BY InitInv
<1>2. VliInv /\ [VliNext]_vliVars => VliInv'
  BY NextInv
<1>3. VliInv => WordsCompute
  BY InvComputes
<1>. QED BY <1>1, <1>2, <1>3, PTL DEF VliSpec

=============================================================================
