-------------------------------- MODULE Vli --------------------------------
(***************************************************************************)
(* The arithmetic on very large integers of uECC.c and the fast reduction  *)
(* of curve-specific.inc, word by word, for words of any size and, except  *)
(* for the reduction, any number.  A number is a sequence of words, least  *)
(* significant first: word i of the code is word i + 1 here.  The fast     *)
(* reduction and the loop of uECC_vli_modInv are steps.                    *)
(***************************************************************************)
EXTENDS Integers, Sequences

CONSTANTS
  WORD_BITS,       \* uECC_WORD_BITS, 32 in the program
  BYTE_BITS,       \* 8 in the program
  num_words,       \* 8 in the program
  Moduli,          \* odd numbers to compute modulo
  Numbers          \* inputs

\* Powers of 2, the number of a word's values, and its powers
two[k \in 0 .. num_words * WORD_BITS] == IF k = 0 THEN 1 ELSE 2 * two[k - 1]
W == two[WORD_BITS]
place[i \in 0 .. 2 * num_words] == IF i = 0 THEN 1 ELSE W * place[i - 1]
Size == place[num_words]

\* A word is made of bytes, and num_words words hold the numbers.
VliAssumption ==
  /\ WORD_BITS \in Nat \ {0} /\ BYTE_BITS \in Nat \ {0} /\ num_words \in Nat \ {0}
  /\ WORD_BITS % BYTE_BITS = 0
  /\ Numbers \subseteq 0 .. Size - 1 /\ Moduli \subseteq 1 .. Size - 1 /\ \A m \in Moduli : m % 2 = 1
ASSUME VliInputs == VliAssumption

Words(n) == [i \in 1 .. num_words |-> (n \div place[i - 1]) % W]
Value(vli) ==
  LET value[i \in 0 .. Len(vli)] == IF i = 0 THEN 0 ELSE value[i - 1] + vli[i] * place[i - 1]
  IN  value[Len(vli)]
Bit(condition) == IF condition THEN 1 ELSE 0

-----------------------------------------------------------------------------
(* Integers.                                                               *)

isZero(vli) == \A i \in DOMAIN vli : vli[i] = 0
testBit(vli, bit) == (vli[bit \div WORD_BITS + 1] \div two[bit % WORD_BITS]) % 2 = 1
numDigits(vli) ==
  CHOOSE digits \in 0 .. Len(vli) : (digits > 0 => vli[digits] # 0) /\ \A j \in digits + 1 .. Len(vli) : vli[j] = 0
numBits(vli) ==
  LET digits == numDigits(vli)
  IN  IF digits = 0 THEN 0
      ELSE (digits - 1) * WORD_BITS
           + CHOOSE bits \in 0 .. WORD_BITS : vli[digits] < two[bits] /\ \A k \in 0 .. bits - 1 : vli[digits] >= two[k]

\* The sign of left - right, from the first words that differ.
cmp_unsafe(left, right) ==
  IF left = right THEN 0
  ELSE LET i == CHOOSE j \in DOMAIN left : left[j] # right[j] /\ \A k \in j + 1 .. Len(left) : left[k] = right[k]
       IN  IF left[i] > right[i] THEN 1 ELSE -1

\* Mutant: the carry of a word whose sum is the word itself is forgotten.
CarryLost(left, right) ==
  LET carry[i \in 0 .. num_words] ==
        IF i = 0 THEN 0 ELSE Bit((left[i] + right[i] + carry[i - 1]) % W < left[i])
  IN  [carry |-> carry[num_words], words |-> [i \in 1 .. num_words |-> (left[i] + right[i] + carry[i - 1]) % W]]

\* Sum and carry.  A word that the sum leaves as it was passes the carry on.
vli_add(left, right) ==
  LET carry[i \in 0 .. num_words] ==
        IF i = 0 THEN 0
        ELSE LET before == carry[i - 1] sum == (left[i] + right[i] + before) % W
             IN  IF sum # left[i] THEN Bit(sum < left[i]) ELSE before
  IN  [carry |-> carry[num_words], words |-> [i \in 1 .. num_words |-> (left[i] + right[i] + carry[i - 1]) % W]]

\* Difference and borrow, which is called carry here too
vli_sub(left, right) ==
  LET carry[i \in 0 .. num_words] ==
        IF i = 0 THEN 0
        ELSE LET before == carry[i - 1] diff == (left[i] - right[i] - before) % W
             IN  IF diff # left[i] THEN Bit(diff > left[i]) ELSE before
  IN  [carry |-> carry[num_words], words |-> [i \in 1 .. num_words |-> (left[i] - right[i] - carry[i - 1]) % W]]

\* The sign again, from the borrow and the difference.
cmp(left, right) == LET d == vli_sub(left, right) IN Bit(~isZero(d.words)) - 2 * d.carry

rshift1(vli) ==
  [i \in DOMAIN vli |-> vli[i] \div 2 + IF i < Len(vli) THEN (vli[i + 1] * two[WORD_BITS - 1]) % W ELSE 0]

\* acc = <<r0, r1, r2>> plus a product, the carry found by comparison
muladd(x, y, acc) ==
  LET p == x * y
      r01 == (acc[2] * W + acc[1] + p) % (W * W)
  IN  <<r01 % W, r01 \div W, (acc[3] + Bit(r01 < p)) % W>>

\* Column k of the product: all left[i] * right[k - i] on top of the carries r.
Column(x, y, k, acc) ==
  LET t[i \in 0 .. num_words] ==
        IF i = 0 THEN acc
        ELSE IF k + 1 - i \in 0 .. num_words - 1 THEN muladd(x[i], y[k + 2 - i], t[i - 1]) ELSE t[i - 1]
  IN  t[num_words]

-----------------------------------------------------------------------------
(* Residues.                                                               *)

modAdd(left, right, mod) ==
  LET sum == vli_add(left, right)
  IN  IF sum.carry = 1 \/ cmp_unsafe(mod, sum.words) # 1 THEN vli_sub(sum.words, mod).words ELSE sum.words

modSub(left, right, mod) ==
  LET diff == vli_sub(left, right)
  IN  IF diff.carry = 1 THEN vli_add(diff.words, mod).words ELSE diff.words

-----------------------------------------------------------------------------
(* Bytes: most significant first, several to a word.                       *)

PerWord == WORD_BITS \div BYTE_BITS
num_bytes == num_words * PerWord
nativeToBytes(native) ==
  [i \in 1 .. num_bytes |-> LET k == num_bytes - i
                            IN  (native[k \div PerWord + 1] \div two[BYTE_BITS * (k % PerWord)]) % two[BYTE_BITS]]
bytesToNative(bytes) ==
  [w \in 1 .. num_words |->
     LET s[k \in 0 .. PerWord] ==
           IF k = 0 THEN 0
           ELSE s[k - 1] + bytes[num_bytes - ((w - 1) * PerWord + k - 1)] * two[BYTE_BITS * (k - 1)]
     IN  s[PerWord]]

-----------------------------------------------------------------------------
VARIABLES
  step,                     \* "start", "mult", "multiplied", "reduce", "reduced", "inverse", "inverted"
  left, right, mod,         \* the inputs; the inverse is that of left
  product, r,               \* uECC_vli_mult: the words so far, and r0, r1, r2
  result, carry, term,      \* vli_mmod_fast_secp256r1
  a, b, u, v                \* uECC_vli_modInv; u is the result

inputs == <<left, right, mod>>
ofMult == <<product, r, result, carry, term>>
ofInv == <<a, b, u, v>>
vliVars == <<step, inputs, ofMult, ofInv>>

VliInit ==
  /\ step = "start" /\ mod \in {Words(m) : m \in Moduli}
  /\ left \in {Words(m) : m \in Numbers} /\ right \in {Words(m) : m \in Numbers}
  /\ product = <<>> /\ r = <<0, 0, 0>> /\ result = <<>> /\ carry = 0 /\ term = 0
  /\ a = <<>> /\ b = <<>> /\ u = <<>> /\ v = <<>>

-----------------------------------------------------------------------------
(* uECC_vli_modMult_fast, for curve_p = W^8 - W^7 + W^6 + W^3 - 1.         *)

curve_p == place[8] - place[7] + place[6] + place[3] - 1

\* What is added and subtracted: the words of the product from the least significant one;
\* 0, a word of the product that is in the result already, stands for an empty word.
Terms ==
  <<[twice |-> TRUE, sign |-> 1, of |-> <<0, 0, 0, 11, 12, 13, 14, 15>>],
    [twice |-> TRUE, sign |-> 1, of |-> <<0, 0, 0, 12, 13, 14, 15, 0>>],
    [twice |-> FALSE, sign |-> 1, of |-> <<8, 9, 10, 0, 0, 0, 14, 15>>],
    [twice |-> FALSE, sign |-> 1, of |-> <<9, 10, 11, 13, 14, 15, 13, 8>>],
    [twice |-> FALSE, sign |-> -1, of |-> <<11, 12, 13, 0, 0, 0, 8, 10>>],
    [twice |-> FALSE, sign |-> -1, of |-> <<12, 13, 14, 15, 0, 0, 9, 11>>],
    [twice |-> FALSE, sign |-> -1, of |-> <<13, 14, 15, 8, 9, 10, 0, 12>>],
    [twice |-> FALSE, sign |-> -1, of |-> <<14, 15, 0, 9, 10, 11, 0, 13>>]>>

\* As in the program, there are fewer words than a word counts, so that r2 has room.
Multiply ==
  /\ step = "start" /\ num_words < W /\ step' = "mult"
  /\ UNCHANGED <<inputs, ofMult, ofInv>>

\* A turn of the loops of uECC_vli_mult, and its last word
NextWord ==
  /\ step = "mult" /\ Len(product) < 2 * num_words - 1
  /\ LET c == Column(left, right, Len(product), r)
     IN  product' = Append(product, c[1]) /\ r' = <<c[2], c[3], 0>>
  /\ UNCHANGED <<step, inputs, result, carry, term, ofInv>>

Multiplied ==
  /\ step = "mult" /\ Len(product) = 2 * num_words - 1
  /\ product' = Append(product, r[1]) /\ r' = <<0, 0, 0>> /\ step' = "multiplied"
  /\ UNCHANGED <<inputs, result, carry, term, ofInv>>

\* vli_mmod_fast_secp256r1 begins with a product, here of eight words each.
Reduce ==
  /\ step = "start" /\ num_words = 8 /\ mod = Words(curve_p) /\ step' = "reduce"
  /\ product' = [i \in 1 .. 16 |-> ((Value(left) * Value(right)) \div place[i - 1]) % W]
  /\ result' = SubSeq(product', 1, 8) /\ carry' = 0 /\ term' = 1
  /\ UNCHANGED <<inputs, r, ofInv>>

Term ==
  /\ step = "reduce" /\ term <= Len(Terms) /\ term' = term + 1
  /\ LET t == Terms[term]
         words == [i \in 1 .. 8 |-> IF t.of[i] = 0 THEN 0 ELSE product[t.of[i] + 1]]
         tmp == IF t.twice THEN vli_add(words, words) ELSE [words |-> words, carry |-> 0]
         s == IF t.sign = 1 THEN vli_add(result, tmp.words) ELSE vli_sub(result, tmp.words)
     IN  result' = s.words /\ carry' = carry + tmp.carry + t.sign * s.carry
  /\ UNCHANGED <<step, inputs, product, r, ofInv>>

\* The loops at the end: the modulus is added, or subtracted, until 0 <= result < curve_p.
Raise ==
  /\ step = "reduce" /\ term = Len(Terms) + 1 /\ carry < 0
  /\ LET s == vli_add(result, mod) IN result' = s.words /\ carry' = carry + s.carry
  /\ UNCHANGED <<step, inputs, product, r, term, ofInv>>

Lower ==
  /\ step = "reduce" /\ term = Len(Terms) + 1 /\ carry >= 0
  /\ carry # 0 \/ cmp_unsafe(mod, result) # 1
  /\ LET s == vli_sub(result, mod) IN result' = s.words /\ carry' = carry - s.carry
  /\ UNCHANGED <<step, inputs, product, r, term, ofInv>>

Reduced ==
  /\ step = "reduce" /\ term = Len(Terms) + 1 /\ carry = 0 /\ cmp_unsafe(mod, result) = 1
  /\ step' = "reduced" /\ UNCHANGED <<inputs, ofMult, ofInv>>

-----------------------------------------------------------------------------
(* uECC_vli_modInv, for a residue.                                         *)

one == Words(1)
Even(vli) == vli[1] % 2 = 0

\* vli_modInv_update: uv / 2 modulo mod; the carry comes back as the highest bit.
modInv_update(uv) ==
  IF Even(uv) THEN rshift1(uv)
  ELSE LET s == vli_add(uv, mod) IN [rshift1(s.words) EXCEPT ![num_words] = @ + s.carry * two[WORD_BITS - 1]]

\* u - v, modulo mod
Difference(x, y) == vli_sub(IF cmp_unsafe(x, y) < 0 THEN vli_add(x, mod).words ELSE x, y).words

Invert ==
  /\ step = "start" /\ cmp_unsafe(left, mod) < 0 /\ right' = Words(0)
  /\ step' = IF isZero(left) THEN "inverted" ELSE "inverse"
  /\ a' = left /\ b' = mod /\ u' = (IF isZero(left) THEN left ELSE one) /\ v' = Words(0)
  /\ UNCHANGED <<left, mod, ofMult>>

Turn ==
  /\ step = "inverse" /\ a # b /\ UNCHANGED <<step, inputs, ofMult>>
  /\ \/ Even(a) /\ a' = rshift1(a) /\ u' = modInv_update(u) /\ UNCHANGED <<b, v>>
     \/ ~Even(a) /\ Even(b) /\ b' = rshift1(b) /\ v' = modInv_update(v) /\ UNCHANGED <<a, u>>
     \/ /\ ~Even(a) /\ ~Even(b) /\ cmp_unsafe(a, b) > 0
        /\ a' = rshift1(vli_sub(a, b).words) /\ u' = modInv_update(Difference(u, v)) /\ UNCHANGED <<b, v>>
     \/ /\ ~Even(a) /\ ~Even(b) /\ cmp_unsafe(a, b) < 0
        /\ b' = rshift1(vli_sub(b, a).words) /\ v' = modInv_update(Difference(v, u)) /\ UNCHANGED <<a, u>>

Inverted == step = "inverse" /\ a = b /\ step' = "inverted" /\ UNCHANGED <<inputs, ofMult, ofInv>>

VliNext == Multiply \/ NextWord \/ Multiplied \/ Reduce \/ Term \/ Raise \/ Lower \/ Reduced \/ Invert \/ Turn \/ Inverted

VliSpec == VliInit /\ [][VliNext]_vliVars

-----------------------------------------------------------------------------
(* Properties.                                                             *)

\* Before a product or an inverse: the operations that they are made of.
StepsCompute ==
  LET l == Value(left) k == Value(right) m == Value(mod)
      sum == vli_add(left, right) diff == vli_sub(left, right)
  IN  /\ Value(sum.words) + Size * sum.carry = l + k
      /\ Value(diff.words) - Size * diff.carry = l - k
      /\ Value(rshift1(left)) = l \div 2
      /\ cmp(left, right) = Bit(l > k) - Bit(l < k) /\ cmp_unsafe(left, right) = cmp(left, right)
      /\ two[numBits(left)] > l /\ (l > 0 => l >= two[numBits(left) - 1])
      /\ \A bit \in 0 .. num_words * WORD_BITS - 1 : testBit(left, bit) = ((l \div two[bit]) % 2 = 1)
      /\ bytesToNative(nativeToBytes(left)) = left
      /\ l < m /\ k < m =>
           Value(modAdd(left, right, mod)) = (l + k) % m /\ Value(modSub(left, right, mod)) = (l - k) % m

\* Each operation on words is that on the integers that they stand for, with its carry or
\* borrow, and sums and differences modulo mod are for residues.  The fast reduction keeps
\* the residue of the product with every term, and ends with it.  On the way to the inverse
\* a and b keep the multiples of left that u and v say, so that the end is the inverse,
\* wherever there is one, and zero for zero.
WordsCompute ==
  LET l == Value(left) m == Value(mod)
      Congruent(x, y) == (x - y) % m = 0
  IN  /\ step = "start" => StepsCompute
      /\ step = "multiplied" => Value(product) = l * Value(right)
      /\ step = "reduce" /\ term > Len(Terms) => Congruent(Value(result) + Size * carry, l * Value(right))
      /\ step = "reduced" => Value(result) = (l * Value(right)) % m
      /\ step = "inverse" => Congruent(l * Value(u), Value(a)) /\ Congruent(l * Value(v), Value(b))
      /\ step = "inverted" =>
           IF l = 0 THEN isZero(u)
           ELSE Value(u) < m /\ (Value(a) = 1 => Congruent(l * Value(u), 1))
=============================================================================
