-------------------------- MODULE Algorithms_proofs --------------------------
(***************************************************************************)
(* Proofs about CCM, AES, CMAC and the QR code's text, each in its         *)
(* instance.  What a loop has computed after each of its turns is the      *)
(* inductive invariant.  The induction over data is the least              *)
(* counterexample's (UpTo): a set of numbers, never an operator, is what   *)
(* the lemmas are about; Loop gives the partial results of a recursion.    *)
(***************************************************************************)
EXTENDS Algorithms, NaturalsInduction, WellFoundedInduction, TLAPS

-----------------------------------------------------------------------------
(* Induction, division, bytes.                                             *)

\* Induction up to n, for the set of the numbers for which something holds.
LEMMA UpTo ==
  ASSUME NEW n \in Nat, NEW S, 0 \in S, \A i \in 1 .. n : i - 1 \in S => i \in S
  PROVE  \A i \in 0 .. n : i \in S
<1> DEFINE Bad == {i \in 0 .. n : i \notin S}
<1> SUFFICES ASSUME Bad # {} PROVE FALSE
  OBVIOUS
<1>1. PICK x \in Bad : \A z \in Bad : ~ (<<z, x>> \in OpToRel(<, Nat))
  <2>1. Bad \in SUBSET Nat
    OBVIOUS
  <2> HIDE DEF Bad
  <2>. QED BY <2>1, NatLessThanWellFounded, WFMin
<1>2. \A z \in Bad : ~(z < x)
  <2> SUFFICES ASSUME NEW z \in Bad, z < x PROVE FALSE
    OBVIOUS
  <2>1. <<z, x>> \in Nat \X Nat /\ z \in Nat /\ x \in Nat
    OBVIOUS
  <2>2. <<z, x>> \in OpToRel(<, Nat)
    BY <2>1 DEF OpToRel
  <2>. QED BY <1>1, <2>2
<1>3. x \in 1 .. n /\ x - 1 \in 0 .. n
  OBVIOUS
<1>4. x - 1 \in S
  <2>1. x - 1 < x
    BY <1>3
  <2>. QED BY <1>2, <1>3, <2>1
<1>. QED BY <1>3, <1>4

\* A loop of n turns over S has its partial results.
IsLoop(f, n, S, base, turn) ==
  f \in [0 .. n -> S] /\ f[0] = base /\ \A i \in 1 .. n : f[i] = turn[<<i, f[i - 1]>>]

LEMMA Loop ==
  ASSUME NEW n \in Nat, NEW S, NEW base \in S, NEW turn \in [(1 .. n) \X S -> S]
  PROVE  \E f : IsLoop(f, n, S, base, turn)
<1> DEFINE Ok(m) == \E f : IsLoop(f, m, S, base, turn)
           T == {m \in 0 .. n : Ok(m)}
<1>1. 0 \in T
  <2>1. IsLoop([i \in 0 .. 0 |-> base], 0, S, base, turn)
    BY DEF IsLoop
  <2>2. Ok(0)
    BY <2>1
  <2>. QED BY <2>2
<1>2. ASSUME NEW m \in 1 .. n, m - 1 \in T PROVE m \in T
  <2>1. PICK f : IsLoop(f, m - 1, S, base, turn)
    BY <1>2
  <2>9. f \in [0 .. m - 1 -> S] /\ f[0] = base /\ \A i \in 1 .. m - 1 : f[i] = turn[<<i, f[i - 1]>>]
    BY <2>1 DEF IsLoop
  <2> DEFINE g == [i \in 0 .. m |-> IF i = m THEN turn[<<m, f[m - 1]>>] ELSE f[i]]
  <2>2. turn[<<m, f[m - 1]>>] \in S
    BY <2>9
  <2>3. g \in [0 .. m -> S] /\ g[0] = base
    BY <2>9, <2>2
  <2>4. ASSUME NEW i \in 1 .. m PROVE g[i] = turn[<<i, g[i - 1]>>]
    <3>1. g[i - 1] = f[i - 1]
      OBVIOUS
    <3>2. CASE i = m
      <4>1. g[m] = turn[<<m, f[m - 1]>>] /\ f[m - 1] = g[m - 1]
        BY <3>1, <3>2
      <4> HIDE DEF g
      <4>. QED BY <3>2, <4>1
    <3>3. CASE i \in 1 .. m - 1
      BY <2>9, <3>1, <3>3
    <3>. QED BY <3>2, <3>3
  <2> HIDE DEF g
  <2>5. IsLoop(g, m, S, base, turn)
    BY <2>3, <2>4 DEF IsLoop
  <2>6. Ok(m)
    BY <2>5
  <2>. QED BY <2>6
<1> HIDE DEF T
<1>3. \A m \in 0 .. n : m \in T
  BY <1>1, <1>2, UpTo
<1>4. n \in T
  BY <1>3
<1>. QED BY <1>4 DEF T

LEMMA DivMod ==
  ASSUME NEW d \in Nat \ {0}, NEW n \in Nat
  PROVE  n \div d \in Nat /\ n % d \in 0 .. d - 1 /\ n = d * (n \div d) + (n % d)
  OBVIOUS
LEMMA Multiples ==
  ASSUME NEW d \in Nat \ {0}, NEW a \in Int, NEW b \in Int, a < b
  PROVE  d * a + d <= d * b
<1>1. b - a - 1 \in Nat
  OBVIOUS
<1>2. d * (b - a - 1) \in Nat
  BY <1>1
<1>3. d * (b - a - 1) = d * b - d * a - d
  OBVIOUS
<1>. QED BY <1>2, <1>3
LEMMA DivIs ==
  ASSUME NEW d \in Nat \ {0}, NEW q \in Int, NEW r \in 0 .. d - 1
  PROVE  (d * q + r) \div d = q /\ (d * q + r) % d = r
<1> DEFINE n == d * q + r
           k == n \div d
           s == n % d
<1>1. k \in Int /\ s \in 0 .. d - 1 /\ n = d * k + s
  OBVIOUS
<1>2. d * q \in Int /\ d * k \in Int /\ d * k + s = d * q + r
  BY <1>1
<1> HIDE DEF k, s, n
<1>3. k = q
  <2>1. CASE k < q
    <3>1. d * k + d <= d * q
      BY <1>1, <2>1, Multiples
    <3>. QED BY <1>1, <1>2, <3>1
  <2>2. CASE q < k
    <3>1. d * q + d <= d * k
      BY <1>1, <2>2, Multiples
    <3>. QED BY <1>1, <1>2, <3>1
  <2>. QED BY <1>1, <2>1, <2>2
<1>4. s = r
  BY <1>1, <1>2, <1>3
<1>. QED BY <1>3, <1>4 DEF k, s, n

BitString == [1 .. 8 -> {0, 1}]
LEMMA BitsTyped == ASSUME NEW b \in Byte PROVE Bits(b) \in BitString /\ FromBits(Bits(b)) = b
  BY SMTT(40) DEF Bits, FromBits, BitString, Byte
LEMMA BitsBack == ASSUME NEW s \in BitString PROVE FromBits(s) \in Byte /\ Bits(FromBits(s)) = s
<1>1. \A j \in 1 .. 8 : s[j] \in {0, 1}
  BY DEF BitString
<1>2. /\ s[1] \in {0,1} /\ s[2] \in {0,1} /\ s[3] \in {0,1} /\ s[4] \in {0,1}
      /\ s[5] \in {0,1} /\ s[6] \in {0,1} /\ s[7] \in {0,1} /\ s[8] \in {0,1}
  BY <1>1
<1>3. FromBits(s) \in Byte
  BY <1>2 DEF FromBits, Byte
<1>4. /\ FromBits(s) % 2 = s[1] /\ (FromBits(s) \div 2) % 2 = s[2]
  BY <1>2 DEF FromBits
<1>5. (FromBits(s) \div 4) % 2 = s[3]
  BY <1>2 DEF FromBits
<1>6. (FromBits(s) \div 8) % 2 = s[4]
  BY <1>2 DEF FromBits
<1>7. (FromBits(s) \div 16) % 2 = s[5]
  BY <1>2 DEF FromBits
<1>8. (FromBits(s) \div 32) % 2 = s[6]
  BY <1>2 DEF FromBits
<1>9. (FromBits(s) \div 64) % 2 = s[7]
  BY <1>2 DEF FromBits
<1>10. (FromBits(s) \div 128) % 2 = s[8]
  BY <1>2 DEF FromBits
<1>11. \A j \in 1 .. 8 : Bits(FromBits(s))[j] = s[j]
  BY <1>4, <1>5, <1>6, <1>7, <1>8, <1>9, <1>10 DEF Bits
<1>12. Bits(FromBits(s)) = s
  BY <1>11 DEF Bits, BitString
<1>. QED BY <1>3, <1>12

\* The exclusive or is bit by bit, and a byte.
LEMMA XorBits ==
  ASSUME NEW a \in Byte, NEW b \in Byte
  PROVE  /\ Xor(a, b) \in Byte
         /\ Bits(Xor(a, b)) = [j \in 1 .. 8 |-> (Bits(a)[j] + Bits(b)[j]) % 2]
<1> DEFINE s == [j \in 1 .. 8 |-> (Bits(a)[j] + Bits(b)[j]) % 2]
<1>1. Bits(a) \in BitString /\ Bits(b) \in BitString
  BY BitsTyped
<1>2. s \in BitString
  BY <1>1 DEF BitString
<1> HIDE DEF s
<1>3. FromBits(s) \in Byte /\ Bits(FromBits(s)) = s
  BY <1>2, BitsBack
<1>. QED BY <1>3 DEF Xor, s

LEMMA XorBit ==
  ASSUME NEW a \in Byte, NEW b \in Byte, NEW j \in 1 .. 8
  PROVE  Bits(Xor(a, b))[j] = (Bits(a)[j] + Bits(b)[j]) % 2
<1>1. Bits(Xor(a, b)) = [i \in 1 .. 8 |-> (Bits(a)[i] + Bits(b)[i]) % 2]
  BY XorBits
<1>. QED BY <1>1

\* Bytes with the same bits are the same.
LEMMA SameBits ==
  ASSUME NEW a \in Byte, NEW b \in Byte, \A j \in 1 .. 8 : Bits(a)[j] = Bits(b)[j]
  PROVE  a = b
<1>1. Bits(a) \in BitString /\ Bits(b) \in BitString /\ FromBits(Bits(a)) = a /\ FromBits(Bits(b)) = b
  BY BitsTyped
<1>2. Bits(a) = Bits(b)
  BY <1>1 DEF BitString
<1>. QED BY <1>1, <1>2

LEMMA XorCommutes == ASSUME NEW a \in Byte, NEW b \in Byte PROVE Xor(a, b) = Xor(b, a)
<1>1. Bits(a) \in BitString /\ Bits(b) \in BitString
  BY BitsTyped
<1>2. \A j \in 1 .. 8 : (Bits(a)[j] + Bits(b)[j]) % 2 = (Bits(b)[j] + Bits(a)[j]) % 2
  BY <1>1 DEF BitString
<1>3. \A j \in 1 .. 8 : Bits(Xor(a, b))[j] = Bits(Xor(b, a))[j]
  BY <1>2, XorBit
<1>. QED BY <1>3, XorBits, SameBits

LEMMA XorAssociates ==
  ASSUME NEW a \in Byte, NEW b \in Byte, NEW c \in Byte
  PROVE  Xor(Xor(a, b), c) = Xor(a, Xor(b, c))
<1>1. Bits(a) \in BitString /\ Bits(b) \in BitString /\ Bits(c) \in BitString
  BY BitsTyped
<1>2. Xor(a, b) \in Byte /\ Xor(b, c) \in Byte
  BY XorBits
<1>3. ASSUME NEW j \in 1 .. 8 PROVE Bits(Xor(Xor(a, b), c))[j] = Bits(Xor(a, Xor(b, c)))[j]
  <2>1. Bits(Xor(Xor(a, b), c))[j] = (((Bits(a)[j] + Bits(b)[j]) % 2) + Bits(c)[j]) % 2
    BY <1>2, XorBit
  <2>2. Bits(Xor(a, Xor(b, c)))[j] = (Bits(a)[j] + ((Bits(b)[j] + Bits(c)[j]) % 2)) % 2
    BY <1>2, XorBit
  <2>3. Bits(a)[j] \in {0, 1} /\ Bits(b)[j] \in {0, 1} /\ Bits(c)[j] \in {0, 1}
    BY <1>1 DEF BitString
  <2>. QED BY <2>1, <2>2, <2>3
<1>4. Xor(Xor(a, b), c) \in Byte /\ Xor(a, Xor(b, c)) \in Byte
  BY <1>2, XorBits
<1>. QED BY <1>3, <1>4, SameBits

LEMMA XorZero == ASSUME NEW a \in Byte PROVE Xor(a, 0) = a /\ Xor(0, a) = a /\ Xor(a, a) = 0
<1>1. Bits(a) \in BitString /\ 0 \in Byte /\ \A j \in 1 .. 8 : Bits(0)[j] = 0
  <2>1. 0 \in Byte /\ Bits(a) \in BitString
    BY BitsTyped DEF Byte
  <2>2. Bits(0) = <<0, 0, 0, 0, 0, 0, 0, 0>>
    BY DEF Bits
  <2>. QED BY <2>1, <2>2
<1>2. \A j \in 1 .. 8 : Bits(Xor(a, 0))[j] = Bits(a)[j] /\ Bits(Xor(a, a))[j] = Bits(0)[j]
  <2> SUFFICES ASSUME NEW j \in 1 .. 8 PROVE Bits(Xor(a, 0))[j] = Bits(a)[j] /\ Bits(Xor(a, a))[j] = Bits(0)[j]
    OBVIOUS
  <2>1. Bits(Xor(a, 0))[j] = (Bits(a)[j] + Bits(0)[j]) % 2 /\ Bits(Xor(a, a))[j] = (Bits(a)[j] + Bits(a)[j]) % 2
    BY <1>1, XorBit
  <2>2. Bits(a)[j] \in {0, 1} /\ Bits(0)[j] = 0
    BY <1>1 DEF BitString
  <2>. QED BY <2>1, <2>2
<1>3. Xor(a, 0) \in Byte /\ Xor(a, a) \in Byte
  BY <1>1, XorBits
<1>4. Xor(a, 0) = a
  BY <1>2, <1>3, SameBits
<1>5. Xor(a, a) = 0
  BY <1>1, <1>2, <1>3, SameBits
<1>6. Xor(0, a) = Xor(a, 0)
  BY <1>1, XorCommutes
<1>. QED BY <1>4, <1>5, <1>6

LEMMA XorBack ==
  ASSUME NEW a \in Byte, NEW b \in Byte
  PROVE  Xor(Xor(a, b), b) = a
<1>1. Xor(Xor(a, b), b) = Xor(a, Xor(b, b))
  BY XorAssociates
<1>2. Xor(b, b) = 0 /\ Xor(a, 0) = a
  BY XorZero
<1>. QED BY <1>1, <1>2

-----------------------------------------------------------------------------
(* CCM (Ccm).                                                              *)

LEMMA Catenation ==
  ASSUME NEW T, NEW s \in Seq(T), NEW t \in Seq(T)
  PROVE  /\ s \o t \in Seq(T) /\ Len(s \o t) = Len(s) + Len(t)
         /\ \A j \in 1 .. Len(s) : (s \o t)[j] = s[j]
         /\ \A j \in 1 .. Len(t) : (s \o t)[Len(s) + j] = t[j]
  OBVIOUS

Block == [1 .. 16 -> Byte]
\* What aes_ecb_encrypt gives is a block.
CcmGood == \A k \in CcmKeys, block \in CCM!Blocks : CcmCipher(k, block) \in CCM!Blocks

LEMMA BlockOps ==
  ASSUME CcmGood, NEW k \in CcmKeys, NEW s \in Block, NEW t \in Block
  PROVE  CCM!Xor16(s, t) \in Block /\ CcmCipher(k, s) \in Block /\ CcmCipher(k, CCM!Xor16(s, t)) \in Block
<1>1. \A j \in 1 .. 16 : Xor(s[j], t[j]) \in Byte
  BY XorBits DEF Block
<1>2. CCM!Xor16(s, t) \in Block
  BY <1>1 DEF CCM!Xor16, CCM!BLOCK, Block
<1>3. \A b \in Block : CcmCipher(k, b) \in Block
  BY DEF CcmGood, CCM!Blocks, CCM!BLOCK, Block, Byte
<1>. QED BY <1>2, <1>3

\* CBC-MAC with a given key, block after block.
CcmMac(k, x, b) == CcmCipher(k, CCM!Xor16(x, b))
CcmMacs(k, x, bs) ==
  CHOOSE v : v = [j \in 0 .. Len(bs) |-> IF j = 0 THEN x ELSE CcmMac(k, v[j - 1], bs[j])]
CcmMacAll(k, x, bs) == CcmMacs(k, x, bs)[Len(bs)]

LEMMA MacAllIs == ASSUME NEW x, NEW bs PROVE CCM!MacAll(x, bs) = CcmMacAll(key, x, bs)
  BY DEF CCM!MacAll, CCM!Mac, CcmMacAll, CcmMacs, CcmMac

MacTurn(k, bs, n) == [z \in (1 .. n) \X Block |-> CcmMac(k, z[2], bs[z[1]])]

LEMMA MacTurns ==
  ASSUME CcmGood, NEW k \in CcmKeys, NEW bs \in Seq(Block), NEW n \in 0 .. Len(bs)
  PROVE  /\ MacTurn(k, bs, n) \in [(1 .. n) \X Block -> Block]
         /\ \A j \in 1 .. n, x \in Block : MacTurn(k, bs, n)[<<j, x>>] = CcmMac(k, x, bs[j])
<1>1. \A z \in (1 .. n) \X Block : CcmMac(k, z[2], bs[z[1]]) \in Block
  <2> SUFFICES ASSUME NEW z \in (1 .. n) \X Block PROVE CcmMac(k, z[2], bs[z[1]]) \in Block
    OBVIOUS
  <2>1. z[2] \in Block /\ bs[z[1]] \in Block
    OBVIOUS
  <2>. QED BY <2>1, BlockOps DEF CcmMac
<1>. QED BY <1>1 DEF MacTurn

LEMMA MacsAre ==
  ASSUME CcmGood, NEW k \in CcmKeys, NEW x \in Block, NEW bs \in Seq(Block)
  PROVE  IsLoop(CcmMacs(k, x, bs), Len(bs), Block, x, MacTurn(k, bs, Len(bs)))
<1> DEFINE n == Len(bs)
           turn == MacTurn(k, bs, n)
           Body(v) == [j \in 0 .. n |-> IF j = 0 THEN x ELSE CcmMac(k, v[j - 1], bs[j])]
           Is(v) == v = Body(v)
<1>0. n \in Nat /\ n \in 0 .. Len(bs)
  OBVIOUS
<1>1. turn \in [(1 .. n) \X Block -> Block] /\ \A j \in 1 .. n, z \in Block : turn[<<j, z>>] = CcmMac(k, z, bs[j])
  BY <1>0, MacTurns
<1>2. ASSUME NEW j \in 1 .. n, NEW z \in Block PROVE CcmMac(k, z, bs[j]) \in Block
  <2>1. bs[j] \in Block
    OBVIOUS
  <2>. QED BY <2>1, BlockOps DEF CcmMac
<1> HIDE DEF turn, n
<1>5. PICK g : IsLoop(g, n, Block, x, turn)
  BY <1>0, <1>1, Loop
<1>6. g \in [0 .. n -> Block] /\ g[0] = x /\ \A j \in 1 .. n : g[j] = turn[<<j, g[j - 1]>>]
  BY <1>5 DEF IsLoop
<1>7. \A j \in 1 .. n : g[j - 1] \in Block
  BY <1>0, <1>6
<1>8. \A j \in 1 .. n : g[j] = CcmMac(k, g[j - 1], bs[j])
  BY <1>1, <1>6, <1>7
<1>9. Is(g)
  <2>1. \A j \in 0 .. n : j # 0 => j \in 1 .. n
    BY <1>0
  <2>2. \A j \in 0 .. n : g[j] = Body(g)[j]
    BY <1>6, <1>8, <2>1
  <2>3. g = [j \in 0 .. n |-> g[j]]
    BY <1>6
  <2>. QED BY <2>2, <2>3
<1>11. CcmMacs(k, x, bs) = CHOOSE v : Is(v)
  BY DEF CcmMacs, n
<1> HIDE DEF Is
<1>12. Is(CcmMacs(k, x, bs))
  BY <1>9, <1>11
<1> DEFINE s == CcmMacs(k, x, bs)
<1>13. s = [j \in 0 .. n |-> IF j = 0 THEN x ELSE CcmMac(k, s[j - 1], bs[j])]
  BY <1>12 DEF Is
<1> HIDE DEF s
<1>15. s[0] = x /\ \A j \in 1 .. n : s[j] = CcmMac(k, s[j - 1], bs[j])
  BY <1>0, <1>13
<1>16. \A j \in 0 .. n : s[j] \in Block
  <2> DEFINE T == {j \in 0 .. n : s[j] \in Block}
  <2>1. 0 \in T
    BY <1>0, <1>15
  <2>2. ASSUME NEW j \in 1 .. n, j - 1 \in T PROVE j \in T
    <3>1. s[j - 1] \in Block
      BY <2>2
    <3>2. s[j] \in Block
      BY <1>2, <1>15, <3>1
    <3>. QED BY <3>2
  <2> HIDE DEF T
  <2>3. \A j \in 0 .. n : j \in T
    BY <1>0, <2>1, <2>2, UpTo
  <2>. QED BY <2>3 DEF T
<1>17. \A j \in 1 .. n : s[j] = turn[<<j, s[j - 1]>>]
  <2> SUFFICES ASSUME NEW j \in 1 .. n PROVE s[j] = turn[<<j, s[j - 1]>>]
    OBVIOUS
  <2>1. s[j - 1] \in Block
    BY <1>0, <1>16
  <2>. QED BY <1>1, <1>15, <2>1
<1>18. s \in [0 .. n -> Block]
  BY <1>13, <1>16
<1>. QED BY <1>15, <1>17, <1>18 DEF IsLoop, s, n, turn

LEMMA MacAllTyped ==
  ASSUME CcmGood, NEW k \in CcmKeys, NEW x \in Block, NEW bs \in Seq(Block)
  PROVE  CcmMacAll(k, x, bs) \in Block /\ CcmMacAll(k, x, <<>>) = x
<1>1. IsLoop(CcmMacs(k, x, bs), Len(bs), Block, x, MacTurn(k, bs, Len(bs)))
  BY MacsAre
<1>2. CcmMacs(k, x, bs)[Len(bs)] \in Block
  BY <1>1 DEF IsLoop
<1>3. <<>> \in Seq(Block) /\ Len(<<>>) = 0
  OBVIOUS
<1>4. IsLoop(CcmMacs(k, x, <<>>), 0, Block, x, MacTurn(k, <<>>, 0))
  BY <1>3, MacsAre
<1>5. CcmMacs(k, x, <<>>)[0] = x
  BY <1>4 DEF IsLoop
<1>. QED BY <1>2, <1>3, <1>5 DEF CcmMacAll

\* One block more at the end.
LEMMA MacAllMore ==
  ASSUME CcmGood, NEW k \in CcmKeys, NEW x \in Block, NEW bs \in Seq(Block), NEW b \in Block
  PROVE  CcmMacAll(k, x, bs \o <<b>>) = CcmMac(k, CcmMacAll(k, x, bs), b)
<1> DEFINE cs == bs \o <<b>>
           n == Len(bs)
           f == CcmMacs(k, x, bs)
           g == CcmMacs(k, x, cs)
<1>1. cs \in Seq(Block) /\ Len(cs) = n + 1 /\ n \in Nat /\ cs[n + 1] = b /\ \A j \in 1 .. n : cs[j] = bs[j]
  OBVIOUS
<1> HIDE DEF cs, n
<1>2. IsLoop(f, n, Block, x, MacTurn(k, bs, n))
  BY MacsAre DEF n
<1>3. IsLoop(g, n + 1, Block, x, MacTurn(k, cs, n + 1))
  BY <1>1, MacsAre
<1> HIDE DEF f, g
<1>4. f \in [0 .. n -> Block] /\ f[0] = x /\ \A j \in 1 .. n : f[j] = CcmMac(k, f[j - 1], bs[j])
  <2>1. n \in 0 .. Len(bs)
    BY <1>1 DEF n
  <2>2. f \in [0 .. n -> Block] /\ f[0] = x /\ \A j \in 1 .. n : f[j] = MacTurn(k, bs, n)[<<j, f[j - 1]>>]
    BY <1>2 DEF IsLoop
  <2>3. \A j \in 1 .. n, z \in Block : MacTurn(k, bs, n)[<<j, z>>] = CcmMac(k, z, bs[j])
    BY <2>1, MacTurns
  <2>4. \A j \in 1 .. n : f[j - 1] \in Block
    BY <1>1, <2>2
  <2>. QED BY <2>2, <2>3, <2>4
<1>5. g \in [0 .. n + 1 -> Block] /\ g[0] = x /\ \A j \in 1 .. n + 1 : g[j] = CcmMac(k, g[j - 1], cs[j])
  <2>1. n + 1 \in 0 .. Len(cs)
    BY <1>1
  <2>2. g \in [0 .. n + 1 -> Block] /\ g[0] = x /\ \A j \in 1 .. n + 1 : g[j] = MacTurn(k, cs, n + 1)[<<j, g[j - 1]>>]
    BY <1>3 DEF IsLoop
  <2>3. \A j \in 1 .. n + 1, z \in Block : MacTurn(k, cs, n + 1)[<<j, z>>] = CcmMac(k, z, cs[j])
    BY <1>1, <2>1, MacTurns
  <2>4. \A j \in 1 .. n + 1 : g[j - 1] \in Block
    BY <1>1, <2>2
  <2>. QED BY <2>2, <2>3, <2>4
<1> DEFINE T == {j \in 0 .. n : f[j] = g[j]}
<1>6. 0 \in T
  BY <1>1, <1>4, <1>5
<1>7. ASSUME NEW j \in 1 .. n, j - 1 \in T PROVE j \in T
  <2>1. f[j - 1] = g[j - 1] /\ j \in 1 .. n + 1 /\ cs[j] = bs[j]
    BY <1>1, <1>7
  <2>2. f[j] = g[j]
    BY <1>4, <1>5, <2>1
  <2>. QED BY <2>2
<1> HIDE DEF T
<1>8. \A j \in 0 .. n : j \in T
  BY <1>1, <1>6, <1>7, UpTo
<1>9. f[n] = g[n]
  BY <1>1, <1>8 DEF T
<1>10. g[n + 1] = CcmMac(k, g[n], b)
  <2> DEFINE m == n + 1
  <2> HIDE DEF m
  <2>2. m \in 1 .. n + 1 /\ m - 1 = n
    BY <1>1 DEF m
  <2>3. g[m] = CcmMac(k, g[m - 1], cs[m])
    BY <1>5, <2>2
  <2>4. g[m] = CcmMac(k, g[n], cs[m])
    BY <2>2, <2>3
  <2>. QED BY <1>1, <2>4 DEF m
<1>. QED BY <1>1, <1>9, <1>10 DEF CcmMacAll, f, g, cs, n

\* One block more at the beginning.
LEMMA MacAllFirst ==
  ASSUME CcmGood, NEW k \in CcmKeys, NEW x \in Block, NEW bs \in Seq(Block), NEW b \in Block
  PROVE  CcmMacAll(k, x, <<b>> \o bs) = CcmMacAll(k, CcmMac(k, x, b), bs)
<1> DEFINE cs == <<b>> \o bs
           n == Len(bs)
           z == CcmMac(k, x, b)
           f == CcmMacs(k, z, bs)
           g == CcmMacs(k, x, cs)
<1>1. cs \in Seq(Block) /\ Len(cs) = n + 1 /\ n \in Nat /\ cs[1] = b /\ \A j \in 1 .. n : cs[j + 1] = bs[j]
  OBVIOUS
<1>0. z \in Block
  BY BlockOps DEF CcmMac
<1> HIDE DEF cs, n, z
<1>2. IsLoop(f, n, Block, z, MacTurn(k, bs, n))
  BY <1>0, MacsAre DEF n
<1>3. IsLoop(g, n + 1, Block, x, MacTurn(k, cs, n + 1))
  BY <1>1, MacsAre
<1> HIDE DEF f, g
<1>4. f \in [0 .. n -> Block] /\ f[0] = z /\ \A j \in 1 .. n : f[j] = CcmMac(k, f[j - 1], bs[j])
  <2>1. n \in 0 .. Len(bs)
    BY <1>1 DEF n
  <2>2. f \in [0 .. n -> Block] /\ f[0] = z /\ \A j \in 1 .. n : f[j] = MacTurn(k, bs, n)[<<j, f[j - 1]>>]
    BY <1>2 DEF IsLoop
  <2>3. \A j \in 1 .. n, w \in Block : MacTurn(k, bs, n)[<<j, w>>] = CcmMac(k, w, bs[j])
    BY <2>1, MacTurns
  <2>4. \A j \in 1 .. n : f[j - 1] \in Block
    BY <1>1, <2>2
  <2>. QED BY <2>2, <2>3, <2>4
<1>5. g \in [0 .. n + 1 -> Block] /\ g[0] = x /\ \A j \in 1 .. n + 1 : g[j] = CcmMac(k, g[j - 1], cs[j])
  <2>1. n + 1 \in 0 .. Len(cs)
    BY <1>1
  <2>2. g \in [0 .. n + 1 -> Block] /\ g[0] = x /\ \A j \in 1 .. n + 1 : g[j] = MacTurn(k, cs, n + 1)[<<j, g[j - 1]>>]
    BY <1>3 DEF IsLoop
  <2>3. \A j \in 1 .. n + 1, w \in Block : MacTurn(k, cs, n + 1)[<<j, w>>] = CcmMac(k, w, cs[j])
    BY <1>1, <2>1, MacTurns
  <2>4. \A j \in 1 .. n + 1 : g[j - 1] \in Block
    BY <1>1, <2>2
  <2>. QED BY <2>2, <2>3, <2>4
<1> DEFINE T == {j \in 0 .. n : f[j] = g[j + 1]}
<1>6. 0 \in T
  <2>1. 1 \in 1 .. n + 1 /\ 1 - 1 = 0 /\ 0 + 1 = 1 /\ 0 \in 0 .. n
    BY <1>1
  <2>2. g[1] = CcmMac(k, g[1 - 1], cs[1])
    BY <1>5, <2>1
  <2>3. g[1] = CcmMac(k, x, b)
    BY <1>1, <1>5, <2>1, <2>2
  <2>4. f[0] = g[0 + 1]
    BY <1>4, <2>1, <2>3 DEF z
  <2>. QED BY <2>1, <2>4
<1>7. ASSUME NEW j \in 1 .. n, j - 1 \in T PROVE j \in T
  <2>1. f[j - 1] = g[j - 1 + 1] /\ j - 1 + 1 = j /\ j + 1 \in 1 .. n + 1 /\ j + 1 - 1 = j /\ cs[j + 1] = bs[j]
    BY <1>1, <1>7
  <2>2. g[j + 1] = CcmMac(k, g[j + 1 - 1], cs[j + 1])
    BY <1>5, <2>1
  <2>3. f[j] = g[j + 1]
    BY <1>4, <2>1, <2>2
  <2>. QED BY <2>3
<1> HIDE DEF T
<1>8. \A j \in 0 .. n : j \in T
  BY <1>1, <1>6, <1>7, UpTo
<1>9. f[n] = g[n + 1]
  BY <1>1, <1>8 DEF T
<1>. QED BY <1>1, <1>9 DEF CcmMacAll, f, g, cs, n, z

IsCat(T, s, t, w) ==
  /\ w \in Seq(T) /\ Len(w) = Len(s) + Len(t)
  /\ \A j \in 1 .. Len(s) : w[j] = s[j]
  /\ \A j \in 1 .. Len(t) : w[Len(s) + j] = t[j]

LEMMA Joined == ASSUME NEW T, NEW s \in Seq(T), NEW t \in Seq(T) PROVE IsCat(T, s, t, s \o t)
  BY Catenation DEF IsCat

LEMMA SubSeqIs ==
  ASSUME NEW T, NEW s \in Seq(T), NEW a \in Nat, NEW l \in Nat, a + l <= Len(s)
  PROVE  /\ SubSeq(s, a + 1, a + l) \in Seq(T) /\ Len(SubSeq(s, a + 1, a + l)) = l
         /\ \A j \in 1 .. l : SubSeq(s, a + 1, a + l)[j] = s[a + j]
  OBVIOUS

LEMMA SeqElement == ASSUME NEW T, NEW s \in Seq(T) PROVE s = [j \in 1 .. Len(s) |-> s[j]] /\ \A j \in 1 .. Len(s) : s[j] \in T
  OBVIOUS

LEMMA SeqBlock == ASSUME NEW s \in Seq(Byte), Len(s) = 16 PROVE s \in Block
<1>1. s = [j \in 1 .. Len(s) |-> s[j]] /\ \A j \in 1 .. Len(s) : s[j] \in Byte
  BY SeqElement
<1>2. 1 .. Len(s) = 1 .. 16
  OBVIOUS
<1>. QED BY <1>1, <1>2 DEF Block

LEMMA BlockSeq == ASSUME NEW b \in Block PROVE b \in Seq(Byte) /\ Len(b) = 16
<1>1. b = [j \in 1 .. 16 |-> b[j]]
  BY DEF Block
<1>2. \A j \in 1 .. 16 : b[j] \in Byte
  BY DEF Block
<1>. QED BY <1>1, <1>2

LEMMA SameBlock == ASSUME NEW b \in Block, NEW c \in Block, \A j \in 1 .. 16 : b[j] = c[j] PROVE b = c
<1>1. b = [j \in 1 .. 16 |-> b[j]] /\ c = [j \in 1 .. 16 |-> c[j]]
  BY DEF Block
<1>. QED BY <1>1

LEMMA SameSeq ==
  ASSUME NEW T, NEW s \in Seq(T), NEW t \in Seq(T), Len(s) = Len(t), \A j \in 1 .. Len(s) : s[j] = t[j]
  PROVE  s = t
  OBVIOUS

\* Numbers below 2^24 as bytes.
Digit(n, p) ==
  IF p = 0 THEN n % 256 ELSE IF p = 1 THEN (n \div 256) % 256 ELSE IF p = 2 THEN (n \div 65536) % 256 ELSE 0

LEMMA DigitByte == ASSUME NEW n \in Nat, NEW p \in Nat PROVE Digit(n, p) \in Byte
  BY DEF Digit, Byte

LEMMA BytesAre ==
  ASSUME NEW n \in Nat, NEW k \in Nat
  PROVE  /\ CCM!Bytes(n, k) \in Seq(Byte) /\ Len(CCM!Bytes(n, k)) = k
         /\ \A j \in 1 .. k : CCM!Bytes(n, k)[j] = Digit(n, k - j)
<1> DEFINE s == CCM!Bytes(n, k)
<1>1. \A j \in 1 .. k : s[j] = IF k - j > 2 THEN 0 ELSE (n \div CCM!Power[k - j + 1]) % 256
  BY DEF CCM!Bytes
<1>2. CCM!Power[1] = 1 /\ CCM!Power[2] = 256 /\ CCM!Power[3] = 65536
  BY DEF CCM!Power
<1>3. s = [j \in 1 .. k |-> s[j]]
  BY DEF CCM!Bytes
<1> HIDE DEF s
<1>4. ASSUME NEW j \in 1 .. k PROVE s[j] = Digit(n, k - j)
  <2> DEFINE p == k - j
  <2>1. p \in Nat /\ s[j] = IF p > 2 THEN 0 ELSE (n \div CCM!Power[p + 1]) % 256
    BY <1>1
  <2> HIDE DEF p
  <2>2. CASE p = 0
    <3>1. s[j] = (n \div CCM!Power[1]) % 256
      BY <2>1, <2>2
    <3>2. n \div 1 = n
      OBVIOUS
    <3>. QED BY <1>2, <2>2, <3>1, <3>2 DEF Digit, p
  <2>3. CASE p = 1
    <3>1. s[j] = (n \div CCM!Power[2]) % 256
      BY <2>1, <2>3
    <3>. QED BY <1>2, <2>3, <3>1 DEF Digit, p
  <2>4. CASE p = 2
    <3>1. s[j] = (n \div CCM!Power[3]) % 256
      BY <2>1, <2>4
    <3>. QED BY <1>2, <2>4, <3>1 DEF Digit, p
  <2>5. CASE p > 2
    <3>1. s[j] = 0 /\ p # 0 /\ p # 1 /\ p # 2
      BY <2>1, <2>5
    <3>. QED BY <3>1 DEF Digit, p
  <2>. QED BY <2>1, <2>2, <2>3, <2>4, <2>5
<1>5. ASSUME NEW j \in 1 .. k PROVE s[j] \in Byte
  <2>1. k - j \in Nat
    OBVIOUS
  <2>. QED BY <1>4, <2>1, DigitByte
<1>6. s \in Seq(Byte) /\ Len(s) = k
  BY <1>3, <1>5
<1>. QED BY <1>4, <1>6 DEF s

Nonce == {v \in Seq(Byte) : 7 <= Len(v) /\ Len(v) <= 13}

LEMMA NonceLength == ASSUME NEW v \in Nonce PROVE v \in Seq(Byte) /\ Len(v) \in Nat /\ 7 <= Len(v) /\ Len(v) <= 13
<1>1. v \in Seq(Byte) /\ 7 <= Len(v) /\ Len(v) <= 13
  BY DEF Nonce
<1>2. Len(v) \in Nat
  BY <1>1
<1>. QED BY <1>1, <1>2

\* A byte, the nonce, and a number.
LEMMA NonceBlock ==
  ASSUME NEW f \in Byte, NEW v \in Nonce, NEW n \in Nat
  PROVE  /\ <<f>> \o v \o CCM!Bytes(n, 15 - Len(v)) \in Block
         /\ <<f>> \o v \o CCM!Bytes(n, 15 - Len(v)) =
              [j \in 1 .. 16 |-> IF j = 1 THEN f ELSE IF j <= Len(v) + 1 THEN v[j - 1] ELSE Digit(n, 16 - j)]
<1> DEFINE w == CCM!Bytes(n, 15 - Len(v))
           h == <<f>> \o v
           s == h \o w
           e == [j \in 1 .. 16 |-> IF j = 1 THEN f ELSE IF j <= Len(v) + 1 THEN v[j - 1] ELSE Digit(n, 16 - j)]
<1>00. v \in Seq(Byte) /\ Len(v) \in Nat /\ 7 <= Len(v) /\ Len(v) <= 13
  BY NonceLength
<1>0. v \in Seq(Byte) /\ Len(v) \in Nat /\ 7 <= Len(v) /\ Len(v) <= 13 /\ 15 - Len(v) \in Nat
  BY <1>00
<1>1. w \in Seq(Byte) /\ Len(w) = 15 - Len(v) /\ \A j \in 1 .. 15 - Len(v) : w[j] = Digit(n, 15 - Len(v) - j)
  BY <1>0, BytesAre
<1>2. h \in Seq(Byte) /\ Len(h) = 1 + Len(v) /\ h[1] = f /\ \A j \in 1 .. Len(v) : h[1 + j] = v[j]
  BY <1>0
<1> HIDE DEF w, h
<1>3. /\ s \in Seq(Byte) /\ Len(s) = Len(h) + Len(w)
      /\ \A j \in 1 .. Len(h) : s[j] = h[j]
      /\ \A j \in 1 .. Len(w) : s[Len(h) + j] = w[j]
  BY <1>1, <1>2, Catenation
<1> HIDE DEF s
<1>4. Len(s) = 16
  BY <1>0, <1>1, <1>2, <1>3
<1>5. s \in Block
  BY <1>3, <1>4, SeqBlock
<1>6. ASSUME NEW j \in 1 .. 16 PROVE s[j] = e[j]
  <2>1. CASE j = 1
    <3>1. 1 \in 1 .. Len(h)
      BY <1>0, <1>2
    <3>. QED BY <1>2, <1>3, <2>1, <3>1
  <2>2. CASE j # 1 /\ j <= Len(v) + 1
    <3> DEFINE k == j - 1
    <3>1. k \in 1 .. Len(v) /\ 1 + k = j /\ j \in 1 .. Len(h)
      BY <1>0, <1>2, <2>2
    <3>2. h[1 + k] = v[k] /\ s[j] = h[j]
      BY <1>2, <1>3, <3>1
    <3>. QED BY <2>2, <3>1, <3>2
  <2>3. CASE j > Len(v) + 1
    <3> DEFINE k == j - 1 - Len(v)
    <3>1. k \in 1 .. 15 - Len(v) /\ Len(h) + k = j /\ 15 - Len(v) - k = 16 - j
      BY <1>0, <1>2, <2>3
    <3> HIDE DEF k
    <3>2. s[Len(h) + k] = w[k] /\ w[k] = Digit(n, 15 - Len(v) - k)
      BY <1>1, <1>3, <3>1
    <3>3. e[j] = Digit(n, 16 - j)
      BY <1>0, <2>3
    <3> HIDE DEF e
    <3>. QED BY <3>1, <3>2, <3>3
  <2>. QED BY <1>0, <2>1, <2>2, <2>3
<1>7. s = e
  <2>1. s = [j \in 1 .. 16 |-> s[j]]
    BY <1>5 DEF Block
  <2>2. s = [j \in 1 .. 16 |-> e[j]]
    BY <1>6, <2>1
  <2>. QED BY <2>2
<1>. QED BY <1>5, <1>7 DEF s, h, w

CounterBlock(v, n) == <<15 - Len(v) - 1>> \o v \o CCM!Bytes(n, 15 - Len(v))

LEMMA CounterIs ==
  ASSUME NEW v \in Nonce, NEW n \in Nat
  PROVE  /\ CounterBlock(v, n) \in Block
         /\ CounterBlock(v, n) =
              [j \in 1 .. 16 |-> IF j = 1 THEN 14 - Len(v) ELSE IF j <= Len(v) + 1 THEN v[j - 1] ELSE Digit(n, 16 - j)]
<1> DEFINE f == 15 - Len(v) - 1
<1>0. Len(v) \in Nat /\ 7 <= Len(v) /\ Len(v) <= 13
  BY NonceLength
<1>1. f \in Byte /\ f = 14 - Len(v)
  <2>1. \A l \in Nat : 7 <= l /\ l <= 13 => 15 - l - 1 \in 0 .. 255 /\ 15 - l - 1 = 14 - l
    OBVIOUS
  <2>. QED BY <1>0, <2>1 DEF Byte
<1> HIDE DEF f
<1>2. <<f>> \o v \o CCM!Bytes(n, 15 - Len(v)) \in Block
  BY <1>1, NonceBlock
<1>3. <<f>> \o v \o CCM!Bytes(n, 15 - Len(v)) =
        [j \in 1 .. 16 |-> IF j = 1 THEN f ELSE IF j <= Len(v) + 1 THEN v[j - 1] ELSE Digit(n, 16 - j)]
  BY <1>1, NonceBlock
<1>4. CounterBlock(v, n) = <<f>> \o v \o CCM!Bytes(n, 15 - Len(v))
  BY DEF CounterBlock, f
<1>. QED BY <1>1, <1>2, <1>3, <1>4

\* Counting: the loop that increments the counter block, for the nonce of the state.
LEMMA IncrementIs ==
  ASSUME iv \in Nonce, NEW n \in Nat, n < 16777215
  PROVE  CCM!Increment(CounterBlock(iv, n)) = CounterBlock(iv, n + 1)
<1> DEFINE c == CounterBlock(iv, n)
           m == n + 1
           d == CounterBlock(iv, m)
           l == Len(iv)
<1>0. l \in Nat /\ 7 <= l /\ l <= 13 /\ n \in Nat /\ m \in Nat
  BY NonceLength
<1>1. c \in Block /\ c = [j \in 1 .. 16 |-> IF j = 1 THEN 14 - l ELSE IF j <= l + 1 THEN iv[j - 1] ELSE Digit(n, 16 - j)]
  BY <1>0, CounterIs
<1>2. d \in Block /\ d = [j \in 1 .. 16 |-> IF j = 1 THEN 14 - l ELSE IF j <= l + 1 THEN iv[j - 1] ELSE Digit(m, 16 - j)]
  <2> HIDE DEF m
  <2>. QED BY <1>0, CounterIs
<1>3. CCM!Increment(c) = [j \in 1 .. 16 |-> IF j > l + 1 /\ (\A k \in j + 1 .. 16 : c[k] = 255) THEN (c[j] + 1) % 256 ELSE c[j]]
  <2>1. CCM!BLOCK - CCM!q = l + 1 /\ CCM!BLOCK = 16
    BY <1>0 DEF CCM!BLOCK, CCM!q
  <2> HIDE DEF c, l
  <2>. QED BY <2>1 DEF CCM!Increment
<1>30. m = n + 1
  OBVIOUS
<1> HIDE DEF c, d, l, m
<1>4. ASSUME NEW j \in 1 .. 16, j <= l + 1 PROVE d[j] = c[j]
  BY <1>0, <1>1, <1>2, <1>4
<1>5. /\ c[16] = Digit(n, 0) /\ c[15] = Digit(n, 1) /\ (l < 13 => c[14] = Digit(n, 2))
      /\ d[16] = Digit(m, 0) /\ d[15] = Digit(m, 1) /\ (l < 13 => d[14] = Digit(m, 2))
      /\ \A j \in 1 .. 13 : j > l + 1 => c[j] = 0 /\ d[j] = 0
  <2>1. \A j \in 1 .. 16 : j > l + 1 => c[j] = Digit(n, 16 - j) /\ d[j] = Digit(m, 16 - j)
    BY <1>0, <1>1, <1>2
  <2>2. /\ 16 > l + 1 /\ 15 > l + 1 /\ (l < 13 => 14 > l + 1) /\ 16 - 16 = 0 /\ 16 - 15 = 1 /\ 16 - 14 = 2
        /\ 16 \in 1 .. 16 /\ 15 \in 1 .. 16 /\ 14 \in 1 .. 16
    BY <1>0
  <2>3. c[16] = Digit(n, 16 - 16) /\ c[15] = Digit(n, 16 - 15) /\ (l < 13 => c[14] = Digit(n, 16 - 14))
    BY <2>1, <2>2
  <2>4. d[16] = Digit(m, 16 - 16) /\ d[15] = Digit(m, 16 - 15) /\ (l < 13 => d[14] = Digit(m, 16 - 14))
    BY <2>1, <2>2
  <2>5. ASSUME NEW j \in 1 .. 13, j > l + 1 PROVE c[j] = 0 /\ d[j] = 0
    <3>1. j \in 1 .. 16 /\ 16 - j # 0 /\ 16 - j # 1 /\ 16 - j # 2
      OBVIOUS
    <3>2. Digit(n, 16 - j) = 0 /\ Digit(m, 16 - j) = 0
      BY <3>1 DEF Digit
    <3>. QED BY <2>1, <2>5, <3>1, <3>2
  <2>. QED BY <2>2, <2>3, <2>4, <2>5
<1> DEFINE e(j) == IF j > l + 1 /\ (\A k \in j + 1 .. 16 : c[k] = 255) THEN (c[j] + 1) % 256 ELSE c[j]
<1>6. e(16) = d[16]
  <2>1. e(16) = (c[16] + 1) % 256
    BY <1>0
  <2>2. (Digit(n, 0) + 1) % 256 = Digit(m, 0)
    BY <1>0, <1>30 DEF Digit
  <2>. QED BY <1>5, <2>1, <2>2
<1>7. e(15) = d[15]
  <2>1. e(15) = IF c[16] = 255 THEN (c[15] + 1) % 256 ELSE c[15]
    <3>1. 15 > l + 1 /\ \A k \in 15 + 1 .. 16 : k = 16
      BY <1>0
    <3>2. 16 \in 15 + 1 .. 16
      OBVIOUS
    <3>. QED BY <3>1, <3>2
  <2>2. (IF Digit(n, 0) = 255 THEN (Digit(n, 1) + 1) % 256 ELSE Digit(n, 1)) = Digit(m, 1)
    BY <1>0, <1>30 DEF Digit
  <2>. QED BY <1>5, <2>1, <2>2
<1>8. e(14) = d[14]
  <2>1. CASE l = 13
    BY <1>4, <2>1
  <2>2. CASE l < 13
    <3>1. e(14) = IF c[15] = 255 /\ c[16] = 255 THEN (c[14] + 1) % 256 ELSE c[14]
      <4>1. 14 > l + 1 /\ \A k \in 14 + 1 .. 16 : k = 15 \/ k = 16
        BY <1>0, <2>2
      <4>2. 15 \in 14 + 1 .. 16 /\ 16 \in 14 + 1 .. 16
        OBVIOUS
      <4>. QED BY <4>1, <4>2
    <3>2. (IF Digit(n, 1) = 255 /\ Digit(n, 0) = 255 THEN (Digit(n, 2) + 1) % 256 ELSE Digit(n, 2)) = Digit(m, 2)
      BY <1>0, <1>30 DEF Digit
    <3>. QED BY <1>5, <2>2, <3>1, <3>2
  <2>. QED BY <1>0, <2>1, <2>2
<1>9. ASSUME NEW j \in 1 .. 13 PROVE e(j) = d[j]
  <2>1. CASE j <= l + 1
    BY <1>0, <1>4, <2>1
  <2>2. CASE j > l + 1
    <3>1. l < 13 /\ 14 \in j + 1 .. 16 /\ 15 \in j + 1 .. 16 /\ 16 \in j + 1 .. 16
      BY <1>0, <2>2
    <3>2. ~(Digit(n, 0) = 255 /\ Digit(n, 1) = 255 /\ Digit(n, 2) = 255)
      BY <1>0, <1>30 DEF Digit
    <3>3. ~(\A k \in j + 1 .. 16 : c[k] = 255)
      BY <1>5, <3>1, <3>2
    <3>4. e(j) = c[j]
      BY <3>3
    <3>. QED BY <1>5, <2>2, <3>4
  <2>. QED BY <1>0, <2>1, <2>2
<1> HIDE DEF e
<1>10. \A j \in 1 .. 16 : e(j) = d[j]
  <2>1. \A j \in 1 .. 16 : j = 16 \/ j = 15 \/ j = 14 \/ j \in 1 .. 13
    OBVIOUS
  <2>. QED BY <1>6, <1>7, <1>8, <1>9, <2>1
<1>11. CCM!Increment(c) = [j \in 1 .. 16 |-> e(j)]
  BY <1>3 DEF e
<1>12. d = [j \in 1 .. 16 |-> d[j]]
  BY <1>2
<1>13. CCM!Increment(c) = d
  BY <1>10, <1>11, <1>12
<1>. QED BY <1>13 DEF c, d, m

\* Bytes of a string from a place, padded with zeroes.
LEMMA PaddedPart ==
  ASSUME NEW s \in Seq(Byte), NEW a \in Nat, a <= Len(s), NEW n \in Nat, n <= 16
  PROVE  /\ CCM!Padded(CCM!Part(s, a, n)) \in Block
         /\ \A j \in 1 .. 16 : CCM!Padded(CCM!Part(s, a, n))[j] = IF j <= n /\ a + j <= Len(s) THEN s[a + j] ELSE 0
         /\ CCM!Part(s, a, n) \in Seq(Byte)
         /\ Len(CCM!Part(s, a, n)) = (IF n < Len(s) - a THEN n ELSE Len(s) - a)
         /\ \A j \in 1 .. Len(CCM!Part(s, a, n)) : CCM!Part(s, a, n)[j] = s[a + j]
<1> DEFINE p == CCM!Part(s, a, n)
           len == IF n < Len(s) - a THEN n ELSE Len(s) - a
           z == CCM!Zeroes(16 - Len(p))
           d == p \o z
<1>0. Len(s) \in Nat
  OBVIOUS
<1>1. len \in Nat /\ len <= n /\ len <= Len(s) - a /\ (len = n \/ len = Len(s) - a)
  BY <1>0
<1>2. p = SubSeq(s, a + 1, a + len)
  BY DEF CCM!Part, CCM!Smaller
<1> HIDE DEF p, len
<1>3. p \in Seq(Byte) /\ Len(p) = len /\ \A j \in 1 .. len : p[j] = s[a + j]
  <2>1. a + len <= Len(s)
    BY <1>0, <1>1
  <2>. QED BY <1>1, <1>2, <2>1, SubSeqIs
<1>4. z \in Seq(Byte) /\ Len(z) = 16 - len /\ \A j \in 1 .. 16 - len : z[j] = 0
  <2>1. 16 - len \in Nat /\ 0 \in Byte
    BY <1>1 DEF Byte
  <2>. QED BY <1>3, <2>1 DEF CCM!Zeroes
<1> HIDE DEF z
<1>5. /\ d \in Seq(Byte) /\ Len(d) = Len(p) + Len(z)
      /\ \A j \in 1 .. Len(p) : d[j] = p[j]
      /\ \A j \in 1 .. Len(z) : d[Len(p) + j] = z[j]
  BY <1>3, <1>4, Catenation
<1>6. CCM!Padded(p) = d
  BY DEF CCM!Padded, CCM!BLOCK, z
<1> HIDE DEF d
<1>7. Len(d) = 16
  BY <1>1, <1>3, <1>4, <1>5
<1>8. d \in Block
  BY <1>5, <1>7, SeqBlock
<1>9. ASSUME NEW j \in 1 .. 16 PROVE d[j] = IF j <= n /\ a + j <= Len(s) THEN s[a + j] ELSE 0
  <2>1. CASE j <= len
    <3>1. j \in 1 .. len /\ j <= n /\ a + j <= Len(s)
      BY <1>0, <1>1, <2>1
    <3>. QED BY <1>3, <1>5, <3>1
  <2>2. CASE j > len
    <3> DEFINE k == j - len
    <3>1. k \in 1 .. 16 - len /\ len + k = j /\ ~(j <= n /\ a + j <= Len(s))
      BY <1>0, <1>1, <2>2
    <3> HIDE DEF k
    <3>2. d[len + k] = 0
      BY <1>3, <1>4, <1>5, <3>1
    <3>. QED BY <3>1, <3>2
  <2>. QED BY <1>1, <2>1, <2>2
<1>. QED BY <1>3, <1>6, <1>8, <1>9 DEF p, len

\* The number of blocks that n bytes need, and the blocks of a text.
Filled(n) == (n + 15) \div 16
TextBlock(t, j) == CCM!Padded(CCM!Part(t, 16 * (j - 1), 16))
TextBlocks(t, n) == [j \in 1 .. n |-> TextBlock(t, j)]

LEMMA FilledIs ==
  ASSUME NEW n \in Nat
  PROVE  Filled(n) \in Nat /\ n <= 16 * Filled(n) /\ 16 * Filled(n) < n + 16
  BY DEF Filled

LEMMA TextBlockIs ==
  ASSUME NEW t \in Seq(Byte), NEW j \in 1 .. Filled(Len(t))
  PROVE  /\ TextBlock(t, j) \in Block
         /\ \A p \in 1 .. 16 : TextBlock(t, j)[p] = IF 16 * (j - 1) + p <= Len(t) THEN t[16 * (j - 1) + p] ELSE 0
<1>0. Len(t) \in Nat /\ Filled(Len(t)) \in Nat
  BY FilledIs
<1>1. 16 * (j - 1) \in Nat /\ 16 * (j - 1) <= Len(t)
  <2>1. 16 * Filled(Len(t)) < Len(t) + 16
    BY <1>0, FilledIs
  <2>. QED BY <1>0, <2>1
<1> DEFINE a == 16 * (j - 1)
<1>2. a \in Nat /\ a <= Len(t) /\ 16 \in Nat /\ 16 <= 16
  BY <1>1
<1> HIDE DEF a
<1>3. /\ CCM!Padded(CCM!Part(t, a, 16)) \in Block
      /\ \A p \in 1 .. 16 : CCM!Padded(CCM!Part(t, a, 16))[p] = IF p <= 16 /\ a + p <= Len(t) THEN t[a + p] ELSE 0
  BY <1>2, PaddedPart
<1>4. \A p \in 1 .. 16 : p <= 16
  OBVIOUS
<1>. QED BY <1>3, <1>4 DEF TextBlock, a

LEMMA TextBlocksAre ==
  ASSUME NEW t \in Seq(Byte), NEW n \in Nat, n <= Filled(Len(t))
  PROVE  TextBlocks(t, n) \in Seq(Block) /\ Len(TextBlocks(t, n)) = n
<1>1. \A j \in 1 .. n : TextBlock(t, j) \in Block
  <2> SUFFICES ASSUME NEW j \in 1 .. n PROVE TextBlock(t, j) \in Block
    OBVIOUS
  <2>1. j \in 1 .. Filled(Len(t))
    <3>1. Filled(Len(t)) \in Nat
      BY FilledIs
    <3>. QED BY <3>1
  <2>. QED BY <2>1, TextBlockIs
<1>. QED BY <1>1 DEF TextBlocks

\* A string cut into its whole blocks.
Chop(s) == [j \in 1 .. Len(s) \div 16 |-> SubSeq(s, 16 * j - 15, 16 * j)]

LEMMA ChopIs ==
  ASSUME NEW s \in Seq(Byte), NEW n \in Nat, Len(s) = 16 * n
  PROVE  /\ Chop(s) \in Seq(Block) /\ Len(Chop(s)) = n
         /\ \A j \in 1 .. n, p \in 1 .. 16 : Chop(s)[j][p] = s[16 * (j - 1) + p]
<1>1. Len(s) \div 16 = n
  OBVIOUS
<1>2. \A j \in 1 .. n : Chop(s)[j] = SubSeq(s, 16 * j - 15, 16 * j)
  BY <1>1 DEF Chop
<1>3. ASSUME NEW j \in 1 .. n PROVE Chop(s)[j] \in Block /\ \A p \in 1 .. 16 : Chop(s)[j][p] = s[16 * (j - 1) + p]
  <2> DEFINE a == 16 * j - 16
             b == SubSeq(s, a + 1, a + 16)
  <2>1. a \in Nat /\ a + 16 <= Len(s) /\ 16 * j - 15 = a + 1 /\ 16 * j = a + 16 /\ 16 * (j - 1) = a
    OBVIOUS
  <2>2. Chop(s)[j] = b
    BY <1>2, <2>1
  <2> HIDE DEF a
  <2>3. b = [p \in 1 .. 16 |-> s[a + p]]
    BY <2>1
  <2>4. ASSUME NEW p \in 1 .. 16 PROVE s[a + p] \in Byte
    <3>1. a + p \in 1 .. Len(s)
      BY <2>1
    <3>. QED BY <3>1, SeqElement
  <2> HIDE DEF b
  <2>5. b \in Block
    BY <2>3, <2>4 DEF Block
  <2>. QED BY <2>1, <2>2, <2>3, <2>5
<1> DEFINE c == Chop(s)
<1>4. c = [j \in 1 .. n |-> c[j]]
  BY <1>1 DEF Chop
<1> HIDE DEF c
<1>5. \A j \in 1 .. n : c[j] \in Block
  BY <1>3 DEF c
<1>6. c \in Seq(Block) /\ Len(c) = n
  BY <1>4, <1>5
<1>. QED BY <1>3, <1>6 DEF c

LEMMA ChopCat ==
  ASSUME NEW s \in Seq(Byte), NEW t \in Seq(Byte), NEW m \in Nat, NEW n \in Nat, Len(s) = 16 * m, Len(t) = 16 * n
  PROVE  Chop(s \o t) = Chop(s) \o Chop(t)
<1> DEFINE w == s \o t
           c == Chop(s)
           d == Chop(t)
           e == Chop(w)
<1>1. w \in Seq(Byte) /\ Len(w) = Len(s) + Len(t) /\ (\A j \in 1 .. Len(s) : w[j] = s[j]) /\ \A j \in 1 .. Len(t) : w[Len(s) + j] = t[j]
  <2>1. IsCat(Byte, s, t, w)
    BY Joined
  <2>. QED BY <2>1 DEF IsCat
<1>2. Len(w) = 16 * (m + n) /\ m + n \in Nat
  BY <1>1
<1> HIDE DEF w
<1>3. c \in Seq(Block) /\ Len(c) = m /\ \A j \in 1 .. m, p \in 1 .. 16 : c[j][p] = s[16 * (j - 1) + p]
  BY ChopIs
<1>4. d \in Seq(Block) /\ Len(d) = n /\ \A j \in 1 .. n, p \in 1 .. 16 : d[j][p] = t[16 * (j - 1) + p]
  BY ChopIs
<1>5. e \in Seq(Block) /\ Len(e) = m + n /\ \A j \in 1 .. m + n, p \in 1 .. 16 : e[j][p] = w[16 * (j - 1) + p]
  BY <1>1, <1>2, ChopIs
<1> HIDE DEF c, d, e
<1>6. c \o d \in Seq(Block) /\ Len(c \o d) = m + n /\ (\A j \in 1 .. m : (c \o d)[j] = c[j]) /\ \A j \in 1 .. n : (c \o d)[m + j] = d[j]
  <2>1. IsCat(Block, c, d, c \o d)
    BY <1>3, <1>4, Joined
  <2>. QED BY <1>3, <1>4, <2>1 DEF IsCat
<1> DEFINE f == c \o d
<1> HIDE DEF f
<1>7. f \in Seq(Block) /\ Len(f) = m + n /\ (\A j \in 1 .. m : f[j] = c[j]) /\ \A j \in 1 .. n : f[m + j] = d[j]
  BY <1>6 DEF f
<1>8. ASSUME NEW j \in 1 .. m + n PROVE e[j] = f[j]
  <2>1. e[j] \in Block /\ f[j] \in Block
    BY <1>5, <1>7, SeqElement
  <2>2. CASE j <= m
    <3>1. j \in 1 .. m
      BY <2>2
    <3>2. ASSUME NEW p \in 1 .. 16 PROVE e[j][p] = f[j][p]
      <4>1. 16 * (j - 1) + p \in 1 .. Len(s)
        BY <3>1
      <4>2. w[16 * (j - 1) + p] = s[16 * (j - 1) + p]
        BY <1>1, <4>1
      <4>. QED BY <1>3, <1>5, <1>7, <3>1, <4>2
    <3>. QED BY <2>1, <3>2, SameBlock
  <2>3. CASE j > m
    <3> DEFINE k == j - m
    <3>1. k \in 1 .. n /\ m + k = j
      BY <2>3
    <3> HIDE DEF k
    <3>2. ASSUME NEW p \in 1 .. 16 PROVE e[j][p] = f[j][p]
      <4> DEFINE x == 16 * (k - 1) + p
      <4>1. x \in 1 .. Len(t) /\ 16 * (j - 1) + p = Len(s) + x
        BY <3>1
      <4>2. d[k][p] = t[x]
        BY <1>4, <3>1
      <4> HIDE DEF x
      <4>3. w[Len(s) + x] = t[x]
        BY <1>1, <4>1
      <4>4. e[j][p] = w[16 * (j - 1) + p]
        BY <1>5
      <4>5. f[j] = d[k]
        BY <1>7, <3>1
      <4>. QED BY <4>1, <4>2, <4>3, <4>4, <4>5
    <3>. QED BY <2>1, <3>2, SameBlock
  <2>. QED BY <2>2, <2>3
<1>9. e = f
  BY <1>5, <1>7, <1>8, SameSeq
<1>. QED BY <1>9 DEF e, f, c, d, w

\* A string filled up to whole blocks, cut, is its blocks.
LEMMA ChopFill ==
  ASSUME NEW s \in Seq(Byte)
  PROVE  /\ CCM!FillUp(s) \in Seq(Byte) /\ Len(CCM!FillUp(s)) = 16 * Filled(Len(s))
         /\ Chop(CCM!FillUp(s)) = TextBlocks(s, Filled(Len(s)))
<1> DEFINE len == Len(s)
           n == Filled(len)
           more == (16 - (len % 16)) % 16
           z == CCM!Zeroes(more)
           w == s \o z
<1>1. len \in Nat /\ n \in Nat /\ more \in Nat /\ len + more = 16 * n
  <2>1. len \in Nat
    OBVIOUS
  <2> HIDE DEF len
  <2>. QED BY <2>1 DEF Filled
<1>2. z \in Seq(Byte) /\ Len(z) = more /\ \A j \in 1 .. more : z[j] = 0
  <2>1. 0 \in Byte
    BY DEF Byte
  <2> HIDE DEF more
  <2>. QED BY <1>1, <2>1 DEF CCM!Zeroes
<1>3. CCM!FillUp(s) = w
  BY DEF CCM!FillUp
<1> HIDE DEF z, more, n
<1>4. w \in Seq(Byte) /\ Len(w) = Len(s) + Len(z) /\ (\A j \in 1 .. Len(s) : w[j] = s[j]) /\ \A j \in 1 .. Len(z) : w[Len(s) + j] = z[j]
  <2>1. IsCat(Byte, s, z, w)
    BY <1>2, Joined
  <2>. QED BY <2>1 DEF IsCat
<1> HIDE DEF w
<1>5. Len(w) = 16 * n
  BY <1>1, <1>2, <1>4
<1>6. Chop(w) \in Seq(Block) /\ Len(Chop(w)) = n /\ \A j \in 1 .. n, p \in 1 .. 16 : Chop(w)[j][p] = w[16 * (j - 1) + p]
  BY <1>1, <1>4, <1>5, ChopIs
<1>7. TextBlocks(s, n) \in Seq(Block) /\ Len(TextBlocks(s, n)) = n
  BY <1>1, TextBlocksAre DEF n
<1>8. ASSUME NEW j \in 1 .. n PROVE Chop(w)[j] = TextBlocks(s, n)[j]
  <2>0. TextBlocks(s, n)[j] = TextBlock(s, j)
    BY DEF TextBlocks
  <2>1. /\ TextBlock(s, j) \in Block
        /\ \A p \in 1 .. 16 : TextBlock(s, j)[p] = IF 16 * (j - 1) + p <= Len(s) THEN s[16 * (j - 1) + p] ELSE 0
    BY TextBlockIs DEF n
  <2>2. Chop(w)[j] \in Block
    BY <1>6, SeqElement
  <2>3. ASSUME NEW p \in 1 .. 16 PROVE Chop(w)[j][p] = TextBlock(s, j)[p]
    <3> DEFINE x == 16 * (j - 1) + p
    <3>1. x \in Nat /\ x >= 1 /\ x <= len + more
      BY <1>1
    <3>2. Chop(w)[j][p] = w[x] /\ TextBlock(s, j)[p] = IF x <= Len(s) THEN s[x] ELSE 0
      BY <1>6, <2>1
    <3> HIDE DEF x
    <3>3. CASE x <= Len(s)
      <4>1. x \in 1 .. Len(s)
        BY <3>1, <3>3, <1>1
      <4>. QED BY <1>4, <3>2, <3>3, <4>1
    <3>4. CASE ~(x <= Len(s))
      <4> DEFINE h == x - len
      <4>1. h \in 1 .. more /\ Len(s) + h = x
        BY <1>1, <3>1, <3>4
      <4> HIDE DEF h
      <4>2. w[Len(s) + h] = 0
        BY <1>2, <1>4, <4>1
      <4>. QED BY <3>2, <3>4, <4>1, <4>2
    <3>. QED BY <3>3, <3>4
  <2>. QED BY <2>0, <2>1, <2>2, <2>3, SameBlock
<1>9. Chop(w) = TextBlocks(s, n)
  BY <1>6, <1>7, <1>8, SameSeq
<1>. QED BY <1>3, <1>4, <1>5, <1>9 DEF n

LEMMA PaddedIs ==
  ASSUME NEW p \in Seq(Byte), Len(p) <= 16
  PROVE  CCM!Padded(p) \in Block /\ \A j \in 1 .. 16 : CCM!Padded(p)[j] = IF j <= Len(p) THEN p[j] ELSE 0
<1> DEFINE len == Len(p)
           z == CCM!Zeroes(16 - len)
           d == p \o z
<1>1. len \in Nat /\ 16 - len \in Nat
  OBVIOUS
<1>2. z \in Seq(Byte) /\ Len(z) = 16 - len /\ \A j \in 1 .. 16 - len : z[j] = 0
  <2>1. 0 \in Byte
    BY DEF Byte
  <2> HIDE DEF len
  <2>. QED BY <1>1, <2>1 DEF CCM!Zeroes
<1>3. CCM!Padded(p) = d
  BY DEF CCM!Padded, CCM!BLOCK
<1> HIDE DEF z
<1>4. IsCat(Byte, p, z, d)
  BY <1>2, Joined
<1> HIDE DEF d
<1>5. d \in Seq(Byte) /\ Len(d) = 16 /\ (\A j \in 1 .. len : d[j] = p[j]) /\ \A j \in 1 .. 16 - len : d[len + j] = 0
  <2>1. d \in Seq(Byte) /\ Len(d) = len + Len(z) /\ (\A j \in 1 .. len : d[j] = p[j]) /\ \A j \in 1 .. Len(z) : d[len + j] = z[j]
    BY <1>4 DEF IsCat
  <2> HIDE DEF len
  <2>2. Len(d) = 16
    BY <1>1, <1>2, <2>1
  <2>3. \A j \in 1 .. 16 - len : d[len + j] = 0
    BY <1>2, <2>1
  <2>. QED BY <2>1, <2>2, <2>3
<1>6. d \in Block
  BY <1>5, SeqBlock
<1>7. ASSUME NEW j \in 1 .. 16 PROVE d[j] = IF j <= len THEN p[j] ELSE 0
  <2> HIDE DEF len
  <2>1. CASE j <= len
    <3>1. j \in 1 .. len
      BY <1>1, <2>1
    <3>. QED BY <1>5, <2>1, <3>1
  <2>2. CASE ~(j <= len)
    <3> DEFINE k == j - len
    <3>1. k \in 1 .. 16 - len /\ len + k = j
      BY <1>1, <2>2
    <3> HIDE DEF k
    <3>2. d[len + k] = 0
      BY <1>5, <3>1
    <3>. QED BY <2>2, <3>1, <3>2
  <2>. QED BY <2>1, <2>2
<1>. QED BY <1>3, <1>6, <1>7

\* The formatting of NIST SP 800-38C, as blocks.
Zero16 == [j \in 1 .. 16 |-> 0]
TagSize == {l \in Nat : 4 <= l /\ l <= 16 /\ l % 2 = 0}
Flags(v, a, l) == (IF a = <<>> THEN 0 ELSE 64) + 4 * (l - 2) + 14 - Len(v)
FirstOf(v, a, l, n) == <<Flags(v, a, l)>> \o v \o CCM!Bytes(n, 15 - Len(v))
AddString(a) == CCM!Bytes(Len(a), 2) \o a
AddOf(a) == IF a = <<>> THEN <<>> ELSE TextBlocks(AddString(a), Filled(Len(a) + 2))
HeadOf(v, a, l, n) == <<FirstOf(v, a, l, n)>> \o AddOf(a)

LEMMA BytesTwo == ASSUME NEW n \in Nat PROVE CCM!Bytes(n, 2) \in Seq(Byte) /\ Len(CCM!Bytes(n, 2)) = 2
<1> DEFINE k == 2
<1>1. k \in Nat
  OBVIOUS
<1> HIDE DEF k
<1>2. CCM!Bytes(n, k) \in Seq(Byte) /\ Len(CCM!Bytes(n, k)) = k
  BY <1>1, BytesAre
<1>. QED BY <1>2 DEF k

LEMMA FilledMore == ASSUME NEW n \in Nat PROVE Filled(n + 2) \in Nat /\ n + 2 <= 16 * Filled(n + 2)
<1> DEFINE k == n + 2
<1>1. k \in Nat
  OBVIOUS
<1> HIDE DEF k
<1>2. Filled(k) \in Nat /\ k <= 16 * Filled(k)
  BY <1>1, FilledIs
<1>. QED BY <1>2 DEF k

LEMMA ZeroIs == Zero16 \in Block /\ CCM!Zeroes(16) = Zero16 /\ CCM!Zeroes(CCM!BLOCK) = Zero16
  BY DEF Zero16, Block, Byte, CCM!Zeroes, CCM!BLOCK

LEMMA FlagsAre ==
  ASSUME NEW v \in Nonce, NEW a, NEW l \in TagSize
  PROVE  Flags(v, a, l) \in Byte
<1>1. l \in Nat /\ 4 <= l /\ l <= 16
  BY DEF TagSize
<1>2. \A m \in Nat, c \in Nat : /\ 7 <= m /\ m <= 13 /\ 4 <= c /\ c <= 16
                            => 0 + 4 * (c - 2) + 14 - m \in 0 .. 255 /\ 64 + 4 * (c - 2) + 14 - m \in 0 .. 255
  OBVIOUS
<1>3. Len(v) \in Nat /\ 7 <= Len(v) /\ Len(v) <= 13
  BY NonceLength
<1>4. 0 + 4 * (l - 2) + 14 - Len(v) \in 0 .. 255 /\ 64 + 4 * (l - 2) + 14 - Len(v) \in 0 .. 255
  BY <1>1, <1>2, <1>3
<1>. QED BY <1>4 DEF Flags, Byte

LEMMA FirstTyped ==
  ASSUME NEW v \in Nonce, NEW a, NEW l \in TagSize, NEW n \in Nat
  PROVE  FirstOf(v, a, l, n) \in Block
  BY FlagsAre, NonceBlock DEF FirstOf

\* First and Formatted begin with that block.
LEMMA FirstIs ==
  ASSUME iv \in Nonce, tag_len \in TagSize, add \in Seq(Byte)
  PROVE  /\ (IF add # <<>> THEN 64 ELSE 0) + 8 * ((tag_len - 2) \div 2) + CCM!q - 1 = Flags(iv, add, tag_len)
         /\ 64 * (IF Len(add) > 0 THEN 1 ELSE 0) + 4 * (tag_len - 2) + (15 - Len(iv)) - 1 = Flags(iv, add, tag_len)
         /\ CCM!q = 15 - Len(iv)
<1>1. tag_len \in Nat /\ 4 <= tag_len /\ tag_len <= 16 /\ tag_len % 2 = 0
  BY DEF TagSize
<1>2. Len(iv) \in Nat /\ 7 <= Len(iv) /\ Len(iv) <= 13
  BY NonceLength
<1>3. \A l \in Nat : 4 <= l /\ l <= 16 /\ l % 2 = 0 => 8 * ((l - 2) \div 2) = 4 * (l - 2)
  OBVIOUS
<1>4. 8 * ((tag_len - 2) \div 2) = 4 * (tag_len - 2)
  BY <1>1, <1>3
<1>5. CCM!q = 15 - Len(iv)
  BY <1>2 DEF CCM!q
<1>6. add = <<>> <=> ~(Len(add) > 0)
  OBVIOUS
<1>7. \A m \in Nat, c \in Nat, x \in {0, 64} : x + 4 * (c - 2) + (15 - m) - 1 = x + 4 * (c - 2) + 14 - m
  OBVIOUS
<1>8. (IF add # <<>> THEN 64 ELSE 0) + 4 * (tag_len - 2) + (15 - Len(iv)) - 1 = Flags(iv, add, tag_len)
  <2>1. CASE add = <<>>
    BY <1>1, <1>2, <1>7, <2>1 DEF Flags
  <2>2. CASE add # <<>>
    BY <1>1, <1>2, <1>7, <2>2 DEF Flags
  <2>. QED BY <2>1, <2>2
<1>9. 64 * (IF Len(add) > 0 THEN 1 ELSE 0) = (IF add # <<>> THEN 64 ELSE 0)
  BY <1>6
<1>. QED BY <1>4, <1>5, <1>8, <1>9

LEMMA AddStringIs ==
  ASSUME NEW a \in Seq(Byte)
  PROVE  /\ AddString(a) \in Seq(Byte) /\ Len(AddString(a)) = Len(a) + 2
         /\ AddString(a)[1] = CCM!Bytes(Len(a), 2)[1] /\ AddString(a)[2] = CCM!Bytes(Len(a), 2)[2]
         /\ \A j \in 1 .. Len(a) : AddString(a)[2 + j] = a[j]
<1> DEFINE w == CCM!Bytes(Len(a), 2)
           s == AddString(a)
<1>1. w \in Seq(Byte) /\ Len(w) = 2
  <2>1. Len(a) \in Nat
    OBVIOUS
  <2> HIDE DEF w
  <2>. QED BY <2>1, BytesTwo DEF w
<1> HIDE DEF w
<1>2. IsCat(Byte, w, a, w \o a)
  BY <1>1, Joined
<1>3. s = w \o a
  BY DEF AddString, w
<1> HIDE DEF s
<1>4. s \in Seq(Byte) /\ Len(s) = 2 + Len(a) /\ (\A j \in 1 .. 2 : s[j] = w[j]) /\ \A j \in 1 .. Len(a) : s[2 + j] = a[j]
  BY <1>1, <1>2, <1>3 DEF IsCat
<1>5. 2 + Len(a) = Len(a) + 2
  OBVIOUS
<1>. QED BY <1>4, <1>5 DEF w, s

LEMMA AddOfTyped ==
  ASSUME NEW a \in Seq(Byte)
  PROVE  AddOf(a) \in Seq(Block)
<1>0. <<>> \in Seq(Block)
  OBVIOUS
<1> DEFINE s == AddString(a)
<1>1. s \in Seq(Byte) /\ Len(s) = Len(a) + 2
  BY AddStringIs
<1> HIDE DEF s
<1> DEFINE n == Filled(Len(a) + 2)
<1>2. n \in Nat /\ n <= Filled(Len(s))
  BY <1>1, FilledIs
<1> HIDE DEF n
<1>3. TextBlocks(s, n) \in Seq(Block)
  BY <1>1, <1>2, TextBlocksAre
<1>. QED BY <1>0, <1>3 DEF AddOf, s, n

LEMMA HeadTyped ==
  ASSUME NEW v \in Nonce, NEW a \in Seq(Byte), NEW l \in TagSize, NEW n \in Nat
  PROVE  HeadOf(v, a, l, n) \in Seq(Block)
<1> DEFINE f == FirstOf(v, a, l, n)
           w == AddOf(a)
<1>1. f \in Block /\ w \in Seq(Block)
  BY FirstTyped, AddOfTyped
<1> HIDE DEF f, w
<1>2. <<f>> \in Seq(Block)
  BY <1>1
<1>3. <<f>> \o w \in Seq(Block)
  BY <1>1, <1>2
<1>. QED BY <1>3 DEF HeadOf, f, w

\* The code's first block holds the length of the additional data and 14 bytes of it.
LEMMA AddBlockOne ==
  ASSUME NEW a \in Seq(Byte)
  PROVE  CCM!Padded(CCM!Bytes(Len(a), 2) \o CCM!Part(a, 0, 14)) = TextBlock(AddString(a), 1)
<1> DEFINE w == CCM!Bytes(Len(a), 2)
           p == CCM!Part(a, 0, 14)
           c == w \o p
           s == AddString(a)
           b == TextBlock(s, 1)
<1>0. Len(a) \in Nat
  OBVIOUS
<1>1. w \in Seq(Byte) /\ Len(w) = 2
  <2> HIDE DEF w
  <2>. QED BY <1>0, BytesTwo DEF w
<1>2. p \in Seq(Byte) /\ Len(p) = (IF 14 < Len(a) - 0 THEN 14 ELSE Len(a) - 0) /\ \A j \in 1 .. Len(p) : p[j] = a[0 + j]
  <2> DEFINE o == 0
             h == 14
             v == CCM!Part(a, o, h)
  <2>1. o \in Nat /\ o <= Len(a) /\ h \in Nat /\ h <= 16
    BY <1>0
  <2> HIDE DEF o, h
  <2>2. v \in Seq(Byte) /\ Len(v) = (IF h < Len(a) - o THEN h ELSE Len(a) - o) /\ \A j \in 1 .. Len(v) : v[j] = a[o + j]
    BY <2>1, PaddedPart
  <2>. QED BY <2>2 DEF o, h
<1>3. s \in Seq(Byte) /\ Len(s) = Len(a) + 2 /\ s[1] = w[1] /\ s[2] = w[2] /\ \A j \in 1 .. Len(a) : s[2 + j] = a[j]
  BY AddStringIs
<1> HIDE DEF w, p, s
<1>4. c \in Seq(Byte) /\ Len(c) = 2 + Len(p) /\ (\A j \in 1 .. 2 : c[j] = w[j]) /\ \A j \in 1 .. Len(p) : c[2 + j] = p[j]
  <2>1. IsCat(Byte, w, p, c)
    BY <1>1, <1>2, Joined
  <2>. QED BY <1>1, <2>1 DEF IsCat
<1> HIDE DEF c
<1>5. Len(p) \in Nat /\ Len(c) <= 16
  BY <1>0, <1>2, <1>4
<1>6. CCM!Padded(c) \in Block /\ \A j \in 1 .. 16 : CCM!Padded(c)[j] = IF j <= Len(c) THEN c[j] ELSE 0
  BY <1>4, <1>5, PaddedIs
<1>7. b \in Block /\ \A j \in 1 .. 16 : b[j] = IF j <= Len(s) THEN s[j] ELSE 0
  <2>0. 1 \in 1 .. Filled(Len(s))
    <3>1. Filled(Len(a) + 2) \in Nat /\ Len(a) + 2 <= 16 * Filled(Len(a) + 2)
      BY <1>0, FilledMore
    <3>. QED BY <1>0, <1>3, <3>1
  <2>1. TextBlock(s, 1) \in Block /\ \A j \in 1 .. 16 : TextBlock(s, 1)[j] = IF 16 * (1 - 1) + j <= Len(s) THEN s[16 * (1 - 1) + j] ELSE 0
    BY <1>3, <2>0, TextBlockIs
  <2>2. \A j \in 1 .. 16 : 16 * (1 - 1) + j = j
    OBVIOUS
  <2>. QED BY <2>1, <2>2
<1> HIDE DEF b
<1>8. ASSUME NEW j \in 1 .. 16 PROVE CCM!Padded(c)[j] = b[j]
  <2>1. CASE j <= 2
    <3>1. (j = 1 \/ j = 2) /\ j \in 1 .. 2 /\ j <= Len(c) /\ j <= Len(s)
      BY <1>0, <1>3, <1>4, <1>5, <2>1
    <3>. QED BY <1>3, <1>4, <1>6, <1>7, <3>1
  <2>2. CASE j > 2 /\ j - 2 <= Len(p)
    <3> DEFINE k == j - 2
    <3>1. k \in 1 .. Len(p) /\ k \in 1 .. Len(a) /\ 2 + k = j /\ 0 + k = k /\ j <= Len(c) /\ j <= Len(s)
      BY <1>0, <1>2, <1>3, <1>4, <1>5, <2>2
    <3> HIDE DEF k
    <3>2. c[2 + k] = a[k] /\ s[2 + k] = a[k]
      BY <1>2, <1>3, <1>4, <3>1
    <3>. QED BY <1>6, <1>7, <3>1, <3>2
  <2>3. CASE j > 2 /\ j - 2 > Len(p)
    <3>1. ~(j <= Len(c)) /\ ~(j <= Len(s))
      BY <1>0, <1>2, <1>3, <1>4, <1>5, <2>3
    <3>. QED BY <1>6, <1>7, <3>1
  <2>. QED BY <1>5, <2>1, <2>2, <2>3
<1>9. CCM!Padded(c) = b
  BY <1>6, <1>7, <1>8, SameBlock
<1>. QED BY <1>9 DEF c, w, p, b, s

\* Its other blocks hold the rest.
LEMMA AddBlockMore ==
  ASSUME NEW a \in Seq(Byte), NEW j \in Nat, j >= 1, 14 + 16 * (j - 1) < Len(a)
  PROVE  CCM!Padded(CCM!Part(a, 14 + 16 * (j - 1), 16)) = TextBlock(AddString(a), 1 + j)
<1> DEFINE x == 14 + 16 * (j - 1)
           s == AddString(a)
           c == CCM!Padded(CCM!Part(a, x, 16))
           m == 1 + j
           b == TextBlock(s, m)
<1>0. Len(a) \in Nat /\ x \in Nat /\ x <= Len(a) /\ x < Len(a) /\ 16 \in Nat /\ 16 <= 16 /\ m \in Nat /\ m >= 1 /\ 16 * (m - 1) = x + 2
  OBVIOUS
<1> HIDE DEF x, m
<1>3. s \in Seq(Byte) /\ Len(s) = Len(a) + 2 /\ \A k \in 1 .. Len(a) : s[2 + k] = a[k]
  BY AddStringIs
<1>4. c \in Block /\ \A k \in 1 .. 16 : c[k] = IF k <= 16 /\ x + k <= Len(a) THEN a[x + k] ELSE 0
  BY <1>0, PaddedPart
<1> HIDE DEF s, c
<1>5. m \in 1 .. Filled(Len(s))
  <2>1. Filled(Len(a) + 2) \in Nat /\ Len(a) + 2 <= 16 * Filled(Len(a) + 2)
    BY <1>0, FilledMore
  <2>. QED BY <1>0, <1>3, <2>1
<1>6. b \in Block /\ \A k \in 1 .. 16 : b[k] = IF 16 * (m - 1) + k <= Len(s) THEN s[16 * (m - 1) + k] ELSE 0
  BY <1>3, <1>5, TextBlockIs
<1> HIDE DEF b
<1>7. ASSUME NEW k \in 1 .. 16 PROVE c[k] = b[k]
  <2> DEFINE y1 == x + k
  <2>1. y1 \in Nat /\ y1 >= 1 /\ 16 * (m - 1) + k = 2 + y1 /\ k <= 16 /\ (2 + y1 <= Len(s) <=> y1 <= Len(a))
    BY <1>0, <1>3
  <2>2. c[k] = (IF y1 <= Len(a) THEN a[y1] ELSE 0) /\ b[k] = IF 2 + y1 <= Len(s) THEN s[2 + y1] ELSE 0
    <3>1. c[k] = (IF y1 <= Len(a) THEN a[y1] ELSE 0)
      BY <1>4, <2>1
    <3>2. b[k] = IF 2 + y1 <= Len(s) THEN s[2 + y1] ELSE 0
      <4> DEFINE p == 16 * (m - 1) + k
      <4>1. b[k] = IF p <= Len(s) THEN s[p] ELSE 0
        BY <1>6
      <4>2. p = 2 + y1
        BY <2>1
      <4> HIDE DEF p, y1
      <4>. QED BY <4>1, <4>2
    <3>. QED BY <3>1, <3>2
  <2> HIDE DEF y1
  <2>3. y1 <= Len(a) => s[2 + y1] = a[y1]
    BY <1>0, <1>3, <2>1
  <2>. QED BY <2>1, <2>2, <2>3
<1>8. c = b
  BY <1>4, <1>6, <1>7, SameBlock
<1>. QED BY <1>8 DEF c, b, x, m, s

LEMMA AddBlocksAre ==
  ASSUME add \in Seq(Byte)
  PROVE  CCM!AddBlocks = AddOf(add)
<1>1. CASE add = <<>>
  BY <1>1 DEF CCM!AddBlocks, AddOf
<1>2. CASE add # <<>>
  <2> DEFINE len == Len(add)
             s == AddString(add)
             n == Filled(len + 2)
             m == IF len > 14 THEN (len + 1) \div 16 ELSE 0
             f == CCM!Padded(CCM!Bytes(Len(add), 2) \o CCM!Part(add, 0, 14))
             g(i) == CCM!Padded(CCM!Part(add, 14 + 16 * (i - 1), 16))
             r == [i \in 1 .. m |-> g(i)]
             t == TextBlocks(s, n)
  <2>1. len \in Nat /\ m \in Nat /\ n = 1 + m /\ n \in Nat /\ (\A i \in Nat : i >= 1 /\ i <= m => 14 + 16 * (i - 1) < len)
    <3>1. len \in Nat
      OBVIOUS
    <3> HIDE DEF len
    <3>. QED BY <3>1 DEF Filled
  <2>2. CCM!AddBlocks = <<f>> \o r
    BY <1>2 DEF CCM!AddBlocks
  <2>3. f = TextBlock(s, 1)
    BY AddBlockOne
  <2>4. ASSUME NEW i \in Nat, i >= 1, i <= m PROVE g(i) = TextBlock(s, 1 + i)
    <3>1. 14 + 16 * (i - 1) < len
      BY <2>1, <2>4
    <3>. QED BY <2>4, <3>1, AddBlockMore
  <2>5. s \in Seq(Byte) /\ Len(s) = len + 2
    BY AddStringIs
  <2>6. t \in Seq(Block) /\ Len(t) = n
    <3>1. n <= Filled(Len(s))
      BY <2>1, <2>5
    <3> HIDE DEF n, s
    <3>. QED BY <2>1, <2>5, <3>1, TextBlocksAre
  <2>7. \A j \in 1 .. n : t[j] = TextBlock(s, j)
    BY DEF TextBlocks
  <2> HIDE DEF f, g, t, n, m, s, len
  <2>8. ASSUME NEW i \in 1 .. m PROVE g(i) = t[1 + i] /\ g(i) \in Block
    <3>1. i \in Nat /\ i >= 1 /\ i <= m /\ 1 + i \in 1 .. n
      BY <2>1
    <3>2. t[1 + i] \in Block
      BY <2>6, <3>1, SeqElement
    <3>. QED BY <2>4, <2>7, <3>1, <3>2
  <2>9. f = t[1] /\ f \in Block
    <3>1. 1 \in 1 .. n
      BY <2>1
    <3>2. t[1] \in Block
      BY <2>6, <3>1, SeqElement
    <3>. QED BY <2>3, <2>7, <3>1, <3>2
  <2>10. r \in Seq(Block) /\ Len(r) = m /\ \A i \in 1 .. m : r[i] = g(i)
    BY <2>1, <2>8
  <2> HIDE DEF r
  <2> DEFINE u == <<f>> \o r
  <2>11. u \in Seq(Block) /\ Len(u) = 1 + m /\ u[1] = f /\ \A i \in 1 .. m : u[1 + i] = r[i]
    <3>1. <<f>> \in Seq(Block) /\ Len(<<f>>) = 1 /\ <<f>>[1] = f
      BY <2>9
    <3>2. IsCat(Block, <<f>>, r, u)
      BY <2>10, <3>1, Joined
    <3>3. 1 \in 1 .. 1
      OBVIOUS
    <3> HIDE DEF u
    <3>. QED BY <2>10, <3>1, <3>2, <3>3 DEF IsCat
  <2> HIDE DEF u
  <2>12. ASSUME NEW j \in 1 .. n PROVE u[j] = t[j]
    <3>1. CASE j = 1
      BY <2>9, <2>11, <3>1
    <3>2. CASE j # 1
      <4> DEFINE i == j - 1
      <4>1. i \in 1 .. m /\ 1 + i = j
        BY <2>1, <3>2
      <4> HIDE DEF i
      <4>. QED BY <2>8, <2>10, <2>11, <4>1
    <3>. QED BY <3>1, <3>2
  <2>13. u = t
    BY <2>1, <2>6, <2>11, <2>12, SameSeq
  <2>. QED BY <1>2, <2>2, <2>13 DEF AddOf, u, t, n, s, len
<1>. QED BY <1>1, <1>2

\* What the CBC-MAC runs over: the formatting's head and n blocks of a text.
Under(v, a, l, t, n) == HeadOf(v, a, l, Len(t)) \o TextBlocks(t, n)
MacOver(k, v, a, l, t, n) == CcmMacAll(k, Zero16, Under(v, a, l, t, n))
KeyStream(k, v, n) == CcmCipher(k, CounterBlock(v, n))
Masked(k, v, l, m) == SubSeq(CCM!Xor16(m, KeyStream(k, v, 0)), 1, l)
TagFor(k, v, a, l, t) == Masked(k, v, l, MacOver(k, v, a, l, t, Filled(Len(t))))

LEMMA ChopOne ==
  ASSUME NEW b \in Block
  PROVE  Chop(b) = <<b>>
<1> DEFINE n == 1
           c == Chop(b)
<1>0. b \in Seq(Byte) /\ Len(b) = 16
  BY BlockSeq
<1>1. n \in Nat /\ Len(b) = 16 * n
  BY <1>0
<1> HIDE DEF n
<1>2. c \in Seq(Block) /\ Len(c) = n /\ \A j \in 1 .. n, p \in 1 .. 16 : c[j][p] = b[16 * (j - 1) + p]
  BY <1>0, <1>1, ChopIs
<1> HIDE DEF c
<1>3. n = 1
  BY DEF n
<1>4. Len(c) = 1 /\ 1 \in 1 .. n
  BY <1>2, <1>3
<1>5. c[1] \in Block
  BY <1>2, <1>4, SeqElement
<1>6. ASSUME NEW p \in 1 .. 16 PROVE c[1][p] = b[p]
  <2>1. 16 * (1 - 1) + p = p
    OBVIOUS
  <2>. QED BY <1>2, <1>4, <2>1
<1>7. c[1] = b
  BY <1>5, <1>6, SameBlock
<1>8. <<b>> \in Seq(Block) /\ Len(<<b>>) = 1
  OBVIOUS
<1>9. c = <<b>>
  <2>1. \A j \in 1 .. Len(c) : c[j] = <<b>>[j]
    BY <1>4, <1>7
  <2> DEFINE d == <<b>>
  <2> HIDE DEF d
  <2>2. d \in Seq(Block) /\ Len(c) = Len(d) /\ \A j \in 1 .. Len(c) : c[j] = d[j]
    BY <1>4, <1>8, <2>1 DEF d
  <2>3. c = d
    BY <1>2, <2>2, SameSeq
  <2>. QED BY <2>3 DEF d
<1>. QED BY <1>9 DEF c

\* The additional data filled up.
LEMMA ChopAdd ==
  ASSUME NEW a \in Seq(Byte)
  PROVE  \E n \in Nat : LET w == IF a = <<>> THEN <<>> ELSE CCM!FillUp(AddString(a)) IN
            w \in Seq(Byte) /\ Len(w) = 16 * n /\ Chop(w) = AddOf(a)
<1>1. CASE a = <<>>
  <2> DEFINE n == 0
             e == <<>>
             c == Chop(e)
  <2>1. n \in Nat /\ e \in Seq(Byte) /\ Len(e) = 16 * n
    OBVIOUS
  <2>2. c \in Seq(Block) /\ Len(c) = 0
    <3>1. n = 0
      OBVIOUS
    <3> HIDE DEF n, e
    <3>. QED BY <2>1, <3>1, ChopIs
  <2>3. c = <<>>
    <3> HIDE DEF c
    <3>. QED BY <2>2
  <2>. QED BY <1>1, <2>1, <2>3 DEF AddOf
<1>2. CASE a # <<>>
  <2> DEFINE s == AddString(a)
             w == CCM!FillUp(s)
  <2>1. s \in Seq(Byte) /\ Len(s) = Len(a) + 2
    BY AddStringIs
  <2> HIDE DEF s
  <2>2. w \in Seq(Byte) /\ Len(w) = 16 * Filled(Len(s)) /\ Chop(w) = TextBlocks(s, Filled(Len(s)))
    BY <2>1, ChopFill
  <2>3. Filled(Len(s)) \in Nat
    <3>1. Len(s) \in Nat
      BY <2>1
    <3>. QED BY <3>1, FilledIs
  <2>4. Chop(w) = AddOf(a)
    BY <1>2, <2>1, <2>2 DEF AddOf, s
  <2>. QED BY <1>2, <2>2, <2>3, <2>4 DEF s
<1>. QED BY <1>1, <1>2

\* The formatted string, cut into blocks.
LEMMA FormattedIs ==
  ASSUME iv \in Nonce, tag_len \in TagSize, add \in Seq(Byte), NEW t \in Seq(Byte)
  PROVE  CCM!Formatted(t) \in Seq(Byte) /\ Chop(CCM!Formatted(t)) = Under(iv, add, tag_len, t, Filled(Len(t)))
<1> DEFINE f == FirstOf(iv, add, tag_len, Len(t))
           w == IF add = <<>> THEN <<>> ELSE CCM!FillUp(AddString(add))
           u == CCM!FillUp(t)
           n == Filled(Len(t))
<1>0. Len(t) \in Nat
  OBVIOUS
<1>1. f \in Block
  BY <1>0, FirstTyped
<1>2. PICK m \in Nat : w \in Seq(Byte) /\ Len(w) = 16 * m /\ Chop(w) = AddOf(add)
  BY ChopAdd
<1>3. u \in Seq(Byte) /\ Len(u) = 16 * n /\ Chop(u) = TextBlocks(t, n) /\ n \in Nat
  BY <1>0, ChopFill, FilledIs
<1>4. CCM!Formatted(t) = (f \o w) \o u
  BY FirstIs DEF CCM!Formatted, FirstOf, AddString
<1>5. HeadOf(iv, add, tag_len, Len(t)) = <<f>> \o Chop(w)
  BY <1>2 DEF HeadOf
<1>50. Under(iv, add, tag_len, t, Filled(Len(t))) = (<<f>> \o Chop(w)) \o Chop(u)
  BY <1>3, <1>5 DEF Under
<1> HIDE DEF f, w, u, n
<1> DEFINE x == f \o w
           o == 1
           h == o + m
<1>6. f \in Seq(Byte) /\ Len(f) = 16 /\ Chop(f) = <<f>>
  BY <1>1, BlockSeq, ChopOne
<1>7. o \in Nat /\ Len(f) = 16 * o
  BY <1>6
<1>8. IsCat(Byte, f, w, x)
  BY <1>2, <1>6, Joined
<1>9. x \in Seq(Byte) /\ Len(x) = Len(f) + Len(w)
  BY <1>8 DEF IsCat
<1>10. h \in Nat /\ Len(x) = 16 * h
  BY <1>2, <1>7, <1>9
<1>11. Chop(x) = Chop(f) \o Chop(w)
  <2> HIDE DEF o
  <2>. QED BY <1>2, <1>6, <1>7, ChopCat
<1> HIDE DEF x, h, o
<1>12. Chop(x \o u) = Chop(x) \o Chop(u)
  BY <1>3, <1>9, <1>10, ChopCat
<1>13. IsCat(Byte, x, u, x \o u)
  BY <1>3, <1>9, Joined
<1>14. x \o u \in Seq(Byte)
  BY <1>13 DEF IsCat
<1>. QED BY <1>4, <1>50, <1>6, <1>11, <1>12, <1>14 DEF x

LEMMA UnderTyped ==
  ASSUME NEW v \in Nonce, NEW a \in Seq(Byte), NEW l \in TagSize, NEW t \in Seq(Byte),
         NEW n \in Nat, n <= Filled(Len(t))
  PROVE  Under(v, a, l, t, n) \in Seq(Block)
<1> DEFINE h == HeadOf(v, a, l, Len(t))
           u == TextBlocks(t, n)
<1>1. h \in Seq(Block) /\ u \in Seq(Block)
  <2>1. Len(t) \in Nat
    OBVIOUS
  <2>. QED BY <2>1, HeadTyped, TextBlocksAre
<1> HIDE DEF h, u
<1>2. h \o u \in Seq(Block)
  BY <1>1
<1>. QED BY <1>2 DEF Under, h, u

LEMMA MacOverTyped ==
  ASSUME CcmGood, NEW k \in CcmKeys, NEW v \in Nonce, NEW a \in Seq(Byte), NEW l \in TagSize, NEW t \in Seq(Byte),
         NEW n \in Nat, n <= Filled(Len(t))
  PROVE  MacOver(k, v, a, l, t, n) \in Block
<1> DEFINE u == Under(v, a, l, t, n)
<1>1. u \in Seq(Block)
  BY UnderTyped
<1> HIDE DEF u
<1>2. CcmMacAll(k, Zero16, u) \in Block
  BY <1>1, ZeroIs, MacAllTyped
<1>. QED BY <1>2 DEF MacOver, u

LEMMA KeyStreamTyped ==
  ASSUME CcmGood, NEW k \in CcmKeys, NEW v \in Nonce, NEW n \in Nat
  PROVE  KeyStream(k, v, n) \in Block
<1> DEFINE c == CounterBlock(v, n)
<1>1. c \in Block
  BY CounterIs
<1> HIDE DEF c
<1>2. CcmCipher(k, c) \in Block
  BY <1>1, BlockOps
<1>. QED BY <1>2 DEF KeyStream, c

LEMMA MaskedIs ==
  ASSUME CcmGood, NEW k \in CcmKeys, NEW v \in Nonce, NEW l \in TagSize, NEW m \in Block
  PROVE  Masked(k, v, l, m) \in Seq(Byte) /\ Len(Masked(k, v, l, m)) = l
<1> DEFINE z == 0
           s == KeyStream(k, v, z)
           b == CCM!Xor16(m, s)
<1>1. s \in Block
  <2>1. z \in Nat
    OBVIOUS
  <2> HIDE DEF z
  <2>. QED BY <2>1, KeyStreamTyped
<1> HIDE DEF s
<1>2. b \in Block
  BY <1>1, BlockOps
<1> HIDE DEF b
<1>3. b \in Seq(Byte) /\ Len(b) = 16
  BY <1>2, BlockSeq
<1>4. l \in Nat /\ l <= 16
  BY DEF TagSize
<1>5. SubSeq(b, 0 + 1, 0 + l) \in Seq(Byte) /\ Len(SubSeq(b, 0 + 1, 0 + l)) = l
  <2> DEFINE a == 0
             c == SubSeq(b, a + 1, a + l)
  <2>1. a \in Nat /\ a + l <= Len(b)
    BY <1>3, <1>4
  <2> HIDE DEF a
  <2>2. c \in Seq(Byte) /\ Len(c) = l
    BY <1>3, <1>4, <2>1, SubSeqIs
  <2>. QED BY <2>2 DEF a
<1>6. 0 + 1 = 1 /\ 0 + l = l
  BY <1>4
<1>7. Masked(k, v, l, m) = SubSeq(b, 1, l)
  BY DEF Masked, b, s, z
<1>. QED BY <1>5, <1>6, <1>7

\* The tag of the definition.
LEMMA TagOfIs ==
  ASSUME CcmGood, key \in CcmKeys, iv \in Nonce, tag_len \in TagSize, add \in Seq(Byte), NEW t \in Seq(Byte)
  PROVE  CCM!TagOf(t) = TagFor(key, iv, add, tag_len, t)
<1> DEFINE w == CCM!Formatted(t)
<1>1. Chop(w) = Under(iv, add, tag_len, t, Filled(Len(t)))
  BY FormattedIs
<1>2. CCM!CbcMac(w) = CCM!MacAll(Zero16, Chop(w))
  <2> HIDE DEF w
  <2>. QED BY ZeroIs DEF CCM!CbcMac, Chop
<1>3. CCM!CbcMac(w) = MacOver(key, iv, add, tag_len, t, Filled(Len(t)))
  BY <1>1, <1>2, MacAllIs DEF MacOver
<1>4. CCM!S(0) = KeyStream(key, iv, 0)
  <2>1. Len(iv) \in Nat
    BY NonceLength
  <2>2. 14 - Len(iv) = 15 - Len(iv) - 1
    BY <2>1
  <2>. QED BY <2>2 DEF CCM!S, KeyStream, CounterBlock
<1>. QED BY <1>3, <1>4 DEF CCM!TagOf, TagFor, Masked

\* The key stream of the definition.
LEMMA SIs ==
  ASSUME iv \in Nonce, NEW n \in Nat
  PROVE  CCM!S(n) = KeyStream(key, iv, n)
<1>1. Len(iv) \in Nat
  BY NonceLength
<1>2. 14 - Len(iv) = 15 - Len(iv) - 1
  BY <1>1
<1>. QED BY <1>2 DEF CCM!S, KeyStream, CounterBlock

\* The code's tag: counter zero is the counter block with its last bytes cleared.
LEMMA MaskedTagIs ==
  ASSUME iv \in Nonce, NEW n \in Nat, ctr = CounterBlock(iv, n)
  PROVE  CCM!MaskedTag = Masked(key, iv, tag_len, y)
<1> DEFINE zero == [i \in 1 .. CCM!BLOCK |-> IF i > CCM!BLOCK - CCM!q THEN 0 ELSE ctr[i]]
           l == Len(iv)
           o == 0
           d == CounterBlock(iv, o)
           c == CounterBlock(iv, n)
<1>0. l \in Nat /\ 7 <= l /\ l <= 13
  BY NonceLength
<1>1. CCM!BLOCK = 16 /\ CCM!BLOCK - CCM!q = l + 1
  BY <1>0 DEF CCM!BLOCK, CCM!q
<1>2. d \in Block /\ d = [j \in 1 .. 16 |-> IF j = 1 THEN 14 - l ELSE IF j <= l + 1 THEN iv[j - 1] ELSE Digit(o, 16 - j)]
  <2>1. o \in Nat
    OBVIOUS
  <2> HIDE DEF o
  <2>. QED BY <2>1, CounterIs
<1>3. c \in Block /\ c = [j \in 1 .. 16 |-> IF j = 1 THEN 14 - l ELSE IF j <= l + 1 THEN iv[j - 1] ELSE Digit(n, 16 - j)]
  BY CounterIs
<1>4. \A j \in 1 .. 16 : Digit(o, 16 - j) = 0
  BY DEF Digit
<1>5. zero = [j \in 1 .. 16 |-> IF j > l + 1 THEN 0 ELSE c[j]]
  BY <1>1
<1> HIDE DEF zero, d, c, l
<1>6. ASSUME NEW j \in 1 .. 16 PROVE (IF j > l + 1 THEN 0 ELSE c[j]) = d[j]
  BY <1>0, <1>2, <1>3, <1>4
<1>7. zero = d
  <2>1. d = [j \in 1 .. 16 |-> d[j]]
    BY <1>2 DEF Block
  <2>. QED BY <1>5, <1>6, <2>1
<1>. QED BY <1>7 DEF CCM!MaskedTag, Masked, KeyStream, zero, d

\* A block of a buffer through a block of key stream.
Through(b, a, s) == [i \in 1 .. Len(b) |-> IF a < i /\ i <= a + 16 THEN Xor(b[i], s[i - a]) ELSE b[i]]

LEMMA ThroughTyped ==
  ASSUME NEW b \in Seq(Byte), NEW a \in Nat, NEW s \in Block
  PROVE  /\ Through(b, a, s) \in Seq(Byte) /\ Len(Through(b, a, s)) = Len(b)
         /\ \A i \in 1 .. Len(b) : Through(b, a, s)[i] = IF a < i /\ i <= a + 16 THEN Xor(b[i], s[i - a]) ELSE b[i]
<1> DEFINE n == Len(b)
           e(i) == IF a < i /\ i <= a + 16 THEN Xor(b[i], s[i - a]) ELSE b[i]
<1>0. n \in Nat
  OBVIOUS
<1>1. ASSUME NEW i \in 1 .. n PROVE e(i) \in Byte
  <2>1. b[i] \in Byte
    BY SeqElement
  <2>2. CASE a < i /\ i <= a + 16
    <3>1. i - a \in 1 .. 16
      BY <2>2
    <3>2. s[i - a] \in Byte
      BY <3>1 DEF Block
    <3>3. Xor(b[i], s[i - a]) \in Byte
      BY <2>1, <3>2, XorBits
    <3>. QED BY <2>2, <3>3
  <2>. QED BY <2>1, <2>2
<1>2. Through(b, a, s) = [i \in 1 .. n |-> e(i)]
  BY DEF Through
<1>3. \A i \in 1 .. n : Through(b, a, s)[i] = e(i)
  BY <1>2
<1>. QED BY <1>0, <1>1, <1>2, <1>3

\* What a turn of the message loop does with the buffer.
LEMMA CryptedIs ==
  ASSUME buf \in Seq(Byte), at \in Nat, at < Len(buf), NEW s \in Block, s = CcmCipher(key, ctr),
         NEW n \in Nat, at = 16 * n
  PROVE  /\ CCM!InPlace(CCM!Crypted) = Through(buf, at, s)
         /\ CCM!Padded(CCM!Crypted) = TextBlock(Through(buf, at, s), n + 1)
         /\ CCM!Padded(CCM!Part(buf, at, 16)) = TextBlock(buf, n + 1)
<1> DEFINE len == Len(buf)
           p == CCM!Part(buf, at, 16)
           m == IF 16 < len - at THEN 16 ELSE len - at
           c == [i \in 1 .. m |-> Xor(buf[at + i], s[i])]
           w == Through(buf, at, s)
<1>0. len \in Nat
  OBVIOUS
<1>1. Len(p) = m
  BY DEF CCM!Part, CCM!Smaller
<1>2. m \in Nat /\ 1 <= m /\ m <= 16 /\ at + m <= len /\ (m = 16 \/ at + m = len)
  <2>1. at < len
    OBVIOUS
  <2> HIDE DEF len
  <2>. QED BY <1>0, <2>1
<1>3. CCM!Crypted = c
  BY <1>1 DEF CCM!Crypted
<1>4. w \in Seq(Byte) /\ Len(w) = len /\ \A i \in 1 .. len : w[i] = IF at < i /\ i <= at + 16 THEN Xor(buf[i], s[i - at]) ELSE buf[i]
  BY ThroughTyped
<1>5. ASSUME NEW i \in 1 .. m PROVE c[i] = w[at + i] /\ c[i] \in Byte
  <2>1. at + i \in 1 .. len /\ at < at + i /\ at + i <= at + 16 /\ at + i - at = i
    BY <1>0, <1>2
  <2>2. w[at + i] = Xor(buf[at + i], s[i])
    BY <1>4, <2>1
  <2>3. w[at + i] \in Byte
    BY <1>4, <2>1, SeqElement
  <2>. QED BY <2>2, <2>3
<1> HIDE DEF p, m, w
<1>6. c \in Seq(Byte) /\ Len(c) = m
  BY <1>2, <1>5
<1>7. CCM!InPlace(c) = w
  <2>1. DOMAIN buf = 1 .. len
    OBVIOUS
  <2>2. CCM!InPlace(c) = [i \in 1 .. len |-> IF i \in at + 1 .. at + m THEN c[i - at] ELSE buf[i]]
    <3> HIDE DEF c, len
    <3>. QED BY <1>6, <2>1 DEF CCM!InPlace
  <2>3. ASSUME NEW i \in 1 .. len PROVE (IF i \in at + 1 .. at + m THEN c[i - at] ELSE buf[i]) = w[i]
    <3>1. CASE i \in at + 1 .. at + m
      <4> DEFINE j == i - at
      <4>1. j \in 1 .. m /\ at + j = i
        BY <1>0, <1>2, <3>1
      <4> HIDE DEF j
      <4>2. c[j] = w[at + j]
        BY <1>5, <4>1
      <4> HIDE DEF c
      <4>. QED BY <3>1, <4>1, <4>2 DEF j
    <3>2. CASE ~(i \in at + 1 .. at + m)
      <4>1. ~(at < i /\ i <= at + 16)
        BY <1>0, <1>2, <3>2
      <4> HIDE DEF c
      <4>. QED BY <1>4, <3>2, <4>1
    <3>. QED BY <3>1, <3>2
  <2>4. w = [i \in 1 .. len |-> w[i]]
    BY <1>4, SeqElement
  <2> HIDE DEF c
  <2>. QED BY <2>2, <2>3, <2>4
<1> HIDE DEF c
<1>8. n + 1 \in Nat /\ n + 1 >= 1 /\ 16 * (n + 1 - 1) = at /\ n + 1 \in 1 .. Filled(len)
  <2>1. Filled(len) \in Nat /\ len <= 16 * Filled(len)
    BY <1>0, FilledIs
  <2>. QED BY <1>0, <2>1
<1> DEFINE k == n + 1
<1>9. CCM!Padded(p) = TextBlock(buf, k)
  BY <1>8 DEF TextBlock, p
<1>10. k \in 1 .. Filled(Len(w)) /\ 16 * (k - 1) = at
  BY <1>4, <1>8
<1> HIDE DEF k
<1>11. TextBlock(w, k) \in Block /\ \A j \in 1 .. 16 : TextBlock(w, k)[j] = IF 16 * (k - 1) + j <= Len(w) THEN w[16 * (k - 1) + j] ELSE 0
  BY <1>4, <1>10, TextBlockIs
<1>12. CCM!Padded(c) \in Block /\ \A j \in 1 .. 16 : CCM!Padded(c)[j] = IF j <= Len(c) THEN c[j] ELSE 0
  BY <1>2, <1>6, PaddedIs
<1>13. ASSUME NEW j \in 1 .. 16 PROVE CCM!Padded(c)[j] = TextBlock(w, k)[j]
  <2>1. TextBlock(w, k)[j] = IF at + j <= len THEN w[at + j] ELSE 0
    BY <1>4, <1>10, <1>11
  <2>2. CASE j <= m
    <3>1. j \in 1 .. m /\ at + j <= len /\ j <= Len(c)
      BY <1>0, <1>2, <1>6, <2>2
    <3>. QED BY <1>5, <1>12, <2>1, <3>1
  <2>3. CASE ~(j <= m)
    <3>1. ~(at + j <= len) /\ ~(j <= Len(c))
      BY <1>0, <1>2, <1>6, <2>3
    <3>. QED BY <1>12, <2>1, <3>1
  <2>. QED BY <2>2, <2>3
<1>14. CCM!Padded(c) = TextBlock(w, k)
  BY <1>11, <1>12, <1>13, SameBlock
<1>. QED BY <1>3, <1>7, <1>9, <1>14 DEF k, w, p

\* Blocks of texts that agree as far as the blocks go.
LEMMA SameTextBlocks ==
  ASSUME NEW s \in Seq(Byte), NEW t \in Seq(Byte), Len(s) = Len(t), NEW n \in Nat, n <= Filled(Len(s)),
         \A i \in 1 .. Len(s) : i <= 16 * n => s[i] = t[i]
  PROVE  TextBlocks(s, n) = TextBlocks(t, n)
<1>0. Len(s) \in Nat /\ Filled(Len(s)) \in Nat
  BY FilledIs
<1>1. ASSUME NEW j \in 1 .. n PROVE TextBlock(s, j) = TextBlock(t, j)
  <2>1. j \in 1 .. Filled(Len(s)) /\ j \in 1 .. Filled(Len(t))
    BY <1>0
  <2>2. TextBlock(s, j) \in Block /\ \A p \in 1 .. 16 : TextBlock(s, j)[p] = IF 16 * (j - 1) + p <= Len(s) THEN s[16 * (j - 1) + p] ELSE 0
    BY <2>1, TextBlockIs
  <2>3. TextBlock(t, j) \in Block /\ \A p \in 1 .. 16 : TextBlock(t, j)[p] = IF 16 * (j - 1) + p <= Len(t) THEN t[16 * (j - 1) + p] ELSE 0
    BY <2>1, TextBlockIs
  <2>4. ASSUME NEW p \in 1 .. 16 PROVE TextBlock(s, j)[p] = TextBlock(t, j)[p]
    <3> DEFINE x == 16 * (j - 1) + p
    <3>1. x \in Nat /\ x >= 1 /\ x <= 16 * n
      OBVIOUS
    <3>2. x <= Len(s) => s[x] = t[x]
      <4> HIDE DEF x
      <4>. QED BY <1>0, <3>1
    <3>3. TextBlock(s, j)[p] = (IF x <= Len(s) THEN s[x] ELSE 0) /\ TextBlock(t, j)[p] = IF x <= Len(t) THEN t[x] ELSE 0
      BY <2>2, <2>3
    <3> HIDE DEF x
    <3>. QED BY <3>2, <3>3
  <2>. QED BY <2>2, <2>3, <2>4, SameBlock
<1>. QED BY <1>1 DEF TextBlocks

\* The last block may hold what it likes further on.
LEMMA SameTextBlock ==
  ASSUME NEW s \in Seq(Byte), NEW t \in Seq(Byte), Len(s) = Len(t), NEW j \in 1 .. Filled(Len(s)),
         \A i \in 1 .. Len(s) : 16 * (j - 1) < i => s[i] = t[i]
  PROVE  TextBlock(s, j) = TextBlock(t, j)
<1>0. Len(s) \in Nat /\ Filled(Len(s)) \in Nat /\ j \in 1 .. Filled(Len(t))
  BY FilledIs
<1>2. TextBlock(s, j) \in Block /\ \A p \in 1 .. 16 : TextBlock(s, j)[p] = IF 16 * (j - 1) + p <= Len(s) THEN s[16 * (j - 1) + p] ELSE 0
  BY TextBlockIs
<1>3. TextBlock(t, j) \in Block /\ \A p \in 1 .. 16 : TextBlock(t, j)[p] = IF 16 * (j - 1) + p <= Len(t) THEN t[16 * (j - 1) + p] ELSE 0
  BY <1>0, TextBlockIs
<1>4. ASSUME NEW p \in 1 .. 16 PROVE TextBlock(s, j)[p] = TextBlock(t, j)[p]
  <2> DEFINE x == 16 * (j - 1) + p
  <2>1. x \in Nat /\ x >= 1 /\ 16 * (j - 1) < x
    BY <1>0
  <2>3. TextBlock(s, j)[p] = (IF x <= Len(s) THEN s[x] ELSE 0) /\ TextBlock(t, j)[p] = IF x <= Len(t) THEN t[x] ELSE 0
    BY <1>2, <1>3
  <2> HIDE DEF x
  <2>2. x <= Len(s) => s[x] = t[x]
    BY <1>0, <2>1
  <2>. QED BY <2>2, <2>3
<1>. QED BY <1>2, <1>3, <1>4, SameBlock

\* One block more under the MAC.
LEMMA MacOverMore ==
  ASSUME CcmGood, NEW k \in CcmKeys, NEW v \in Nonce, NEW a \in Seq(Byte), NEW l \in TagSize, NEW t \in Seq(Byte),
         NEW n \in Nat, n < Filled(Len(t))
  PROVE  MacOver(k, v, a, l, t, n + 1) = CcmMac(k, MacOver(k, v, a, l, t, n), TextBlock(t, n + 1))
<1> DEFINE h == HeadOf(v, a, l, Len(t))
           m == n + 1
           r == TextBlocks(t, n)
           u == TextBlocks(t, m)
           b == TextBlock(t, m)
<1>0. Len(t) \in Nat /\ Filled(Len(t)) \in Nat /\ m \in 1 .. Filled(Len(t)) /\ m \in Nat /\ n <= Filled(Len(t)) /\ m <= Filled(Len(t))
  <2>1. Len(t) \in Nat
    OBVIOUS
  <2>2. Filled(Len(t)) \in Nat
    BY <2>1, FilledIs
  <2>. QED BY <2>1, <2>2
<1> HIDE DEF m
<1>1. h \in Seq(Block) /\ r \in Seq(Block) /\ u \in Seq(Block) /\ Len(r) = n /\ Len(u) = m /\ b \in Block
  BY <1>0, HeadTyped, TextBlocksAre, TextBlockIs
<1>2. (\A j \in 1 .. n : r[j] = TextBlock(t, j)) /\ \A j \in 1 .. m : u[j] = TextBlock(t, j)
  BY DEF TextBlocks
<1>3. \A j \in 1 .. n : u[j] = r[j]
  <2>1. \A j \in 1 .. n : j \in 1 .. m
    BY DEF m
  <2>. QED BY <1>2, <2>1
<1>4. u[m] = b
  BY <1>0, <1>2
<1> HIDE DEF h, r, u, b
<1> DEFINE x == h \o r
           z == h \o u
           e == x \o <<b>>
<1>5. x \in Seq(Block) /\ Len(x) = Len(h) + n /\ (\A j \in 1 .. Len(h) : x[j] = h[j]) /\ \A j \in 1 .. n : x[Len(h) + j] = r[j]
  <2>1. IsCat(Block, h, r, x)
    BY <1>1, Joined
  <2>. QED BY <1>1, <2>1 DEF IsCat
<1>6. z \in Seq(Block) /\ Len(z) = Len(h) + m /\ (\A j \in 1 .. Len(h) : z[j] = h[j]) /\ \A j \in 1 .. m : z[Len(h) + j] = u[j]
  <2>1. IsCat(Block, h, u, z)
    BY <1>1, Joined
  <2> HIDE DEF z
  <2>. QED BY <1>1, <2>1, SMTT(30) DEF IsCat
<1> HIDE DEF x, z
<1>7. e \in Seq(Block) /\ Len(e) = Len(x) + 1 /\ (\A j \in 1 .. Len(x) : e[j] = x[j]) /\ e[Len(x) + 1] = b
  <2> DEFINE f == <<b>>
  <2>1. f \in Seq(Block) /\ Len(f) = 1 /\ f[1] = b
    BY <1>1
  <2> HIDE DEF f
  <2>2. IsCat(Block, x, f, x \o f)
    BY <1>5, <2>1, Joined
  <2>3. e = x \o f
    BY DEF f
  <2> HIDE DEF e
  <2>. QED BY <2>1, <2>2, <2>3 DEF IsCat
<1> HIDE DEF e
<1>8. ASSUME NEW j \in 1 .. Len(z) PROVE z[j] = e[j]
  <2>0. Len(h) \in Nat
    BY <1>1
  <2>1. CASE j <= Len(h)
    <3>1. j \in 1 .. Len(h) /\ j \in 1 .. Len(x)
      BY <1>5, <2>0, <2>1
    <3>. QED BY <1>5, <1>6, <1>7, <3>1
  <2>2. CASE j > Len(h) /\ j <= Len(h) + n
    <3> DEFINE i == j - Len(h)
    <3>1. i \in 1 .. n /\ i \in 1 .. m /\ Len(h) + i = j /\ j \in 1 .. Len(x)
      BY <1>5, <2>0, <2>2 DEF m
    <3> HIDE DEF i
    <3>2. z[Len(h) + i] = u[i] /\ x[Len(h) + i] = r[i] /\ u[i] = r[i]
      BY <1>3, <1>5, <1>6, <3>1
    <3>. QED BY <1>7, <3>1, <3>2
  <2>3. CASE j > Len(h) + n
    <3>1. j = Len(h) + m /\ m \in 1 .. m /\ j = Len(x) + 1
      <4>1. j <= Len(h) + m /\ j > Len(h) + n /\ j \in Int /\ m = n + 1
        BY <1>1, <1>6, <2>0, <2>3 DEF m
      <4>2. j = Len(h) + m /\ m >= 1
        BY <2>0, <4>1
      <4>. QED BY <1>0, <1>5, <2>0, <4>1, <4>2
    <3>. QED BY <1>4, <1>6, <1>7, <3>1
  <2>. QED BY <2>0, <2>1, <2>2, <2>3
<1>9. z = e
  <2>1. Len(z) = Len(e)
    BY <1>1, <1>5, <1>6, <1>7 DEF m
  <2>. QED BY <1>6, <1>7, <1>8, <2>1, SameSeq
<1>10. CcmMacAll(k, Zero16, x \o <<b>>) = CcmMac(k, CcmMacAll(k, Zero16, x), b)
  BY <1>1, <1>5, ZeroIs, MacAllMore
<1>. QED BY <1>9, <1>10 DEF MacOver, Under, x, z, e, h, r, u, b, m

\* Start computes the MAC of the head.
LEMMA StartMac ==
  ASSUME CcmGood, key \in CcmKeys, iv \in Nonce, tag_len \in TagSize, add \in Seq(Byte), buf \in Seq(Byte),
         NEW t \in Seq(Byte), Len(t) = Len(buf)
  PROVE  /\ CCM!MacAll(CCM!Mac(CCM!Zeroes(CCM!BLOCK), CCM!First), CCM!AddBlocks) = MacOver(key, iv, add, tag_len, t, 0)
         /\ <<CCM!q - 1>> \o iv \o CCM!Bytes(1, CCM!q) = CounterBlock(iv, 1)
<1> DEFINE f == FirstOf(iv, add, tag_len, Len(t))
           w == AddOf(add)
<1>0. Len(t) \in Nat
  OBVIOUS
<1>1. f \in Block /\ w \in Seq(Block)
  BY <1>0, FirstTyped, AddOfTyped
<1>2. CCM!First = f
  BY FirstIs DEF CCM!First, FirstOf
<1>3. CCM!AddBlocks = w
  BY AddBlocksAre
<1>4. TextBlocks(t, 0) = <<>>
  <2>1. TextBlocks(t, 0) = [j \in 1 .. 0 |-> TextBlock(t, j)]
    BY DEF TextBlocks
  <2>. QED BY <2>1
<1> HIDE DEF f, w
<1>5. (<<f>> \o w) \o <<>> = <<f>> \o w
  BY <1>1
<1>6. Under(iv, add, tag_len, t, 0) = <<f>> \o w
  BY <1>4, <1>5 DEF Under, HeadOf, f, w
<1>7. CcmMacAll(key, Zero16, <<f>> \o w) = CcmMacAll(key, CcmMac(key, Zero16, f), w)
  BY <1>1, ZeroIs, MacAllFirst
<1>8. CCM!Mac(CCM!Zeroes(CCM!BLOCK), f) = CcmMac(key, Zero16, f)
  BY ZeroIs DEF CCM!Mac, CcmMac
<1>9. CCM!MacAll(CcmMac(key, Zero16, f), w) = CcmMacAll(key, CcmMac(key, Zero16, f), w)
  BY MacAllIs
<1>10. CCM!MacAll(CCM!Mac(CCM!Zeroes(CCM!BLOCK), CCM!First), CCM!AddBlocks) = MacOver(key, iv, add, tag_len, t, 0)
  BY <1>2, <1>3, <1>6, <1>7, <1>8, <1>9 DEF MacOver
<1>11. <<CCM!q - 1>> \o iv \o CCM!Bytes(1, CCM!q) = CounterBlock(iv, 1)
  BY FirstIs DEF CounterBlock
<1>. QED BY <1>10, <1>11

CcmFits(v, a, l, n) ==
  v \in Nonce /\ l \in TagSize /\ Len(a) <= 65280 /\ ~(15 - Len(v) < 3 /\ n >= CCM!Power[15 - Len(v) + 1])
Enciphered(k, v, t, i) == Xor(t[i], KeyStream(k, v, (i + 15) \div 16)[((i - 1) % 16) + 1])
CcmPlain == IF mode = "encrypt" THEN text ELSE buf

CcmMost == 16777216
CcmTypes ==
  /\ mode \in {"encrypt", "decrypt"} /\ pc \in {"start", "loop", "wire", "end"}
  /\ key \in CcmKeys /\ iv \in Seq(Byte) /\ add \in Seq(Byte) /\ tag_len \in Nat
  /\ text \in Seq(Byte) /\ Len(text) < CcmMost
  /\ buf \in Seq(Byte) /\ Len(buf) = Len(text)
  /\ tag \in Seq(Byte) /\ at \in Nat /\ changed \in BOOLEAN

\* Bad input is refused before anything is read.
CcmSized == pc \in {"loop", "wire"} \/ mode = "decrypt" => CcmFits(iv, add, tag_len, Len(buf))

\* In the loop: where it stands, what the MAC has seen and which counter comes next.
CcmTurn ==
  pc = "loop" =>
    /\ at <= Len(buf) /\ (at < Len(buf) => at = 16 * Filled(at))
    /\ y = MacOver(key, iv, add, tag_len, CcmPlain, Filled(at))
    /\ ctr = CounterBlock(iv, Filled(at) + 1)

\* The sender's buffer is enciphered as far as the loop has come.
CcmSender ==
  mode = "encrypt" =>
    /\ ~changed
    /\ pc = "start" => buf = text
    /\ pc = "loop" => \A i \in 1 .. Len(text) : buf[i] = IF i <= at THEN Enciphered(key, iv, text, i) ELSE text[i]
    /\ pc = "wire" => /\ tag = TagFor(key, iv, add, tag_len, text)
                      /\ \A i \in 1 .. Len(text) : buf[i] = Enciphered(key, iv, text, i)

\* The receiver's is deciphered as far, unless something was changed.
CcmReceiver ==
  mode = "decrypt" =>
    /\ pc # "wire" /\ Len(tag) = tag_len
    /\ ~changed /\ pc # "end" =>
         /\ tag = TagFor(key, iv, add, tag_len, text)
         /\ pc = "start" => \A i \in 1 .. Len(text) : buf[i] = Enciphered(key, iv, text, i)
         /\ pc = "loop" => \A i \in 1 .. Len(text) : buf[i] = IF i <= at THEN text[i] ELSE Enciphered(key, iv, text, i)
    /\ pc = "end" =>
         /\ IF ret = "0" THEN tag = TagFor(key, iv, add, tag_len, buf) ELSE ret = "auth failed" /\ buf = CCM!Zeroes(Len(buf))
         /\ ~changed => ret = "0" /\ buf = text

CcmInv == CcmTypes /\ CcmSized /\ CcmTurn /\ CcmSender /\ CcmReceiver

LEMMA FitsIs ==
  ASSUME CcmTypes
  PROVE  CCM!BadInput <=> ~CcmFits(iv, add, tag_len, Len(buf))
<1>1. iv \in Seq(Byte) /\ Len(iv) \in Nat /\ tag_len \in Nat
  BY DEF CcmTypes
<1>2. CCM!q = 15 - Len(iv) /\ CCM!q + 1 = 15 - Len(iv) + 1
  BY <1>1 DEF CCM!q
<1>3. iv \in Nonce <=> ~(Len(iv) < 7 \/ Len(iv) > 13)
  BY <1>1 DEF Nonce
<1>4. tag_len \in TagSize <=> ~(tag_len < 4 \/ tag_len > 16 \/ tag_len % 2 # 0)
  BY <1>1 DEF TagSize
<1>5. Len(add) > 65280 <=> ~(Len(add) <= 65280)
  <2>1. Len(add) \in Nat
    BY DEF CcmTypes
  <2>. QED BY <2>1
<1>6. CCM!BadInput <=> \/ ~(tag_len \in TagSize) \/ ~(iv \in Nonce) \/ Len(add) > 65280
                       \/ 15 - Len(iv) < 3 /\ Len(buf) >= CCM!Power[15 - Len(iv) + 1]
  BY <1>2, <1>3, <1>4 DEF CCM!BadInput
<1>. QED BY <1>5, <1>6 DEF CcmFits

\* The nonce may change, not its length.
LEMMA FitsSame ==
  ASSUME NEW v \in Seq(Byte), NEW w \in Seq(Byte), Len(v) = Len(w), NEW a, NEW l, NEW n, CcmFits(v, a, l, n)
  PROVE  CcmFits(w, a, l, n)
<1>1. w \in Nonce
  BY DEF CcmFits, Nonce
<1>. QED BY <1>1 DEF CcmFits

LEMMA ChangedIs ==
  ASSUME NEW s \in Seq(Byte), NEW i \in 1 .. Len(s), NEW d \in Nat
  PROVE  CCM!Changed(s, i, d) \in Seq(Byte) /\ Len(CCM!Changed(s, i, d)) = Len(s)
<1>1. s[i] \in 0 .. 255
  BY SeqElement DEF Byte
<1>2. (s[i] + d) % 256 \in Byte
  <2>1. \A e \in 0 .. 255, f \in Nat : (e + f) % 256 \in 0 .. 255
    OBVIOUS
  <2>. QED BY <1>1, <2>1 DEF Byte
<1> DEFINE x == (s[i] + d) % 256
<1>3. CCM!Changed(s, i, d) = [s EXCEPT ![i] = x]
  BY DEF CCM!Changed
<1> HIDE DEF x
<1>4. x \in Byte
  BY <1>2 DEF x
<1>. QED BY <1>3, <1>4

LEMMA CcmInitInv == ASSUME CCM!CcmAssumption, CCM!Init PROVE CcmInv
<1>1. iv \in Seq(Byte) /\ add \in Seq(Byte) /\ text \in Seq(Byte) /\ Len(text) < 65536 * 256 /\ tag_len \in Nat /\ key \in CcmKeys
  BY DEF CCM!CcmAssumption, CCM!Init, Byte
<1>2. 65536 * 256 = 16777216
  OBVIOUS
<1>3. <<>> \in Seq(Byte)
  OBVIOUS
<1>4. CcmTypes
  <2>1. Len(text) < CcmMost
    BY <1>1, <1>2, SMT DEF CcmMost
  <2>2. mode = "encrypt" /\ pc = "start" /\ buf = text /\ tag = <<>> /\ at = 0 /\ changed = FALSE
    BY DEF CCM!Init
  <2>3. tag \in Seq(Byte)
    BY <1>3, <2>2
  <2>40. text \in Seq(Byte)
    BY <1>1
  <2>41. buf \in Seq(Byte) /\ Len(buf) = Len(text)
    BY <2>2, <2>40
  <2>4. at \in Nat /\ changed \in BOOLEAN
    BY <2>2
  <2>5. iv \in Seq(Byte) /\ add \in Seq(Byte) /\ text \in Seq(Byte) /\ tag_len \in Nat /\ key \in CcmKeys
    BY <1>1
  <2>. QED BY <2>1, <2>2, <2>3, <2>4, <2>41, <2>5 DEF CcmTypes
<1>. QED BY <1>4 DEF CCM!Init, CcmInv, CcmSized, CcmTurn, CcmSender, CcmReceiver

LEMMA CcmStartInv == ASSUME CcmGood, CcmInv, CCM!Start PROVE CcmInv'
<1> USE DEF CCM!given
<1>0. /\ pc = "start" /\ mode' = mode /\ key' = key /\ add' = add /\ tag_len' = tag_len /\ text' = text /\ iv' = iv
      /\ buf' = buf /\ tag' = tag /\ changed' = changed
  BY DEF CCM!Start
<1>1. CASE CCM!BadInput
  <2>1. pc' = "end" /\ UNCHANGED <<y, ctr, at>>
    BY <1>1 DEF CCM!Start
  <2>2. ~CcmFits(iv, add, tag_len, Len(buf))
    BY <1>1, FitsIs DEF CcmInv
  <2>3. mode = "encrypt"
    BY <1>0, <2>2 DEF CcmInv, CcmSized, CcmTypes
  <2>. QED BY <1>0, <2>1, <2>3 DEF CcmInv, CcmTypes, CcmSized, CcmTurn, CcmSender, CcmReceiver
<1>2. CASE ~CCM!BadInput
  <2>1. /\ pc' = "loop" /\ at' = 0
        /\ y' = CCM!MacAll(CCM!Mac(CCM!Zeroes(CCM!BLOCK), CCM!First), CCM!AddBlocks)
        /\ ctr' = <<CCM!q - 1>> \o iv \o CCM!Bytes(1, CCM!q)
    BY <1>2 DEF CCM!Start
  <2>2. CcmFits(iv, add, tag_len, Len(buf))
    BY <1>2, FitsIs DEF CcmInv
  <2>3. iv \in Nonce /\ tag_len \in TagSize
    BY <2>2 DEF CcmFits
  <2>4. CcmTypes' /\ CcmSized'
    BY <1>0, <2>1, <2>2 DEF CcmInv, CcmTypes, CcmSized
  <2>5. CcmPlain \in Seq(Byte) /\ Len(CcmPlain) = Len(buf) /\ CcmPlain' = CcmPlain /\ Len(buf) \in Nat
    BY <1>0 DEF CcmPlain, CcmInv, CcmTypes
  <2>6. y' = MacOver(key, iv, add, tag_len, CcmPlain, 0) /\ ctr' = CounterBlock(iv, 1)
    <3>1. key \in CcmKeys /\ add \in Seq(Byte) /\ buf \in Seq(Byte)
      BY DEF CcmInv, CcmTypes
    <3>2. /\ CCM!MacAll(CCM!Mac(CCM!Zeroes(CCM!BLOCK), CCM!First), CCM!AddBlocks) = MacOver(key, iv, add, tag_len, CcmPlain, 0)
          /\ <<CCM!q - 1>> \o iv \o CCM!Bytes(1, CCM!q) = CounterBlock(iv, 1)
      BY <2>3, <2>5, <3>1, StartMac
    <3>. QED BY <2>1, <3>2
  <2>7. Filled(0) = 0
    BY DEF Filled
  <2>8. CcmTurn'
    <3>1. 0 <= Len(buf') /\ 0 = 16 * Filled(0) /\ Filled(0) + 1 = 1
      BY <1>0, <2>5, <2>7
    <3>2. y' = MacOver(key', iv', add', tag_len', CcmPlain', Filled(at')) /\ ctr' = CounterBlock(iv', Filled(at') + 1)
      BY <1>0, <2>1, <2>5, <2>6, <2>7, <3>1
    <3>. QED BY <2>1, <3>1, <3>2 DEF CcmTurn
  <2>9. \A i \in 1 .. Len(text) : ~(i <= 0)
    OBVIOUS
  <2>10. CcmSender'
    BY <1>0, <2>1, <2>9 DEF CcmInv, CcmSender
  <2>11. CcmReceiver'
    BY <1>0, <2>1, <2>9 DEF CcmInv, CcmReceiver
  <2>. QED BY <2>4, <2>8, <2>10, <2>11 DEF CcmInv
<1>. QED BY <1>1, <1>2

LEMMA CcmLoopInv == ASSUME CcmGood, CcmInv, CCM!Loop PROVE CcmInv'
<1> USE DEF CCM!given
<1> DEFINE n == Filled(at)
           s == CcmCipher(key, ctr)
           w == Through(buf, at, s)
           m == CCM!Smaller(16, Len(buf) - at)
<1>0. /\ pc = "loop" /\ mode' = mode /\ pc' = pc /\ key' = key /\ add' = add /\ tag_len' = tag_len /\ text' = text
      /\ iv' = iv /\ tag' = tag /\ changed' = changed /\ ret' = ret /\ at < Len(buf) /\ at' = at + m
      /\ ctr' = CCM!Increment(ctr) /\ buf' = CCM!InPlace(CCM!Crypted)
      /\ y' = CCM!Mac(y, CCM!Padded(IF mode = "encrypt" THEN CCM!Part(buf, at, 16) ELSE CCM!Crypted))
  BY DEF CCM!Loop
<1>1. /\ mode \in {"encrypt", "decrypt"}
      /\ key \in CcmKeys /\ add \in Seq(Byte) /\ text \in Seq(Byte) /\ Len(text) < CcmMost
      /\ buf \in Seq(Byte) /\ Len(buf) = Len(text) /\ at \in Nat /\ Len(buf) \in Nat
  BY DEF CcmInv, CcmTypes
<1>2. CcmFits(iv, add, tag_len, Len(buf)) /\ iv \in Nonce /\ tag_len \in TagSize
  BY <1>0 DEF CcmInv, CcmSized, CcmFits
<1>3. at = 16 * n /\ n \in Nat /\ y = MacOver(key, iv, add, tag_len, CcmPlain, n) /\ ctr = CounterBlock(iv, n + 1)
  <2>1. n \in Nat
    BY <1>1, FilledIs
  <2>. QED BY <1>0, <2>1 DEF CcmInv, CcmTurn
<1> HIDE DEF n
<1>4. n < 16777214 /\ n + 1 \in Nat /\ n + 1 < 16777215
  <2> DEFINE len == Len(buf)
  <2>1. len \in Nat /\ at < len /\ len < CcmMost /\ at = 16 * n /\ n \in Nat
    BY <1>0, <1>1, <1>3
  <2> HIDE DEF len
  <2>. QED BY <2>1, SMT DEF CcmMost
<1>5. s = KeyStream(key, iv, n + 1) /\ s \in Block
  <2> DEFINE k == n + 1
  <2>1. k \in Nat
    BY <1>3
  <2> HIDE DEF k
  <2>2. KeyStream(key, iv, k) \in Block
    BY <1>1, <1>2, <2>1, KeyStreamTyped
  <2>. QED BY <1>3, <2>2 DEF KeyStream, k
<1>6. /\ CCM!InPlace(CCM!Crypted) = w /\ CCM!Padded(CCM!Crypted) = TextBlock(w, n + 1)
      /\ CCM!Padded(CCM!Part(buf, at, 16)) = TextBlock(buf, n + 1)
  <2> DEFINE z == CcmCipher(key, ctr)
  <2>1. z \in Block
    BY <1>5
  <2>2. z = CcmCipher(key, ctr)
    OBVIOUS
  <2>3. w = Through(buf, at, z)
    OBVIOUS
  <2> HIDE DEF z, w, s
  <2>. QED BY <1>0, <1>1, <1>3, <2>1, <2>2, <2>3, CryptedIs
<1>7. w \in Seq(Byte) /\ Len(w) = Len(buf) /\ \A i \in 1 .. Len(buf) : w[i] = IF at < i /\ i <= at + 16 THEN Xor(buf[i], s[i - at]) ELSE buf[i]
  <2> HIDE DEF s
  <2>. QED BY <1>1, <1>5, ThroughTyped
<1>8. buf' = w
  BY <1>0, <1>6
<1> HIDE DEF w, s
<1>9. m \in Nat /\ 1 <= m /\ m <= 16 /\ at + m <= Len(buf) /\ (at + m < Len(buf) => m = 16)
  BY <1>0, <1>1 DEF CCM!Smaller
<1> HIDE DEF m
<1>10. at' \in Nat /\ at' <= Len(buf') /\ Filled(at') = n + 1 /\ (at' < Len(buf') => at' = 16 * Filled(at'))
  <2>1. at' = 16 * n + m
    BY <1>0, <1>3
  <2>2. (16 * n + m + 15) \div 16 = n + 1
    BY <1>3, <1>9
  <2>3. Filled(at') = n + 1
    BY <2>1, <2>2 DEF Filled
  <2>. QED BY <1>0, <1>1, <1>3, <1>7, <1>8, <1>9, <2>3
<1>11. ctr' = CounterBlock(iv, n + 1 + 1)
  <2> DEFINE k == n + 1
  <2>1. k \in Nat /\ k < 16777215 /\ ctr = CounterBlock(iv, k)
    BY <1>3, <1>4
  <2> HIDE DEF k
  <2>2. CCM!Increment(CounterBlock(iv, k)) = CounterBlock(iv, k + 1)
    BY <1>2, <2>1, IncrementIs
  <2>. QED BY <1>0, <2>1, <2>2 DEF k
<1>12. CcmTypes'
  <2>1. CcmTypes
    BY DEF CcmInv
  <2>. QED BY <1>0, <1>7, <1>8, <1>10, <2>1 DEF CcmTypes
<1>13. CcmSized'
  BY <1>0, <1>2, <1>7, <1>8 DEF CcmSized
<1> DEFINE p == CcmPlain
           r == CcmPlain'
<1>14. p \in Seq(Byte) /\ r \in Seq(Byte) /\ Len(p) = Len(buf) /\ Len(r) = Len(buf)
  BY <1>0, <1>1, <1>7, <1>8 DEF CcmPlain
<1>15. \A i \in 1 .. Len(p) : i <= 16 * n => p[i] = r[i]
  <2>1. CASE mode = "encrypt"
    BY <1>0, <2>1 DEF CcmPlain
  <2>2. CASE mode # "encrypt"
    <3>1. p = buf /\ r = w
      BY <1>0, <1>8, <2>2 DEF CcmPlain
    <3>2. \A i \in 1 .. Len(buf) : i <= 16 * n => w[i] = buf[i]
      BY <1>1, <1>3, <1>7
    <3>. QED BY <3>1, <3>2
  <2>. QED BY <2>1, <2>2
<1>16. CCM!Padded(IF mode = "encrypt" THEN CCM!Part(buf, at, 16) ELSE CCM!Crypted) = TextBlock(r, n + 1)
  <2>1. CASE mode = "encrypt"
    <3>1. r = text
      BY <1>0, <2>1 DEF CcmPlain
    <3>2. \A i \in 1 .. Len(text) : buf[i] = IF i <= at THEN Enciphered(key, iv, text, i) ELSE text[i]
      BY <1>0, <2>1 DEF CcmInv, CcmSender
    <3> DEFINE k == n + 1
    <3>3. k \in 1 .. Filled(Len(text)) /\ 16 * (k - 1) = at
      <4>1. Filled(Len(text)) \in Nat /\ Len(text) <= 16 * Filled(Len(text))
        <5>1. Len(text) \in Nat
          BY <1>1
        <5>. QED BY <5>1, FilledIs
      <4>. QED BY <1>0, <1>1, <1>3, <4>1
    <3> HIDE DEF k
    <3>4. \A i \in 1 .. Len(text) : 16 * (k - 1) < i => text[i] = buf[i]
      BY <1>1, <3>2, <3>3
    <3>5. TextBlock(text, k) = TextBlock(buf, k)
      BY <1>1, <3>3, <3>4, SameTextBlock
    <3>. QED BY <1>6, <2>1, <3>1, <3>5 DEF k
  <2>2. CASE mode # "encrypt"
    BY <1>0, <1>6, <1>8, <2>2 DEF CcmPlain
  <2>. QED BY <2>1, <2>2
<1> HIDE DEF p, r
<1>17. n < Filled(Len(p)) /\ n < Filled(Len(r)) /\ n <= Filled(Len(p))
  <2>1. Filled(Len(buf)) \in Nat /\ Len(buf) <= 16 * Filled(Len(buf))
    BY <1>1, FilledIs
  <2>. QED BY <1>0, <1>1, <1>3, <1>14, <2>1
<1>18. MacOver(key, iv, add, tag_len, p, n) = MacOver(key, iv, add, tag_len, r, n)
  <2>1. TextBlocks(p, n) = TextBlocks(r, n)
    BY <1>3, <1>14, <1>15, <1>17, SameTextBlocks
  <2>. QED BY <1>14, <2>1 DEF MacOver, Under
<1>19. MacOver(key, iv, add, tag_len, r, n + 1) = CcmMac(key, MacOver(key, iv, add, tag_len, r, n), TextBlock(r, n + 1))
  BY <1>1, <1>2, <1>3, <1>14, <1>17, MacOverMore
<1>20. y' = MacOver(key, iv, add, tag_len, r, n + 1)
  BY <1>0, <1>3, <1>16, <1>18, <1>19 DEF CCM!Mac, CcmMac, p
<1>21. CcmTurn'
  BY <1>0, <1>10, <1>11, <1>20 DEF CcmTurn, r
<1>22. ASSUME NEW i \in 1 .. Len(buf) PROVE /\ at < i /\ i <= at + 16 => (i + 15) \div 16 = n + 1 /\ ((i - 1) % 16) + 1 = i - at
                                            /\ i <= at + m /\ at < i => i <= at + 16
                                            /\ i > at + m => i > at + 16
                                            /\ i <= at + m <=> i <= at'
  BY <1>0, <1>1, <1>3, <1>9
<1>23. \A i \in 1 .. Len(buf) : at < i /\ i <= at + 16 => Enciphered(key, iv, text, i) = Xor(text[i], s[i - at])
  BY <1>5, <1>22 DEF Enciphered
<1>24. CcmSender'
  <2>1. CASE mode = "encrypt"
    <3>1. \A i \in 1 .. Len(text) : buf[i] = IF i <= at THEN Enciphered(key, iv, text, i) ELSE text[i]
      BY <1>0, <2>1 DEF CcmInv, CcmSender
    <3>2. ASSUME NEW i \in 1 .. Len(text) PROVE w[i] = IF i <= at' THEN Enciphered(key, iv, text, i) ELSE text[i]
      <4>0. i \in 1 .. Len(buf) /\ i \in Nat
        BY <1>1
      <4>1. CASE i <= at
        <5>1. i <= at' /\ ~(at < i)
          BY <1>0, <1>1, <1>9, <4>0, <4>1
        <5>. QED BY <1>7, <3>1, <4>0, <4>1, <5>1
      <4>2. CASE at < i /\ i <= at + m
        <5>1. i <= at' /\ i <= at + 16 /\ ~(i <= at)
          BY <1>1, <1>22, <4>0, <4>2
        <5>2. w[i] = Xor(text[i], s[i - at])
          BY <1>7, <3>1, <4>0, <4>2, <5>1
        <5>. QED BY <1>23, <4>0, <4>2, <5>1, <5>2
      <4>3. CASE i > at + m
        <5>1. ~(i <= at') /\ ~(i <= at + 16) /\ ~(i <= at)
          BY <1>0, <1>1, <1>9, <1>22, <4>0, <4>3
        <5>. QED BY <1>7, <3>1, <4>0, <5>1
      <4>. QED BY <1>1, <1>9, <4>0, <4>1, <4>2, <4>3
    <3>. QED BY <1>0, <1>8, <2>1, <3>2 DEF CcmInv, CcmSender
  <2>2. CASE mode # "encrypt"
    BY <1>0, <2>2 DEF CcmSender
  <2>. QED BY <2>1, <2>2
<1>25. CcmReceiver'
  <2>1. CASE mode = "decrypt" /\ ~changed
    <3>1. \A i \in 1 .. Len(text) : buf[i] = IF i <= at THEN text[i] ELSE Enciphered(key, iv, text, i)
      BY <1>0, <2>1 DEF CcmInv, CcmReceiver
    <3>2. ASSUME NEW i \in 1 .. Len(text) PROVE w[i] = IF i <= at' THEN text[i] ELSE Enciphered(key, iv, text, i)
      <4>0. i \in 1 .. Len(buf) /\ i \in Nat
        BY <1>1
      <4>1. CASE i <= at
        <5>1. i <= at' /\ ~(at < i)
          BY <1>0, <1>1, <1>9, <4>0, <4>1
        <5>. QED BY <1>7, <3>1, <4>0, <4>1, <5>1
      <4>2. CASE at < i /\ i <= at + m
        <5>1. i <= at' /\ i <= at + 16 /\ ~(i <= at) /\ i - at \in 1 .. 16
          BY <1>1, <1>22, <4>0, <4>2
        <5>2. w[i] = Xor(Xor(text[i], s[i - at]), s[i - at])
          BY <1>7, <1>23, <3>1, <4>0, <4>2, <5>1
        <5>3. text[i] \in Byte /\ s[i - at] \in Byte
          BY <1>1, <1>5, <5>1, SeqElement DEF Block
        <5>4. Xor(Xor(text[i], s[i - at]), s[i - at]) = text[i]
          BY <5>3, XorBack
        <5>. QED BY <5>1, <5>2, <5>4
      <4>3. CASE i > at + m
        <5>1. ~(i <= at') /\ ~(i <= at + 16) /\ ~(i <= at)
          BY <1>0, <1>1, <1>9, <1>22, <4>0, <4>3
        <5>. QED BY <1>7, <3>1, <4>0, <5>1
      <4>. QED BY <1>1, <1>9, <4>0, <4>1, <4>2, <4>3
    <3>. QED BY <1>0, <1>8, <2>1, <3>2 DEF CcmInv, CcmReceiver
  <2>2. CASE ~(mode = "decrypt" /\ ~changed)
    BY <1>0, <2>2 DEF CcmInv, CcmReceiver
  <2>. QED BY <2>1, <2>2
<1>. QED BY <1>12, <1>13, <1>21, <1>24, <1>25 DEF CcmInv

LEMMA CcmEncryptEndsInv == ASSUME CcmGood, CcmInv, CCM!EncryptEnds PROVE CcmInv'
<1> USE DEF CCM!given
<1>0. /\ pc = "loop" /\ at >= Len(buf) /\ mode = "encrypt" /\ pc' = "wire" /\ tag' = CCM!MaskedTag
      /\ mode' = mode /\ key' = key /\ add' = add /\ tag_len' = tag_len /\ text' = text
      /\ iv' = iv /\ buf' = buf /\ at' = at /\ changed' = changed
  BY DEF CCM!EncryptEnds
<1>1. /\ key \in CcmKeys /\ add \in Seq(Byte) /\ text \in Seq(Byte)
      /\ buf \in Seq(Byte) /\ Len(buf) = Len(text) /\ at \in Nat /\ Len(buf) \in Nat
  BY DEF CcmInv, CcmTypes
<1>2. CcmFits(iv, add, tag_len, Len(buf)) /\ iv \in Nonce /\ tag_len \in TagSize
  BY <1>0 DEF CcmInv, CcmSized, CcmFits
<1>3. at = Len(text) /\ y = MacOver(key, iv, add, tag_len, text, Filled(at)) /\ ctr = CounterBlock(iv, Filled(at) + 1)
  BY <1>0, <1>1 DEF CcmInv, CcmTurn, CcmPlain
<1>4. tag' = TagFor(key, iv, add, tag_len, text) /\ y \in Block
  <2> DEFINE n == Filled(at) + 1
  <2>0. Filled(at) \in Nat /\ Filled(at) = Filled(Len(text))
    BY <1>1, <1>3, FilledIs
  <2>1. n \in Nat /\ Filled(at) \in Nat /\ Filled(at) <= Filled(Len(text))
    BY <2>0
  <2>2. y \in Block
    BY <1>1, <1>2, <1>3, <2>1, MacOverTyped
  <2> HIDE DEF n
  <2>3. CCM!MaskedTag = Masked(key, iv, tag_len, y)
    BY <1>2, <1>3, <2>1, MaskedTagIs DEF n
  <2>. QED BY <1>0, <1>3, <2>2, <2>3 DEF TagFor
<1>5. tag' \in Seq(Byte)
  <2> DEFINE z == Masked(key, iv, tag_len, y)
  <2>1. z \in Seq(Byte)
    BY <1>1, <1>2, <1>4, MaskedIs
  <2>. QED BY <1>3, <1>4, <2>1 DEF TagFor
<1>6. \A i \in 1 .. Len(text) : buf[i] = Enciphered(key, iv, text, i)
  <2>1. \A i \in 1 .. Len(text) : buf[i] = IF i <= at THEN Enciphered(key, iv, text, i) ELSE text[i]
    BY <1>0 DEF CcmInv, CcmSender
  <2>2. \A i \in 1 .. Len(text) : i <= at
    BY <1>1, <1>3
  <2>. QED BY <2>1, <2>2
<1>7. CcmTypes'
  BY <1>0, <1>5 DEF CcmInv, CcmTypes
<1>8. CcmSized' /\ CcmTurn' /\ CcmReceiver'
  BY <1>0, <1>2 DEF CcmSized, CcmTurn, CcmReceiver
<1>9. CcmSender'
  BY <1>0, <1>4, <1>6 DEF CcmInv, CcmSender
<1>. QED BY <1>7, <1>8, <1>9 DEF CcmInv

LEMMA CcmDecryptEndsInv == ASSUME CcmGood, CcmInv, CCM!DecryptEnds PROVE CcmInv'
<1> USE DEF CCM!given
<1>0. /\ pc = "loop" /\ at >= Len(buf) /\ mode = "decrypt" /\ pc' = "end"
      /\ mode' = mode /\ key' = key /\ add' = add /\ tag_len' = tag_len /\ text' = text
      /\ iv' = iv /\ tag' = tag /\ at' = at /\ changed' = changed
  BY DEF CCM!DecryptEnds
<1>1. /\ key \in CcmKeys /\ add \in Seq(Byte) /\ text \in Seq(Byte) /\ tag \in Seq(Byte)
      /\ buf \in Seq(Byte) /\ Len(buf) = Len(text) /\ at \in Nat /\ Len(buf) \in Nat
  BY DEF CcmInv, CcmTypes
<1>2. CcmFits(iv, add, tag_len, Len(buf)) /\ iv \in Nonce /\ tag_len \in TagSize /\ Len(tag) = tag_len
  BY <1>0 DEF CcmInv, CcmSized, CcmFits, CcmReceiver
<1>3. at = Len(buf) /\ y = MacOver(key, iv, add, tag_len, buf, Filled(at)) /\ ctr = CounterBlock(iv, Filled(at) + 1)
  BY <1>0, <1>1 DEF CcmInv, CcmTurn, CcmPlain
<1> DEFINE b == CCM!MaskedTag
<1>4. b = TagFor(key, iv, add, tag_len, buf) /\ b \in Seq(Byte) /\ Len(b) = tag_len
  <2> DEFINE n == Filled(at) + 1
             z == Masked(key, iv, tag_len, y)
  <2>0. Filled(at) \in Nat /\ Filled(at) = Filled(Len(buf))
    BY <1>1, <1>3, FilledIs
  <2>1. n \in Nat /\ Filled(at) \in Nat /\ Filled(at) <= Filled(Len(buf))
    BY <2>0
  <2>2. y \in Block
    BY <1>1, <1>2, <1>3, <2>1, MacOverTyped
  <2> HIDE DEF n
  <2>3. b = z
    BY <1>2, <1>3, <2>1, MaskedTagIs DEF n
  <2>4. z = TagFor(key, iv, add, tag_len, buf)
    BY <1>3 DEF TagFor
  <2>5. z \in Seq(Byte) /\ Len(z) = tag_len
    BY <1>1, <1>2, <2>2, MaskedIs
  <2>. QED BY <2>3, <2>4, <2>5
<1> HIDE DEF b
<1>5. CCM!TagEquals(tag, b) <=> tag = b
  <2>1. DOMAIN tag = 1 .. Len(tag) /\ Len(tag) = Len(b)
    BY <1>1, <1>2, <1>4
  <2>2. (\A i \in 1 .. Len(tag) : tag[i] = b[i]) => tag = b
    BY <1>1, <1>4, <2>1, SameSeq
  <2>. QED BY <2>1, <2>2 DEF CCM!TagEquals
<1>6. IF tag = b THEN ret' = "0" /\ buf' = buf ELSE ret' = "auth failed" /\ buf' = CCM!Zeroes(Len(buf))
  BY <1>5 DEF CCM!DecryptEnds, b
<1>7. buf' \in Seq(Byte) /\ Len(buf') = Len(buf)
  <2>1. CCM!Zeroes(Len(buf)) \in Seq(Byte) /\ Len(CCM!Zeroes(Len(buf))) = Len(buf)
    <3> DEFINE n == Len(buf)
    <3>1. n \in Nat /\ 0 \in Byte
      BY <1>1 DEF Byte
    <3> HIDE DEF n
    <3>2. CCM!Zeroes(n) \in Seq(Byte) /\ Len(CCM!Zeroes(n)) = n
      BY <3>1 DEF CCM!Zeroes
    <3>. QED BY <3>2 DEF n
  <2>. QED BY <1>1, <1>6, <2>1
<1>8. ~changed => buf = text /\ tag = b
  <2> HAVE ~changed
  <2>1. /\ tag = TagFor(key, iv, add, tag_len, text)
        /\ \A i \in 1 .. Len(text) : buf[i] = IF i <= at THEN text[i] ELSE Enciphered(key, iv, text, i)
    BY <1>0 DEF CcmInv, CcmReceiver
  <2>2. \A i \in 1 .. Len(text) : i <= at
    BY <1>1, <1>3
  <2>3. \A i \in 1 .. Len(buf) : buf[i] = text[i]
    BY <1>1, <2>1, <2>2
  <2>4. buf = text
    BY <1>1, <2>3, SameSeq
  <2>. QED BY <1>4, <2>1, <2>4
<1>9. CcmTypes'
  BY <1>0, <1>7 DEF CcmInv, CcmTypes
<1>10. CcmSized' /\ CcmTurn' /\ CcmSender'
  BY <1>0, <1>2, <1>7 DEF CcmSized, CcmTurn, CcmSender
<1>11. CcmReceiver'
  <2>1. IF ret' = "0" THEN tag' = TagFor(key', iv', add', tag_len', buf') ELSE ret' = "auth failed" /\ buf' = CCM!Zeroes(Len(buf'))
    <3>1. CASE tag = b
      BY <1>0, <1>4, <1>6, <3>1
    <3>2. CASE tag # b
      BY <1>6, <1>7, <3>2
    <3>. QED BY <3>1, <3>2
  <2>2. ~changed' => ret' = "0" /\ buf' = text'
    BY <1>0, <1>6, <1>8
  <2>. QED BY <1>0, <1>2, <2>1, <2>2 DEF CcmReceiver
<1>. QED BY <1>9, <1>10, <1>11 DEF CcmInv

LEMMA CcmArriveInv == ASSUME CCM!CcmAssumption, CcmGood, CcmInv, CCM!Arrive PROVE CcmInv'
<1> USE DEF CCM!given
<1>0. /\ pc = "wire" /\ pc' = "start" /\ mode' = "decrypt" /\ ret' = "none"
      /\ key' = key /\ add' = add /\ tag_len' = tag_len /\ text' = text /\ at' = at
  BY DEF CCM!Arrive
<1>1. /\ text \in Seq(Byte) /\ tag \in Seq(Byte) /\ iv \in Seq(Byte)
      /\ buf \in Seq(Byte) /\ Len(buf) = Len(text) /\ at \in Nat /\ Len(buf) \in Nat
  BY DEF CcmInv, CcmTypes
<1>2. CcmFits(iv, add, tag_len, Len(buf)) /\ iv \in Nonce /\ tag_len \in TagSize
  BY <1>0 DEF CcmInv, CcmSized, CcmFits
<1>3. mode = "encrypt" /\ ~changed /\ tag = TagFor(key, iv, add, tag_len, text)
      /\ \A i \in 1 .. Len(text) : buf[i] = Enciphered(key, iv, text, i)
  BY <1>0 DEF CcmInv, CcmTypes, CcmReceiver, CcmSender
<1>4. Len(tag) = tag_len
  <2> DEFINE m == MacOver(key, iv, add, tag_len, text, Filled(Len(text)))
             z == Masked(key, iv, tag_len, m)
             n == Filled(Len(text))
  <2>0. key \in CcmKeys /\ add \in Seq(Byte)
    BY DEF CcmInv, CcmTypes
  <2>1. n \in Nat /\ n <= Filled(Len(text))
    BY <1>1, FilledIs
  <2>2. m \in Block
    <3>1. m = MacOver(key, iv, add, tag_len, text, n)
      OBVIOUS
    <3> HIDE DEF n, m
    <3>. QED BY <1>1, <1>2, <2>0, <2>1, <3>1, MacOverTyped
  <2> HIDE DEF m
  <2>3. Len(z) = tag_len
    BY <1>2, <2>0, <2>2, MaskedIs
  <2>. QED BY <1>3, <2>3 DEF TagFor, m
<1>5. /\ buf' \in Seq(Byte) /\ Len(buf') = Len(buf) /\ tag' \in Seq(Byte) /\ Len(tag') = Len(tag)
      /\ iv' \in Seq(Byte) /\ Len(iv') = Len(iv) /\ changed' \in BOOLEAN
      /\ ~changed' => buf' = buf /\ tag' = tag /\ iv' = iv
  <2>1. CASE UNCHANGED <<buf, tag, iv, changed>>
    <3>1. buf' = buf /\ tag' = tag /\ iv' = iv /\ changed' = changed
      BY <2>1
    <3>2. changed' \in BOOLEAN
      BY <3>1 DEF CcmInv, CcmTypes
    <3>. QED BY <1>1, <3>1, <3>2
  <2>2. CASE /\ changed' = TRUE
             /\ \E d \in Changes :
                  \/ \E i \in DOMAIN buf : buf' = CCM!Changed(buf, i, d) /\ UNCHANGED <<tag, iv>>
                  \/ \E i \in DOMAIN tag : tag' = CCM!Changed(tag, i, d) /\ UNCHANGED <<buf, iv>>
                  \/ iv' = CCM!Changed(iv, 1, d) /\ UNCHANGED <<buf, tag>>
    <3>1. PICK d \in Changes :
             \/ \E i \in DOMAIN buf : buf' = CCM!Changed(buf, i, d) /\ UNCHANGED <<tag, iv>>
             \/ \E i \in DOMAIN tag : tag' = CCM!Changed(tag, i, d) /\ UNCHANGED <<buf, iv>>
             \/ iv' = CCM!Changed(iv, 1, d) /\ UNCHANGED <<buf, tag>>
      BY <2>2
    <3>2. d \in Nat
      BY DEF CCM!CcmAssumption
    <3>3. CASE \E i \in DOMAIN buf : buf' = CCM!Changed(buf, i, d) /\ UNCHANGED <<tag, iv>>
      <4>1. PICK i \in DOMAIN buf : buf' = CCM!Changed(buf, i, d) /\ UNCHANGED <<tag, iv>>
        BY <3>3
      <4>2. i \in 1 .. Len(buf)
        BY <1>1
      <4>3. CCM!Changed(buf, i, d) \in Seq(Byte) /\ Len(CCM!Changed(buf, i, d)) = Len(buf)
        BY <1>1, <3>2, <4>2, ChangedIs
      <4>. QED BY <1>1, <2>2, <4>1, <4>3
    <3>4. CASE \E i \in DOMAIN tag : tag' = CCM!Changed(tag, i, d) /\ UNCHANGED <<buf, iv>>
      <4>1. PICK i \in DOMAIN tag : tag' = CCM!Changed(tag, i, d) /\ UNCHANGED <<buf, iv>>
        BY <3>4
      <4>2. i \in 1 .. Len(tag)
        BY <1>1
      <4>3. CCM!Changed(tag, i, d) \in Seq(Byte) /\ Len(CCM!Changed(tag, i, d)) = Len(tag)
        BY <1>1, <3>2, <4>2, ChangedIs
      <4>. QED BY <1>1, <2>2, <4>1, <4>3
    <3>5. CASE iv' = CCM!Changed(iv, 1, d) /\ UNCHANGED <<buf, tag>>
      <4> DEFINE i == 1
      <4>2. i \in 1 .. Len(iv)
        BY <1>2, NonceLength
      <4> HIDE DEF i
      <4>3. CCM!Changed(iv, i, d) \in Seq(Byte) /\ Len(CCM!Changed(iv, i, d)) = Len(iv)
        BY <1>1, <3>2, <4>2, ChangedIs
      <4>. QED BY <1>1, <2>2, <3>5, <4>3 DEF i
    <3>. QED BY <3>1, <3>3, <3>4, <3>5
  <2>. QED BY <2>1, <2>2 DEF CCM!Arrive
<1>6. CcmFits(iv', add, tag_len, Len(buf'))
  <2> DEFINE v == iv'
  <2>1. v \in Seq(Byte) /\ Len(iv) = Len(v)
    BY <1>5
  <2> HIDE DEF v
  <2>2. CcmFits(v, add, tag_len, Len(buf))
    BY <1>1, <1>2, <2>1, FitsSame
  <2>. QED BY <1>5, <2>2 DEF v
<1>7. CcmTypes'
  <2>1. CcmTypes
    BY DEF CcmInv
  <2>. QED BY <1>0, <1>5, <2>1 DEF CcmTypes
<1>8. CcmSized' /\ CcmTurn' /\ CcmSender'
  BY <1>0, <1>6 DEF CcmSized, CcmTurn, CcmSender
<1>9. CcmReceiver'
  BY <1>0, <1>3, <1>4, <1>5 DEF CcmReceiver
<1>. QED BY <1>7, <1>8, <1>9 DEF CcmInv

LEMMA CcmInvHolds == ASSUME CcmGood, CcmInv PROVE CCM!IsCcm
<1>1. CcmTypes /\ text \in Seq(Byte) /\ buf \in Seq(Byte) /\ key \in CcmKeys /\ add \in Seq(Byte) /\ Len(buf) = Len(text)
  BY DEF CcmInv, CcmTypes
<1>2. ASSUME pc = "wire"
      PROVE tag = CCM!TagOf(text) /\ buf = [i \in DOMAIN text |-> Xor(text[i], CCM!S((i + 15) \div 16)[((i - 1) % 16) + 1])]
  <2>1. mode = "encrypt" /\ iv \in Nonce /\ tag_len \in TagSize
    BY <1>2 DEF CcmInv, CcmTypes, CcmReceiver, CcmSized, CcmFits
  <2>2. tag = TagFor(key, iv, add, tag_len, text) /\ \A i \in 1 .. Len(text) : buf[i] = Enciphered(key, iv, text, i)
    BY <1>2, <2>1 DEF CcmInv, CcmSender
  <2>3. tag = CCM!TagOf(text)
    BY <1>1, <2>1, <2>2, TagOfIs
  <2> DEFINE e(i) == Xor(text[i], CCM!S((i + 15) \div 16)[((i - 1) % 16) + 1])
  <2>4. ASSUME NEW i \in 1 .. Len(text) PROVE buf[i] = e(i)
    <3> DEFINE k == (i + 15) \div 16
    <3>1. k \in Nat
      OBVIOUS
    <3> HIDE DEF k
    <3>2. CCM!S(k) = KeyStream(key, iv, k)
      BY <2>1, <3>1, SIs
    <3>. QED BY <2>2, <3>2 DEF k, Enciphered
  <2> HIDE DEF e
  <2>5. buf = [i \in 1 .. Len(text) |-> buf[i]]
    BY <1>1, SeqElement
  <2>6. buf = [i \in 1 .. Len(text) |-> e(i)]
    BY <2>4, <2>5
  <2>7. DOMAIN text = 1 .. Len(text)
    BY <1>1
  <2>. QED BY <2>3, <2>6, <2>7 DEF e
<1>3. ASSUME pc = "end", mode = "decrypt"
      PROVE /\ IF ret = "0" THEN tag = CCM!TagOf(buf) ELSE ret = "auth failed" /\ buf = CCM!Zeroes(Len(buf))
            /\ ~changed => ret = "0" /\ buf = text
  <2>1. iv \in Nonce /\ tag_len \in TagSize
    BY <1>3 DEF CcmInv, CcmSized, CcmFits
  <2>2. CCM!TagOf(buf) = TagFor(key, iv, add, tag_len, buf)
    BY <1>1, <2>1, TagOfIs
  <2>. QED BY <1>3, <2>2 DEF CcmInv, CcmReceiver
<1>. QED BY <1>2, <1>3 DEF CCM!IsCcm

LEMMA CcmInductive ==
  ASSUME CCM!CcmAssumption, CcmGood
  PROVE  /\ CCM!Init => CcmInv
         /\ CcmInv /\ [CCM!Next]_CCM!vars => CcmInv'
         /\ CcmInv => CCM!IsCcm
<1>1. CCM!Init => CcmInv
  BY CcmInitInv
<1>2. CcmInv /\ [CCM!Next]_CCM!vars => CcmInv'
  <2> SUFFICES ASSUME CcmInv, [CCM!Next]_CCM!vars PROVE CcmInv'
    OBVIOUS
  <2>1. CASE CCM!Start
    BY <2>1, CcmStartInv
  <2>2. CASE CCM!Loop
    BY <2>2, CcmLoopInv
  <2>3. CASE CCM!EncryptEnds
    BY <2>3, CcmEncryptEndsInv
  <2>4. CASE CCM!Arrive
    BY <2>4, CcmArriveInv
  <2>5. CASE CCM!DecryptEnds
    BY <2>5, CcmDecryptEndsInv
  <2>6. CASE UNCHANGED CCM!vars
    BY <2>6 DEF CCM!vars, CCM!given, CcmInv, CcmTypes, CcmSized, CcmTurn, CcmPlain, CcmSender, CcmReceiver
  <2>. QED BY <2>1, <2>2, <2>3, <2>4, <2>5, <2>6 DEF CCM!Next
<1>3. CcmInv => CCM!IsCcm
  BY CcmInvHolds
<1>. QED BY <1>1, <1>2, <1>3

CcmRunning == running = "ccm" => CcmInv

\* Whatever the block cipher is, aes_ccm_encrypt_and_tag is CCM by its definition, and
\* aes_ccm_auth_decrypt gives back what it was given, or gives nothing, for every key, nonce,
\* text and additional data, with each in one buffer.
THEOREM IsCcmAlways ==
  ASSUME CcmGood PROVE  AlgorithmSpec => []IsCcm
<1>1. /\ CCM!Init => CcmInv
      /\ CcmInv /\ [CCM!Next]_CCM!vars => CcmInv'
      /\ CcmInv => CCM!IsCcm
  BY CcmInputs, CcmInductive
<1>2. AlgorithmInit => CcmRunning
  BY <1>1 DEF AlgorithmInit, CcmRunning
<1>3. CcmRunning /\ [AlgorithmNext]_algorithmVars => CcmRunning'
  <2> SUFFICES ASSUME CcmRunning, [AlgorithmNext]_algorithmVars, running' = "ccm" PROVE CcmInv'
    BY DEF CcmRunning
  <2>1. running' = running
    BY DEF AlgorithmNext, algorithmVars
  <2>2. CcmInv
    BY <2>1 DEF CcmRunning
  <2>3. CCM!Next \/ UNCHANGED CCM!vars
    BY <2>1 DEF AlgorithmNext, algorithmVars, ofCcm, CCM!vars, CCM!given
  <2>. QED BY <1>1, <2>2, <2>3
<1>4. CcmRunning => IsCcm
  BY <1>1 DEF CcmRunning, IsCcm
<1>. QED BY <1>2, <1>3, <1>4, PTL DEF AlgorithmSpec

-----------------------------------------------------------------------------
(* AES (Aes).                                                              *)

LEMMA BitIs == ASSUME NEW a \in Byte, NEW j \in 1 .. 8 PROVE Bits(a)[j] \in {0, 1}
  BY BitsTyped DEF BitString

\* Sums of more than two bytes: in any order.
LEMMA XorSwap ==
  ASSUME NEW a \in Byte, NEW b \in Byte, NEW c \in Byte, NEW d \in Byte
  PROVE  Xor(Xor(a, b), Xor(c, d)) = Xor(Xor(a, c), Xor(b, d))
<1>1. /\ Xor(a, b) \in Byte /\ Xor(c, d) \in Byte /\ Xor(a, c) \in Byte /\ Xor(b, d) \in Byte
      /\ Xor(Xor(a, b), Xor(c, d)) \in Byte /\ Xor(Xor(a, c), Xor(b, d)) \in Byte
  BY XorBits
<1>2. ASSUME NEW j \in 1 .. 8 PROVE Bits(Xor(Xor(a, b), Xor(c, d)))[j] = Bits(Xor(Xor(a, c), Xor(b, d)))[j]
  <2>1. Bits(Xor(Xor(a, b), Xor(c, d)))[j] = (((Bits(a)[j] + Bits(b)[j]) % 2) + ((Bits(c)[j] + Bits(d)[j]) % 2)) % 2
    BY <1>1, XorBit
  <2>2. Bits(Xor(Xor(a, c), Xor(b, d)))[j] = (((Bits(a)[j] + Bits(c)[j]) % 2) + ((Bits(b)[j] + Bits(d)[j]) % 2)) % 2
    BY <1>1, XorBit
  <2>3. Bits(a)[j] \in {0, 1} /\ Bits(b)[j] \in {0, 1} /\ Bits(c)[j] \in {0, 1} /\ Bits(d)[j] \in {0, 1}
    BY BitIs
  <2>. QED BY <2>1, <2>2, <2>3
<1>. QED BY <1>1, <1>2, SameBits

\* What appears twice disappears.
LEMMA XorTwice ==
  ASSUME NEW a \in Byte, NEW b \in Byte, NEW c \in Byte
  PROVE  Xor(Xor(a, b), Xor(a, c)) = Xor(b, c) /\ Xor(Xor(a, b), Xor(b, c)) = Xor(a, c)
<1>1. Xor(b, c) \in Byte /\ Xor(a, a) = 0 /\ Xor(0, Xor(b, c)) = Xor(b, c) /\ Xor(a, b) = Xor(b, a)
      /\ Xor(b, b) = 0 /\ Xor(a, c) \in Byte /\ Xor(0, Xor(a, c)) = Xor(a, c)
  BY XorBits, XorZero, XorCommutes
<1>2. Xor(Xor(a, b), Xor(a, c)) = Xor(Xor(a, a), Xor(b, c)) /\ Xor(Xor(b, a), Xor(b, c)) = Xor(Xor(b, b), Xor(a, c))
  BY XorSwap
<1>. QED BY <1>1, <1>2

\* Doubling moves the bits and folds the last one back.
Doubled(s) ==
  <<s[8], (s[1] + s[8]) % 2, s[2], (s[3] + s[8]) % 2, (s[4] + s[8]) % 2, s[5], s[6], s[7]>>

LEMMA DoubledIs ==
  ASSUME NEW v \in Byte
  PROVE  AES!galois_mul2(v) \in Byte /\ Bits(AES!galois_mul2(v)) = Doubled(Bits(v))
<1>0. v \in Nat /\ v <= 255
  BY DEF Byte
<1> DEFINE s == Bits(v)
<1>1. /\ s[1] \in {0, 1} /\ s[2] \in {0, 1} /\ s[3] \in {0, 1} /\ s[4] \in {0, 1}
      /\ s[5] \in {0, 1} /\ s[6] \in {0, 1} /\ s[7] \in {0, 1} /\ s[8] \in {0, 1}
  BY BitIs
<1>2. v = s[1] + 2 * s[2] + 4 * s[3] + 8 * s[4] + 16 * s[5] + 32 * s[6] + 64 * s[7] + 128 * s[8]
  BY BitsTyped DEF FromBits
<1> HIDE DEF s
<1> DEFINE t == <<0, s[1], s[2], s[3], s[4], s[5], s[6], s[7]>>
           w == (2 * v) % 256
<1>3. w = 2 * s[1] + 4 * s[2] + 8 * s[3] + 16 * s[4] + 32 * s[5] + 64 * s[6] + 128 * s[7]
  <2> DEFINE l == s[1] + 2 * s[2] + 4 * s[3] + 8 * s[4] + 16 * s[5] + 32 * s[6] + 64 * s[7]
  <2>1. l \in Nat /\ l <= 127
    BY <1>1
  <2>2. v = l + 128 * s[8] /\ 2 * l = 2 * s[1] + 4 * s[2] + 8 * s[3] + 16 * s[4] + 32 * s[5] + 64 * s[6] + 128 * s[7]
    BY <1>1, <1>2
  <2> HIDE DEF l
  <2>3. (2 * v) % 256 = 2 * l
    <3>1. CASE s[8] = 0
      BY <2>1, <2>2, <3>1
    <3>2. CASE s[8] = 1
      BY <2>1, <2>2, <3>2
    <3>. QED BY <1>1, <3>1, <3>2
  <2>. QED BY <2>2, <2>3
<1>4. t \in BitString
  BY <1>1 DEF BitString
<1>5. w = FromBits(t)
  BY <1>1, <1>3 DEF FromBits
<1> HIDE DEF w, t
<1>6. w \in Byte /\ Bits(w) = t
  BY <1>4, <1>5, BitsBack
<1>7. v >= 128 <=> s[8] = 1
  BY <1>1, <1>2
<1>8. CASE s[8] = 0
  <2>1. 2 * v = w
    <3>1. v <= 127
      BY <1>1, <1>2, <1>8
    <3>. QED BY <1>0, <3>1 DEF w
  <2>2. AES!galois_mul2(v) = w
    BY <1>7, <1>8, <2>1 DEF AES!galois_mul2
  <2>3. Doubled(s) = t
    BY <1>1, <1>8 DEF Doubled, t
  <2>. QED BY <1>6, <2>2, <2>3 DEF s
<1>9. CASE s[8] = 1
  <2>1. AES!galois_mul2(v) = Xor(w, 27)
    BY <1>7, <1>9 DEF AES!galois_mul2, w
  <2>2. 27 \in Byte /\ Bits(27) = <<1, 1, 0, 1, 1, 0, 0, 0>>
    BY DEF Byte, Bits
  <2>3. Xor(w, 27) \in Byte
    BY <1>6, <2>2, XorBits
  <2>4. Bits(Xor(w, 27)) = [j \in 1 .. 8 |-> (t[j] + Bits(27)[j]) % 2]
    <3> DEFINE c == 27
    <3>1. c \in Byte
      BY <2>2
    <3> HIDE DEF c
    <3>2. Bits(Xor(w, c)) = [j \in 1 .. 8 |-> (Bits(w)[j] + Bits(c)[j]) % 2]
      BY <1>6, <3>1, XorBits
    <3>. QED BY <1>6, <3>2 DEF c
  <2> DEFINE e == [j \in 1 .. 8 |-> (t[j] + Bits(27)[j]) % 2]
             d == Doubled(s)
  <2>5. \A j \in 1 .. 8 : e[j] = d[j]
    BY <1>1, <1>9, <2>2 DEF Doubled, t
  <2>6. d = [j \in 1 .. 8 |-> d[j]]
    BY DEF Doubled
  <2> HIDE DEF d
  <2>7. e = d
    BY <2>5, <2>6
  <2>. QED BY <2>1, <2>3, <2>4, <2>7 DEF d, s
<1>. QED BY <1>1, <1>8, <1>9

\* Doubling and sums.
LEMMA DoublingAdds ==
  ASSUME NEW a \in Byte, NEW b \in Byte
  PROVE  AES!galois_mul2(Xor(a, b)) = Xor(AES!galois_mul2(a), AES!galois_mul2(b))
<1> DEFINE x == Xor(a, b)
           g == AES!galois_mul2(a)
           h == AES!galois_mul2(b)
           f == AES!galois_mul2(x)
<1>1. x \in Byte /\ \A j \in 1 .. 8 : Bits(x)[j] = (Bits(a)[j] + Bits(b)[j]) % 2
  BY XorBits, XorBit
<1> HIDE DEF x
<1>2. g \in Byte /\ h \in Byte /\ f \in Byte /\ Bits(g) = Doubled(Bits(a)) /\ Bits(h) = Doubled(Bits(b)) /\ Bits(f) = Doubled(Bits(x))
  BY <1>1, DoubledIs
<1>3. \A j \in 1 .. 8 : Bits(a)[j] \in {0, 1} /\ Bits(b)[j] \in {0, 1}
  BY BitIs
<1> HIDE DEF f, g, h
<1>4. Xor(g, h) \in Byte /\ \A j \in 1 .. 8 : Bits(Xor(g, h))[j] = (Bits(g)[j] + Bits(h)[j]) % 2
  BY <1>2, XorBits, XorBit
<1> DEFINE s == Bits(a)
           t == Bits(b)
           u == Bits(x)
<1>5. /\ s[1] \in {0, 1} /\ s[2] \in {0, 1} /\ s[3] \in {0, 1} /\ s[4] \in {0, 1}
      /\ s[5] \in {0, 1} /\ s[6] \in {0, 1} /\ s[7] \in {0, 1} /\ s[8] \in {0, 1}
  BY <1>3
<1>6. /\ t[1] \in {0, 1} /\ t[2] \in {0, 1} /\ t[3] \in {0, 1} /\ t[4] \in {0, 1}
      /\ t[5] \in {0, 1} /\ t[6] \in {0, 1} /\ t[7] \in {0, 1} /\ t[8] \in {0, 1}
  BY <1>3
<1>7. \A j \in 1 .. 8 : u[j] = (s[j] + t[j]) % 2
  BY <1>1
<1> HIDE DEF s, t, u
<1>8. \A j \in 1 .. 8 : Doubled(u)[j] = (Doubled(s)[j] + Doubled(t)[j]) % 2
  <2>1. /\ u[1] = (s[1] + t[1]) % 2 /\ u[2] = (s[2] + t[2]) % 2 /\ u[3] = (s[3] + t[3]) % 2 /\ u[4] = (s[4] + t[4]) % 2
        /\ u[5] = (s[5] + t[5]) % 2 /\ u[6] = (s[6] + t[6]) % 2 /\ u[7] = (s[7] + t[7]) % 2 /\ u[8] = (s[8] + t[8]) % 2
    BY <1>7
  <2>2. Doubled(u)[1] = (Doubled(s)[1] + Doubled(t)[1]) % 2 /\ Doubled(u)[2] = (Doubled(s)[2] + Doubled(t)[2]) % 2
    BY <1>5, <1>6, <2>1 DEF Doubled
  <2>3. Doubled(u)[3] = (Doubled(s)[3] + Doubled(t)[3]) % 2 /\ Doubled(u)[4] = (Doubled(s)[4] + Doubled(t)[4]) % 2
    BY <1>5, <1>6, <2>1 DEF Doubled
  <2>4. Doubled(u)[5] = (Doubled(s)[5] + Doubled(t)[5]) % 2 /\ Doubled(u)[6] = (Doubled(s)[6] + Doubled(t)[6]) % 2
    BY <1>5, <1>6, <2>1 DEF Doubled
  <2>5. Doubled(u)[7] = (Doubled(s)[7] + Doubled(t)[7]) % 2 /\ Doubled(u)[8] = (Doubled(s)[8] + Doubled(t)[8]) % 2
    BY <1>5, <1>6, <2>1 DEF Doubled
  <2>. QED BY <2>2, <2>3, <2>4, <2>5
<1>9. f = Xor(g, h)
  <2>1. \A j \in 1 .. 8 : Bits(f)[j] = Bits(Xor(g, h))[j]
    BY <1>2, <1>4, <1>8 DEF s, t, u
  <2>. QED BY <1>2, <1>4, <2>1, SameBits
<1>. QED BY <1>9 DEF f, g, h, x

Twice(a) == AES!galois_mul2(a)
ByteMix(a, b, c, d) == Xor(Xor(a, Twice(Xor(a, b))), AES!Xor4(a, b, c, d))
ByteTwice(a, c) == Xor(a, Twice(Twice(Xor(a, c))))

LEMMA TwiceIs ==
  ASSUME NEW a \in Byte, NEW b \in Byte
  PROVE  Twice(a) \in Byte /\ Twice(Xor(a, b)) = Xor(Twice(a), Twice(b))
  BY DoubledIs, DoublingAdds DEF Twice

LEMMA FourTurn ==
  ASSUME NEW a \in Byte, NEW b \in Byte, NEW c \in Byte, NEW d \in Byte
  PROVE  AES!Xor4(a, b, c, d) = AES!Xor4(b, c, d, a) /\ AES!Xor4(a, b, c, d) \in Byte
<1>1. Xor(a, b) \in Byte /\ Xor(c, d) \in Byte /\ Xor(b, d) \in Byte /\ Xor(a, c) \in Byte /\ Xor(c, a) = Xor(a, c)
  BY XorBits, XorCommutes
<1>2. Xor(Xor(a, b), Xor(c, d)) = Xor(Xor(a, c), Xor(b, d))
  BY XorSwap
<1>3. Xor(Xor(b, c), Xor(d, a)) = Xor(Xor(b, d), Xor(c, a))
  BY XorSwap
<1>4. Xor(Xor(b, d), Xor(a, c)) = Xor(Xor(a, c), Xor(b, d))
  BY <1>1, XorCommutes
<1>5. Xor(Xor(a, b), Xor(c, d)) \in Byte
  BY <1>1, XorBits
<1>. QED BY <1>1, <1>2, <1>3, <1>4, <1>5 DEF AES!Xor4

LEMMA ByteMixTyped ==
  ASSUME NEW a \in Byte, NEW b \in Byte, NEW c \in Byte, NEW d \in Byte
  PROVE  ByteMix(a, b, c, d) \in Byte
<1>1. Xor(a, b) \in Byte
  BY XorBits
<1>2. Twice(Xor(a, b)) \in Byte
  BY <1>1, DoubledIs DEF Twice
<1>3. Xor(a, Twice(Xor(a, b))) \in Byte
  BY <1>2, XorBits
<1>. QED BY <1>3, FourTurn, XorBits DEF ByteMix

\* Two sums with the same addend.
LEMMA XorDrop ==
  ASSUME NEW a \in Byte, NEW b \in Byte, NEW w \in Byte
  PROVE  Xor(Xor(a, w), Xor(b, w)) = Xor(a, b) /\ Xor(Xor(Xor(a, w), b), w) = Xor(a, b)
<1>1. Xor(a, b) \in Byte /\ Xor(w, w) = 0 /\ Xor(Xor(a, b), 0) = Xor(a, b) /\ Xor(w, b) = Xor(b, w) /\ Xor(w, b) \in Byte
  BY XorBits, XorZero, XorCommutes
<1>2. Xor(Xor(a, w), Xor(b, w)) = Xor(Xor(a, b), Xor(w, w))
  BY XorSwap
<1>3. Xor(Xor(a, w), b) = Xor(a, Xor(w, b))
  BY XorAssociates
<1>4. Xor(a, Xor(b, w)) = Xor(Xor(a, b), w)
  BY XorAssociates
<1>5. Xor(Xor(Xor(a, b), w), w) = Xor(a, b)
  BY <1>1, XorBack
<1>. QED BY <1>1, <1>2, <1>3, <1>4, <1>5

\* The sum of two neighbours after the mixing.
LEMMA MixedPair ==
  ASSUME NEW a \in Byte, NEW b \in Byte, NEW c \in Byte, NEW w \in Byte
  PROVE  Xor(Xor(Xor(a, Twice(Xor(a, b))), w), Xor(Xor(b, Twice(Xor(b, c))), w)) = Xor(Xor(a, b), Twice(Xor(a, c)))
<1> DEFINE ab == Xor(a, b)
           bc == Xor(b, c)
           e == Twice(ab)
           f == Twice(bc)
           x == Xor(a, e)
           z == Xor(b, f)
<1>1. ab \in Byte /\ bc \in Byte
  BY XorBits
<1>2. Xor(ab, bc) = Xor(a, c)
  BY XorTwice
<1> HIDE DEF ab, bc
<1>3. e \in Byte /\ f \in Byte /\ Twice(Xor(ab, bc)) = Xor(e, f)
  BY <1>1, TwiceIs
<1> HIDE DEF e, f
<1>4. x \in Byte /\ z \in Byte /\ Xor(x, z) = Xor(Xor(a, b), Xor(e, f))
  BY <1>3, XorBits, XorSwap
<1> HIDE DEF x, z
<1>5. Xor(Xor(x, w), Xor(z, w)) = Xor(x, z)
  BY <1>4, XorDrop
<1>6. Xor(Xor(x, w), Xor(z, w)) = Xor(Xor(a, b), Twice(Xor(a, c)))
  BY <1>2, <1>3, <1>4, <1>5
<1>. QED BY <1>6 DEF x, z, e, f, ab, bc

\* Mixed twice, one byte at a time.
LEMMA MixTwiceByte ==
  ASSUME NEW a \in Byte, NEW b \in Byte, NEW c \in Byte, NEW d \in Byte
  PROVE  ByteMix(ByteMix(a, b, c, d), ByteMix(b, c, d, a), ByteMix(c, d, a, b), ByteMix(d, a, b, c)) = ByteTwice(a, c)
<1> DEFINE w == AES!Xor4(a, b, c, d)
           m1 == ByteMix(a, b, c, d)
           m2 == ByteMix(b, c, d, a)
           m3 == ByteMix(c, d, a, b)
           m4 == ByteMix(d, a, b, c)
           ab == Xor(a, b)
           cd == Xor(c, d)
           ac == Xor(a, c)
           e == Twice(ab)
           g == Twice(ac)
           h == Twice(g)
           x == Xor(a, e)
<1>1. w \in Byte /\ w = AES!Xor4(b, c, d, a) /\ w = AES!Xor4(c, d, a, b) /\ w = AES!Xor4(d, a, b, c)
  BY FourTurn
<1>2. w = Xor(ab, cd)
  BY DEF AES!Xor4
<1>3. /\ m1 = Xor(Xor(a, Twice(Xor(a, b))), w) /\ m2 = Xor(Xor(b, Twice(Xor(b, c))), w)
      /\ m3 = Xor(Xor(c, Twice(Xor(c, d))), w) /\ m4 = Xor(Xor(d, Twice(Xor(d, a))), w)
  BY <1>1 DEF ByteMix
<1>4. m1 \in Byte /\ m2 \in Byte /\ m3 \in Byte /\ m4 \in Byte
  BY ByteMixTyped
<1>5. ab \in Byte /\ cd \in Byte /\ ac \in Byte /\ Xor(c, a) = ac
  BY XorBits, XorCommutes
<1> HIDE DEF w
<1>6. Xor(m1, m2) = Xor(ab, g)
  BY <1>1, <1>3, MixedPair
<1>7. Xor(m3, m4) = Xor(cd, g)
  <2>1. Xor(m3, m4) = Xor(Xor(c, d), Twice(Xor(c, a)))
    BY <1>1, <1>3, MixedPair
  <2>. QED BY <1>5, <2>1
<1>8. x = Xor(a, e) /\ m1 = Xor(x, w)
  BY <1>3
<1> HIDE DEF m1, m2, m3, m4, ab, cd, ac
<1>9. e \in Byte /\ g \in Byte
  BY <1>5, TwiceIs
<1>10. Twice(Xor(ab, g)) = Xor(e, h) /\ h \in Byte
  BY <1>5, <1>9, TwiceIs
<1>11. AES!Xor4(m1, m2, m3, m4) = w
  <2>1. Xor(Xor(ab, g), Xor(cd, g)) = Xor(ab, cd)
    BY <1>5, <1>9, XorDrop
  <2>. QED BY <1>2, <1>6, <1>7, <2>1 DEF AES!Xor4
<1> HIDE DEF e, g, h, x
<1>12. ByteMix(m1, m2, m3, m4) = Xor(Xor(Xor(x, w), Xor(e, h)), w)
  BY <1>6, <1>8, <1>10, <1>11 DEF ByteMix
<1>13. x \in Byte /\ Xor(e, h) \in Byte
  BY <1>8, <1>9, <1>10, XorBits
<1>14. Xor(Xor(Xor(x, w), Xor(e, h)), w) = Xor(x, Xor(e, h))
  BY <1>1, <1>13, XorDrop
<1>15. Xor(x, Xor(e, h)) = Xor(a, h)
  BY <1>8, <1>9, <1>10, XorTwice
<1>. QED BY <1>12, <1>14, <1>15 DEF ByteTwice, h, g, ac, m1, m2, m3, m4

\* The precomputation twice changes nothing.
LEMMA TwiceTwiceByte ==
  ASSUME NEW a \in Byte, NEW c \in Byte
  PROVE  ByteTwice(a, c) \in Byte /\ ByteTwice(ByteTwice(a, c), ByteTwice(c, a)) = a
<1> DEFINE ac == Xor(a, c)
           g == Twice(Twice(ac))
           p == Xor(a, g)
           r == Xor(c, g)
<1>1. ac \in Byte /\ Xor(c, a) = ac
  BY XorBits, XorCommutes
<1>2. ByteTwice(a, c) = p /\ ByteTwice(c, a) = r
  BY <1>1 DEF ByteTwice
<1> HIDE DEF ac
<1>3. g \in Byte
  <2>1. Twice(ac) \in Byte
    BY <1>1, TwiceIs
  <2>. QED BY <2>1, TwiceIs
<1>4. Xor(p, r) = ac
  <2> HIDE DEF g
  <2>. QED BY <1>3, XorDrop DEF ac
<1>5. ByteTwice(p, r) = Xor(p, g)
  BY <1>4 DEF ByteTwice
<1> HIDE DEF g
<1>6. p \in Byte /\ Xor(p, g) = a
  BY <1>3, XorBits, XorBack
<1>. QED BY <1>2, <1>5, <1>6

\* The standard's mixing, one byte of it.
LEMMA MixOnceByte ==
  ASSUME NEW a \in Byte, NEW b \in Byte, NEW c \in Byte, NEW d \in Byte
  PROVE  ByteMix(a, b, c, d) = AES!Xor4(Twice(a), Xor(Twice(b), b), c, d)
<1> DEFINE p == Twice(a)
           r == Twice(b)
           x == Xor(p, r)
           cd == Xor(c, d)
           ab == Xor(a, b)
<1>1. p \in Byte /\ r \in Byte /\ Twice(Xor(a, b)) = x
  BY TwiceIs
<1>2. cd \in Byte /\ ab \in Byte
  BY XorBits
<1>3. ByteMix(a, b, c, d) = Xor(Xor(a, x), Xor(ab, cd))
  BY <1>1 DEF ByteMix, AES!Xor4
<1>4. AES!Xor4(Twice(a), Xor(Twice(b), b), c, d) = Xor(Xor(p, Xor(r, b)), cd)
  BY DEF AES!Xor4
<1> HIDE DEF p, r, cd, ab
<1>5. x \in Byte
  BY <1>1, XorBits
<1>6. Xor(x, b) = Xor(p, Xor(r, b))
  BY <1>1, XorAssociates
<1> HIDE DEF x
<1>7. Xor(a, x) \in Byte /\ Xor(Xor(a, x), ab) = Xor(x, b)
  BY <1>5, XorBits, XorTwice DEF ab
<1>8. Xor(Xor(Xor(a, x), ab), cd) = Xor(Xor(a, x), Xor(ab, cd))
  BY <1>2, <1>7, XorAssociates
<1>. QED BY <1>3, <1>4, <1>6, <1>7, <1>8

AesBlock == [0 .. 15 -> Byte]
At(i, k) == i - (i % 4) + ((i + k) % 4)

LEMMA SameAesBlock ==
  ASSUME NEW s \in AesBlock, NEW t \in AesBlock, \A i \in 0 .. 15 : s[i] = t[i]
  PROVE  s = t
<1>1. s = [i \in 0 .. 15 |-> s[i]] /\ t = [i \in 0 .. 15 |-> t[i]]
  BY DEF AesBlock
<1>. QED BY <1>1

LEMMA AesElement == ASSUME NEW s \in AesBlock, NEW i \in 0 .. 15 PROVE s[i] \in Byte
  BY DEF AesBlock

\* The places of a column, from any of them.
LEMMA AtIs ==
  ASSUME NEW i \in 0 .. 15
  PROVE  /\ At(i, 1) \in 0 .. 15 /\ At(i, 2) \in 0 .. 15 /\ At(i, 3) \in 0 .. 15 /\ At(i, 0) = i
         /\ At(At(i, 1), 1) = At(i, 2) /\ At(At(i, 1), 2) = At(i, 3) /\ At(At(i, 1), 3) = i
         /\ At(At(i, 2), 1) = At(i, 3) /\ At(At(i, 2), 2) = i /\ At(At(i, 2), 3) = At(i, 1)
         /\ At(At(i, 3), 1) = i /\ At(At(i, 3), 2) = At(i, 1) /\ At(At(i, 3), 3) = At(i, 2)
<1>1. PICK c \in Int : c = i - (i % 4) /\ c \in 0 .. 12 /\ c % 4 = 0
  OBVIOUS
<1>2. i = c \/ i = c + 1 \/ i = c + 2 \/ i = c + 3
  BY <1>1
<1>3. /\ \A k \in 0 .. 3 : At(c, k) = c + k
      /\ \A k \in 0 .. 3 : At(c + 1, k) = c + ((1 + k) % 4)
      /\ \A k \in 0 .. 3 : At(c + 2, k) = c + ((2 + k) % 4)
      /\ \A k \in 0 .. 3 : At(c + 3, k) = c + ((3 + k) % 4)
  BY <1>1 DEF At
<1>4. /\ At(c, 0) = c /\ At(c, 1) = c + 1 /\ At(c, 2) = c + 2 /\ At(c, 3) = c + 3
      /\ At(c + 1, 0) = c + 1 /\ At(c + 1, 1) = c + 2 /\ At(c + 1, 2) = c + 3 /\ At(c + 1, 3) = c
      /\ At(c + 2, 0) = c + 2 /\ At(c + 2, 1) = c + 3 /\ At(c + 2, 2) = c /\ At(c + 2, 3) = c + 1
      /\ At(c + 3, 0) = c + 3 /\ At(c + 3, 1) = c /\ At(c + 3, 2) = c + 1 /\ At(c + 3, 3) = c + 2
  BY <1>1, <1>3
<1>5. c \in 0 .. 15 /\ c + 1 \in 0 .. 15 /\ c + 2 \in 0 .. 15 /\ c + 3 \in 0 .. 15
  BY <1>1
<1>6. CASE i = c
  BY <1>4, <1>5, <1>6
<1>7. CASE i = c + 1
  BY <1>4, <1>5, <1>7
<1>8. CASE i = c + 2
  BY <1>4, <1>5, <1>8
<1>9. CASE i = c + 3
  BY <1>4, <1>5, <1>9
<1>. QED BY <1>2, <1>6, <1>7, <1>8, <1>9

\* The sum of a column, from any of its bytes.
LEMMA ColumnSum ==
  ASSUME NEW s \in AesBlock, NEW i \in 0 .. 15
  PROVE  LET c == i - (i % 4) IN
         AES!Xor4(s[c], s[c + 1], s[c + 2], s[c + 3]) = AES!Xor4(s[i], s[At(i, 1)], s[At(i, 2)], s[At(i, 3)])
<1> DEFINE c == i - (i % 4)
<1>1. c \in Int /\ c \in 0 .. 15 /\ c + 1 \in 0 .. 15 /\ c + 2 \in 0 .. 15 /\ c + 3 \in 0 .. 15
  OBVIOUS
<1>2. /\ i % 4 = 0 => i = c /\ At(i, 1) = c + 1 /\ At(i, 2) = c + 2 /\ At(i, 3) = c + 3
      /\ i % 4 = 1 => i = c + 1 /\ At(i, 1) = c + 2 /\ At(i, 2) = c + 3 /\ At(i, 3) = c
      /\ i % 4 = 2 => i = c + 2 /\ At(i, 1) = c + 3 /\ At(i, 2) = c /\ At(i, 3) = c + 1
      /\ i % 4 = 3 => i = c + 3 /\ At(i, 1) = c /\ At(i, 2) = c + 1 /\ At(i, 3) = c + 2
  BY DEF At
<1>3. i % 4 = 0 \/ i % 4 = 1 \/ i % 4 = 2 \/ i % 4 = 3
  OBVIOUS
<1> HIDE DEF c
<1> DEFINE a == s[c]
           b == s[c + 1]
           d == s[c + 2]
           e == s[c + 3]
<1>4. a \in Byte /\ b \in Byte /\ d \in Byte /\ e \in Byte
  BY <1>1, AesElement
<1>5. AES!Xor4(a, b, d, e) = AES!Xor4(b, d, e, a) /\ AES!Xor4(b, d, e, a) = AES!Xor4(d, e, a, b) /\ AES!Xor4(d, e, a, b) = AES!Xor4(e, a, b, d)
  <2> HIDE DEF a, b, d, e
  <2>. QED BY <1>4, FourTurn
<1>. QED BY <1>2, <1>3, <1>5 DEF c

LEMMA MixedIs ==
  ASSUME NEW s \in AesBlock
  PROVE  /\ AES!Mixed(s) \in AesBlock
         /\ \A i \in 0 .. 15 : AES!Mixed(s)[i] = ByteMix(s[i], s[At(i, 1)], s[At(i, 2)], s[At(i, 3)])
<1> DEFINE e(i) == ByteMix(s[i], s[At(i, 1)], s[At(i, 2)], s[At(i, 3)])
           f(i) == LET c == i - (i % 4) next == s[c + ((i + 1) % 4)]
                   IN  Xor(Xor(s[i], AES!galois_mul2(Xor(s[i], next))), AES!Xor4(s[c], s[c + 1], s[c + 2], s[c + 3]))
<1>1. AES!Mixed(s) = [i \in 0 .. 15 |-> f(i)]
  BY DEF AES!Mixed, AES!Bytes
<1>2. ASSUME NEW i \in 0 .. 15 PROVE f(i) = e(i) /\ e(i) \in Byte
  <2>1. AES!Xor4(s[i - (i % 4)], s[i - (i % 4) + 1], s[i - (i % 4) + 2], s[i - (i % 4) + 3])
          = AES!Xor4(s[i], s[At(i, 1)], s[At(i, 2)], s[At(i, 3)])
    BY ColumnSum
  <2>2. s[i - (i % 4) + ((i + 1) % 4)] = s[At(i, 1)]
    BY DEF At
  <2>3. f(i) = e(i)
    BY <2>1, <2>2 DEF ByteMix, Twice
  <2>4. s[i] \in Byte /\ s[At(i, 1)] \in Byte /\ s[At(i, 2)] \in Byte /\ s[At(i, 3)] \in Byte
    BY AtIs, AesElement
  <2>5. e(i) \in Byte
    BY <2>4, ByteMixTyped
  <2>. QED BY <2>3, <2>5
<1> HIDE DEF e, f
<1>3. AES!Mixed(s) = [i \in 0 .. 15 |-> e(i)]
  BY <1>1, <1>2
<1>. QED BY <1>2, <1>3 DEF AesBlock, e

LEMMA PrecomputedIs ==
  ASSUME NEW s \in AesBlock
  PROVE  /\ AES!Precomputed(s) \in AesBlock
         /\ \A i \in 0 .. 15 : AES!Precomputed(s)[i] = ByteTwice(s[i], s[At(i, 2)])
<1> DEFINE e(i) == ByteTwice(s[i], s[At(i, 2)])
<1>1. AES!Precomputed(s) = [i \in 0 .. 15 |-> e(i)]
  BY DEF AES!Precomputed, AES!Bytes, ByteTwice, Twice, At
<1>2. ASSUME NEW i \in 0 .. 15 PROVE e(i) \in Byte
  <2>1. s[i] \in Byte /\ s[At(i, 2)] \in Byte
    BY AtIs, AesElement
  <2>. QED BY <2>1, TwiceTwiceByte
<1> HIDE DEF e
<1>. QED BY <1>1, <1>2 DEF AesBlock, e

LEMMA MixedTwice == ASSUME NEW s \in AesBlock PROVE AES!Mixed(AES!Mixed(s)) = AES!Precomputed(s)
<1> DEFINE m == AES!Mixed(s)
           w == AES!Mixed(m)
           p == AES!Precomputed(s)
<1>1. m \in AesBlock /\ \A i \in 0 .. 15 : m[i] = ByteMix(s[i], s[At(i, 1)], s[At(i, 2)], s[At(i, 3)])
  BY MixedIs
<1> HIDE DEF m
<1>2. w \in AesBlock /\ \A i \in 0 .. 15 : w[i] = ByteMix(m[i], m[At(i, 1)], m[At(i, 2)], m[At(i, 3)])
  BY <1>1, MixedIs
<1>3. p \in AesBlock /\ \A i \in 0 .. 15 : p[i] = ByteTwice(s[i], s[At(i, 2)])
  BY PrecomputedIs
<1> HIDE DEF w, p
<1>4. ASSUME NEW i \in 0 .. 15 PROVE w[i] = p[i]
  <2> DEFINE j == At(i, 1)
             k == At(i, 2)
             l == At(i, 3)
  <2>1. /\ j \in 0 .. 15 /\ k \in 0 .. 15 /\ l \in 0 .. 15
        /\ At(j, 1) = k /\ At(j, 2) = l /\ At(j, 3) = i
        /\ At(k, 1) = l /\ At(k, 2) = i /\ At(k, 3) = j
        /\ At(l, 1) = i /\ At(l, 2) = j /\ At(l, 3) = k
    BY AtIs
  <2>2. w[i] = ByteMix(m[i], m[j], m[k], m[l]) /\ p[i] = ByteTwice(s[i], s[k])
    BY <1>2, <1>3
  <2>3. m[i] = ByteMix(s[i], s[j], s[k], s[l])
    BY <1>1
  <2> HIDE DEF j, k, l
  <2>4. m[j] = ByteMix(s[j], s[k], s[l], s[i]) /\ m[k] = ByteMix(s[k], s[l], s[i], s[j]) /\ m[l] = ByteMix(s[l], s[i], s[j], s[k])
    BY <1>1, <2>1
  <2>5. s[i] \in Byte /\ s[j] \in Byte /\ s[k] \in Byte /\ s[l] \in Byte
    BY <2>1, AesElement
  <2>. QED BY <2>2, <2>3, <2>4, <2>5, MixTwiceByte
<1>5. w = p
  BY <1>2, <1>3, <1>4, SameAesBlock
<1>. QED BY <1>5 DEF w, p, m

LEMMA PrecomputedTwice == ASSUME NEW s \in AesBlock PROVE AES!Precomputed(AES!Precomputed(s)) = s
<1> DEFINE p == AES!Precomputed(s)
           w == AES!Precomputed(p)
<1>1. p \in AesBlock /\ \A i \in 0 .. 15 : p[i] = ByteTwice(s[i], s[At(i, 2)])
  BY PrecomputedIs
<1> HIDE DEF p
<1>2. w \in AesBlock /\ \A i \in 0 .. 15 : w[i] = ByteTwice(p[i], p[At(i, 2)])
  BY <1>1, PrecomputedIs
<1> HIDE DEF w
<1>3. ASSUME NEW i \in 0 .. 15 PROVE w[i] = s[i]
  <2> DEFINE k == At(i, 2)
  <2>1. k \in 0 .. 15 /\ At(k, 2) = i
    BY AtIs
  <2>2. w[i] = ByteTwice(p[i], p[k]) /\ p[i] = ByteTwice(s[i], s[k])
    BY <1>1, <1>2
  <2> HIDE DEF k
  <2>3. p[k] = ByteTwice(s[k], s[i])
    BY <1>1, <2>1
  <2>4. s[i] \in Byte /\ s[k] \in Byte
    BY <2>1, AesElement
  <2>. QED BY <2>2, <2>3, <2>4, TwiceTwiceByte
<1>4. w = s
  BY <1>2, <1>3, SameAesBlock
<1>. QED BY <1>4 DEF w, p

\* "Inv mix column" undoes the mixing.
LEMMA MixedBack == ASSUME NEW s \in AesBlock PROVE AES!Mixed(AES!Precomputed(AES!Mixed(s))) = s
<1> DEFINE m == AES!Mixed(s)
           p == AES!Precomputed(s)
<1>1. m \in AesBlock /\ p \in AesBlock /\ AES!Mixed(m) = p
  BY MixedIs, PrecomputedIs, MixedTwice
<1>2. AES!Precomputed(p) = s
  BY PrecomputedTwice
<1> HIDE DEF m, p
<1>3. AES!Precomputed(m) = AES!Mixed(p)
  BY <1>1, MixedTwice
<1>4. AES!Mixed(AES!Mixed(p)) = AES!Precomputed(p)
  BY <1>1, MixedTwice
<1>. QED BY <1>2, <1>3, <1>4 DEF m

\* The multiplication of the standard by 2 and by 3.
TimesSum(a, b) ==
  CHOOSE v : v = [j \in 0 .. 7 |->
        LET above == IF j = 7 THEN 0 ELSE AES!galois_mul2(v[j + 1])
        IN  IF (b \div (<<1, 2, 4, 8, 16, 32, 64, 128>>[j + 1])) % 2 = 1 THEN Xor(above, a) ELSE above]
LEMMA TimesIs == ASSUME NEW a, NEW b PROVE AES!times(a, b) = TimesSum(a, b)[0]
  BY DEF AES!times, TimesSum

LEMMA TimesTwoThree ==
  ASSUME NEW a \in Byte, NEW b \in {2, 3}
  PROVE  AES!times(a, b) = IF b = 2 THEN Twice(a) ELSE Xor(Twice(a), a)
<1> DEFINE bit(j) == (b \div (<<1, 2, 4, 8, 16, 32, 64, 128>>[j + 1])) % 2
           Term(v, j) == IF bit(j) = 1 THEN Xor(IF j = 7 THEN 0 ELSE AES!galois_mul2(v[j + 1]), a)
                         ELSE (IF j = 7 THEN 0 ELSE AES!galois_mul2(v[j + 1]))
           Is(v) == v = [j \in 0 .. 7 |-> Term(v, j)]
           z == IF b = 2 THEN Twice(a) ELSE Xor(Twice(a), a)
           f == [j \in 0 .. 7 |-> IF j > 1 THEN 0 ELSE IF j = 1 THEN a ELSE z]
<1>1. /\ bit(0) = b - 2 /\ bit(1) = 1 /\ bit(2) = 0 /\ bit(3) = 0 /\ bit(4) = 0 /\ bit(5) = 0 /\ bit(6) = 0 /\ bit(7) = 0
  OBVIOUS
<1>2. AES!galois_mul2(0) = 0
  BY DEF AES!galois_mul2
<1> HIDE DEF bit
<1>3. Xor(0, a) = a
  BY XorZero
<1>4. \A j \in 0 .. 7 : f[j] = Term(f, j)
  <2>1. f[0] = z /\ f[1] = a /\ f[2] = 0 /\ f[3] = 0 /\ f[4] = 0 /\ f[5] = 0 /\ f[6] = 0 /\ f[7] = 0
    OBVIOUS
  <2> HIDE DEF f
  <2>2. f[7] = Term(f, 7) /\ f[6] = Term(f, 6) /\ f[5] = Term(f, 5)
    BY <1>1, <1>2, <2>1
  <2>3. f[4] = Term(f, 4) /\ f[3] = Term(f, 3) /\ f[2] = Term(f, 2)
    BY <1>1, <1>2, <2>1
  <2>4. f[1] = Term(f, 1)
    BY <1>1, <1>2, <1>3, <2>1
  <2>5. f[0] = Term(f, 0)
    <3>1. CASE b = 2
      BY <1>1, <2>1, <3>1 DEF Twice
    <3>2. CASE b = 3
      BY <1>1, <2>1, <3>2 DEF Twice
    <3>. QED BY <3>1, <3>2
  <2> HIDE DEF Term
  <2>. QED BY <2>2, <2>3, <2>4, <2>5
<1>5. Is(f)
  <2>1. f = [j \in 0 .. 7 |-> f[j]]
    OBVIOUS
  <2> HIDE DEF f, Term
  <2>. QED BY <1>4, <2>1
<1>6. TimesSum(a, b) = CHOOSE v : Is(v)
  BY DEF TimesSum, bit
<1> HIDE DEF Is, f, z
<1>7. Is(TimesSum(a, b))
  BY <1>5, <1>6
<1> DEFINE v == TimesSum(a, b)
<1>8. \A j \in 0 .. 7 : v[j] = Term(v, j)
  <2> HIDE DEF v, Term
  <2>1. v = [j \in 0 .. 7 |-> Term(v, j)]
    BY <1>7 DEF Is, v
  <2>. QED BY <2>1
<1> HIDE DEF v
<1>9. v[7] = 0 /\ v[6] = 0 /\ v[5] = 0 /\ v[4] = 0 /\ v[3] = 0 /\ v[2] = 0
  <2>1. v[7] = Term(v, 7) /\ v[6] = Term(v, 6) /\ v[5] = Term(v, 5) /\ v[4] = Term(v, 4) /\ v[3] = Term(v, 3) /\ v[2] = Term(v, 2)
    <3> HIDE DEF Term
    <3>. QED BY <1>8
  <2>. QED BY <1>1, <1>2, <2>1
<1>10. v[1] = a
  <2>1. v[1] = Term(v, 1)
    <3> HIDE DEF Term
    <3>. QED BY <1>8
  <2>. QED BY <1>1, <1>2, <1>3, <1>9, <2>1
<1>11. v[0] = z
  <2>1. v[0] = Term(v, 0)
    <3> HIDE DEF Term
    <3>. QED BY <1>8
  <2>2. CASE b = 2
    BY <1>1, <1>10, <2>1, <2>2 DEF z, Twice
  <2>3. CASE b = 3
    BY <1>1, <1>10, <2>1, <2>3 DEF z, Twice
  <2>. QED BY <2>2, <2>3
<1>. QED BY <1>11, TimesIs DEF v, z

LEMMA MixColumnsIs == ASSUME NEW s \in AesBlock PROVE AES!MixColumns(s) = AES!Mixed(s)
<1> DEFINE m == AES!Mixed(s)
           e(i) == AES!Xor4(AES!times(s[At(i, 0)], 2), AES!times(s[At(i, 1)], 3), s[At(i, 2)], s[At(i, 3)])
<1>1. m \in AesBlock /\ \A i \in 0 .. 15 : m[i] = ByteMix(s[i], s[At(i, 1)], s[At(i, 2)], s[At(i, 3)])
  BY MixedIs
<1>2. AES!MixColumns(s) = [i \in 0 .. 15 |-> e(i)]
  BY DEF AES!MixColumns, AES!Bytes, At
<1> HIDE DEF m
<1>3. ASSUME NEW i \in 0 .. 15 PROVE e(i) = m[i]
  <2> DEFINE a == s[i]
             b == s[At(i, 1)]
             c == s[At(i, 2)]
             d == s[At(i, 3)]
  <2>1. a \in Byte /\ b \in Byte /\ c \in Byte /\ d \in Byte /\ s[At(i, 0)] = a
    BY AtIs, AesElement
  <2>2. e(i) = AES!Xor4(AES!times(a, 2), AES!times(b, 3), c, d) /\ m[i] = ByteMix(a, b, c, d)
    BY <1>1, <2>1
  <2> HIDE DEF a, b, c, d, e
  <2>3. AES!times(a, 2) = Twice(a) /\ AES!times(b, 3) = Xor(Twice(b), b)
    BY <2>1, TimesTwoThree
  <2>4. ByteMix(a, b, c, d) = AES!Xor4(Twice(a), Xor(Twice(b), b), c, d)
    BY <2>1, MixOnceByte
  <2>. QED BY <2>2, <2>3, <2>4
<1> HIDE DEF e
<1>4. m = [i \in 0 .. 15 |-> m[i]]
  BY <1>1 DEF AesBlock
<1>5. AES!MixColumns(s) = m
  BY <1>2, <1>3, <1>4
<1>. QED BY <1>5 DEF m

AesGood == AES!TablesRight

LEMMA SboxIs == ASSUME AesGood, NEW x \in Byte PROVE AES!sbox(x) \in Byte /\ AES!rsbox(AES!sbox(x)) = x
  BY DEF AesGood, AES!TablesRight, Byte

LEMMA RconByte == ASSUME NEW r \in 0 .. 9 PROVE AES!Rcon[r + 1] \in Byte
  BY DEF AES!Rcon, Byte

LEMMA XoredIs ==
  ASSUME NEW s \in AesBlock, NEW t \in AesBlock
  PROVE  AES!Xored(s, t) \in AesBlock /\ \A i \in 0 .. 15 : AES!Xored(s, t)[i] = Xor(s[i], t[i])
<1>1. \A i \in 0 .. 15 : Xor(s[i], t[i]) \in Byte
  BY AesElement, XorBits
<1>2. AES!Xored(s, t) = [i \in 0 .. 15 |-> Xor(s[i], t[i])]
  BY DEF AES!Xored, AES!Bytes
<1>. QED BY <1>1, <1>2 DEF AesBlock

\* The rows of the table are those of the standard, and the other table is its inverse.
LEMMA ShiftedIs ==
  ASSUME NEW i \in 0 .. 15
  PROVE  /\ AES!Shifted[i + 1] \in 0 .. 15 /\ AES!Shifted[i + 1] = 4 * (((i \div 4) + (i % 4)) % 4) + (i % 4)
         /\ AES!InvShifted[i + 1] \in 0 .. 15 /\ AES!Shifted[AES!InvShifted[i + 1] + 1] = i
<1>1. \/ i = 0 \/ i = 1 \/ i = 2 \/ i = 3 \/ i = 4 \/ i = 5 \/ i = 6 \/ i = 7
      \/ i = 8 \/ i = 9 \/ i = 10 \/ i = 11 \/ i = 12 \/ i = 13 \/ i = 14 \/ i = 15
  OBVIOUS
<1>2. AES!Shifted[i + 1] \in 0 .. 15 /\ AES!Shifted[i + 1] = 4 * (((i \div 4) + (i % 4)) % 4) + (i % 4)
  BY <1>1 DEF AES!Shifted
<1>3. AES!InvShifted[i + 1] \in 0 .. 15 /\ AES!Shifted[AES!InvShifted[i + 1] + 1] = i
  BY <1>1 DEF AES!Shifted, AES!InvShifted
<1>. QED BY <1>2, <1>3

\* Bytes replaced and rows shifted.
SubShift(x) == [i \in 0 .. 15 |-> AES!sbox(x[AES!Shifted[i + 1]])]

LEMMA SubShiftIs ==
  ASSUME AesGood, NEW x \in AesBlock
  PROVE  /\ SubShift(x) \in AesBlock
         /\ AES!ShiftRows([i \in AES!Bytes |-> AES!sbox(x[i])]) = SubShift(x)
         /\ \A i \in 0 .. 15 : AES!rsbox(SubShift(x)[AES!InvShifted[i + 1]]) = x[i]
<1>1. \A i \in 0 .. 15 : AES!sbox(x[AES!Shifted[i + 1]]) \in Byte
  BY ShiftedIs, AesElement, SboxIs
<1>2. SubShift(x) \in AesBlock
  BY <1>1 DEF SubShift, AesBlock
<1> DEFINE b == [i \in 0 .. 15 |-> AES!sbox(x[i])]
<1>3. AES!ShiftRows(b) = [i \in 0 .. 15 |-> b[4 * (((i \div 4) + (i % 4)) % 4) + (i % 4)]]
  <2> HIDE DEF b
  <2>. QED BY DEF AES!ShiftRows, AES!Bytes
<1>4. ASSUME NEW i \in 0 .. 15 PROVE b[4 * (((i \div 4) + (i % 4)) % 4) + (i % 4)] = AES!sbox(x[AES!Shifted[i + 1]])
  <2>1. AES!Shifted[i + 1] \in 0 .. 15 /\ AES!Shifted[i + 1] = 4 * (((i \div 4) + (i % 4)) % 4) + (i % 4)
    BY ShiftedIs
  <2> DEFINE j == AES!Shifted[i + 1]
  <2> HIDE DEF j
  <2>2. j \in 0 .. 15 /\ j = 4 * (((i \div 4) + (i % 4)) % 4) + (i % 4)
    BY <2>1 DEF j
  <2>3. b[j] = AES!sbox(x[j])
    BY <2>2
  <2> HIDE DEF b
  <2>. QED BY <2>2, <2>3 DEF j
<1>5. AES!ShiftRows(b) = SubShift(x)
  <2> HIDE DEF b
  <2>. QED BY <1>3, <1>4 DEF SubShift
<1>6. ASSUME NEW i \in 0 .. 15 PROVE AES!rsbox(SubShift(x)[AES!InvShifted[i + 1]]) = x[i]
  <2> DEFINE j == AES!InvShifted[i + 1]
  <2>1. j \in 0 .. 15 /\ AES!Shifted[j + 1] = i
    BY ShiftedIs
  <2> HIDE DEF j
  <2>2. SubShift(x)[j] = AES!sbox(x[AES!Shifted[j + 1]])
    BY <2>1 DEF SubShift
  <2>3. SubShift(x)[j] = AES!sbox(x[i]) /\ x[i] \in Byte
    BY <2>1, <2>2, AesElement
  <2>. QED BY <2>3, SboxIs DEF j
<1>. QED BY <1>2, <1>5, <1>6 DEF AES!Bytes

\* A round of the program on a state and a key.
RoundState(s, k, r) ==
  LET replaced == [i \in AES!Bytes |-> AES!sbox(Xor(s[i], k[i]))]
      shifted == [i \in AES!Bytes |-> replaced[AES!Shifted[i + 1]]]
  IN  IF r < 9 THEN AES!Mixed(shifted) ELSE shifted

LEMMA RoundStateIs ==
  ASSUME AesGood, NEW s \in AesBlock, NEW k \in AesBlock, NEW r \in 0 .. 9
  PROVE  /\ RoundState(s, k, r) \in AesBlock
         /\ RoundState(s, k, r) = IF r < 9 THEN AES!Mixed(SubShift(AES!Xored(s, k))) ELSE SubShift(AES!Xored(s, k))
<1> DEFINE x == AES!Xored(s, k)
           replaced == [i \in AES!Bytes |-> AES!sbox(Xor(s[i], k[i]))]
           shifted == [i \in AES!Bytes |-> replaced[AES!Shifted[i + 1]]]
<1>1. x \in AesBlock /\ \A i \in 0 .. 15 : x[i] = Xor(s[i], k[i])
  BY XoredIs
<1> HIDE DEF x
<1>2. replaced = [i \in 0 .. 15 |-> AES!sbox(x[i])]
  BY <1>1 DEF AES!Bytes
<1>3. \A i \in 0 .. 15 : replaced[AES!Shifted[i + 1]] = AES!sbox(x[AES!Shifted[i + 1]])
  <2> SUFFICES ASSUME NEW i \in 0 .. 15 PROVE replaced[AES!Shifted[i + 1]] = AES!sbox(x[AES!Shifted[i + 1]])
    OBVIOUS
  <2> DEFINE j == AES!Shifted[i + 1]
  <2>1. j \in 0 .. 15
    BY ShiftedIs
  <2> HIDE DEF j, replaced
  <2>2. replaced[j] = AES!sbox(x[j])
    BY <1>2, <2>1
  <2>. QED BY <2>2 DEF j
<1>4. shifted = SubShift(x)
  <2> HIDE DEF replaced
  <2>. QED BY <1>3 DEF SubShift, AES!Bytes
<1>5. SubShift(x) \in AesBlock
  BY <1>1, SubShiftIs
<1>6. AES!Mixed(SubShift(x)) \in AesBlock
  BY <1>5, MixedIs
<1>7. RoundState(s, k, r) = IF r < 9 THEN AES!Mixed(shifted) ELSE shifted
  BY DEF RoundState
<1> HIDE DEF shifted, replaced
<1>. QED BY <1>4, <1>5, <1>6, <1>7 DEF x

\* The next key, as the recursion says.
NextKeys(k, r) ==
  CHOOSE v : v = [i \in AES!Bytes |-> IF i < 4 THEN AES!FirstColumn(k, i, r) ELSE Xor(k[i], v[i - 4])]
LEMMA NextKeysAre == ASSUME NEW k, NEW r PROVE AES!NextKey(k, r) = NextKeys(k, r)
  BY DEF AES!NextKey, NextKeys

LEMMA FirstColumnByte ==
  ASSUME AesGood, NEW k \in AesBlock, NEW r \in 0 .. 9, NEW i \in 0 .. 3
  PROVE  /\ AES!FirstColumn(k, i, r) \in Byte
         /\ 12 + ((i + 1) % 4) \in 0 .. 15 /\ AES!sbox(k[12 + ((i + 1) % 4)]) \in Byte
         /\ (IF i = 0 THEN AES!Rcon[r + 1] ELSE 0) \in Byte
<1>1. 12 + ((i + 1) % 4) \in 0 .. 15 /\ i \in 0 .. 15
  OBVIOUS
<1>2. AES!sbox(k[12 + ((i + 1) % 4)]) \in Byte
  BY <1>1, AesElement, SboxIs
<1>3. (IF i = 0 THEN AES!Rcon[r + 1] ELSE 0) \in Byte
  <2>1. 0 \in Byte
    BY DEF Byte
  <2>. QED BY <2>1, RconByte
<1>4. k[i] \in Byte
  BY <1>1, AesElement
<1>5. Xor(AES!sbox(k[12 + ((i + 1) % 4)]), k[i]) \in Byte
  BY <1>2, <1>4, XorBits
<1>. QED BY <1>1, <1>2, <1>3, <1>5, XorBits DEF AES!FirstColumn

LEMMA NextKeyIs ==
  ASSUME AesGood, NEW k \in AesBlock, NEW r \in 0 .. 9
  PROVE  /\ AES!NextKey(k, r) \in AesBlock
         /\ \A i \in 0 .. 15 : AES!NextKey(k, r)[i] = IF i < 4 THEN AES!FirstColumn(k, i, r) ELSE Xor(k[i], AES!NextKey(k, r)[i - 4])
<1> DEFINE n0(i) == AES!FirstColumn(k, i, r)
           n1(i) == Xor(k[i], n0(i - 4))
           n2(i) == Xor(k[i], n1(i - 4))
           n3(i) == Xor(k[i], n2(i - 4))
           f == [i \in 0 .. 15 |-> IF i < 4 THEN n0(i) ELSE IF i < 8 THEN n1(i) ELSE IF i < 12 THEN n2(i) ELSE n3(i)]
           Term(v, i) == IF i < 4 THEN AES!FirstColumn(k, i, r) ELSE Xor(k[i], v[i - 4])
           Is(v) == v = [i \in 0 .. 15 |-> Term(v, i)]
<1>1. ASSUME NEW i \in 0 .. 15 PROVE f[i] = Term(f, i)
  <2>1. CASE i < 4
    BY <2>1
  <2>2. CASE i >= 4 /\ i < 8
    <3>1. i - 4 \in 0 .. 15 /\ i - 4 < 4
      BY <2>2
    <3>2. f[i] = n1(i)
      <4> HIDE DEF n0, n1, n2, n3
      <4>. QED BY <2>2
    <3>3. f[i - 4] = n0(i - 4)
      <4> HIDE DEF n0, n1, n2, n3
      <4>. QED BY <3>1
    <3> HIDE DEF f, n0
    <3>. QED BY <2>2, <3>2, <3>3
  <2>3. CASE i >= 8 /\ i < 12
    <3>1. i - 4 \in 0 .. 15 /\ i - 4 >= 4 /\ i - 4 < 8
      BY <2>3
    <3>2. f[i] = n2(i)
      <4> HIDE DEF n0, n1, n2, n3
      <4>. QED BY <2>3
    <3>3. f[i - 4] = n1(i - 4)
      <4> HIDE DEF n0, n1, n2, n3
      <4>. QED BY <3>1
    <3> HIDE DEF f, n1
    <3>. QED BY <2>3, <3>2, <3>3
  <2>4. CASE i >= 12
    <3>1. i - 4 \in 0 .. 15 /\ i - 4 >= 8 /\ i - 4 < 12
      BY <2>4
    <3>2. f[i] = n3(i)
      <4> HIDE DEF n0, n1, n2, n3
      <4>. QED BY <2>4
    <3>3. f[i - 4] = n2(i - 4)
      <4> HIDE DEF n0, n1, n2, n3
      <4>. QED BY <3>1
    <3> HIDE DEF f, n2
    <3>. QED BY <2>4, <3>2, <3>3
  <2>. QED BY <2>1, <2>2, <2>3, <2>4
<1>2. Is(f)
  <2>1. f = [i \in 0 .. 15 |-> f[i]]
    OBVIOUS
  <2> HIDE DEF f, Term
  <2>. QED BY <1>1, <2>1
<1>3. NextKeys(k, r) = CHOOSE v : Is(v)
  BY DEF NextKeys, AES!Bytes
<1> HIDE DEF Is, f
<1>4. Is(NextKeys(k, r))
  BY <1>2, <1>3
<1> DEFINE v == AES!NextKey(k, r)
<1>5. v = [i \in 0 .. 15 |-> Term(v, i)]
  BY <1>4, NextKeysAre DEF Is
<1> HIDE DEF v
<1>6. \A i \in 0 .. 15 : v[i] = Term(v, i)
  <2> HIDE DEF Term
  <2>. QED BY <1>5
<1>7. \A i \in 0 .. 3 : v[i] \in Byte
  <2>1. \A i \in 0 .. 3 : v[i] = AES!FirstColumn(k, i, r)
    BY <1>6
  <2>. QED BY <2>1, FirstColumnByte
<1>8. \A i \in 0 .. 15 : i >= 4 => v[i] = Xor(k[i], v[i - 4])
  BY <1>6
<1>9. \A i \in 0 .. 15 : i >= 4 /\ v[i - 4] \in Byte => v[i] \in Byte
  BY <1>8, AesElement, XorBits
<1>10. \A i \in 0 .. 15 : i >= 4 /\ i < 8 => v[i] \in Byte
  <2>1. \A i \in 0 .. 15 : i >= 4 /\ i < 8 => i - 4 \in 0 .. 3
    OBVIOUS
  <2>. QED BY <1>7, <1>9, <2>1
<1>11. \A i \in 0 .. 15 : i >= 8 /\ i < 12 => v[i] \in Byte
  <2>1. \A i \in 0 .. 15 : i >= 8 /\ i < 12 => i >= 4 /\ i - 4 \in 0 .. 15 /\ i - 4 >= 4 /\ i - 4 < 8
    OBVIOUS
  <2>. QED BY <1>9, <1>10, <2>1
<1>12. \A i \in 0 .. 15 : i >= 12 => v[i] \in Byte
  <2>1. \A i \in 0 .. 15 : i >= 12 => i >= 4 /\ i - 4 \in 0 .. 15 /\ i - 4 >= 8 /\ i - 4 < 12
    OBVIOUS
  <2>. QED BY <1>9, <1>11, <2>1
<1>13. \A i \in 0 .. 15 : v[i] \in Byte
  <2>1. \A i \in 0 .. 15 : i \in 0 .. 3 \/ (i >= 4 /\ i < 8) \/ (i >= 8 /\ i < 12) \/ i >= 12
    OBVIOUS
  <2>. QED BY <1>7, <1>10, <1>11, <1>12, <2>1
<1>14. v = [i \in 0 .. 15 |-> v[i]]
  <2> HIDE DEF Term
  <2>. QED BY <1>5
<1>15. v \in AesBlock
  BY <1>13, <1>14 DEF AesBlock
<1>. QED BY <1>6, <1>15 DEF v

\* The inverse key schedule.
LEMMA KeyBeforeIs ==
  ASSUME AesGood, NEW k \in AesBlock, NEW r \in 0 .. 9
  PROVE  AES!KeyBefore(AES!NextKey(k, r), r) = k
<1> DEFINE v == AES!NextKey(k, r)
           last == [i \in AES!Bytes |-> IF i < 4 THEN v[i] ELSE Xor(v[i], v[i - 4])]
           b == AES!KeyBefore(v, r)
<1>1. v \in AesBlock /\ \A i \in 0 .. 15 : v[i] = IF i < 4 THEN AES!FirstColumn(k, i, r) ELSE Xor(k[i], v[i - 4])
  BY NextKeyIs
<1> HIDE DEF v
<1>2. b = [i \in 0 .. 15 |-> IF i < 4 THEN AES!FirstColumn(last, i, r) ELSE last[i]]
  BY DEF AES!KeyBefore, AES!Bytes
<1>3. \A i \in 0 .. 15 : last[i] = IF i < 4 THEN v[i] ELSE Xor(v[i], v[i - 4])
  BY DEF AES!Bytes
<1> HIDE DEF b, last
<1>4. ASSUME NEW i \in 0 .. 15, i >= 4 PROVE last[i] = k[i]
  <2> DEFINE j == i - 4
  <2>1. j \in 0 .. 15 /\ ~(i < 4)
    BY <1>4
  <2>2. last[i] = Xor(v[i], v[j]) /\ v[i] = Xor(k[i], v[j])
    BY <1>1, <1>3, <2>1
  <2> HIDE DEF j
  <2>3. k[i] \in Byte /\ v[j] \in Byte
    BY <1>1, <2>1, AesElement
  <2>. QED BY <2>2, <2>3, XorBack
<1>5. ASSUME NEW i \in 0 .. 15, i < 4 PROVE AES!FirstColumn(last, i, r) = k[i]
  <2> DEFINE j == 12 + ((i + 1) % 4)
             s == AES!sbox(k[j])
             c == IF i = 0 THEN AES!Rcon[r + 1] ELSE 0
  <2>1. j \in 0 .. 15 /\ j >= 4 /\ i \in 0 .. 3
    BY <1>5
  <2>2. s \in Byte /\ c \in Byte /\ k[i] \in Byte
    <3>1. i \in 0 .. 3
      BY <2>1
    <3>. QED BY <3>1, FirstColumnByte, AesElement
  <2>3. last[j] = k[j]
    <3> HIDE DEF j
    <3>. QED BY <1>4, <2>1
  <2>4. last[i] = AES!FirstColumn(k, i, r)
    BY <1>1, <1>3, <1>5
  <2>5. AES!FirstColumn(k, i, r) = Xor(Xor(s, k[i]), c)
    BY DEF AES!FirstColumn
  <2>6. AES!FirstColumn(last, i, r) = Xor(Xor(s, last[i]), c)
    BY <2>3 DEF AES!FirstColumn
  <2> HIDE DEF s, c, j
  <2> DEFINE a == k[i]
             sa == Xor(s, a)
  <2>7. sa \in Byte /\ sa = Xor(a, s)
    BY <2>2, XorBits, XorCommutes
  <2> HIDE DEF sa
  <2>8. Xor(sa, c) \in Byte /\ Xor(s, Xor(sa, c)) = Xor(Xor(s, sa), c)
    BY <2>2, <2>7, XorBits, XorAssociates
  <2>9. Xor(s, sa) = a
    <3>1. Xor(s, sa) = Xor(sa, s)
      BY <2>2, <2>7, XorCommutes
    <3>2. Xor(Xor(a, s), s) = a
      BY <2>2, XorBack
    <3>. QED BY <2>7, <3>1, <3>2
  <2>10. Xor(Xor(a, c), c) = a
    BY <2>2, XorBack
  <2>. QED BY <2>4, <2>5, <2>6, <2>8, <2>9, <2>10 DEF sa
<1>6. \A i \in 0 .. 15 : (IF i < 4 THEN AES!FirstColumn(last, i, r) ELSE last[i]) = k[i]
  <2>1. \A i \in 0 .. 15 : ~(i < 4) => i >= 4
    OBVIOUS
  <2>. QED BY <1>4, <1>5, <2>1
<1>7. k = [i \in 0 .. 15 |-> k[i]]
  BY DEF AesBlock
<1>8. b = k
  BY <1>2, <1>6, <1>7
<1>. QED BY <1>8 DEF b, v

LEMMA SeqEl == ASSUME NEW T, NEW s \in Seq(T) PROVE \A j \in 1 .. Len(s) : s[j] \in T
  OBVIOUS

Word == [1 .. 4 -> Byte]

\* One word more.
LEMMA OneMoreIs ==
  ASSUME AesGood, NEW w \in Seq(Word), NEW l \in Nat, Len(w) = l, l >= 4, l <= 43
  PROVE  /\ AES!OneMore(w) \in Seq(Word) /\ Len(AES!OneMore(w)) = l + 1
         /\ \A j \in 1 .. l : AES!OneMore(w)[j] = w[j]
         /\ \A b \in 1 .. 4 : AES!OneMore(w)[l + 1][b] =
              Xor(w[l - 3][b], IF l % 4 # 0 THEN w[l][b]
                               ELSE Xor(AES!sbox(w[l][(b % 4) + 1]), IF b = 1 THEN AES!Rcon[l \div 4] ELSE 0))
<1> DEFINE last == w[l]
           RotWord == <<last[2], last[3], last[4], last[1]>>
           temp == IF l % 4 # 0 THEN last
                   ELSE [b \in 1 .. 4 |-> Xor(AES!sbox(RotWord[b]), IF b = 1 THEN AES!Rcon[l \div 4] ELSE 0)]
           t(b) == IF l % 4 # 0 THEN w[l][b] ELSE Xor(AES!sbox(w[l][(b % 4) + 1]), IF b = 1 THEN AES!Rcon[l \div 4] ELSE 0)
           x == [b \in 1 .. 4 |-> Xor(w[l - 3][b], temp[b])]
<1>1. AES!OneMore(w) = Append(w, x)
  BY DEF AES!OneMore
<1>2. w[l] \in Word /\ w[l - 3] \in Word
  BY SeqEl
<1>3. \A b \in 1 .. 4 : RotWord[b] = w[l][(b % 4) + 1]
  OBVIOUS
<1> HIDE DEF RotWord
<1>4. \A b \in 1 .. 4 : temp[b] = t(b)
  BY <1>3
<1>5. \A b \in 1 .. 4 : t(b) \in Byte
  <2> SUFFICES ASSUME NEW b \in 1 .. 4 PROVE t(b) \in Byte
    OBVIOUS
  <2>1. w[l][b] \in Byte /\ (b % 4) + 1 \in 1 .. 4 /\ w[l][(b % 4) + 1] \in Byte
    BY <1>2 DEF Word
  <2>2. AES!sbox(w[l][(b % 4) + 1]) \in Byte
    BY <2>1, SboxIs
  <2>3. l % 4 = 0 => (IF b = 1 THEN AES!Rcon[l \div 4] ELSE 0) \in Byte
    <3>1. 0 \in Byte
      BY DEF Byte
    <3>2. l % 4 = 0 => AES!Rcon[l \div 4] \in Byte
      <4> DEFINE r == (l \div 4) - 1
      <4>1. l % 4 = 0 => r \in 0 .. 9 /\ r + 1 = l \div 4
        OBVIOUS
      <4> HIDE DEF r
      <4>. QED BY <4>1, RconByte
    <3>. QED BY <3>1, <3>2
  <2>. QED BY <2>1, <2>2, <2>3, XorBits
<1> HIDE DEF temp, t
<1>6. \A b \in 1 .. 4 : Xor(w[l - 3][b], temp[b]) \in Byte
  <2>1. \A b \in 1 .. 4 : w[l - 3][b] \in Byte /\ temp[b] \in Byte
    BY <1>2, <1>4, <1>5 DEF Word
  <2>. QED BY <2>1, XorBits
<1>7. x \in Word /\ \A b \in 1 .. 4 : x[b] = Xor(w[l - 3][b], t(b))
  BY <1>4, <1>6 DEF Word
<1> HIDE DEF x
<1>8. /\ Append(w, x) \in Seq(Word) /\ Len(Append(w, x)) = l + 1 /\ Append(w, x)[l + 1] = x
      /\ \A j \in 1 .. l : Append(w, x)[j] = w[j]
  BY <1>7
<1>. QED BY <1>1, <1>7, <1>8 DEF t

IsOneMore(w, l, v) ==
  /\ v \in Seq(Word) /\ Len(v) = l + 1
  /\ \A j \in 1 .. l : v[j] = w[j]
  /\ \A b \in 1 .. 4 : v[l + 1][b] =
        Xor(w[l - 3][b], IF l % 4 # 0 THEN w[l][b]
                         ELSE Xor(AES!sbox(w[l][(b % 4) + 1]), IF b = 1 THEN AES!Rcon[l \div 4] ELSE 0))

LEMMA OneMoreAlways ==
  ASSUME AesGood, NEW w \in Seq(Word), NEW l \in Nat, Len(w) = l, l >= 4, l <= 43
  PROVE  IsOneMore(w, l, AES!OneMore(w))
  BY OneMoreIs DEF IsOneMore

LEMMA RoundKeyIs ==
  ASSUME NEW w \in Seq(Word), NEW r \in 0 .. 10, Len(w) >= 4 * r + 4
  PROVE  /\ AES!RoundKey(w, r) \in AesBlock
         /\ \A i \in 0 .. 15 : AES!RoundKey(w, r)[i] = w[4 * r + (i \div 4) + 1][(i % 4) + 1]
<1>1. ASSUME NEW i \in 0 .. 15 PROVE w[4 * r + (i \div 4) + 1][(i % 4) + 1] \in Byte
  <2> DEFINE j == 4 * r + (i \div 4) + 1
             b == (i % 4) + 1
  <2>1. j \in 1 .. Len(w) /\ b \in 1 .. 4
    <3>1. Len(w) \in Nat /\ i \div 4 \in 0 .. 3
      OBVIOUS
    <3>. QED BY <3>1
  <2> HIDE DEF j, b
  <2>2. w[j] \in Word
    BY <2>1, SeqEl
  <2>3. w[j][b] \in Byte
    BY <2>1, <2>2 DEF Word
  <2>. QED BY <2>3 DEF j, b
<1>. QED BY <1>1 DEF AES!RoundKey, AES!Bytes, AesBlock

LEMMA WordsAre ==
  ASSUME NEW k \in AesBlock
  PROVE  AES!Words(k) \in Seq(Word) /\ Len(AES!Words(k)) = 4 /\ AES!RoundKey(AES!Words(k), 0) = k
<1> DEFINE w == AES!Words(k)
<1>1. \A j \in 1 .. 4, b \in 1 .. 4 : 4 * j + b - 5 \in 0 .. 15
  OBVIOUS
<1>2. \A j \in 1 .. 4 : [b \in 1 .. 4 |-> k[4 * j + b - 5]] \in Word
  <2>1. \A j \in 1 .. 4, b \in 1 .. 4 : k[4 * j + b - 5] \in Byte
    BY <1>1, AesElement
  <2>. QED BY <2>1 DEF Word
<1>3. w \in Seq(Word) /\ Len(w) = 4
  BY <1>2 DEF AES!Words
<1>4. \A j \in 1 .. 4, b \in 1 .. 4 : w[j][b] = k[4 * j + b - 5]
  BY DEF AES!Words
<1> HIDE DEF w
<1> DEFINE r == 0
           u == AES!RoundKey(w, r)
<1>5. u \in AesBlock /\ \A i \in 0 .. 15 : u[i] = w[4 * r + (i \div 4) + 1][(i % 4) + 1]
  <2>1. r \in 0 .. 10 /\ Len(w) >= 4 * r + 4
    BY <1>3
  <2> HIDE DEF r
  <2>. QED BY <1>3, <2>1, RoundKeyIs
<1> HIDE DEF u
<1>6. ASSUME NEW i \in 0 .. 15 PROVE u[i] = k[i]
  <2> DEFINE j == (i \div 4) + 1
             b == (i % 4) + 1
  <2>1. j \in 1 .. 4 /\ b \in 1 .. 4 /\ 4 * j + b - 5 = i /\ 4 * r + (i \div 4) + 1 = j
    OBVIOUS
  <2>2. u[i] = w[j][b]
    BY <1>5, <2>1
  <2> HIDE DEF j, b
  <2>. QED BY <1>4, <2>1, <2>2
<1>7. u = k
  BY <1>5, <1>6, SameAesBlock
<1>. QED BY <1>3, <1>7 DEF w, u

\* Four words more: the next round's key.
FourMore(w) == AES!OneMore(AES!OneMore(AES!OneMore(AES!OneMore(w))))

LEMMA FourMoreIs ==
  ASSUME AesGood, NEW w \in Seq(Word), NEW r \in 0 .. 9, Len(w) = 4 * (r + 1)
  PROVE  /\ FourMore(w) \in Seq(Word) /\ Len(FourMore(w)) = 4 * (r + 2)
         /\ AES!RoundKey(FourMore(w), r + 1) = AES!NextKey(AES!RoundKey(w, r), r)
<1> DEFINE l == 4 * r + 4
           l1 == l + 1
           l2 == l + 2
           l3 == l + 3
           w1 == AES!OneMore(w)
           w2 == AES!OneMore(w1)
           w3 == AES!OneMore(w2)
           v == AES!OneMore(w3)
<1>1. /\ l \in Nat /\ l >= 4 /\ l <= 40 /\ Len(w) = l /\ l % 4 = 0 /\ l \div 4 = r + 1
      /\ l1 \in Nat /\ l1 % 4 # 0 /\ l2 \in Nat /\ l2 % 4 # 0 /\ l3 \in Nat /\ l3 % 4 # 0
      /\ l1 = l + 1 /\ l2 = l1 + 1 /\ l3 = l2 + 1
      /\ l1 >= 4 /\ l1 <= 43 /\ l2 >= 4 /\ l2 <= 43 /\ l3 >= 4 /\ l3 <= 43 /\ l <= 43
  OBVIOUS
<1> HIDE DEF l, l1, l2, l3
<1>2. /\ w1 \in Seq(Word) /\ Len(w1) = l1 /\ \A j \in 1 .. l : w1[j] = w[j]
      /\ \A b \in 1 .. 4 : w1[l1][b] = Xor(w[l - 3][b], Xor(AES!sbox(w[l][(b % 4) + 1]), IF b = 1 THEN AES!Rcon[r + 1] ELSE 0))
  <2>1. /\ AES!OneMore(w) \in Seq(Word) /\ Len(AES!OneMore(w)) = l + 1
        /\ \A j \in 1 .. l : AES!OneMore(w)[j] = w[j]
        /\ \A b \in 1 .. 4 : AES!OneMore(w)[l + 1][b] =
              Xor(w[l - 3][b], IF l % 4 # 0 THEN w[l][b]
                               ELSE Xor(AES!sbox(w[l][(b % 4) + 1]), IF b = 1 THEN AES!Rcon[l \div 4] ELSE 0))
    <3>1. IsOneMore(w, l, AES!OneMore(w))
      BY <1>1, OneMoreAlways
    <3>. QED BY <3>1 DEF IsOneMore
  <2>. QED BY <1>1, <2>1, SMTT(30)
<1> HIDE DEF w1
<1>3. /\ w2 \in Seq(Word) /\ Len(w2) = l2 /\ \A j \in 1 .. l1 : w2[j] = w1[j]
      /\ \A b \in 1 .. 4 : w2[l2][b] = Xor(w1[l1 - 3][b], w1[l1][b])
  <2>1. /\ AES!OneMore(w1) \in Seq(Word) /\ Len(AES!OneMore(w1)) = l1 + 1
        /\ \A j \in 1 .. l1 : AES!OneMore(w1)[j] = w1[j]
        /\ \A b \in 1 .. 4 : AES!OneMore(w1)[l1 + 1][b] =
              Xor(w1[l1 - 3][b], IF l1 % 4 # 0 THEN w1[l1][b]
                               ELSE Xor(AES!sbox(w1[l1][(b % 4) + 1]), IF b = 1 THEN AES!Rcon[l1 \div 4] ELSE 0))
    <3>1. IsOneMore(w1, l1, AES!OneMore(w1))
      BY <1>1, <1>2, OneMoreAlways
    <3>. QED BY <3>1 DEF IsOneMore
  <2>. QED BY <1>1, <2>1, SMTT(30)
<1> HIDE DEF w2
<1>4. /\ w3 \in Seq(Word) /\ Len(w3) = l3 /\ \A j \in 1 .. l2 : w3[j] = w2[j]
      /\ \A b \in 1 .. 4 : w3[l3][b] = Xor(w2[l2 - 3][b], w2[l2][b])
  <2>1. /\ AES!OneMore(w2) \in Seq(Word) /\ Len(AES!OneMore(w2)) = l2 + 1
        /\ \A j \in 1 .. l2 : AES!OneMore(w2)[j] = w2[j]
        /\ \A b \in 1 .. 4 : AES!OneMore(w2)[l2 + 1][b] =
              Xor(w2[l2 - 3][b], IF l2 % 4 # 0 THEN w2[l2][b]
                               ELSE Xor(AES!sbox(w2[l2][(b % 4) + 1]), IF b = 1 THEN AES!Rcon[l2 \div 4] ELSE 0))
    <3>1. IsOneMore(w2, l2, AES!OneMore(w2))
      BY <1>1, <1>3, OneMoreAlways
    <3>. QED BY <3>1 DEF IsOneMore
  <2>. QED BY <1>1, <2>1, SMTT(30)
<1> HIDE DEF w3
<1>5. /\ v \in Seq(Word) /\ Len(v) = l3 + 1 /\ \A j \in 1 .. l3 : v[j] = w3[j]
      /\ \A b \in 1 .. 4 : v[l3 + 1][b] = Xor(w3[l3 - 3][b], w3[l3][b])
  <2>1. /\ AES!OneMore(w3) \in Seq(Word) /\ Len(AES!OneMore(w3)) = l3 + 1
        /\ \A j \in 1 .. l3 : AES!OneMore(w3)[j] = w3[j]
        /\ \A b \in 1 .. 4 : AES!OneMore(w3)[l3 + 1][b] =
              Xor(w3[l3 - 3][b], IF l3 % 4 # 0 THEN w3[l3][b]
                               ELSE Xor(AES!sbox(w3[l3][(b % 4) + 1]), IF b = 1 THEN AES!Rcon[l3 \div 4] ELSE 0))
    <3>1. IsOneMore(w3, l3, AES!OneMore(w3))
      BY <1>1, <1>4, OneMoreAlways
    <3>. QED BY <3>1 DEF IsOneMore
  <2>. QED BY <1>1, <2>1, SMTT(30)
<1>6. FourMore(w) = v
  BY DEF FourMore, w1, w2, w3
<1> HIDE DEF v
<1> DEFINE a == l - 3
           a1 == l - 2
           a2 == l - 1
           l4 == l3 + 1
<1>7. /\ a \in 1 .. l /\ a1 \in 1 .. l /\ a2 \in 1 .. l /\ l \in 1 .. l /\ l1 - 3 = a1 /\ l2 - 3 = a2 /\ l3 - 3 = l
      /\ a \in 1 .. l1 /\ a1 \in 1 .. l1 /\ a2 \in 1 .. l1 /\ l \in 1 .. l1 /\ l1 \in 1 .. l1
      /\ a \in 1 .. l2 /\ a1 \in 1 .. l2 /\ a2 \in 1 .. l2 /\ l \in 1 .. l2 /\ l1 \in 1 .. l2 /\ l2 \in 1 .. l2
      /\ a \in 1 .. l3 /\ a1 \in 1 .. l3 /\ a2 \in 1 .. l3 /\ l \in 1 .. l3 /\ l1 \in 1 .. l3 /\ l2 \in 1 .. l3 /\ l3 \in 1 .. l3
  BY <1>1
<1>70. l - 3 = a
  OBVIOUS
<1> HIDE DEF a, a1, a2, l4
\* The words of the new round.
<1>8. \A b \in 1 .. 4 : /\ v[l1][b] = Xor(w[a][b], Xor(AES!sbox(w[l][(b % 4) + 1]), IF b = 1 THEN AES!Rcon[r + 1] ELSE 0))
                        /\ v[l2][b] = Xor(w[a1][b], v[l1][b])
                        /\ v[l3][b] = Xor(w[a2][b], v[l2][b])
                        /\ v[l4][b] = Xor(w[l][b], v[l3][b])
  <2>1. v[l1] = w1[l1] /\ v[l2] = w2[l2] /\ v[l3] = w3[l3]
    BY <1>3, <1>4, <1>5, <1>7, SMTT(30)
  <2>2. w1[a1] = w[a1] /\ w2[a2] = w[a2] /\ w3[l] = w[l]
    BY <1>2, <1>3, <1>4, <1>7, SMTT(30)
  <2>3. \A b \in 1 .. 4 : v[l1][b] = Xor(w[a][b], Xor(AES!sbox(w[l][(b % 4) + 1]), IF b = 1 THEN AES!Rcon[r + 1] ELSE 0))
    BY <1>2, <1>70, <2>1
  <2>4. w1[l1] = v[l1] /\ w2[l2] = v[l2] /\ w3[l3] = v[l3]
    BY <2>1
  <2>5. \A b \in 1 .. 4 : v[l2][b] = Xor(w[a1][b], v[l1][b])
    BY <1>3, <1>7, <2>1, <2>2
  <2>6. \A b \in 1 .. 4 : v[l3][b] = Xor(w[a2][b], v[l2][b])
    BY <1>4, <1>7, <2>1, <2>2
  <2>7. \A b \in 1 .. 4 : v[l4][b] = Xor(w[l][b], v[l3][b])
    BY <1>5, <1>7, <2>1, <2>2 DEF l4
  <2>. QED BY <2>3, <2>5, <2>6, <2>7
<1> DEFINE k == AES!RoundKey(w, r)
           r1 == r + 1
           u == AES!RoundKey(v, r1)
           z == AES!NextKey(k, r)
<1>9. k \in AesBlock /\ \A i \in 0 .. 15 : k[i] = w[4 * r + (i \div 4) + 1][(i % 4) + 1]
  <2>1. r \in 0 .. 10 /\ Len(w) >= 4 * r + 4
    OBVIOUS
  <2>. QED BY <2>1, RoundKeyIs
<1>10. Len(v) = 4 * (r + 2)
  BY <1>5 DEF l3, l
<1>11. u \in AesBlock /\ \A i \in 0 .. 15 : u[i] = v[4 * r1 + (i \div 4) + 1][(i % 4) + 1]
  <2>1. r1 \in 0 .. 10 /\ Len(v) >= 4 * r1 + 4
    BY <1>10
  <2> HIDE DEF r1
  <2>. QED BY <1>5, <2>1, RoundKeyIs
<1> HIDE DEF k
<1>12. z \in AesBlock /\ \A i \in 0 .. 15 : z[i] = IF i < 4 THEN AES!FirstColumn(k, i, r) ELSE Xor(k[i], z[i - 4])
  BY <1>9, NextKeyIs
<1>13. \A i \in 0 .. 3 : /\ k[i] = w[a][i + 1] /\ k[i + 4] = w[a1][i + 1] /\ k[i + 8] = w[a2][i + 1] /\ k[i + 12] = w[l][i + 1]
                         /\ u[i] = v[l1][i + 1] /\ u[i + 4] = v[l2][i + 1] /\ u[i + 8] = v[l3][i + 1] /\ u[i + 12] = v[l4][i + 1]
  <2> SUFFICES ASSUME NEW i \in 0 .. 3
               PROVE /\ k[i] = w[a][i + 1] /\ k[i + 4] = w[a1][i + 1] /\ k[i + 8] = w[a2][i + 1] /\ k[i + 12] = w[l][i + 1]
                     /\ u[i] = v[l1][i + 1] /\ u[i + 4] = v[l2][i + 1] /\ u[i + 8] = v[l3][i + 1] /\ u[i + 12] = v[l4][i + 1]
    OBVIOUS
  <2>1. /\ i \in 0 .. 15 /\ i \div 4 = 0 /\ i % 4 = i
        /\ i + 4 \in 0 .. 15 /\ (i + 4) \div 4 = 1 /\ (i + 4) % 4 = i
        /\ i + 8 \in 0 .. 15 /\ (i + 8) \div 4 = 2 /\ (i + 8) % 4 = i
        /\ i + 12 \in 0 .. 15 /\ (i + 12) \div 4 = 3 /\ (i + 12) % 4 = i
    OBVIOUS
  <2>2. /\ 4 * r + 0 + 1 = a /\ 4 * r + 1 + 1 = a1 /\ 4 * r + 2 + 1 = a2 /\ 4 * r + 3 + 1 = l
        /\ 4 * r1 + 0 + 1 = l1 /\ 4 * r1 + 1 + 1 = l2 /\ 4 * r1 + 2 + 1 = l3 /\ 4 * r1 + 3 + 1 = l4
    BY DEF a, a1, a2, l, l1, l2, l3, l4
  <2> HIDE DEF u, r1
  <2>3. k[i] = w[a][i + 1] /\ k[i + 4] = w[a1][i + 1] /\ k[i + 8] = w[a2][i + 1] /\ k[i + 12] = w[l][i + 1]
    <3>1. k[i] = w[4 * r + 0 + 1][i + 1] /\ k[i + 4] = w[4 * r + 1 + 1][i + 1]
      BY <1>9, <2>1
    <3>2. k[i + 8] = w[4 * r + 2 + 1][i + 1] /\ k[i + 12] = w[4 * r + 3 + 1][i + 1]
      BY <1>9, <2>1
    <3>. QED BY <2>2, <3>1, <3>2
  <2>4. u[i] = v[l1][i + 1] /\ u[i + 4] = v[l2][i + 1] /\ u[i + 8] = v[l3][i + 1] /\ u[i + 12] = v[l4][i + 1]
    <3>1. u[i] = v[4 * r1 + 0 + 1][i + 1] /\ u[i + 4] = v[4 * r1 + 1 + 1][i + 1]
      BY <1>11, <2>1
    <3>2. u[i + 8] = v[4 * r1 + 2 + 1][i + 1] /\ u[i + 12] = v[4 * r1 + 3 + 1][i + 1]
      BY <1>11, <2>1
    <3>. QED BY <2>2, <3>1, <3>2
  <2>. QED BY <2>3, <2>4
<1> HIDE DEF u, z, r1
<1>14. \A i \in 0 .. 3 : u[i] = z[i]
  <2> SUFFICES ASSUME NEW i \in 0 .. 3 PROVE u[i] = z[i]
    OBVIOUS
  <2> DEFINE b == i + 1
             j == (i + 1) % 4
             s == AES!sbox(k[12 + j])
             c == IF i = 0 THEN AES!Rcon[r + 1] ELSE 0
  <2>1. b \in 1 .. 4 /\ b % 4 = j /\ j \in 0 .. 3 /\ (b = 1 <=> i = 0) /\ i \in 0 .. 15 /\ i < 4 /\ j + 12 = 12 + j
    OBVIOUS
  <2>2. s \in Byte /\ c \in Byte /\ k[i] \in Byte
    BY <1>9, <2>1, FirstColumnByte, AesElement
  <2>3. w[l][(b % 4) + 1] = k[12 + j]
    <3> HIDE DEF b, j
    <3>. QED BY <1>13, <2>1
  <2>4. u[i] = Xor(k[i], Xor(s, c))
    <3>1. u[i] = v[l1][b] /\ k[i] = w[a][b]
      BY <1>13
    <3>2. (IF b = 1 THEN AES!Rcon[r + 1] ELSE 0) = c
      BY <2>1
    <3> HIDE DEF b, j, c
    <3>3. v[l1][b] = Xor(w[a][b], Xor(AES!sbox(w[l][(b % 4) + 1]), IF b = 1 THEN AES!Rcon[r + 1] ELSE 0))
      BY <1>8, <2>1
    <3>. QED BY <2>3, <3>1, <3>2, <3>3
  <2>5. z[i] = Xor(Xor(s, k[i]), c)
    <3>1. z[i] = AES!FirstColumn(k, i, r)
      BY <1>12, <2>1
    <3>. QED BY <3>1 DEF AES!FirstColumn
  <2> HIDE DEF s, c
  <2>6. Xor(s, k[i]) = Xor(k[i], s) /\ Xor(Xor(k[i], s), c) = Xor(k[i], Xor(s, c))
    BY <2>2, XorCommutes, XorAssociates
  <2>. QED BY <2>4, <2>5, <2>6
<1>15. \A i \in 0 .. 3 : u[i + 4] = Xor(k[i + 4], u[i]) /\ u[i + 8] = Xor(k[i + 8], u[i + 4]) /\ u[i + 12] = Xor(k[i + 12], u[i + 8])
  <2>1. \A i \in 0 .. 3 : i + 1 \in 1 .. 4
    OBVIOUS
  <2>. QED BY <1>8, <1>13, <2>1
<1>16. \A i \in 0 .. 3 : z[i + 4] = Xor(k[i + 4], z[i]) /\ z[i + 8] = Xor(k[i + 8], z[i + 4]) /\ z[i + 12] = Xor(k[i + 12], z[i + 8])
  <2> SUFFICES ASSUME NEW i \in 0 .. 3
               PROVE z[i + 4] = Xor(k[i + 4], z[i]) /\ z[i + 8] = Xor(k[i + 8], z[i + 4]) /\ z[i + 12] = Xor(k[i + 12], z[i + 8])
    OBVIOUS
  <2> DEFINE x == i + 4
             o == i + 8
             t == i + 12
  <2>1. /\ x \in 0 .. 15 /\ x >= 4 /\ x - 4 = i /\ o \in 0 .. 15 /\ o >= 4 /\ o - 4 = x
        /\ t \in 0 .. 15 /\ t >= 4 /\ t - 4 = o
    OBVIOUS
  <2> HIDE DEF x, o, t
  <2>2. \A e \in 0 .. 15 : e >= 4 => z[e] = Xor(k[e], z[e - 4])
    <3>1. \A e \in 0 .. 15 : e >= 4 => ~(e < 4)
      OBVIOUS
    <3>. QED BY <1>12, <3>1
  <2>3. z[x] = Xor(k[x], z[x - 4]) /\ z[o] = Xor(k[o], z[o - 4]) /\ z[t] = Xor(k[t], z[t - 4])
    BY <2>1, <2>2
  <2>. QED BY <2>1, <2>3 DEF x, o, t
<1>17. \A i \in 0 .. 3 : u[i] = z[i] /\ u[i + 4] = z[i + 4] /\ u[i + 8] = z[i + 8] /\ u[i + 12] = z[i + 12]
  BY <1>14, <1>15, <1>16
<1>18. ASSUME NEW i \in 0 .. 15 PROVE u[i] = z[i]
  <2>1. PICK j \in 0 .. 3 : i = j \/ i = j + 4 \/ i = j + 8 \/ i = j + 12
    <3>1. i % 4 \in 0 .. 3 /\ (i = (i % 4) \/ i = (i % 4) + 4 \/ i = (i % 4) + 8 \/ i = (i % 4) + 12)
      OBVIOUS
    <3>. QED BY <3>1
  <2>. QED BY <1>17, <2>1
<1>19. u = z
  BY <1>11, <1>12, <1>18, SameAesBlock
<1>. QED BY <1>5, <1>6, <1>10, <1>19 DEF u, z, k, r1

\* A round of the standard and a round of the program.
LEMMA StandardIs ==
  ASSUME AesGood, NEW s \in AesBlock, NEW k \in AesBlock, NEW r \in 0 .. 9, NEW w
  PROVE  AES!Standard(AES!Xored(s, k), w, r + 1) = AES!Xored(RoundState(s, k, r), AES!RoundKey(w, r + 1))
<1> DEFINE x == AES!Xored(s, k)
           shifted == AES!ShiftRows([i \in AES!Bytes |-> AES!sbox(x[i])])
<1>1. x \in AesBlock
  BY XoredIs
<1>2. AES!Standard(x, w, r + 1) = AES!Xored(IF r + 1 < 10 THEN AES!MixColumns(shifted) ELSE shifted, AES!RoundKey(w, r + 1))
  <2> HIDE DEF x
  <2>. QED BY DEF AES!Standard
<1>3. RoundState(s, k, r) = IF r < 9 THEN AES!Mixed(SubShift(x)) ELSE SubShift(x)
  BY RoundStateIs
<1> HIDE DEF x
<1>4. SubShift(x) \in AesBlock /\ shifted = SubShift(x)
  BY <1>1, SubShiftIs
<1> HIDE DEF shifted
<1>5. AES!MixColumns(shifted) = AES!Mixed(SubShift(x))
  BY <1>4, MixColumnsIs
<1>6. r + 1 < 10 <=> r < 9
  OBVIOUS
<1>. QED BY <1>2, <1>3, <1>4, <1>5, <1>6 DEF x

\* "Inv mix column", "Inv shift rows" and the inverse table undo a round.
Unmixed(s, r) == IF r < 9 THEN AES!Mixed(AES!Precomputed(s)) ELSE s

LEMMA RoundBack ==
  ASSUME AesGood, NEW s \in AesBlock, NEW k \in AesBlock, NEW r \in 0 .. 9
  PROVE  [i \in AES!Bytes |-> Xor(AES!rsbox(Unmixed(RoundState(s, k, r), r)[AES!InvShifted[i + 1]]), k[i])] = s
<1> DEFINE x == AES!Xored(s, k)
           u == Unmixed(RoundState(s, k, r), r)
<1>1. x \in AesBlock /\ \A i \in 0 .. 15 : x[i] = Xor(s[i], k[i])
  BY XoredIs
<1>2. RoundState(s, k, r) = IF r < 9 THEN AES!Mixed(SubShift(x)) ELSE SubShift(x)
  BY RoundStateIs
<1> HIDE DEF x
<1>3. SubShift(x) \in AesBlock /\ \A i \in 0 .. 15 : AES!rsbox(SubShift(x)[AES!InvShifted[i + 1]]) = x[i]
  BY <1>1, SubShiftIs
<1>4. AES!Mixed(AES!Precomputed(AES!Mixed(SubShift(x)))) = SubShift(x)
  BY <1>3, MixedBack
<1>5. u = SubShift(x)
  BY <1>2, <1>4 DEF Unmixed
<1> HIDE DEF u
<1>6. ASSUME NEW i \in 0 .. 15 PROVE Xor(AES!rsbox(u[AES!InvShifted[i + 1]]), k[i]) = s[i]
  <2>1. AES!rsbox(u[AES!InvShifted[i + 1]]) = Xor(s[i], k[i])
    BY <1>1, <1>3, <1>5
  <2>2. s[i] \in Byte /\ k[i] \in Byte
    BY AesElement
  <2>. QED BY <2>1, <2>2, XorBack
<1>7. s = [i \in 0 .. 15 |-> s[i]]
  BY DEF AesBlock
<1>8. [i \in 0 .. 15 |-> Xor(AES!rsbox(u[AES!InvShifted[i + 1]]), k[i])] = s
  BY <1>6, <1>7
<1>. QED BY <1>8 DEF u, AES!Bytes

LEMMA XoredBack == ASSUME NEW s \in AesBlock, NEW k \in AesBlock PROVE AES!Xored(AES!Xored(s, k), k) = s
<1> DEFINE x == AES!Xored(s, k)
           o == AES!Xored(x, k)
<1>1. x \in AesBlock /\ \A i \in 0 .. 15 : x[i] = Xor(s[i], k[i])
  BY XoredIs
<1> HIDE DEF x
<1>2. o \in AesBlock /\ \A i \in 0 .. 15 : o[i] = Xor(x[i], k[i])
  BY <1>1, XoredIs
<1> HIDE DEF o
<1>3. ASSUME NEW i \in 0 .. 15 PROVE o[i] = s[i]
  <2>1. s[i] \in Byte /\ k[i] \in Byte
    BY AesElement
  <2>. QED BY <1>1, <1>2, <2>1, XorBack
<1>4. o = s
  BY <1>2, <1>3, SameAesBlock
<1>. QED BY <1>4 DEF x, o

-----------------------------------------------------------------------------
\* The keys and the states of the ten rounds, for a key and a message.
AesPair == AesBlock \X AesBlock
AesTurn == [z \in (1 .. 10) \X AesPair |-> <<AES!NextKey(z[2][1], z[1] - 1), RoundState(z[2][2], z[2][1], z[1] - 1)>>]
AesRun(k, m) == CHOOSE f : IsLoop(f, 10, AesPair, <<k, m>>, AesTurn)
KeyOf(k, m, r) == AesRun(k, m)[r][1]
StateOf(k, m, r) == AesRun(k, m)[r][2]

LEMMA AesTurnTyped == ASSUME AesGood PROVE AesTurn \in [(1 .. 10) \X AesPair -> AesPair]
<1>1. ASSUME NEW z \in (1 .. 10) \X AesPair
      PROVE <<AES!NextKey(z[2][1], z[1] - 1), RoundState(z[2][2], z[2][1], z[1] - 1)>> \in AesPair
  <2> DEFINE k == z[2][1]
             s == z[2][2]
             r == z[1] - 1
  <2>1. k \in AesBlock /\ s \in AesBlock /\ r \in 0 .. 9
    BY DEF AesPair
  <2> HIDE DEF k, s, r
  <2>2. AES!NextKey(k, r) \in AesBlock /\ RoundState(s, k, r) \in AesBlock
    BY <2>1, NextKeyIs, RoundStateIs
  <2>3. <<AES!NextKey(k, r), RoundState(s, k, r)>> \in AesPair
    BY <2>2 DEF AesPair
  <2>. QED BY <2>3 DEF k, s, r
<1>. QED BY <1>1 DEF AesTurn

LEMMA RunIs ==
  ASSUME AesGood, NEW k \in AesBlock, NEW m \in AesBlock
  PROVE  /\ \A r \in 0 .. 10 : KeyOf(k, m, r) \in AesBlock /\ StateOf(k, m, r) \in AesBlock
         /\ KeyOf(k, m, 0) = k /\ StateOf(k, m, 0) = m
         /\ \A r \in 0 .. 9 : /\ KeyOf(k, m, r + 1) = AES!NextKey(KeyOf(k, m, r), r)
                              /\ StateOf(k, m, r + 1) = RoundState(StateOf(k, m, r), KeyOf(k, m, r), r)
<1> DEFINE f == AesRun(k, m)
           base == <<k, m>>
           n == 10
<1>1. base \in AesPair /\ n \in Nat
  BY DEF AesPair
<1>2. AesTurn \in [(1 .. n) \X AesPair -> AesPair]
  BY AesTurnTyped
<1>3. AesRun(k, m) = CHOOSE g : IsLoop(g, n, AesPair, base, AesTurn)
  BY DEF AesRun
<1>4. base[1] = k /\ base[2] = m
  OBVIOUS
<1> HIDE DEF base, n
<1>5. \E g : IsLoop(g, n, AesPair, base, AesTurn)
  BY <1>1, <1>2, Loop
<1>6. IsLoop(f, n, AesPair, base, AesTurn)
  BY <1>3, <1>5
<1> HIDE DEF f
<1>7. f \in [0 .. n -> AesPair] /\ f[0] = base /\ \A i \in 1 .. n : f[i] = AesTurn[<<i, f[i - 1]>>]
  BY <1>6 DEF IsLoop
<1>8. ASSUME NEW r \in 0 .. 10 PROVE f[r] \in AesPair /\ f[r][1] \in AesBlock /\ f[r][2] \in AesBlock
  <2>1. f[r] \in AesPair
    BY <1>7 DEF n
  <2>. QED BY <2>1 DEF AesPair
<1>9. ASSUME NEW r \in 0 .. 9
      PROVE f[r + 1][1] = AES!NextKey(f[r][1], r) /\ f[r + 1][2] = RoundState(f[r][2], f[r][1], r)
  <2> DEFINE i == r + 1
             z == <<i, f[r]>>
  <2>1. i \in 1 .. n /\ i - 1 = r /\ r \in 0 .. 10
    BY DEF n
  <2>2. f[i] = AesTurn[z]
    <3>1. f[i] = AesTurn[<<i, f[i - 1]>>]
      <4> HIDE DEF i
      <4>. QED BY <1>7, <2>1
    <3>. QED BY <2>1, <3>1
  <2>3. z \in (1 .. 10) \X AesPair
    BY <1>8, <2>1 DEF n
  <2>4. z[1] - 1 = r /\ z[2] = f[r]
    BY <2>1
  <2> HIDE DEF i, z
  <2>5. AesTurn[z] = <<AES!NextKey(z[2][1], z[1] - 1), RoundState(z[2][2], z[2][1], z[1] - 1)>>
    BY <2>3 DEF AesTurn
  <2>6. f[i] = <<AES!NextKey(f[r][1], r), RoundState(f[r][2], f[r][1], r)>>
    BY <2>2, <2>4, <2>5
  <2>7. f[i][1] = AES!NextKey(f[r][1], r) /\ f[i][2] = RoundState(f[r][2], f[r][1], r)
    BY <2>6
  <2>. QED BY <2>7 DEF i
<1>. QED BY <1>4, <1>7, <1>8, <1>9 DEF KeyOf, StateOf, f

-----------------------------------------------------------------------------
\* The inductive invariant: the key and the state of the round, counted forth and back; while
\* the block is encrypted, the standard's state is the program's with its key added already.
AesTyped ==
  /\ aes \in {"encrypt", "encrypted", "schedule", "decrypt", "decrypted"}
  /\ key \in AesBlock /\ msg \in AesBlock /\ round \in 0 .. 10
Encrypting ==
  /\ key_copy = KeyOf(key, msg, round) /\ state = StateOf(key, msg, round)
  /\ expanded \in Seq(Word) /\ Len(expanded) = 4 * (round + 1)
  /\ AES!RoundKey(expanded, round) = key_copy /\ fips = AES!Xored(state, key_copy)
Whole(s) == s = AES!Xored(StateOf(key, msg, 10), KeyOf(key, msg, 10))
AesInv ==
  /\ AesTyped
  /\ aes = "encrypt" => Encrypting
  /\ aes = "encrypted" => Whole(state) /\ fips = state /\ key_copy = AES!RoundKey(expanded, 10)
  /\ aes = "schedule" => Whole(state) /\ key_copy = KeyOf(key, msg, round)
  /\ aes = "decrypt" => key_copy = KeyOf(key, msg, 10 - round) /\ state = StateOf(key, msg, 10 - round)
  /\ aes = "decrypted" => key_copy = key /\ state = msg

LEMMA AesInit == ASSUME AES!AesAssumption, AesGood, AES!Init PROVE AesInv
<1>1. /\ aes = "encrypt" /\ key \in AesBlock /\ msg \in AesBlock
      /\ state = msg /\ key_copy = key /\ round = 0 /\ expanded = AES!Words(key) /\ fips = AES!Xored(msg, key)
  BY DEF AES!Init, AES!AesAssumption, AesBlock, AES!Bytes, Byte
<1>2. KeyOf(key, msg, 0) = key /\ StateOf(key, msg, 0) = msg
  BY <1>1, RunIs
<1>3. AES!Words(key) \in Seq(Word) /\ Len(AES!Words(key)) = 4 /\ AES!RoundKey(AES!Words(key), 0) = key
  BY <1>1, WordsAre
<1>. QED BY <1>1, <1>2, <1>3 DEF AesInv, AesTyped, Encrypting

LEMMA AesEncryptRound == ASSUME AesGood, AesInv, AES!EncryptRound PROVE AesInv'
<1> DEFINE s == state
           k == key_copy
           r == round
           w == expanded
<1>1. /\ r \in 0 .. 9 /\ key \in AesBlock /\ msg \in AesBlock /\ Encrypting
  BY DEF AesInv, AesTyped, AES!EncryptRound
<1>2. /\ aes' = "encrypt" /\ round' = r + 1 /\ key' = key /\ msg' = msg
      /\ state' = RoundState(s, k, r) /\ key_copy' = AES!NextKey(k, r)
      /\ expanded' = FourMore(w) /\ fips' = AES!Standard(fips, expanded', r + 1)
  BY DEF AES!EncryptRound, RoundState, FourMore
<1>3. /\ k = KeyOf(key, msg, r) /\ s = StateOf(key, msg, r) /\ w \in Seq(Word) /\ Len(w) = 4 * (r + 1)
      /\ AES!RoundKey(w, r) = k /\ fips = AES!Xored(s, k)
  BY <1>1 DEF Encrypting
<1>4. s \in AesBlock /\ k \in AesBlock
  <2>1. r \in 0 .. 10
    BY <1>1
  <2>. QED BY <1>1, <1>3, <2>1, RunIs
<1> HIDE DEF s, k, r, w
<1>5. key_copy' = KeyOf(key, msg, r + 1) /\ state' = StateOf(key, msg, r + 1)
  BY <1>1, <1>2, <1>3, RunIs
<1>6. /\ FourMore(w) \in Seq(Word) /\ Len(FourMore(w)) = 4 * (r + 2)
      /\ AES!RoundKey(FourMore(w), r + 1) = AES!NextKey(AES!RoundKey(w, r), r)
  BY <1>1, <1>3, FourMoreIs
<1>7. AES!Standard(AES!Xored(s, k), FourMore(w), r + 1) = AES!Xored(RoundState(s, k, r), AES!RoundKey(FourMore(w), r + 1))
  BY <1>1, <1>4, StandardIs
<1>8. AES!RoundKey(expanded', round') = key_copy' /\ fips' = AES!Xored(state', key_copy')
  BY <1>2, <1>3, <1>6, <1>7
<1>9. expanded' \in Seq(Word) /\ Len(expanded') = 4 * (round' + 1) /\ round' \in 0 .. 10
  BY <1>1, <1>2, <1>6
<1>10. Encrypting'
  <2>1. key_copy' = KeyOf(key', msg', round') /\ state' = StateOf(key', msg', round')
    BY <1>2, <1>5
  <2>. QED BY <1>8, <1>9, <2>1 DEF Encrypting
<1>. QED BY <1>1, <1>2, <1>9, <1>10 DEF AesInv, AesTyped

LEMMA AesEncrypted == ASSUME AesInv, AES!Encrypted PROVE AesInv'
<1>1. Encrypting /\ round = 10 /\ AesTyped
  BY DEF AesInv, AES!Encrypted
<1>2. /\ aes' = "encrypted" /\ state' = AES!Xored(state, key_copy)
      /\ key' = key /\ msg' = msg /\ key_copy' = key_copy /\ round' = round /\ expanded' = expanded /\ fips' = fips
  BY DEF AES!Encrypted
<1>3. Whole(state)' /\ fips' = state' /\ key_copy' = AES!RoundKey(expanded', 10)
  BY <1>1, <1>2 DEF Whole, Encrypting
<1>. QED BY <1>1, <1>2, <1>3 DEF AesInv, AesTyped

LEMMA AesDecrypt == ASSUME AesGood, AesInv, AES!Decrypt PROVE AesInv'
<1>1. Whole(state) /\ AesTyped
  BY DEF AesInv, AES!Decrypt
<1>2. /\ aes' = "schedule" /\ key_copy' = key /\ round' = 0 /\ key' = key /\ msg' = msg /\ state' = state
  BY DEF AES!Decrypt
<1>3. KeyOf(key, msg, 0) = key
  BY <1>1, RunIs DEF AesTyped
<1>. QED BY <1>1, <1>2, <1>3 DEF AesInv, AesTyped, Whole

LEMMA AesLastKey == ASSUME AesGood, AesInv, AES!LastKey PROVE AesInv'
<1>1. Whole(state) /\ AesTyped /\ key_copy = KeyOf(key, msg, round) /\ round \in 0 .. 9
  BY DEF AesInv, AesTyped, AES!LastKey
<1>2. /\ aes' = "schedule" /\ key_copy' = AES!NextKey(key_copy, round) /\ round' = round + 1
      /\ key' = key /\ msg' = msg /\ state' = state
  BY DEF AesInv, AES!LastKey
<1>3. KeyOf(key, msg, round + 1) = AES!NextKey(KeyOf(key, msg, round), round)
  BY <1>1, RunIs DEF AesTyped
<1>4. round' \in 0 .. 10 /\ key_copy' = KeyOf(key', msg', round')
  BY <1>1, <1>2, <1>3
<1>. QED BY <1>1, <1>2, <1>4 DEF AesInv, AesTyped, Whole

LEMMA AesFirstAddroundkey == ASSUME AesGood, AesInv, AES!FirstAddroundkey PROVE AesInv'
<1>1. Whole(state) /\ AesTyped /\ key_copy = KeyOf(key, msg, 10)
  BY DEF AesInv, AES!FirstAddroundkey
<1>2. /\ aes' = "decrypt" /\ round' = 0 /\ state' = AES!Xored(state, key_copy)
      /\ key' = key /\ msg' = msg /\ key_copy' = key_copy
  BY DEF AES!FirstAddroundkey
<1>3. KeyOf(key, msg, 10) \in AesBlock /\ StateOf(key, msg, 10) \in AesBlock
  BY <1>1, RunIs DEF AesTyped
<1>4. state' = StateOf(key, msg, 10)
  BY <1>1, <1>2, <1>3, XoredBack DEF Whole
<1>5. 10 - round' = 10 /\ round' \in 0 .. 10
  BY <1>2
<1>. QED BY <1>1, <1>2, <1>4, <1>5 DEF AesInv, AesTyped

LEMMA AesDecryptRound == ASSUME AesGood, AesInv, AES!DecryptRound PROVE AesInv'
<1> DEFINE r == 9 - round
           k == KeyOf(key, msg, r)
           s == StateOf(key, msg, r)
<1>1. AesTyped /\ r \in 0 .. 9 /\ r + 1 = 10 - round
  BY DEF AesInv, AesTyped, AES!DecryptRound
<1>2. key_copy = KeyOf(key, msg, r + 1) /\ state = StateOf(key, msg, r + 1)
  BY <1>1 DEF AesInv, AES!DecryptRound
<1>3. /\ aes' = "decrypt" /\ round' = round + 1 /\ key' = key /\ msg' = msg
      /\ key_copy' = AES!KeyBefore(key_copy, r)
      /\ state' = [i \in AES!Bytes |-> Xor(AES!rsbox((IF round > 0 THEN AES!Mixed(AES!Precomputed(state)) ELSE state)[AES!InvShifted[i + 1]]), key_copy'[i])]
  BY DEF AES!DecryptRound
<1>4. round > 0 <=> r < 9
  BY <1>1 DEF AesTyped
<1>5. 10 - round' = r /\ round' \in 0 .. 10
  BY <1>1, <1>3 DEF AesTyped
<1> HIDE DEF r
<1>6. k \in AesBlock /\ s \in AesBlock /\ KeyOf(key, msg, r + 1) = AES!NextKey(k, r) /\ StateOf(key, msg, r + 1) = RoundState(s, k, r)
  <2>1. r \in 0 .. 10 /\ key \in AesBlock /\ msg \in AesBlock
    BY <1>1 DEF AesTyped
  <2>. QED BY <1>1, <2>1, RunIs
<1> HIDE DEF k, s
<1>7. key_copy' = k
  BY <1>1, <1>2, <1>3, <1>6, KeyBeforeIs
<1>8. state' = [i \in AES!Bytes |-> Xor(AES!rsbox(Unmixed(RoundState(s, k, r), r)[AES!InvShifted[i + 1]]), k[i])]
  <2>1. (IF round > 0 THEN AES!Mixed(AES!Precomputed(state)) ELSE state) = Unmixed(RoundState(s, k, r), r)
    BY <1>2, <1>4, <1>6 DEF Unmixed
  <2>. QED BY <1>3, <1>7, <2>1
<1>9. state' = s
  BY <1>1, <1>6, <1>8, RoundBack
<1>10. key_copy' = KeyOf(key', msg', 10 - round') /\ state' = StateOf(key', msg', 10 - round')
  BY <1>3, <1>5, <1>7, <1>9 DEF k, s
<1>. QED BY <1>1, <1>3, <1>5, <1>10 DEF AesInv, AesTyped

LEMMA AesDecrypted == ASSUME AesGood, AesInv, AES!Decrypted PROVE AesInv'
<1>1. AesTyped /\ key_copy = KeyOf(key, msg, 0) /\ state = StateOf(key, msg, 0)
  <2>1. 10 - round = 0
    BY DEF AES!Decrypted
  <2>. QED BY <2>1 DEF AesInv, AES!Decrypted
<1>2. /\ aes' = "decrypted" /\ key' = key /\ msg' = msg /\ state' = state /\ key_copy' = key_copy /\ round' = round
  BY DEF AES!Decrypted
<1>3. key_copy = key /\ state = msg
  BY <1>1, RunIs DEF AesTyped
<1>. QED BY <1>1, <1>2, <1>3 DEF AesInv, AesTyped

LEMMA AesUnchanged == ASSUME AesInv, UNCHANGED AES!vars PROVE AesInv'
  BY DEF AesInv, AesTyped, Encrypting, Whole, AES!vars

LEMMA AesMeans == ASSUME AesGood, AesInv PROVE AES!IsAes
<1>1. aes = "encrypted" => state = fips /\ key_copy = AES!RoundKey(expanded, 10)
  BY DEF AesInv
<1>2. aes = "decrypted" => state = msg /\ key_copy = key
  BY DEF AesInv
<1>. QED BY <1>1, <1>2 DEF AES!IsAes

LEMMA AesInductive ==
  ASSUME AES!AesAssumption, AES!TablesRight
  PROVE  /\ AES!Init => AesInv
         /\ AesInv /\ [AES!Next]_AES!vars => AesInv'
         /\ AesInv => AES!IsAes
<1>1. AES!Init => AesInv
  BY AesInit DEF AesGood
<1>2. AesInv /\ [AES!Next]_AES!vars => AesInv'
  BY AesEncryptRound, AesEncrypted, AesDecrypt, AesLastKey, AesFirstAddroundkey, AesDecryptRound, AesDecrypted, AesUnchanged
     DEF AesGood, AES!Next
<1>3. AesInv => AES!IsAes
  BY AesMeans DEF AesGood
<1>. QED BY <1>1, <1>2, <1>3

AesRunning == running = "aes" => AesInv

\* AES_128_ENC is the cipher of FIPS 197 and AES_128_DEC its inverse, for every key and every
\* block, the key schedule run backwards in the caller's buffer included.
THEOREM IsAesAlways == AlgorithmSpec => []IsAes
<1>1. /\ AES!Init => AesInv
      /\ AesInv /\ [AES!Next]_AES!vars => AesInv'
      /\ AesInv => AES!IsAes
  BY AesInputs, AesTables, AesInductive
<1>2. AlgorithmInit => AesRunning
  BY <1>1 DEF AlgorithmInit, AesRunning
<1>3. AesRunning /\ [AlgorithmNext]_algorithmVars => AesRunning'
  <2> SUFFICES ASSUME AesRunning, [AlgorithmNext]_algorithmVars, running' = "aes" PROVE AesInv'
    BY DEF AesRunning
  <2>1. running' = running
    BY DEF AlgorithmNext, algorithmVars
  <2>2. AesInv
    BY <2>1 DEF AesRunning
  <2>3. AES!Next \/ UNCHANGED AES!vars
    BY <2>1 DEF AlgorithmNext, algorithmVars, ofAes, AES!vars
  <2>. QED BY <1>1, <2>2, <2>3
<1>4. AesRunning => IsAes
  BY <1>1 DEF AesRunning, IsAes
<1>. QED BY <1>2, <1>3, <1>4, PTL DEF AlgorithmSpec

-----------------------------------------------------------------------------
(* CMAC (Cmac).                                                            *)

\* Partial results of the recursive functions.
ValuesOf(block) ==
  CHOOSE v : v = [j \in 0 .. BLOCK_SIZE |-> IF j = 0 THEN 0 ELSE 256 * v[j - 1] + block[j]]
PowersOf ==
  CHOOSE v : v = [j \in 0 .. BLOCK_SIZE |-> IF j = 0 THEN 1 ELSE 256 * v[j - 1]]
LinksOf(k, m) ==
  CHOOSE x : x = [j \in 0 .. Len(m) \div BLOCK_SIZE |->
                    IF j = 0 THEN CMAC!const_Zero
                    ELSE CmacCipher(k, CMAC!xor_128(x[j - 1], CMAC!BlockOf(m, j - 1)))]

LEMMA CmacSizes == ASSUME CMAC!CmacAssumption PROVE BLOCK_SIZE \in Nat \ {0}
  BY DEF CMAC!CmacAssumption

CBlock == [1 .. BLOCK_SIZE -> Byte]

LEMMA BlockInts == ASSUME NEW b \in CBlock PROVE b \in [1 .. BLOCK_SIZE -> Int] /\ \A j \in 1 .. BLOCK_SIZE : b[j] \in 0 .. 255
<1>1. \A j \in 1 .. BLOCK_SIZE : b[j] \in 0 .. 255
  BY DEF CBlock, Byte
<1>2. b = [j \in 1 .. BLOCK_SIZE |-> b[j]]
  BY DEF CBlock
<1>3. \A j \in 1 .. BLOCK_SIZE : b[j] \in Int
  BY <1>1
<1>. QED BY <1>1, <1>2, <1>3

LEMMA ValuesAre ==
  ASSUME CMAC!CmacAssumption, NEW block \in [1 .. BLOCK_SIZE -> Int]
  PROVE  /\ ValuesOf(block) \in [0 .. BLOCK_SIZE -> Int] /\ ValuesOf(block)[0] = 0
         /\ \A j \in 1 .. BLOCK_SIZE : ValuesOf(block)[j] = 256 * ValuesOf(block)[j - 1] + block[j]
         /\ CMAC!Number(block) = ValuesOf(block)[BLOCK_SIZE]
<1> DEFINE n == BLOCK_SIZE
           turn == [x \in (1 .. n) \X Int |-> 256 * x[2] + block[x[1]]]
           Body(v) == [j \in 0 .. n |-> IF j = 0 THEN 0 ELSE 256 * v[j - 1] + block[j]]
           Is(v) == v = Body(v)
<1>0. n \in Nat \ {0} /\ 0 \in Int
  BY CmacSizes
<1>1. turn \in [(1 .. n) \X Int -> Int]
  <2>1. \A x \in (1 .. n) \X Int : x[1] \in 1 .. n /\ x[2] \in Int
    OBVIOUS
  <2>2. \A x \in (1 .. n) \X Int : 256 * x[2] + block[x[1]] \in Int
    <3> SUFFICES ASSUME NEW x \in (1 .. n) \X Int PROVE 256 * x[2] + block[x[1]] \in Int
      OBVIOUS
    <3>1. block[x[1]] \in Int
      BY <2>1
    <3>. QED BY <2>1, <3>1
  <2>. QED BY <2>2
<1>2. \A j \in 1 .. n, x \in Int : turn[<<j, x>>] = 256 * x + block[j]
  OBVIOUS
<1> HIDE DEF turn
<1>3. PICK g : IsLoop(g, n, Int, 0, turn)
  BY <1>0, <1>1, Loop
<1>4. g \in [0 .. n -> Int] /\ g[0] = 0 /\ \A j \in 1 .. n : g[j] = turn[<<j, g[j - 1]>>]
  BY <1>3 DEF IsLoop
<1>5. \A j \in 1 .. n : g[j - 1] \in Int
  BY <1>0, <1>4
<1>6. \A j \in 1 .. n : g[j] = 256 * g[j - 1] + block[j]
  BY <1>2, <1>4, <1>5
<1>7. Is(g)
  <2>1. \A j \in 0 .. n : j # 0 => j \in 1 .. n
    BY <1>0
  <2>2. \A j \in 0 .. n : g[j] = Body(g)[j]
    BY <1>4, <1>6, <2>1
  <2>3. g = [j \in 0 .. n |-> g[j]]
    BY <1>4
  <2>. QED BY <2>2, <2>3
<1>8. ValuesOf(block) = CHOOSE v : Is(v)
  BY DEF ValuesOf
<1> HIDE DEF Is
<1>9. Is(ValuesOf(block))
  BY <1>7, <1>8
<1> DEFINE s == ValuesOf(block)
<1>10. s = [j \in 0 .. n |-> IF j = 0 THEN 0 ELSE 256 * s[j - 1] + block[j]]
  BY <1>9 DEF Is
<1> HIDE DEF s
<1>11. s[0] = 0 /\ \A j \in 1 .. n : s[j] = 256 * s[j - 1] + block[j]
  BY <1>0, <1>10
<1>12. s \in [0 .. n -> Int]
  <2> DEFINE T == {j \in 0 .. n : s[j] \in Int}
  <2>1. 0 \in T
    BY <1>0, <1>11
  <2>2. ASSUME NEW j \in 1 .. n, j - 1 \in T PROVE j \in T
    BY <1>11, <2>2
  <2> HIDE DEF T
  <2>3. \A j \in 0 .. n : j \in T
    BY <1>0, <2>1, <2>2, UpTo
  <2>4. \A j \in 0 .. n : s[j] \in Int
    BY <2>3 DEF T
  <2>. QED BY <1>10, <2>4
<1>13. CMAC!Number(block) = s[n]
  BY DEF CMAC!Number, s, ValuesOf
<1>. QED BY <1>11, <1>12, <1>13 DEF s

LEMMA PowersAre ==
  ASSUME CMAC!CmacAssumption
  PROVE  /\ PowersOf \in [0 .. BLOCK_SIZE -> Int] /\ PowersOf[0] = 1
         /\ \A j \in 1 .. BLOCK_SIZE : PowersOf[j] = 256 * PowersOf[j - 1]
         /\ CMAC!Top = PowersOf[BLOCK_SIZE]
<1> DEFINE n == BLOCK_SIZE
           turn == [x \in (1 .. n) \X Int |-> 256 * x[2]]
           Body(v) == [j \in 0 .. n |-> IF j = 0 THEN 1 ELSE 256 * v[j - 1]]
           Is(v) == v = Body(v)
<1>0. n \in Nat \ {0} /\ 1 \in Int
  BY CmacSizes
<1>1. turn \in [(1 .. n) \X Int -> Int]
  BY <1>0
<1>2. \A j \in 1 .. n, x \in Int : turn[<<j, x>>] = 256 * x
  OBVIOUS
<1> HIDE DEF turn
<1>3. PICK g : IsLoop(g, n, Int, 1, turn)
  BY <1>0, <1>1, Loop
<1>4. g \in [0 .. n -> Int] /\ g[0] = 1 /\ \A j \in 1 .. n : g[j] = turn[<<j, g[j - 1]>>]
  BY <1>3 DEF IsLoop
<1>5. \A j \in 1 .. n : g[j - 1] \in Int
  BY <1>0, <1>4
<1>6. \A j \in 1 .. n : g[j] = 256 * g[j - 1]
  BY <1>2, <1>4, <1>5
<1>7. Is(g)
  BY <1>0, <1>4, <1>6
<1>8. PowersOf = CHOOSE v : Is(v)
  BY DEF PowersOf
<1> HIDE DEF Is
<1>9. Is(PowersOf)
  BY <1>7, <1>8
<1> DEFINE s == PowersOf
<1>10. s = [j \in 0 .. n |-> IF j = 0 THEN 1 ELSE 256 * s[j - 1]]
  BY <1>9 DEF Is
<1> HIDE DEF s
<1>11. s[0] = 1 /\ \A j \in 1 .. n : s[j] = 256 * s[j - 1]
  BY <1>0, <1>10
<1>12. s \in [0 .. n -> Int]
  <2> DEFINE T == {j \in 0 .. n : s[j] \in Int}
  <2>1. 0 \in T
    BY <1>0, <1>11
  <2>2. ASSUME NEW j \in 1 .. n, j - 1 \in T PROVE j \in T
    BY <1>11, <2>2
  <2> HIDE DEF T
  <2>3. \A j \in 0 .. n : j \in T
    BY <1>0, <2>1, <2>2, UpTo
  <2>4. \A j \in 0 .. n : s[j] \in Int
    BY <2>3 DEF T
  <2>. QED BY <1>10, <2>4
<1>13. CMAC!Top = s[n]
  BY DEF CMAC!Top, s, PowersOf
<1>. QED BY <1>11, <1>12, <1>13 DEF s

LEMMA ValueBelow ==
  ASSUME CMAC!CmacAssumption, NEW block \in CBlock, NEW j \in 0 .. BLOCK_SIZE
  PROVE  0 <= ValuesOf(block)[j] /\ ValuesOf(block)[j] < PowersOf[j]
<1> DEFINE n == BLOCK_SIZE
           s == ValuesOf(block)
           p == PowersOf
           T == {k \in 0 .. n : 0 <= s[k] /\ s[k] < p[k]}
<1>0. n \in Nat
  BY CmacSizes
<1>1. s \in [0 .. n -> Int] /\ s[0] = 0 /\ \A k \in 1 .. n : s[k] = 256 * s[k - 1] + block[k]
  <2>1. block \in [1 .. BLOCK_SIZE -> Int]
    BY BlockInts
  <2>. QED BY <2>1, ValuesAre
<1>2. p \in [0 .. n -> Int] /\ p[0] = 1 /\ \A k \in 1 .. n : p[k] = 256 * p[k - 1]
  BY PowersAre
<1> HIDE DEF s, p
<1>3. 0 \in T
  BY <1>0, <1>1, <1>2
<1>4. ASSUME NEW k \in 1 .. n, k - 1 \in T PROVE k \in T
  <2>1. block[k] \in 0 .. 255
    BY DEF CBlock, Byte
  <2>2. s[k - 1] \in Int /\ p[k - 1] \in Int
    BY <1>0, <1>1, <1>2
  <2>3. s[k] = 256 * s[k - 1] + block[k] /\ p[k] = 256 * p[k - 1]
    BY <1>1, <1>2
  <2>4. 0 <= s[k - 1] /\ s[k - 1] < p[k - 1]
    BY <1>4
  <2>5. 0 <= s[k] /\ s[k] < p[k]
    BY <2>1, <2>2, <2>3, <2>4
  <2>. QED BY <2>5
<1> HIDE DEF T
<1>5. \A k \in 0 .. n : k \in T
  BY <1>0, <1>3, <1>4, UpTo
<1>. QED BY <1>5 DEF T, s, p

\* The shifted block is twice the block without the bit that leaves.
LEMMA Shifted ==
  ASSUME CMAC!CmacAssumption, NEW a \in CBlock
  PROVE  /\ CMAC!leftshift_onebit(a) \in CBlock
         /\ CMAC!Number(CMAC!leftshift_onebit(a)) =
              IF a[1] < 128 THEN 2 * CMAC!Number(a) ELSE 2 * CMAC!Number(a) - CMAC!Top
<1> DEFINE n == BLOCK_SIZE
           d == CMAC!leftshift_onebit(a)
           out(k) == CMAC!overflow(a, k)
           s == ValuesOf(d)
           r == ValuesOf(a)
           p == PowersOf
<1>0. n \in Nat \ {0}
  BY CmacSizes
<1>1. \A k \in 0 .. n : out(k) \in {0, 1} /\ (out(k) = 1 <=> k < n /\ a[k + 1] >= 128)
  BY DEF CMAC!overflow
<1>2. \A k \in 1 .. n : a[k] \in 0 .. 255
  BY DEF CBlock, Byte
<1>3. \A k \in 1 .. n : d[k] = ((2 * a[k]) % 256) + out(k)
  BY DEF CMAC!leftshift_onebit
<1> HIDE DEF out
<1>4. \A k \in 1 .. n : d[k] \in 0 .. 255 /\ d[k] = 2 * a[k] - 256 * out(k - 1) + out(k)
  <2> SUFFICES ASSUME NEW k \in 1 .. n
               PROVE  d[k] \in 0 .. 255 /\ d[k] = 2 * a[k] - 256 * out(k - 1) + out(k)
    OBVIOUS
  <2>1. k - 1 \in 0 .. n /\ k \in 0 .. n /\ k - 1 < n /\ k - 1 + 1 = k
    BY <1>0
  <2>2. a[k] \in 0 .. 255 /\ d[k] = ((2 * a[k]) % 256) + out(k) /\ out(k) \in {0, 1}
    BY <1>1, <1>2, <1>3, <2>1
  <2>3. out(k - 1) \in {0, 1} /\ (out(k - 1) = 1 <=> a[k] >= 128)
    BY <1>1, <2>1
  <2>4. (2 * a[k]) % 256 = 2 * a[k] - 256 * out(k - 1) /\ (2 * a[k]) % 256 <= 254
    BY <2>2, <2>3
  <2>. QED BY <2>2, <2>4
<1>5. d \in CBlock
  BY <1>4 DEF CBlock, Byte, CMAC!leftshift_onebit
<1>6. s \in [0 .. n -> Int] /\ s[0] = 0 /\ (\A k \in 1 .. n : s[k] = 256 * s[k - 1] + d[k]) /\ CMAC!Number(d) = s[n]
  <2> HIDE DEF d
  <2>1. d \in [1 .. BLOCK_SIZE -> Int]
    BY <1>5, BlockInts
  <2>. QED BY <2>1, ValuesAre
<1>7. r \in [0 .. n -> Int] /\ r[0] = 0 /\ (\A k \in 1 .. n : r[k] = 256 * r[k - 1] + a[k]) /\ CMAC!Number(a) = r[n]
  <2>1. a \in [1 .. BLOCK_SIZE -> Int]
    BY BlockInts
  <2>. QED BY <2>1, ValuesAre
<1>8. p \in [0 .. n -> Int] /\ p[0] = 1 /\ (\A k \in 1 .. n : p[k] = 256 * p[k - 1]) /\ CMAC!Top = p[n]
  BY PowersAre
<1> HIDE DEF s, r, p, d
<1>9. out(0) \in {0, 1} /\ (out(0) = 1 <=> a[1] >= 128)
  <2>1. 0 \in 0 .. n /\ 0 < n /\ 0 + 1 = 1
    BY <1>0
  <2>. QED BY <1>1, <2>1
<1> DEFINE lost(k) == IF a[1] < 128 THEN 0 ELSE p[k]
           T == {k \in 0 .. n : s[k] = 2 * r[k] + out(k) - lost(k)}
<1>10. a[1] \in 0 .. 255
  BY <1>0, <1>2
<1>11. 0 \in T
  <2>0. 0 \in 0 .. n /\ p[0] = 1
    BY <1>0, <1>8
  <2>1. lost(0) = out(0)
    <3>1. CASE a[1] < 128
      <4>1. out(0) = 0
        BY <1>9, <1>10, <3>1
      <4>. QED BY <3>1, <4>1
    <3>2. CASE ~(a[1] < 128)
      <4>1. out(0) = 1
        BY <1>9, <1>10, <3>2
      <4>. QED BY <2>0, <3>2, <4>1
    <3>. QED BY <3>1, <3>2
  <2>2. s[0] = 2 * r[0] + out(0) - lost(0)
    BY <1>6, <1>7, <1>9, <2>1
  <2>. QED BY <2>0, <2>2
<1>12. ASSUME NEW k \in 1 .. n, k - 1 \in T PROVE k \in T
  <2>1. s[k - 1] \in Int /\ r[k - 1] \in Int /\ p[k - 1] \in Int /\ a[k] \in Int /\ out(k - 1) \in Int /\ out(k) \in Int
    <3>1. k - 1 \in 0 .. n /\ k \in 0 .. n
      BY <1>0
    <3>2. out(k - 1) \in {0, 1} /\ out(k) \in {0, 1}
      BY <1>1, <3>1
    <3>3. s[k - 1] \in Int
      BY <1>6, <3>1
    <3>4. r[k - 1] \in Int
      BY <1>7, <3>1
    <3>5. p[k - 1] \in Int
      BY <1>8, <3>1
    <3>6. a[k] \in Int
      BY <1>2
    <3>7. out(k - 1) \in Int /\ out(k) \in Int
      BY <3>2
    <3>. QED BY <3>3, <3>4, <3>5, <3>6, <3>7
  <2>2. s[k - 1] = 2 * r[k - 1] + out(k - 1) - lost(k - 1)
    BY <1>12
  <2>3. s[k] = 256 * s[k - 1] + d[k] /\ d[k] = 2 * a[k] - 256 * out(k - 1) + out(k) /\ r[k] = 256 * r[k - 1] + a[k]
    BY <1>4, <1>6, <1>7
  <2>4. lost(k) = 256 * lost(k - 1) /\ lost(k - 1) \in Int
    BY <1>8, <2>1
  <2> HIDE DEF lost
  <2>5. s[k] = 2 * r[k] + out(k) - lost(k)
    BY <2>1, <2>2, <2>3, <2>4
  <2>. QED BY <2>5
<1> HIDE DEF T
<1>13. \A k \in 0 .. n : k \in T
  BY <1>0, <1>11, <1>12, UpTo
<1>14. s[n] = 2 * r[n] + out(n) - lost(n)
  BY <1>0, <1>13 DEF T
<1>15. out(n) = 0
  <2>1. n \in 0 .. n /\ ~(n < n)
    BY <1>0
  <2>. QED BY <1>1, <2>1
<1>16. r[n] \in Int /\ p[n] \in Int
  BY <1>0, <1>7, <1>8
<1>17. s[n] = IF a[1] < 128 THEN 2 * r[n] ELSE 2 * r[n] - p[n]
  BY <1>14, <1>15, <1>16
<1>. QED BY <1>5, <1>6, <1>7, <1>8, <1>17 DEF d

LEMMA NumberBelow ==
  ASSUME CMAC!CmacAssumption, NEW block \in CBlock
  PROVE  CMAC!Number(block) \in 0 .. CMAC!Top - 1 /\ CMAC!Top \in Int
<1>1. BLOCK_SIZE \in 0 .. BLOCK_SIZE /\ block \in [1 .. BLOCK_SIZE -> Int]
  BY CmacSizes, BlockInts
<1>2. 0 <= ValuesOf(block)[BLOCK_SIZE] /\ ValuesOf(block)[BLOCK_SIZE] < PowersOf[BLOCK_SIZE]
  BY <1>1, ValueBelow
<1>3. ValuesOf(block)[BLOCK_SIZE] \in Int /\ PowersOf[BLOCK_SIZE] \in Int
  BY <1>1, ValuesAre, PowersAre
<1>4. CMAC!Number(block) = ValuesOf(block)[BLOCK_SIZE] /\ CMAC!Top = PowersOf[BLOCK_SIZE]
  BY <1>1, ValuesAre, PowersAre
<1>. QED BY <1>2, <1>3, <1>4

\* Xor with const_Rb changes the last byte only.
LEMMA LastXored ==
  ASSUME CMAC!CmacAssumption, NEW s \in CBlock
  PROVE  /\ CMAC!xor_128(s, CMAC!const_Rb) \in CBlock
         /\ CMAC!Number(CMAC!xor_128(s, CMAC!const_Rb)) =
              CMAC!Number(s) - (CMAC!Number(s) % 256) + Xor(CMAC!Number(s) % 256, 135)
<1> DEFINE n == BLOCK_SIZE
           d == CMAC!xor_128(s, CMAC!const_Rb)
           vs == ValuesOf(s)
           vd == ValuesOf(d)
<1>0. n \in Nat \ {0}
  BY CmacSizes
<1>1. \A k \in 1 .. n : s[k] \in Byte
  BY DEF CBlock
<1>2. \A k \in 1 .. n : d[k] = Xor(s[k], IF k = n THEN 135 ELSE 0)
  BY <1>0 DEF CMAC!xor_128, CMAC!const_Rb, CMAC!const_Zero
<1>3. \A k \in 1 .. n : k # n => d[k] = s[k]
  BY <1>1, <1>2, XorZero
<1>4. d[n] = Xor(s[n], 135) /\ d[n] \in Byte /\ s[n] \in Byte
  <2> HIDE DEF d
  <2>1. n \in 1 .. n /\ 135 \in Byte
    BY <1>0 DEF Byte
  <2>2. s[n] \in Byte
    BY <1>1, <2>1
  <2>3. d[n] = Xor(s[n], 135)
    BY <1>2, <2>1
  <2>. QED BY <2>1, <2>2, <2>3, XorBits
<1>5. d \in CBlock
  <2>1. \A k \in 1 .. n : d[k] \in Byte
    BY <1>1, <1>3, <1>4
  <2>. QED BY <2>1 DEF CBlock, CMAC!xor_128
<1> HIDE DEF d
<1>6. vs \in [0 .. n -> Int] /\ vs[0] = 0 /\ (\A k \in 1 .. n : vs[k] = 256 * vs[k - 1] + s[k]) /\ CMAC!Number(s) = vs[n]
  <2>1. s \in [1 .. BLOCK_SIZE -> Int]
    BY BlockInts
  <2>. QED BY <2>1, ValuesAre
<1>7. vd \in [0 .. n -> Int] /\ vd[0] = 0 /\ (\A k \in 1 .. n : vd[k] = 256 * vd[k - 1] + d[k]) /\ CMAC!Number(d) = vd[n]
  <2>1. d \in [1 .. BLOCK_SIZE -> Int]
    BY <1>5, BlockInts
  <2>. QED BY <2>1, ValuesAre
<1> HIDE DEF vs, vd
<1> DEFINE T == {k \in 0 .. n : k < n => vd[k] = vs[k]}
<1>8. 0 \in T
  BY <1>0, <1>6, <1>7
<1>9. ASSUME NEW k \in 1 .. n, k - 1 \in T PROVE k \in T
  <2>1. k - 1 < n
    BY <1>0
  <2>2. vd[k - 1] = vs[k - 1]
    BY <1>9, <2>1
  <2>3. k < n => d[k] = s[k]
    BY <1>3
  <2>4. k < n => vd[k] = vs[k]
    BY <1>6, <1>7, <2>2, <2>3
  <2>. QED BY <2>4
<1> HIDE DEF T
<1>10. \A k \in 0 .. n : k \in T
  BY <1>0, <1>8, <1>9, UpTo
<1>11. n - 1 \in 0 .. n /\ n - 1 < n /\ n \in 1 .. n
  BY <1>0
<1>12. vd[n - 1] = vs[n - 1] /\ vs[n - 1] \in Int
  BY <1>6, <1>10, <1>11 DEF T
<1>13. vs[n] = 256 * vs[n - 1] + s[n] /\ vd[n] = 256 * vs[n - 1] + d[n]
  BY <1>6, <1>7, <1>11, <1>12
<1>14. s[n] \in 0 .. 255 /\ d[n] \in 0 .. 255
  BY <1>4 DEF Byte
<1>15. vs[n] % 256 = s[n] /\ vs[n] - (vs[n] % 256) = 256 * vs[n - 1]
  BY <1>12, <1>13, <1>14
<1>16. vd[n] = vs[n] - (vs[n] % 256) + Xor(vs[n] % 256, 135)
  BY <1>4, <1>13, <1>15
<1>. QED BY <1>5, <1>6, <1>7, <1>16 DEF d

\* A half of generate_subkey is the product by x.
LEMMA DoubleIsTimes_x ==
  ASSUME CMAC!CmacAssumption, NEW block \in CBlock
  PROVE  /\ CMAC!double(block) \in CBlock
         /\ CMAC!Number(CMAC!double(block)) = CMAC!Times_x(CMAC!Number(block))
<1> DEFINE s == CMAC!leftshift_onebit(block)
<1>1. s \in CBlock /\ CMAC!Number(s) = (IF block[1] < 128 THEN 2 * CMAC!Number(block) ELSE 2 * CMAC!Number(block) - CMAC!Top)
  BY Shifted
<1> HIDE DEF s
<1>2. CMAC!Number(s) \in 0 .. CMAC!Top - 1 /\ CMAC!Top \in Int
  BY <1>1, NumberBelow
<1>3. CMAC!Number(block) \in Int
  BY NumberBelow
<1>4. CASE block[1] < 128
  <2>1. CMAC!double(block) = s /\ CMAC!Number(s) = 2 * CMAC!Number(block)
    BY <1>1, <1>4 DEF CMAC!double, s
  <2>2. 2 * CMAC!Number(block) - CMAC!Top < 0
    BY <1>2, <1>3, <2>1
  <2>. QED BY <1>1, <2>1, <2>2 DEF CMAC!Times_x
<1>5. CASE ~(block[1] < 128)
  <2>1. CMAC!double(block) = CMAC!xor_128(s, CMAC!const_Rb) /\ CMAC!Number(s) = 2 * CMAC!Number(block) - CMAC!Top
    BY <1>1, <1>5 DEF CMAC!double, s
  <2>2. ~(2 * CMAC!Number(block) - CMAC!Top < 0)
    BY <1>2, <1>3, <2>1
  <2>3. CMAC!Times_x(CMAC!Number(block)) = CMAC!Number(s) - (CMAC!Number(s) % 256) + Xor(CMAC!Number(s) % 256, 135)
    BY <2>1, <2>2 DEF CMAC!Times_x
  <2>4. CMAC!xor_128(s, CMAC!const_Rb) \in CBlock
    BY <1>1, LastXored
  <2>5. CMAC!Number(CMAC!xor_128(s, CMAC!const_Rb)) = CMAC!Number(s) - (CMAC!Number(s) % 256) + Xor(CMAC!Number(s) % 256, 135)
    BY <1>1, LastXored
  <2>. QED BY <2>1, <2>3, <2>4, <2>5
<1>. QED BY <1>4, <1>5

LEMMA CipherBlocks ==
  ASSUME CMAC!CmacAssumption, NEW k \in CmacKeys, NEW block \in CBlock
  PROVE  CmacCipher(k, block) \in CBlock
  BY DEF CMAC!CmacAssumption, CMAC!Blocks, CBlock, Byte

LEMMA ZeroIsBlock == CMAC!const_Zero \in CBlock
  BY DEF CMAC!const_Zero, CBlock, Byte

LEMMA XoredIsBlock ==
  ASSUME NEW s \in CBlock, NEW t \in CBlock
  PROVE  CMAC!xor_128(s, t) \in CBlock
<1>1. \A j \in 1 .. BLOCK_SIZE : Xor(s[j], t[j]) \in Byte
  BY XorBits DEF CBlock
<1>. QED BY <1>1 DEF CMAC!xor_128, CBlock

LEMMA Subkeys ==
  ASSUME CMAC!CmacAssumption, NEW k \in CmacKeys
  PROVE  /\ CMAC!K1(k) \in CBlock /\ CMAC!K2(k) \in CBlock
         /\ CMAC!Number(CMAC!K1(k)) = CMAC!Times_x(CMAC!Number(CmacCipher(k, CMAC!const_Zero)))
         /\ CMAC!Number(CMAC!K2(k)) = CMAC!Times_x(CMAC!Number(CMAC!K1(k)))
<1>1. CmacCipher(k, CMAC!const_Zero) \in CBlock
  BY CipherBlocks, ZeroIsBlock
<1>2. CMAC!K1(k) \in CBlock /\ CMAC!Number(CMAC!K1(k)) = CMAC!Times_x(CMAC!Number(CmacCipher(k, CMAC!const_Zero)))
  BY <1>1, DoubleIsTimes_x DEF CMAC!K1
<1>3. CMAC!K2(k) \in CBlock /\ CMAC!Number(CMAC!K2(k)) = CMAC!Times_x(CMAC!Number(CMAC!K1(k)))
  BY <1>2, DoubleIsTimes_x DEF CMAC!K2
<1>. QED BY <1>2, <1>3

\* A block that the string fills.
LEMMA FullBlock ==
  ASSUME CMAC!CmacAssumption, NEW m \in Seq(Byte), NEW j \in Nat, BLOCK_SIZE * j + BLOCK_SIZE <= Len(m)
  PROVE  /\ CMAC!BlockOf(m, j) \in CBlock
         /\ \A s \in 1 .. BLOCK_SIZE : CMAC!BlockOf(m, j)[s] = m[BLOCK_SIZE * j + s]
<1> DEFINE from == BLOCK_SIZE * j
<1>1. BLOCK_SIZE \in Nat \ {0} /\ from \in Nat /\ BLOCK_SIZE * (j + 1) = from + BLOCK_SIZE /\ Len(m) \in Nat
  BY CmacSizes
<1>2. CMAC!BlockOf(m, j) = SubSeq(m, from + 1, from + BLOCK_SIZE)
  <2>1. (IF BLOCK_SIZE * (j + 1) < Len(m) THEN BLOCK_SIZE * (j + 1) ELSE Len(m)) = from + BLOCK_SIZE
    BY <1>1
  <2>. QED BY <2>1 DEF CMAC!BlockOf
<1> HIDE DEF from
<1>3. SubSeq(m, from + 1, from + BLOCK_SIZE) = [s \in 1 .. BLOCK_SIZE |-> m[from + s]]
  BY <1>1
<1>4. \A s \in 1 .. BLOCK_SIZE : from + s \in 1 .. Len(m)
  BY <1>1 DEF from
<1>5. \A s \in 1 .. BLOCK_SIZE : m[from + s] \in Byte
  BY <1>4
<1>6. [s \in 1 .. BLOCK_SIZE |-> m[from + s]] \in CBlock
  BY <1>5 DEF CBlock
<1>. QED BY <1>2, <1>3, <1>6 DEF from

\* The chain of a string of whole blocks.
CmacLinks(f, k, m, len) ==
  /\ f \in [0 .. len -> CBlock] /\ f[0] = CMAC!const_Zero
  /\ \A j \in 1 .. len : f[j] = CmacCipher(k, CMAC!xor_128(f[j - 1], CMAC!BlockOf(m, j - 1)))

LEMMA LinksAre ==
  ASSUME CMAC!CmacAssumption, NEW k \in CmacKeys, NEW m \in Seq(Byte), NEW len \in Nat, Len(m) = BLOCK_SIZE * len
  PROVE  CmacLinks(LinksOf(k, m), k, m, len) /\ CMAC!Chain(k, m) = LinksOf(k, m)[len]
<1> DEFINE step(j, x) == CmacCipher(k, CMAC!xor_128(x, CMAC!BlockOf(m, j - 1)))
           turn == [z \in (1 .. len) \X CBlock |-> step(z[1], z[2])]
           Body(v) == [j \in 0 .. len |-> IF j = 0 THEN CMAC!const_Zero ELSE step(j, v[j - 1])]
           Is(v) == v = Body(v)
<1>0. BLOCK_SIZE \in Nat \ {0} /\ CMAC!const_Zero \in CBlock
  BY CmacSizes, ZeroIsBlock
<1>1. \A j \in 1 .. len : j - 1 \in Nat /\ BLOCK_SIZE * (j - 1) + BLOCK_SIZE <= Len(m)
  <2> SUFFICES ASSUME NEW j \in 1 .. len PROVE j - 1 \in Nat /\ BLOCK_SIZE * (j - 1) + BLOCK_SIZE <= Len(m)
    OBVIOUS
  <2>1. j - 1 \in Nat /\ len - j \in Nat
    OBVIOUS
  <2>2. BLOCK_SIZE * (len - j) \in Nat
    BY <1>0, <2>1
  <2>3. BLOCK_SIZE * (len - j) = BLOCK_SIZE * len - BLOCK_SIZE * (j - 1) - BLOCK_SIZE
    BY <1>0
  <2>4. BLOCK_SIZE * (j - 1) \in Int /\ BLOCK_SIZE * len \in Int
    BY <1>0
  <2>. QED BY <1>0, <2>1, <2>2, <2>3, <2>4
<1>2. ASSUME NEW j \in 1 .. len, NEW x \in CBlock PROVE step(j, x) \in CBlock
  <2>1. j - 1 \in Nat /\ BLOCK_SIZE * (j - 1) + BLOCK_SIZE <= Len(m)
    BY <1>1
  <2>2. CMAC!BlockOf(m, j - 1) \in CBlock
    BY <2>1, FullBlock
  <2>3. CMAC!xor_128(x, CMAC!BlockOf(m, j - 1)) \in CBlock
    BY <2>2, XoredIsBlock
  <2>. QED BY <2>3, CipherBlocks
<1> HIDE DEF step
<1>3. turn \in [(1 .. len) \X CBlock -> CBlock]
  <2>1. \A z \in (1 .. len) \X CBlock : step(z[1], z[2]) \in CBlock
    BY <1>2
  <2>. QED BY <2>1
<1>4. \A j \in 1 .. len, x \in CBlock : turn[<<j, x>>] = step(j, x)
  OBVIOUS
<1> HIDE DEF turn
<1>5. PICK g : IsLoop(g, len, CBlock, CMAC!const_Zero, turn)
  BY <1>0, <1>3, Loop
<1>6. g \in [0 .. len -> CBlock] /\ g[0] = CMAC!const_Zero /\ \A j \in 1 .. len : g[j] = turn[<<j, g[j - 1]>>]
  BY <1>5 DEF IsLoop
<1>7. \A j \in 1 .. len : g[j - 1] \in CBlock
  BY <1>6
<1>8. \A j \in 1 .. len : g[j] = step(j, g[j - 1])
  BY <1>4, <1>6, <1>7
<1>9. Is(g)
  <2>1. \A j \in 0 .. len : j # 0 => j \in 1 .. len
    OBVIOUS
  <2>2. \A j \in 0 .. len : g[j] = Body(g)[j]
    BY <1>6, <1>8, <2>1
  <2>3. g = [j \in 0 .. len |-> g[j]]
    BY <1>6
  <2>. QED BY <2>2, <2>3
<1>10. Len(m) \div BLOCK_SIZE = len
  <2>1. 0 \in 0 .. BLOCK_SIZE - 1 /\ BLOCK_SIZE * len + 0 = Len(m)
    BY <1>0
  <2>. QED BY <1>0, <2>1, DivIs
<1>11. LinksOf(k, m) = CHOOSE v : Is(v)
  BY <1>10 DEF LinksOf, step
<1> HIDE DEF Is
<1>12. Is(LinksOf(k, m))
  BY <1>9, <1>11
<1> DEFINE s == LinksOf(k, m)
<1>13. s = [j \in 0 .. len |-> IF j = 0 THEN CMAC!const_Zero ELSE step(j, s[j - 1])]
  BY <1>12 DEF Is
<1>14. CMAC!Chain(k, m) = s[len]
  BY <1>10 DEF CMAC!Chain, LinksOf
<1> HIDE DEF s
<1>15. s[0] = CMAC!const_Zero /\ \A j \in 1 .. len : s[j] = step(j, s[j - 1])
  BY <1>13
<1>16. s \in [0 .. len -> CBlock]
  <2> DEFINE T == {j \in 0 .. len : s[j] \in CBlock}
  <2>1. 0 \in T
    BY <1>0, <1>15
  <2>2. ASSUME NEW j \in 1 .. len, j - 1 \in T PROVE j \in T
    <3>1. s[j - 1] \in CBlock
      BY <2>2
    <3>2. s[j] \in CBlock
      BY <1>2, <1>15, <3>1
    <3>. QED BY <3>2
  <2> HIDE DEF T
  <2>3. \A j \in 0 .. len : j \in T
    BY <2>1, <2>2, UpTo
  <2>4. \A j \in 0 .. len : s[j] \in CBlock
    BY <2>3 DEF T
  <2>. QED BY <1>13, <2>4
<1>. QED BY <1>14, <1>15, <1>16 DEF CmacLinks, step, s

\* The blocks of the marked message: those of the message, and its last block as AES_CMAC
\* makes it.
CmacBlocks(m) == IF m # <<>> /\ Len(m) % BLOCK_SIZE = 0 THEN Len(m) \div BLOCK_SIZE ELSE (Len(m) \div BLOCK_SIZE) + 1
IsMarked(k, m, marked, len) ==
  /\ len \in Nat \ {0} /\ marked \in Seq(Byte) /\ Len(marked) = BLOCK_SIZE * len
  /\ \A j \in 0 .. len - 2 : CMAC!BlockOf(marked, j) = CMAC!BlockOf(m, j)
  /\ CMAC!BlockOf(marked, len - 1) = CMAC!LastBlock(k, m)
  /\ \A j \in Nat : j < CMAC!Rounds(Len(m)) - 1 <=> j < len - 1

LEMMA SameCBlock ==
  ASSUME NEW s \in CBlock, NEW t \in CBlock, \A j \in 1 .. BLOCK_SIZE : s[j] = t[j]
  PROVE  s = t
<1>1. s = [j \in 1 .. BLOCK_SIZE |-> s[j]] /\ t = [j \in 1 .. BLOCK_SIZE |-> t[j]]
  BY DEF CBlock
<1>. QED BY <1>1

\* What the blocks of two strings are that agree up to the last block.
LEMMA SameBlocks ==
  ASSUME CMAC!CmacAssumption, NEW m \in Seq(Byte), NEW w \in Seq(Byte), NEW len \in Nat \ {0},
         Len(w) = BLOCK_SIZE * len, Len(m) >= BLOCK_SIZE * (len - 1),
         \A s \in 1 .. BLOCK_SIZE * (len - 1) : w[s] = m[s]
  PROVE  \A j \in 0 .. len - 2 : CMAC!BlockOf(w, j) = CMAC!BlockOf(m, j)
<1> SUFFICES ASSUME NEW j \in 0 .. len - 2 PROVE CMAC!BlockOf(w, j) = CMAC!BlockOf(m, j)
  OBVIOUS
<1>0. BLOCK_SIZE \in Nat \ {0} /\ j \in Nat
  BY CmacSizes
<1> DEFINE from == BLOCK_SIZE * j
           before == BLOCK_SIZE * (len - 1)
<1>1. from \in Nat /\ before \in Nat /\ from + BLOCK_SIZE <= before /\ before + BLOCK_SIZE = BLOCK_SIZE * len
  <2>1. len - 2 - j \in Nat
    OBVIOUS
  <2>2. BLOCK_SIZE * (len - 2 - j) \in Nat
    BY <1>0, <2>1
  <2>3. BLOCK_SIZE * (len - 2 - j) = before - BLOCK_SIZE - from
    BY <1>0
  <2>4. from \in Nat /\ before \in Int /\ before + BLOCK_SIZE = BLOCK_SIZE * len
    BY <1>0
  <2> HIDE DEF from, before
  <2>. QED BY <1>0, <2>2, <2>3, <2>4
<1>2. from + BLOCK_SIZE <= Len(m) /\ from + BLOCK_SIZE <= Len(w)
  BY <1>0, <1>1
<1>3. /\ CMAC!BlockOf(m, j) \in CBlock /\ \A s \in 1 .. BLOCK_SIZE : CMAC!BlockOf(m, j)[s] = m[from + s]
      /\ CMAC!BlockOf(w, j) \in CBlock /\ \A s \in 1 .. BLOCK_SIZE : CMAC!BlockOf(w, j)[s] = w[from + s]
  BY <1>0, <1>2, FullBlock
<1> HIDE DEF from, before
<1>4. \A s \in 1 .. BLOCK_SIZE : from + s \in 1 .. before
  BY <1>0, <1>1
<1>5. \A s \in 1 .. before : w[s] = m[s]
  BY DEF before
<1>6. \A s \in 1 .. BLOCK_SIZE : CMAC!BlockOf(w, j)[s] = CMAC!BlockOf(m, j)[s]
  BY <1>3, <1>4, <1>5
<1>. QED BY <1>3, <1>6, SameCBlock

LEMMA WholeMarked ==
  ASSUME CMAC!CmacAssumption, NEW k \in CmacKeys, NEW m \in Seq(Byte), m # <<>>, Len(m) % BLOCK_SIZE = 0
  PROVE  IsMarked(k, m, CMAC!Marked(k, m), Len(m) \div BLOCK_SIZE)
<1> DEFINE B == BLOCK_SIZE
           len == Len(m) \div B
           before == B * (len - 1)
           w == CMAC!Marked(k, m)
<1>0. B \in Nat \ {0} /\ Len(m) \in Nat \ {0}
  BY CmacSizes
<1>1. len \in Nat /\ Len(m) = B * len
  <2>1. len \in Nat /\ Len(m) = B * len + (Len(m) % B)
    BY <1>0, DivMod
  <2>2. Len(m) % B = 0 /\ B * len \in Nat
    BY <1>0, <2>1
  <2>. QED BY <2>1, <2>2
<1>2. len # 0
  BY <1>0, <1>1
<1>3. before \in Nat /\ before + B = Len(m) /\ B * len = Len(m)
  BY <1>0, <1>1, <1>2
<1>4. CMAC!K1(k) \in CBlock
  BY Subkeys
<1>5. w = [j \in 1 .. Len(m) |-> IF j > Len(m) - B THEN Xor(m[j], CMAC!K1(k)[j - (Len(m) - B)]) ELSE m[j]]
  BY DEF CMAC!Marked
<1>50. Len(m) - B = before
  BY <1>0, <1>3
<1> HIDE DEF w, before, len
<1>6. \A j \in 1 .. Len(m) : j <= before => w[j] = m[j]
  BY <1>0, <1>3, <1>5
<1>60. \A j \in 1 .. Len(m) : j > before => w[j] = Xor(m[j], CMAC!K1(k)[j - before])
  BY <1>5, <1>50
<1>7. \A s \in 1 .. B : w[before + s] = Xor(m[before + s], CMAC!K1(k)[s])
  <2> SUFFICES ASSUME NEW s \in 1 .. B PROVE w[before + s] = Xor(m[before + s], CMAC!K1(k)[s])
    OBVIOUS
  <2> DEFINE t == before + s
  <2>1. t \in 1 .. Len(m) /\ t > before /\ t - before = s
    BY <1>0, <1>3
  <2> HIDE DEF t
  <2>2. w[t] = Xor(m[t], CMAC!K1(k)[s])
    BY <1>60, <2>1
  <2>. QED BY <2>2 DEF t
<1>8. \A j \in 1 .. Len(m) : w[j] \in Byte
  <2> SUFFICES ASSUME NEW j \in 1 .. Len(m) PROVE w[j] \in Byte
    OBVIOUS
  <2>1. m[j] \in Byte
    OBVIOUS
  <2>2. CASE j <= before
    BY <1>6, <2>1, <2>2
  <2>3. CASE j > before
    <3>1. j - before \in 1 .. B
      BY <1>0, <1>3, <2>3
    <3>2. CMAC!K1(k)[j - before] \in Byte
      BY <1>4, <3>1 DEF CBlock
    <3>3. w[j] = Xor(m[j], CMAC!K1(k)[j - before])
      BY <1>60, <2>3
    <3>. QED BY <2>1, <3>2, <3>3, XorBits
  <2>. QED BY <1>3, <2>2, <2>3
<1>9. w \in Seq(Byte) /\ Len(w) = Len(m)
  BY <1>0, <1>5, <1>8
<1>10. \A j \in 0 .. len - 2 : CMAC!BlockOf(w, j) = CMAC!BlockOf(m, j)
  <2>1. \A s \in 1 .. BLOCK_SIZE * (len - 1) : w[s] = m[s]
    BY <1>0, <1>3, <1>6 DEF before
  <2>2. len \in Nat \ {0} /\ Len(w) = BLOCK_SIZE * len /\ Len(m) >= BLOCK_SIZE * (len - 1)
    BY <1>0, <1>1, <1>2, <1>3, <1>9 DEF before
  <2>. QED BY <1>9, <2>1, <2>2, SameBlocks
<1>11. CMAC!Rounds(Len(m)) = len
  <2>1. B - 1 \in 0 .. B - 1
    BY <1>0
  <2>2. (B * len + (B - 1)) \div B = len
    BY <1>0, <1>1, <2>1, DivIs
  <2>. QED BY <1>1, <2>2 DEF CMAC!Rounds, CMAC!LAST_INDEX
<1>12. CMAC!BlockOf(w, len - 1) = CMAC!LastBlock(k, m)
  <2>1. len - 1 \in Nat /\ B * (len - 1) + B <= Len(m)
    BY <1>1, <1>2, <1>3, <1>0 DEF before
  <2>2. /\ CMAC!BlockOf(w, len - 1) \in CBlock /\ \A s \in 1 .. B : CMAC!BlockOf(w, len - 1)[s] = w[before + s]
        /\ CMAC!BlockOf(m, len - 1) \in CBlock /\ \A s \in 1 .. B : CMAC!BlockOf(m, len - 1)[s] = m[before + s]
    BY <1>9, <2>1, FullBlock DEF before
  <2>3. CMAC!LastBlock(k, m) = CMAC!xor_128(CMAC!BlockOf(m, len - 1), CMAC!K1(k))
    BY <1>2, <1>11 DEF CMAC!LastBlock
  <2>4. \A s \in 1 .. B : CMAC!LastBlock(k, m)[s] = CMAC!BlockOf(w, len - 1)[s]
    BY <1>7, <2>2, <2>3 DEF CMAC!xor_128
  <2>5. CMAC!LastBlock(k, m) \in CBlock
    BY <1>4, <2>2, <2>3, XoredIsBlock
  <2>. QED BY <2>2, <2>4, <2>5, SameCBlock
<1>. QED BY <1>1, <1>2, <1>9, <1>10, <1>11, <1>12 DEF IsMarked, w, len

LEMMA FilledMarked ==
  ASSUME CMAC!CmacAssumption, NEW k \in CmacKeys, NEW m \in Seq(Byte), ~(m # <<>> /\ Len(m) % BLOCK_SIZE = 0)
  PROVE  IsMarked(k, m, CMAC!Marked(k, m), (Len(m) \div BLOCK_SIZE) + 1)
<1> DEFINE B == BLOCK_SIZE
           rest == Len(m) % B
           len == (Len(m) \div B) + 1
           before == B * (len - 1)
           zeros == [j \in 1 .. B - rest - 1 |-> 0]
           filled == m \o <<128>> \o zeros
           w == CMAC!Marked(k, m)
<1>0. B \in Nat \ {0} /\ Len(m) \in Nat
  BY CmacSizes
<1>1. len \in Nat \ {0} /\ rest \in 0 .. B - 1 /\ Len(m) = before + rest /\ len - 1 = Len(m) \div B
  <2>1. Len(m) \div B \in Nat /\ rest \in 0 .. B - 1 /\ Len(m) = B * (Len(m) \div B) + rest
    BY <1>0, DivMod
  <2>. QED BY <2>1
<1>2. before \in Nat /\ before + B = B * len
  <2>1. len - 1 \in Nat
    BY <1>1
  <2> HIDE DEF len
  <2>. QED BY <1>0, <1>1, <2>1
<1>3. CMAC!K2(k) \in CBlock
  BY Subkeys
<1>4. rest = 0 => m = <<>>
  BY <1>0
<1>5. w = [j \in DOMAIN filled |-> IF j > Len(m) - rest THEN Xor(filled[j], CMAC!K2(k)[j - (Len(m) - rest)]) ELSE filled[j]]
  BY DEF CMAC!Marked
<1>6. Len(m) - rest = before
  BY <1>0, <1>1, <1>2
<1>7. zeros \in Seq(Byte) /\ Len(zeros) = B - rest - 1 /\ \A j \in 1 .. B - rest - 1 : zeros[j] = 0
  <2>1. B - rest - 1 \in Nat /\ 0 \in Byte
    BY <1>0, <1>1 DEF Byte
  <2> HIDE DEF rest
  <2>. QED BY <2>1
<1> HIDE DEF w, before, len, rest, zeros
<1>8. /\ filled \in Seq(Byte) /\ Len(filled) = before + B
      /\ \A j \in 1 .. Len(m) : filled[j] = m[j]
      /\ filled[Len(m) + 1] = 128
      /\ \A j \in 1 .. B - rest - 1 : filled[Len(m) + 1 + j] = 0
  <2> DEFINE half == m \o <<128>>
  <2>0. 128 \in Byte
    BY DEF Byte
  <2>1. half \in Seq(Byte) /\ Len(half) = Len(m) + 1
    BY <2>0
  <2>2. (\A j \in 1 .. Len(m) : half[j] = m[j]) /\ half[Len(m) + 1] = 128
    BY <2>0
  <2>3. filled = half \o zeros
    OBVIOUS
  <2> HIDE DEF half, filled
  <2>4. filled \in Seq(Byte) /\ Len(filled) = Len(half) + Len(zeros)
    BY <1>7, <2>1, <2>3, Catenation
  <2>5. \A j \in 1 .. Len(half) : filled[j] = half[j]
    BY <1>7, <2>1, <2>3, Catenation
  <2>6. \A j \in 1 .. Len(zeros) : filled[Len(half) + j] = zeros[j]
    BY <1>7, <2>1, <2>3, Catenation
  <2>7. Len(filled) = before + B
    BY <1>0, <1>1, <1>2, <1>7, <2>1, <2>4
  <2>8. \A j \in 1 .. Len(m) : filled[j] = m[j]
    BY <1>0, <2>1, <2>2, <2>5
  <2>9. filled[Len(m) + 1] = 128
    BY <1>0, <2>1, <2>2, <2>5
  <2>10. \A j \in 1 .. B - rest - 1 : filled[Len(m) + 1 + j] = 0
    BY <1>7, <2>1, <2>6
  <2>. QED BY <2>4, <2>7, <2>8, <2>9, <2>10
<1> HIDE DEF filled
<1>9. w = [j \in 1 .. before + B |-> IF j > before THEN Xor(filled[j], CMAC!K2(k)[j - before]) ELSE filled[j]]
  <2>1. DOMAIN filled = 1 .. before + B
    BY <1>8
  <2>. QED BY <1>5, <1>6, <2>1
<1>10. \A j \in 1 .. before + B : j > before => w[j] = Xor(filled[j], CMAC!K2(k)[j - before])
  BY <1>9
<1>11. \A j \in 1 .. before + B : j <= before => w[j] = filled[j]
  BY <1>2, <1>9
<1>12. \A j \in 1 .. before + B : filled[j] \in Byte
  <2>1. \A j \in 1 .. Len(filled) : filled[j] \in Byte
    BY <1>8
  <2>. QED BY <1>8, <2>1
<1>13. \A s \in 1 .. B : w[before + s] = Xor(filled[before + s], CMAC!K2(k)[s])
  <2> SUFFICES ASSUME NEW s \in 1 .. B PROVE w[before + s] = Xor(filled[before + s], CMAC!K2(k)[s])
    OBVIOUS
  <2> DEFINE t == before + s
  <2>1. t \in 1 .. before + B /\ t > before /\ t - before = s
    BY <1>0, <1>2
  <2> HIDE DEF t
  <2>2. w[t] = Xor(filled[t], CMAC!K2(k)[s])
    BY <1>10, <2>1
  <2>. QED BY <2>2 DEF t
<1>14. \A j \in 1 .. before + B : w[j] \in Byte
  <2> SUFFICES ASSUME NEW j \in 1 .. before + B PROVE w[j] \in Byte
    OBVIOUS
  <2>1. filled[j] \in Byte
    BY <1>12
  <2>2. CASE j <= before
    BY <1>11, <2>1, <2>2
  <2>3. CASE j > before
    <3>1. j - before \in 1 .. B
      BY <1>0, <1>2, <2>3
    <3>2. CMAC!K2(k)[j - before] \in Byte
      BY <1>3, <3>1 DEF CBlock
    <3>3. w[j] = Xor(filled[j], CMAC!K2(k)[j - before])
      BY <1>10, <2>3
    <3>. QED BY <2>1, <3>2, <3>3, XorBits
  <2>. QED BY <1>2, <2>2, <2>3
<1>15. w \in Seq(Byte) /\ Len(w) = before + B
  BY <1>0, <1>2, <1>9, <1>14
<1>16. \A j \in 0 .. len - 2 : CMAC!BlockOf(w, j) = CMAC!BlockOf(m, j)
  <2>1. \A s \in 1 .. before : w[s] = m[s]
    <3> SUFFICES ASSUME NEW s \in 1 .. before PROVE w[s] = m[s]
      OBVIOUS
    <3>1. s \in 1 .. before + B /\ s <= before /\ s \in 1 .. Len(m)
      BY <1>0, <1>1, <1>2
    <3>. QED BY <1>8, <1>11, <3>1
  <2>2. len \in Nat \ {0} /\ Len(w) = BLOCK_SIZE * len /\ Len(m) >= before
    BY <1>0, <1>1, <1>2, <1>15
  <2>. QED BY <1>15, <2>1, <2>2, SameBlocks DEF before
<1>17. /\ rest # 0 => CMAC!Rounds(Len(m)) = len
       /\ rest = 0 => CMAC!Rounds(Len(m)) = 0 /\ len = 1 /\ before = 0
  <2>1. CASE rest = 0
    <3>1. Len(m) = 0
      BY <1>4, <2>1
    <3>2. B * 0 = 0 /\ 0 \in 0 .. B - 1 /\ B - 1 \in 0 .. B - 1
      BY <1>0
    <3>3. (B * 0 + (B - 1)) \div B = 0 /\ (B * 0 + 0) \div B = 0
      BY <1>0, <3>2, DivIs
    <3>4. (Len(m) + (B - 1)) \div B = 0 /\ Len(m) \div B = 0
      BY <1>0, <3>1, <3>2, <3>3
    <3>5. len = 1 /\ before = 0
      BY <1>1, <1>2, <3>1, <3>4, <2>1
    <3>. QED BY <2>1, <3>4, <3>5 DEF CMAC!Rounds, CMAC!LAST_INDEX
  <2>2. CASE rest # 0
    <3> DEFINE less == rest - 1
    <3>1. less \in 0 .. B - 1
      BY <1>0, <1>1, <2>2
    <3> HIDE DEF less
    <3>11. len \in Int
      BY <1>1
    <3>2. (B * len + less) \div B = len
      BY <1>0, <3>1, <3>11, DivIs
    <3>3. B * len + less = Len(m) + (B - 1)
      BY <1>0, <1>1, <1>2 DEF less
    <3>. QED BY <2>2, <3>2, <3>3 DEF CMAC!Rounds, CMAC!LAST_INDEX
  <2>. QED BY <2>1, <2>2
<1> DEFINE last == IF CMAC!Rounds(Len(m)) = 0 THEN <<>> ELSE CMAC!BlockOf(m, CMAC!Rounds(Len(m)) - 1)
<1>18. \A s \in 1 .. B : CMAC!padding(last, rest)[s] = filled[before + s]
  <2> SUFFICES ASSUME NEW s \in 1 .. B PROVE CMAC!padding(last, rest)[s] = filled[before + s]
    OBVIOUS
  <2>0. CMAC!padding(last, rest)[s] = CASE s - 1 < rest -> last[s] [] s - 1 = rest -> 128 [] OTHER -> 0
    BY DEF CMAC!padding
  <2>1. CASE s - 1 < rest
    <3>1. rest # 0
      BY <1>1, <2>1
    <3>2. CMAC!Rounds(Len(m)) = len /\ len # 0
      BY <1>1, <1>17, <3>1
    <3>3. last = CMAC!BlockOf(m, len - 1)
      BY <3>2
    <3>4. B * (len - 1 + 1) = before + B /\ B * (len - 1) = before
      BY <1>1, <1>2 DEF before
    <3>5. (IF B * (len - 1 + 1) < Len(m) THEN B * (len - 1 + 1) ELSE Len(m)) = Len(m)
      BY <1>0, <1>1, <1>2, <3>4
    <3>6. last = SubSeq(m, before + 1, Len(m))
      BY <3>3, <3>4, <3>5 DEF CMAC!BlockOf
    <3>7. s \in 1 .. Len(m) - before /\ before + s \in 1 .. Len(m)
      BY <1>0, <1>1, <1>2, <2>1
    <3> HIDE DEF last
    <3>8. last[s] = m[before + s]
      BY <1>0, <1>1, <1>2, <3>6, <3>7
    <3>9. CMAC!padding(last, rest)[s] = last[s]
      BY <2>0, <2>1
    <3>10. filled[before + s] = m[before + s]
      BY <1>8, <3>7
    <3>. QED BY <3>8, <3>9, <3>10 DEF last
  <2>2. CASE s - 1 = rest
    <3>1. before + s = Len(m) + 1
      BY <1>0, <1>1, <1>2, <2>2
    <3>2. CMAC!padding(last, rest)[s] = 128
      BY <1>1, <2>0, <2>2
    <3>. QED BY <1>8, <3>1, <3>2
  <2>3. CASE s - 1 > rest
    <3>1. before + s = Len(m) + 1 + (s - 1 - rest) /\ s - 1 - rest \in 1 .. B - rest - 1
      BY <1>0, <1>1, <1>2, <2>3
    <3>2. CMAC!padding(last, rest)[s] = 0
      BY <1>1, <2>0, <2>3
    <3>3. filled[Len(m) + 1 + (s - 1 - rest)] = 0
      BY <1>8, <3>1
    <3>. QED BY <3>1, <3>2, <3>3
  <2>. QED BY <1>1, <2>1, <2>2, <2>3
<1>19. CMAC!LastBlock(k, m) = CMAC!xor_128(CMAC!padding(last, rest), CMAC!K2(k))
  <2>1. ~(CMAC!Rounds(Len(m)) # 0 /\ rest = 0)
    BY <1>17
  <2>. QED BY <2>1 DEF CMAC!LastBlock, rest
<1> HIDE DEF last
<1>20. CMAC!BlockOf(w, len - 1) = CMAC!LastBlock(k, m)
  <2>1. len - 1 \in Nat /\ B * (len - 1) + B <= Len(w)
    BY <1>0, <1>1, <1>2, <1>15 DEF before
  <2>2. CMAC!BlockOf(w, len - 1) \in CBlock /\ \A s \in 1 .. B : CMAC!BlockOf(w, len - 1)[s] = w[before + s]
    BY <1>15, <2>1, FullBlock DEF before
  <2>3. \A s \in 1 .. B : CMAC!LastBlock(k, m)[s] = Xor(CMAC!padding(last, rest)[s], CMAC!K2(k)[s])
    BY <1>19 DEF CMAC!xor_128
  <2>4. \A s \in 1 .. B : CMAC!LastBlock(k, m)[s] = CMAC!BlockOf(w, len - 1)[s]
    BY <1>13, <1>18, <2>2, <2>3
  <2>5. CMAC!LastBlock(k, m) \in CBlock
    <3>1. \A s \in 1 .. B : CMAC!LastBlock(k, m)[s] \in Byte
      BY <2>2, <2>4 DEF CBlock
    <3>2. CMAC!LastBlock(k, m) = [s \in 1 .. B |-> CMAC!LastBlock(k, m)[s]]
      BY <1>19 DEF CMAC!xor_128
    <3>. QED BY <3>1, <3>2 DEF CBlock
  <2>. QED BY <2>2, <2>4, <2>5, SameCBlock
<1>21. \A j \in Nat : j < CMAC!Rounds(Len(m)) - 1 <=> j < len - 1
  BY <1>17
<1>. QED BY <1>1, <1>2, <1>15, <1>16, <1>20, <1>21 DEF IsMarked, w, len

\* The invariant: the loop has chained the first blocks of the marked message.
CmacMarked == CMAC!Marked(key, input)
CmacInv ==
  /\ key \in CmacKeys /\ input \in Seq(Byte)
  /\ done \in BOOLEAN
  /\ ~done => cmac_i \in 0 .. CmacBlocks(input) - 1 /\ X = LinksOf(key, CmacMarked)[cmac_i]
  /\ done => X = LinksOf(key, CmacMarked)[CmacBlocks(input)]

LEMMA MarkedIs ==
  ASSUME CMAC!CmacAssumption, NEW k \in CmacKeys, NEW m \in Seq(Byte)
  PROVE  IsMarked(k, m, CMAC!Marked(k, m), CmacBlocks(m))
<1>1. CASE m # <<>> /\ Len(m) % BLOCK_SIZE = 0
  BY <1>1, WholeMarked DEF CmacBlocks
<1>2. CASE ~(m # <<>> /\ Len(m) % BLOCK_SIZE = 0)
  BY <1>2, FilledMarked DEF CmacBlocks
<1>. QED BY <1>1, <1>2

\* A turn of the loop, and what follows it, link the next block.
LEMMA NextLink ==
  ASSUME CMAC!CmacAssumption, NEW k \in CmacKeys, NEW m \in Seq(Byte), NEW j \in 0 .. CmacBlocks(m) - 1
  PROVE  /\ CmacBlocks(m) \in Nat \ {0} /\ LinksOf(k, CMAC!Marked(k, m))[0] = CMAC!const_Zero
         /\ CMAC!Chain(k, CMAC!Marked(k, m)) = LinksOf(k, CMAC!Marked(k, m))[CmacBlocks(m)]
         /\ LinksOf(k, CMAC!Marked(k, m))[j + 1] =
              CmacCipher(k, CMAC!xor_128(LinksOf(k, CMAC!Marked(k, m))[j],
                IF j < CMAC!Rounds(Len(m)) - 1 THEN CMAC!BlockOf(m, j) ELSE CMAC!LastBlock(k, m)))
         /\ j < CMAC!Rounds(Len(m)) - 1 => j + 1 \in 0 .. CmacBlocks(m) - 1
         /\ ~(j < CMAC!Rounds(Len(m)) - 1) => j + 1 = CmacBlocks(m)
<1> DEFINE w == CMAC!Marked(k, m)
           len == CmacBlocks(m)
           f == LinksOf(k, w)
<1>1. IsMarked(k, m, w, len)
  BY MarkedIs
<1> HIDE DEF w, len
<1>2. /\ len \in Nat \ {0} /\ w \in Seq(Byte) /\ Len(w) = BLOCK_SIZE * len
      /\ \A h \in 0 .. len - 2 : CMAC!BlockOf(w, h) = CMAC!BlockOf(m, h)
      /\ CMAC!BlockOf(w, len - 1) = CMAC!LastBlock(k, m)
      /\ \A h \in Nat : h < CMAC!Rounds(Len(m)) - 1 <=> h < len - 1
  BY <1>1 DEF IsMarked
<1>3. CmacLinks(f, k, w, len) /\ CMAC!Chain(k, w) = f[len]
  BY <1>2, LinksAre
<1> HIDE DEF f
<1>4. f[0] = CMAC!const_Zero /\ \A h \in 1 .. len : f[h] = CmacCipher(k, CMAC!xor_128(f[h - 1], CMAC!BlockOf(w, h - 1)))
  BY <1>3 DEF CmacLinks
<1>5. j \in Nat /\ j + 1 \in 1 .. len /\ j + 1 - 1 = j /\ (j < CMAC!Rounds(Len(m)) - 1 <=> j < len - 1)
  BY <1>2 DEF len
<1>6. f[j + 1] = CmacCipher(k, CMAC!xor_128(f[j], CMAC!BlockOf(w, j)))
  <2>1. f[j + 1] = CmacCipher(k, CMAC!xor_128(f[j + 1 - 1], CMAC!BlockOf(w, j + 1 - 1)))
    BY <1>4, <1>5
  <2>. QED BY <1>5, <2>1
<1>7. CASE j < len - 1
  <2>1. j \in 0 .. len - 2 /\ j + 1 \in 0 .. len - 1
    BY <1>2, <1>5, <1>7
  <2>2. CMAC!BlockOf(w, j) = CMAC!BlockOf(m, j)
    BY <1>2, <2>1
  <2>. QED BY <1>2, <1>3, <1>4, <1>5, <1>6, <1>7, <2>1, <2>2 DEF f, w, len
<1>8. CASE ~(j < len - 1)
  <2>1. j = len - 1 /\ j + 1 = len
    BY <1>2, <1>5, <1>8
  <2>. QED BY <1>2, <1>3, <1>4, <1>5, <1>6, <1>8, <2>1 DEF f, w, len
<1>. QED BY <1>7, <1>8

LEMMA CmacInductive ==
  ASSUME CMAC!CmacAssumption
  PROVE  /\ CMAC!Init => CmacInv
         /\ CmacInv /\ [CMAC!Next]_CMAC!vars => CmacInv'
         /\ CmacInv => CMAC!MacIsCmac
<1> USE DEF CMAC!vars
<1>1. CMAC!Init => CmacInv
  <2> SUFFICES ASSUME CMAC!Init PROVE CmacInv
    OBVIOUS
  <2>1. key \in CmacKeys /\ input \in Messages /\ cmac_i = 0 /\ X = CMAC!const_Zero /\ done = FALSE
    BY DEF CMAC!Init
  <2>2. input \in Seq(Byte)
    BY <2>1 DEF CMAC!CmacAssumption, Byte
  <2>3. CmacBlocks(input) \in Nat \ {0}
    BY <2>1, <2>2, MarkedIs DEF IsMarked
  <2>4. 0 \in 0 .. CmacBlocks(input) - 1
    BY <2>3
  <2>5. LinksOf(key, CmacMarked)[0] = CMAC!const_Zero
    BY <2>1, <2>2, <2>4, NextLink DEF CmacMarked
  <2>. QED BY <2>1, <2>2, <2>4, <2>5 DEF CmacInv
<1>2. CmacInv /\ [CMAC!Next]_CMAC!vars => CmacInv'
  <2> SUFFICES ASSUME CmacInv, [CMAC!Next]_CMAC!vars PROVE CmacInv'
    OBVIOUS
  <2>0. key \in CmacKeys /\ input \in Seq(Byte)
    BY DEF CmacInv
  <2>1. CASE CMAC!Round
    <3>1. /\ ~done /\ cmac_i < CMAC!Rounds(Len(input)) - 1
          /\ X' = CmacCipher(key, CMAC!xor_128(X, CMAC!BlockOf(input, cmac_i))) /\ cmac_i' = cmac_i + 1
          /\ key' = key /\ input' = input /\ done' = done
      BY <2>1 DEF CMAC!Round
    <3>2. cmac_i \in 0 .. CmacBlocks(input) - 1 /\ X = LinksOf(key, CmacMarked)[cmac_i]
      BY <3>1 DEF CmacInv
    <3>3. cmac_i + 1 \in 0 .. CmacBlocks(input) - 1
      BY <2>0, <3>1, <3>2, NextLink
    <3>4. X' = LinksOf(key, CmacMarked)[cmac_i + 1]
      BY <2>0, <3>1, <3>2, NextLink DEF CmacMarked
    <3>5. CmacMarked' = CmacMarked
      BY <3>1 DEF CmacMarked
    <3>. QED BY <2>0, <3>1, <3>3, <3>4, <3>5 DEF CmacInv
  <2>2. CASE CMAC!Final
    <3>1. /\ ~done /\ cmac_i >= CMAC!Rounds(Len(input)) - 1
          /\ X' = CmacCipher(key, CMAC!xor_128(X, CMAC!LastBlock(key, input))) /\ done' = TRUE
          /\ key' = key /\ input' = input /\ cmac_i' = cmac_i
      BY <2>2 DEF CMAC!Final
    <3>2. cmac_i \in 0 .. CmacBlocks(input) - 1 /\ X = LinksOf(key, CmacMarked)[cmac_i]
      BY <3>1 DEF CmacInv
    <3>20. ~(cmac_i < CMAC!Rounds(Len(input)) - 1)
      <4>1. CMAC!Rounds(Len(input)) \in Int
        <5>1. BLOCK_SIZE \in Nat \ {0} /\ Len(input) \in Nat
          BY <2>0, CmacSizes
        <5>. QED BY <5>1 DEF CMAC!Rounds, CMAC!LAST_INDEX
      <4>. QED BY <3>1, <3>2, <4>1
    <3>3. cmac_i + 1 = CmacBlocks(input)
      BY <2>0, <3>2, <3>20, NextLink
    <3>4. X' = LinksOf(key, CmacMarked)[cmac_i + 1]
      BY <2>0, <3>1, <3>2, <3>20, NextLink DEF CmacMarked
    <3>5. CmacMarked' = CmacMarked
      BY <3>1 DEF CmacMarked
    <3>. QED BY <2>0, <3>1, <3>3, <3>4, <3>5 DEF CmacInv
  <2>3. CASE UNCHANGED CMAC!vars
    BY <2>3 DEF CmacInv, CmacMarked
  <2>. QED BY <2>1, <2>2, <2>3 DEF CMAC!Next
<1>3. CmacInv => CMAC!MacIsCmac
  <2> SUFFICES ASSUME CmacInv PROVE CMAC!MacIsCmac
    OBVIOUS
  <2>1. key \in CmacKeys /\ input \in Seq(Byte)
    BY DEF CmacInv
  <2>2. CMAC!SubkeysDouble
    BY <2>1, Subkeys DEF CMAC!SubkeysDouble
  <2>3. CmacBlocks(input) \in Nat \ {0}
    BY <2>1, MarkedIs DEF IsMarked
  <2>4. 0 \in 0 .. CmacBlocks(input) - 1
    BY <2>3
  <2>5. CMAC!Chain(key, CmacMarked) = LinksOf(key, CmacMarked)[CmacBlocks(input)]
    BY <2>1, <2>4, NextLink DEF CmacMarked
  <2>6. done => X = CMAC!Chain(key, CmacMarked)
    BY <2>5 DEF CmacInv
  <2>. QED BY <2>2, <2>6 DEF CMAC!MacIsCmac, CmacMarked
<1>. QED BY <1>1, <1>2, <1>3

CmacRunning == running = "cmac" => CmacInv

\* Whatever the block cipher and the size of a block are, what AES_CMAC computes is CMAC by its
\* definition, subkeys included, for every key and every message.
THEOREM MacIsCmacAlways == AlgorithmSpec => []MacIsCmac
<1>1. /\ CMAC!Init => CmacInv
      /\ CmacInv /\ [CMAC!Next]_CMAC!vars => CmacInv'
      /\ CmacInv => CMAC!MacIsCmac
  BY CmacInputs, CmacInductive
<1>2. AlgorithmInit => CmacRunning
  BY <1>1 DEF AlgorithmInit, CmacRunning
<1>3. CmacRunning /\ [AlgorithmNext]_algorithmVars => CmacRunning'
  <2> SUFFICES ASSUME CmacRunning, [AlgorithmNext]_algorithmVars, running' = "cmac" PROVE CmacInv'
    BY DEF CmacRunning
  <2>1. running' = running
    BY DEF AlgorithmNext, algorithmVars
  <2>2. CmacInv
    BY <2>1 DEF CmacRunning
  <2>3. CMAC!Next \/ UNCHANGED CMAC!vars
    BY <2>1 DEF AlgorithmNext, algorithmVars, ofCmac, CMAC!vars
  <2>. QED BY <1>1, <2>2, <2>3
<1>4. CmacRunning => MacIsCmac
  BY <1>1 DEF CmacRunning, MacIsCmac
<1>. QED BY <1>2, <1>3, <1>4, PTL DEF AlgorithmSpec

-----------------------------------------------------------------------------
(* The QR code's text (QrCode).                                            *)

Content(d) == <<QR!ProductCode[d.product_type]>> \o d.device_secret \o SubSeq(d.public_key, 1, 4) \o <<0, 0>> \o d.device_uuid

Hexits == {QR!Letters[x] : x \in 1 .. 16}

LEMMA HexOf ==
  ASSUME NEW m \in Nat, NEW bytes, \A j \in 1 .. m : bytes[j] \in Byte
  PROVE  /\ QR!Hex(bytes, m) \in Seq(Hexits) /\ Len(QR!Hex(bytes, m)) = 2 * m
         /\ \A j \in 1 .. m : /\ QR!Hex(bytes, m)[2 * j - 1] = QR!Letters[bytes[j] \div 16 + 1]
                              /\ QR!Hex(bytes, m)[2 * j] = QR!Letters[(bytes[j] % 16) + 1]
<1>1. \A x \in 1 .. 16 : QR!Letters[x] \in Hexits
  BY DEF Hexits
<1>2. \A k \in 1 .. 2 * m : (k + 1) \div 2 \in 1 .. m
  OBVIOUS
<1>3. \A x \in Byte : x \div 16 + 1 \in 1 .. 16 /\ (x % 16) + 1 \in 1 .. 16
  BY DEF Byte
<1>4. \A k \in 1 .. 2 * m : QR!Hex(bytes, m)[k] \in Hexits
  BY <1>1, <1>2, <1>3 DEF QR!Hex
<1>5. QR!Hex(bytes, m) \in [1 .. 2 * m -> Hexits]
  BY <1>4 DEF QR!Hex
<1>6. QR!Hex(bytes, m) \in Seq(Hexits) /\ Len(QR!Hex(bytes, m)) = 2 * m
  BY <1>5
<1>7. ASSUME NEW j \in 1 .. m
      PROVE  /\ QR!Hex(bytes, m)[2 * j - 1] = QR!Letters[bytes[j] \div 16 + 1]
             /\ QR!Hex(bytes, m)[2 * j] = QR!Letters[(bytes[j] % 16) + 1]
  <2>1. 2 * j - 1 \in 1 .. 2 * m /\ (2 * j - 1 + 1) \div 2 = j /\ (2 * j - 1) % 2 = 1
    OBVIOUS
  <2>2. 2 * j \in 1 .. 2 * m /\ (2 * j + 1) \div 2 = j /\ (2 * j) % 2 = 0
    OBVIOUS
  <2>. QED BY <2>1, <2>2 DEF QR!Hex
<1>. QED BY <1>6, <1>7

LEMMA HexValue == ASSUME NEW x \in 0 .. 15 PROVE QR!hex2dec(QR!Letters[x + 1]) = x
<1>1. \A v \in 0 .. 15 : QR!Letters[v + 1] = QR!Letters[x + 1] => v = x
  BY DEF QR!Letters
<1>. QED BY <1>1 DEF QR!hex2dec

\* The letters of a byte.
HasByte(s, p, x) == s[p] = QR!Letters[x \div 16 + 1] /\ s[p + 1] = QR!Letters[(x % 16) + 1]

\* t is s with the letters of m bytes behind it.
HexBehind(s, l, bytes, m, t) ==
  /\ t \in Seq(Hexits) /\ Len(t) = l + 2 * m /\ \A p \in 1 .. l : t[p] = s[p]
  /\ \A j \in 1 .. m : HasByte(t, l + 2 * j - 1, bytes[j])

LEMMA AppendedHex ==
  ASSUME NEW s \in Seq(Hexits), NEW m \in Nat, NEW bytes, \A j \in 1 .. m : bytes[j] \in Byte,
         NEW l \in Nat, Len(s) = l
  PROVE  HexBehind(s, l, bytes, m, s \o QR!Hex(bytes, m))
<1> DEFINE t == QR!Hex(bytes, m)
<1>1. /\ t \in Seq(Hexits) /\ Len(t) = 2 * m
      /\ \A j \in 1 .. m : /\ t[2 * j - 1] = QR!Letters[bytes[j] \div 16 + 1]
                           /\ t[2 * j] = QR!Letters[(bytes[j] % 16) + 1]
  BY HexOf
<1> HIDE DEF t
<1>20. IsCat(Hexits, s, t, s \o t)
  BY <1>1, Joined
<1>2. /\ s \o t \in Seq(Hexits) /\ Len(s \o t) = Len(s) + Len(t)
      /\ \A p \in 1 .. Len(s) : (s \o t)[p] = s[p]
      /\ \A p \in 1 .. Len(t) : (s \o t)[Len(s) + p] = t[p]
  BY <1>20 DEF IsCat
<1>3. ASSUME NEW j \in 1 .. m PROVE HasByte(s \o t, l + 2 * j - 1, bytes[j])
  <2>1. 2 * j - 1 \in 1 .. Len(t) /\ 2 * j \in 1 .. Len(t)
    BY <1>1
  <2>2. (s \o t)[l + (2 * j - 1)] = t[2 * j - 1] /\ (s \o t)[l + 2 * j] = t[2 * j]
    BY <1>2, <2>1
  <2>3. l + (2 * j - 1) = l + 2 * j - 1 /\ l + 2 * j = l + 2 * j - 1 + 1
    OBVIOUS
  <2>. QED BY <1>1, <2>2, <2>3 DEF HasByte
<1>. QED BY <1>1, <1>2, <1>3 DEF t, HexBehind

\* The text is the content, letter by letter.
SlotTyped(d) ==
  /\ d.product_type \in QR!Products
  /\ d.device_secret \in [1 .. 16 -> Byte] /\ d.public_key \in [1 .. 64 -> Byte] /\ d.device_uuid \in [1 .. 16 -> Byte]

LEMMA TextHolds ==
  ASSUME NEW d, SlotTyped(d)
  PROVE  LET K == QR!KeyText(d)
         IN  /\ K \in Seq(Hexits) /\ Len(K) = 78
             /\ HasByte(K, 1, QR!ProductCode[d.product_type])
             /\ \A j \in 1 .. 16 : HasByte(K, 1 + 2 * j, d.device_secret[j])
             /\ \A j \in 1 .. 4 : HasByte(K, 33 + 2 * j, d.public_key[j])
             /\ HasByte(K, 43, 0) /\ HasByte(K, 45, 0)
             /\ \A j \in 1 .. 16 : HasByte(K, 45 + 2 * j, d.device_uuid[j])
<1> DEFINE K1 == QR!ProductDigits(d.product_type)
           K2 == K1 \o QR!Hex(d.device_secret, 16)
           K3 == K2 \o QR!Hex(d.public_key, 4)
           zeroes == <<"0", "0", "0", "0">>
           K4 == K3 \o zeroes
           K5 == K4 \o QR!Hex(d.device_uuid, 16)
<1>1. K1 \in Seq(Hexits) /\ Len(K1) = 2 /\ HasByte(K1, 1, QR!ProductCode[d.product_type])
  <2>1. \A x \in 1 .. 16 : QR!Letters[x] \in Hexits
    BY DEF Hexits
  <2>2. "0" \in Hexits /\ "5" \in Hexits /\ "7" \in Hexits /\ "9" \in Hexits /\ "a" \in Hexits
    BY <2>1 DEF QR!Letters
  <2>3. CASE d.product_type = "SESAME_5"
    BY <2>2, <2>3 DEF QR!ProductDigits, QR!ProductCode, HasByte, QR!Letters
  <2>4. CASE d.product_type = "SESAME_5_PRO"
    BY <2>2, <2>4 DEF QR!ProductDigits, QR!ProductCode, HasByte, QR!Letters
  <2>5. CASE d.product_type = "SESAME_TOUCH_PRO"
    BY <2>2, <2>5 DEF QR!ProductDigits, QR!ProductCode, HasByte, QR!Letters
  <2>6. CASE d.product_type = "SESAME_TOUCH"
    BY <2>2, <2>6 DEF QR!ProductDigits, QR!ProductCode, HasByte, QR!Letters
  <2>. QED BY <2>3, <2>4, <2>5, <2>6 DEF SlotTyped, QR!Products
<1> HIDE DEF K1
<1>2. K2 \in Seq(Hexits) /\ HexBehind(K1, 2, d.device_secret, 16, K2) /\ Len(K2) = 34
  <2> DEFINE l == 2
             m == 16
  <2>1. l \in Nat /\ m \in Nat /\ l + 2 * m = 34
    OBVIOUS
  <2>2. \A j \in 1 .. m : d.device_secret[j] \in Byte
    BY DEF SlotTyped
  <2>3. Len(K1) = l
    BY <1>1
  <2> HIDE DEF l, m
  <2>4. HexBehind(K1, l, d.device_secret, m, K1 \o QR!Hex(d.device_secret, m))
    BY <1>1, <2>1, <2>2, <2>3, AppendedHex
  <2>5. HexBehind(K1, l, d.device_secret, m, K2)
    BY <2>4 DEF m
  <2> HIDE DEF K2
  <2>6. K2 \in Seq(Hexits) /\ Len(K2) = l + 2 * m
    BY <2>5 DEF HexBehind
  <2>. QED BY <2>1, <2>5, <2>6 DEF l, m
<1> HIDE DEF K2
<1>3. K3 \in Seq(Hexits) /\ HexBehind(K2, 34, d.public_key, 4, K3) /\ Len(K3) = 42
  <2> DEFINE l == 34
             m == 4
  <2>1. l \in Nat /\ m \in Nat /\ l + 2 * m = 42
    OBVIOUS
  <2>2. \A j \in 1 .. m : d.public_key[j] \in Byte
    BY DEF SlotTyped
  <2>3. Len(K2) = l
    BY <1>2
  <2> HIDE DEF l, m
  <2>4. HexBehind(K2, l, d.public_key, m, K2 \o QR!Hex(d.public_key, m))
    BY <1>2, <2>1, <2>2, <2>3, AppendedHex
  <2>5. HexBehind(K2, l, d.public_key, m, K3)
    BY <2>4 DEF m
  <2> HIDE DEF K3
  <2>6. K3 \in Seq(Hexits) /\ Len(K3) = l + 2 * m
    BY <2>5 DEF HexBehind
  <2>. QED BY <2>1, <2>5, <2>6 DEF l, m
<1> HIDE DEF K3
<1>4. /\ K4 \in Seq(Hexits) /\ Len(K4) = 46 /\ \A p \in Nat : 1 <= p /\ p <= 42 => K4[p] = K3[p]
      /\ HasByte(K4, 43, 0) /\ HasByte(K4, 45, 0)
  <2>1. "0" \in Hexits
    BY DEF QR!Letters, Hexits
  <2>2. zeroes \in Seq(Hexits) /\ Len(zeroes) = 4 /\ \A p \in 1 .. 4 : zeroes[p] = "0"
    BY <2>1
  <2> DEFINE l == 42
  <2>3. Len(K3) = l
    BY <1>3
  <2> HIDE DEF zeroes, l
  <2>4. IsCat(Hexits, K3, zeroes, K4)
    BY <1>3, <2>2, Joined
  <2> HIDE DEF K4
  <2>5. /\ K4 \in Seq(Hexits) /\ Len(K4) = l + 4
        /\ \A p \in 1 .. l : K4[p] = K3[p]
        /\ \A p \in 1 .. 4 : K4[l + p] = zeroes[p]
    BY <2>2, <2>3, <2>4 DEF IsCat
  <2>6. K4[l + 1] = "0" /\ K4[l + 2] = "0" /\ K4[l + 3] = "0" /\ K4[l + 4] = "0"
    BY <2>2, <2>5
  <2>7. l + 1 = 43 /\ l + 2 = 44 /\ l + 3 = 45 /\ l + 4 = 46
    BY DEF l
  <2>8. K4[43] = "0" /\ K4[43 + 1] = "0" /\ K4[45] = "0" /\ K4[45 + 1] = "0"
    BY <2>6, <2>7
  <2>9. HasByte(K4, 43, 0) /\ HasByte(K4, 45, 0)
    BY <2>8 DEF HasByte, QR!Letters
  <2>10. \A p \in Nat : 1 <= p /\ p <= l => K4[p] = K3[p]
    BY <2>2, <2>3, <2>5
  <2>. QED BY <2>5, <2>7, <2>9, <2>10 DEF l
<1> HIDE DEF K4
<1>5. K5 \in Seq(Hexits) /\ HexBehind(K4, 46, d.device_uuid, 16, K5) /\ Len(K5) = 78
  <2> DEFINE l == 46
             m == 16
  <2>1. l \in Nat /\ m \in Nat /\ l + 2 * m = 78
    OBVIOUS
  <2>2. \A j \in 1 .. m : d.device_uuid[j] \in Byte
    BY DEF SlotTyped
  <2>3. Len(K4) = l
    BY <1>4
  <2> HIDE DEF l, m
  <2>4. HexBehind(K4, l, d.device_uuid, m, K4 \o QR!Hex(d.device_uuid, m))
    BY <1>4, <2>1, <2>2, <2>3, AppendedHex
  <2>5. HexBehind(K4, l, d.device_uuid, m, K5)
    BY <2>4 DEF m
  <2> HIDE DEF K5
  <2>6. K5 \in Seq(Hexits) /\ Len(K5) = l + 2 * m
    BY <2>5 DEF HexBehind
  <2>. QED BY <2>1, <2>5, <2>6 DEF l, m
<1> HIDE DEF K5
\* What is behind does not change what is before.
<1>60. /\ \A p \in 1 .. 2 : K2[p] = K1[p]
       /\ \A p \in 1 .. 34 : K3[p] = K2[p]
       /\ \A p \in 1 .. 46 : K5[p] = K4[p]
       /\ \A j \in 1 .. 16 : HasByte(K2, 2 + 2 * j - 1, d.device_secret[j])
       /\ \A j \in 1 .. 4 : HasByte(K3, 34 + 2 * j - 1, d.public_key[j])
       /\ \A j \in 1 .. 16 : HasByte(K5, 46 + 2 * j - 1, d.device_uuid[j])
  BY <1>2, <1>3, <1>5 DEF HexBehind
<1>6. /\ \A p \in 1 .. 42 : K5[p] = K3[p]
      /\ \A p \in 1 .. 34 : K5[p] = K2[p]
      /\ \A p \in 1 .. 2 : K5[p] = K1[p]
  <2> SUFFICES ASSUME NEW p \in Nat, p >= 1
               PROVE /\ p <= 42 => K5[p] = K3[p]
                     /\ p <= 34 => K5[p] = K2[p]
                     /\ p <= 2 => K5[p] = K1[p]
    OBVIOUS
  <2>1. p <= 46 => K5[p] = K4[p]
    BY <1>60
  <2>2. p <= 42 => K4[p] = K3[p]
    BY <1>4
  <2>3. p <= 34 => K3[p] = K2[p]
    BY <1>60
  <2>4. p <= 2 => K2[p] = K1[p]
    BY <1>60
  <2>. QED BY <2>1, <2>2, <2>3, <2>4
<1>7. HasByte(K5, 1, QR!ProductCode[d.product_type])
  <2>1. K5[1] = K1[1] /\ K5[1 + 1] = K1[1 + 1]
    BY <1>6
  <2> DEFINE x == QR!ProductCode[d.product_type]
  <2> HIDE DEF x
  <2>. QED BY <1>1, <2>1 DEF HasByte, x
<1>8. ASSUME NEW j \in 1 .. 16 PROVE HasByte(K5, 1 + 2 * j, d.device_secret[j])
  <2>1. HasByte(K2, 1 + 2 * j, d.device_secret[j])
    <3>1. 2 + 2 * j - 1 = 1 + 2 * j
      OBVIOUS
    <3>. QED BY <1>60, <3>1
  <2>2. 1 + 2 * j \in 1 .. 34 /\ 1 + 2 * j + 1 \in 1 .. 34
    OBVIOUS
  <2>. QED BY <1>6, <2>1, <2>2 DEF HasByte
<1>9. ASSUME NEW j \in 1 .. 4 PROVE HasByte(K5, 33 + 2 * j, d.public_key[j])
  <2>1. HasByte(K3, 33 + 2 * j, d.public_key[j])
    <3>1. 34 + 2 * j - 1 = 33 + 2 * j
      OBVIOUS
    <3>. QED BY <1>60, <3>1
  <2>2. 33 + 2 * j \in 1 .. 42 /\ 33 + 2 * j + 1 \in 1 .. 42
    OBVIOUS
  <2>. QED BY <1>6, <2>1, <2>2 DEF HasByte
<1>10. HasByte(K5, 43, 0) /\ HasByte(K5, 45, 0)
  <2>1. K5[43] = K4[43] /\ K5[43 + 1] = K4[43 + 1] /\ K5[45] = K4[45] /\ K5[45 + 1] = K4[45 + 1]
    BY <1>60
  <2>. QED BY <1>4, <2>1 DEF HasByte
<1>11. ASSUME NEW j \in 1 .. 16 PROVE HasByte(K5, 45 + 2 * j, d.device_uuid[j])
  <2>1. 46 + 2 * j - 1 = 45 + 2 * j
    OBVIOUS
  <2>. QED BY <1>60, <2>1
<1>12. QR!KeyText(d) = K5
  BY DEF QR!KeyText, K1, K2, K3, K4, K5
<1>. QED BY <1>5, <1>7, <1>8, <1>9, <1>10, <1>11, <1>12

\* The k-th letter of the text and its value
ValueAt(K, k) == QR!hex2dec(K[k])

LEMMA ByteValue ==
  ASSUME NEW K, NEW p, NEW x \in Byte, HasByte(K, p, x)
  PROVE  ValueAt(K, p) = x \div 16 /\ ValueAt(K, p + 1) = x % 16
<1>1. x \div 16 \in 0 .. 15 /\ x % 16 \in 0 .. 15
  BY DEF Byte
<1>. QED BY <1>1, HexValue DEF HasByte, ValueAt

LEMMA ValueTyped ==
  ASSUME NEW K \in Seq(Hexits), NEW k \in 1 .. Len(K)
  PROVE  ValueAt(K, k) \in 0 .. 15
<1>1. PICK x \in 1 .. 16 : K[k] = QR!Letters[x]
  BY DEF Hexits
<1>2. x - 1 \in 0 .. 15 /\ QR!Letters[(x - 1) + 1] = K[k]
  BY <1>1
<1>. QED BY <1>2, HexValue DEF ValueAt

Spread(h1, h2, h3, d1, d2) ==
  /\ Bits(d1)[6] = Bits(h1)[4] /\ Bits(d1)[5] = Bits(h1)[3] /\ Bits(d1)[4] = Bits(h1)[2]
  /\ Bits(d1)[3] = Bits(h1)[1] /\ Bits(d1)[2] = Bits(h2)[4] /\ Bits(d1)[1] = Bits(h2)[3]
  /\ Bits(d2)[6] = Bits(h2)[2] /\ Bits(d2)[5] = Bits(h2)[1] /\ Bits(d2)[4] = Bits(h3)[4]
  /\ Bits(d2)[3] = Bits(h3)[3] /\ Bits(d2)[2] = Bits(h3)[2] /\ Bits(d2)[1] = Bits(h3)[1]

\* Twelve bits from three letters: the digits d1 and d2 hold the letters h1, h2 and h3.
LEMMA ThreeLetters ==
  ASSUME NEW h1 \in 0 .. 15, NEW h2 \in 0 .. 15, NEW h3 \in 0 .. 15, NEW d1, NEW d2,
         d1 = (256 * h1 + 16 * h2 + h3) \div 64, d2 = (256 * h1 + 16 * h2 + h3) % 64
  PROVE  /\ d1 \in 0 .. 63 /\ d2 \in 0 .. 63
         /\ Spread(h1, h2, h3, d1, d2)
<1>1. d1 = 4 * h1 + h2 \div 4 /\ d2 = 16 * (h2 % 4) + h3
  OBVIOUS
<1>2. d1 \in 0 .. 63 /\ d2 \in 0 .. 63
  BY <1>1
<1>3. /\ (d1 \div 32) % 2 = (h1 \div 8) % 2 /\ (d1 \div 16) % 2 = (h1 \div 4) % 2 /\ (d1 \div 8) % 2 = (h1 \div 2) % 2
      /\ (d1 \div 4) % 2 = h1 % 2
  <2>1. h2 \div 4 \in 0 .. 3
    OBVIOUS
  <2>2. d1 \div 4 = h1 /\ d1 \div 8 = h1 \div 2 /\ d1 \div 16 = h1 \div 4 /\ d1 \div 32 = h1 \div 8
    BY <1>1, <2>1
  <2>. QED BY <2>2
<1>4. (d1 \div 2) % 2 = (h2 \div 8) % 2 /\ d1 % 2 = (h2 \div 4) % 2
  BY <1>1
<1>5. (d2 \div 32) % 2 = (h2 \div 2) % 2 /\ (d2 \div 16) % 2 = h2 % 2
  BY <1>1
<1>6. (d2 \div 8) % 2 = (h3 \div 8) % 2 /\ (d2 \div 4) % 2 = (h3 \div 4) % 2 /\ (d2 \div 2) % 2 = (h3 \div 2) % 2 /\ d2 % 2 = h3 % 2
  BY <1>1
<1>. QED BY <1>2, <1>3, <1>4, <1>5, <1>6 DEF Bits, Spread

\* The digits that the first m turns of the loop give.
Turned(K, digits, m) ==
  /\ digits \in Seq(0 .. 63) /\ Len(digits) = 2 * m
  /\ \A t \in 0 .. m - 1 :
       LET v == 256 * ValueAt(K, 3 * t + 1) + 16 * ValueAt(K, 3 * t + 2) + ValueAt(K, 3 * t + 3)
       IN  digits[2 * t + 1] = v \div 64 /\ digits[2 * t + 2] = v % 64

LEMMA SlotTypes == ASSUME QR!DevicesAssumption, NEW d \in Devices PROVE SlotTyped(d)
<1> DEFINE R == [product_type : QR!Products, device_secret : [1 .. 16 -> Byte],
                 public_key : [1 .. 64 -> Byte], device_uuid : [1 .. 16 -> Byte]]
<1>1. d \in R
  BY DEF QR!DevicesAssumption, QR!Byte, Byte
<1>. QED BY <1>1 DEF SlotTyped

IsTwoBehind(T, s, a, b, w) ==
  /\ w \in Seq(T) /\ Len(w) = Len(s) + 2 /\ w[Len(s) + 1] = a /\ w[Len(s) + 2] = b
  /\ \A p \in 1 .. Len(s) : w[p] = s[p]
LEMMA TwoBehind ==
  ASSUME NEW T, NEW s \in Seq(T), NEW a \in T, NEW b \in T
  PROVE  IsTwoBehind(T, s, a, b, s \o <<a, b>>)
<1> DEFINE t == <<a, b>>
           w == s \o t
<1>1. t \in Seq(T) /\ Len(t) = 2 /\ t[1] = a /\ t[2] = b
  OBVIOUS
<1> HIDE DEF t
<1>2. IsCat(T, s, t, w)
  BY <1>1, Joined
<1> HIDE DEF w
<1>3. IsTwoBehind(T, s, a, b, w)
  BY <1>1, <1>2 DEF IsCat, IsTwoBehind
<1>. QED BY <1>3 DEF w, t

\* Bit k of the digits is bit k of the letters.
SameBit(K, digits, k) == QR!Bit(digits, k) = Bits(ValueAt(K, k \div 4 + 1))[4 - (k % 4)]
LEMMA ScanBitIs ==
  ASSUME NEW K \in Seq(Hexits), Len(K) = 78, NEW digits, Turned(K, digits, 26), NEW k \in 0 .. 311
  PROVE  SameBit(K, digits, k)
<1> DEFINE t == k \div 12
           j == k % 12
<1>1. t \in 0 .. 25 /\ j \in 0 .. 11 /\ k = 12 * t + j
  OBVIOUS
<1> HIDE DEF t, j
<1> DEFINE h1 == ValueAt(K, 3 * t + 1)
           h2 == ValueAt(K, 3 * t + 2)
           h3 == ValueAt(K, 3 * t + 3)
<1>2. h1 \in 0 .. 15 /\ h2 \in 0 .. 15 /\ h3 \in 0 .. 15
  <2>1. 3 * t + 1 \in 1 .. Len(K) /\ 3 * t + 2 \in 1 .. Len(K) /\ 3 * t + 3 \in 1 .. Len(K)
    BY <1>1
  <2>. QED BY <2>1, ValueTyped
<1>3. /\ digits[2 * t + 1] = (256 * h1 + 16 * h2 + h3) \div 64
      /\ digits[2 * t + 2] = (256 * h1 + 16 * h2 + h3) % 64
  <2>1. t \in 0 .. 26 - 1
    BY <1>1
  <2>. QED BY <2>1 DEF Turned
<1> HIDE DEF h1, h2, h3
<1> DEFINE d1 == digits[2 * t + 1]
           d2 == digits[2 * t + 2]
<1>10. d1 = (256 * h1 + 16 * h2 + h3) \div 64 /\ d2 = (256 * h1 + 16 * h2 + h3) % 64
  BY <1>3
<1> HIDE DEF d1, d2
<1>4. /\ Bits(d1)[6] = Bits(h1)[4] /\ Bits(d1)[5] = Bits(h1)[3] /\ Bits(d1)[4] = Bits(h1)[2]
      /\ Bits(d1)[3] = Bits(h1)[1] /\ Bits(d1)[2] = Bits(h2)[4] /\ Bits(d1)[1] = Bits(h2)[3]
      /\ Bits(d2)[6] = Bits(h2)[2] /\ Bits(d2)[5] = Bits(h2)[1] /\ Bits(d2)[4] = Bits(h3)[4]
      /\ Bits(d2)[3] = Bits(h3)[3] /\ Bits(d2)[2] = Bits(h3)[2] /\ Bits(d2)[1] = Bits(h3)[1]
  <2>1. Spread(h1, h2, h3, d1, d2)
    BY <1>2, <1>10, ThreeLetters
  <2>. QED BY <2>1 DEF Spread
<1>5. ASSUME j \in 0 .. 3 PROVE QR!Bit(digits, k) = Bits(ValueAt(K, k \div 4 + 1))[4 - (k % 4)]
  <2>1. k \div 6 + 1 = 2 * t + 1 /\ k % 6 = j /\ k \div 4 + 1 = 3 * t + 1 /\ k % 4 = j
    BY <1>1, <1>5
  <2>2. QR!Bit(digits, k) = Bits(d1)[6 - j]
    BY <2>1 DEF QR!Bit, d1, QR!Bits, Bits
  <2>3. Bits(ValueAt(K, k \div 4 + 1))[4 - (k % 4)] = Bits(h1)[4 - j]
    BY <2>1 DEF h1
  <2>4. j = 0 \/ j = 1 \/ j = 2 \/ j = 3
    BY <1>5
  <2>5. Bits(d1)[6 - j] = Bits(h1)[4 - j]
    BY <1>4, <2>4
  <2>. QED BY <2>2, <2>3, <2>5
<1>6. ASSUME j \in 4 .. 5 PROVE QR!Bit(digits, k) = Bits(ValueAt(K, k \div 4 + 1))[4 - (k % 4)]
  <2>1. k \div 6 + 1 = 2 * t + 1 /\ k % 6 = j /\ k \div 4 + 1 = 3 * t + 2 /\ k % 4 = j - 4
    BY <1>1, <1>6
  <2>2. QR!Bit(digits, k) = Bits(d1)[6 - j]
    BY <2>1 DEF QR!Bit, d1, QR!Bits, Bits
  <2>3. Bits(ValueAt(K, k \div 4 + 1))[4 - (k % 4)] = Bits(h2)[8 - j]
    <3>1. 4 - (j - 4) = 8 - j
      BY <1>6
    <3>. QED BY <2>1, <3>1 DEF h2
  <2>4. j = 4 \/ j = 5
    BY <1>6
  <2>5. Bits(d1)[6 - j] = Bits(h2)[8 - j]
    BY <1>4, <2>4
  <2>. QED BY <2>2, <2>3, <2>5
<1>7. ASSUME j \in 6 .. 7 PROVE QR!Bit(digits, k) = Bits(ValueAt(K, k \div 4 + 1))[4 - (k % 4)]
  <2>1. k \div 6 + 1 = 2 * t + 2 /\ k % 6 = j - 6 /\ k \div 4 + 1 = 3 * t + 2 /\ k % 4 = j - 4
    BY <1>1, <1>7
  <2>2. QR!Bit(digits, k) = Bits(d2)[12 - j]
    <3>1. 6 - (j - 6) = 12 - j
      BY <1>7
    <3>. QED BY <2>1, <3>1 DEF QR!Bit, d2, QR!Bits, Bits
  <2>3. Bits(ValueAt(K, k \div 4 + 1))[4 - (k % 4)] = Bits(h2)[8 - j]
    <3>1. 4 - (j - 4) = 8 - j
      BY <1>7
    <3>. QED BY <2>1, <3>1 DEF h2
  <2>4. j = 6 \/ j = 7
    BY <1>7
  <2>5. Bits(d2)[12 - j] = Bits(h2)[8 - j]
    BY <1>4, <2>4
  <2>. QED BY <2>2, <2>3, <2>5
<1>8. ASSUME j \in 8 .. 11 PROVE QR!Bit(digits, k) = Bits(ValueAt(K, k \div 4 + 1))[4 - (k % 4)]
  <2>1. k \div 6 + 1 = 2 * t + 2 /\ k % 6 = j - 6 /\ k \div 4 + 1 = 3 * t + 3 /\ k % 4 = j - 8
    BY <1>1, <1>8
  <2>2. QR!Bit(digits, k) = Bits(d2)[12 - j]
    <3>1. 6 - (j - 6) = 12 - j
      BY <1>8
    <3>. QED BY <2>1, <3>1 DEF QR!Bit, d2, QR!Bits, Bits
  <2>3. Bits(ValueAt(K, k \div 4 + 1))[4 - (k % 4)] = Bits(h3)[12 - j]
    <3>1. 4 - (j - 8) = 12 - j
      BY <1>8
    <3>. QED BY <2>1, <3>1 DEF h3
  <2>4. j = 8 \/ j = 9 \/ j = 10 \/ j = 11
    BY <1>8
  <2>5. Bits(d2)[12 - j] = Bits(h3)[12 - j]
    BY <1>4, <2>4
  <2>. QED BY <2>2, <2>3, <2>5
<1>9. QR!Bit(digits, k) = Bits(ValueAt(K, k \div 4 + 1))[4 - (k % 4)]
  BY <1>1, <1>5, <1>6, <1>7, <1>8
<1>. QED BY <1>9 DEF SameBit

\* A byte is scanned from its two letters.
LEMMA FromHalves ==
  ASSUME NEW x \in Byte, NEW s,
         /\ s[1] = Bits(x % 16)[1] /\ s[2] = Bits(x % 16)[2] /\ s[3] = Bits(x % 16)[3] /\ s[4] = Bits(x % 16)[4]
         /\ s[5] = Bits(x \div 16)[1] /\ s[6] = Bits(x \div 16)[2] /\ s[7] = Bits(x \div 16)[3]
         /\ s[8] = Bits(x \div 16)[4]
  PROVE  FromBits(s) = x
<1>1. x \in 0 .. 255
  BY DEF Byte
<1>2. PICK h \in 0 .. 15, l \in 0 .. 15 : h = x \div 16 /\ l = x % 16 /\ x = 16 * h + l
  BY <1>1
<1>3. (l % 2) + 2 * ((l \div 2) % 2) + 4 * ((l \div 4) % 2) + 8 * ((l \div 8) % 2) = l
  OBVIOUS
<1>4. (h % 2) + 2 * ((h \div 2) % 2) + 4 * ((h \div 4) % 2) + 8 * ((h \div 8) % 2) = h
  OBVIOUS
<1>5. /\ s[1] = l % 2 /\ s[2] = (l \div 2) % 2 /\ s[3] = (l \div 4) % 2 /\ s[4] = (l \div 8) % 2
      /\ s[5] = h % 2 /\ s[6] = (h \div 2) % 2 /\ s[7] = (h \div 4) % 2 /\ s[8] = (h \div 8) % 2
  BY <1>2 DEF Bits
<1>6. /\ s[1] \in Int /\ s[2] \in Int /\ s[3] \in Int /\ s[4] \in Int
      /\ s[5] \in Int /\ s[6] \in Int /\ s[7] \in Int /\ s[8] \in Int
  BY <1>5
<1>7. s[1] + 2 * s[2] + 4 * s[3] + 8 * s[4] = l /\ s[5] + 2 * s[6] + 4 * s[7] + 8 * s[8] = h
  BY <1>3, <1>4, <1>5
<1>. QED BY <1>2, <1>6, <1>7 DEF FromBits

LEMMA ByteScanned ==
  ASSUME NEW K \in Seq(Hexits), Len(K) = 78, NEW digits, Turned(K, digits, 26), NEW b \in 0 .. 38,
         NEW x \in Byte, HasByte(K, 2 * b + 1, x)
  PROVE  QR!ByteAt(digits, b) = x
<1> DEFINE s == [j \in 1 .. 8 |-> QR!Bit(digits, 8 * b + 8 - j)]
<1>1. ValueAt(K, 2 * b + 1) = x \div 16 /\ ValueAt(K, 2 * b + 2) = x % 16
  <2>1. 2 * b + 1 + 1 = 2 * b + 2
    OBVIOUS
  <2>. QED BY <2>1, ByteValue
<1>2. \A j \in 1 .. 8 : s[j] = Bits(ValueAt(K, (8 * b + 8 - j) \div 4 + 1))[4 - ((8 * b + 8 - j) % 4)]
  <2> SUFFICES ASSUME NEW j \in 1 .. 8
               PROVE  s[j] = Bits(ValueAt(K, (8 * b + 8 - j) \div 4 + 1))[4 - ((8 * b + 8 - j) % 4)]
    OBVIOUS
  <2> DEFINE k == 8 * b + 8 - j
  <2>1. k \in 0 .. 311
    OBVIOUS
  <2> HIDE DEF k, s
  <2>2. SameBit(K, digits, k)
    BY <2>1, ScanBitIs
  <2>. QED BY <2>2 DEF k, s, SameBit
<1>3. \A j \in 1 .. 4 : (8 * b + 8 - j) \div 4 + 1 = 2 * b + 2 /\ 4 - ((8 * b + 8 - j) % 4) = j
  OBVIOUS
<1>4. \A j \in 5 .. 8 : (8 * b + 8 - j) \div 4 + 1 = 2 * b + 1 /\ 4 - ((8 * b + 8 - j) % 4) = j - 4
  OBVIOUS
<1> HIDE DEF s
<1>5. \A j \in 1 .. 4 : s[j] = Bits(x % 16)[j]
  <2> SUFFICES ASSUME NEW j \in 1 .. 4 PROVE s[j] = Bits(x % 16)[j]
    OBVIOUS
  <2>1. j \in 1 .. 8
    OBVIOUS
  <2>2. s[j] = Bits(ValueAt(K, (8 * b + 8 - j) \div 4 + 1))[4 - ((8 * b + 8 - j) % 4)]
    BY <1>2, <2>1
  <2>3. (8 * b + 8 - j) \div 4 + 1 = 2 * b + 2 /\ 4 - ((8 * b + 8 - j) % 4) = j
    BY <1>3
  <2>. QED BY <1>1, <2>2, <2>3
<1>6. \A j \in 5 .. 8 : s[j] = Bits(x \div 16)[j - 4]
  <2> SUFFICES ASSUME NEW j \in 5 .. 8 PROVE s[j] = Bits(x \div 16)[j - 4]
    OBVIOUS
  <2>1. j \in 1 .. 8
    OBVIOUS
  <2>2. s[j] = Bits(ValueAt(K, (8 * b + 8 - j) \div 4 + 1))[4 - ((8 * b + 8 - j) % 4)]
    BY <1>2, <2>1
  <2>3. (8 * b + 8 - j) \div 4 + 1 = 2 * b + 1 /\ 4 - ((8 * b + 8 - j) % 4) = j - 4
    BY <1>4
  <2>. QED BY <1>1, <2>2, <2>3
<1>7. /\ s[1] = Bits(x % 16)[1] /\ s[2] = Bits(x % 16)[2] /\ s[3] = Bits(x % 16)[3] /\ s[4] = Bits(x % 16)[4]
  BY <1>5
<1>8. /\ s[5] = Bits(x \div 16)[1] /\ s[6] = Bits(x \div 16)[2] /\ s[7] = Bits(x \div 16)[3] /\ s[8] = Bits(x \div 16)[4]
  <2>1. 5 - 4 = 1 /\ 6 - 4 = 2 /\ 7 - 4 = 3 /\ 8 - 4 = 4
    OBVIOUS
  <2>. QED BY <1>6, <2>1
<1>10. FromBits(s) = x
  BY <1>7, <1>8, FromHalves
<1>. QED BY <1>10 DEF QR!ByteAt, s, QR!FromBits, FromBits

QrInv ==
  /\ ssm \in Devices /\ qr_n \in 0 .. 78 /\ qr_n % 3 = 0
  /\ Turned(QR!KeyText(ssm), qr, qr_n \div 3)

LEMMA QrInductive ==
  ASSUME QR!DevicesAssumption
  PROVE  /\ QR!Init => QrInv
         /\ QrInv /\ [QR!Next]_QR!vars => QrInv'
         /\ QrInv => QR!ScansBack
<1>1. QR!Init => QrInv
  BY DEF QR!Init, QrInv, Turned
<1>2. QrInv /\ [QR!Next]_(QR!vars) => QrInv'
  <2> SUFFICES ASSUME QrInv, [QR!Next]_(QR!vars) PROVE QrInv'
    OBVIOUS
  <2> DEFINE K == QR!KeyText(ssm)
  <2>1. SlotTyped(ssm)
    BY SlotTypes DEF QrInv
  <2>2. K \in Seq(Hexits) /\ Len(K) = 78
    BY <2>1, TextHolds
  <2>3. CASE QR!ThreeDigits
    <3> DEFINE m == qr_n \div 3
               v == 256 * ValueAt(K, 3 * m + 1) + 16 * ValueAt(K, 3 * m + 2) + ValueAt(K, 3 * m + 3)
    <3>1. m \in 0 .. 25 /\ qr_n = 3 * m /\ qr_n' = 3 * (m + 1) /\ qr_n' \in 0 .. 78 /\ qr_n' \div 3 = m + 1 /\ qr_n' % 3 = 0 /\ ssm' = ssm
      BY <2>3 DEF QrInv, QR!ThreeDigits
    <3>2. qr' = qr \o <<v \div 64, v % 64>>
      BY <2>3, <3>1 DEF QR!ThreeDigits, ValueAt
    <3>3. v \in Nat /\ v \div 64 \in 0 .. 63 /\ v % 64 \in 0 .. 63
      <4>1. 3 * m + 1 \in 1 .. 78 /\ 3 * m + 2 \in 1 .. 78 /\ 3 * m + 3 \in 1 .. 78
        BY <3>1
      <4>2. ValueAt(K, 3 * m + 1) \in 0 .. 15 /\ ValueAt(K, 3 * m + 2) \in 0 .. 15 /\ ValueAt(K, 3 * m + 3) \in 0 .. 15
        BY <2>2, <4>1, ValueTyped
      <4> DEFINE x == ValueAt(K, 3 * m + 1)
                 o == ValueAt(K, 3 * m + 2)
                 z == ValueAt(K, 3 * m + 3)
      <4>3. x \in 0 .. 15 /\ o \in 0 .. 15 /\ z \in 0 .. 15
        BY <4>2
      <4> HIDE DEF x, o, z
      <4>4. /\ 256 * x + 16 * o + z \in Nat /\ (256 * x + 16 * o + z) \div 64 \in 0 .. 63
            /\ (256 * x + 16 * o + z) % 64 \in 0 .. 63
        BY <4>3
      <4>. QED BY <4>4 DEF x, o, z
    <3>4. /\ qr \in Seq(0 .. 63) /\ Len(qr) = 2 * m
          /\ \A t \in 0 .. m - 1 :
               LET w == 256 * ValueAt(K, 3 * t + 1) + 16 * ValueAt(K, 3 * t + 2) + ValueAt(K, 3 * t + 3)
               IN  qr[2 * t + 1] = w \div 64 /\ qr[2 * t + 2] = w % 64
      BY DEF QrInv, Turned
    <3>5. ssm' \in Devices /\ qr_n' \in 0 .. 78 /\ qr_n' % 3 = 0
      BY <3>1 DEF QrInv
    <3> HIDE DEF K, m
    <3>6. /\ qr' \in Seq(0 .. 63) /\ Len(qr') = 2 * (m + 1)
          /\ qr'[2 * m + 1] = v \div 64 /\ qr'[2 * m + 2] = v % 64
          /\ \A p \in 1 .. 2 * m : qr'[p] = qr[p]
      <4> DEFINE x == v \div 64
                 o == v % 64
      <4>1. x \in 0 .. 63 /\ o \in 0 .. 63 /\ qr' = qr \o <<x, o>> /\ qr \in Seq(0 .. 63) /\ Len(qr) = 2 * m /\ m \in Nat
        BY <3>1, <3>2, <3>3, <3>4
      <4> HIDE DEF x, o
      <4>2. /\ qr' \in Seq(0 .. 63) /\ Len(qr') = 2 * m + 2
            /\ qr'[2 * m + 1] = x /\ qr'[2 * m + 2] = o
            /\ \A p \in 1 .. 2 * m : qr'[p] = qr[p]
        <5>1. x \in 0 .. 63 /\ o \in 0 .. 63 /\ qr \in Seq(0 .. 63)
          BY <4>1
        <5>2. IsTwoBehind(0 .. 63, qr, x, o, qr')
          BY <4>1, <5>1, TwoBehind
        <5>. QED BY <4>1, <5>2 DEF IsTwoBehind
      <4>. QED BY <4>1, <4>2 DEF x, o
    <3>7. Turned(K, qr', m + 1)
      <4> SUFFICES ASSUME NEW t \in 0 .. m
                   PROVE  LET w == 256 * ValueAt(K, 3 * t + 1) + 16 * ValueAt(K, 3 * t + 2) + ValueAt(K, 3 * t + 3)
                          IN  qr'[2 * t + 1] = w \div 64 /\ qr'[2 * t + 2] = w % 64
        BY <3>1, <3>6 DEF Turned
      <4>1. CASE t = m
        BY <3>6, <4>1
      <4>2. CASE t \in 0 .. m - 1
        <5>1. 2 * t + 1 \in 1 .. 2 * m /\ 2 * t + 2 \in 1 .. 2 * m
          BY <3>1, <4>2
        <5>2. LET w == 256 * ValueAt(K, 3 * t + 1) + 16 * ValueAt(K, 3 * t + 2) + ValueAt(K, 3 * t + 3)
              IN  qr[2 * t + 1] = w \div 64 /\ qr[2 * t + 2] = w % 64
          BY <3>4, <4>2
        <5>3. qr'[2 * t + 1] = qr[2 * t + 1] /\ qr'[2 * t + 2] = qr[2 * t + 2]
          BY <3>6, <5>1
        <5>. QED BY <5>2, <5>3
      <4>. QED BY <3>1, <4>1, <4>2
    <3>8. K = QR!KeyText(ssm')
      BY <3>1 DEF K
    <3>9. Turned(QR!KeyText(ssm'), qr', qr_n' \div 3)
      BY <3>1, <3>7, <3>8
    <3>. QED BY <3>5, <3>9 DEF QrInv
  <2>4. CASE QR!Name
    BY <2>4 DEF QR!Name, QrInv
  <2>5. CASE UNCHANGED QR!vars
    BY <2>5 DEF QR!vars, QrInv
  <2>. QED BY <2>3, <2>4, <2>5 DEF QR!Next
<1>3. QrInv => QR!ScansBack
  <2> SUFFICES ASSUME QrInv, qr_n = 78 PROVE QR!ScansBack
    BY DEF QR!ScansBack
  <2> DEFINE K == QR!KeyText(ssm)
  <2>1. SlotTyped(ssm)
    BY SlotTypes DEF QrInv
  <2>2. /\ K \in Seq(Hexits) /\ Len(K) = 78
        /\ HasByte(K, 1, QR!ProductCode[ssm.product_type])
        /\ \A j \in 1 .. 16 : HasByte(K, 1 + 2 * j, ssm.device_secret[j])
        /\ \A j \in 1 .. 4 : HasByte(K, 33 + 2 * j, ssm.public_key[j])
        /\ HasByte(K, 43, 0) /\ HasByte(K, 45, 0)
        /\ \A j \in 1 .. 16 : HasByte(K, 45 + 2 * j, ssm.device_uuid[j])
    BY <2>1, TextHolds
  <2>3. Turned(K, qr, 26)
    <3>1. 78 \div 3 = 26
      OBVIOUS
    <3>. QED BY <3>1 DEF QrInv
  <2> HIDE DEF K
  <2>20. \A b \in 0 .. 38, x \in Byte : HasByte(K, 2 * b + 1, x) => QR!ByteAt(qr, b) = x
    <3> SUFFICES ASSUME NEW b \in 0 .. 38, NEW x \in Byte, HasByte(K, 2 * b + 1, x) PROVE QR!ByteAt(qr, b) = x
      OBVIOUS
    <3>1. K \in Seq(Hexits) /\ Len(K) = 78
      BY <2>2
    <3>. QED BY <2>3, <3>1, ByteScanned
  <2>4. QR!ProductCode[ssm.product_type] \in Byte
    <3>1. \A x \in {"SESAME_5", "SESAME_5_PRO", "SESAME_TOUCH_PRO", "SESAME_TOUCH"} : QR!ProductCode[x] \in Byte
      BY DEF QR!ProductCode, Byte
    <3>. QED BY <2>1, <3>1 DEF SlotTyped, QR!Products
  <2>5. QR!ByteAt(qr, 0) = QR!ProductCode[ssm.product_type]
    <3>1. 2 * 0 + 1 = 1
      OBVIOUS
    <3>2. HasByte(K, 2 * 0 + 1, QR!ProductCode[ssm.product_type])
      BY <2>2, <3>1
    <3>. QED BY <2>20, <2>4, <3>2
  <2>6. ASSUME NEW j \in 1 .. 16 PROVE QR!ByteAt(qr, j) = ssm.device_secret[j]
    <3>1. 2 * j + 1 = 1 + 2 * j /\ j \in 0 .. 38
      OBVIOUS
    <3>2. ssm.device_secret[j] \in Byte
      BY <2>1 DEF SlotTyped
    <3>3. HasByte(K, 2 * j + 1, ssm.device_secret[j])
      BY <2>2, <3>1
    <3>. QED BY <2>20, <3>1, <3>2, <3>3
  <2>7. ASSUME NEW j \in 1 .. 4 PROVE QR!ByteAt(qr, 16 + j) = ssm.public_key[j]
    <3>1. 2 * (16 + j) + 1 = 33 + 2 * j /\ 16 + j \in 0 .. 38
      OBVIOUS
    <3>2. ssm.public_key[j] \in Byte
      BY <2>1 DEF SlotTyped
    <3>3. HasByte(K, 2 * (16 + j) + 1, ssm.public_key[j])
      BY <2>2, <3>1
    <3>. QED BY <2>20, <3>1, <3>2, <3>3
  <2>8. QR!ByteAt(qr, 21) = 0 /\ QR!ByteAt(qr, 22) = 0
    <3>1. 2 * 21 + 1 = 43 /\ 2 * 22 + 1 = 45 /\ 0 \in Byte
      BY DEF Byte
    <3>2. HasByte(K, 2 * 21 + 1, 0) /\ HasByte(K, 2 * 22 + 1, 0)
      BY <2>2, <3>1
    <3>. QED BY <2>20, <3>1, <3>2
  <2>9. ASSUME NEW j \in 1 .. 16 PROVE QR!ByteAt(qr, 22 + j) = ssm.device_uuid[j]
    <3>1. 2 * (22 + j) + 1 = 45 + 2 * j /\ 22 + j \in 0 .. 38
      OBVIOUS
    <3>2. ssm.device_uuid[j] \in Byte
      BY <2>1 DEF SlotTyped
    <3>3. HasByte(K, 2 * (22 + j) + 1, ssm.device_uuid[j])
      BY <2>2, <3>1
    <3>. QED BY <2>20, <3>1, <3>2, <3>3
  <2>10. QR!Scanned(0, 1) = <<QR!ProductCode[ssm.product_type]>>
    BY <2>5 DEF QR!Scanned
  <2>11. QR!Scanned(1, 16) = ssm.device_secret
    BY <2>1, <2>6 DEF QR!Scanned, SlotTyped
  <2>12. QR!Scanned(17, 4) = SubSeq(ssm.public_key, 1, 4)
    BY <2>1, <2>7 DEF QR!Scanned, SlotTyped
  <2>13. QR!Scanned(21, 2) = <<0, 0>>
    BY <2>8 DEF QR!Scanned
  <2>14. QR!Scanned(23, 16) = ssm.device_uuid
    BY <2>1, <2>9 DEF QR!Scanned, SlotTyped
  <2>. QED BY <2>10, <2>11, <2>12, <2>13, <2>14 DEF QR!ScansBack
<1>. QED BY <1>1, <1>2, <1>3

QrRunning == running = "qr" => QrInv

\* What is scanned from the text of gen_qr_code_txt is the device, for every device.
THEOREM QrTextScansBack == AlgorithmSpec => []ScansBack
<1>1. /\ QR!Init => QrInv
      /\ QrInv /\ [QR!Next]_QR!vars => QrInv'
      /\ QrInv => QR!ScansBack
  BY QrInputs, QrInductive
<1>2. AlgorithmInit => QrRunning
  BY <1>1 DEF AlgorithmInit, QrRunning
<1>3. QrRunning /\ [AlgorithmNext]_algorithmVars => QrRunning'
  <2> SUFFICES ASSUME QrRunning, [AlgorithmNext]_algorithmVars, running' = "qr" PROVE QrInv'
    BY DEF QrRunning
  <2>1. running' = running
    BY DEF AlgorithmNext, algorithmVars
  <2>2. QrInv
    BY <2>1 DEF QrRunning
  <2>3. QR!Next \/ UNCHANGED QR!vars
    BY <2>1 DEF AlgorithmNext, algorithmVars, ofQrCode, QR!vars
  <2>. QED BY <1>1, <2>2, <2>3
<1>4. QrRunning => ScansBack
  BY <1>1 DEF QrRunning, ScansBack
<1>. QED BY <1>2, <1>3, <1>4, PTL DEF AlgorithmSpec
=============================================================================
