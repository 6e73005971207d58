-------------------------------- MODULE Cmac --------------------------------
(***************************************************************************)
(* AES_CMAC of aes-cbc-cmac.c, from which the token of a session and the   *)
(* login come, against its definition in NIST SP 800-38B.  The block       *)
(* cipher is a parameter: AES is external.                                 *)
(***************************************************************************)
EXTENDS Integers, Sequences

CONSTANTS
  BLOCK_SIZE,       \* bytes in a block: 16
  Cipher(_, _),     \* AES_128_ENC(key, block)
  Xor(_, _),        \* ^ on bytes
  Keys, Messages    \* the inputs

Blocks == [1 .. BLOCK_SIZE -> 0 .. 255]
CmacAssumption ==
  /\ BLOCK_SIZE \in Nat \ {0} /\ Messages \subseteq Seq(0 .. 255)
  /\ \A k \in Keys, block \in Blocks : Cipher(k, block) \in Blocks

LAST_INDEX == BLOCK_SIZE - 1
const_Zero == [i \in 1 .. BLOCK_SIZE |-> 0]
const_Rb == [const_Zero EXCEPT ![BLOCK_SIZE] = 135]

xor_128(a, b) == [i \in 1 .. BLOCK_SIZE |-> Xor(a[i], b[i])]

\* The bit that enters byte i from the byte after it.
overflow(input, i) == IF i < BLOCK_SIZE /\ input[i + 1] >= 128 THEN 1 ELSE 0

\* leftshift_onebit
leftshift_onebit(input) ==
  [i \in 1 .. BLOCK_SIZE |-> ((2 * input[i]) % 256) + overflow(input, i)]

\* One half of generate_subkey.
double(a) ==
  IF a[1] < 128 THEN leftshift_onebit(a) ELSE xor_128(leftshift_onebit(a), const_Rb)

K1(key) == double(Cipher(key, const_Zero))
K2(key) == double(K1(key))

\* The j-th block of the input, which the last may not fill.
BlockOf(input, j) ==
  SubSeq(input, BLOCK_SIZE * j + 1, IF BLOCK_SIZE * (j + 1) < Len(input) THEN BLOCK_SIZE * (j + 1) ELSE Len(input))

\* padding
padding(lastb, length) ==
  [j \in 1 .. BLOCK_SIZE |->
     CASE j - 1 < length -> lastb[j] [] j - 1 = length -> 128 [] OTHER -> 0]

\* n of AES_CMAC
Rounds(length) == (length + LAST_INDEX) \div BLOCK_SIZE

\* Mutant: an empty input counts as a whole block.
LastOfWhole(key, input) ==
  LET n == Rounds(Len(input))
  IN  IF Len(input) % BLOCK_SIZE = 0
      THEN xor_128(IF n = 0 THEN const_Zero ELSE BlockOf(input, n - 1), K1(key))
      ELSE xor_128(padding(BlockOf(input, n - 1), Len(input) % BLOCK_SIZE), K2(key))

\* M_last
LastBlock(key, input) ==
  LET length == Len(input)
      n == Rounds(length)
  IN  IF n # 0 /\ length % BLOCK_SIZE = 0
      THEN xor_128(BlockOf(input, n - 1), K1(key))
      ELSE xor_128(padding(IF n = 0 THEN <<>> ELSE BlockOf(input, n - 1), length % BLOCK_SIZE), K2(key))

VARIABLES key, input, i, X, done
vars == <<key, input, i, X, done>>

Init ==
  /\ key \in Keys /\ input \in Messages
  /\ i = 0 /\ X = const_Zero /\ done = FALSE

\* One turn of the loop of AES_CMAC, and what follows the loop.
Round ==
  /\ ~done /\ i < Rounds(Len(input)) - 1
  /\ X' = Cipher(key, xor_128(X, BlockOf(input, i))) /\ i' = i + 1
  /\ UNCHANGED <<key, input, done>>

Final ==
  /\ ~done /\ i >= Rounds(Len(input)) - 1
  /\ X' = Cipher(key, xor_128(X, LastBlock(key, input))) /\ done' = TRUE
  /\ UNCHANGED <<key, input, i>>

Next == Round \/ Final
Spec == Init /\ [][Next]_vars

-----------------------------------------------------------------------------
(* The definition: blocks are polynomials, given by their number.          *)

Number(block) ==
  LET value[j \in 0 .. BLOCK_SIZE] == IF j = 0 THEN 0 ELSE 256 * value[j - 1] + block[j]
  IN  value[BLOCK_SIZE]
Top == LET power[j \in 0 .. BLOCK_SIZE] == IF j = 0 THEN 1 ELSE 256 * power[j - 1] IN power[BLOCK_SIZE]

\* The bit that leaves at the top comes back as 135, which is in the last byte.
Times_x(n) ==
  LET m == 2 * n - Top
  IN  IF m < 0 THEN 2 * n ELSE m - (m % 256) + Xor(m % 256, 135)

\* generate_subkey doubles in the field of SP 800-38B: each subkey is the one before,
\* starting with the enciphered zero block, times x.
SubkeysDouble ==
  /\ Number(K1(key)) = Times_x(Number(Cipher(key, const_Zero)))
  /\ Number(K2(key)) = Times_x(Number(K1(key)))

\* CMAC by its definition: whole blocks are chained, the last one is marked by the
\* first subkey when it is whole, and by a one bit, zeroes and the second when not.
Marked(k, m) ==
  IF m # <<>> /\ Len(m) % BLOCK_SIZE = 0
  THEN [j \in DOMAIN m |-> IF j > Len(m) - BLOCK_SIZE
                           THEN Xor(m[j], K1(k)[j - (Len(m) - BLOCK_SIZE)]) ELSE m[j]]
  ELSE LET whole == Len(m) - (Len(m) % BLOCK_SIZE)
           filled == m \o <<128>> \o [j \in 1 .. BLOCK_SIZE - (Len(m) % BLOCK_SIZE) - 1 |-> 0]
       IN  [j \in DOMAIN filled |-> IF j > whole THEN Xor(filled[j], K2(k)[j - whole]) ELSE filled[j]]
Chain(k, m) ==
  LET x[j \in 0 .. Len(m) \div BLOCK_SIZE] ==
        IF j = 0 THEN const_Zero ELSE Cipher(k, xor_128(x[j - 1], BlockOf(m, j - 1)))
  IN  x[Len(m) \div BLOCK_SIZE]

\* AES_CMAC computes it, with the right subkeys, for messages of every length around the block boundaries.
MacIsCmac == SubkeysDouble /\ (done => X = Chain(key, Marked(key, input)))
=============================================================================
