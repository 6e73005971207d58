---------------------------- MODULE MCAlgorithms ----------------------------
(***************************************************************************)
(* TLC's instance of the pure algorithms: AES_CMAC, CCM, AES, the text of  *)
(* the QR code, the arithmetic of uECC.c for words of two sizes, and the   *)
(* keys of a registration.  One of them runs on one input; the variables   *)
(* of the others rest.                                                     *)
(***************************************************************************)
EXTENDS Algorithms, Vli, SequencesExt

VARIABLES
  bits_step,                                                              \* step of BITS
  phase, tries, retries, private, public, device, secret, point, scalar, R, bit   \* Ecdh

ofVli == <<vliVars, bits_step>>
ofEcdh == <<phase, tries, retries, private, public, device, secret, point, scalar, R, bit>>
vars == <<algorithmVars, ofVli, ofEcdh>>

-----------------------------------------------------------------------------
(* Inputs.                                                                 *)

\* For CMAC, blocks of two bytes and for each key a permutation of the blocks.
PairCipher(k, block) ==
  LET image == ((256 * block[1] + block[2]) * 8191 + 977 * k) % 65536 IN <<image \div 256, image % 256>>
PairMessages == UNION {[1 .. len -> {1, 128, 255}] : len \in 0 .. 5}

\* For CCM, for each key a permutation of the blocks: every byte reaches every other.
Pass(k, s) ==
  FoldLeft(LAMBDA out, byte : Append(out, (5 * byte + 3 * (IF out = <<>> THEN k ELSE Last(out)) + Len(out)) % 256),
           <<>>, s)
MixCipher(k, block) == Pass(k + 7, Reverse(Pass(k, block)))

\* Strings of bytes.
Count(len, start) == [j \in 1 .. len |-> (start + 29 * j) % 256]
Stride(k, len) == [j \in 1 .. len |-> (k * j + 17 * (j % 5)) % 256]

Slots ==
  {[product_type |-> p, device_secret |-> Stride(k, 16), public_key |-> Stride(k + 3, 64),
    device_uuid |-> Stride(k + 90, 16)] :
     p \in {"SESAME_5", "SESAME_5_PRO", "SESAME_TOUCH_PRO", "SESAME_TOUCH"}, k \in {0, 15, 77, 255}}

PairKeys == {3, 17, 35, 67}
MixKeys == {1, 100}
SomeNonces == {Count(7, 1), Count(13, 5)}
SomeAdditions == {<<>>, <<0>>, Count(14, 3), Count(15, 9), Count(30, 4), Count(31, 8)}
SomeTexts == {<<>>} \cup {Count(len, 11) : len \in {1, 14, 16, 17, 33}}
SomeAesKeys == {[j \in 0 .. 15 |-> (k * j + l) % 256] : k \in {1, 77}, l \in {0, 200}}
SomeAesMessages == {[j \in 0 .. 15 |-> (k * j) % 256] : k \in {0, 17, 243}}

\* Two words of four bits in bytes of two
SomeModuli == {129, 201, 255}
SomeNumbers == {(7 * k) % 256 : k \in 0 .. 40}

\* Eight words of a bit, for which curve_p is 199; the words are in the variables of Vli.
BITS == INSTANCE Vli WITH
  WORD_BITS <- 1, BYTE_BITS <- 1, num_words <- 8, Moduli <- {199}, step <- bits_step,
  Numbers <- {0, 1, 2, 5, 16, 50, 85, 127, 128, 170, 197, 198, 199, 200, 255} \cup {9 * k : k \in 0 .. 28}

\* y^2 = x^3 - 3x + 6 modulo 199 has 197 points, with the one at infinity.
ECDH == INSTANCE Ecdh WITH
  p <- 199, n <- 197, G <- <<1, 2>>, num_n_bits <- 8, MaxTries <- 2,
  KeyDraws <- 0 .. 255, ZDraws <- {0, 1, 77, 198, 199}, DeviceKeys <- {1, 2, 50, 99, 195, 196}

-----------------------------------------------------------------------------
VliRests ==
  /\ step = "none" /\ bits_step = "none" /\ left = <<>> /\ right = <<>> /\ mod = <<>> /\ product = <<>> /\ r = <<>> /\ result = <<>>
  /\ carry = 0 /\ term = 0 /\ a = <<>> /\ b = <<>> /\ u = <<>> /\ v = <<>>
EcdhRests ==
  /\ phase = "none" /\ tries = 0 /\ retries = 0 /\ private = 0 /\ public = <<>> /\ device = 0 /\ secret = 0
  /\ point = <<>> /\ scalar = 0 /\ R = <<>> /\ bit = 0
AlgorithmsRest == key = 0 /\ CmacRests /\ CcmRests /\ AesRests /\ QrCodeRests

Init ==
  \/ AlgorithmInit /\ VliRests /\ EcdhRests
  \/ running = "bits" /\ BITS!VliInit /\ step = "none" /\ AlgorithmsRest /\ EcdhRests
  \/ running = "words" /\ VliInit /\ bits_step = "none" /\ AlgorithmsRest /\ EcdhRests
  \/ running = "ecdh" /\ ECDH!Init /\ AlgorithmsRest /\ VliRests

Next ==
  \/ AlgorithmNext /\ UNCHANGED <<ofVli, ofEcdh>>
  \/ running = "bits" /\ BITS!VliNext /\ UNCHANGED <<step, algorithmVars, ofEcdh>>
  \/ running = "words" /\ VliNext /\ UNCHANGED <<bits_step, algorithmVars, ofEcdh>>
  \/ running = "ecdh" /\ ECDH!Next /\ UNCHANGED <<algorithmVars, ofVli>>

Spec == Init /\ [][Next]_vars

-----------------------------------------------------------------------------
\* On words of one bit too, where the fast reduction modulo curve_p has its eight words, the
\* operations of uECC.c are those on the numbers that the words stand for, and on a curve over
\* that curve_p uECC_make_key_lit and uECC_shared_secret_lit give the gateway and the SESAME
\* one secret.
CurveComputes ==
  /\ BITS!WordsCompute
  /\ running = "ecdh" => ECDH!SecretsAgree
=============================================================================
