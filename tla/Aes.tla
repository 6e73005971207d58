-------------------------------- MODULE Aes --------------------------------
(***************************************************************************)
(* TI_aes_128.c, the block cipher of AES_128_ENC, with the decryption that *)
(* the same function does: a block is encrypted and decrypted again, each  *)
(* round a step.  Blocks and keys are functions on 0 .. 15, as in the      *)
(* program; column c holds bytes 4c to 4c + 3.                             *)
(***************************************************************************)
EXTENDS Integers, Sequences

CONSTANTS
  Xor(_, _),       \* ^ on bytes
  Keys, Blocks

VARIABLES
  aes,             \* "encrypt", "encrypted", "schedule", "decrypt", "decrypted"
  key, msg,        \* the arguments
  state, key_copy, \* both are changed in place
  round,
  expanded, fips   \* for the property: the words of the expanded key and the block of the standard

vars == <<aes, key, msg, state, key_copy, round, expanded, fips>>

Bytes == 0 .. 15
AesAssumption == Keys \subseteq [Bytes -> 0 .. 255] /\ Blocks \subseteq [Bytes -> 0 .. 255]

sboxes ==
  <<99, 124, 119, 123, 242, 107, 111, 197, 48, 1, 103, 43, 254, 215, 171, 118, 202, 130, 201, 125, 250, 89, 71, 240, 173, 212,
    162, 175, 156, 164, 114, 192, 183, 253, 147, 38, 54, 63, 247, 204, 52, 165, 229, 241, 113, 216, 49, 21, 4, 199, 35, 195,
    24, 150, 5, 154, 7, 18, 128, 226, 235, 39, 178, 117, 9, 131, 44, 26, 27, 110, 90, 160, 82, 59, 214, 179, 41, 227,
    47, 132, 83, 209, 0, 237, 32, 252, 177, 91, 106, 203, 190, 57, 74, 76, 88, 207, 208, 239, 170, 251, 67, 77, 51, 133,
    69, 249, 2, 127, 80, 60, 159, 168, 81, 163, 64, 143, 146, 157, 56, 245, 188, 182, 218, 33, 16, 255, 243, 210, 205, 12,
    19, 236, 95, 151, 68, 23, 196, 167, 126, 61, 100, 93, 25, 115, 96, 129, 79, 220, 34, 42, 144, 136, 70, 238, 184, 20,
    222, 94, 11, 219, 224, 50, 58, 10, 73, 6, 36, 92, 194, 211, 172, 98, 145, 149, 228, 121, 231, 200, 55, 109, 141, 213,
    78, 169, 108, 86, 244, 234, 101, 122, 174, 8, 186, 120, 37, 46, 28, 166, 180, 198, 232, 221, 116, 31, 75, 189, 139, 138,
    112, 62, 181, 102, 72, 3, 246, 14, 97, 53, 87, 185, 134, 193, 29, 158, 225, 248, 152, 17, 105, 217, 142, 148, 155, 30,
    135, 233, 206, 85, 40, 223, 140, 161, 137, 13, 191, 230, 66, 104, 65, 153, 45, 15, 176, 84, 187, 22>>
rsboxes ==
  <<82, 9, 106, 213, 48, 54, 165, 56, 191, 64, 163, 158, 129, 243, 215, 251, 124, 227, 57, 130, 155, 47, 255, 135, 52, 142,
    67, 68, 196, 222, 233, 203, 84, 123, 148, 50, 166, 194, 35, 61, 238, 76, 149, 11, 66, 250, 195, 78, 8, 46, 161, 102,
    40, 217, 36, 178, 118, 91, 162, 73, 109, 139, 209, 37, 114, 248, 246, 100, 134, 104, 152, 22, 212, 164, 92, 204, 93, 101,
    182, 146, 108, 112, 72, 80, 253, 237, 185, 218, 94, 21, 70, 87, 167, 141, 157, 132, 144, 216, 171, 0, 140, 188, 211, 10,
    247, 228, 88, 5, 184, 179, 69, 6, 208, 44, 30, 143, 202, 63, 15, 2, 193, 175, 189, 3, 1, 19, 138, 107, 58, 145,
    17, 65, 79, 103, 220, 234, 151, 242, 207, 206, 240, 180, 230, 115, 150, 172, 116, 34, 231, 173, 53, 133, 226, 249, 55, 232,
    28, 117, 223, 110, 71, 241, 26, 113, 29, 41, 197, 137, 111, 183, 98, 14, 170, 24, 190, 27, 252, 86, 62, 75, 198, 210,
    121, 32, 154, 219, 192, 254, 120, 205, 90, 244, 31, 221, 168, 51, 136, 7, 199, 49, 177, 18, 16, 89, 39, 128, 236, 95,
    96, 81, 127, 169, 25, 181, 74, 13, 45, 229, 122, 159, 147, 201, 156, 239, 160, 224, 59, 77, 174, 42, 245, 176, 200, 235,
    187, 60, 131, 83, 153, 97, 23, 43, 4, 126, 186, 119, 214, 38, 225, 105, 20, 99, 85, 33, 12, 125>>
sbox(x) == sboxes[x + 1]
rsbox(x) == rsboxes[x + 1]
Rcon == <<1, 2, 4, 8, 16, 32, 64, 128, 27, 54>>

galois_mul2(value) == IF value >= 128 THEN Xor((2 * value) % 256, 27) ELSE 2 * value

Xor4(a, b, c, d) == Xor(Xor(a, b), Xor(c, d))
Xored(a, b) == [i \in Bytes |-> Xor(a[i], b[i])]

\* The first column of the round's key, from the last one: of this key to encrypt, and of
\* the one before it to decrypt.
FirstColumn(k, i, r) == Xor(Xor(sbox(k[12 + ((i + 1) % 4)]), k[i]), IF i = 0 THEN Rcon[r + 1] ELSE 0)

\* Mutant: the last column is not rotated.
Unrotated(k, r) ==
  LET next[i \in Bytes] ==
        IF i < 4 THEN Xor(Xor(sbox(k[12 + i]), k[i]), IF i = 0 THEN Rcon[r + 1] ELSE 0) ELSE Xor(k[i], next[i - 4])
  IN  next

\* The key schedule and the inverse one
NextKey(k, r) ==
  LET next[i \in Bytes] == IF i < 4 THEN FirstColumn(k, i, r) ELSE Xor(k[i], next[i - 4]) IN next
KeyBefore(k, r) ==
  LET last == [i \in Bytes |-> IF i < 4 THEN k[i] ELSE Xor(k[i], k[i - 4])]
  IN  [i \in Bytes |-> IF i < 4 THEN FirstColumn(last, i, r) ELSE last[i]]

\* Where the byte comes from that "shift rows" puts at i, and "Inv shift rows"
Shifted == <<0, 5, 10, 15, 4, 9, 14, 3, 8, 13, 2, 7, 12, 1, 6, 11>>
InvShifted == <<0, 13, 10, 7, 4, 1, 14, 11, 8, 5, 2, 15, 12, 9, 6, 3>>

\* The mixing of the columns; c is the first byte of the column, buf1 the sum of its bytes.
Mixed(s) ==
  [i \in Bytes |->
     LET c == i - (i % 4) next == s[c + ((i + 1) % 4)]
     IN  Xor(Xor(s[i], galois_mul2(Xor(s[i], next))), Xor4(s[c], s[c + 1], s[c + 2], s[c + 3]))]
Precomputed(s) ==
  [i \in Bytes |-> Xor(s[i], galois_mul2(galois_mul2(Xor(s[i], s[i - (i % 4) + ((i + 2) % 4)]))))]

-----------------------------------------------------------------------------
(* The definition (FIPS 197), over the field of 256 elements.              *)

times(a, b) ==
  LET sum[j \in 0 .. 7] ==   \* the bits of b from the highest to bit j
        LET above == IF j = 7 THEN 0 ELSE galois_mul2(sum[j + 1])
        IN  IF (b \div (<<1, 2, 4, 8, 16, 32, 64, 128>>[j + 1])) % 2 = 1 THEN Xor(above, a) ELSE above
  IN  sum[0]

\* y is the affine transformation of the inverse of x, here transformed back.
IsSub(x, y) ==
  LET rotated(power) == ((y * power) % 256) + ((y * power) \div 256)
      z == Xor4(rotated(2), rotated(8), rotated(64), 5)
  IN  IF x = 0 THEN z = 0 ELSE times(x, z) = 1

\* The words of the key, and one more of the expanded key
Words(k) == [j \in 1 .. 4 |-> [b \in 1 .. 4 |-> k[4 * j + b - 5]]]
OneMore(w) ==
  LET last == w[Len(w)]
      RotWord == <<last[2], last[3], last[4], last[1]>>
      temp == IF Len(w) % 4 # 0 THEN last
              ELSE [b \in 1 .. 4 |-> Xor(sbox(RotWord[b]), IF b = 1 THEN Rcon[Len(w) \div 4] ELSE 0)]
  IN  Append(w, [b \in 1 .. 4 |-> Xor(w[Len(w) - 3][b], temp[b])])

RoundKey(w, r) == [i \in Bytes |-> w[4 * r + (i \div 4) + 1][(i % 4) + 1]]
ShiftRows(s) == [i \in Bytes |-> s[4 * (((i \div 4) + (i % 4)) % 4) + (i % 4)]]
MixColumns(s) ==
  [i \in Bytes |->
     LET at(j) == s[i - (i % 4) + ((i + j) % 4)]
     IN  Xor4(times(at(0), 2), times(at(1), 3), at(2), at(3))]

\* Round r of the cipher
Standard(s, w, r) ==
  LET shifted == ShiftRows([i \in Bytes |-> sbox(s[i])])
  IN  Xored(IF r < 10 THEN MixColumns(shifted) ELSE shifted, RoundKey(w, r))

-----------------------------------------------------------------------------
\* AES_128_ENC copies its arguments.
Init ==
  /\ aes = "encrypt" /\ key \in Keys /\ msg \in Blocks
  /\ state = msg /\ key_copy = key /\ round = 0
  /\ expanded = Words(key) /\ fips = Xored(msg, key)

EncryptRound ==
  /\ aes = "encrypt" /\ round < 10 /\ round' = round + 1
  /\ LET replaced == [i \in Bytes |-> sbox(Xor(state[i], key_copy[i]))]
         shifted == [i \in Bytes |-> replaced[Shifted[i + 1]]]
     IN  state' = IF round < 9 THEN Mixed(shifted) ELSE shifted
  /\ key_copy' = NextKey(key_copy, round)
  /\ expanded' = OneMore(OneMore(OneMore(OneMore(expanded))))
  /\ fips' = Standard(fips, expanded', round + 1)
  /\ UNCHANGED <<aes, key, msg>>

Encrypted ==
  /\ aes = "encrypt" /\ round = 10 /\ aes' = "encrypted"
  /\ state' = Xored(state, key_copy)
  /\ UNCHANGED <<key, msg, key_copy, round, expanded, fips>>

\* AES_128_DEC copies the key again, and aes_enc_dec computes the last round's from it.
Decrypt ==
  /\ aes = "encrypted" /\ aes' = "schedule" /\ key_copy' = key /\ round' = 0
  /\ UNCHANGED <<key, msg, state, expanded, fips>>

LastKey ==
  /\ aes = "schedule" /\ round < 10 /\ round' = round + 1 /\ key_copy' = NextKey(key_copy, round)
  /\ UNCHANGED <<aes, key, msg, state, expanded, fips>>

FirstAddroundkey ==
  /\ aes = "schedule" /\ round = 10 /\ aes' = "decrypt" /\ round' = 0
  /\ state' = Xored(state, key_copy)
  /\ UNCHANGED <<key, msg, key_copy, expanded, fips>>

DecryptRound ==
  /\ aes = "decrypt" /\ round < 10 /\ round' = round + 1
  /\ key_copy' = KeyBefore(key_copy, 9 - round)
  /\ LET mixed == IF round > 0 THEN Mixed(Precomputed(state)) ELSE state
     IN  state' = [i \in Bytes |-> Xor(rsbox(mixed[InvShifted[i + 1]]), key_copy'[i])]
  /\ UNCHANGED <<aes, key, msg, expanded, fips>>

Decrypted ==
  /\ aes = "decrypt" /\ round = 10 /\ aes' = "decrypted"
  /\ UNCHANGED <<key, msg, state, key_copy, round, expanded, fips>>

Next == EncryptRound \/ Encrypted \/ Decrypt \/ LastKey \/ FirstAddroundkey \/ DecryptRound \/ Decrypted
Spec == Init /\ [][Next]_vars

-----------------------------------------------------------------------------
\* The tables of the program are those of the definition.
TablesRight ==
  /\ \A x \in 0 .. 255 : sbox(x) \in 0 .. 255 /\ rsbox(sbox(x)) = x /\ IsSub(x, sbox(x))
  /\ Rcon[1] = 1 /\ \A r \in 1 .. 9 : Rcon[r + 1] = galois_mul2(Rcon[r])

\* AES_128_ENC is AES: its round keys, made while they are used, and its rows, shifted before
\* the next key is added, give the cipher of the standard; AES_128_DEC gives the message back
\* from the same key, whose copy is the first round's again.
IsAes ==
  /\ aes = "encrypted" => state = fips /\ key_copy = RoundKey(expanded, 10)
  /\ aes = "decrypted" => state = msg /\ key_copy = key
=============================================================================
