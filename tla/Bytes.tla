------------------------------- MODULE Bytes --------------------------------
(***************************************************************************)
(* Bytes, their bits (the least significant first) and the exclusive or    *)
(* of C on them, bit by bit and without recursion.                         *)
(***************************************************************************)
EXTENDS Integers

Byte == 0 .. 255
Bits(b) ==
  <<b % 2, (b \div 2) % 2, (b \div 4) % 2, (b \div 8) % 2,
    (b \div 16) % 2, (b \div 32) % 2, (b \div 64) % 2, (b \div 128) % 2>>
FromBits(s) == s[1] + 2 * s[2] + 4 * s[3] + 8 * s[4] + 16 * s[5] + 32 * s[6] + 64 * s[7] + 128 * s[8]

Xor(a, b) == FromBits([j \in 1 .. 8 |-> (Bits(a)[j] + Bits(b)[j]) % 2])
=============================================================================
