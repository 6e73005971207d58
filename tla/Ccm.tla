-------------------------------- MODULE Ccm ---------------------------------
(***************************************************************************)
(* c_ccm.c: authenticated encryption of a message in its buffer, and its   *)
(* decryption in the receiver's buffer, against the definition of CCM in   *)
(* NIST SP 800-38C.  The loops of ccm_auth_crypt are steps.  Between the   *)
(* two calls one byte may change.  The block cipher is external.           *)
(***************************************************************************)
EXTENDS Integers, Sequences

CONSTANTS
  Cipher(_, _),                            \* aes_ecb_encrypt(key, block)
  Xor(_, _),                               \* ^ on bytes
  Keys, Nonces, Additions, Texts, TagLens, \* the inputs
  Changes                                  \* what a byte may be changed by

BLOCK == 16
Blocks == [1 .. BLOCK -> 0 .. 255]
CcmAssumption ==
  /\ Nonces \subseteq Seq(0 .. 255) /\ Additions \subseteq Seq(0 .. 255)
  /\ Texts \subseteq {t \in Seq(0 .. 255) : Len(t) < 65536 * 256}
  /\ TagLens \subseteq Nat /\ Changes \subseteq Nat

Zeroes(n) == [i \in 1 .. n |-> 0]
Xor16(a, b) == [i \in 1 .. BLOCK |-> Xor(a[i], b[i])]
Smaller(a, b) == IF a < b THEN a ELSE b

\* memset(b, 0, 16); memcpy(b, src, use_len)
Padded(bytes) == bytes \o Zeroes(BLOCK - Len(bytes))
\* use_len bytes of a string from an offset.
Part(s, at, n) == SubSeq(s, at + 1, at + Smaller(n, Len(s) - at))

VARIABLES
  mode,                 \* CCM_ENCRYPT or CCM_DECRYPT
  pc,                   \* "start", "loop", "tag", "wire", "end"
  key, iv, add, tag_len, text,
  buf, tag,             \* input and output are one buffer; the tag sent
  y, ctr, at,           \* CBC-MAC, counter block, position
  ret, changed

vars == <<mode, pc, key, iv, add, tag_len, text, buf, tag, y, ctr, at, ret, changed>>
given == <<key, add, tag_len, text>>

Init ==
  /\ mode = "encrypt" /\ pc = "start"
  /\ key \in Keys /\ iv \in Nonces /\ add \in Additions /\ tag_len \in TagLens /\ text \in Texts
  /\ buf = text /\ tag = <<>>
  /\ y = Zeroes(BLOCK) /\ ctr = Zeroes(BLOCK) /\ at = 0
  /\ ret = "none" /\ changed = FALSE

\* n, below 2^24, as a string of k bytes, most significant first.
Power == <<1, 256, 65536>>
Bytes(n, k) == [i \in 1 .. k |-> IF k - i > 2 THEN 0 ELSE (n \div Power[k - i + 1]) % 256]

q == 16 - 1 - Len(iv)

BadInput ==
  \/ tag_len < 4 \/ tag_len > 16 \/ tag_len % 2 # 0
  \/ Len(iv) < 7 \/ Len(iv) > 13
  \/ Len(add) > 65280
  \/ q < 3 /\ Len(buf) >= Power[q + 1]

\* Mutant: the flags forget that there is additional data.
FirstUnflagged == <<8 * ((tag_len - 2) \div 2) + q - 1>> \o iv \o Bytes(Len(buf), q)

\* B_0
First == <<(IF add # <<>> THEN 64 ELSE 0) + 8 * ((tag_len - 2) \div 2) + q - 1>> \o iv \o Bytes(Len(buf), q)

\* UPDATE_CBC_MAC_1
Mac(x, b) == Cipher(key, Xor16(x, b))

\* The same for one block after the other
MacAll(x, blocks) ==
  LET mac[j \in 0 .. Len(blocks)] == IF j = 0 THEN x ELSE Mac(mac[j - 1], blocks[j]) IN mac[Len(blocks)]

\* The blocks of the additional data: its length and 14 bytes, then 16 by 16.
AddBlocks ==
  IF add = <<>> THEN <<>>
  ELSE <<Padded(Bytes(Len(add), 2) \o Part(add, 0, 14))>>
       \o [i \in 1 .. (IF Len(add) > 14 THEN (Len(add) + 1) \div 16 ELSE 0) |->
             Padded(Part(add, 14 + 16 * (i - 1), 16))]

\* The checks, the first blocks and the counter block.
Start ==
  /\ pc = "start"
  /\ \/ BadInput /\ ret' = "bad input" /\ pc' = "end" /\ UNCHANGED <<y, ctr, at>>
     \/ /\ ~BadInput /\ pc' = "loop"
        /\ y' = MacAll(Mac(Zeroes(BLOCK), First), AddBlocks)
        /\ ctr' = <<q - 1>> \o iv \o Bytes(1, q) /\ at' = 0
        /\ UNCHANGED ret
  /\ UNCHANGED <<mode, given, iv, buf, tag, changed>>

\* The counter plus one, with the carries of the loop.
Increment(c) ==
  [i \in 1 .. BLOCK |->
     IF i > BLOCK - q /\ (\A j \in i + 1 .. BLOCK : c[j] = 255) THEN (c[i] + 1) % 256 ELSE c[i]]

\* A block of the message through the key stream, and in its place in the buffer.
Crypted == LET s == Cipher(key, ctr) IN [i \in 1 .. Len(Part(buf, at, 16)) |-> Xor(buf[at + i], s[i])]
InPlace(bytes) == [i \in DOMAIN buf |-> IF i \in at + 1 .. at + Len(bytes) THEN bytes[i - at] ELSE buf[i]]

\* Mutant: the text read is authenticated whatever the mode.
MacBefore ==
  /\ pc = "loop" /\ at < Len(buf)
  /\ y' = Mac(y, Padded(Part(buf, at, 16)))
  /\ buf' = InPlace(Crypted)
  /\ at' = at + Smaller(16, Len(buf) - at) /\ ctr' = Increment(ctr)
  /\ UNCHANGED <<mode, pc, given, iv, tag, ret, changed>>

\* One turn of the message loop: src and dst are the same place.
Loop ==
  /\ pc = "loop" /\ at < Len(buf)
  /\ y' = Mac(y, Padded(IF mode = "encrypt" THEN Part(buf, at, 16) ELSE Crypted))
  /\ buf' = InPlace(Crypted)
  /\ at' = at + Smaller(16, Len(buf) - at) /\ ctr' = Increment(ctr)
  /\ UNCHANGED <<mode, pc, given, iv, tag, ret, changed>>

\* Counter 0 masks the tag.
MaskedTag ==
  LET zero == [i \in 1 .. BLOCK |-> IF i > BLOCK - q THEN 0 ELSE ctr[i]]
  IN  SubSeq(Xor16(y, Cipher(key, zero)), 1, tag_len)

\* aes_ccm_encrypt_and_tag returns; the tag lies behind the ciphertext.
EncryptEnds ==
  /\ pc = "loop" /\ at >= Len(buf) /\ mode = "encrypt"
  /\ tag' = MaskedTag /\ ret' = "0" /\ pc' = "wire"
  /\ UNCHANGED <<mode, given, iv, buf, y, ctr, at, changed>>

\* Mutant: diff = instead of diff |=.
LastByteEquals(a, b) == a[Len(a)] = b[Len(b)]

\* The comparison of the tags, which reads every byte.
TagEquals(a, b) == \A i \in DOMAIN a : a[i] = b[i]

\* aes_ccm_auth_decrypt returns: the plaintext, or zeroes.
DecryptEnds ==
  /\ pc = "loop" /\ at >= Len(buf) /\ mode = "decrypt" /\ pc' = "end"
  /\ IF TagEquals(tag, MaskedTag) THEN ret' = "0" /\ UNCHANGED buf
     ELSE ret' = "auth failed" /\ buf' = Zeroes(Len(buf))
  /\ UNCHANGED <<mode, given, iv, tag, y, ctr, at, changed>>

\* The message arrives (external): whole, or with a byte of the ciphertext, of the tag or
\* of the count in the nonce changed.
Changed(s, i, d) == [s EXCEPT ![i] = (@ + d) % 256]
Arrive ==
  /\ pc = "wire" /\ pc' = "start" /\ mode' = "decrypt" /\ ret' = "none"
  /\ \/ UNCHANGED <<buf, tag, iv, changed>>
     \/ /\ changed' = TRUE
        /\ \E d \in Changes :
             \/ \E i \in DOMAIN buf : buf' = Changed(buf, i, d) /\ UNCHANGED <<tag, iv>>
             \/ \E i \in DOMAIN tag : tag' = Changed(tag, i, d) /\ UNCHANGED <<buf, iv>>
             \/ iv' = Changed(iv, 1, d) /\ UNCHANGED <<buf, tag>>
  /\ UNCHANGED <<given, y, ctr, at>>

Next == Start \/ Loop \/ EncryptEnds \/ Arrive \/ DecryptEnds
Spec == Init /\ [][Next]_vars

-----------------------------------------------------------------------------
(* The definition: the string B of the counter-free formatting, its        *)
(* CBC-MAC, and the key stream S_0, S_1, ...                               *)

FillUp(s) == s \o Zeroes((16 - (Len(s) % 16)) % 16)
Formatted(t) ==
  <<64 * (IF Len(add) > 0 THEN 1 ELSE 0) + 4 * (tag_len - 2) + (15 - Len(iv)) - 1>> \o iv
    \o Bytes(Len(t), 15 - Len(iv))
    \o (IF add = <<>> THEN <<>> ELSE FillUp(Bytes(Len(add), 2) \o add)) \o FillUp(t)
CbcMac(s) == MacAll(Zeroes(16), [j \in 1 .. Len(s) \div 16 |-> SubSeq(s, 16 * j - 15, 16 * j)])
S(j) == Cipher(key, <<14 - Len(iv)>> \o iv \o Bytes(j, 15 - Len(iv)))
TagOf(t) == SubSeq(Xor16(CbcMac(Formatted(t)), S(0)), 1, tag_len)

-----------------------------------------------------------------------------
(* Properties.                                                             *)

\* aes_ccm_encrypt_and_tag computes it.  aes_ccm_auth_decrypt gives back what was encrypted
\* when it came as it was sent, gives nothing to which the tag received does not belong,
\* and leaves zeroes when it gives nothing.
IsCcm ==
  /\ pc = "wire" =>
       tag = TagOf(text) /\ buf = [i \in DOMAIN text |-> Xor(text[i], S((i + 15) \div 16)[((i - 1) % 16) + 1])]
  /\ pc = "end" /\ mode = "decrypt" =>
       /\ IF ret = "0" THEN tag = TagOf(buf) ELSE ret = "auth failed" /\ buf = Zeroes(Len(buf))
       /\ ~changed => ret = "0" /\ buf = text

\* For a cipher in which every byte reaches every other, a changed byte is noticed, wherever
\* it is.
ChangeNoticed == pc = "end" /\ mode = "decrypt" /\ changed => ret = "auth failed"
=============================================================================
