----------------------------- MODULE Algorithms -----------------------------
(***************************************************************************)
(* The algorithms that need no other part of the system: AES_CMAC, CCM,    *)
(* AES and the text of the QR code.  One of them runs on one input; the    *)
(* variables of the others rest.                                           *)
(***************************************************************************)
EXTENDS Integers, Sequences, Bytes

CONSTANTS
  BLOCK_SIZE, CmacCipher(_, _), CmacKeys, Messages,                          \* Cmac
  CcmCipher(_, _), CcmKeys, Nonces, Additions, Texts, TagLens, Changes,      \* Ccm
  AesKeys, AesMessages,                                                      \* Aes
  Devices                                                                    \* QrCode

VARIABLES
  running,                                    \* the algorithm
  key,                                        \* of Cmac, Ccm or Aes
  input, cmac_i, X, done,                     \* Cmac
  mode, pc, iv, add, tag_len, text, buf, tag, y, ctr, at, ret, changed,   \* Ccm
  aes, msg, state, key_copy, round, expanded, fips,                       \* Aes
  ssm, qr_n, qr, name                         \* QrCode

ofCmac == <<input, cmac_i, X, done>>
ofCcm == <<mode, pc, iv, add, tag_len, text, buf, tag, y, ctr, at, ret, changed>>
ofAes == <<aes, msg, state, key_copy, round, expanded, fips>>
ofQrCode == <<ssm, qr_n, qr, name>>
algorithmVars == <<running, key, ofCmac, ofCcm, ofAes, ofQrCode>>

CMAC == INSTANCE Cmac WITH Cipher <- CmacCipher, Keys <- CmacKeys, i <- cmac_i
CCM == INSTANCE Ccm WITH Cipher <- CcmCipher, Keys <- CcmKeys
AES == INSTANCE Aes WITH Keys <- AesKeys, Blocks <- AesMessages
QR == INSTANCE QrCode WITH n <- qr_n

ASSUME CmacInputs == CMAC!CmacAssumption
ASSUME CcmInputs == CCM!CcmAssumption
ASSUME AesInputs == AES!AesAssumption
ASSUME AesTables == AES!TablesRight
ASSUME QrInputs == QR!DevicesAssumption

-----------------------------------------------------------------------------
CmacRests == input = <<>> /\ cmac_i = 0 /\ X = <<>> /\ done = FALSE
CcmRests ==
  /\ mode = "none" /\ pc = "none" /\ iv = <<>> /\ add = <<>> /\ tag_len = 0 /\ text = <<>>
  /\ buf = <<>> /\ tag = <<>> /\ y = <<>> /\ ctr = <<>> /\ at = 0 /\ ret = "none" /\ changed = FALSE
AesRests ==
  /\ aes = "none" /\ msg = <<>> /\ state = <<>> /\ key_copy = <<>> /\ round = 0 /\ expanded = <<>> /\ fips = <<>>
QrCodeRests == ssm = "none" /\ qr_n = 0 /\ qr = <<>> /\ name = <<>>

AlgorithmInit ==
  \/ running = "cmac" /\ CMAC!Init /\ CcmRests /\ AesRests /\ QrCodeRests
  \/ running = "ccm" /\ CCM!Init /\ CmacRests /\ AesRests /\ QrCodeRests
  \/ running = "aes" /\ AES!Init /\ CmacRests /\ CcmRests /\ QrCodeRests
  \/ running = "qr" /\ QR!Init /\ key = 0 /\ CmacRests /\ CcmRests /\ AesRests

AlgorithmNext ==
  /\ UNCHANGED running
  /\ \/ running = "cmac" /\ CMAC!Next /\ UNCHANGED <<ofCcm, ofAes, ofQrCode>>
     \/ running = "ccm" /\ CCM!Next /\ UNCHANGED <<ofCmac, ofAes, ofQrCode>>
     \/ running = "aes" /\ AES!Next /\ UNCHANGED <<ofCmac, ofCcm, ofQrCode>>
     \/ running = "qr" /\ QR!Next /\ UNCHANGED <<key, ofCmac, ofCcm, ofAes>>

AlgorithmSpec == AlgorithmInit /\ [][AlgorithmNext]_algorithmVars

-----------------------------------------------------------------------------
(* The properties of the modules, for the algorithm that runs.             *)

\* AES_CMAC is CMAC, subkeys included, for messages of every length around the block boundaries.
MacIsCmac == running = "cmac" => CMAC!MacIsCmac

\* aes_ccm_encrypt_and_tag is CCM by its definition; aes_ccm_auth_decrypt gives back what it
\* was given, or gives nothing.
IsCcm == running = "ccm" => CCM!IsCcm

\* A changed byte of the ciphertext, the tag or the nonce is noticed (for a cipher that mixes).
ChangeNoticed == running = "ccm" => CCM!ChangeNoticed

\* AES_128_ENC is the cipher of FIPS 197 and AES_128_DEC its inverse.
IsAes == running = "aes" => AES!IsAes

\* What is scanned from the text of gen_qr_code_txt is the device.
ScansBack == running = "qr" => QR!ScansBack
=============================================================================
