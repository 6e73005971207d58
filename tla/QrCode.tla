------------------------------- MODULE QrCode -------------------------------
(***************************************************************************)
(* gen_qr_code_txt of ssm.c: the text that the SESAME app scans to add a   *)
(* device, from the slot of the device.  A byte becomes two hexadecimal    *)
(* letters, three letters become two digits of base 64 (given by their     *)
(* place in base64_table), the name goes through sprintf.                  *)
(***************************************************************************)
EXTENDS Integers, Sequences, Bytes

CONSTANTS Devices   \* slots, as far as the text needs them

Products == {"SESAME_5", "SESAME_5_PRO", "SESAME_TOUCH_PRO", "SESAME_TOUCH"}
DevicesAssumption ==
  Devices \subseteq [product_type : Products, device_secret : [1 .. 16 -> Byte],
                    public_key : [1 .. 64 -> Byte], device_uuid : [1 .. 16 -> Byte]]

Letters == <<"0", "1", "2", "3", "4", "5", "6", "7", "8", "9", "a", "b", "c", "d", "e", "f">>

\* sprintf "%02x" of the first n bytes, letter by letter.
Hex(bytes, n) ==
  [i \in 1 .. 2 * n |->
     LET b == bytes[(i + 1) \div 2] IN Letters[(IF i % 2 = 1 THEN b \div 16 ELSE b % 16) + 1]]

\* The value of a letter, in either case; of anything else, 0.
hex2dec(letter) ==
  IF \E v \in 0 .. 15 : Letters[v + 1] = letter THEN CHOOSE v \in 0 .. 15 : Letters[v + 1] = letter
  ELSE CASE letter = "A" -> 10 [] letter = "B" -> 11 [] letter = "C" -> 12
         [] letter = "D" -> 13 [] letter = "E" -> 14 [] letter = "F" -> 15 [] OTHER -> 0

ProductDigits(p) ==
  CASE p = "SESAME_5" -> <<"0", "5">> [] p = "SESAME_5_PRO" -> <<"0", "7">>
    [] p = "SESAME_TOUCH_PRO" -> <<"0", "9">> [] p = "SESAME_TOUCH" -> <<"0", "a">>

\* Mutant: the whole public key would leave no room for the uuid.
KeyOfAll(d) ==
  ProductDigits(d.product_type) \o Hex(d.device_secret, 16) \o Hex(d.public_key, 8)
    \o <<"0", "0", "0", "0">> \o Hex(d.device_uuid, 16)

\* The 78 letters of key.
KeyText(d) ==
  ProductDigits(d.product_type) \o Hex(d.device_secret, 16) \o Hex(d.public_key, 4)
    \o <<"0", "0", "0", "0">> \o Hex(d.device_uuid, 16)

\* The format string of the name, and what sprintf makes of it: "%%" is a percent
\* sign, and "%20P" is a conversion that C does not define.
NameFormat(p) ==
  CASE p = "SESAME_5" -> <<"%%", "E8", "%%", "8A", "%%", "9D", "%%", "E9", "%%", "BA", "%%", "BB", "5">>
    [] p = "SESAME_5_PRO" ->
         <<"%%", "E8", "%%", "8A", "%%", "9D", "%%", "E9", "%%", "BA", "%%", "BB", "5", "%20P", "ro">>
    [] p = "SESAME_TOUCH_PRO" -> <<"Sesame", "%%", "20", "Touch", "%%", "20", "PRO">>
    [] p = "SESAME_TOUCH" -> <<"Sesame", "%%", "20", "Touch">>
Sprintf(format) ==
  [i \in DOMAIN format |->
     CASE format[i] = "%%" -> "%" [] format[i] = "%20P" -> "undefined" [] OTHER -> format[i]]

VARIABLES ssm, n, qr, name
vars == <<ssm, n, qr, name>>

Init == ssm \in Devices /\ n = 0 /\ qr = <<>> /\ name = <<>>

\* One turn of the loop: three letters, two digits of base 64.
ThreeDigits ==
  /\ n < 78 /\ n' = n + 3
  /\ LET key == KeyText(ssm)
         v == 256 * hex2dec(key[n + 1]) + 16 * hex2dec(key[n + 2]) + hex2dec(key[n + 3])
     IN  qr' = qr \o <<v \div 64, v % 64>>
  /\ UNCHANGED <<ssm, name>>

Name ==
  /\ n = 78 /\ name = <<>>
  /\ name' = Sprintf(NameFormat(ssm.product_type))
  /\ UNCHANGED <<ssm, n, qr>>

Next == ThreeDigits \/ Name
Spec == Init /\ [][Next]_vars

-----------------------------------------------------------------------------
(* Properties.                                                             *)

\* What the app reads from the base-64 digits: their bits, cut into bytes.
Bit(digits, k) == Bits(digits[(k \div 6) + 1])[6 - (k % 6)]
ByteAt(digits, b) == FromBits([j \in 1 .. 8 |-> Bit(digits, 8 * b + 8 - j)])
Scanned(from, count) == [i \in 1 .. count |-> ByteAt(qr, from + i - 1)]

\* The text holds the device: read as base 64 it is the product, the secret, the
\* start of the public key, two zero bytes and the uuid, each in its place.
ProductCode == [SESAME_5 |-> 5, SESAME_5_PRO |-> 7, SESAME_TOUCH_PRO |-> 9, SESAME_TOUCH |-> 10]
ScansBack ==
  n = 78 =>
    /\ Scanned(0, 1) = <<ProductCode[ssm.product_type]>>
    /\ Scanned(1, 16) = ssm.device_secret
    /\ Scanned(17, 4) = SubSeq(ssm.public_key, 1, 4)
    /\ Scanned(21, 2) = <<0, 0>>
    /\ Scanned(23, 16) = ssm.device_uuid
=============================================================================
