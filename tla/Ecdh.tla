-------------------------------- MODULE Ecdh --------------------------------
(***************************************************************************)
(* The keys of a registration: uECC_make_key_lit and uECC_shared_secret_lit*)
(* of uECC.c on a curve y^2 = x^3 - 3x + b over the integers modulo p, for *)
(* send_reg_cmd_to_ssm and handle_reg_data_from_ssm.  Points are           *)
(* multiplied by the program's ladder, one round a step.  The arithmetic   *)
(* modulo p is that of module Vli, here on the integers themselves.        *)
(***************************************************************************)
EXTENDS Integers, Sequences

CONSTANTS
  p, n, G,         \* the curve: its field, its order and its generator
  num_n_bits,            \* num_n_bits; n and p have that many
  KeyDraws, ZDraws, \* what the random number generator may give, masked to num_n_bits
  MaxTries,        \* uECC_RNG_MAX_TRIES, 64 in the program
  DeviceKeys       \* private keys of the SESAME

VARIABLES
  phase,           \* "key", "ladder", "multiplied", "sent", "answered", "done", "failed"
  tries, retries,  \* the loops of uECC_generate_random_int and of uECC_make_key_lit
  private,         \* ecc_private_esp32
  public,          \* ecc_public_esp32, as the SESAME receives it
  device,          \* the SESAME's private key
  secret,          \* ecdh_secret_ssm
  point, scalar, R, bit   \* EccPoint_mult: its inputs, (Rx, Ry) and the bit that is next

ofLadder == <<point, scalar, R, bit>>
vars == <<phase, tries, retries, private, public, device, secret, ofLadder>>

-----------------------------------------------------------------------------
(* The curve by its definition, for the properties and for the SESAME.     *)

modInv(x) == IF x % p = 0 THEN 0 ELSE CHOOSE y \in 1 .. p - 1 : (x * y) % p = 1

\* The sum of two points that is not the point at infinity.
Plus(P, Q) ==
  LET slope == IF P = Q THEN ((3 * P[1] * P[1] - 3) * modInv(2 * P[2])) % p
               ELSE ((Q[2] - P[2]) * modInv(Q[1] - P[1])) % p
      x == (slope * slope - P[1] - Q[1]) % p
  IN  <<x, (slope * (P[1] - x) - P[2]) % p>>

\* k times the generator, for k in 1 .. n - 1
Multiple(k) ==
  LET times[j \in 1 .. k] ==
        IF j = 1 THEN G
        ELSE LET half == times[j \div 2] double == Plus(half, half)
             IN  IF j % 2 = 1 THEN Plus(double, G) ELSE double
  IN  times[k]

-----------------------------------------------------------------------------
(* Points that share their z coordinate.                                   *)

apply_z(P, z) == <<(P[1] * ((z * z) % p)) % p, (P[2] * ((((z * z) % p) * z) % p)) % p>>

\* Half of a residue: the modulus is added to an odd one before the shift.
Half(x) == (IF x % 2 = 1 THEN x + p ELSE x) \div 2

\* double_jacobian_default: the double of a point and its z coordinate
double_jacobian(P, z) ==
  IF z = 0 THEN [P |-> P, z |-> z]
  ELSE LET yy == (P[2] * P[2]) % p
           A == (P[1] * yy) % p
           zz == (z * z) % p
           B == Half((3 * (((P[1] + zz) * (P[1] - zz)) % p)) % p)
           x3 == (B * B - 2 * A) % p
       IN  [P |-> <<x3, (B * (A - x3) - yy * yy) % p>>, z |-> (P[2] * z) % p]

\* <<P, 2P>> with one z coordinate
XYcZ_initial_double(P, initial_Z) ==
  LET double == double_jacobian(apply_z(P, initial_Z), initial_Z)
  IN  <<apply_z(P, double.z), double.P>>

\* <<P, P + Q>>
XYcZ_add(P, Q) ==
  LET A == ((Q[1] - P[1]) * (Q[1] - P[1])) % p
      B == (P[1] * A) % p
      C == (Q[1] * A) % p
      E == (P[2] * (C - B)) % p
      d == (Q[2] - P[2]) % p
      x3 == (d * d - B - C) % p
  IN  <<<<B, E>>, <<x3, (d * (B - x3) - E) % p>>>>

\* <<P - Q, P + Q>>
XYcZ_addC(P, Q) ==
  LET A == ((Q[1] - P[1]) * (Q[1] - P[1])) % p
      B == (P[1] * A) % p
      C == (Q[1] * A) % p
      E == (P[2] * (C - B)) % p
      d == (Q[2] - P[2]) % p
      s == (Q[2] + P[2]) % p
      x3 == (d * d - B - C) % p
      diff == (s * s - B - C) % p
  IN  <<<<diff, (s * (diff - B) - E) % p>>, <<x3, (d * (B - x3) - E) % p>>>>

-----------------------------------------------------------------------------
(* EccPoint_mult.                                                          *)

\* Mutant: n is added once, whether or not that gives the top bit.
AddedOnce(k) == (k + n) % 2 ^ num_n_bits

\* regularize_k and the choice of p2[!carry]: the multiple of the point is the same and the
\* scalar has one bit more than n, which XYcZ_initial_double stands for.
regularize_k(k) == IF k + n >= 2 ^ num_n_bits THEN (k + n) % 2 ^ num_n_bits ELSE (k + 2 * n) % 2 ^ num_n_bits

\* The ladder begins, for P, k and initial_Z.
Multiply(P, k, initial_Z) ==
  LET both == XYcZ_initial_double(P, initial_Z)
  IN  /\ phase' = "ladder" /\ point' = P /\ scalar' = regularize_k(k) /\ bit' = num_n_bits - 1
      /\ R' = [j \in {0, 1} |-> both[j + 1]]

nb == 1 - ((scalar \div 2 ^ bit) % 2)
Pair(other, this) == [j \in {0, 1} |-> IF j = nb THEN this ELSE other]

\* R[1 - nb] and R[nb] become their difference and their sum, ...
Apart == LET d == XYcZ_addC(R[1 - nb], R[nb]) IN Pair(d[1], d[2])
\* ... and then their sum follows.
Together(S) == LET d == XYcZ_add(S[nb], S[1 - nb]) IN Pair(d[2], d[1])

Round ==
  /\ phase = "ladder" /\ bit > 0
  /\ R' = Together(Apart) /\ bit' = bit - 1
  /\ UNCHANGED <<phase, tries, retries, private, public, device, secret, point, scalar>>

\* The last bit and the way back to the curve: 1 / z is known from the input's coordinates.
Last ==
  /\ phase = "ladder" /\ bit = 0 /\ phase' = "multiplied"
  /\ LET S == Apart
         z == modInv((((((S[1][1] - S[0][1]) * S[1 - nb][2]) % p) * point[1]) % p))
     IN  R' = [Together(S) EXCEPT ![0] = apply_z(@, (((z * point[2]) % p) * S[1 - nb][1]) % p)]
  /\ UNCHANGED <<tries, retries, private, public, device, secret, point, scalar, bit>>

-----------------------------------------------------------------------------
(* The two functions of the API.                                           *)

Init ==
  /\ phase = "key" /\ tries = 0 /\ retries = 0
  /\ private = 0 /\ public = <<0, 0>> /\ device = 0 /\ secret = 0
  /\ point = <<0, 0>> /\ scalar = 0 /\ R = <<>> /\ bit = 0

\* uECC_generate_random_int draws a number that is 0 or too large.
Rejected(draws, top) ==
  /\ \E k \in draws : k \notin 1 .. top - 1
  /\ tries' = tries + 1 /\ phase' = IF tries' < MaxTries THEN phase ELSE "failed"
  /\ UNCHANGED <<retries, private, public, device, secret, ofLadder>>

\* uECC_make_key_lit draws the private key and computes the public one.  When it gives up,
\* send_reg_cmd_to_ssm does not notice and sends what was in memory: that is not followed.
DrawKey ==
  /\ phase = "key"
  /\ \/ Rejected(KeyDraws, n)
     \/ /\ \E k \in KeyDraws \cap 1 .. n - 1 : private' = k /\ Multiply(G, k, 1)
        /\ tries' = 0 /\ UNCHANGED <<retries, public, device, secret>>

\* EccPoint_compute_public_key has a result: another key if it is zero.
PublicKey ==
  /\ phase = "multiplied" /\ public = <<0, 0>>
  /\ IF R[0] = <<0, 0>>
     THEN retries' = retries + 1 /\ phase' = (IF retries' < MaxTries THEN "key" ELSE "failed") /\ UNCHANGED public
     ELSE retries' = 0 /\ phase' = "sent" /\ public' = R[0]
  /\ UNCHANGED <<tries, private, device, secret, ofLadder>>

\* The SESAME answers with its public key.
Answer ==
  /\ phase = "sent" /\ phase' = "answered"
  /\ \E k \in DeviceKeys : device' = k /\ point' = Multiple(k)
  /\ UNCHANGED <<tries, retries, private, public, secret, scalar, R, bit>>

\* uECC_shared_secret_lit draws an initial z; its result is not looked at either.
DrawZ ==
  /\ phase = "answered"
  /\ \/ Rejected(ZDraws, p)
     \/ /\ \E z \in ZDraws \cap 1 .. p - 1 : Multiply(point, private, z)
        /\ tries' = 0 /\ UNCHANGED <<retries, private, public, device, secret>>

SharedSecret ==
  /\ phase = "multiplied" /\ public # <<0, 0>>
  /\ phase' = "done" /\ secret' = R[0][1]
  /\ UNCHANGED <<tries, retries, private, public, device, ofLadder>>

Next == DrawKey \/ Round \/ Last \/ PublicKey \/ Answer \/ DrawZ \/ SharedSecret

-----------------------------------------------------------------------------
\* The public key that is sent is the one of the private key, which is not one of those for
\* which the ladder fails, and the secret of handle_reg_data_from_ssm is what the SESAME
\* computes from its own private key and our public one, whatever the draws.
SecretsAgree ==
  /\ phase = "sent" => public = Multiple(private)
  /\ phase = "done" => secret = Multiple((private * device) % n)[1]
=============================================================================
