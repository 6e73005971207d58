--------------------------- MODULE SsmLink_proofs ---------------------------
(***************************************************************************)
(* The message layer: both sides understand each other as long as two      *)
(* messages or commands are not in b_buf at once, no segment or tag runs   *)
(* past its end even then, no nonce is used twice but where the host task  *)
(* encrypts between the encryption and the count of the MQTT task, and the *)
(* counts stay in step when nothing is lost or squeezed in.  For segments, *)
(* keys and messages of any size that fits, any number of links, commands  *)
(* of both tasks, publications and lost writes.                            *)
(*                                                                         *)
(* The invariant IInv describes the conversation as a whole: the queue of  *)
(* notifications is cut out of what the SESAME has said (OnAir), b_buf     *)
(* holds the part of it that was taken off, or the command that is written *)
(* (Received, Sending), and each count is the length of one of the         *)
(* histories (Phase, Counts, Used).                                        *)
(***************************************************************************)
EXTENDS SsmLink, SequenceTheorems, TLAPS

\* What is on the air: the queue q holds the segments of the messages w, from the k-th of
\* message a + 1 to the last; position says which of them an element of the queue is.
OnAir(q, w, a, k) ==
  \E position \in [1 .. Len(q) -> Nat \X Nat] :
    /\ \A i \in 1 .. Len(q) :
         /\ position[i][1] \in 1 .. Len(w) /\ position[i][2] \in 1 .. Len(w[position[i][1]])
         /\ q[i] = w[position[i][1]][position[i][2]]
    /\ \A i \in 1 .. Len(q) - 1 :
         position[i + 1] = IF position[i][2] < Len(w[position[i][1]])
                           THEN <<position[i][1], position[i][2] + 1>> ELSE <<position[i][1] + 1, 1>>
    /\ IF q = <<>> THEN a = Len(w) /\ k = 1
       ELSE position[1] = <<a + 1, k>> /\ position[Len(q)] = <<Len(w), Len(w[Len(w)])>>

\* The first message of a session, the SESAME's random code, and its answer to a
\* registration.
InitialOf(s) == <<Op("PUBLISH"), Item("INITIAL"), <<"code", s>>>>
RegAnswer == <<Op("RESPONSE"), Item("REGISTRATION")>> \o Fill("mech", Prefix) \o Key

\* What the SESAME says once the session is encrypted: an answer or a publication, and
\* neither a random code nor a key.
Later(x) ==
  /\ IsBytes(x) /\ Len(x) >= 2 /\ Len(x) + TagLen \in Lengths
  /\ x[2] \notin {Item("INITIAL"), Item("REGISTRATION")}

\* The messages of a session as they are sent: the first p of them are not encrypted.
Encoded(sd, p, s, m) == IF m > p THEN Encrypt(Token(s), m - p - 1, sd[m]) ELSE sd[m]
TypeOf(p, m) == IF m > p THEN "cipher" ELSE "plain"
Sent(sd, p, s) == [m \in 1 .. Len(sd) |-> Segments(Encoded(sd, p, s, m), TypeOf(p, m))]

\* How many messages of this session were not encrypted, all that the SESAME has to send
\* of it, the message that the ESP32 is about to take, and the place of its k-th segment.
Plains == Len(said) - ses.out
Wire == Sent(said, Plains, session)
NextMessage == Encoded(said, Plains, session, Len(heard) + 1)
At(k) == (k - 1) * SegSize

\* What the variables are.
Shape ==
  /\ device_status \in {SSM_DISCONNECTED, SSM_CONNECTED, SSM_LOGGIN}
  /\ pc \in {"idle", "offset", "rest", "encrypt", "count", "store", "write", "panic"}
  /\ IsBytes(b_buf) /\ Len(b_buf) = BufSize /\ c_offset \in 0 .. BufSize
  /\ encrypt \in Nat /\ decrypt \in Nat /\ loaded \in Nat /\ data \in Nat /\ remain \in Nat /\ lost \in Nat
  /\ link \in BOOLEAN /\ registered \in BOOLEAN /\ met \in BOOLEAN /\ wild \in BOOLEAN /\ overrun = FALSE
  /\ session \in 0 .. MaxSessions /\ code \in 0 .. session
  /\ IsBytes(down) /\ IsBytes(said) /\ IsBytes(heard)
  /\ IsBytes(asked) /\ IsBytes(obeyed) /\ IsBytes(nonces)
  /\ DOMAIN ses = {"sec", "in", "out", "buf"} /\ IsBytes(ses.buf)
  /\ ses.sec \in BOOLEAN /\ ses.in \in Nat /\ ses.out \in Nat

\* The secret is the SESAME's key, the token that of the last random code, and only who
\* has both encrypts.
Secret ==
  /\ device_secret \in {<<>>, Key}
  /\ token = IF device_secret = <<>> THEN <<>> ELSE Token(code)
  /\ device_status = SSM_LOGGIN \/ pc # "idle" => device_secret = Key
  /\ device_secret = <<>> => nonces = <<>>

\* The count that the MQTT task leaves behind, and the nonces of the session, of counts
\* below it but for those that were squeezed in.
NextCount == IF pc = "store" THEN loaded + 1 ELSE IF pc = "count" THEN encrypt + 1 ELSE encrypt
Used ==
  \A i \in 1 .. Len(nonces) :
    /\ nonces[i].squeezed \in BOOLEAN
    /\ \E s \in 0 .. code, n \in Nat :
         /\ nonces[i].nonce = <<Token(s), n>>
         /\ s = code /\ ~nonces[i].squeezed /\ pc # "panic" => n < NextCount

\* NonceOnce over the indices of the history.
Once ==
  \A i, j \in 1 .. Len(nonces) :
    i # j /\ nonces[i].nonce = nonces[j].nonce => nonces[i].squeezed \/ nonces[j].squeezed

\* Without a link nothing is on the air and the SESAME has forgotten the session.
Away == ~link => down = <<>> /\ ses = NoSes /\ device_status = SSM_DISCONNECTED

\* What a session begins with: the random code, and the answer to a registration if there
\* was one; everything after it is encrypted.
Messages ==
  link =>
    /\ Plains \in {1, 2} /\ Len(said) >= Plains
    /\ said[1] = InitialOf(session) /\ (Plains = 2 => said[2] = RegAnswer)
    /\ \A m \in 1 .. Len(said) : m > Plains => Later(said[m])

\* How far a session has come: the SESAME's count is positive when it has accepted a
\* login, its first message resets the ESP32's, and until its messages in the clear are
\* taken the MQTT task has nothing to send.
Phase ==
  link =>
    /\ ses.sec <=> ses.out > 0
    /\ ses.sec => device_secret = Key
    /\ heard = <<>> => /\ code < session /\ Plains = 1 /\ ses.in = 0
    /\ heard # <<>> => code = session /\ decrypt = IF Len(heard) >= Plains THEN Len(heard) - Plains ELSE 0
    /\ Len(heard) < Plains =>
         pc = "idle" /\ device_status = SSM_CONNECTED /\ ~ses.sec /\ (Plains = 2 => registered)

\* The segments before the k-th of the next message are in b_buf, unless a command came
\* between; c_offset has grown from where that command left it.
Received(k) ==
  /\ k > 1 /\ (Len(heard) < Plains \/ ~met) =>
       /\ pc = "idle" /\ c_offset = At(k)
       /\ \A i \in 1 .. At(k) : b_buf[i] = NextMessage[i]
  /\ k > 1 => \E n \in Starts :
       c_offset <= n + At(k - 1) + (IF pc \in {"rest", "encrypt", "count", "store"} THEN 0 ELSE TagLen)

\* The notifications not yet handled are the rest of what the SESAME said.
Stream ==
  link => \E k \in Nat : OnAir(down, Wire, Len(heard), k) /\ Received(k)

\* What was parsed is a part of what was said, its beginning unless met.
Heard ==
  /\ Len(heard) <= Len(said)
  /\ ~met => ~wild /\ \A m \in 1 .. Len(heard) : heard[m] = said[m]

\* The command's ciphertext under the count i, and where a command is in b_buf at each
\* step of the MQTT task.
Cell(i) == Encrypt(token, i, Plain(todo))
Sending ==
  /\ pc \notin {"idle", "panic"} => todo \in Commands
  /\ pc \in {"rest", "encrypt", "count", "store"} => c_offset + TagLen <= BufSize
  /\ pc = "write" => data + remain <= BufSize
  /\ ~met =>
     /\ pc # "idle" => Len(asked) > 0
     /\ pc \notin {"idle", "panic"} => asked[Len(asked)] = Plain(todo)
     /\ pc \in {"offset", "rest"} => \A i \in 1 .. Len(todo.head) : b_buf[i] = todo.head[i]
     /\ pc \in {"rest", "encrypt", "count", "store"} => c_offset = Len(Plain(todo))
     /\ pc = "encrypt" => \A i \in 1 .. Len(Plain(todo)) : b_buf[i] = Plain(todo)[i]
     /\ pc \in {"count", "store"} => \A i \in 1 .. Len(Plain(todo)) + TagLen : b_buf[i] = Cell(encrypt)[i]
     /\ pc = "store" => loaded = encrypt
     /\ pc = "write" =>
          /\ encrypt > 0 /\ data + remain = Len(Plain(todo)) + TagLen /\ remain > 0
          /\ \A i \in 1 .. Len(Plain(todo)) + TagLen : b_buf[i] = Cell(encrypt - 1)[i]

\* Unless met, the SESAME obeys commands that were asked, each once and in order; the one
\* that is being written is not obeyed yet.
Obeyed ==
  ~met =>
    /\ \A i \in 1 .. Len(obeyed) :
         /\ obeyed[i][1] \in 1 .. Len(asked)
         /\ pc # "idle" => obeyed[i][1] < Len(asked)
         /\ obeyed[i][2] = asked[obeyed[i][1]]
    /\ \A i, j \in 1 .. Len(obeyed) : i < j => obeyed[i][1] < obeyed[j][1]

\* The count of the ESP32 is that of the SESAME, but for the command that is being
\* written, and for what was squeezed in.
SqueezedIn == \E i \in 1 .. Len(nonces) : nonces[i].squeezed /\ nonces[i].nonce[1] = token
Counts ==
  link /\ lost = 0 /\ heard # <<>> /\ ~SqueezedIn /\ pc # "panic" =>
    /\ encrypt = ses.in + (IF pc = "write" THEN 1 ELSE 0)
    /\ pc = "store" => loaded = encrypt

IInv ==
  /\ Shape /\ Secret /\ Used /\ Once /\ Away /\ Messages /\ Phase /\ Stream /\ Heard
  /\ Sending /\ Obeyed /\ Counts

-----------------------------------------------------------------------------
(* Sequences, as functions over 1 .. n.                                    *)

\* A value that IsBytes is a sequence, and the other way round.
LEMMA AsSeq ==
  ASSUME NEW s, IsBytes(s)
  PROVE  /\ s \in Seq({s[i] : i \in 1 .. Len(s)}) /\ DOMAIN s = 1 .. Len(s) /\ Len(s) \in Nat
<1> DEFINE T == {s[i] : i \in 1 .. Len(s)}
<1>1. Len(s) \in Nat /\ s = [i \in 1 .. Len(s) |-> s[i]]
  BY DEF IsBytes
<1>2. \A i \in 1 .. Len(s) : s[i] \in T
  OBVIOUS
<1>3. s \in [1 .. Len(s) -> T]
  BY <1>1, <1>2
<1> QED BY <1>1, <1>3, SeqDef

\* A sequence is a function over the numbers up to its length.
LEMMA SeqIs ==
  ASSUME NEW T, NEW s \in Seq(T)
  PROVE  IsBytes(s)
BY LenProperties DEF IsBytes

\* A function over 1 .. n is a sequence of n elements.
LEMMA FnIs ==
  ASSUME NEW n \in Nat, NEW s, s = [i \in 1 .. n |-> s[i]]
  PROVE  IsBytes(s) /\ Len(s) = n
BY DEF IsBytes

\* Append and concatenation, element by element.
LEMMA AppendIs ==
  ASSUME NEW s, NEW x, IsBytes(s)
  PROVE  /\ IsBytes(Append(s, x)) /\ Len(Append(s, x)) = Len(s) + 1
         /\ \A i \in 1 .. Len(s) : Append(s, x)[i] = s[i]
         /\ Append(s, x)[Len(s) + 1] = x
<1> DEFINE T == {s[i] : i \in 1 .. Len(s)} \cup {x}
<1>0. {s[i] : i \in 1 .. Len(s)} \subseteq T /\ x \in T
  OBVIOUS
<1>1. s \in Seq({s[i] : i \in 1 .. Len(s)})
  BY AsSeq
<1> HIDE DEF T
<1>2. s \in Seq(T)
  BY <1>0, <1>1, SeqMonotonic
<1>3. IsBytes(Append(s, x))
  BY <1>0, <1>2, AppendProperties, SeqIs
<1> QED BY <1>0, <1>2, <1>3, AppendProperties

\* Two sequences, one behind the other, element by element.
LEMMA ConcatIs ==
  ASSUME NEW s, NEW t, IsBytes(s), IsBytes(t)
  PROVE  /\ IsBytes(s \o t) /\ Len(s \o t) = Len(s) + Len(t)
         /\ \A i \in 1 .. Len(s) : (s \o t)[i] = s[i]
         /\ \A i \in 1 .. Len(t) : (s \o t)[Len(s) + i] = t[i]
<1> DEFINE T == {s[i] : i \in 1 .. Len(s)} \cup {t[i] : i \in 1 .. Len(t)}
<1>0. {s[i] : i \in 1 .. Len(s)} \subseteq T /\ {t[i] : i \in 1 .. Len(t)} \subseteq T
  OBVIOUS
<1>1. s \in Seq({s[i] : i \in 1 .. Len(s)}) /\ t \in Seq({t[i] : i \in 1 .. Len(t)})
  BY AsSeq
<1> HIDE DEF T
<1>2. s \in Seq(T) /\ t \in Seq(T)
  BY <1>0, <1>1, SeqMonotonic
<1>3. Len(s) \in Nat /\ Len(t) \in Nat
  BY AsSeq
<1>4. /\ s \o t \in Seq(T) /\ Len(s \o t) = Len(s) + Len(t)
      /\ \A i \in 1 .. Len(s) + Len(t) : (s \o t)[i] = IF i <= Len(s) THEN s[i] ELSE t[i - Len(s)]
  BY <1>2, ConcatProperties
<1>5. \A i \in 1 .. Len(t) : Len(s) + i \in 1 .. Len(s) + Len(t) /\ ~(Len(s) + i <= Len(s)) /\ Len(s) + i - Len(s) = i
  BY <1>3
<1>6. \A i \in 1 .. Len(t) : (s \o t)[Len(s) + i] = t[i]
  BY <1>4, <1>5
<1>7. \A i \in 1 .. Len(s) : (s \o t)[i] = s[i]
  BY <1>3, <1>4
<1> QED BY <1>4, <1>6, <1>7, SeqIs

\* The same, of a name for the whole.
LEMMA ConcatTo ==
  ASSUME NEW s, NEW t, NEW x, x = s \o t, IsBytes(s), IsBytes(t)
  PROVE  /\ IsBytes(x) /\ Len(x) = Len(s) + Len(t)
         /\ \A i \in 1 .. Len(s) : x[i] = s[i]
         /\ \A i \in 1 .. Len(t) : x[Len(s) + i] = t[i]
BY ConcatIs

\* SubSeq and Tail, element by element.
LEMMA SubSeqIs ==
  ASSUME NEW s, NEW m \in Nat, NEW n \in Nat, m <= n + 1
  PROVE  /\ IsBytes(SubSeq(s, m, n)) /\ Len(SubSeq(s, m, n)) = n + 1 - m
         /\ \A i \in 1 .. n + 1 - m : SubSeq(s, m, n)[i] = s[m + i - 1]
<1> DEFINE T == {s[i] : i \in m .. n}
<1>1. \A i \in m .. n : s[i] \in T
  OBVIOUS
<1> HIDE DEF T
<1>2. SubSeq(s, m, n) \in Seq(T)
  BY <1>1, SubSeqProperties
<1>3. /\ Len(SubSeq(s, m, n)) = IF m <= n THEN n - m + 1 ELSE 0
      /\ \A i \in 1 .. n - m + 1 : SubSeq(s, m, n)[i] = s[m + i - 1]
  BY <1>1, SubSeqProperties
<1>4. IsBytes(SubSeq(s, m, n))
  BY <1>2, SeqIs
<1> QED BY <1>3, <1>4

\* The first element and the rest.
LEMMA TailIs ==
  ASSUME NEW s, IsBytes(s), s # <<>>
  PROVE  /\ IsBytes(Tail(s)) /\ Len(Tail(s)) = Len(s) - 1 /\ Len(s) \in Nat \ {0}
         /\ \A i \in 1 .. Len(s) - 1 : Tail(s)[i] = s[i + 1]
         /\ Head(s) = s[1]
<1> DEFINE T == {s[i] : i \in 1 .. Len(s)}
<1>1. s \in Seq(T)
  BY AsSeq
<1> HIDE DEF T
<1>2. IsBytes(Tail(s)) /\ Len(Tail(s)) = Len(s) - 1 /\ Len(s) \in Nat \ {0}
  BY <1>1, HeadTailProperties, SeqIs, EmptySeq
<1>3. \A i \in 1 .. Len(s) - 1 : Tail(s)[i] = s[i + 1]
  BY <1>1, <1>2, HeadTailProperties
<1> QED BY <1>2, <1>3

\* Sequences are equal when their elements are.
LEMMA SameBytes ==
  ASSUME NEW s, NEW t, IsBytes(s), IsBytes(t), Len(s) = Len(t),
         \A i \in 1 .. Len(s) : s[i] = t[i]
  PROVE  s = t
BY DEF IsBytes

\* The empty sequence is the one without elements.
LEMMA NoBytes == IsBytes(<<>>) /\ Len(<<>>) = 0 /\ \A s : IsBytes(s) => (s = <<>> <=> Len(s) = 0)
BY AsSeq, EmptySeq, SeqIs

\* The minimum of two numbers.
LEMMA MinOf == ASSUME NEW a \in Nat, NEW b \in Nat PROVE Min({a, b}) = IF a <= b THEN a ELSE b
<1> DEFINE m == IF a <= b THEN a ELSE b
<1>1. m \in {a, b} /\ \A y \in {a, b} : m <= y
  OBVIOUS
<1>2. \A z \in {a, b} : (\A y \in {a, b} : z <= y) => z = m
  OBVIOUS
<1> QED BY <1>1, <1>2 DEF Min

-----------------------------------------------------------------------------
(* What is on the air.                                                     *)

\* The head of the queue is the next segment of the next message.
LEMMA AirHead ==
  ASSUME NEW q, NEW w, NEW a \in Nat, NEW k \in Nat, IsBytes(q), IsBytes(w), q # <<>>, OnAir(q, w, a, k)
  PROVE  a + 1 \in 1 .. Len(w) /\ k \in 1 .. Len(w[a + 1]) /\ Head(q) = w[a + 1][k]
<1>1. Len(q) \in Nat \ {0} /\ Head(q) = q[1]
  BY TailIs
<1> QED BY SMTT(30), <1>1 DEF OnAir

\* Without its head the queue begins with the segment behind it, or the next message.
LEMMA AirTail ==
  ASSUME NEW q, NEW w, NEW a \in Nat, NEW k \in Nat, IsBytes(q), IsBytes(w), q # <<>>, OnAir(q, w, a, k),
         \A m \in 1 .. Len(w) : Len(w[m]) \in Nat \ {0}
  PROVE  IF k < Len(w[a + 1]) THEN OnAir(Tail(q), w, a, k + 1) ELSE OnAir(Tail(q), w, a + 1, 1)
<1> DEFINE r == Tail(q)
<1>1. /\ IsBytes(r) /\ Len(r) = Len(q) - 1 /\ Len(q) \in Nat \ {0} /\ Len(r) \in Nat /\ Len(w) \in Nat
      /\ \A i \in 1 .. Len(r) : r[i] = q[i + 1]
  <2>1. IsBytes(r) /\ Len(r) = Len(q) - 1 /\ Len(q) \in Nat \ {0} /\ \A i \in 1 .. Len(q) - 1 : r[i] = q[i + 1]
    BY TailIs
  <2> HIDE DEF r
  <2> QED BY <2>1 DEF IsBytes
<1>e. r = <<>> <=> Len(r) = 0
  BY <1>1, NoBytes
<1> HIDE DEF r
<1>2. PICK p \in [1 .. Len(q) -> Nat \X Nat] :
        /\ \A i \in 1 .. Len(q) :
             /\ p[i][1] \in 1 .. Len(w) /\ p[i][2] \in 1 .. Len(w[p[i][1]])
             /\ q[i] = w[p[i][1]][p[i][2]]
        /\ \A i \in 1 .. Len(q) - 1 :
             p[i + 1] = IF p[i][2] < Len(w[p[i][1]]) THEN <<p[i][1], p[i][2] + 1>> ELSE <<p[i][1] + 1, 1>>
        /\ p[1] = <<a + 1, k>> /\ p[Len(q)] = <<Len(w), Len(w[Len(w)])>>
  BY DEF OnAir
<1> DEFINE p1 == [i \in 1 .. Len(r) |-> p[i + 1]]
<1>3. p1 \in [1 .. Len(r) -> Nat \X Nat]
  BY <1>1
<1>4. \A i \in 1 .. Len(r) : p1[i] = p[i + 1] /\ i + 1 \in 1 .. Len(q)
  BY <1>1
<1>p. p1 = [i \in 1 .. Len(r) |-> p[i + 1]]
  OBVIOUS
<1> HIDE DEF p1
<1>5. \A i \in 1 .. Len(r) : /\ p1[i][1] \in 1 .. Len(w) /\ p1[i][2] \in 1 .. Len(w[p1[i][1]])
                             /\ r[i] = w[p1[i][1]][p1[i][2]]
  BY SMTT(30), <1>1, <1>2, <1>4
<1>6. \A i \in 1 .. Len(r) - 1 :
        p1[i + 1] = IF p1[i][2] < Len(w[p1[i][1]]) THEN <<p1[i][1], p1[i][2] + 1>> ELSE <<p1[i][1] + 1, 1>>
  <2> TAKE i \in 1 .. Len(r) - 1
  <2>1. i \in 1 .. Len(r) /\ i + 1 \in 1 .. Len(r) /\ i + 1 \in 1 .. Len(q) - 1
    BY <1>1
  <2> QED BY <2>1, <1>2, <1>4
<1>7. Len(r) > 0 => /\ p1[Len(r)] = <<Len(w), Len(w[Len(w)])>>
                    /\ p1[1] = IF k < Len(w[a + 1]) THEN <<a + 1, k + 1>> ELSE <<a + 2, 1>>
  <2> SUFFICES ASSUME Len(r) > 0 PROVE /\ p1[Len(r)] = <<Len(w), Len(w[Len(w)])>>
                    /\ p1[1] = IF k < Len(w[a + 1]) THEN <<a + 1, k + 1>> ELSE <<a + 2, 1>>
    OBVIOUS
  <2>1. 1 \in 1 .. Len(q) - 1 /\ 1 \in 1 .. Len(r) /\ Len(r) \in 1 .. Len(r) /\ Len(r) + 1 = Len(q) /\ 1 + 1 = 2
    BY <1>1
  <2>2. p1[1] = p[2] /\ p1[Len(r)] = p[Len(q)]
    BY <2>1, <1>4
  <2>3. p[2] = IF p[1][2] < Len(w[p[1][1]]) THEN <<p[1][1], p[1][2] + 1>> ELSE <<p[1][1] + 1, 1>>
    BY <2>1, <1>2
  <2> QED BY <2>2, <2>3, <1>2
<1>8. Len(r) = 0 => ~(k < Len(w[a + 1])) /\ a + 1 = Len(w)
  BY SMTT(30), <1>1, <1>2
<1>9. CASE k < Len(w[a + 1])
  <2>1. r # <<>> /\ Len(r) > 0
    BY <1>9, <1>8, <1>e, <1>1
  <2>2. OnAir(r, w, a, k + 1)
    BY <2>1, <1>9, <1>3, <1>5, <1>6, <1>7 DEF OnAir
  <2> QED BY <2>2, <1>9 DEF r
<1>10. CASE ~(k < Len(w[a + 1]))
  <2>1. Len(r) > 0 => p1[1] = <<a + 1 + 1, 1>>
    BY <1>7, <1>10
  <2>2. OnAir(r, w, a + 1, 1)
    <3>1. CASE r = <<>>
      <4>1. a + 1 = Len(w)
        BY <3>1, <1>e, <1>8
      <4> QED BY <4>1, <3>1, <1>3, <1>5, <1>6 DEF OnAir
    <3>2. CASE r # <<>>
      <4>1. Len(r) > 0
        BY <3>2, <1>e, <1>1
      <4> QED BY <4>1, <2>1, <3>2, <1>3, <1>5, <1>6, <1>7 DEF OnAir
    <3> QED BY <3>1, <3>2
  <2> QED BY <2>2, <1>10 DEF r
<1> QED BY <1>9, <1>10

\* A message said later comes behind everything that is on the air.
LEMMA AirMore ==
  ASSUME NEW q, NEW w, NEW a \in Nat, NEW k \in Nat, NEW x, IsBytes(q), IsBytes(w), OnAir(q, w, a, k),
         IsBytes(x), Len(x) > 0, \A m \in 1 .. Len(w) : Len(w[m]) \in Nat \ {0}
  PROVE  OnAir(q \o x, Append(w, x), a, k)
<1> DEFINE r == q \o x
           v == Append(w, x)
<1>1. /\ IsBytes(r) /\ Len(r) = Len(q) + Len(x) /\ Len(q) \in Nat /\ Len(x) \in Nat
      /\ \A i \in 1 .. Len(q) : r[i] = q[i]
      /\ \A i \in 1 .. Len(x) : r[Len(q) + i] = x[i]
  <2>1. Len(q) \in Nat /\ Len(x) \in Nat
    BY DEF IsBytes
  <2> QED BY <2>1, ConcatIs
<1>2. /\ Len(w) \in Nat /\ Len(v) = Len(w) + 1 /\ v[Len(w) + 1] = x
      /\ \A m \in 1 .. Len(w) : v[m] = w[m]
  BY AppendIs DEF IsBytes
<1>e. r # <<>> /\ (q = <<>> <=> Len(q) = 0)
  BY <1>1, NoBytes
<1>v. DOMAIN <<>> = {}
  OBVIOUS
<1> HIDE DEF r, v
<1>3. PICK p \in [1 .. Len(q) -> Nat \X Nat] :
        /\ \A i \in 1 .. Len(q) :
             /\ p[i][1] \in 1 .. Len(w) /\ p[i][2] \in 1 .. Len(w[p[i][1]])
             /\ q[i] = w[p[i][1]][p[i][2]]
        /\ \A i \in 1 .. Len(q) - 1 :
             p[i + 1] = IF p[i][2] < Len(w[p[i][1]]) THEN <<p[i][1], p[i][2] + 1>> ELSE <<p[i][1] + 1, 1>>
        /\ IF q = <<>> THEN a = Len(w) /\ k = 1
           ELSE p[1] = <<a + 1, k>> /\ p[Len(q)] = <<Len(w), Len(w[Len(w)])>>
  BY DEF OnAir
<1> DEFINE p1 == [i \in 1 .. Len(r) |-> IF i <= Len(q) THEN p[i] ELSE <<Len(w) + 1, i - Len(q)>>]
<1>4. p1 \in [1 .. Len(r) -> Nat \X Nat]
  BY <1>1, <1>2
<1>5. /\ \A i \in 1 .. Len(q) : i \in 1 .. Len(r) /\ p1[i] = p[i]
      /\ \A i \in 1 .. Len(x) : Len(q) + i \in 1 .. Len(r) /\ p1[Len(q) + i] = <<Len(w) + 1, i>>
  BY <1>1, <1>2
<1> HIDE DEF p1
<1>6. \A i \in 1 .. Len(r) : i \in 1 .. Len(q) \/ \E j \in 1 .. Len(x) : i = Len(q) + j
  <2> TAKE i \in 1 .. Len(r)
  <2>1. i \in 1 .. Len(q) \/ (i - Len(q) \in 1 .. Len(x) /\ i = Len(q) + (i - Len(q)))
    BY <1>1
  <2> QED BY <2>1
<1>7. \A i \in 1 .. Len(q) : /\ p1[i][1] \in 1 .. Len(v) /\ p1[i][2] \in 1 .. Len(v[p1[i][1]])
                             /\ r[i] = v[p1[i][1]][p1[i][2]]
  <2> TAKE i \in 1 .. Len(q)
  <2>1. /\ p1[i] = p[i] /\ p[i][1] \in 1 .. Len(w) /\ p[i][2] \in 1 .. Len(w[p[i][1]])
        /\ q[i] = w[p[i][1]][p[i][2]] /\ r[i] = q[i]
    BY <1>1, <1>3, <1>5
  <2>2. p[i][1] \in 1 .. Len(v) /\ v[p[i][1]] = w[p[i][1]]
    BY <2>1, <1>2
  <2> QED BY <2>1, <2>2
<1>8. \A j \in 1 .. Len(x) : /\ p1[Len(q) + j][1] \in 1 .. Len(v)
                             /\ p1[Len(q) + j][2] \in 1 .. Len(v[p1[Len(q) + j][1]])
                             /\ r[Len(q) + j] = v[p1[Len(q) + j][1]][p1[Len(q) + j][2]]
  BY <1>1, <1>2, <1>5
<1>9. \A i \in 1 .. Len(r) : /\ p1[i][1] \in 1 .. Len(v) /\ p1[i][2] \in 1 .. Len(v[p1[i][1]])
                             /\ r[i] = v[p1[i][1]][p1[i][2]]
  BY <1>6, <1>7, <1>8
<1>10. \A i \in 1 .. Len(r) - 1 :
        p1[i + 1] = IF p1[i][2] < Len(v[p1[i][1]]) THEN <<p1[i][1], p1[i][2] + 1>> ELSE <<p1[i][1] + 1, 1>>
  <2> TAKE i \in 1 .. Len(r) - 1
  <2>1. CASE i < Len(q)
    <3>1. i \in 1 .. Len(q) - 1 /\ i \in 1 .. Len(q) /\ i + 1 \in 1 .. Len(q)
      BY <2>1, <1>1
    <3>2. p1[i] = p[i] /\ p1[i + 1] = p[i + 1]
      BY <3>1, <1>5
    <3>3. p[i + 1] = IF p[i][2] < Len(w[p[i][1]]) THEN <<p[i][1], p[i][2] + 1>> ELSE <<p[i][1] + 1, 1>>
      BY <3>1, <1>3
    <3>4. v[p[i][1]] = w[p[i][1]]
      BY <3>1, <1>3, <1>2
    <3> QED BY <3>2, <3>3, <3>4
  <2>2. CASE i = Len(q)
    <3>1. i \in 1 .. Len(q) /\ q # <<>> /\ 1 \in 1 .. Len(x) /\ Len(q) >= 1
      BY <2>2, <1>1, <1>e
    <3>2. p1[i] = <<Len(w), Len(w[Len(w)])>> /\ p1[i + 1] = <<Len(w) + 1, 1>>
      BY <3>1, <2>2, <1>5, <1>3
    <3>3. Len(w) \in 1 .. Len(w) /\ v[Len(w)] = w[Len(w)]
      BY <3>1, <2>2, <1>3, <1>2
    <3> QED BY <3>2, <3>3, <1>2
  <2>3. CASE i > Len(q)
    <3> DEFINE j == i - Len(q)
    <3>1. j \in 1 .. Len(x) /\ i = Len(q) + j /\ j + 1 \in 1 .. Len(x) /\ i + 1 = Len(q) + (j + 1) /\ j < Len(x)
      BY <2>3, <1>1
    <3> HIDE DEF j
    <3>2. p1[i] = <<Len(w) + 1, j>> /\ p1[i + 1] = <<Len(w) + 1, j + 1>>
      BY <3>1, <1>5
    <3>3. p1[i][1] = Len(w) + 1 /\ p1[i][2] = j
      BY <3>2
    <3>4. v[p1[i][1]] = x
      BY <3>3, <1>2
    <3> QED BY <3>1, <3>2, <3>3, <3>4
  <2> QED BY <2>1, <2>2, <2>3, <1>1
<1>11. p1[1] = <<a + 1, k>>
  <2>1. CASE q = <<>>
    BY <2>1, <1>e, <1>1, <1>5, <1>3
  <2>2. CASE q # <<>>
    <3>1. 1 \in 1 .. Len(q)
      BY <2>2, <1>e, <1>1
    <3>2. p1[1] = p[1]
      BY <3>1, <1>5
    <3> QED BY <2>2, <3>2, <1>3
  <2> QED BY <2>1, <2>2
<1>12. p1[Len(r)] = <<Len(v), Len(v[Len(v)])>>
  <2>1. Len(x) \in 1 .. Len(x)
    BY <1>1
  <2>2. p1[Len(r)] = <<Len(w) + 1, Len(x)>>
    BY <2>1, <1>1, <1>5
  <2> QED BY <2>2, <1>2
<1>13. OnAir(r, v, a, k)
  BY <1>4, <1>9, <1>10, <1>11, <1>12, <1>e DEF OnAir
<1> QED BY <1>13 DEF r, v

\* The first message of a link is all that is on the air.
LEMMA AirStarts ==
  ASSUME NEW x, IsBytes(x), Len(x) > 0
  PROVE  OnAir(x, <<x>>, 0, 1)
<1>1. OnAir(<<>>, <<>>, 0, 1)
  <2>1. Len(<<>>) = 0
    BY NoBytes
  <2> DEFINE p == [i \in 1 .. Len(<<>>) |-> <<1, 1>>]
  <2>2. p \in [1 .. Len(<<>>) -> Nat \X Nat]
    OBVIOUS
  <2> HIDE DEF p
  <2>3. \A i \in 1 .. Len(<<>>) : FALSE
    BY <2>1
  <2>4. \A i \in 1 .. Len(<<>>) - 1 : FALSE
    BY <2>1
  <2> QED BY <2>1, <2>2, <2>3, <2>4 DEF OnAir
<1>2. OnAir(<<>> \o x, Append(<<>>, x), 0, 1)
  <2>1. \A m \in 1 .. Len(<<>>) : Len(<<>>[m]) \in Nat \ {0}
    BY NoBytes
  <2> QED BY <1>1, <2>1, NoBytes, AirMore
<1>3. <<>> \o x = x
  BY AsSeq, ConcatEmptySeq
<1>4. Append(<<>>, x) = <<x>>
  OBVIOUS
<1> QED BY <1>2, <1>3, <1>4
-----------------------------------------------------------------------------
(* Messages, cut into segments.                                            *)

\* Segments begin SegSize apart.
LEMMA AtStep ==
  /\ At(1) = 0
  /\ \A k \in Nat : At(k + 1) = At(k) + SegSize
  /\ \A k \in Nat \ {0} : At(k) \in Nat /\ (k > 1 => At(k) >= SegSize)
<1> USE LinkAssumption
<1>1. \A k \in Nat : (k + 1 - 1) * SegSize = (k - 1) * SegSize + SegSize
  OBVIOUS
<1>2. \A k \in Nat \ {0} : k > 1 => (k - 1) * SegSize >= SegSize
  <2> TAKE k \in Nat \ {0}
  <2>1. (k - 2) * SegSize + SegSize = (k - 1) * SegSize
    OBVIOUS
  <2>2. k > 1 => (k - 2) * SegSize >= 0
    OBVIOUS
  <2>3. (k - 2) * SegSize \in Int /\ SegSize \in Int
    OBVIOUS
  <2> QED BY <2>1, <2>2, <2>3
<1>3. \A k \in Nat \ {0} : (k - 1) * SegSize \in Nat
  OBVIOUS
<1>4. (1 - 1) * SegSize = 0
  OBVIOUS
<1> QED BY <1>1, <1>2, <1>3, <1>4 DEF At

\* A later segment begins later.
LEMMA AtGrows ==
  ASSUME NEW j \in Nat, NEW k \in Nat, j <= k
  PROVE  At(j) <= At(k)
<1> USE LinkAssumption
<1>1. (k - j) * SegSize = (k - 1) * SegSize - (j - 1) * SegSize
  OBVIOUS
<1>2. (k - j) * SegSize >= 0
  OBVIOUS
<1>3. (k - 1) * SegSize \in Int /\ (j - 1) * SegSize \in Int
  OBVIOUS
<1> QED BY <1>1, <1>2, <1>3 DEF At

\* The number of turns of talk_to_ssm's loop: the last segment is neither empty nor too
\* long.
LEMMA HowMany ==
  ASSUME NEW n \in Nat \ {0}
  PROVE  LET K == (n + SegSize - 1) \div SegSize
         IN  K \in Nat \ {0} /\ At(K) < n /\ n <= At(K) + SegSize
<1> USE LinkAssumption
<1> DEFINE x == n + SegSize - 1
           K == x \div SegSize
           r == x % SegSize
<1>1. x \in Nat /\ x >= SegSize /\ SegSize \in Nat \ {0}
  OBVIOUS
<1>2. K \in Int /\ r \in 0 .. SegSize - 1 /\ x = K * SegSize + r
  BY <1>1
<1>4. x = n + SegSize - 1
  OBVIOUS
<1> HIDE DEF x, K, r
<1>3. K >= 1
  <2> SUFFICES ASSUME K <= 0 PROVE FALSE
    BY <1>2
  <2>1. K * SegSize <= 0
    BY <1>1, <1>2
  <2>2. K * SegSize \in Int
    BY <1>1, <1>2
  <2> QED BY <1>1, <1>2, <2>1, <2>2
<1>5. (K - 1) * SegSize = K * SegSize - SegSize /\ K * SegSize \in Int
  BY <1>1, <1>2
<1>6. (K - 1) * SegSize < n /\ n <= (K - 1) * SegSize + SegSize
  BY <1>1, <1>2, <1>4, <1>5
<1> QED BY <1>2, <1>3, <1>6 DEF At, K, x

\* The fields of a segment.
LEMMA Fields ==
  ASSUME NEW f, NEW t, NEW b, NEW s, s = [first |-> f, type |-> t, bytes |-> b]
  PROVE  s.first = f /\ s.type = t /\ s.bytes = b
OBVIOUS

\* One turn of the loop of talk_to_ssm: the whole segment, or the last one with the type.
LEMMA SegmentIs ==
  ASSUME NEW bytes, NEW type, NEW at \in Nat, NEW n \in Nat, n = Len(bytes), at <= n
  PROVE  LET s == Segment(bytes, at, type)
         IN  /\ s.first <=> at = 0
             /\ s.type = IF n - at <= SegSize THEN type ELSE "append"
             /\ IsBytes(s.bytes) /\ Len(s.bytes) = IF n - at <= SegSize THEN n - at ELSE SegSize
             /\ \A i \in 1 .. Len(s.bytes) : s.bytes[i] = bytes[at + i]
<1> USE LinkAssumption
<1> DEFINE s == Segment(bytes, at, type)
           take == IF n - at <= SegSize THEN n - at ELSE SegSize
           from == at + 1
           to == at + take
           part == SubSeq(bytes, from, to)
           t == IF n - at <= SegSize THEN type ELSE "append"
           f == at = 0
<1>1. s = [first |-> f, type |-> t, bytes |-> part]
  BY DEF Segment
<1>2. take \in Nat
  OBVIOUS
<1> HIDE DEF s, take, t, f
<1>3. from \in Nat /\ to \in Nat /\ from <= to + 1
  BY <1>2
<1>5. to + 1 - from = take /\ \A i \in 1 .. take : from + i - 1 = at + i
  BY <1>2
<1>9. part = SubSeq(bytes, from, to)
  OBVIOUS
<1> HIDE DEF from, to, part
<1>4. /\ IsBytes(part) /\ Len(part) = to + 1 - from
      /\ \A i \in 1 .. to + 1 - from : part[i] = bytes[from + i - 1]
  BY ONLY <1>3, <1>9, SubSeqIs
<1>6. IsBytes(part) /\ Len(part) = take /\ \A i \in 1 .. take : part[i] = bytes[at + i]
  BY <1>4, <1>5
<1>7. s.first = f /\ s.type = t /\ s.bytes = part
  BY <1>1, Fields
<1>8. s.first <=> at = 0
  BY <1>7 DEF f
<1> QED BY <1>6, <1>7, <1>8 DEF s, take, t

\* A message cut into segments: all but the last are full and say that more follows, the
\* last has the type of the message, and side by side they are its bytes.
LEMMA Cut ==
  ASSUME NEW bytes, NEW type, NEW segs, segs = Segments(bytes, type), IsBytes(bytes), Len(bytes) > 0
  PROVE  /\ IsBytes(segs) /\ Len(segs) \in Nat \ {0}
         /\ \A k \in 1 .. Len(segs) :
              /\ segs[k].first <=> k = 1
              /\ IsBytes(segs[k].bytes)
              /\ \A i \in 1 .. Len(segs[k].bytes) : segs[k].bytes[i] = bytes[At(k) + i]
              /\ k < Len(segs) => /\ segs[k].type = "append" /\ Len(segs[k].bytes) = SegSize
                                  /\ At(k) + SegSize < Len(bytes)
              /\ k = Len(segs) => /\ segs[k].type = type /\ At(k) + Len(segs[k].bytes) = Len(bytes)
                                  /\ Len(segs[k].bytes) \in 1 .. SegSize
<1> USE LinkAssumption
<1> DEFINE n == Len(bytes)
           K == (n + SegSize - 1) \div SegSize
<1>1. n \in Nat \ {0}
  BY DEF IsBytes
<1>2. K \in Nat \ {0} /\ At(K) < n /\ n <= At(K) + SegSize
  BY <1>1, HowMany
<1>3. segs = [k \in 1 .. K |-> Segment(bytes, At(k), type)]
  BY DEF Segments, At
<1> HIDE DEF K
<1>4. IsBytes(segs) /\ Len(segs) = K
  BY <1>2, <1>3, FnIs
<1>5. ASSUME NEW k \in 1 .. K
      PROVE  /\ segs[k].first <=> k = 1
             /\ IsBytes(segs[k].bytes)
             /\ \A i \in 1 .. Len(segs[k].bytes) : segs[k].bytes[i] = bytes[At(k) + i]
             /\ k < K => /\ segs[k].type = "append" /\ Len(segs[k].bytes) = SegSize
                         /\ At(k) + SegSize < n
             /\ k = K => /\ segs[k].type = type /\ At(k) + Len(segs[k].bytes) = n
                         /\ Len(segs[k].bytes) \in 1 .. SegSize
  <2> DEFINE at == At(k)
             take == IF n - at <= SegSize THEN n - at ELSE SegSize
  <2>1. k \in Nat \ {0} /\ at \in Nat /\ At(K) \in Nat
    <3>1. k \in Nat \ {0}
      BY <1>2
    <3> QED BY <3>1, <1>2, AtStep
  <2>2. k < K => at + SegSize < n
    <3> SUFFICES ASSUME k < K PROVE at + SegSize < n
      OBVIOUS
    <3>1. At(k + 1) <= At(K)
      BY <2>1, <1>2, AtGrows
    <3>2. At(k + 1) = at + SegSize
      BY <2>1, AtStep
    <3> QED BY SMTT(30), <2>1, <3>1, <3>2, <1>1, <1>2
  <2>3. at < n
    BY <2>1, <2>2, <1>1, <1>2
  <2>4. at = 0 <=> k = 1
    <3>1. k = 1 \/ k > 1
      BY <2>1
    <3>2. k = 1 => at = 0
      BY AtStep
    <3>3. k > 1 => at >= SegSize
      BY <2>1, AtStep
    <3> QED BY <3>1, <3>2, <3>3, <2>1
  <2>5. segs[k] = Segment(bytes, at, type)
    BY <1>3
  <2> HIDE DEF at
  <2>6. /\ segs[k].first <=> at = 0
        /\ segs[k].type = IF n - at <= SegSize THEN type ELSE "append"
        /\ IsBytes(segs[k].bytes) /\ Len(segs[k].bytes) = take
        /\ \A i \in 1 .. Len(segs[k].bytes) : segs[k].bytes[i] = bytes[at + i]
    <3>1. at \in Nat /\ n \in Nat /\ at <= n
      BY <2>1, <2>3, <1>1
    <3> HIDE DEF n
    <3>2. n = Len(bytes)
      BY DEF n
    <3>3. LET s == Segment(bytes, at, type)
          IN  /\ s.first <=> at = 0
              /\ s.type = IF n - at <= SegSize THEN type ELSE "append"
              /\ IsBytes(s.bytes) /\ Len(s.bytes) = IF n - at <= SegSize THEN n - at ELSE SegSize
              /\ \A i \in 1 .. Len(s.bytes) : s.bytes[i] = bytes[at + i]
      BY ONLY SMTT(30), <3>1, <3>2, SegmentIs
    <3> QED BY <3>3, <2>5
  <2>10. k < K => n - at > SegSize
    BY <2>1, <2>2, <1>1
  <2>11. k = K => n - at <= SegSize
    BY <2>1, <1>1, <1>2 DEF at
  <2>12. k < K => take = SegSize /\ segs[k].type = "append" /\ at + SegSize < n
    BY <2>10, <2>6, <2>1, <2>2, <1>1
  <2>13. k = K => take = n - at /\ segs[k].type = type /\ at + take = n /\ take \in 1 .. SegSize
    BY SMTT(30), <2>11, <2>6, <2>1, <2>3, <1>1
  <2> HIDE DEF take
  <2> QED BY <2>4, <2>6, <2>12, <2>13 DEF at
<1> QED BY <1>2, <1>4, <1>5
-----------------------------------------------------------------------------
(* The buffer and the cipher.                                              *)

\* b_buf keeps its size whatever is copied into it.
LEMMA PutBuf ==
  ASSUME NEW buf, NEW off, NEW bytes, NEW new, new = Put(buf, off, bytes)
  PROVE  IsBytes(new) /\ Len(new) = BufSize
<1>1. BufSize \in Nat
  BY LinkAssumption
<1>2. new = [i \in 1 .. BufSize |-> IF off < i /\ i <= off + Len(bytes) THEN bytes[i - off] ELSE buf[i]]
  BY DEF Put
<1> QED BY <1>1, <1>2, FnIs

\* memcpy into b_buf: what fits is there, the rest is kept.
LEMMA PutKeeps ==
  ASSUME NEW buf, NEW off \in Nat, NEW bytes, IsBytes(bytes), NEW new, new = Put(buf, off, bytes),
         NEW i \in 1 .. BufSize, i <= off \/ off + Len(bytes) < i
  PROVE  new[i] = buf[i]
<1>1. BufSize \in Nat /\ Len(bytes) \in Nat
  BY LinkAssumption DEF IsBytes
<1>2. new = [j \in 1 .. BufSize |-> IF off < j /\ j <= off + Len(bytes) THEN bytes[j - off] ELSE buf[j]]
  BY DEF Put
<1> QED BY <1>1, <1>2

\* A byte that was copied is in the buffer.
LEMMA PutHas ==
  ASSUME NEW buf, NEW off \in Nat, NEW bytes, IsBytes(bytes), NEW new, new = Put(buf, off, bytes),
         NEW i \in 1 .. Len(bytes), off + i <= BufSize
  PROVE  new[off + i] = bytes[i]
<1>1. BufSize \in Nat /\ Len(bytes) \in Nat
  BY LinkAssumption DEF IsBytes
<1>2. new = [j \in 1 .. BufSize |-> IF off < j /\ j <= off + Len(bytes) THEN bytes[j - off] ELSE buf[j]]
  BY DEF Put
<1>3. off + i \in 1 .. BufSize /\ off < off + i /\ off + i <= off + Len(bytes) /\ off + i - off = i
  BY <1>1
<1> QED BY <1>2, <1>3

\* What was copied to the start of the buffer is there.
LEMMA PutStart ==
  ASSUME NEW buf, NEW bytes, IsBytes(bytes), NEW n, n = Len(bytes), n <= BufSize
  PROVE  \A i \in 1 .. n : Put(buf, 0, bytes)[i] = bytes[i]
<1> TAKE i \in 1 .. n
<1>1. n \in Nat /\ BufSize \in Nat
  BY LinkAssumption DEF IsBytes
<1>2. i \in 1 .. BufSize /\ 0 < i /\ i <= 0 + n /\ i - 0 = i
  BY <1>1
<1> QED BY <1>2 DEF Put

\* The first n bytes of the buffer.
LEMMA BytesIs ==
  ASSUME NEW buf, NEW n \in Nat, NEW b, b = Bytes(buf, 0, n)
  PROVE  IsBytes(b) /\ Len(b) = n /\ \A i \in 1 .. n : b[i] = buf[i]
<1>1. b = SubSeq(buf, 1, n)
  BY DEF Bytes
<1> DEFINE m == 1
<1>2. m \in Nat /\ m = 1 /\ m <= n + 1 /\ b = SubSeq(buf, m, n)
  BY <1>1
<1> HIDE DEF m
<1>3. IsBytes(b) /\ Len(b) = n + 1 - m /\ \A i \in 1 .. n + 1 - m : b[i] = buf[m + i - 1]
  <2>1. /\ IsBytes(SubSeq(buf, m, n)) /\ Len(SubSeq(buf, m, n)) = n + 1 - m
        /\ \A i \in 1 .. n + 1 - m : SubSeq(buf, m, n)[i] = buf[m + i - 1]
    <3>1. m \in Nat /\ n \in Nat /\ m <= n + 1
      BY <1>2
    <3> QED BY ONLY <3>1, SubSeqIs
  <2> QED BY ONLY <2>1, <1>2
<1>4. n + 1 - m = n /\ \A i \in 1 .. n : m + i - 1 = i
  BY <1>2
<1> QED BY <1>3, <1>4

\* A ciphertext is longer by the tag, and every byte of it knows the whole plaintext.
LEMMA EncryptIs ==
  ASSUME NEW t, NEW n, NEW bytes, IsBytes(bytes), NEW x, x = Encrypt(t, n, bytes)
  PROVE  /\ IsBytes(x) /\ Len(x) = Len(bytes) + TagLen /\ Len(x) \in Nat \ {0}
         /\ \A i \in 1 .. Len(x) : x[i][1] = "cipher" /\ x[i][2].of = bytes
<1>1. Len(bytes) \in Nat /\ TagLen \in Nat \ {0}
  BY LinkAssumption DEF IsBytes
<1>2. x = [i \in 1 .. Len(bytes) + TagLen |-> <<"cipher", [token |-> t, count |-> n, at |-> i, of |-> bytes]>>]
  BY DEF Encrypt
<1>3. IsBytes(x) /\ Len(x) = Len(bytes) + TagLen
  BY <1>1, <1>2, FnIs
<1>4. \A i \in 1 .. Len(x) : x[i] = <<"cipher", [token |-> t, count |-> n, at |-> i, of |-> bytes]>>
  BY <1>1, <1>2, <1>3
<1> QED BY <1>1, <1>3, <1>4

\* Under the same token and count a decryption gives the plaintext back.
LEMMA DecryptOwn ==
  ASSUME NEW t, NEW n, NEW bytes, IsBytes(bytes)
  PROVE  Decrypt(t, n, Encrypt(t, n, bytes)) = bytes
<1> DEFINE x == Encrypt(t, n, bytes)
<1>0. x = Encrypt(t, n, bytes)
  OBVIOUS
<1> HIDE DEF x
<1>1. /\ IsBytes(x) /\ Len(x) \in Nat \ {0}
      /\ x[1][1] = "cipher" /\ x[1][2].of = bytes
  <2>1. /\ IsBytes(x) /\ Len(x) \in Nat \ {0}
        /\ \A i \in 1 .. Len(x) : x[i][1] = "cipher" /\ x[i][2].of = bytes
    BY <1>0, EncryptIs
  <2>2. 1 \in 1 .. Len(x)
    BY <2>1
  <2> QED BY <2>1, <2>2
<1>2. x # <<>>
  BY <1>1, NoBytes
<1>3. x = Encrypt(t, n, x[1][2].of)
  BY <1>0, <1>1
<1>4. Decrypt(t, n, x) = bytes
  BY <1>1, <1>2, <1>3 DEF Decrypt
<1> QED BY <1>4 DEF x

\* A decryption gives what the last byte is a byte of, all of the ciphertext being one of
\* it, or zeroes.
LEMMA DecryptSome ==
  ASSUME NEW t, NEW n, NEW x, IsBytes(x), Len(x) > 0
  PROVE  \/ /\ Decrypt(t, n, x) = x[Len(x)][2].of
            /\ x = Encrypt(t, n, x[Len(x)][2].of)
         \/ Decrypt(t, n, x) = [i \in 1 .. Len(x) - TagLen |-> Zero]
<1>1. Len(x) \in DOMAIN x
  BY AsSeq
<1> DEFINE o == x[1][2].of
<1>2. CASE x = Encrypt(t, n, o) /\ x # <<>> /\ x[1][1] = "cipher"
  <2> DEFINE c(i) == <<"cipher", [token |-> t, count |-> n, at |-> i, of |-> o]>>
  <2>1. x = [i \in 1 .. Len(o) + TagLen |-> c(i)]
    BY <1>2 DEF Encrypt
  <2> HIDE DEF o
  <2>2. x[Len(x)] = c(Len(x))
    BY <1>1, <2>1
  <2>3. x[Len(x)][2].of = o
    BY <2>2
  <2> QED BY <1>2, <2>3 DEF Decrypt, o
<1>3. CASE ~(x = Encrypt(t, n, o) /\ x # <<>> /\ x[1][1] = "cipher")
  BY <1>3 DEF Decrypt
<1> QED BY <1>2, <1>3

-----------------------------------------------------------------------------
(* What the SESAME sends of what it says.                                  *)

\* Each message is sent as the segments of its own encoding.
LEMMA SentIs ==
  ASSUME NEW sd, NEW p, NEW s, NEW w, IsBytes(sd), p \in Nat, w = Sent(sd, p, s),
         \A m \in 1 .. Len(sd) : IsBytes(sd[m]) /\ (m <= p => Len(sd[m]) > 0)
  PROVE  /\ IsBytes(w) /\ Len(w) = Len(sd)
         /\ \A m \in 1 .. Len(sd) :
              /\ w[m] = Segments(Encoded(sd, p, s, m), TypeOf(p, m))
              /\ IsBytes(Encoded(sd, p, s, m)) /\ Len(Encoded(sd, p, s, m)) \in Nat \ {0}
              /\ Len(Encoded(sd, p, s, m)) = IF m > p THEN Len(sd[m]) + TagLen ELSE Len(sd[m])
              /\ IsBytes(w[m]) /\ Len(w[m]) \in Nat \ {0}
<1>1. Len(sd) \in Nat
  BY DEF IsBytes
<1>2. w = [m \in 1 .. Len(sd) |-> Segments(Encoded(sd, p, s, m), TypeOf(p, m))]
  BY DEF Sent
<1>3. IsBytes(w) /\ Len(w) = Len(sd)
  BY <1>1, <1>2, FnIs
<1>4. ASSUME NEW m \in 1 .. Len(sd)
      PROVE  /\ w[m] = Segments(Encoded(sd, p, s, m), TypeOf(p, m))
             /\ IsBytes(Encoded(sd, p, s, m)) /\ Len(Encoded(sd, p, s, m)) \in Nat \ {0}
             /\ Len(Encoded(sd, p, s, m)) = IF m > p THEN Len(sd[m]) + TagLen ELSE Len(sd[m])
             /\ IsBytes(w[m]) /\ Len(w[m]) \in Nat \ {0}
  <2>1. w[m] = Segments(Encoded(sd, p, s, m), TypeOf(p, m))
    BY <1>2
  <2>2. IsBytes(sd[m]) /\ (m <= p => Len(sd[m]) > 0) /\ m \in Nat
    BY <1>1
  <2>3. CASE m > p
    <3>1. Encoded(sd, p, s, m) = Encrypt(Token(s), m - p - 1, sd[m])
      BY <2>3 DEF Encoded
    <3>2. /\ IsBytes(Encoded(sd, p, s, m)) /\ Len(Encoded(sd, p, s, m)) \in Nat \ {0}
          /\ Len(Encoded(sd, p, s, m)) = Len(sd[m]) + TagLen
      BY <3>1, <2>2, EncryptIs
    <3> QED BY <2>1, <2>3, <3>2, Cut
  <2>4. CASE ~(m > p)
    <3>1. Encoded(sd, p, s, m) = sd[m]
      BY <2>4 DEF Encoded
    <3>2. Len(sd[m]) \in Nat /\ Len(sd[m]) > 0
      BY <2>2, <2>4 DEF IsBytes
    <3> QED BY <2>1, <2>2, <2>4, <3>1, <3>2, Cut
  <2> QED BY <2>3, <2>4
<1> QED BY <1>3, <1>4

\* To say one more message adds its segments to what has to be sent, encrypted or, as
\* long as nothing was, in the clear.
LEMMA SentSecure ==
  ASSUME NEW sd, NEW p, NEW s, NEW x, IsBytes(sd), p \in Nat, p <= Len(sd)
  PROVE  Sent(Append(sd, x), p, s) =
           Append(Sent(sd, p, s), Segments(Encrypt(Token(s), Len(sd) - p, x), "cipher"))
<1> DEFINE ax == Append(sd, x)
           new == Segments(Encrypt(Token(s), Len(sd) - p, x), "cipher")
           old == Sent(sd, p, s)
           w == Sent(ax, p, s)
           v == Append(old, new)
<1>1. Len(sd) \in Nat
  BY DEF IsBytes
<1>2. /\ IsBytes(ax) /\ Len(ax) = Len(sd) + 1 /\ ax[Len(sd) + 1] = x
      /\ \A m \in 1 .. Len(sd) : ax[m] = sd[m]
  BY AppendIs
<1>3. /\ old = [m \in 1 .. Len(sd) |-> Segments(Encoded(sd, p, s, m), TypeOf(p, m))]
      /\ w = [m \in 1 .. Len(ax) |-> Segments(Encoded(ax, p, s, m), TypeOf(p, m))]
  BY DEF Sent
<1> HIDE DEF ax, new, old, w
<1>4. IsBytes(old) /\ Len(old) = Len(sd)
  BY <1>1, <1>3, FnIs
<1>5. Len(ax) \in Nat
  BY <1>1, <1>2
<1>6. IsBytes(w) /\ Len(w) = Len(ax)
  BY <1>5, <1>3, FnIs
<1>7. /\ IsBytes(v) /\ Len(v) = Len(old) + 1 /\ v[Len(old) + 1] = new
      /\ \A m \in 1 .. Len(old) : v[m] = old[m]
  BY <1>4, AppendIs
<1> HIDE DEF v
<1>8. \A m \in 1 .. Len(w) : w[m] = v[m]
  <2> TAKE m \in 1 .. Len(w)
  <2>1. CASE m \in 1 .. Len(sd)
    <3>1. Encoded(ax, p, s, m) = Encoded(sd, p, s, m)
      BY <2>1, <1>2 DEF Encoded
    <3> QED BY <2>1, <3>1, <1>3, <1>4, <1>6, <1>7
  <2>2. CASE m = Len(sd) + 1
    <3>1. m > p /\ m - p - 1 = Len(sd) - p
      BY <2>2, <1>1
    <3>2. ax[m] = x
      BY <2>2, <1>2
    <3>3. Encoded(ax, p, s, m) = Encrypt(Token(s), Len(sd) - p, x) /\ TypeOf(p, m) = "cipher"
      BY <3>1, <3>2 DEF Encoded, TypeOf
    <3>4. w[m] = Segments(Encoded(ax, p, s, m), TypeOf(p, m))
      BY <1>3, <1>6
    <3>5. w[m] = new
      BY <3>3, <3>4 DEF new
    <3>6. v[m] = new
      BY <2>2, <1>4, <1>7
    <3> QED BY <3>5, <3>6
  <2> QED BY <2>1, <2>2, <1>1, <1>2, <1>6
<1>9. w = v
  <2>1. Len(w) = Len(v)
    BY <1>2, <1>4, <1>6, <1>7
  <2> QED BY <2>1, <1>6, <1>7, <1>8, SameBytes
<1> QED BY <1>9 DEF w, v, ax, old, new

\* One more message in the clear, behind messages in the clear.
LEMMA SentPlain ==
  ASSUME NEW sd, NEW s, NEW x, IsBytes(sd)
  PROVE  Sent(Append(sd, x), Len(sd) + 1, s) = Append(Sent(sd, Len(sd), s), Segments(x, "plain"))
<1> DEFINE ax == Append(sd, x)
           new == Segments(x, "plain")
           p == Len(sd)
           p1 == Len(sd) + 1
           old == Sent(sd, p, s)
           w == Sent(ax, p1, s)
           v == Append(old, new)
<1>1. p \in Nat /\ p1 = p + 1 /\ p = Len(sd)
  BY DEF IsBytes
<1>2. /\ IsBytes(ax) /\ Len(ax) = Len(sd) + 1 /\ ax[Len(sd) + 1] = x
      /\ \A m \in 1 .. Len(sd) : ax[m] = sd[m]
  BY AppendIs
<1>3. /\ old = [m \in 1 .. Len(sd) |-> Segments(Encoded(sd, p, s, m), TypeOf(p, m))]
      /\ w = [m \in 1 .. Len(ax) |-> Segments(Encoded(ax, p1, s, m), TypeOf(p1, m))]
  BY DEF Sent
<1> HIDE DEF ax, new, old, w, p, p1
<1>4. IsBytes(old) /\ Len(old) = p
  BY <1>1, <1>3, FnIs
<1>5. Len(ax) \in Nat /\ Len(ax) = p1
  BY <1>1, <1>2
<1>6. IsBytes(w) /\ Len(w) = Len(ax)
  BY <1>5, <1>3, FnIs
<1>7. /\ IsBytes(v) /\ Len(v) = Len(old) + 1 /\ v[Len(old) + 1] = new
      /\ \A m \in 1 .. Len(old) : v[m] = old[m]
  BY <1>4, AppendIs
<1> HIDE DEF v
<1>8. \A m \in 1 .. Len(w) : w[m] = v[m]
  <2> TAKE m \in 1 .. Len(w)
  <2>0. m \in 1 .. Len(ax) /\ w[m] = Segments(Encoded(ax, p1, s, m), TypeOf(p1, m)) /\ ~(m > p1)
    BY <1>3, <1>5, <1>6
  <2>3. w[m] = Segments(ax[m], "plain")
    BY <2>0 DEF Encoded, TypeOf
  <2>1. CASE m \in 1 .. Len(sd)
    <3>1. ~(m > p) /\ m \in 1 .. Len(old)
      BY <2>1, <1>1, <1>4
    <3>2. old[m] = Segments(Encoded(sd, p, s, m), TypeOf(p, m))
      BY <2>1, <1>3
    <3>3. old[m] = Segments(sd[m], "plain")
      BY <3>1, <3>2 DEF Encoded, TypeOf
    <3> QED BY <2>1, <3>1, <3>3, <2>3, <1>2, <1>7
  <2>2. CASE m = Len(sd) + 1
    <3>1. w[m] = new
      BY <2>2, <2>3, <1>2 DEF new
    <3>2. v[m] = new
      BY <2>2, <1>1, <1>4, <1>7
    <3> QED BY <3>1, <3>2
  <2> QED BY <2>0, <2>1, <2>2, <1>1, <1>2
<1>9. w = v
  <2>1. Len(w) = Len(v)
    BY <1>1, <1>5, <1>4, <1>6, <1>7
  <2> QED BY <2>1, <1>6, <1>7, <1>8, SameBytes
<1> QED BY <1>9 DEF w, v, ax, old, new, p, p1

\* The messages that have a fixed form, byte by byte.
LEMMA FillIs ==
  ASSUME NEW kind, NEW n \in Nat
  PROVE  IsBytes(Fill(kind, n)) /\ Len(Fill(kind, n)) = n
<1> DEFINE f == Fill(kind, n)
<1>1. f = [i \in 1 .. n |-> <<kind, i>>]
  BY DEF Fill
<1> HIDE DEF f
<1>2. IsBytes(f) /\ Len(f) = n
  BY <1>1, FnIs
<1> QED BY <1>2 DEF f

\* A message of an op code and an item.
LEMMA TwoBytes ==
  ASSUME NEW a, NEW b
  PROVE  IsBytes(<<a, b>>) /\ Len(<<a, b>>) = 2 /\ <<a, b>>[1] = a /\ <<a, b>>[2] = b
<1>1. <<a, b>> \in Seq({a, b})
  OBVIOUS
<1>2. IsBytes(<<a, b>>)
  BY <1>1, SeqIs
<1> QED BY <1>2

\* A message of one byte.
LEMMA OneByte ==
  ASSUME NEW a
  PROVE  IsBytes(<<a>>) /\ Len(<<a>>) = 1 /\ <<a>>[1] = a
<1>1. <<a>> \in Seq({a})
  OBVIOUS
<1>2. IsBytes(<<a>>)
  BY <1>1, SeqIs
<1> QED BY <1>2

\* A public key is a sequence of KeySize bytes, at least one.
LEMMA KeyIs == IsBytes(Key) /\ Len(Key) = KeySize /\ Key # <<>>
<1>1. KeySize \in Nat \ {0}
  BY LinkAssumption
<1>2. IsBytes(Key) /\ Len(Key) = KeySize
  BY <1>1, FillIs DEF Key
<1> QED BY <1>1, <1>2, NoBytes

\* The answer to a registration: the key is what is left without the first 2 + Prefix bytes.
LEMMA RegAnswerIs ==
  /\ IsBytes(RegAnswer) /\ Len(RegAnswer) = 2 + Prefix + KeySize
  /\ RegAnswer[1] = Op("RESPONSE") /\ RegAnswer[2] = Item("REGISTRATION")
  /\ SubSeq(RegAnswer, 3, Len(RegAnswer)) # <<>>
  /\ SubSeq(SubSeq(RegAnswer, 3, Len(RegAnswer)), Prefix + 1, Len(SubSeq(RegAnswer, 3, Len(RegAnswer)))) = Key
<1> DEFINE hd == <<Op("RESPONSE"), Item("REGISTRATION")>>
           mid == Fill("mech", Prefix)
           hm == hd \o mid
           x == RegAnswer
           pay == SubSeq(x, 3, Len(x))
           from == Prefix + 1
           key == SubSeq(pay, from, Len(pay))
<1>1. Prefix \in Nat /\ KeySize \in Nat \ {0}
  BY LinkAssumption
<1>2. IsBytes(hd) /\ Len(hd) = 2 /\ hd[1] = Op("RESPONSE") /\ hd[2] = Item("REGISTRATION")
  BY TwoBytes
<1>3. IsBytes(mid) /\ Len(mid) = Prefix
  BY <1>1, FillIs
<1>4. IsBytes(Key) /\ Len(Key) = KeySize
  BY KeyIs
<1>5. x = hm \o Key
  BY DEF RegAnswer
<1>f. from = Prefix + 1
  OBVIOUS
<1> HIDE DEF hd, mid, x, from
<1>6. IsBytes(hm) /\ Len(hm) = 2 + Prefix /\ \A i \in 1 .. 2 : hm[i] = hd[i]
  <2>1. /\ IsBytes(hd \o mid) /\ Len(hd \o mid) = Len(hd) + Len(mid)
        /\ \A i \in 1 .. Len(hd) : (hd \o mid)[i] = hd[i]
    BY ZenonT(40), <1>2, <1>3, ConcatIs
  <2> QED BY <2>1, <1>2, <1>3
<1>h. x = hm \o Key
  BY <1>5
<1> HIDE DEF hm
<1>7. /\ IsBytes(x) /\ Len(x) = 2 + Prefix + KeySize
      /\ \A i \in 1 .. Len(hm) : x[i] = hm[i]
      /\ \A i \in 1 .. Len(Key) : x[Len(hm) + i] = Key[i]
  <2>0. IsBytes(hm) /\ IsBytes(Key)
    BY <1>4, <1>6
  <2>1. /\ IsBytes(x) /\ Len(x) = Len(hm) + Len(Key)
        /\ \A i \in 1 .. Len(hm) : x[i] = hm[i]
        /\ \A i \in 1 .. Len(Key) : x[Len(hm) + i] = Key[i]
    <3>1. IsBytes(x) 
      BY ONLY <2>0, <1>h, ConcatTo
    <3>2. Len(x) = Len(hm) + Len(Key)
      BY ONLY <2>0, <1>h, ConcatTo
    <3>3. \A i \in 1 .. Len(hm) : x[i] = hm[i]
      BY ONLY <2>0, <1>h, ConcatTo
    <3>4. \A i \in 1 .. Len(Key) : x[Len(hm) + i] = Key[i]
      BY ONLY <2>0, <1>h, ConcatTo
    <3> QED BY <3>1, <3>2, <3>3, <3>4
  <2> QED BY <2>1, <1>4, <1>6
<1>8. x[1] = Op("RESPONSE") /\ x[2] = Item("REGISTRATION")
  BY <1>1, <1>2, <1>6, <1>7
<1>9. /\ IsBytes(pay) /\ Len(pay) = Prefix + KeySize
      /\ \A i \in 1 .. Prefix + KeySize : pay[i] = x[i + 2]
  <2>1. 3 \in Nat /\ Len(x) \in Nat /\ 3 <= Len(x) + 1 /\ Len(x) + 1 - 3 = Prefix + KeySize
    BY <1>1, <1>7
  <2>2. /\ IsBytes(pay) /\ Len(pay) = Len(x) + 1 - 3
        /\ \A i \in 1 .. Len(x) + 1 - 3 : pay[i] = x[3 + i - 1]
    BY <2>1, SubSeqIs
  <2>3. \A i \in 1 .. Prefix + KeySize : 3 + i - 1 = i + 2
    BY <1>1
  <2> QED BY <2>1, <2>2, <2>3
<1> HIDE DEF pay
<1>10. /\ IsBytes(key) /\ Len(key) = KeySize
       /\ \A i \in 1 .. KeySize : key[i] = pay[Prefix + i]
  <2>1. from \in Nat /\ Len(pay) \in Nat /\ from <= Len(pay) + 1 /\ Len(pay) + 1 - from = KeySize
    BY <1>1, <1>9, <1>f
  <2>2. /\ IsBytes(key) /\ Len(key) = Len(pay) + 1 - from
        /\ \A i \in 1 .. Len(pay) + 1 - from : key[i] = pay[from + i - 1]
    BY <2>1, SubSeqIs
  <2>3. \A i \in 1 .. KeySize : from + i - 1 = Prefix + i
    BY <1>1, <1>f
  <2> QED BY <2>1, <2>2, <2>3
<1> HIDE DEF key
<1>11. \A i \in 1 .. KeySize : key[i] = Key[i]
  <2> TAKE i \in 1 .. KeySize
  <2>1. Prefix + i \in 1 .. Prefix + KeySize /\ Prefix + i + 2 = 2 + Prefix + i
    BY <1>1
  <2> QED BY SMTT(30), <2>1, <1>4, <1>6, <1>7, <1>9, <1>10
<1>12. key = Key
  BY <1>4, <1>10, <1>11, SameBytes
<1>13. pay # <<>>
  BY <1>1, <1>9, NoBytes
<1>14. IsBytes(x) /\ Len(x) = 2 + Prefix + KeySize
  BY <1>7
<1> QED BY <1>8, <1>12, <1>13, <1>14, <1>f DEF x, pay, key

\* The random code's message.
LEMMA InitialIs ==
  ASSUME NEW s, NEW x, x = InitialOf(s)
  PROVE  /\ IsBytes(x) /\ Len(x) = 3
         /\ x[1] = Op("PUBLISH") /\ x[2] = Item("INITIAL")
         /\ IsBytes(SubSeq(x, 3, Len(x))) /\ Len(SubSeq(x, 3, Len(x))) = 1 /\ SubSeq(x, 3, Len(x))[1][2] = s
<1>1. x = <<Op("PUBLISH"), Item("INITIAL"), <<"code", s>>>>
  BY DEF InitialOf
<1>2. IsBytes(x) /\ Len(x) = 3
  <2>1. x \in Seq({Op("PUBLISH"), Item("INITIAL"), <<"code", s>>})
    BY <1>1
  <2>2. Len(x) = 3
    BY <1>1
  <2> QED BY <2>1, <2>2, SeqIs
<1>3. x[1] = Op("PUBLISH") /\ x[2] = Item("INITIAL") /\ x[3][2] = s
  BY <1>1
<1> DEFINE pay == SubSeq(x, 3, 3)
<1>4. IsBytes(pay) /\ Len(pay) = 1 /\ pay[1] = x[3]
  <2> DEFINE from == 3
             to == 3
  <2>1. from \in Nat /\ to \in Nat /\ from <= to + 1 /\ to + 1 - from = 1 /\ from + 1 - 1 = 3 /\ pay = SubSeq(x, from, to)
    OBVIOUS
  <2> HIDE DEF from, to, pay
  <2>2. /\ IsBytes(pay) /\ Len(pay) = to + 1 - from
        /\ \A i \in 1 .. to + 1 - from : pay[i] = x[from + i - 1]
    BY <2>1, SubSeqIs
  <2> QED BY <2>1, <2>2
<1>6. SubSeq(x, 3, Len(x)) = pay
  BY <1>2
<1> HIDE DEF pay
<1>7. pay[1][2] = s
  BY <1>3, <1>4
<1> QED BY <1>2, <1>3, <1>4, <1>6, <1>7

\* What the SESAME says later has an op code and an item.
LEMMA LaterIs ==
  ASSUME NEW x, Later(x)
  PROVE  IsBytes(x) /\ Len(x) \in Nat \ {0, 1} /\ Len(x) + TagLen \in Lengths
BY DEF Later, IsBytes

\* All messages of a session are messages, and fit b_buf with their tag.
LEMMA SaidAre ==
  ASSUME link, Shape, Messages
  PROVE  /\ Plains \in Nat /\ Plains <= Len(said) /\ Len(said) \in Nat
         /\ \A m \in 1 .. Len(said) :
              /\ IsBytes(said[m]) /\ Len(said[m]) \in Nat \ {0}
              /\ m <= Plains => Len(said[m]) <= BufSize
              /\ m > Plains => Len(said[m]) + TagLen \in Lengths
<1> USE LinkAssumption, RoomAssumption
<1>1. Plains \in {1, 2} /\ Len(said) \in Nat /\ Plains <= Len(said)
  BY DEF Messages, Shape, IsBytes
<1>2. ASSUME NEW m \in 1 .. Len(said)
      PROVE  /\ IsBytes(said[m]) /\ Len(said[m]) \in Nat \ {0}
             /\ m <= Plains => Len(said[m]) <= BufSize
             /\ m > Plains => Len(said[m]) + TagLen \in Lengths
  <2>1. CASE m > Plains
    <3>1. Later(said[m])
      BY <2>1 DEF Messages
    <3> QED BY SMTT(30), <2>1, <3>1, <1>1, LaterIs
  <2>2. CASE m = 1
    <3>1. said[m] = InitialOf(session)
      BY <2>2 DEF Messages
    <3>2. IsBytes(said[m]) /\ Len(said[m]) = 3
      BY <3>1, InitialIs
    <3>3. 3 <= BufSize
      OBVIOUS
    <3> QED BY <2>2, <3>2, <3>3, <1>1
  <2>3. CASE m = 2 /\ Plains = 2
    <3>1. said[m] = RegAnswer
      BY <2>3 DEF Messages
    <3>2. IsBytes(said[m]) /\ Len(said[m]) = 2 + Prefix + KeySize
      BY <3>1, RegAnswerIs
    <3> QED BY SMTT(30), <2>3, <3>2
  <2> QED BY <1>1, <2>1, <2>2, <2>3
<1> QED BY <1>1, <1>2

\* What the SESAME says goes behind the queue, in the clear before its first encrypted
\* message or encrypted under its count.
LEMMA SayIs ==
  ASSUME NEW q, NEW s, NEW bytes, NEW secure \in BOOLEAN, NEW a \in Nat, NEW k \in Nat,
         Say(q, s, bytes, secure), session' = session,
         IsBytes(q), IsBytes(said), IsBytes(bytes), Len(bytes) > 0,
         DOMAIN s = {"sec", "in", "out", "buf"}, s.out \in Nat, s.out = ses.out, s.out <= Len(said),
         secure \/ s.out = 0,
         \A m \in 1 .. Len(said) : IsBytes(said[m]) /\ Len(said[m]) > 0,
         OnAir(q, Wire, a, k)
  PROVE  /\ IsBytes(down') /\ OnAir(down', Wire', a, k)
         /\ said' = Append(said, bytes)
         /\ DOMAIN ses' = {"sec", "in", "out", "buf"} /\ ses'.in = s.in /\ ses'.sec = s.sec /\ ses'.buf = s.buf
         /\ ses'.out = IF secure THEN s.out + 1 ELSE s.out
         /\ Plains' = IF secure THEN Plains ELSE Plains + 1
<1>1. said' = Append(said, bytes) /\ ses' = [s EXCEPT !.out = IF secure THEN @ + 1 ELSE @]
  BY DEF Say
<1>2. /\ DOMAIN ses' = {"sec", "in", "out", "buf"} /\ ses'.in = s.in /\ ses'.sec = s.sec /\ ses'.buf = s.buf
      /\ ses'.out = IF secure THEN s.out + 1 ELSE s.out
  BY <1>1
<1>3. /\ Len(said') = Len(said) + 1 /\ Len(said) \in Nat
  BY <1>1, AppendIs DEF IsBytes
<1>4. Plains' = IF secure THEN Plains ELSE Plains + 1
  BY <1>2, <1>3 DEF Plains
<1>5. Plains \in Nat /\ Plains <= Len(said) /\ Len(said) - Plains = s.out
  BY <1>3 DEF Plains
<1> DEFINE w == Wire
           x == IF secure THEN Segments(Encrypt(Token(session), s.out, bytes), "cipher")
                ELSE Segments(bytes, "plain")
<1>6. IsBytes(w) /\ Len(w) = Len(said) /\ \A m \in 1 .. Len(w) : Len(w[m]) \in Nat \ {0}
  BY SMTT(30), <1>5, SentIs DEF Wire
<1>7. Wire' = Append(w, x)
  <2>1. Wire' = Sent(said', Plains', session)
    BY DEF Wire
  <2>2. CASE secure
    <3>1. Sent(Append(said, bytes), Plains, session) =
            Append(Sent(said, Plains, session), Segments(Encrypt(Token(session), Len(said) - Plains, bytes), "cipher"))
      BY ONLY <1>5, IsBytes(said), SentSecure
    <3> QED BY <2>1, <2>2, <3>1, <1>1, <1>4, <1>5 DEF Wire
  <2>3. CASE ~secure
    <3>1. Plains = Len(said)
      BY <2>3, <1>3 DEF Plains
    <3>2. Sent(Append(said, bytes), Len(said) + 1, session) =
            Append(Sent(said, Len(said), session), Segments(bytes, "plain"))
      BY SentPlain
    <3> QED BY <2>1, <2>3, <3>1, <3>2, <1>1, <1>4 DEF Wire
  <2> QED BY <2>2, <2>3
<1>8. down' = q \o x
  BY DEF Say
<1>9. IsBytes(x) /\ Len(x) > 0
  <2>1. CASE secure
    <3> DEFINE e == Encrypt(Token(session), s.out, bytes)
    <3>0. e = Encrypt(Token(session), s.out, bytes)
      OBVIOUS
    <3>1. x = Segments(e, "cipher")
      BY <2>1
    <3> HIDE DEF e, x
    <3>2. IsBytes(e) /\ Len(e) > 0
      BY <3>0, EncryptIs
    <3> QED BY <3>1, <3>2, Cut
  <2>2. CASE ~secure
    <3>1. x = Segments(bytes, "plain")
      BY <2>2
    <3> HIDE DEF x
    <3> QED BY <3>1, Cut
  <2> QED BY <2>1, <2>2
<1> HIDE DEF w, x
<1>10. IsBytes(down')
  BY <1>8, <1>9, ConcatIs
<1>11. OnAir(q, w, a, k)
  BY DEF w
<1>12. OnAir(q \o x, Append(w, x), a, k)
  BY <1>6, <1>9, <1>11, AirMore
<1> QED BY <1>1, <1>2, <1>4, <1>7, <1>8, <1>10, <1>12

-----------------------------------------------------------------------------
(* A segment arrives.                                                      *)

\* Which segment of which message it is, where it goes, and that it fits.
Arrival(k, seg, offset, end, whole) ==
  LET m == Len(heard) + 1
      K == Len(Wire[m])
  IN  /\ m \in 1 .. Len(said) /\ k \in 1 .. K /\ K \in Nat
      /\ seg.first <=> k = 1
      /\ seg.type = IF k < K THEN "append" ELSE TypeOf(Plains, m)
      /\ IF k < K THEN OnAir(Tail(down), Wire, Len(heard), k + 1)
                  ELSE OnAir(Tail(down), Wire, Len(heard) + 1, 1)
      /\ IsBytes(NextMessage) /\ Len(NextMessage) \in Nat
      /\ offset \in Nat /\ end \in Nat /\ end <= BufSize
      /\ IsBytes(whole) /\ Len(whole) = BufSize
      /\ m <= Plains => pc = "idle"
      /\ m <= Plains \/ (~met /\ pc = "idle") =>
           /\ end = IF k < K THEN At(k + 1) ELSE Len(NextMessage)
           /\ \A i \in 1 .. end : whole[i] = NextMessage[i]
      /\ k = K => end > 0 /\ whole[end] = NextMessage[Len(NextMessage)]
      /\ k < K => /\ pc \in {"rest", "encrypt", "count", "store"} => end + TagLen <= BufSize
                  /\ \E n \in Starts :
                       end <= n + At(k) + (IF pc \in {"rest", "encrypt", "count", "store"} THEN 0 ELSE TagLen)

\* The notification that is handled next is a segment of the message after those heard.
LEMMA Where ==
  ASSUME IInv, link, down # <<>>, NEW k \in Nat, OnAir(down, Wire, Len(heard), k)
  PROVE  /\ Len(heard) \in Nat /\ Len(heard) + 1 \in 1 .. Len(said)
         /\ IsBytes(Wire) /\ Len(Wire) = Len(said)
         /\ \A m \in 1 .. Len(said) : Len(Wire[m]) \in Nat \ {0}
         /\ k \in 1 .. Len(Wire[Len(heard) + 1])
         /\ Head(down) = Wire[Len(heard) + 1][k]
         /\ Wire[Len(heard) + 1] = Segments(NextMessage, TypeOf(Plains, Len(heard) + 1))
         /\ IsBytes(NextMessage) /\ Len(NextMessage) \in Nat \ {0} /\ Len(NextMessage) <= BufSize
         /\ Len(heard) + 1 > Plains => Len(NextMessage) \in Lengths
<1>1. Len(heard) \in Nat /\ IsBytes(down) /\ IsBytes(said)
  BY DEF IInv, Shape, IsBytes
<1>2. /\ Plains \in Nat /\ Plains <= Len(said)
      /\ \A m \in 1 .. Len(said) :
              /\ IsBytes(said[m]) /\ Len(said[m]) \in Nat \ {0}
              /\ m <= Plains => Len(said[m]) <= BufSize
              /\ m > Plains => Len(said[m]) + TagLen \in Lengths
  BY SaidAre DEF IInv
<1>3. /\ IsBytes(Wire) /\ Len(Wire) = Len(said)
      /\ \A m \in 1 .. Len(said) :
              /\ Wire[m] = Segments(Encoded(said, Plains, session, m), TypeOf(Plains, m))
              /\ IsBytes(Encoded(said, Plains, session, m)) /\ Len(Encoded(said, Plains, session, m)) \in Nat \ {0}
              /\ Len(Encoded(said, Plains, session, m)) = IF m > Plains THEN Len(said[m]) + TagLen ELSE Len(said[m])
              /\ IsBytes(Wire[m]) /\ Len(Wire[m]) \in Nat \ {0}
  <2>1. Wire = Sent(said, Plains, session)
    BY DEF Wire
  <2>2. \A m \in 1 .. Len(said) : IsBytes(said[m]) /\ (m <= Plains => Len(said[m]) > 0)
    BY <1>2
  <2>3. IsBytes(said) /\ Plains \in Nat
    BY <1>1, <1>2
  <2> QED BY ONLY SMTT(60), <2>1, <2>2, <2>3, SentIs
<1>4. /\ Len(heard) + 1 \in 1 .. Len(Wire) /\ k \in 1 .. Len(Wire[Len(heard) + 1])
      /\ Head(down) = Wire[Len(heard) + 1][k]
  <2>1. IsBytes(down) /\ IsBytes(Wire) /\ Len(heard) \in Nat
    BY <1>1, <1>3
  <2> DEFINE a == Len(heard)
             a1 == a + 1
  <2>2. a \in Nat /\ OnAir(down, Wire, a, k)
    BY <2>1
  <2> HIDE DEF a
  <2>3. a1 \in 1 .. Len(Wire) /\ k \in 1 .. Len(Wire[a1]) /\ Head(down) = Wire[a1][k]
    BY <2>1, <2>2, AirHead
  <2> QED BY <2>3 DEF a
<1> DEFINE m == Len(heard) + 1
<1>m. m \in 1 .. Len(said) /\ m = Len(heard) + 1
  BY <1>3, <1>4
<1>n. NextMessage = Encoded(said, Plains, session, m)
  BY DEF NextMessage
<1> HIDE DEF m
<1>5. /\ Wire[m] = Segments(NextMessage, TypeOf(Plains, m))
      /\ IsBytes(NextMessage) /\ Len(NextMessage) \in Nat \ {0}
      /\ Len(NextMessage) = IF m > Plains THEN Len(said[m]) + TagLen ELSE Len(said[m])
  BY <1>m, <1>n, <1>3
<1>6. m > Plains => Len(NextMessage) \in Lengths
  BY <1>m, <1>5, <1>2
<1>7. m \in Nat
  BY <1>m, <1>1
<1>8. Len(NextMessage) <= BufSize
  BY <1>m, <1>5, <1>6, <1>2, <1>7, RoomAssumption
<1>9. \A j \in 1 .. Len(said) : Len(Wire[j]) \in Nat \ {0}
  BY <1>3
<1> QED BY <1>1, <1>3, <1>4, <1>m, <1>5, <1>6, <1>8, <1>9

\* Where a command may leave c_offset, as numbers.
LEMMA StartsAre == \A n \in Starts : n \in Nat
<1>1. \A c \in Commands : Len(Plain(c)) \in Nat
  <2> TAKE c \in Commands
  <2>1. IsBytes(c.head) /\ IsBytes(c.rest)
    BY BytesAssumption
  <2>2. IsBytes(Plain(c))
    BY <2>1, ConcatIs DEF Plain
  <2> QED BY <2>2 DEF IsBytes
<1>2. Len(AddSesame) + TagLen \in Nat /\ Len(Relock) \in Nat
  BY LinkAssumption, BytesAssumption DEF IsBytes
<1> QED BY <1>1, <1>2, LinkAssumption DEF Starts

\* A segment fits b_buf wherever the command that came between left c_offset.
LEMMA Room ==
  ASSUME NEW k \in Nat \ {0}, NEW K \in Nat, NEW l \in Nat, NEW len \in Nat, NEW n \in Starts, NEW d \in Nat, NEW c \in Nat,
         k > 1, k <= K, l \in Lengths, d <= TagLen, c <= n + At(k - 1) + d,
         k < K => len = SegSize /\ At(k) + SegSize < l,
         k = K => At(k) + len = l /\ len > 0
  PROVE  /\ c + len <= BufSize
         /\ k < K => c + len <= n + At(k) + d /\ c + len + TagLen - d <= BufSize
<1>1. /\ SegSize \in Nat /\ TagLen \in Nat /\ BufSize \in Nat
      /\ l > SegSize => n + TagLen + l - SegSize <= BufSize
  BY LinkAssumption, RoomAssumption
<1>2. n \in Nat
  BY StartsAre
<1>3. At(k) \in Nat /\ At(k) >= SegSize /\ At(k) = At(k - 1) + SegSize /\ At(k - 1) \in Nat
  <2>1. k - 1 \in Nat \ {0} /\ k - 1 + 1 = k
    OBVIOUS
  <2>2. At(k - 1 + 1) = At(k - 1) + SegSize
    BY <2>1, AtStep
  <2>3. At(k - 1) \in Nat
    BY <2>1, AtStep
  <2>4. At(k) \in Nat /\ At(k) >= SegSize
    BY AtStep
  <2> QED BY <2>1, <2>2, <2>3, <2>4
<1>4. l > SegSize
  BY <1>1, <1>3
<1>5. n + TagLen + l - SegSize <= BufSize
  BY <1>1, <1>4
<1>6. CASE k < K
  BY <1>1, <1>2, <1>3, <1>5, <1>6
<1>7. CASE k = K
  BY <1>1, <1>2, <1>3, <1>5, <1>7
<1> QED BY <1>6, <1>7

\* Every notification arrives where it belongs: the buffer holds the message up to its
\* end.
LEMMA Arrives ==
  ASSUME IInv, link, down # <<>>,
         NEW seg, seg = Head(down), NEW offset, offset = OffsetOf(seg),
         NEW end, end = offset + Len(seg.bytes),
         NEW whole, whole = Put(b_buf, offset, seg.bytes)
  PROVE  \E k \in Nat : Arrival(k, seg, offset, end, whole)
<1>1. PICK k \in Nat : OnAir(down, Wire, Len(heard), k) /\ Received(k)
  BY DEF IInv, Stream
<1> DEFINE m == Len(heard) + 1
           K == Len(Wire[m])
           enc == NextMessage
           len == Len(seg.bytes)
           d == IF pc \in {"rest", "encrypt", "count", "store"} THEN 0 ELSE TagLen
<1>2. /\ Len(heard) \in Nat /\ m \in 1 .. Len(said)
      /\ IsBytes(Wire) /\ Len(Wire) = Len(said)
      /\ \A j \in 1 .. Len(said) : Len(Wire[j]) \in Nat \ {0}
      /\ k \in 1 .. K /\ seg = Wire[m][k]
      /\ Wire[m] = Segments(enc, TypeOf(Plains, m))
      /\ IsBytes(enc) /\ Len(enc) \in Nat \ {0} /\ Len(enc) <= BufSize
      /\ m > Plains => Len(enc) \in Lengths
  BY <1>1, Where
<1>m. m = Len(heard) + 1 /\ enc = NextMessage
  OBVIOUS
<1>3. K \in Nat \ {0} /\ m \in Nat /\ k \in Nat \ {0} /\ k <= K
  BY <1>2
<1>4. /\ seg.first <=> k = 1
      /\ IsBytes(seg.bytes)
      /\ \A i \in 1 .. len : seg.bytes[i] = enc[At(k) + i]
      /\ k < K => seg.type = "append" /\ len = SegSize /\ At(k) + SegSize < Len(enc)
      /\ k = K => seg.type = TypeOf(Plains, m) /\ At(k) + len = Len(enc) /\ len \in 1 .. SegSize
  <2> DEFINE segs == Wire[m]
             type == TypeOf(Plains, m)
  <2>1. segs = Segments(enc, type) /\ IsBytes(enc) /\ Len(enc) > 0 /\ k \in 1 .. Len(segs) /\ seg = segs[k]
    BY <1>2
  <2> HIDE DEF segs, type, enc
  <2>2. \A j \in 1 .. Len(segs) :
              /\ segs[j].first <=> j = 1
              /\ IsBytes(segs[j].bytes)
              /\ \A i \in 1 .. Len(segs[j].bytes) : segs[j].bytes[i] = enc[At(j) + i]
              /\ j < Len(segs) => /\ segs[j].type = "append" /\ Len(segs[j].bytes) = SegSize
                                  /\ At(j) + SegSize < Len(enc)
              /\ j = Len(segs) => /\ segs[j].type = type /\ At(j) + Len(segs[j].bytes) = Len(enc)
                                  /\ Len(segs[j].bytes) \in 1 .. SegSize
    BY ONLY <2>1, Cut
  <2>3. /\ seg.first <=> k = 1
        /\ IsBytes(seg.bytes)
        /\ \A i \in 1 .. len : seg.bytes[i] = enc[At(k) + i]
        /\ k < Len(segs) => seg.type = "append" /\ len = SegSize /\ At(k) + SegSize < Len(enc)
        /\ k = Len(segs) => seg.type = type /\ At(k) + len = Len(enc) /\ len \in 1 .. SegSize
    BY <2>1, <2>2
  <2> QED BY <2>3 DEF segs, type
<1>5. IF k < K THEN OnAir(Tail(down), Wire, Len(heard), k + 1) ELSE OnAir(Tail(down), Wire, m, 1)
  <2> DEFINE a == Len(heard)
             a1 == a + 1
             w == Wire
  <2>1. /\ IsBytes(down) /\ IsBytes(w) /\ a \in Nat /\ OnAir(down, w, a, k) /\ down # <<>>
        /\ \A j \in 1 .. Len(w) : Len(w[j]) \in Nat \ {0}
    BY <1>1, <1>2 DEF IInv, Shape
  <2>2. K = Len(w[a1])
    OBVIOUS
  <2> HIDE DEF a, w
  <2>3. IF k < Len(w[a + 1]) THEN OnAir(Tail(down), w, a, k + 1) ELSE OnAir(Tail(down), w, a + 1, 1)
    BY ONLY k \in Nat, <2>1, AirTail
  <2> QED BY <2>2, <2>3 DEF a, w
<1>6. len \in Nat
  BY <1>4 DEF IsBytes
<1>7. k = 1 => offset = 0
  BY <1>4 DEF OffsetOf
<1>8. k > 1 => offset = c_offset
  BY <1>3, <1>4 DEF OffsetOf
<1>9. c_offset \in Nat /\ BufSize \in Nat /\ SegSize \in Nat \ {0} /\ TagLen \in Nat \ {0} /\ Plains \in Nat
  <2>1. Shape /\ Messages
    BY DEF IInv
  <2>2. BufSize \in Nat /\ SegSize \in Nat \ {0} /\ TagLen \in Nat \ {0}
    BY LinkAssumption
  <2>3. c_offset \in 0 .. BufSize
    BY <2>1 DEF Shape
  <2>4. Plains \in {1, 2}
    BY <2>1 DEF Messages
  <2> QED BY ONLY <2>2, <2>3, <2>4
<1>10. offset \in Nat /\ end \in Nat /\ end = offset + len
  BY <1>3, <1>6, <1>7, <1>8, <1>9
<1>11. /\ At(1) = 0 /\ At(k) \in Nat /\ At(k + 1) = At(k) + SegSize
  BY <1>3, AtStep
<1> HIDE DEF m, K, enc, len
<1>12. m <= Plains => pc = "idle"
  BY <1>2, <1>m, <1>9 DEF IInv, Phase
<1>13. ASSUME m <= Plains \/ (~met /\ pc = "idle")
       PROVE  /\ offset = At(k) /\ end = IF k < K THEN At(k + 1) ELSE Len(enc)
              /\ \A i \in 1 .. At(k) : b_buf[i] = enc[i]
  <2>0. pc = "idle"
    BY <1>12, <1>13
  <2>1. Len(heard) < Plains \/ ~met
    BY <1>13, <1>2, <1>m, <1>9
  <2>2. offset = At(k) /\ \A i \in 1 .. At(k) : b_buf[i] = enc[i]
    <3>1. CASE k = 1
      BY <3>1, <1>7, <1>11
    <3>2. CASE k > 1
      BY <3>2, <2>1, <1>1, <1>8, <1>m DEF Received
    <3> QED BY <3>1, <3>2, <1>3
  <2> QED BY <2>2, <1>3, <1>4, <1>10, <1>11
<1>14. /\ IsBytes(whole) /\ Len(whole) = BufSize
       /\ \A i \in 1 .. BufSize : i <= offset => whole[i] = b_buf[i]
       /\ \A i \in 1 .. len : offset + i <= BufSize => whole[offset + i] = seg.bytes[i]
  <2>1. /\ IsBytes(whole) /\ Len(whole) = BufSize
    BY PutBuf
  <2> DEFINE b == seg.bytes
  <2>0. IsBytes(b) /\ offset \in Nat /\ whole = Put(b_buf, offset, b)
    BY <1>4, <1>10
  <2>l. len = Len(b)
    BY DEF len
  <2> HIDE DEF b
  <2>2. \A i \in 1 .. BufSize : i <= offset => whole[i] = b_buf[i]
    BY ONLY <2>0, PutKeeps
  <2>4. \A i \in 1 .. Len(b) : offset + i <= BufSize => whole[offset + i] = b[i]
    BY ONLY <2>0, PutHas
  <2>3. \A i \in 1 .. len : offset + i <= BufSize => whole[offset + i] = seg.bytes[i]
    BY <2>4, <2>l DEF b
  <2> QED BY <2>1, <2>2, <2>3
<1>15. /\ end <= BufSize
       /\ k < K => /\ pc \in {"rest", "encrypt", "count", "store"} => end + TagLen <= BufSize
                   /\ \E n \in Starts : end <= n + At(k) + d
  <2>d. d \in Nat /\ d <= TagLen /\ (pc \in {"rest", "encrypt", "count", "store"} => d = 0)
    BY <1>9
  <2>s. SegSize \in Starts /\ SegSize + TagLen <= BufSize
    BY RoomAssumption DEF Starts
  <2> HIDE DEF d
  <2>1. CASE k = 1
    <3>1. k = K => end = Len(enc)
      BY <2>1, <1>4, <1>7, <1>10, <1>11, <1>2
    <3>2. k < K => end = SegSize
      BY <2>1, <1>4, <1>7, <1>10, <1>9
    <3>3. k < K => end <= SegSize + At(k) + d
      BY <2>1, <2>d, <3>2, <1>11, <1>9
    <3> QED BY SMTT(30), <3>1, <3>2, <3>3, <2>s, <1>2, <1>3, <1>9, <2>d
  <2>2. CASE k > 1 /\ m <= Plains
    <3>1. pc = "idle" /\ end = IF k < K THEN At(k + 1) ELSE Len(enc)
      BY <2>2, <1>12, <1>13
    <3>2. k < K => end < Len(enc)
      BY <3>1, <1>4, <1>11
    <3>3. k < K => end <= SegSize + At(k) + d
      BY <2>d, <3>1, <1>11, <1>9
    <3>4. end <= BufSize
      <4>1. k < K => end <= BufSize
        BY <3>2, <1>2, <1>9, <1>10
      <4>2. k = K => end <= BufSize
        BY <3>1, <1>2, <1>3
      <4> QED BY <4>1, <4>2, <1>3
    <3> QED BY <3>1, <3>3, <3>4, <2>s
  <2>3. CASE k > 1 /\ m > Plains
    <3>1. PICK n \in Starts : c_offset <= n + At(k - 1) + d
      BY <2>3, <1>1 DEF Received, d
    <3>2. Len(enc) \in Lengths /\ Len(enc) \in Nat
      BY <2>3, <1>2
    <3>3. /\ c_offset + len <= BufSize
          /\ k < K => c_offset + len <= n + At(k) + d /\ c_offset + len + TagLen - d <= BufSize
      <4> DEFINE l == Len(enc)
      <4>1. /\ l \in Lengths /\ l \in Nat /\ K \in Nat /\ k \in Nat \ {0} /\ k <= K /\ k > 1
            /\ d \in Nat /\ d <= TagLen /\ c_offset \in Nat /\ len \in Nat
            /\ k < K => len = SegSize /\ At(k) + SegSize < l
            /\ k = K => At(k) + len = l /\ len > 0
        BY <3>2, <2>3, <1>3, <1>9, <1>6, <1>4, <2>d
      <4> HIDE DEF l
      <4> QED BY ONLY <4>1, <3>1, n \in Starts, Room
    <3>4. end = c_offset + len
      BY <2>3, <1>8, <1>10
    <3> QED BY <3>3, <3>4, <2>d, <1>9, <1>6
  <2> QED BY <2>1, <2>2, <2>3, <1>3, <1>2, <1>9, <1>m
<1>16. m <= Plains \/ (~met /\ pc = "idle") => \A i \in 1 .. end : whole[i] = enc[i]
  <2> SUFFICES ASSUME m <= Plains \/ (~met /\ pc = "idle"), NEW i \in 1 .. end PROVE whole[i] = enc[i]
    OBVIOUS
  <2>1. offset = At(k) /\ \A j \in 1 .. At(k) : b_buf[j] = enc[j]
    BY <1>13
  <2>2. CASE i <= offset
    BY <2>1, <2>2, <1>10, <1>14, <1>15, <1>9
  <2>3. CASE i > offset
    <3> DEFINE j == i - offset
    <3>1. j \in 1 .. len /\ i = offset + j /\ i <= BufSize
      BY SMTT(30), <2>3, <1>6, <1>10, <1>15, <1>9
    <3> HIDE DEF j
    <3>2. whole[offset + j] = seg.bytes[j]
      BY <3>1, <1>14
    <3>3. seg.bytes[j] = enc[At(k) + j]
      BY <3>1, <1>4
    <3> QED BY <3>1, <3>2, <3>3, <2>1
  <2> QED BY <2>2, <2>3, <1>10
<1>17. k = K => end > 0 /\ whole[end] = enc[Len(enc)]
  <2> SUFFICES ASSUME k = K PROVE end > 0 /\ whole[end] = enc[Len(enc)]
    OBVIOUS
  <2>1. At(k) + len = Len(enc) /\ len \in 1 .. len /\ len \in 1 .. SegSize
    BY <1>4, <1>6
  <2>2. whole[offset + len] = seg.bytes[len]
    BY <2>1, <1>10, <1>14, <1>15
  <2>3. seg.bytes[len] = enc[At(k) + len]
    BY <2>1, <1>4
  <2> QED BY <2>1, <2>2, <2>3, <1>10, <1>9
<1>18. seg.type = IF k < K THEN "append" ELSE TypeOf(Plains, m)
  BY <1>3, <1>4
<1>19. Arrival(k, seg, offset, end, whole)
  <2>1. K \in Nat /\ k \in 1 .. K /\ m \in 1 .. Len(said) /\ IsBytes(enc) /\ Len(enc) \in Nat
    BY <1>2, <1>3
  <2> QED
    BY <2>1, <1>4, <1>5, <1>10, <1>12, <1>13, <1>14, <1>15, <1>16, <1>17, <1>18 DEF Arrival, m, K, enc, d
<1> QED BY <1>19

-----------------------------------------------------------------------------
(* What the SESAME does with a message.                                    *)

LoginAnswer == <<Op("RESPONSE"), Item("LOGIN")>>
Kinds == {"sec", "in", "out", "buf"}

\* The answer to a login is one of the later messages.
LEMMA LoginAnswerIs == IsBytes(LoginAnswer) /\ Len(LoginAnswer) = 2 /\ Later(LoginAnswer)
<1>1. IsBytes(LoginAnswer) /\ Len(LoginAnswer) = 2 /\ LoginAnswer[2] = Item("LOGIN")
  BY TwoBytes DEF LoginAnswer
<1> QED BY <1>1, LinkAssumption DEF Later, Lengths, Item

\* SayIs for a message in the clear, and for an encrypted one.
LEMMA SayPlain ==
  ASSUME NEW q, NEW s, NEW bytes, NEW a \in Nat, NEW k \in Nat,
         Say(q, s, bytes, FALSE), session' = session,
         IsBytes(q), IsBytes(said), IsBytes(bytes), Len(bytes) > 0,
         DOMAIN s = Kinds, s.out = 0, ses.out = 0,
         \A m \in 1 .. Len(said) : IsBytes(said[m]) /\ Len(said[m]) > 0,
         OnAir(q, Wire, a, k)
  PROVE  /\ IsBytes(down') /\ OnAir(down', Wire', a, k)
         /\ said' = Append(said, bytes)
         /\ DOMAIN ses' = Kinds /\ ses'.in = s.in /\ ses'.sec = s.sec /\ ses'.buf = s.buf
         /\ ses'.out = 0
<1>1. s.out \in Nat /\ s.out = ses.out /\ Len(said) \in Nat /\ s.out <= Len(said)
  BY AsSeq
<1>2. DOMAIN s = {"sec", "in", "out", "buf"}
  BY DEF Kinds
<1> DEFINE secure == FALSE
<1>3. secure = FALSE /\ secure \in BOOLEAN /\ Say(q, s, bytes, secure) /\ (secure \/ s.out = 0)
  OBVIOUS
<1> HIDE DEF secure
<1>4. /\ IsBytes(down') /\ OnAir(down', Wire', a, k)
      /\ said' = Append(said, bytes)
      /\ DOMAIN ses' = {"sec", "in", "out", "buf"} /\ ses'.in = s.in /\ ses'.sec = s.sec /\ ses'.buf = s.buf
      /\ ses'.out = IF secure THEN s.out + 1 ELSE s.out
  BY <1>1, <1>2, <1>3, SayIs
<1> QED BY <1>3, <1>4 DEF Kinds

\* The SESAME says one more encrypted message: its segments are behind those on the air.
LEMMA SaySecure ==
  ASSUME NEW q, NEW s, NEW bytes, NEW a \in Nat, NEW k \in Nat,
         Say(q, s, bytes, TRUE), session' = session,
         IsBytes(q), IsBytes(said), IsBytes(bytes), Len(bytes) > 0,
         DOMAIN s = Kinds, s.out \in Nat, s.out = ses.out, s.out <= Len(said),
         \A m \in 1 .. Len(said) : IsBytes(said[m]) /\ Len(said[m]) > 0,
         OnAir(q, Wire, a, k)
  PROVE  /\ IsBytes(down') /\ OnAir(down', Wire', a, k)
         /\ said' = Append(said, bytes)
         /\ DOMAIN ses' = Kinds /\ ses'.in = s.in /\ ses'.sec = s.sec /\ ses'.buf = s.buf
         /\ ses'.out = s.out + 1 /\ Plains' = Plains
<1>2. DOMAIN s = {"sec", "in", "out", "buf"}
  BY DEF Kinds
<1> DEFINE secure == TRUE
<1>3. secure = TRUE /\ secure \in BOOLEAN /\ Say(q, s, bytes, secure) /\ (secure \/ s.out = 0)
  OBVIOUS
<1> HIDE DEF secure
<1>1. s.out \in Nat /\ s.out = ses.out /\ s.out <= Len(said)
  OBVIOUS
<1>4. /\ IsBytes(down') /\ OnAir(down', Wire', a, k)
      /\ said' = Append(said, bytes)
      /\ DOMAIN ses' = {"sec", "in", "out", "buf"} /\ ses'.in = s.in /\ ses'.sec = s.sec /\ ses'.buf = s.buf
      /\ ses'.out = IF secure THEN s.out + 1 ELSE s.out
  BY ZenonT(40), <1>1, <1>2, <1>3, SayIs
<1>5. Plains' = IF secure THEN Plains ELSE Plains + 1
  BY <1>1, <1>2, <1>3, SayIs
<1> QED BY <1>3, <1>4, <1>5 DEF Kinds

\* What a SESAME does with a message in the clear: it registers, lets in, or drops it.
LEMMA HearsPlain ==
  ASSUME NEW q, NEW bytes, NEW number, SesameHears(q, "plain", bytes, number), DOMAIN ses = Kinds
  PROVE  \E s :
           /\ DOMAIN s = Kinds /\ s.in = ses.in /\ s.out = ses.out /\ s.sec = ses.sec /\ s.buf = <<>>
           /\ UNCHANGED obeyed
           /\ \/ /\ bytes # <<>> /\ bytes[1] = Item("REGISTRATION") /\ ~registered /\ registered' = TRUE
                 /\ Say(q, s, RegAnswer, FALSE)
              \/ /\ bytes # <<>> /\ bytes[1] = Item("LOGIN") /\ UNCHANGED registered
                 /\ Say(q, [s EXCEPT !.sec = TRUE], LoginAnswer, TRUE)
              \/ ses' = s /\ down' = q /\ UNCHANGED <<said, registered>>
<1> DEFINE type == "plain"
           s == [ses EXCEPT !.in = IF type = "cipher" THEN @ + 1 ELSE @, !.buf = <<>>]
           item == IF bytes = <<>> THEN Zero ELSE bytes[1]
<1>1. DOMAIN s = Kinds /\ s.in = ses.in /\ s.out = ses.out /\ s.sec = ses.sec /\ s.buf = <<>>
  BY DEF Kinds
<1>2. bytes = <<>> => item # Item("REGISTRATION") /\ item # Item("LOGIN")
  BY DEF Zero, Item
<1> DEFINE ra == <<Op("RESPONSE"), Item("REGISTRATION")>> \o Fill("mech", Prefix) \o Key
           la == <<Op("RESPONSE"), Item("LOGIN")>>
           A == item = Item("REGISTRATION") /\ ~registered
           B == /\ item = Item("LOGIN") /\ registered /\ Len(bytes) = 2 /\ bytes[2] = <<"mac", Token(session)>>
<1>3. CASE A
  <2>1. registered' = TRUE /\ Say(q, s, ra, FALSE) /\ UNCHANGED obeyed
    BY <1>3 DEF SesameHears
  <2>2. bytes # <<>> /\ bytes[1] = Item("REGISTRATION") /\ ~registered
    BY <1>2, <1>3
  <2>3. Say(q, s, RegAnswer, FALSE)
    BY <2>1 DEF RegAnswer
  <2> HIDE DEF s
  <2> QED BY <1>1, <2>1, <2>2, <2>3
<1>4. CASE B /\ ~A
  <2>1. Say(q, [s EXCEPT !.sec = TRUE], la, TRUE) /\ UNCHANGED <<obeyed, registered>>
    BY <1>4 DEF SesameHears
  <2>2. bytes # <<>> /\ bytes[1] = Item("LOGIN")
    BY <1>2, <1>4
  <2>3. Say(q, [s EXCEPT !.sec = TRUE], LoginAnswer, TRUE)
    BY <2>1 DEF LoginAnswer
  <2> HIDE DEF s
  <2> QED BY <1>1, <2>1, <2>2, <2>3
<1>5. CASE ~A /\ ~B
  <2>1. ses' = s /\ down' = q /\ UNCHANGED <<said, obeyed, registered>>
    BY <1>5 DEF SesameHears
  <2> HIDE DEF s
  <2> QED BY <1>1, <2>1
<1> QED BY <1>3, <1>4, <1>5

\* What a SESAME does with an encrypted message: it obeys and answers, or drops it.
Reacts(q, plain, number, s) ==
  /\ DOMAIN s = Kinds /\ s.in = ses.in + 1 /\ s.out = ses.out /\ s.sec = ses.sec /\ s.buf = <<>>
  /\ UNCHANGED registered
  /\ \/ /\ ses.sec /\ plain # <<>> /\ plain[1] \notin {Zero, Item("INITIAL"), Item("REGISTRATION")}
        /\ obeyed' = Append(obeyed, <<number, plain>>)
        /\ Say(q, s, <<Op("RESPONSE"), plain[1]>>, TRUE)
     \/ ses' = s /\ down' = q /\ UNCHANGED <<said, obeyed>>
Decides(q, plain, number) == \E s : Reacts(q, plain, number, s)

\* It obeys and answers, or drops it, whatever the bytes are.
LEMMA HearsCipher ==
  ASSUME NEW q, NEW bytes, NEW number, SesameHears(q, "cipher", bytes, number),
         DOMAIN ses = Kinds, ses.in \in Nat,
         NEW plain, plain = Decrypt(Token(session), ses.in, bytes)
  PROVE  Decides(q, plain, number)
<1> DEFINE type == "cipher"
           s == [ses EXCEPT !.in = IF type = "cipher" THEN @ + 1 ELSE @, !.buf = <<>>]
           item == IF plain = <<>> THEN Zero ELSE plain[1]
           A == s.sec /\ item \notin {Zero, Item("INITIAL"), Item("REGISTRATION")}
<1>1. DOMAIN s = Kinds /\ s.in = ses.in + 1 /\ s.out = ses.out /\ s.sec = ses.sec /\ s.buf = <<>>
  BY DEF Kinds
<1>2. "cipher" # "plain"
  OBVIOUS
<1>3. CASE A
  <2>1. /\ obeyed' = Append(obeyed, <<number, plain>>)
        /\ Say(q, s, <<Op("RESPONSE"), item>>, TRUE) /\ UNCHANGED registered
    BY <1>2, <1>3 DEF SesameHears
  <2>2. plain # <<>> /\ plain[1] = item /\ plain[1] \notin {Zero, Item("INITIAL"), Item("REGISTRATION")}
    BY <1>3
  <2>3. ses.sec
    BY <1>1, <1>3
  <2> HIDE DEF s, item
  <2>4. Say(q, s, <<Op("RESPONSE"), plain[1]>>, TRUE)
    BY <2>1, <2>2
  <2> QED BY <1>1, <2>1, <2>2, <2>3, <2>4 DEF Decides, Reacts
<1>4. CASE ~A
  <2>1. ses' = s /\ down' = q /\ UNCHANGED <<said, obeyed, registered>>
    BY <1>2, <1>4 DEF SesameHears
  <2> HIDE DEF s
  <2> QED BY <1>1, <2>1 DEF Decides, Reacts
<1> QED BY <1>3, <1>4

\* What a message in the clear leads to, before the login.
Talked(first, a) ==
  /\ IsBytes(b_buf') /\ Len(b_buf') = BufSize
  /\ lost' \in Nat /\ (lost' = 0 => lost = 0)
  /\ UNCHANGED obeyed
  /\ IsBytes(down') /\ OnAir(down', Wire', a, 1)
  /\ DOMAIN ses' = Kinds /\ IsBytes(ses'.buf) /\ ses'.in = ses.in
  /\ \/ said' = said /\ ses'.out = 0 /\ ses'.sec = FALSE /\ registered' = registered
     \/ /\ first = Item("REGISTRATION") /\ said' = Append(said, RegAnswer)
        /\ ses'.out = 0 /\ ses'.sec = FALSE /\ registered' = TRUE
     \/ /\ first = Item("LOGIN") /\ said' = Append(said, LoginAnswer)
        /\ ses'.out = 1 /\ ses'.sec = TRUE /\ registered' = registered

\* talk_to_ssm in a callback: the write is lost, or the SESAME hears the whole message.
LEMMA Talks ==
  ASSUME NEW bytes, HostTalks(bytes), NEW a \in Nat, OnAir(Tail(down), Wire, a, 1),
         Shape, link, Messages, down # <<>>, session' = session, ses.out = 0, ses.sec = FALSE
  PROVE  Talked(bytes[1], a)
<1> DEFINE q == Tail(down)
<1>1. /\ IsBytes(down) /\ IsBytes(said) /\ DOMAIN ses = Kinds /\ IsBytes(ses.buf) /\ lost \in Nat
      /\ registered \in BOOLEAN
  BY DEF Shape, Kinds
<1>2. IsBytes(q) /\ OnAir(q, Wire, a, 1)
  BY <1>1, TailIs
<1>3. /\ Len(said) \in Nat
      /\ \A m \in 1 .. Len(said) : IsBytes(said[m]) /\ Len(said[m]) > 0
  BY SaidAre
<1>4. IsBytes(b_buf') /\ Len(b_buf') = BufSize
  BY PutBuf DEF HostTalks
<1>5. CASE lost' = lost + 1 /\ down' = q /\ UNCHANGED <<said, ses, obeyed, registered>>
  <2>1. Wire' = Wire
    BY <1>5 DEF Wire, Plains
  <2> HIDE DEF q
  <2> QED BY <2>1, <1>1, <1>2, <1>4, <1>5 DEF Talked
<1>6. CASE UNCHANGED lost /\ SesameHears(q, "plain", bytes, 0)
  <2> HIDE DEF q
  <2>1. PICK s :
           /\ DOMAIN s = Kinds /\ s.in = ses.in /\ s.out = ses.out /\ s.sec = ses.sec /\ s.buf = <<>>
           /\ UNCHANGED obeyed
           /\ \/ /\ bytes # <<>> /\ bytes[1] = Item("REGISTRATION") /\ ~registered /\ registered' = TRUE
                 /\ Say(q, s, RegAnswer, FALSE)
              \/ /\ bytes # <<>> /\ bytes[1] = Item("LOGIN") /\ UNCHANGED registered
                 /\ Say(q, [s EXCEPT !.sec = TRUE], LoginAnswer, TRUE)
              \/ ses' = s /\ down' = q /\ UNCHANGED <<said, registered>>
    BY <1>1, <1>6, HearsPlain
  <2>2. CASE ses' = s /\ down' = q /\ UNCHANGED <<said, registered>>
    <3>1. Wire' = Wire
      BY <2>1, <2>2 DEF Wire, Plains
    <3> QED BY <3>1, <2>1, <2>2, <1>1, <1>2, <1>4, <1>6, NoBytes DEF Talked
  <2>3. CASE bytes[1] = Item("REGISTRATION") /\ registered' = TRUE /\ Say(q, s, RegAnswer, FALSE)
    <3>1. IsBytes(RegAnswer) /\ Len(RegAnswer) > 0
      BY RegAnswerIs, LinkAssumption
    <3>2. /\ IsBytes(down') /\ OnAir(down', Wire', a, 1) /\ said' = Append(said, RegAnswer)
          /\ DOMAIN ses' = Kinds /\ ses'.in = s.in /\ ses'.sec = s.sec /\ ses'.buf = s.buf
          /\ ses'.out = 0
      <4>1. Say(q, s, RegAnswer, FALSE) /\ s.out = 0 /\ DOMAIN s = Kinds
        BY <2>1, <2>3
      <4>2. session' = session /\ ses.out = 0 /\ IsBytes(said) /\ a \in Nat /\ 1 \in Nat
        BY <1>1
      <4> DEFINE k == 1
      <4>k. k \in Nat /\ IsBytes(q) /\ OnAir(q, Wire, a, k)
        BY <1>2
      <4> HIDE DEF k
      <4>5. /\ IsBytes(down') /\ OnAir(down', Wire', a, k) /\ said' = Append(said, RegAnswer)
            /\ DOMAIN ses' = Kinds /\ ses'.in = s.in /\ ses'.sec = s.sec /\ ses'.buf = s.buf
            /\ ses'.out = 0
        BY ONLY <4>k, <4>1, <4>2, <3>1, <1>3, SayPlain
      <4> QED BY <4>5 DEF k
    <3> QED BY <3>2, <2>1, <2>3, <1>1, <1>4, <1>6, NoBytes DEF Talked, Kinds
  <2>4. CASE bytes[1] = Item("LOGIN") /\ UNCHANGED registered /\ Say(q, [s EXCEPT !.sec = TRUE], LoginAnswer, TRUE)
    <3> DEFINE s1 == [s EXCEPT !.sec = TRUE]
    <3>1. DOMAIN s1 = Kinds /\ s1.in = s.in /\ s1.out = s.out /\ s1.sec = TRUE /\ s1.buf = s.buf
      BY <2>1 DEF Kinds
    <3>2. Say(q, s1, LoginAnswer, TRUE)
      BY <2>4
    <3> HIDE DEF s1
    <3>3. /\ IsBytes(down') /\ OnAir(down', Wire', a, 1) /\ said' = Append(said, LoginAnswer)
          /\ DOMAIN ses' = Kinds /\ ses'.in = s1.in /\ ses'.sec = s1.sec /\ ses'.buf = s1.buf
          /\ ses'.out = s1.out + 1
      <4>1. s1.out \in Nat /\ s1.out = ses.out /\ s1.out <= Len(said)
        BY <3>1, <2>1, <1>3
      <4>2. IsBytes(LoginAnswer) /\ Len(LoginAnswer) > 0
        BY LoginAnswerIs
      <4>3. session' = session /\ IsBytes(said) /\ a \in Nat /\ 1 \in Nat /\ DOMAIN s1 = Kinds
        BY <1>1, <3>1
      <4> DEFINE k == 1
      <4>k. k \in Nat /\ IsBytes(q) /\ OnAir(q, Wire, a, k)
        BY <1>2
      <4> HIDE DEF k
      <4>5. /\ IsBytes(down') /\ OnAir(down', Wire', a, k) /\ said' = Append(said, LoginAnswer)
            /\ DOMAIN ses' = Kinds /\ ses'.in = s1.in /\ ses'.sec = s1.sec /\ ses'.buf = s1.buf
            /\ ses'.out = s1.out + 1
        BY ONLY <4>k, <4>1, <4>2, <4>3, <3>2, <1>3, SaySecure
      <4> QED BY <4>5 DEF k
    <3> QED BY <3>1, <3>3, <2>1, <2>4, <1>1, <1>4, <1>6, NoBytes DEF Talked, Kinds
  <2> QED BY <2>1, <2>2, <2>3, <2>4
<1> QED BY <1>5, <1>6 DEF HostTalks

\* What one encrypted command of a callback leads to: its answer, or nothing more.
Orders(bytes, a, k) ==
  /\ IsBytes(b_buf') /\ Len(b_buf') = BufSize
  /\ encrypt' = encrypt + 1 /\ asked' = Append(asked, bytes)
  /\ nonces' = Append(nonces, [nonce |-> <<token, encrypt>>, squeezed |-> pc \in {"count", "store"}])
  /\ lost' \in Nat /\ (lost' = 0 => lost = 0 /\ ses'.in = ses.in + 1)
  /\ IsBytes(down') /\ OnAir(down', Wire', a, k)
  /\ DOMAIN ses' = Kinds /\ IsBytes(ses'.buf) /\ ses'.sec = ses.sec /\ ses'.in \in Nat
  /\ Plains' = Plains /\ UNCHANGED registered
  /\ \/ UNCHANGED said /\ ses'.out = ses.out
     \/ ses.sec /\ ses'.out = ses.out + 1 /\ \E x : Later(x) /\ said' = Append(said, x)
  /\ UNCHANGED obeyed \/ obeyed' = Append(obeyed, <<Len(asked) + 1, bytes>>)

\* An answer of the SESAME to a command.
LEMMA AnswerIs ==
  ASSUME NEW item, item \notin {Item("INITIAL"), Item("REGISTRATION")}
  PROVE  Later(<<Op("RESPONSE"), item>>)
<1> DEFINE y == <<Op("RESPONSE"), item>>
<1>1. IsBytes(y) /\ Len(y) = 2 /\ y[2] = item
  BY TwoBytes
<1> HIDE DEF y
<1>2. Later(y)
  BY <1>1, LinkAssumption DEF Later, Lengths
<1> QED BY <1>2 DEF y

\* A plaintext that the SESAME does not drop is the one that was encrypted.
LEMMA DecryptSent ==
  ASSUME NEW t, NEW n, NEW x, NEW p, IsBytes(x), Len(x) > 0, x[Len(x)][2].of = p,
         NEW plain, plain = Decrypt(t, n, x), plain # <<>>, plain[1] # Zero
  PROVE  plain = p
<1>1. plain = p \/ plain = [i \in 1 .. Len(x) - TagLen |-> Zero]
  BY DecryptSome
<1> DEFINE w == Len(x) - TagLen
<1>2. w \in Int
  BY LinkAssumption DEF IsBytes
<1> SUFFICES ASSUME plain = [i \in 1 .. w |-> Zero] PROVE FALSE
  BY <1>1
<1>3. plain = [i \in 1 .. w |-> Zero]
  OBVIOUS
<1> HIDE DEF w
<1>4. CASE w > 0
  <2>1. 1 \in 1 .. w
    BY <1>2, <1>4
  <2>2. plain[1] = Zero
    BY ONLY <1>3, <2>1
  <2> QED BY <2>2
<1>5. CASE w <= 0
  <2>1. 1 .. w = 1 .. 0
    BY <1>2, <1>5
  <2>2. plain = [i \in 1 .. 0 |-> Zero] /\ 0 \in Nat
    BY <1>3, <2>1
  <2>3. IsBytes(plain) /\ Len(plain) = 0
    BY <2>2, FnIs
  <2> QED BY <2>3, NoBytes
<1> QED BY <1>2, <1>4, <1>5

\* talk_to_ssm in a callback, encrypted.
LEMMA OrdersIs ==
  ASSUME Shape, link, Messages, NEW q, NEW buf, NEW bytes, HostOrders(q, buf, bytes), session' = session,
         NEW a \in Nat, NEW k \in Nat, IsBytes(q), OnAir(q, Wire, a, k), IsBytes(bytes)
  PROVE  Orders(bytes, a, k)
<1> DEFINE e == Encrypt(token, encrypt, bytes)
           number == Len(asked) + 1
<1>1. /\ encrypt' = encrypt + 1 /\ asked' = Append(asked, bytes)
      /\ nonces' = Append(nonces, [nonce |-> <<token, encrypt>>, squeezed |-> pc \in {"count", "store"}])
      /\ \/ lost' = lost + 1 /\ down' = q /\ UNCHANGED <<said, ses, obeyed, registered>>
         \/ UNCHANGED lost /\ SesameHears(q, "cipher", e, number)
  BY DEF HostOrders, Uses
<1>2. IsBytes(b_buf') /\ Len(b_buf') = BufSize
  BY PutBuf DEF HostOrders
<1>3. /\ DOMAIN ses = Kinds /\ IsBytes(ses.buf) /\ ses.in \in Nat /\ ses.out \in Nat /\ lost \in Nat
      /\ IsBytes(said)
  BY DEF Shape, Kinds
<1>4. /\ Len(said) \in Nat /\ Plains \in Nat /\ Plains <= Len(said)
      /\ \A m \in 1 .. Len(said) : IsBytes(said[m]) /\ Len(said[m]) > 0
  BY SaidAre
<1>5. IsBytes(e) /\ Len(e) > 0 /\ e[Len(e)][2].of = bytes
  <2>1. IsBytes(e) /\ Len(e) \in Nat \ {0} /\ \A i \in 1 .. Len(e) : e[i][2].of = bytes
    BY EncryptIs
  <2> QED BY <2>1
<1> HIDE DEF e, number
<1>6. CASE lost' = lost + 1 /\ down' = q /\ UNCHANGED <<said, ses, obeyed, registered>>
  <2>1. Wire' = Wire /\ Plains' = Plains
    BY <1>6 DEF Wire, Plains
  <2>2. lost' \in Nat /\ lost' # 0
    BY <1>3, <1>6
  <2> QED BY <1>1, <1>2, <1>3, <1>6, <2>1, <2>2 DEF Orders
<1>7. CASE UNCHANGED lost /\ SesameHears(q, "cipher", e, number)
  <2> DEFINE plain == Decrypt(Token(session), ses.in, e)
  <2>1. plain = Decrypt(Token(session), ses.in, e)
    OBVIOUS
  <2> HIDE DEF plain
  <2>h. Decides(q, plain, number)
    BY <1>3, <1>7, <2>1, HearsCipher
  <2>2. PICK s : Reacts(q, plain, number, s)
    BY <2>h DEF Decides
  <2>r. /\ DOMAIN s = Kinds /\ s.in = ses.in + 1 /\ s.out = ses.out /\ s.sec = ses.sec /\ s.buf = <<>>
        /\ UNCHANGED registered
        /\ \/ /\ ses.sec /\ plain # <<>> /\ plain[1] \notin {Zero, Item("INITIAL"), Item("REGISTRATION")}
              /\ obeyed' = Append(obeyed, <<number, plain>>)
              /\ Say(q, s, <<Op("RESPONSE"), plain[1]>>, TRUE)
           \/ ses' = s /\ down' = q /\ UNCHANGED <<said, obeyed>>
    BY <2>2 DEF Reacts
  <2>3. CASE ses' = s /\ down' = q /\ UNCHANGED <<said, obeyed>>
    <3>1. Wire' = Wire /\ Plains' = Plains
      BY <2>r, <2>3 DEF Wire, Plains
    <3>2. ses'.in \in Nat /\ IsBytes(ses'.buf)
      BY <2>r, <2>3, <1>3, NoBytes
    <3> QED BY <1>1, <1>2, <1>3, <1>7, <2>r, <2>3, <3>1, <3>2 DEF Orders
  <2>4. CASE /\ ses.sec /\ plain # <<>> /\ plain[1] \notin {Zero, Item("INITIAL"), Item("REGISTRATION")}
             /\ obeyed' = Append(obeyed, <<number, plain>>)
             /\ Say(q, s, <<Op("RESPONSE"), plain[1]>>, TRUE)
    <3> DEFINE y == <<Op("RESPONSE"), plain[1]>>
    <3>1. Later(y) /\ Say(q, s, y, TRUE)
      BY <2>4, AnswerIs
    <3> HIDE DEF y
    <3>2. IsBytes(y) /\ Len(y) > 0
      BY <3>1, LaterIs
    <3>3. s.out \in Nat /\ s.out = ses.out /\ s.out <= Len(said)
      BY <2>r, <1>3, <1>4 DEF Plains
    <3>4. /\ IsBytes(down') /\ OnAir(down', Wire', a, k)
          /\ said' = Append(said, y)
          /\ DOMAIN ses' = Kinds /\ ses'.in = s.in /\ ses'.sec = s.sec /\ ses'.buf = s.buf
          /\ ses'.out = s.out + 1 /\ Plains' = Plains
      <4>1. Say(q, s, y, TRUE) /\ DOMAIN s = Kinds
        BY <2>r, <3>1
      <4> QED BY ONLY <4>1, session' = session, a \in Nat, k \in Nat, IsBytes(q), OnAir(q, Wire, a, k),
                 <1>3, <1>4, <3>2, <3>3, SaySecure
    <3>5. plain = bytes
      BY <1>5, <2>1, <2>4, DecryptSent
    <3>6. ses'.in \in Nat /\ IsBytes(ses'.buf)
      BY <2>r, <3>4, <1>3, NoBytes
    <3>7. obeyed' = Append(obeyed, <<Len(asked) + 1, bytes>>)
      BY <2>4, <3>5 DEF number
    <3>8. ses.sec /\ ses'.out = ses.out + 1 /\ \E x : Later(x) /\ said' = Append(said, x)
      BY <2>r, <2>4, <3>1, <3>4
    <3> QED BY <1>1, <1>2, <1>3, <1>7, <2>r, <3>4, <3>6, <3>7, <3>8 DEF Orders
  <2> QED BY <2>r, <2>3, <2>4
<1> QED BY <1>1, <1>6, <1>7

\* A callback ends with one encrypted command or with none.
Ends(a, k) ==
  \/ /\ UNCHANGED <<encrypt, said, ses, asked, obeyed, nonces, registered, lost>>
     /\ IsBytes(b_buf') /\ Len(b_buf') = BufSize /\ IsBytes(down') /\ OnAir(down', Wire, a, k)
  \/ \E bytes : IsBytes(bytes) /\ Orders(bytes, a, k)

\* What a callback leaves alone after the login.
LoggedIn ==
  /\ link /\ heard # <<>> /\ heard' # <<>> /\ pc # "panic" /\ device_secret = Key
  /\ UNCHANGED <<device_secret, code, token, pc, todo, loaded, data, remain, link, session, wild>>
  /\ met' \in BOOLEAN /\ (~met' => ~met /\ pc = "idle")

\* The nonce of the command is new, or squeezed.
LEMMA NonceIsNew ==
  ASSUME Shape, Secret, Used, Once, LoggedIn, encrypt' = encrypt + 1,
         nonces' = Append(nonces, [nonce |-> <<token, encrypt>>, squeezed |-> pc \in {"count", "store"}])
  PROVE  IsBytes(nonces') /\ Used' /\ Once' /\ (SqueezedIn \/ pc \in {"count", "store"} => SqueezedIn')
<1> DEFINE n == Len(nonces)
           new == [nonce |-> <<token, encrypt>>, squeezed |-> pc \in {"count", "store"}]
<1>1. /\ IsBytes(nonces) /\ n \in Nat /\ encrypt \in Nat /\ loaded \in Nat /\ code \in Nat
      /\ token = Token(code) /\ pc # "panic"
      /\ UNCHANGED <<code, token, pc, loaded>>
  <2>1. Key # <<>>
    BY KeyIs
  <2> QED BY <2>1 DEF Shape, Secret, LoggedIn, IsBytes
<1>2. /\ new.nonce = <<Token(code), encrypt>> /\ new.squeezed \in BOOLEAN /\ new.nonce[1] = token
      /\ pc \in {"count", "store"} => new.squeezed = TRUE
      /\ pc \notin {"count", "store"} => new.squeezed = FALSE
  <2> DEFINE b == pc \in {"count", "store"}
  <2>1. /\ b \in BOOLEAN /\ (pc \in {"count", "store"} => b = TRUE)
        /\ pc \notin {"count", "store"} => b = FALSE
    OBVIOUS
  <2>2. new = [nonce |-> <<token, encrypt>>, squeezed |-> b]
    OBVIOUS
  <2> HIDE DEF b, new
  <2>3. new.nonce = <<token, encrypt>> /\ new.squeezed = b
    BY <2>2
  <2> QED BY <2>1, <2>3, <1>1
<1>3. nonces' = Append(nonces, new)
  OBVIOUS
<1> HIDE DEF new
<1>4. /\ IsBytes(nonces') /\ Len(nonces') = n + 1 /\ nonces'[n + 1] = new
      /\ \A i \in 1 .. n : nonces'[i] = nonces[i]
  BY <1>1, <1>3, AppendIs
<1> HIDE DEF n
<1>5. \A i \in 1 .. n + 1 : i \in 1 .. n \/ i = n + 1
  BY <1>1
<1>6. ASSUME NEW i \in 1 .. n
      PROVE  /\ nonces[i].squeezed \in BOOLEAN
             /\ \E s \in 0 .. code, c \in Nat :
                  /\ nonces[i].nonce = <<Token(s), c>>
                  /\ s = code /\ ~nonces[i].squeezed => c < NextCount
  BY <1>1 DEF Used, n
<1>7. /\ NextCount \in Nat /\ NextCount' \in Nat /\ NextCount <= NextCount'
      /\ pc \notin {"count", "store"} => NextCount = encrypt /\ NextCount' = encrypt + 1
  BY <1>1 DEF NextCount
<1>8. Used'
  <2>1. ASSUME NEW i \in 1 .. n
        PROVE  /\ nonces'[i].squeezed \in BOOLEAN
               /\ \E s \in 0 .. code, c \in Nat :
                    /\ nonces'[i].nonce = <<Token(s), c>>
                    /\ s = code /\ ~nonces'[i].squeezed => c < NextCount'
    <3>1. nonces'[i] = nonces[i]
      BY <1>4
    <3>2. PICK s \in 0 .. code, c \in Nat :
            /\ nonces[i].nonce = <<Token(s), c>>
            /\ s = code /\ ~nonces[i].squeezed => c < NextCount
      BY <1>6
    <3>3. s = code /\ ~nonces[i].squeezed => c < NextCount'
      BY <3>2, <1>7
    <3> QED BY <3>1, <3>2, <3>3, <1>6
  <2>2. /\ nonces'[n + 1].squeezed \in BOOLEAN
        /\ \E s \in 0 .. code, c \in Nat :
             /\ nonces'[n + 1].nonce = <<Token(s), c>>
             /\ s = code /\ ~nonces'[n + 1].squeezed => c < NextCount'
    <3>1. nonces'[n + 1].nonce = <<Token(code), encrypt>> /\ code \in 0 .. code
      BY <1>1, <1>2, <1>4
    <3>2. ~nonces'[n + 1].squeezed => encrypt < NextCount'
      BY <1>1, <1>2, <1>4, <1>7
    <3> QED BY <3>1, <3>2, <1>1, <1>2, <1>4
  <2>3. ASSUME NEW i \in 1 .. n + 1
        PROVE  /\ nonces'[i].squeezed \in BOOLEAN
               /\ \E s \in 0 .. code', c \in Nat :
                    /\ nonces'[i].nonce = <<Token(s), c>>
                    /\ s = code' /\ ~nonces'[i].squeezed => c < NextCount'
    <3>1. CASE i \in 1 .. n
      BY <3>1, <2>1, <1>1
    <3>2. CASE i = n + 1
      BY <3>2, <2>2, <1>1
    <3> QED BY <3>1, <3>2, <1>5
  <2>4. Len(nonces') = n + 1
    BY <1>4
  <2> HIDE DEF Used
  <2>5. \A i \in 1 .. Len(nonces') :
          /\ nonces'[i].squeezed \in BOOLEAN
          /\ \E s \in 0 .. code', c \in Nat :
               /\ nonces'[i].nonce = <<Token(s), c>>
               /\ s = code' /\ ~nonces'[i].squeezed /\ pc' # "panic" => c < NextCount'
    <3> TAKE i \in 1 .. Len(nonces')
    <3>0. i \in 1 .. n + 1
      BY <2>4
    <3>1. PICK s \in 0 .. code', c \in Nat :
               /\ nonces'[i].nonce = <<Token(s), c>>
               /\ s = code' /\ ~nonces'[i].squeezed => c < NextCount'
      BY <3>0, <2>3
    <3>2. nonces'[i].squeezed \in BOOLEAN
      BY <3>0, <2>3
    <3> QED BY ONLY <3>1, <3>2
  <2> QED BY ONLY <2>5 DEF Used
<1>9. ASSUME NEW i \in 1 .. n, nonces[i].nonce = new.nonce PROVE nonces[i].squeezed \/ new.squeezed
  <2>1. PICK s \in 0 .. code, c \in Nat :
            /\ nonces[i].nonce = <<Token(s), c>>
            /\ s = code /\ ~nonces[i].squeezed => c < NextCount
    BY <1>6
  <2>2. Token(s) = Token(code) /\ c = encrypt
    BY <2>1, <1>2, <1>9
  <2>3. s = code
    BY <2>2 DEF Token
  <2> QED BY <2>1, <2>2, <2>3, <1>1, <1>2, <1>7
<1>10. Once'
  <2> SUFFICES ASSUME NEW i \in 1 .. n + 1, NEW j \in 1 .. n + 1, i # j, nonces'[i].nonce = nonces'[j].nonce
               PROVE  nonces'[i].squeezed \/ nonces'[j].squeezed
    BY <1>4 DEF Once
  <2>1. CASE i \in 1 .. n /\ j \in 1 .. n
    BY <2>1, <1>4 DEF Once, n
  <2>2. CASE i = n + 1 /\ j \in 1 .. n
    BY <2>2, <1>4, <1>9
  <2>3. CASE i \in 1 .. n /\ j = n + 1
    BY <2>3, <1>4, <1>9
  <2> QED BY <2>1, <2>2, <2>3, <1>5
<1>11. SqueezedIn => SqueezedIn'
  <2> SUFFICES ASSUME NEW i \in 1 .. n, nonces[i].squeezed, nonces[i].nonce[1] = token PROVE SqueezedIn'
    BY DEF SqueezedIn, n
  <2>1. i \in 1 .. n + 1 /\ nonces'[i] = nonces[i]
    BY <1>1, <1>4
  <2> QED BY <2>1, <1>1, <1>4 DEF SqueezedIn
<1>12. pc \in {"count", "store"} => SqueezedIn'
  <2>1. n + 1 \in 1 .. n + 1
    BY <1>1
  <2> QED BY <2>1, <1>1, <1>2, <1>4 DEF SqueezedIn
<1> QED BY <1>4, <1>8, <1>10, <1>11, <1>12

\* What the end of a callback leaves of the invariant.
Keeps(a, k) ==
  /\ IsBytes(b_buf') /\ Len(b_buf') = BufSize /\ encrypt' \in Nat /\ lost' \in Nat /\ UNCHANGED registered
  /\ IsBytes(down') /\ IsBytes(said') /\ IsBytes(asked') /\ IsBytes(obeyed') /\ IsBytes(nonces')
  /\ DOMAIN ses' = Kinds /\ IsBytes(ses'.buf) /\ ses'.sec = ses.sec /\ ses'.in \in Nat
  /\ ses'.out = ses.out \/ (ses.sec /\ ses'.out = ses.out + 1)
  /\ Plains' = Plains /\ OnAir(down', Wire', a, k)
  /\ Len(said') >= Len(said) /\ Len(said') \in Nat /\ \A m \in 1 .. Len(said) : said'[m] = said[m]
  /\ Messages' /\ Used' /\ Once' /\ Obeyed' /\ Counts'

\* A callback that sends nothing.
LEMMA QuietKeeps ==
  ASSUME Shape, Used, Once, Messages, Obeyed, Counts, LoggedIn, NEW a, NEW k,
         UNCHANGED <<encrypt, said, ses, asked, obeyed, nonces, registered, lost>>,
         IsBytes(b_buf'), Len(b_buf') = BufSize, IsBytes(down'), OnAir(down', Wire, a, k)
  PROVE  Keeps(a, k)
<1>1. /\ link /\ heard # <<>> /\ pc # "panic"
      /\ UNCHANGED <<code, token, pc, loaded, link, session>> /\ met' \in BOOLEAN /\ (~met' => ~met /\ pc = "idle")
  BY DEF LoggedIn
<1>2. Plains' = Plains /\ Wire' = Wire
  BY <1>1 DEF Plains, Wire
<1>3. /\ encrypt' \in Nat /\ lost' \in Nat /\ IsBytes(said') /\ IsBytes(asked') /\ IsBytes(obeyed') /\ IsBytes(nonces')
      /\ DOMAIN ses' = Kinds /\ IsBytes(ses'.buf) /\ ses'.in \in Nat /\ Len(said') \in Nat
  BY DEF Shape, Kinds, IsBytes
<1>4. Messages'
  BY <1>1, <1>2 DEF Messages
<1>5. Used' /\ Once'
  BY <1>1 DEF Used, Once, NextCount
<1>6. Obeyed'
  BY <1>1 DEF Obeyed
<1>7. Counts'
  BY <1>1 DEF Counts, SqueezedIn
<1> QED BY <1>2, <1>3, <1>4, <1>5, <1>6, <1>7 DEF Keeps

\* A callback that sends an encrypted command.
LEMMA OrdersKeep ==
  ASSUME Shape, Secret, Used, Once, Messages, Obeyed, Counts, LoggedIn, NEW a, NEW k,
         NEW bytes, IsBytes(bytes), Orders(bytes, a, k)
  PROVE  Keeps(a, k)
<1>0. /\ IsBytes(said) /\ IsBytes(asked) /\ IsBytes(obeyed) /\ Len(said) \in Nat /\ Len(asked) \in Nat
      /\ Len(obeyed) \in Nat /\ encrypt \in Nat /\ ses.in \in Nat /\ ses.out \in Nat /\ lost \in Nat
      /\ loaded \in Nat
  BY DEF Shape, IsBytes
<1>1. /\ link /\ heard # <<>> /\ pc # "panic"
      /\ UNCHANGED <<code, token, pc, loaded, link, session>> /\ met' \in BOOLEAN /\ (~met' => ~met /\ pc = "idle")
  BY DEF LoggedIn
<1>2. /\ IsBytes(b_buf') /\ Len(b_buf') = BufSize
      /\ encrypt' = encrypt + 1 /\ asked' = Append(asked, bytes)
      /\ lost' \in Nat /\ (lost' = 0 => lost = 0 /\ ses'.in = ses.in + 1)
      /\ IsBytes(down') /\ OnAir(down', Wire', a, k)
      /\ DOMAIN ses' = Kinds /\ IsBytes(ses'.buf) /\ ses'.sec = ses.sec /\ ses'.in \in Nat
      /\ Plains' = Plains /\ UNCHANGED registered
      /\ \/ UNCHANGED said /\ ses'.out = ses.out
         \/ ses.sec /\ ses'.out = ses.out + 1 /\ \E x : Later(x) /\ said' = Append(said, x)
      /\ UNCHANGED obeyed \/ obeyed' = Append(obeyed, <<Len(asked) + 1, bytes>>)
  BY DEF Orders
<1>3. IsBytes(nonces') /\ Used' /\ Once' /\ (SqueezedIn \/ pc \in {"count", "store"} => SqueezedIn')
  <2>1. nonces' = Append(nonces, [nonce |-> <<token, encrypt>>, squeezed |-> pc \in {"count", "store"}])
    BY DEF Orders
  <2> QED BY <1>2, <2>1, NonceIsNew
<1>4. /\ IsBytes(asked') /\ Len(asked') = Len(asked) + 1 /\ asked'[Len(asked) + 1] = bytes
      /\ \A i \in 1 .. Len(asked) : asked'[i] = asked[i]
  BY <1>0, <1>2, AppendIs
<1>5. /\ IsBytes(said') /\ Len(said') \in Nat /\ Len(said') >= Len(said)
      /\ \A m \in 1 .. Len(said) : said'[m] = said[m]
      /\ \A m \in 1 .. Len(said') : m \in 1 .. Len(said) \/ Later(said'[m])
  <2>1. CASE UNCHANGED said
    BY <2>1, <1>0
  <2>2. CASE \E x : Later(x) /\ said' = Append(said, x)
    <3>1. PICK x : Later(x) /\ said' = Append(said, x)
      BY <2>2
    <3>2. /\ IsBytes(said') /\ Len(said') = Len(said) + 1 /\ said'[Len(said) + 1] = x
          /\ \A m \in 1 .. Len(said) : said'[m] = said[m]
      BY <3>1, <1>0, AppendIs
    <3> QED BY <3>1, <3>2, <1>0
  <2> QED BY <2>1, <2>2, <1>2
<1>6. Messages'
  <2>1. /\ Plains \in {1, 2} /\ Len(said) >= Plains
        /\ said[1] = InitialOf(session) /\ (Plains = 2 => said[2] = RegAnswer)
        /\ \A m \in 1 .. Len(said) : m > Plains => Later(said[m])
    BY <1>1 DEF Messages
  <2>2. said'[1] = InitialOf(session) /\ (Plains = 2 => said'[2] = RegAnswer)
    BY <2>1, <1>5, <1>0
  <2>3. \A m \in 1 .. Len(said') : m > Plains => Later(said'[m])
    BY <2>1, <1>5
  <2>4. Len(said') >= Plains
    BY <2>1, <1>5, <1>0
  <2> QED BY <2>1, <2>2, <2>3, <2>4, <1>1, <1>2 DEF Messages
<1>7. /\ IsBytes(obeyed')
      /\ \A i \in 1 .. Len(obeyed') :
           \/ (i \in 1 .. Len(obeyed) /\ obeyed'[i] = obeyed[i])
           \/ (i = Len(obeyed) + 1 /\ obeyed'[i] = <<Len(asked) + 1, bytes>>)
  <2>1. CASE UNCHANGED obeyed
    BY <2>1, <1>0
  <2>2. CASE obeyed' = Append(obeyed, <<Len(asked) + 1, bytes>>)
    <3>1. /\ IsBytes(obeyed') /\ Len(obeyed') = Len(obeyed) + 1 /\ obeyed'[Len(obeyed) + 1] = <<Len(asked) + 1, bytes>>
          /\ \A i \in 1 .. Len(obeyed) : obeyed'[i] = obeyed[i]
      BY <2>2, <1>0, AppendIs
    <3> QED BY <3>1, <1>0
  <2> QED BY <2>1, <2>2, <1>2
<1>8. Obeyed'
  <2> SUFFICES ASSUME ~met'
               PROVE  /\ \A i \in 1 .. Len(obeyed') :
                            /\ obeyed'[i][1] \in 1 .. Len(asked')
                            /\ obeyed'[i][2] = asked'[obeyed'[i][1]]
                      /\ \A i, j \in 1 .. Len(obeyed') : i < j => obeyed'[i][1] < obeyed'[j][1]
    BY <1>1 DEF Obeyed
  <2>1. /\ \A i \in 1 .. Len(obeyed) :
              /\ obeyed[i][1] \in 1 .. Len(asked)
              /\ obeyed[i][2] = asked[obeyed[i][1]]
        /\ \A i, j \in 1 .. Len(obeyed) : i < j => obeyed[i][1] < obeyed[j][1]
    BY <1>1 DEF Obeyed
  <2>2. ASSUME NEW i \in 1 .. Len(obeyed')
        PROVE  /\ obeyed'[i][1] \in 1 .. Len(asked')
               /\ obeyed'[i][2] = asked'[obeyed'[i][1]]
    <3>1. CASE i \in 1 .. Len(obeyed) /\ obeyed'[i] = obeyed[i]
      BY <3>1, <2>1, <1>0, <1>4
    <3>2. CASE obeyed'[i] = <<Len(asked) + 1, bytes>>
      BY <3>2, <1>0, <1>4
    <3> QED BY <3>1, <3>2, <1>7
  <2>3. ASSUME NEW i \in 1 .. Len(obeyed'), NEW j \in 1 .. Len(obeyed'), i < j
        PROVE  obeyed'[i][1] < obeyed'[j][1]
    <3>1. i \in 1 .. Len(obeyed) /\ obeyed'[i] = obeyed[i]
      BY <2>3, <1>7, <1>0
    <3>2. CASE j \in 1 .. Len(obeyed) /\ obeyed'[j] = obeyed[j]
      BY <3>1, <3>2, <2>3, <2>1
    <3>3. CASE obeyed'[j] = <<Len(asked) + 1, bytes>>
      BY <3>1, <3>3, <2>1, <1>0
    <3> QED BY <3>2, <3>3, <1>7
  <2> QED BY <2>2, <2>3
<1>9. Counts'
  <2> SUFFICES ASSUME lost' = 0, ~SqueezedIn'
               PROVE  /\ encrypt' = ses'.in + (IF pc = "write" THEN 1 ELSE 0)
                      /\ pc # "store"
    BY <1>1 DEF Counts
  <2>1. lost = 0 /\ ses'.in = ses.in + 1 /\ ~SqueezedIn /\ pc \notin {"count", "store"}
    BY <1>2, <1>3
  <2>2. encrypt = ses.in + (IF pc = "write" THEN 1 ELSE 0)
    BY <2>1, <1>1 DEF Counts
  <2> QED BY <2>1, <2>2, <1>0, <1>2
<1>10. ses'.out = ses.out \/ (ses.sec /\ ses'.out = ses.out + 1)
  BY <1>2
<1> HIDE DEF IsBytes
<1> QED BY ONLY <1>0, <1>2, <1>3, <1>4, <1>5, <1>6, <1>7, <1>8, <1>9, <1>10 DEF Keeps

\* Either way.
LEMMA EndsKeep ==
  ASSUME Shape, Secret, Used, Once, Messages, Obeyed, Counts, LoggedIn, NEW a, NEW k, Ends(a, k)
  PROVE  Keeps(a, k)
BY QuietKeeps, OrdersKeep DEF Ends

-----------------------------------------------------------------------------
(* What ssm_ble_receiver does: it stores a segment, or it takes a message  *)
(* in the clear, or an encrypted one, or a length wraps.                   *)

\* What every notification leaves: its place in b_buf, and nothing the MQTT task owns.
Handles ==
  /\ link /\ down # <<>> /\ pc # "panic"
  /\ UNCHANGED <<pc, todo, loaded, data, remain, link, session, wild>>
  /\ overrun' = FALSE /\ met' = (met \/ pc # "idle")
  /\ IsBytes(b_buf') /\ Len(b_buf') = BufSize /\ c_offset' \in 0 .. BufSize

\* A segment that others follow is stored.
Stores(k) ==
  /\ Handles
  /\ UNCHANGED <<device_status, device_secret, code, token, encrypt, decrypt, said, heard, ses,
                 asked, obeyed, nonces, registered, lost>>
  /\ k \in Nat \ {0} /\ down' = Tail(down) /\ OnAir(Tail(down), Wire, Len(heard), k + 1)
  /\ Len(heard) < Plains \/ (~met /\ pc = "idle") =>
       c_offset' = At(k + 1) /\ \A i \in 1 .. At(k + 1) : b_buf'[i] = NextMessage[i]
  /\ pc \in {"rest", "encrypt", "count", "store"} => c_offset' + TagLen <= BufSize
  /\ \E n \in Starts :
       c_offset' <= n + At(k) + (IF pc \in {"rest", "encrypt", "count", "store"} THEN 0 ELSE TagLen)

\* A message in the clear is taken: the random code, or the answer to a registration.
Opens ==
  /\ Handles /\ pc = "idle" /\ c_offset' = 0
  /\ Len(heard) < Plains /\ Len(heard) < Len(said)
  /\ heard' = Append(heard, said[Len(heard) + 1]) /\ UNCHANGED <<asked, nonces>>
  /\ \/ /\ Len(heard) = 0
        /\ code' = session /\ encrypt' = 0 /\ decrypt' = 0
        /\ UNCHANGED <<device_status, device_secret>>
        /\ token' = IF device_secret = <<>> THEN <<>> ELSE Token(session)
        /\ Talked(Item(IF device_secret = <<>> THEN "REGISTRATION" ELSE "LOGIN"), 1)
     \/ /\ Len(heard) = 1
        /\ UNCHANGED <<code, encrypt, decrypt>>
        /\ device_status' = SSM_LOGGIN /\ device_secret' = Key
        /\ token' = Token(code)
        /\ Talked(Item("LOGIN"), 2)

\* An encrypted message is taken, and perhaps something is sent.
Takes(plain) ==
  /\ Handles /\ c_offset' = 0 /\ device_secret = Key
  /\ UNCHANGED <<device_secret, code, token>>
  /\ Len(heard) >= Plains /\ Len(heard) < Len(said)
  /\ heard' = Append(heard, plain) /\ (~met /\ pc = "idle" => plain = said[Len(heard) + 1])
  /\ decrypt' = decrypt + 1 /\ device_status' \in {device_status, SSM_LOGGIN}
  /\ Ends(Len(heard) + 1, 1)

\* A length wraps, which takes two messages in the buffer.
Breaks ==
  /\ link /\ Len(heard) >= Plains /\ device_secret = Key /\ (met \/ pc # "idle") /\ pc # "panic"
  /\ pc' = "panic" /\ wild' = TRUE /\ overrun' = FALSE /\ met' = (met \/ pc # "idle")
  /\ UNCHANGED <<device_status, b_buf, c_offset, device_secret, code, token, encrypt, decrypt,
                 todo, loaded, data, remain, link, session, down, registered, ses,
                 asked, obeyed, said, heard, nonces, lost>>

\* What it reads: the segment, where it goes to, and the message up to there.
Reads(seg, offset, end, whole, received, plain, count) ==
  /\ seg = Head(down) /\ offset = OffsetOf(seg) /\ end = offset + Len(seg.bytes)
  /\ whole = Put(b_buf, offset, seg.bytes) /\ received = SubSeq(whole, 1, end)
  /\ plain = IF seg.type = "cipher" THEN Decrypt(token, decrypt, received) ELSE received
  /\ count = IF seg.type = "cipher" THEN decrypt + 1 ELSE decrypt

\* What it does with them.
Receives(seg, end, whole, received, plain, count) ==
  /\ link /\ down # <<>> /\ pc # "panic"
  /\ UNCHANGED <<todo, loaded, data, remain, link, session>>
  /\ overrun' = FALSE /\ met' = (met \/ pc # "idle")
  /\ seg.type = "append" =>
       /\ b_buf' = whole /\ c_offset' = end /\ down' = Tail(down)
       /\ UNCHANGED <<device_status, device_secret, code, token, encrypt, decrypt, pc, said, heard, ses,
                      asked, obeyed, nonces, registered, wild, lost>>
  /\ seg.type # "append" /\ Wraps(seg.type = "cipher", received, plain) =>
       /\ wild' = TRUE /\ pc' = "panic"
       /\ UNCHANGED <<device_status, b_buf, c_offset, device_secret, code, token, encrypt, decrypt,
                      down, said, heard, ses, asked, obeyed, nonces, registered, lost>>
  /\ seg.type # "append" /\ ~Wraps(seg.type = "cipher", received, plain) =>
       /\ heard' = Append(heard, plain) /\ c_offset' = 0
       /\ Parse(plain, Put(whole, 0, plain), count)
       /\ UNCHANGED <<pc, wild>>

\* ssm_ble_receiver, with the names of what it reads.
LEMMA ReceiveIs ==
  ASSUME Receive,
         NEW seg, NEW offset, NEW end, NEW whole, NEW received, NEW plain, NEW count,
         Reads(seg, offset, end, whole, received, plain, count),
         end \in Nat, end <= BufSize, overrun = FALSE
  PROVE  Receives(seg, end, whole, received, plain, count)
<1>0. /\ seg = Head(down) /\ offset = OffsetOf(seg) /\ end = offset + Len(seg.bytes)
      /\ whole = Put(b_buf, offset, seg.bytes) /\ received = SubSeq(whole, 1, end)
      /\ plain = IF seg.type = "cipher" THEN Decrypt(token, decrypt, received) ELSE received
      /\ count = IF seg.type = "cipher" THEN decrypt + 1 ELSE decrypt
  BY DEF Reads
<1>1. BufSize \in Nat
  BY LinkAssumption
<1>2. Min({end, BufSize}) = end
  BY <1>1, MinOf
<1>3. ~(end > BufSize)
  BY <1>1
<1>4. Bytes(whole, 0, end) = received
  BY <1>0 DEF Bytes
<1>5. /\ overrun' = (overrun \/ end > BufSize)
      /\ met' = (met \/ pc # "idle")
      /\ link /\ down # <<>> /\ pc # "panic"
      /\ UNCHANGED <<todo, loaded, data, remain, link, session>>
  BY <1>0 DEF Receive, HostRuns
<1>6. overrun' = FALSE
  BY <1>3, <1>5
<1>7. seg.type = "append" =>
              /\ b_buf' = whole /\ c_offset' = end /\ down' = Tail(down)
              /\ UNCHANGED <<device_status, device_secret, code, token, encrypt, decrypt, pc, said, heard, ses,
                             asked, obeyed, nonces, registered, wild, lost>>
  BY <1>0 DEF Receive, cipher
<1> DEFINE received1 == Bytes(whole, 0, Min({end, BufSize}))
           secure == seg.type = "cipher"
           plain1 == IF secure THEN Decrypt(token, decrypt, received1) ELSE received1
<1>8. received1 = received /\ plain1 = plain
  BY <1>0, <1>2, <1>4
<1>9. seg.type # "append" /\ Wraps(secure, received1, plain1) =>
              /\ wild' = TRUE /\ pc' = "panic"
              /\ UNCHANGED <<device_status, b_buf, c_offset, device_secret, code, token, encrypt, decrypt,
                             down, said, heard, ses, asked, obeyed, nonces, registered, lost>>
  BY <1>0 DEF Receive, slot, cipher
<1>10. seg.type # "append" /\ ~Wraps(secure, received1, plain1) =>
              /\ heard' = Append(heard, plain1) /\ c_offset' = 0
              /\ Parse(plain1, Put(whole, 0, plain1), count)
              /\ UNCHANGED <<pc, wild>>
  BY <1>0 DEF Receive
<1> QED BY <1>5, <1>6, <1>7, <1>8, <1>9, <1>10 DEF Receives

\* A segment that others follow.
LEMMA ReceiveStores ==
  ASSUME IInv, Receive, NEW k \in Nat,
         NEW seg, NEW offset, NEW end, NEW whole, NEW received, NEW plain, NEW count,
         Reads(seg, offset, end, whole, received, plain, count),
         Arrival(k, seg, offset, end, whole), k < Len(Wire[Len(heard) + 1])
  PROVE  Stores(k)
<1>1. /\ seg.type = "append" /\ OnAir(Tail(down), Wire, Len(heard), k + 1)
      /\ k \in Nat \ {0} /\ end \in Nat /\ end <= BufSize
      /\ IsBytes(whole) /\ Len(whole) = BufSize
      /\ Len(heard) + 1 <= Plains \/ (~met /\ pc = "idle") =>
           end = At(k + 1) /\ \A i \in 1 .. end : whole[i] = NextMessage[i]
      /\ pc \in {"rest", "encrypt", "count", "store"} => end + TagLen <= BufSize
      /\ \E n \in Starts :
           end <= n + At(k) + (IF pc \in {"rest", "encrypt", "count", "store"} THEN 0 ELSE TagLen)
  BY DEF Arrival
<1>2. /\ link /\ down # <<>> /\ pc # "panic"
      /\ UNCHANGED <<pc, todo, loaded, data, remain, link, session, wild>>
      /\ overrun' = FALSE /\ met' = (met \/ pc # "idle")
      /\ b_buf' = whole /\ c_offset' = end /\ down' = Tail(down)
      /\ UNCHANGED <<device_status, device_secret, code, token, encrypt, decrypt, said, heard, ses,
                     asked, obeyed, nonces, registered, lost>>
  <2>2. overrun = FALSE
    BY DEF IInv, Shape
  <2>3. Receives(seg, end, whole, received, plain, count)
    BY <1>1, <2>2, ReceiveIs
  <2> QED BY <1>1, <2>3 DEF Receives
<1>3. overrun = FALSE /\ Len(heard) \in Nat /\ Plains \in Nat /\ BufSize \in Nat
  BY <1>2, SaidAre, LinkAssumption, AsSeq DEF IInv, Shape
<1>4. Handles
  BY <1>1, <1>2, <1>3 DEF Handles
<1>5. Len(heard) < Plains <=> Len(heard) + 1 <= Plains
  BY <1>3
<1> HIDE DEF IInv
<1> QED BY ONLY <1>1, <1>2, <1>4, <1>5 DEF Stores

\* The last segment of a message in the clear.
LEMMA ReceiveOpens ==
  ASSUME IInv, Receive, NEW k \in Nat,
         NEW seg, NEW offset, NEW end, NEW whole, NEW received, NEW plain, NEW count,
         Reads(seg, offset, end, whole, received, plain, count),
         Arrival(k, seg, offset, end, whole), k = Len(Wire[Len(heard) + 1]), Len(heard) < Plains
  PROVE  Opens
<1> DEFINE m == Len(heard) + 1
<1>0. /\ link /\ Shape /\ Secret /\ Messages /\ Phase /\ IsBytes(down) /\ down # <<>>
      /\ overrun = FALSE /\ Len(heard) \in Nat /\ Plains \in Nat /\ BufSize \in Nat
      /\ m \in Nat /\ decrypt \in Nat
  <2>1. link /\ down # <<>>
    BY DEF Receive
  <2>2. /\ Shape /\ Secret /\ Messages /\ Phase /\ IsBytes(down) /\ overrun = FALSE /\ decrypt \in Nat /\ IsBytes(heard)
    BY DEF IInv, Shape
  <2>3. Plains \in Nat /\ BufSize \in Nat
    BY <2>1, <2>2, SaidAre, LinkAssumption
  <2>4. Len(heard) \in Nat
    BY <2>2 DEF IsBytes
  <2> QED BY <2>1, <2>2, <2>3, <2>4
<1>1. /\ m \in 1 .. Len(said) /\ m <= Plains /\ pc = "idle"
      /\ seg.type = TypeOf(Plains, m) /\ OnAir(Tail(down), Wire, m, 1)
      /\ end \in Nat /\ end <= BufSize /\ end = Len(NextMessage)
      /\ IsBytes(whole) /\ Len(whole) = BufSize
      /\ IsBytes(NextMessage) /\ \A i \in 1 .. end : whole[i] = NextMessage[i]
  BY <1>0 DEF Arrival
<1>2. NextMessage = said[m] /\ seg.type = "plain"
  BY <1>1, <1>0 DEF NextMessage, Encoded, TypeOf
<1>3. plain = said[m] /\ count = decrypt
  <2>1. received = SubSeq(whole, 1, end) /\ plain = received /\ count = decrypt
    BY <1>2 DEF Reads
  <2>2. IsBytes(received) /\ Len(received) = end /\ \A i \in 1 .. end : received[i] = whole[i]
    BY <2>1, <1>1, SubSeqIs
  <2>3. \A i \in 1 .. Len(received) : received[i] = NextMessage[i]
    BY <2>2, <1>1
  <2>4. received = NextMessage
    BY <2>2, <2>3, <1>1, SameBytes
  <2> QED BY <2>1, <2>4, <1>2
<1>w. ~Wraps(seg.type = "cipher", received, plain)
  <2>1. received = said[m] /\ plain = said[m] /\ seg.type # "cipher"
    BY <1>2, <1>3 DEF Reads
  <2>2. Len(said[m]) \in Nat /\ Len(said[m]) > 2
    <3>1. CASE m = 1
      <4>1. said[m] = InitialOf(session)
        BY <3>1, <1>0 DEF Messages
      <4> QED BY <4>1, InitialIs
    <3>2. CASE m # 1
      <4>1. said[m] = RegAnswer
        BY <3>2, <1>0, <1>1 DEF Messages
      <4>2. Len(said[m]) = 2 + Prefix + KeySize
        BY <4>1, RegAnswerIs
      <4> QED BY <4>2, LinkAssumption
    <3> QED BY <3>1, <3>2
  <2> HIDE DEF m
  <2> DEFINE L == Len(said[m])
  <2>5. L \in Nat /\ L > 2
    BY <2>2
  <2>6. Len(plain) = L /\ Len(received) = L
    BY Zenon, <2>1
  <2> HIDE DEF L
  <2>3. Len(plain) # 2 /\ ~(Len(received) < 2)
    BY ONLY <2>5, <2>6
  <2>4. (IF seg.type = "cipher" THEN TagLen + 2 ELSE 2) = 2
    BY <2>1
  <2> QED BY ONLY <2>3, <2>4 DEF Wraps
<1>4. /\ UNCHANGED <<pc, todo, loaded, data, remain, link, session, wild>>
      /\ overrun' = FALSE /\ met' = (met \/ pc # "idle")
      /\ heard' = Append(heard, plain) /\ c_offset' = 0
      /\ Parse(plain, Put(whole, 0, plain), count)
  <2>1. seg.type # "append" /\ end \in Nat /\ end <= BufSize /\ overrun = FALSE
    BY <1>0, <1>1, <1>2
  <2> HIDE DEF m
  <2>2. Receives(seg, end, whole, received, plain, count)
    BY <2>1, ReceiveIs
  <2> QED BY <2>1, <2>2, <1>w DEF Receives
<1>5. /\ ses.out = 0 /\ ses.sec = FALSE
  BY <1>0 DEF Phase, Shape
<1>6. \A bytes : HostTalks(bytes) => Talked(bytes[1], m)
  <2> SUFFICES ASSUME NEW bytes, HostTalks(bytes) PROVE Talked(bytes[1], m)
    OBVIOUS
  <2>1. session' = session
    BY <1>4
  <2> HIDE DEF m
  <2> QED BY <1>0, <1>1, <1>5, <2>1, Talks
<1>7. /\ Len(heard) < Len(said) /\ Len(heard) \in {0, 1} /\ 0 \in 0 .. BufSize
      /\ heard' = Append(heard, said[Len(heard) + 1])
  <2>1. Plains \in {1, 2}
    BY <1>0 DEF Messages
  <2>2. m <= Len(said) /\ Len(said) \in Nat
    BY <1>0, <1>1, AsSeq DEF Shape
  <2>3. Len(heard) < Len(said) /\ Len(heard) \in {0, 1} /\ 0 \in 0 .. BufSize
    <3>1. m <= Plains /\ m = Len(heard) + 1 /\ Len(heard) \in Nat /\ BufSize \in Nat
      BY <1>0, <1>1
    <3> HIDE DEF m
    <3> QED BY ONLY <2>1, <2>2, <3>1
  <2> QED BY <2>3, <1>3, <1>4
<1>8. IsBytes(b_buf') /\ Len(b_buf') = BufSize => Handles
  BY <1>0, <1>1, <1>4, <1>7 DEF Handles
<1>9. CASE Len(heard) = 0
  <2>1. plain = InitialOf(session)
    BY <1>0, <1>3, <1>9 DEF Messages
  <2> DEFINE payload == SubSeq(plain, 3, Len(plain))
             moved == Put(Put(whole, 0, plain), 0, payload)
  <2>2. Parse(plain, Put(whole, 0, plain), count)
    BY <1>4
  <2>3. moved[1][2] = session
    <3>1. IsBytes(payload) /\ Len(payload) = 1 /\ payload[1][2] = session
      <4> DEFINE y == plain
      <4>1. y = InitialOf(session)
        BY <2>1
      <4> HIDE DEF y
      <4>2. IsBytes(SubSeq(y, 3, Len(y))) /\ Len(SubSeq(y, 3, Len(y))) = 1 /\ SubSeq(y, 3, Len(y))[1][2] = session
        BY ONLY <4>1, InitialIs
      <4> QED BY <4>2 DEF y
    <3>2. 1 <= BufSize
      BY LinkAssumption, RoomAssumption
    <3>3. moved = Put(Put(whole, 0, plain), 0, payload)
      OBVIOUS
    <3> HIDE DEF payload, moved
    <3>4. moved = [i \in 1 .. BufSize |->
                     IF 0 < i /\ i <= 0 + Len(payload) THEN payload[i - 0] ELSE Put(whole, 0, plain)[i]]
      BY <3>3 DEF Put
    <3>5. 1 \in 1 .. BufSize /\ 1 - 0 = 1
      BY <3>2, <1>0
    <3>6. moved[1] = payload[1]
      BY ONLY <3>1, <3>4, <3>5
    <3> QED BY <3>1, <3>6
  <2>i. Initial(moved[1][2]) /\ UNCHANGED <<asked, nonces>>
    <3>1. plain[1] = Op("PUBLISH") /\ plain[2] = Item("INITIAL")
      BY <2>1, InitialIs
    <3>2. Op("RESPONSE") # Op("PUBLISH")
      BY DEF Op
    <3> QED BY <2>2, <3>1, <3>2 DEF Parse
  <2> HIDE DEF payload, moved
  <2>4. /\ code' = session /\ encrypt' = 0 /\ decrypt' = 0
        /\ UNCHANGED <<device_status, device_secret>>
        /\ IF device_secret = <<>> THEN SendReg
           ELSE SendLogin(device_secret, moved[1][2])
    BY <2>i, <2>3 DEF Initial
  <2>5. CASE device_secret = <<>>
    <3>1. HostTalks(<<Item("REGISTRATION")>> \o Key) /\ token' = token
      BY <2>4, <2>5 DEF SendReg
    <3>2. (<<Item("REGISTRATION")>> \o Key)[1] = Item("REGISTRATION")
      BY OneByte, KeyIs, ConcatIs
    <3>3. Talked(Item("REGISTRATION"), 1)
      <4> DEFINE bytes == <<Item("REGISTRATION")>> \o Key
      <4>1. HostTalks(bytes) /\ bytes[1] = Item("REGISTRATION")
        BY <3>1, <3>2
      <4> HIDE DEF bytes
      <4>2. Talked(bytes[1], m)
        BY <4>1, <1>6
      <4> QED BY <4>1, <4>2, <1>9
    <3>4. token' = <<>>
      BY <3>1, <2>5, <1>0 DEF Secret
    <3> QED BY <3>3, <3>4, <2>i, <2>4, <2>5, <1>1, <1>4, <1>7, <1>8, <1>9 DEF Opens, Talked
  <2>6. CASE device_secret # <<>>
    <3>1. HostTalks(<<Item("LOGIN"), <<"mac", token'>>>>) /\ token' = Token(session)
      BY <2>3, <2>4, <2>6, <1>0 DEF SendLogin, Secret
    <3>3. Talked(Item("LOGIN"), 1)
      BY <3>1, <1>6, <1>9, TwoBytes
    <3> QED BY <3>3, <3>1, <2>i, <2>4, <2>6, <1>1, <1>4, <1>7, <1>8, <1>9 DEF Opens, Talked
  <2> QED BY <2>5, <2>6
<1>10. CASE Len(heard) = 1
  <2>1. plain = RegAnswer
    BY <1>0, <1>1, <1>3, <1>10 DEF Messages
  <2>2. Parse(plain, Put(whole, 0, plain), count)
    BY <1>4
  <2>3. HandleReg(SubSeq(plain, 3, Len(plain)), count) /\ UNCHANGED <<asked, nonces>>
    <3> DEFINE payload == SubSeq(plain, 3, Len(plain))
    <3>1. plain[1] = Op("RESPONSE") /\ plain[2] = Item("REGISTRATION")
      BY <2>1, RegAnswerIs
    <3>2. Op("RESPONSE") # Op("PUBLISH")
      BY DEF Op
    <3> QED BY <2>2, <3>1, <3>2 DEF Parse
  <2>4. /\ device_secret' = Key /\ device_status' = SSM_LOGGIN /\ decrypt' = decrypt
        /\ SendLogin(device_secret', code) /\ UNCHANGED <<code, encrypt>>
    BY <2>1, <2>3, <1>3, RegAnswerIs DEF HandleReg
  <2>5. HostTalks(<<Item("LOGIN"), <<"mac", token'>>>>) /\ token' = Token(code)
    BY <2>4 DEF SendLogin
  <2>6. Talked(Item("LOGIN"), 2)
    BY <2>5, <1>6, <1>10, TwoBytes
  <2> QED BY <2>3, <2>4, <2>5, <2>6, <1>1, <1>4, <1>7, <1>8, <1>10 DEF Opens, Talked
<1> QED BY <1>7, <1>9, <1>10

\* The last segment of an encrypted message.
LEMMA ReceiveTakes ==
  ASSUME IInv, Receive, NEW k \in Nat,
         NEW seg, NEW offset, NEW end, NEW whole, NEW received, NEW plain, NEW count,
         Reads(seg, offset, end, whole, received, plain, count),
         Arrival(k, seg, offset, end, whole), k = Len(Wire[Len(heard) + 1]), ~(Len(heard) < Plains)
  PROVE  Takes(plain) \/ Breaks
<1> DEFINE m == Len(heard) + 1
<1>0. /\ link /\ Shape /\ Secret /\ Messages /\ Phase /\ IsBytes(down) /\ down # <<>>
      /\ overrun = FALSE /\ Len(heard) \in Nat /\ Plains \in Nat /\ BufSize \in Nat
      /\ m \in Nat /\ decrypt \in Nat /\ Len(said) \in Nat /\ ses.out \in Nat
  <2>1. link /\ down # <<>>
    BY DEF Receive
  <2>2. /\ Shape /\ Secret /\ Messages /\ Phase /\ IsBytes(down) /\ overrun = FALSE /\ decrypt \in Nat /\ IsBytes(heard)
        /\ IsBytes(said) /\ ses.out \in Nat
    BY DEF IInv, Shape
  <2>3. Plains \in Nat /\ BufSize \in Nat
    BY <2>1, <2>2, SaidAre, LinkAssumption
  <2>4. Len(heard) \in Nat /\ Len(said) \in Nat
    BY <2>2 DEF IsBytes
  <2> QED BY <2>1, <2>2, <2>3, <2>4
<1>1. /\ m \in 1 .. Len(said) /\ seg.type = TypeOf(Plains, m) /\ OnAir(Tail(down), Wire, m, 1)
      /\ end \in Nat /\ end <= BufSize /\ end > 0 /\ whole[end] = NextMessage[Len(NextMessage)]
      /\ ~met /\ pc = "idle" => end = Len(NextMessage) /\ \A i \in 1 .. end : whole[i] = NextMessage[i]
      /\ IsBytes(whole) /\ Len(whole) = BufSize
      /\ IsBytes(NextMessage)
  BY <1>0 DEF Arrival
<1>m. m > Plains /\ ~(m <= Plains)
  BY <1>0
<1>2. NextMessage = Encrypt(Token(session), m - Plains - 1, said[m]) /\ seg.type = "cipher"
  BY <1>m, <1>1 DEF NextMessage, Encoded, TypeOf
<1>3. Later(said[m])
  BY <1>0, <1>1, <1>m DEF Messages
<1>4. ses.out > 0 /\ device_secret = Key /\ token = Token(session) /\ decrypt = m - Plains - 1
  <2>1. ses.out > 0
    <3>1. Plains = Len(said) - ses.out /\ m <= Len(said)
      BY <1>1, <1>0 DEF Plains
    <3> QED BY <3>1, <1>0, <1>m
  <2>2. ses.sec /\ device_secret = Key /\ Key # <<>>
    BY <2>1, <1>0, KeyIs DEF Phase
  <2>3. heard # <<>>
    <3>1. Plains \in {1, 2}
      BY <1>0 DEF Messages
    <3> QED BY <3>1, <1>0, NoBytes
  <2>4. code = session /\ decrypt = Len(heard) - Plains
    BY <2>3, <1>0 DEF Phase
  <2> QED BY <2>1, <2>2, <2>4, <1>0 DEF Secret
<1>5. IsBytes(received) /\ Len(received) = end /\ \A i \in 1 .. end : received[i] = whole[i]
  <2>1. received = SubSeq(whole, 1, end)
    BY DEF Reads
  <2> QED BY <2>1, <1>1, SubSeqIs
<1>6. plain = Decrypt(token, decrypt, received) /\ count = decrypt + 1
  BY <1>2 DEF Reads
<1>7. ~met /\ pc = "idle" => plain = said[m]
  <2> SUFFICES ASSUME ~met, pc = "idle" PROVE plain = said[m]
    OBVIOUS
  <2>1. received = NextMessage
    BY <1>1, <1>5, SameBytes
  <2>2. received = Encrypt(token, decrypt, said[m])
    BY <2>1, <1>2, <1>4
  <2> QED BY <2>2, <1>6, <1>3, DecryptOwn, LaterIs
<1>8. plain = said[m] \/ plain = [i \in 1 .. end - TagLen |-> Zero]
  <2>1. \A i \in 1 .. Len(NextMessage) : NextMessage[i][2].of = said[m]
    BY <1>2, <1>3, LaterIs, EncryptIs
  <2>2. Len(NextMessage) \in 1 .. Len(NextMessage)
    BY <1>2, <1>3, LaterIs, EncryptIs
  <2>3. received[end] = NextMessage[Len(NextMessage)]
    BY <1>1, <1>5
  <2>4. received[Len(received)][2].of = said[m]
    BY <2>1, <2>2, <2>3, <1>5
  <2>5. \/ Decrypt(token, decrypt, received) = received[Len(received)][2].of
        \/ Decrypt(token, decrypt, received) = [i \in 1 .. Len(received) - TagLen |-> Zero]
    BY <1>1, <1>5, DecryptSome
  <2> QED BY <2>4, <2>5, <1>5, <1>6
<1>9. /\ pc # "panic" /\ overrun' = FALSE /\ met' = (met \/ pc # "idle")
      /\ UNCHANGED <<todo, loaded, data, remain, link, session>>
      /\ Wraps(TRUE, received, plain) =>
           /\ wild' = TRUE /\ pc' = "panic"
           /\ UNCHANGED <<device_status, b_buf, c_offset, device_secret, code, token, encrypt, decrypt,
                          down, said, heard, ses, asked, obeyed, nonces, registered, lost>>
      /\ ~Wraps(TRUE, received, plain) =>
           /\ heard' = Append(heard, plain) /\ c_offset' = 0
           /\ Parse(plain, Put(whole, 0, plain), count)
           /\ UNCHANGED <<pc, wild>>
  <2>1. seg.type # "append" /\ end \in Nat /\ end <= BufSize /\ overrun = FALSE
    BY <1>0, <1>1, <1>2
  <2> HIDE DEF m
  <2>2. Receives(seg, end, whole, received, plain, count)
    BY <2>1, ReceiveIs
  <2> DEFINE secure == seg.type = "cipher"
  <2>3. secure = TRUE
    BY <1>2
  <2>4. /\ pc # "panic" /\ overrun' = FALSE /\ met' = (met \/ pc # "idle")
        /\ UNCHANGED <<todo, loaded, data, remain, link, session>>
        /\ Wraps(secure, received, plain) =>
             /\ wild' = TRUE /\ pc' = "panic"
             /\ UNCHANGED <<device_status, b_buf, c_offset, device_secret, code, token, encrypt, decrypt,
                            down, said, heard, ses, asked, obeyed, nonces, registered, lost>>
        /\ ~Wraps(secure, received, plain) =>
             /\ heard' = Append(heard, plain) /\ c_offset' = 0
             /\ Parse(plain, Put(whole, 0, plain), count)
             /\ UNCHANGED <<pc, wild>>
    BY <2>1, <2>2 DEF Receives
  <2> HIDE DEF secure
  <2> QED BY <2>3, <2>4
<1>10. Len(heard) < Len(said) /\ Len(heard) >= Plains
  BY <1>0, <1>1
<1>l. end \in Nat /\ Len(received) = end /\ TagLen \in Nat
  BY <1>1, <1>5, LinkAssumption
<1>11. Wraps(TRUE, received, plain) => met \/ pc # "idle"
  <2> SUFFICES ASSUME ~met, pc = "idle", Wraps(TRUE, received, plain) PROVE FALSE
    OBVIOUS
  <2>1. plain = said[m] /\ end = Len(NextMessage)
    BY <1>1, <1>7
  <2>2. Len(said[m]) \in Nat \ {0, 1} /\ IsBytes(said[m])
    BY <1>3, LaterIs
  <2>3. Len(NextMessage) = Len(said[m]) + TagLen
    BY <1>2, <2>2, EncryptIs
  <2>4. ~(Len(received) < TagLen + 2)
    <3> DEFINE L == Len(said[m])
               E == Len(NextMessage)
               R == Len(received)
    <3>1. L \in Nat \ {0, 1} /\ E = L + TagLen /\ R = E /\ TagLen \in Nat
      BY Zenon, <2>1, <2>2, <2>3, <1>l
    <3> HIDE DEF L, E, R
    <3>2. ~(R < TagLen + 2)
      BY ONLY <3>1
    <3> QED BY <3>2 DEF R
  <2>5. plain = <<Op("RESPONSE"), Item("REGISTRATION")>>
    BY <2>4 DEF Wraps
  <2>6. plain[2] = Item("REGISTRATION")
    BY <2>5, TwoBytes
  <2> QED BY <2>1, <2>6, <1>3 DEF Later
<1>12. CASE Wraps(TRUE, received, plain)
  BY <1>0, <1>4, <1>9, <1>10, <1>11, <1>12 DEF Breaks
<1>13. CASE ~Wraps(TRUE, received, plain)
  <2> DEFINE payload == SubSeq(plain, 3, Len(plain))
             body == Put(whole, 0, plain)
             moved == Put(body, 0, payload)
             reply == Reply(plain[1], plain[2], payload)
  <2>1. Parse(plain, body, count) /\ UNCHANGED <<pc, wild>> /\ heard' = Append(heard, plain) /\ c_offset' = 0
    BY <1>9, <1>13
  <2>2. plain[2] \notin {Item("INITIAL"), Item("REGISTRATION")}
    <3>1. CASE plain = said[m]
      BY <3>1, <1>3 DEF Later
    <3>2. CASE plain = [i \in 1 .. end - TagLen |-> Zero]
      <4>1. ~(Len(received) < TagLen + 2)
        BY <1>13 DEF Wraps
      <4>2. end - TagLen \in Nat /\ 2 \in 1 .. end - TagLen
        BY SMTT(30), <4>1, <1>l
      <4>3. plain[2] = Zero
        BY <3>2, <4>2
      <4> QED BY <4>3 DEF Zero, Item
    <3> QED BY <1>8, <3>1, <3>2
  <2>3. /\ device_status' \in {device_status, SSM_LOGGIN} /\ decrypt' = count
        /\ UNCHANGED <<device_secret, code, token>>
        /\ \/ reply # <<>> /\ HostOrders(Tail(down), moved, reply)
           \/ /\ b_buf' = moved /\ down' = Tail(down)
              /\ UNCHANGED <<encrypt, said, ses, asked, obeyed, nonces, registered, lost>>
    BY <2>1, <2>2 DEF Parse
  <2>4. Handles
    <3>1. 0 \in 0 .. BufSize
      BY <1>0
    <3>2. IsBytes(b_buf') /\ Len(b_buf') = BufSize
      <4>1. CASE b_buf' = moved
        BY <4>1, PutBuf
      <4>2. CASE HostOrders(Tail(down), moved, reply)
        BY <4>2, PutBuf DEF HostOrders
      <4> QED BY <4>1, <4>2, <2>3
    <3> QED BY <3>1, <3>2, <2>1, <1>0, <1>9 DEF Handles
  <2>5. IsBytes(Tail(down)) /\ OnAir(Tail(down), Wire, m, 1)
    BY <1>0, <1>1, TailIs
  <2>6. Ends(m, 1)
    <3>1. CASE /\ b_buf' = moved /\ down' = Tail(down)
               /\ UNCHANGED <<encrypt, said, ses, asked, obeyed, nonces, registered, lost>>
      <4>1. IsBytes(b_buf') /\ Len(b_buf') = BufSize
        BY <2>4 DEF Handles
      <4> QED BY <4>1, <2>5, <3>1 DEF Ends
    <3>2. CASE reply # <<>> /\ HostOrders(Tail(down), moved, reply)
      <4>1. reply \in {Relock, ReadHistory}
        BY <3>2 DEF Reply
      <4>2. IsBytes(reply)
        BY <4>1, BytesAssumption, TwoBytes DEF ReadHistory
      <4>3. session' = session
        BY <1>9
      <4> DEFINE q == Tail(down)
                 one == 1
      <4>4. HostOrders(q, moved, reply) /\ IsBytes(q) /\ OnAir(q, Wire, m, one) /\ one \in Nat
        BY <3>2, <2>5
      <4> HIDE DEF q, moved, reply, one, m
      <4>5. Orders(reply, m, one)
        BY ONLY <4>2, <4>3, <4>4, <1>0, OrdersIs
      <4> QED BY <4>2, <4>5 DEF Ends, one
    <3> QED BY <2>3, <3>1, <3>2
  <2>7. device_secret = Key /\ decrypt' = decrypt + 1
    BY <1>4, <1>6, <2>3
  <2> HIDE DEF payload, body, moved, reply
  <2> QED BY <2>1, <2>3, <2>4, <2>6, <2>7, <1>7, <1>10 DEF Takes
<1> QED BY <1>12, <1>13

\* Whatever ssm_ble_receiver does is one of the four.
LEMMA ReceiveCases ==
  ASSUME IInv, Receive
  PROVE  Opens \/ (\E k \in Nat : Stores(k)) \/ (\E plain : Takes(plain)) \/ Breaks
<1> DEFINE seg == Head(down)
           offset == OffsetOf(seg)
           end == offset + Len(seg.bytes)
           whole == Put(b_buf, offset, seg.bytes)
           received == SubSeq(whole, 1, end)
           plain == IF seg.type = "cipher" THEN Decrypt(token, decrypt, received) ELSE received
           count == IF seg.type = "cipher" THEN decrypt + 1 ELSE decrypt
<1>1. /\ Reads(seg, offset, end, whole, received, plain, count)
      /\ seg = Head(down) /\ offset = OffsetOf(seg) /\ end = offset + Len(seg.bytes)
      /\ whole = Put(b_buf, offset, seg.bytes)
  BY DEF Reads
<1>2. link /\ down # <<>>
  BY DEF Receive
<1> HIDE DEF seg, offset, end, whole, received, plain, count
<1>3. PICK k \in Nat : Arrival(k, seg, offset, end, whole)
  BY <1>1, <1>2, Arrives
<1>4. k < Len(Wire[Len(heard) + 1]) \/ k = Len(Wire[Len(heard) + 1])
  BY <1>3 DEF Arrival
<1>5. CASE k < Len(Wire[Len(heard) + 1])
  BY <1>1, <1>3, <1>5, ReceiveStores
<1>6. CASE k = Len(Wire[Len(heard) + 1]) /\ Len(heard) < Plains
  BY <1>1, <1>3, <1>6, ReceiveOpens
<1>7. CASE k = Len(Wire[Len(heard) + 1]) /\ ~(Len(heard) < Plains)
  BY <1>1, <1>3, <1>7, ReceiveTakes
<1> QED BY <1>4, <1>5, <1>6, <1>7

-----------------------------------------------------------------------------
(* The initial states, and the host task's links.                          *)

\* A SESAME without a session.
LEMMA NoSesIs ==
  /\ DOMAIN NoSes = {"sec", "in", "out", "buf"} /\ IsBytes(NoSes.buf) /\ NoSes.sec \in BOOLEAN
  /\ NoSes.in = 0 /\ NoSes.out = 0 /\ ~NoSes.sec
BY NoBytes DEF NoSes

\* The invariant holds at the start.
LEMMA InitHolds == ASSUME Init PROVE IInv
<1>0. /\ BufSize \in Nat /\ MaxSessions \in Nat /\ MaxCmd \in Nat /\ MaxLost \in Nat
  BY LinkAssumption
<1>1. IsBytes(b_buf) /\ Len(b_buf) = BufSize
  <2>1. b_buf = [i \in 1 .. BufSize |-> Zero]
    BY DEF Init
  <2>2. b_buf = [i \in 1 .. BufSize |-> b_buf[i]]
    BY <2>1
  <2> QED BY <2>2, <1>0, FnIs
<1>2. IsBytes(<<>>) /\ Len(<<>>) = 0
  BY NoBytes
<1>3. Shape
  <2>1. /\ device_status \in {SSM_DISCONNECTED, SSM_CONNECTED, SSM_LOGGIN}
        /\ pc \in {"idle", "offset", "rest", "encrypt", "count", "store", "write", "panic"}
        /\ IsBytes(b_buf) /\ Len(b_buf) = BufSize /\ c_offset \in 0 .. BufSize
    BY <1>0, <1>1 DEF Init
  <2>2. encrypt \in Nat /\ decrypt \in Nat /\ loaded \in Nat /\ data \in Nat /\ remain \in Nat /\ lost \in Nat
    BY <1>0 DEF Init
  <2>3. link \in BOOLEAN /\ registered \in BOOLEAN /\ met \in BOOLEAN /\ wild \in BOOLEAN /\ overrun = FALSE
    BY <1>0 DEF Init
  <2>4. session \in 0 .. MaxSessions /\ code \in 0 .. session
    BY <1>0 DEF Init
  <2>5. /\ IsBytes(down) /\ IsBytes(said) /\ IsBytes(heard)
        /\ IsBytes(asked) /\ IsBytes(obeyed) /\ IsBytes(nonces)
    BY <1>2 DEF Init
  <2>6. /\ DOMAIN ses = {"sec", "in", "out", "buf"} /\ IsBytes(ses.buf)
        /\ ses.sec \in BOOLEAN /\ ses.in \in Nat /\ ses.out \in Nat
    BY NoSesIs DEF Init
  <2> QED BY <2>1, <2>2, <2>3, <2>4, <2>5, <2>6 DEF Shape
<1>4. Secret
  BY DEF Init, Secret, SSM_DISCONNECTED, SSM_LOGGIN
<1>5. Used /\ Once
  BY <1>2 DEF Init, Used, Once
<1>6. Away /\ Messages /\ Phase /\ Stream /\ Counts
  BY DEF Init, Away, Messages, Phase, Stream, Counts, SqueezedIn, NoSes
<1>7. Heard
  BY <1>2 DEF Init, Heard
<1>8. Sending /\ Obeyed
  BY <1>0, <1>2 DEF Init, Sending, Obeyed
<1> QED BY <1>3, <1>4, <1>5, <1>6, <1>7, <1>8 DEF IInv

\* A new link starts a new conversation.
LEMMA ConnectKeeps == ASSUME IInv, Connect PROVE IInv'
<1> DEFINE initial == InitialOf(session')
<1>0. /\ Shape /\ Secret /\ Used /\ Once /\ Sending /\ Obeyed /\ Heard
      /\ MaxSessions \in Nat /\ session \in Nat /\ session < MaxSessions
      /\ session + 1 \in 0 .. MaxSessions /\ code \in 0 .. session + 1 /\ code < session + 1
  BY SMTT(30), LinkAssumption DEF IInv, Shape, Connect
<1>1. /\ link' = TRUE /\ session' = session + 1 /\ pc = "idle"
      /\ device_status' = SSM_CONNECTED /\ ses' = NoSes
      /\ down' = Segments(initial, "plain") /\ said' = <<initial>> /\ heard' = <<>>
      /\ UNCHANGED <<b_buf, c_offset, device_secret, code, token, encrypt, decrypt, pc, todo, loaded, data, remain,
                     registered, asked, obeyed, nonces, overrun, wild, met, lost>>
  BY DEF Connect, cipher, mqtt, InitialOf
<1>2. IsBytes(initial) /\ Len(initial) = 3
  BY InitialIs
<1>3. IsBytes(down') /\ Len(down') \in Nat \ {0}
  BY <1>1, <1>2, Cut
<1>4. IsBytes(said') /\ Len(said') = 1 /\ said'[1] = initial /\ IsBytes(heard') /\ Len(heard') = 0
  BY <1>1, OneByte, NoBytes
<1>5. /\ ses'.sec \in BOOLEAN /\ ~ses'.sec /\ ses'.in = 0 /\ ses'.out = 0
      /\ DOMAIN ses' = {"sec", "in", "out", "buf"} /\ IsBytes(ses'.buf)
  BY <1>1, NoSesIs
<1>6. Plains' = 1
  BY <1>4, <1>5 DEF Plains
<1> HIDE DEF initial
<1>7. Shape'
  <2>1. /\ device_status' \in {SSM_DISCONNECTED, SSM_CONNECTED, SSM_LOGGIN}
        /\ (pc \in {"idle", "offset", "rest", "encrypt", "count", "store", "write", "panic"})'
        /\ IsBytes(b_buf') /\ Len(b_buf') = BufSize /\ c_offset' \in 0 .. BufSize
    BY <1>0, <1>1 DEF Shape
  <2>2. (encrypt \in Nat /\ decrypt \in Nat /\ loaded \in Nat /\ data \in Nat /\ remain \in Nat /\ lost \in Nat)'
    BY <1>0, <1>1 DEF Shape
  <2>3. (link \in BOOLEAN /\ registered \in BOOLEAN /\ met \in BOOLEAN /\ wild \in BOOLEAN /\ overrun = FALSE)'
    BY <1>0, <1>1 DEF Shape
  <2>4. (session \in 0 .. MaxSessions /\ code \in 0 .. session)'
    BY <1>0, <1>1 DEF Shape
  <2>5. (/\ IsBytes(down) /\ IsBytes(said) /\ IsBytes(heard)
        /\ IsBytes(asked) /\ IsBytes(obeyed) /\ IsBytes(nonces))'
    BY <1>0, <1>1, <1>3, <1>4 DEF Shape
  <2>6. (/\ DOMAIN ses = {"sec", "in", "out", "buf"} /\ IsBytes(ses.buf)
         /\ ses.sec \in BOOLEAN /\ ses.in \in Nat /\ ses.out \in Nat)'
    BY <1>5
  <2> QED BY <2>1, <2>2, <2>3, <2>4, <2>5, <2>6 DEF Shape
<1>8. Secret'
  BY <1>0, <1>1 DEF Secret, SSM_CONNECTED, SSM_LOGGIN
<1>9. Used' /\ Once'
  BY <1>0, <1>1 DEF Used, Once, NextCount
<1>10. Away'
  BY <1>1 DEF Away
<1>11. Messages'
  BY <1>1, <1>4, <1>6 DEF Messages, initial
<1>12. Phase'
  BY <1>0, <1>1, <1>4, <1>5, <1>6 DEF Phase, Shape
<1>13. Stream'
  <2>1. Wire' = <<down'>>
    <3>1. Wire' = [m \in 1 .. 1 |-> Segments(Encoded(said', 1, session', m), TypeOf(1, m))]
      BY <1>4, <1>6 DEF Wire, Sent
    <3>2. \A m \in 1 .. 1 : Encoded(said', 1, session', m) = initial /\ TypeOf(1, m) = "plain"
      BY <1>4 DEF Encoded, TypeOf
    <3>3. Wire' = [m \in 1 .. 1 |-> down']
      BY <3>1, <3>2, <1>1
    <3> QED BY <3>3
  <2>2. OnAir(down', <<down'>>, 0, 1)
    BY <1>3, AirStarts
  <2>3. OnAir(down', Wire', Len(heard'), 1)
    BY <2>1, <2>2, <1>4
  <2>4. Received(1)'
    BY DEF Received
  <2> QED BY <2>3, <2>4 DEF Stream
<1>14. Heard'
  BY <1>0, <1>1, <1>4 DEF Heard
<1>15. Sending'
  BY <1>0, <1>1 DEF Sending, Cell
<1>16. Obeyed' /\ Counts'
  BY <1>0, <1>1 DEF Obeyed, Counts, SqueezedIn
<1> QED BY <1>7, <1>8, <1>9, <1>10, <1>11, <1>12, <1>13, <1>14, <1>15, <1>16 DEF IInv

\* A link that is lost takes the conversation with it.
LEMMA DisconnectKeeps == ASSUME IInv, Disconnect PROVE IInv'
<1>0. /\ Shape /\ Secret /\ Used /\ Once /\ Sending /\ Obeyed /\ Heard
  BY DEF IInv
<1>1. /\ link' = FALSE /\ device_status' = SSM_DISCONNECTED /\ ses' = NoSes /\ down' = <<>>
      /\ UNCHANGED <<b_buf, c_offset, device_secret, code, token, encrypt, decrypt, pc, todo, loaded, data, remain,
                     session, registered, asked, obeyed, said, heard, nonces, overrun, wild, met, lost>>
  BY DEF Disconnect, cipher, mqtt, hist
<1>2. /\ ses'.sec \in BOOLEAN /\ ~ses'.sec /\ ses'.in = 0 /\ ses'.out = 0 /\ IsBytes(ses'.buf) /\ IsBytes(down')
      /\ DOMAIN ses' = {"sec", "in", "out", "buf"}
  BY <1>1, NoBytes, NoSesIs
<1>3. Shape'
  <2>1. (/\ device_status \in {SSM_DISCONNECTED, SSM_CONNECTED, SSM_LOGGIN}
         /\ pc \in {"idle", "offset", "rest", "encrypt", "count", "store", "write", "panic"}
         /\ IsBytes(b_buf) /\ Len(b_buf) = BufSize /\ c_offset \in 0 .. BufSize)'
    BY <1>0, <1>1 DEF Shape
  <2>2. (encrypt \in Nat /\ decrypt \in Nat /\ loaded \in Nat /\ data \in Nat /\ remain \in Nat /\ lost \in Nat)'
    BY <1>0, <1>1 DEF Shape
  <2>3. (link \in BOOLEAN /\ registered \in BOOLEAN /\ met \in BOOLEAN /\ wild \in BOOLEAN /\ overrun = FALSE)'
    BY <1>0, <1>1 DEF Shape
  <2>4. (session \in 0 .. MaxSessions /\ code \in 0 .. session)'
    BY <1>0, <1>1 DEF Shape
  <2>5. (/\ IsBytes(down) /\ IsBytes(said) /\ IsBytes(heard)
         /\ IsBytes(asked) /\ IsBytes(obeyed) /\ IsBytes(nonces))'
    BY <1>0, <1>1, <1>2 DEF Shape
  <2>6. (/\ DOMAIN ses = {"sec", "in", "out", "buf"} /\ IsBytes(ses.buf)
         /\ ses.sec \in BOOLEAN /\ ses.in \in Nat /\ ses.out \in Nat)'
    BY <1>2
  <2> QED BY <2>1, <2>2, <2>3, <2>4, <2>5, <2>6 DEF Shape
<1>4. Secret'
  BY <1>0, <1>1 DEF Secret, SSM_DISCONNECTED, SSM_LOGGIN
<1>5. Used' /\ Once'
  <2>1. Used /\ Once /\ UNCHANGED <<nonces, token, code, pc, loaded, encrypt>>
    BY <1>0, <1>1
  <2>2. Used'
    BY ONLY <2>1 DEF Used, NextCount
  <2>3. Once'
    BY ONLY <2>1 DEF Once
  <2> QED BY <2>2, <2>3
<1>6. Away' /\ Messages' /\ Phase' /\ Stream' /\ Counts'
  BY <1>1 DEF Away, Messages, Phase, Stream, Counts, SqueezedIn
<1>7. Heard'
  BY <1>0, <1>1 DEF Heard
<1>8. Sending'
  BY <1>0, <1>1 DEF Sending, Cell
<1>9. Obeyed'
  BY <1>0, <1>1 DEF Obeyed
<1> QED BY <1>3, <1>4, <1>5, <1>6, <1>7, <1>8, <1>9 DEF IInv

\* One more encrypted message, in a session with a login.
LEMMA SaysMore ==
  ASSUME IInv, link, ses.sec, NEW x, Later(x),
         NEW s, DOMAIN s = Kinds, s.out = ses.out, s.sec = ses.sec,
         Say(down, s, x, TRUE), UNCHANGED <<link, session, heard>>
  PROVE  /\ IsBytes(down') /\ IsBytes(said') /\ Messages' /\ Plains' = Plains
         /\ DOMAIN ses' = Kinds /\ ses'.in = s.in /\ ses'.sec = ses.sec /\ ses'.buf = s.buf
         /\ ses'.out = ses.out + 1
         /\ Len(said') = Len(said) + 1 /\ \A m \in 1 .. Len(said) : said'[m] = said[m]
         /\ \A k \in Nat : OnAir(down, Wire, Len(heard), k) =>
              OnAir(down', Wire', Len(heard), k) /\ (k > 1 => NextMessage' = NextMessage)
<1>0. /\ Shape /\ Messages /\ Phase /\ IsBytes(down) /\ IsBytes(said) /\ IsBytes(heard) /\ session' = session
      /\ heard' = heard /\ ses.out \in Nat /\ Len(heard) \in Nat /\ Len(said) \in Nat
  BY DEF IInv, Shape, IsBytes
<1>1. /\ Plains \in Nat /\ Plains <= Len(said)
      /\ \A m \in 1 .. Len(said) : IsBytes(said[m]) /\ Len(said[m]) > 0
  BY <1>0, SaidAre
<1>2. s.out \in Nat /\ s.out = ses.out /\ s.out <= Len(said)
  BY <1>0, <1>1 DEF Plains
<1>3. IsBytes(x) /\ Len(x) > 0
  BY LaterIs
<1>4. Stream /\ (\E k \in Nat : OnAir(down, Wire, Len(heard), k))
  BY DEF IInv, Stream
<1>5. \A k \in Nat : OnAir(down, Wire, Len(heard), k) => OnAir(down', Wire', Len(heard), k)
  <2> SUFFICES ASSUME NEW k \in Nat, OnAir(down, Wire, Len(heard), k) PROVE OnAir(down', Wire', Len(heard), k)
    OBVIOUS
  <2> DEFINE a == Len(heard)
  <2>1. a \in Nat /\ OnAir(down, Wire, a, k)
    BY <1>0
  <2> HIDE DEF a
  <2>2. OnAir(down', Wire', a, k)
    BY <2>1, <1>0, <1>1, <1>2, <1>3, SaySecure
  <2> QED BY <2>2 DEF a
<1>6. /\ IsBytes(down') /\ said' = Append(said, x)
      /\ DOMAIN ses' = Kinds /\ ses'.in = s.in /\ ses'.sec = s.sec /\ ses'.buf = s.buf
      /\ ses'.out = s.out + 1 /\ Plains' = Plains
  <2>1. PICK k \in Nat : OnAir(down, Wire, Len(heard), k)
    BY <1>4
  <2> DEFINE a == Len(heard)
  <2>2. a \in Nat /\ OnAir(down, Wire, a, k)
    BY <1>0, <2>1
  <2> HIDE DEF a
  <2>3. /\ Say(down, s, x, TRUE) /\ session' = session /\ IsBytes(down) /\ IsBytes(said) /\ DOMAIN s = Kinds
    BY <1>0
  <2>4. IsBytes(down')
    BY <2>2, <1>0, <1>1, <1>2, <1>3, SaySecure
  <2>7. said' = Append(said, x)
    BY DEF Say
  <2>5. DOMAIN ses' = Kinds /\ ses'.in = s.in /\ ses'.sec = s.sec /\ ses'.buf = s.buf
    BY ONLY <2>2, <2>3, <1>1, <1>2, <1>3, SaySecure
  <2>6. ses'.out = s.out + 1 /\ Plains' = Plains
    BY ONLY <2>2, <2>3, <1>1, <1>2, <1>3, SaySecure
  <2> QED BY <2>4, <2>5, <2>6, <2>7
<1>7. /\ IsBytes(said') /\ Len(said') = Len(said) + 1 /\ said'[Len(said) + 1] = x
      /\ \A m \in 1 .. Len(said) : said'[m] = said[m]
  BY <1>6, <1>0, AppendIs
<1>8. Messages'
  <2>1. /\ Plains \in {1, 2} /\ Len(said) >= Plains
        /\ said[1] = InitialOf(session) /\ (Plains = 2 => said[2] = RegAnswer)
        /\ \A m \in 1 .. Len(said) : m > Plains => Later(said[m])
    BY <1>0 DEF Messages
  <2>2. said'[1] = InitialOf(session) /\ (Plains = 2 => said'[2] = RegAnswer)
    BY <2>1, <1>7, <1>0
  <2>3. \A m \in 1 .. Len(said') : m > Plains => Later(said'[m])
    <3> TAKE m \in 1 .. Len(said')
    <3>1. m \in 1 .. Len(said) \/ m = Len(said) + 1
      BY <1>7, <1>0
    <3> QED BY <3>1, <2>1, <1>7
  <2>4. Len(said') >= Plains
    BY <2>1, <1>7, <1>0
  <2> QED BY <2>1, <2>2, <2>3, <2>4, <1>6, <1>0 DEF Messages
<1>9. ASSUME NEW k \in Nat, OnAir(down, Wire, Len(heard), k), k > 1 PROVE NextMessage' = NextMessage
  <2>1. down # <<>>
    BY <1>9 DEF OnAir
  <2>2. Len(heard) + 1 \in 1 .. Len(said)
    BY <2>1, <1>9, Where
  <2>3. said'[Len(heard) + 1] = said[Len(heard) + 1]
    BY <2>2, <1>7
  <2> QED BY <2>3, <1>0, <1>6 DEF NextMessage, Encoded
<1> QED BY <1>5, <1>6, <1>7, <1>8, <1>9

\* A publication of the SESAME.
LEMMA PublishKeeps == ASSUME IInv, NEW p \in News, Publish(p) PROVE IInv'
<1>0. /\ Shape /\ Secret /\ Used /\ Once /\ Messages /\ Phase /\ Stream /\ Heard /\ Sending /\ Obeyed /\ Counts
      /\ DOMAIN ses = Kinds /\ ses.out \in Nat /\ Len(heard) \in Nat /\ Len(said) \in Nat
  BY DEF IInv, Shape, Kinds, IsBytes
<1>1. /\ link /\ ses.sec /\ Say(down, ses, p, TRUE)
      /\ UNCHANGED <<device_status, b_buf, c_offset, device_secret, code, token, encrypt, decrypt,
                     pc, todo, loaded, data, remain, link, session, registered, asked, obeyed, heard,
                     nonces, overrun, wild, met, lost>>
  BY DEF Publish, slot, mqtt, cipher
<1>2. Later(p)
  BY BytesAssumption DEF Later, Lengths
<1>3. /\ IsBytes(down') /\ IsBytes(said') /\ Messages' /\ Plains' = Plains
      /\ DOMAIN ses' = Kinds /\ ses'.in = ses.in /\ ses'.sec = ses.sec /\ ses'.buf = ses.buf
      /\ ses'.out = ses.out + 1
      /\ Len(said') = Len(said) + 1 /\ \A m \in 1 .. Len(said) : said'[m] = said[m]
      /\ \A k \in Nat : OnAir(down, Wire, Len(heard), k) =>
           OnAir(down', Wire', Len(heard), k) /\ (k > 1 => NextMessage' = NextMessage)
  <2>1. DOMAIN ses = Kinds /\ ses.out = ses.out /\ ses.sec = ses.sec /\ UNCHANGED <<link, session, heard>>
    BY <1>0, <1>1
  <2> QED BY <2>1, <1>1, <1>2, SaysMore
<1>4. Shape'
  <2>1. (/\ device_status \in {SSM_DISCONNECTED, SSM_CONNECTED, SSM_LOGGIN}
         /\ pc \in {"idle", "offset", "rest", "encrypt", "count", "store", "write", "panic"}
         /\ IsBytes(b_buf) /\ Len(b_buf) = BufSize /\ c_offset \in 0 .. BufSize)'
    BY <1>0, <1>1 DEF Shape
  <2>2. (encrypt \in Nat /\ decrypt \in Nat /\ loaded \in Nat /\ data \in Nat /\ remain \in Nat /\ lost \in Nat)'
    BY <1>0, <1>1 DEF Shape
  <2>3. (link \in BOOLEAN /\ registered \in BOOLEAN /\ met \in BOOLEAN /\ wild \in BOOLEAN /\ overrun = FALSE)'
    BY <1>0, <1>1 DEF Shape
  <2>4. (session \in 0 .. MaxSessions /\ code \in 0 .. session)'
    BY <1>0, <1>1 DEF Shape
  <2>5. (/\ IsBytes(down) /\ IsBytes(said) /\ IsBytes(heard)
         /\ IsBytes(asked) /\ IsBytes(obeyed) /\ IsBytes(nonces))'
    BY <1>0, <1>1, <1>3 DEF Shape
  <2>6. (/\ DOMAIN ses = {"sec", "in", "out", "buf"} /\ IsBytes(ses.buf)
         /\ ses.sec \in BOOLEAN /\ ses.in \in Nat /\ ses.out \in Nat)'
    BY <1>0, <1>3 DEF Shape, Kinds
  <2> QED BY <2>1, <2>2, <2>3, <2>4, <2>5, <2>6 DEF Shape
<1>5. Secret' /\ Used' /\ Once'
  BY <1>0, <1>1 DEF Secret, Used, Once, NextCount
<1>6. Away'
  BY <1>1 DEF Away
<1>7. Phase'
  BY <1>0, <1>1, <1>3 DEF Phase
<1>8. Stream'
  <2>1. PICK k \in Nat : OnAir(down, Wire, Len(heard), k) /\ Received(k)
    BY <1>0, <1>1 DEF Stream
  <2>2. OnAir(down', Wire', Len(heard'), k)
    BY <2>1, <1>1, <1>3
  <2>3. k > 1 => NextMessage' = NextMessage
    BY <2>1, <1>3
  <2>4. Received(k)'
    BY <2>1, <2>3, <1>1, <1>3 DEF Received
  <2> QED BY <2>2, <2>4 DEF Stream
<1>9. Heard'
  BY <1>0, <1>1, <1>3 DEF Heard
<1>10. Sending'
  BY <1>0, <1>1 DEF Sending, Cell
<1>11. Obeyed'
  BY <1>0, <1>1 DEF Obeyed
<1>12. Counts'
  BY <1>0, <1>1, <1>3 DEF Counts, SqueezedIn
<1> QED BY <1>3, <1>4, <1>5, <1>6, <1>7, <1>8, <1>9, <1>10, <1>11, <1>12 DEF IInv

-----------------------------------------------------------------------------
(* What a notification leaves of the invariant.                            *)

\* A stored segment leaves b_buf with one segment more of the message.
LEMMA StoresKeeps == ASSUME IInv, NEW k \in Nat, Stores(k) PROVE IInv'
<1>0. /\ Shape /\ Secret /\ Used /\ Once /\ Messages /\ Phase /\ Heard /\ Sending /\ Obeyed /\ Counts
      /\ IsBytes(down) /\ Len(heard) \in Nat /\ met \in BOOLEAN
  BY DEF IInv, Shape, IsBytes
<1>1. /\ link /\ down # <<>> /\ pc # "panic"
      /\ UNCHANGED <<pc, todo, loaded, data, remain, link, session, wild>>
      /\ overrun' = FALSE /\ met' = (met \/ pc # "idle")
      /\ IsBytes(b_buf') /\ Len(b_buf') = BufSize /\ c_offset' \in 0 .. BufSize
  BY DEF Stores, Handles
<1>2. /\ UNCHANGED <<device_status, device_secret, code, token, encrypt, decrypt, said, heard, ses,
                     asked, obeyed, nonces, registered, lost>>
      /\ k \in Nat \ {0} /\ down' = Tail(down) /\ OnAir(Tail(down), Wire, Len(heard), k + 1)
      /\ Len(heard) < Plains \/ (~met /\ pc = "idle") =>
           c_offset' = At(k + 1) /\ \A i \in 1 .. At(k + 1) : b_buf'[i] = NextMessage[i]
      /\ pc \in {"rest", "encrypt", "count", "store"} => c_offset' + TagLen <= BufSize
      /\ \E n \in Starts :
           c_offset' <= n + At(k) + (IF pc \in {"rest", "encrypt", "count", "store"} THEN 0 ELSE TagLen)
  BY DEF Stores
<1>3. IsBytes(down')
  BY <1>0, <1>1, <1>2, TailIs
<1>4. Shape'
  <2>1. (/\ device_status \in {SSM_DISCONNECTED, SSM_CONNECTED, SSM_LOGGIN}
         /\ pc \in {"idle", "offset", "rest", "encrypt", "count", "store", "write", "panic"}
         /\ IsBytes(b_buf) /\ Len(b_buf) = BufSize /\ c_offset \in 0 .. BufSize)'
    BY <1>0, <1>1, <1>2 DEF Shape
  <2>2. (encrypt \in Nat /\ decrypt \in Nat /\ loaded \in Nat /\ data \in Nat /\ remain \in Nat /\ lost \in Nat)'
    BY <1>0, <1>1, <1>2 DEF Shape
  <2>3. (link \in BOOLEAN /\ registered \in BOOLEAN /\ met \in BOOLEAN /\ wild \in BOOLEAN /\ overrun = FALSE)'
    BY <1>0, <1>1, <1>2 DEF Shape
  <2>4. (session \in 0 .. MaxSessions /\ code \in 0 .. session)'
    BY <1>0, <1>1, <1>2 DEF Shape
  <2>5. (/\ IsBytes(down) /\ IsBytes(said) /\ IsBytes(heard)
         /\ IsBytes(asked) /\ IsBytes(obeyed) /\ IsBytes(nonces))'
    BY <1>0, <1>1, <1>2, <1>3 DEF Shape
  <2>6. (/\ DOMAIN ses = {"sec", "in", "out", "buf"} /\ IsBytes(ses.buf)
         /\ ses.sec \in BOOLEAN /\ ses.in \in Nat /\ ses.out \in Nat)'
    BY <1>0, <1>2 DEF Shape
  <2> QED BY <2>1, <2>2, <2>3, <2>4, <2>5, <2>6 DEF Shape
<1>5. Secret'
  BY <1>0, <1>1, <1>2 DEF Secret
<1>6. Used' /\ Once'
  <2>1. NextCount' = NextCount
    BY <1>1, <1>2 DEF NextCount
  <2> QED BY <2>1, <1>0, <1>1, <1>2 DEF Used, Once
<1>7. Away'
  BY <1>1 DEF Away
<1>8. Messages' /\ Phase'
  BY <1>0, <1>1, <1>2 DEF Messages, Phase, Plains
<1>9. Stream'
  <2>1. Wire' = Wire /\ Plains' = Plains /\ NextMessage' = NextMessage
    BY <1>1, <1>2 DEF Wire, Plains, NextMessage
  <2> DEFINE k1 == k + 1
  <2>2. k1 \in Nat /\ k1 - 1 = k /\ k1 = k + 1
    OBVIOUS
  <2>3. Len(heard) < Plains => pc = "idle"
    BY <1>0, <1>1 DEF Phase
  <2> HIDE DEF k1
  <2>4. OnAir(down', Wire', Len(heard'), k1)
    BY <2>1, <2>2, <1>2
  <2>5. (Len(heard) < Plains \/ ~met') => /\ pc = "idle" /\ c_offset' = At(k1)
                                         /\ \A i \in 1 .. At(k1) : b_buf'[i] = NextMessage[i]
    BY <1>1, <1>2, <2>2, <2>3
  <2>6. \E n \in Starts :
           c_offset' <= n + At(k1 - 1) + (IF pc \in {"rest", "encrypt", "count", "store"} THEN 0 ELSE TagLen)
    BY <1>2, <2>2
  <2>7. Received(k1)'
    BY <2>1, <2>5, <2>6, <1>1, <1>2 DEF Received
  <2> QED BY <2>2, <2>4, <2>7 DEF Stream
<1>10. Heard'
  BY <1>0, <1>1, <1>2 DEF Heard
<1>11. Sending'
  BY <1>0, <1>1, <1>2 DEF Sending, Cell
<1>12. Obeyed' /\ Counts'
  BY <1>0, <1>1, <1>2 DEF Obeyed, Counts, SqueezedIn
<1> QED BY <1>4, <1>5, <1>6, <1>7, <1>8, <1>9, <1>10, <1>11, <1>12 DEF IInv

\* A taken message is the next of what was said.
LEMMA TakesKeeps == ASSUME IInv, NEW plain, Takes(plain) PROVE IInv'
<1>0. /\ Shape /\ Secret /\ Used /\ Once /\ Messages /\ Phase /\ Heard /\ Sending /\ Obeyed /\ Counts
      /\ IsBytes(heard) /\ Len(heard) \in Nat /\ met \in BOOLEAN /\ Len(said) \in Nat
      /\ ses.out \in Nat /\ decrypt \in Nat
  BY DEF IInv, Shape, IsBytes
<1>1. /\ link /\ pc # "panic"
      /\ UNCHANGED <<pc, todo, loaded, data, remain, link, session, wild>>
      /\ overrun' = FALSE /\ met' = (met \/ pc # "idle") /\ c_offset' = 0 /\ 0 \in 0 .. BufSize
  BY LinkAssumption DEF Takes, Handles
<1>2. /\ device_secret = Key /\ UNCHANGED <<device_secret, code, token>>
      /\ Len(heard) >= Plains /\ Len(heard) < Len(said)
      /\ heard' = Append(heard, plain) /\ (~met /\ pc = "idle" => plain = said[Len(heard) + 1])
      /\ decrypt' = decrypt + 1 /\ device_status' \in {device_status, SSM_LOGGIN}
      /\ Ends(Len(heard) + 1, 1)
  BY DEF Takes
<1>4. /\ IsBytes(heard') /\ Len(heard') = Len(heard) + 1 /\ heard'[Len(heard) + 1] = plain
      /\ \A m \in 1 .. Len(heard) : heard'[m] = heard[m]
  BY <1>0, <1>2, AppendIs
<1>5. Plains \in {1, 2} /\ Plains = Len(said) - ses.out
  BY <1>0, <1>1 DEF Plains, Messages
<1>6. ses.out > 0 /\ ses.sec /\ heard # <<>> /\ heard' # <<>>
  <2>1. ses.out > 0
    BY <1>0, <1>2, <1>5
  <2>2. heard # <<>> /\ heard' # <<>>
    <3>1. Len(heard) > 0
      BY <1>0, <1>2, <1>5
    <3> QED BY <3>1, <1>0, <1>4, NoBytes
  <2> QED BY <2>1, <2>2, <1>0, <1>1 DEF Phase
<1> DEFINE a == Len(heard) + 1
           k == 1
<1>k. Keeps(a, k)
  <2>1. LoggedIn
    BY <1>0, <1>1, <1>2, <1>6 DEF LoggedIn
  <2>2. Ends(a, k)
    BY <1>2
  <2> HIDE DEF a, k
  <2> QED BY <2>1, <2>2, <1>0, EndsKeep
<1> HIDE DEF a, k
<1>3. /\ IsBytes(b_buf') /\ Len(b_buf') = BufSize /\ encrypt' \in Nat /\ lost' \in Nat /\ UNCHANGED registered
      /\ IsBytes(down') /\ IsBytes(said') /\ IsBytes(asked') /\ IsBytes(obeyed') /\ IsBytes(nonces')
      /\ DOMAIN ses' = Kinds /\ IsBytes(ses'.buf) /\ ses'.sec = ses.sec /\ ses'.in \in Nat
      /\ ses'.out = ses.out \/ (ses.sec /\ ses'.out = ses.out + 1)
      /\ Plains' = Plains /\ OnAir(down', Wire', a, k)
      /\ Len(said') >= Len(said) /\ Len(said') \in Nat /\ \A m \in 1 .. Len(said) : said'[m] = said[m]
      /\ Messages' /\ Used' /\ Once' /\ Obeyed' /\ Counts'
  BY <1>k DEF Keeps
<1>o. ses'.out \in Nat /\ ses'.out > 0
  BY <1>0, <1>3, <1>6
<1>7. Shape'
  <2>1. (/\ device_status \in {SSM_DISCONNECTED, SSM_CONNECTED, SSM_LOGGIN}
         /\ pc \in {"idle", "offset", "rest", "encrypt", "count", "store", "write", "panic"}
         /\ IsBytes(b_buf) /\ Len(b_buf) = BufSize /\ c_offset \in 0 .. BufSize)'
    BY <1>0, <1>1, <1>2, <1>3 DEF Shape
  <2>2. (encrypt \in Nat /\ decrypt \in Nat /\ loaded \in Nat /\ data \in Nat /\ remain \in Nat /\ lost \in Nat)'
    BY <1>0, <1>1, <1>2, <1>3 DEF Shape
  <2>3. (link \in BOOLEAN /\ registered \in BOOLEAN /\ met \in BOOLEAN /\ wild \in BOOLEAN /\ overrun = FALSE)'
    BY <1>0, <1>1, <1>3 DEF Shape
  <2>4. (session \in 0 .. MaxSessions /\ code \in 0 .. session)'
    BY <1>0, <1>1, <1>2 DEF Shape
  <2>5. (/\ IsBytes(down) /\ IsBytes(said) /\ IsBytes(heard)
         /\ IsBytes(asked) /\ IsBytes(obeyed) /\ IsBytes(nonces))'
    BY <1>3, <1>4
  <2>6. (/\ DOMAIN ses = {"sec", "in", "out", "buf"} /\ IsBytes(ses.buf)
         /\ ses.sec \in BOOLEAN /\ ses.in \in Nat /\ ses.out \in Nat)'
    <3>1. DOMAIN ses' = {"sec", "in", "out", "buf"} /\ IsBytes(ses'.buf) /\ ses'.in \in Nat /\ ses'.out \in Nat
      BY <1>3, <1>o DEF Kinds
    <3>2. ses.sec \in BOOLEAN /\ ses'.sec = ses.sec
      BY <1>0, <1>3 DEF Shape
    <3> QED BY <3>1, <3>2
  <2> QED BY <2>1, <2>2, <2>3, <2>4, <2>5, <2>6 DEF Shape
<1>8. Secret'
  <2>1. Key # <<>>
    BY KeyIs
  <2> QED BY <2>1, <1>0, <1>1, <1>2 DEF Secret
<1>10. Away'
  BY <1>1 DEF Away
<1>12. Phase'
  <2>1. code = session /\ decrypt = Len(heard) - Plains
    BY <1>0, <1>1, <1>2, <1>6 DEF Phase
  <2>2. decrypt' = Len(heard') - Plains /\ Len(heard') >= Plains /\ ~(Len(heard') < Plains)
    <3>1. /\ decrypt' = decrypt + 1 /\ decrypt = Len(heard) - Plains /\ Len(heard') = Len(heard) + 1
          /\ Len(heard) \in Nat /\ Plains \in {1, 2} /\ Len(heard) >= Plains
      BY <2>1, <1>0, <1>2, <1>4, <1>5
    <3> QED BY ONLY <3>1
  <2>3. ses'.sec /\ ses'.out > 0 /\ Plains' = Plains
    BY <1>3, <1>6, <1>o
  <2> QED BY <2>1, <2>2, <2>3, <1>1, <1>2, <1>6 DEF Phase
<1>13. Stream'
  <2>2. OnAir(down', Wire', Len(heard'), 1)
    BY <1>3, <1>4 DEF a, k
  <2>3. Received(1)'
    BY DEF Received
  <2> QED BY <2>2, <2>3 DEF Stream
<1>14. Heard'
  <2>1. Len(heard') <= Len(said')
    BY <1>0, <1>2, <1>3, <1>4
  <2>2. ~met' => ~wild' /\ \A m \in 1 .. Len(heard') : heard'[m] = said'[m]
    <3>0. ~met' => ~met /\ pc = "idle" /\ ~wild'
      BY <1>0, <1>1 DEF Heard
    <3> SUFFICES ASSUME ~met', NEW m \in 1 .. Len(heard') PROVE heard'[m] = said'[m]
      BY <3>0
    <3>2. m \in 1 .. Len(heard) \/ m = Len(heard) + 1
      BY <1>0, <1>4
    <3>3. m \in 1 .. Len(said)
      BY <1>0, <1>2, <1>4
    <3> QED BY <3>0, <3>2, <3>3, <1>0, <1>2, <1>3, <1>4 DEF Heard
  <2> QED BY <2>1, <2>2 DEF Heard
<1>15. Sending'
  <2>1. TagLen <= BufSize
    BY RoomAssumption, LinkAssumption DEF Starts
  <2>2. c_offset' + TagLen <= BufSize
    BY <2>1, <1>1, LinkAssumption
  <2>3. ~met' => pc = "idle"
    BY <1>0, <1>1
  <2>4. /\ pc' \notin {"idle", "panic"} => todo' \in Commands
        /\ pc' = "write" => data' + remain' <= BufSize
    BY <1>0, <1>1 DEF Sending
  <2>5. pc' = pc
    BY <1>1
  <2> QED BY <2>2, <2>3, <2>4, <2>5 DEF Sending
<1> QED BY <1>3, <1>7, <1>8, <1>10, <1>12, <1>13, <1>14, <1>15 DEF IInv

\* A message in the clear: nothing, the registration or the login may follow.
LEMMA OpensKeeps == ASSUME IInv, Opens PROVE IInv'
<1>0. /\ Shape /\ Secret /\ Used /\ Once /\ Messages /\ Phase /\ Heard /\ Sending /\ Obeyed /\ Counts
      /\ IsBytes(heard) /\ IsBytes(said) /\ Len(heard) \in Nat /\ Len(said) \in Nat
      /\ ses.in \in Nat /\ code \in Nat /\ code \in 0 .. session /\ session \in 0 .. MaxSessions
      /\ registered \in BOOLEAN /\ MaxSessions \in Nat
  BY LinkAssumption DEF IInv, Shape, IsBytes
<1>1. /\ link /\ pc = "idle"
      /\ UNCHANGED <<pc, todo, loaded, data, remain, link, session, wild, asked, nonces>>
      /\ overrun' = FALSE /\ met' = (met \/ pc # "idle")
      /\ IsBytes(b_buf') /\ Len(b_buf') = BufSize /\ c_offset' \in 0 .. BufSize
      /\ Len(heard) < Plains /\ Len(heard) < Len(said)
      /\ heard' = Append(heard, said[Len(heard) + 1])
  BY DEF Opens, Handles
<1>2. /\ device_status = SSM_CONNECTED /\ ~ses.sec /\ Plains \in {1, 2} /\ ses.out = 0 /\ Plains = Len(said)
      /\ ses.out \in Nat
      /\ Len(said) >= Plains /\ said[1] = InitialOf(session) /\ (Plains = 2 => said[2] = RegAnswer /\ registered)
  <2>1. ~ses.sec /\ device_status = SSM_CONNECTED /\ (Plains = 2 => registered) /\ (ses.sec <=> ses.out > 0)
    BY <1>0, <1>1 DEF Phase
  <2>2. ses.out = 0
    BY <2>1, <1>0 DEF Shape
  <2>3. Plains = Len(said)
    BY <2>2, <1>0 DEF Plains
  <2> QED BY <2>1, <2>2, <2>3, <1>0, <1>1 DEF Messages
<1> DEFINE a == Len(heard) + 1
           first == Item(IF Len(heard) = 0 /\ device_secret = <<>> THEN "REGISTRATION" ELSE "LOGIN")
<1>3. /\ Talked(first, a)
      /\ Len(heard) = 0 => /\ code' = session /\ encrypt' = 0 /\ decrypt' = 0
                           /\ UNCHANGED <<device_status, device_secret>>
                           /\ token' = IF device_secret = <<>> THEN <<>> ELSE Token(session)
      /\ Len(heard) # 0 => /\ Len(heard) = 1 /\ UNCHANGED <<code, encrypt, decrypt>>
                           /\ device_status' = SSM_LOGGIN /\ device_secret' = Key
                           /\ token' = Token(code)
  <2>1. CASE Len(heard) = 0
    <3>1. /\ code' = session /\ encrypt' = 0 /\ decrypt' = 0
          /\ UNCHANGED <<device_status, device_secret>>
          /\ token' = IF device_secret = <<>> THEN <<>> ELSE Token(session)
          /\ Talked(Item(IF device_secret = <<>> THEN "REGISTRATION" ELSE "LOGIN"), 1)
      BY <2>1 DEF Opens
    <3>2. a = 1 /\ first = Item(IF device_secret = <<>> THEN "REGISTRATION" ELSE "LOGIN")
      BY <2>1
    <3> QED BY <3>1, <3>2, <2>1
  <2>2. CASE Len(heard) # 0
    <3>1. /\ Len(heard) = 1 /\ UNCHANGED <<code, encrypt, decrypt>>
          /\ device_status' = SSM_LOGGIN /\ device_secret' = Key
          /\ token' = Token(code) /\ Talked(Item("LOGIN"), 2)
      BY <2>2 DEF Opens
    <3>2. a = 2 /\ first = Item("LOGIN")
      BY <3>1
    <3> QED BY <3>1, <3>2, <2>2
  <2> QED BY <2>1, <2>2
<1>f. first = Item("REGISTRATION") => Len(heard) = 0 /\ device_secret = <<>>
  BY DEF Item
<1>l. first = Item("LOGIN") => device_secret' = Key
  <2>1. device_secret \in {<<>>, Key}
    BY <1>0 DEF Secret
  <2>2. Len(heard) = 0 => device_secret' = device_secret
    BY <1>3
  <2>3. first = Item("LOGIN") => ~(Len(heard) = 0 /\ device_secret = <<>>)
    BY DEF Item
  <2> QED BY <2>1, <2>2, <2>3, <1>3
<1>a. a \in Nat /\ a = Len(heard) + 1
  BY <1>0
<1> HIDE DEF first, a
<1>4. /\ lost' \in Nat /\ (lost' = 0 => lost = 0) /\ obeyed' = obeyed
      /\ IsBytes(down') /\ OnAir(down', Wire', a, 1)
      /\ DOMAIN ses' = Kinds /\ IsBytes(ses'.buf) /\ ses'.in = ses.in
      /\ \/ said' = said /\ ses'.out = 0 /\ ses'.sec = FALSE /\ registered' = registered
         \/ /\ first = Item("REGISTRATION") /\ said' = Append(said, RegAnswer)
            /\ ses'.out = 0 /\ ses'.sec = FALSE /\ registered' = TRUE
         \/ /\ first = Item("LOGIN") /\ said' = Append(said, LoginAnswer)
            /\ ses'.out = 1 /\ ses'.sec = TRUE /\ registered' = registered
  BY <1>3 DEF Talked
<1>5. /\ IsBytes(heard') /\ Len(heard') = Len(heard) + 1 /\ heard'[Len(heard) + 1] = said[Len(heard) + 1]
      /\ \A m \in 1 .. Len(heard) : heard'[m] = heard[m]
  BY <1>0, <1>1, AppendIs
<1>h. heard' # <<>> /\ (heard = <<>> <=> Len(heard) = 0)
  BY <1>0, <1>5, NoBytes
<1>6. heard = <<>> => Plains = 1 /\ code < session /\ ses.in = 0
  BY <1>0, <1>1 DEF Phase
<1>7. /\ IsBytes(said') /\ Len(said') \in Nat /\ Len(said') >= Len(said)
      /\ \A m \in 1 .. Len(said) : said'[m] = said[m]
  <2>1. \A x : /\ IsBytes(Append(said, x)) /\ Len(Append(said, x)) = Len(said) + 1
               /\ \A m \in 1 .. Len(said) : Append(said, x)[m] = said[m]
    BY <1>0, AppendIs
  <2>2. CASE said' = said
    BY <2>2, <1>0
  <2>3. CASE \E x : said' = Append(said, x)
    BY <2>1, <2>3, <1>0
  <2> QED BY <2>2, <2>3, <1>4
<1>8. /\ Plains' \in {1, 2} /\ Plains' >= Plains
      /\ \/ Len(said') = Plains' /\ ~ses'.sec /\ ses'.out = 0
         \/ Len(said') = Plains' + 1 /\ ses'.sec /\ ses'.out = 1 /\ said'[Len(said')] = LoginAnswer
                                    /\ device_secret' = Key
      /\ Plains' # Plains => /\ Plains = 1 /\ said'[2] = RegAnswer /\ registered' /\ Len(heard) = 0
                             /\ ~ses'.sec
      /\ Plains' = Plains => registered' = registered
  <2>0. Plains' = Len(said') - ses'.out
    BY DEF Plains
  <2>1. CASE said' = said /\ ses'.out = 0 /\ ses'.sec = FALSE /\ registered' = registered
    BY <2>0, <2>1, <1>0, <1>2
  <2>2. CASE /\ first = Item("REGISTRATION") /\ said' = Append(said, RegAnswer)
             /\ ses'.out = 0 /\ ses'.sec = FALSE /\ registered' = TRUE
    <3>1. Len(heard) = 0 /\ Plains = 1
      BY <2>2, <1>f, <1>6, <1>h
    <3>2. Len(said') = Len(said) + 1 /\ said'[Len(said) + 1] = RegAnswer
      BY <2>2, <1>0, AppendIs
    <3>3. Len(said) = 1 /\ Len(said') = 2 /\ Plains' = 2 /\ said'[2] = RegAnswer
      <4>1. Len(said) = 1 /\ ses'.out = 0
        BY <3>1, <2>2, <1>2
      <4>2. Len(said') = 2
        BY ONLY <4>1, <3>2
      <4>3. said'[2] = RegAnswer
        BY ONLY <4>1, <3>2
      <4>4. Plains' = 2
        BY ONLY <4>1, <4>2, <2>0
      <4> QED BY <4>1, <4>2, <4>3, <4>4
    <3> QED BY <3>1, <3>3, <2>2
  <2>3. CASE /\ first = Item("LOGIN") /\ said' = Append(said, LoginAnswer)
             /\ ses'.out = 1 /\ ses'.sec = TRUE /\ registered' = registered
    <3>1. Len(said') = Len(said) + 1 /\ said'[Len(said) + 1] = LoginAnswer
      BY <2>3, <1>0, AppendIs
    <3>2. Plains' = Plains /\ Len(said') = Plains' + 1 /\ said'[Len(said')] = LoginAnswer
      BY <3>1, <2>0, <2>3, <1>0, <1>2
    <3> QED BY <3>2, <2>3, <1>l, <1>2
  <2> QED BY <2>1, <2>2, <2>3, <1>4
<1>9. Shape'
  <2>1. (/\ device_status \in {SSM_DISCONNECTED, SSM_CONNECTED, SSM_LOGGIN}
         /\ pc \in {"idle", "offset", "rest", "encrypt", "count", "store", "write", "panic"}
         /\ IsBytes(b_buf) /\ Len(b_buf) = BufSize /\ c_offset \in 0 .. BufSize)'
    BY <1>0, <1>1, <1>3 DEF Shape
  <2>2. (encrypt \in Nat /\ decrypt \in Nat /\ loaded \in Nat /\ data \in Nat /\ remain \in Nat /\ lost \in Nat)'
    BY <1>0, <1>1, <1>3, <1>4 DEF Shape
  <2>3. (link \in BOOLEAN /\ registered \in BOOLEAN /\ met \in BOOLEAN /\ wild \in BOOLEAN /\ overrun = FALSE)'
    BY <1>0, <1>1, <1>4 DEF Shape
  <2>4. (session \in 0 .. MaxSessions /\ code \in 0 .. session)'
    BY <1>0, <1>1, <1>3 DEF Shape
  <2>5. (/\ IsBytes(down) /\ IsBytes(said) /\ IsBytes(heard)
         /\ IsBytes(asked) /\ IsBytes(obeyed) /\ IsBytes(nonces))'
    BY <1>0, <1>1, <1>4, <1>5, <1>7 DEF Shape
  <2>6. (/\ DOMAIN ses = {"sec", "in", "out", "buf"} /\ IsBytes(ses.buf)
         /\ ses.sec \in BOOLEAN /\ ses.in \in Nat /\ ses.out \in Nat)'
    <3>1. ses'.sec = FALSE \/ ses'.sec = TRUE
      BY <1>4
    <3>2. ses'.sec \in BOOLEAN
      BY ONLY <3>1, Zenon
    <3>3. ses'.in \in Nat /\ ses'.out \in Nat
      BY <1>0, <1>4
    <3> QED BY <3>2, <3>3, <1>4 DEF Kinds
  <2> QED BY <2>1, <2>2, <2>3, <2>4, <2>5, <2>6 DEF Shape
<1>10. Secret'
  <2>1. device_secret \in {<<>>, Key} /\ (device_secret = <<>> => nonces = <<>>) /\ Key # <<>>
    BY <1>0, KeyIs DEF Secret
  <2>2. CASE Len(heard) = 0
    <3>1. device_status' = SSM_CONNECTED /\ pc' = "idle" /\ nonces' = nonces
      BY <2>2, <1>1, <1>2, <1>3
    <3> QED BY <3>1, <2>1, <2>2, <1>3 DEF Secret, SSM_CONNECTED, SSM_LOGGIN
  <2>3. CASE Len(heard) # 0
    BY <2>1, <2>3, <1>3 DEF Secret
  <2> QED BY <2>2, <2>3
<1>11. Used' /\ Once'
  <2>1. Once'
    BY <1>0, <1>1 DEF Once
  <2>2. CASE Len(heard) = 0
    <3> SUFFICES ASSUME NEW i \in 1 .. Len(nonces)
                 PROVE  /\ nonces[i].squeezed \in BOOLEAN
                        /\ \E s \in 0 .. code', n \in Nat : nonces[i].nonce = <<Token(s), n>> /\ s # code'
      BY <2>1, <1>1 DEF Used
    <3>1. nonces[i].squeezed \in BOOLEAN
      BY <1>0 DEF Used
    <3>2. PICK s \in 0 .. code, n \in Nat : nonces[i].nonce = <<Token(s), n>>
      BY <1>0 DEF Used
    <3>3. s \in 0 .. code' /\ s # code'
      BY <2>2, <1>0, <1>3, <1>6, <1>h
    <3> QED BY <3>1, <3>2, <3>3
  <2>3. CASE Len(heard) # 0
    BY SMTT(30), <2>1, <2>3, <1>0, <1>1, <1>3 DEF Used, NextCount
  <2> QED BY <2>2, <2>3
<1>12. Away'
  BY <1>1 DEF Away
<1>13. Messages'
  <2>1. /\ said'[1] = InitialOf(session') /\ (Plains' = 2 => said'[2] = RegAnswer) /\ Len(said') >= Plains'
    <3>1. 1 \in 1 .. Len(said) /\ (Plains = 2 => 2 \in 1 .. Len(said))
      BY <1>2, <1>0
    <3>2. Len(said') >= Plains'
      <4> DEFINE L == Len(said')
      <4>1. Plains' \in {1, 2} /\ (L = Plains' \/ L = Plains' + 1)
        BY <1>8
      <4> HIDE DEF L
      <4>2. L >= Plains'
        BY ONLY <4>1
      <4> QED BY <4>2 DEF L
    <3> QED BY <3>1, <3>2, <1>1, <1>2, <1>7, <1>8
  <2>2. \A m \in 1 .. Len(said') : m > Plains' => Later(said'[m])
    <3> TAKE m \in 1 .. Len(said')
    <3>1. m > Plains' => m = Len(said') /\ said'[Len(said')] = LoginAnswer
      <4> SUFFICES ASSUME m > Plains' PROVE m = Len(said') /\ said'[Len(said')] = LoginAnswer
        OBVIOUS
      <4> DEFINE L == Len(said')
      <4>1. /\ Plains' \in {1, 2}
            /\ \/ L = Plains'
               \/ L = Plains' + 1 /\ said'[L] = LoginAnswer
        BY <1>8
      <4>3. m \in 1 .. L /\ m > Plains'
        OBVIOUS
      <4> HIDE DEF L
      <4>2. m = L /\ said'[L] = LoginAnswer
        BY ONLY <4>1, <4>3
      <4> QED BY <4>2 DEF L
    <3> QED BY <3>1, LoginAnswerIs
  <2> QED BY <2>1, <2>2, <1>8 DEF Messages
<1>14. Phase'
  <2>1. code' = session' /\ (Len(heard) # 0 => decrypt = 0 /\ Plains = 2)
    <3>1. heard # <<>> => code = session /\ decrypt = IF Len(heard) >= Plains THEN Len(heard) - Plains ELSE 0
      BY <1>0, <1>1 DEF Phase
    <3>2. Len(heard) # 0 => Len(heard) = 1 /\ Plains = 2
      BY <1>1, <1>2, <1>3
    <3> QED BY <3>1, <3>2, <1>h, <1>1, <1>3
  <2> DEFINE H == Len(heard)
             H1 == Len(heard')
  <2>0. H \in Nat /\ H1 = H + 1 /\ Plains' \in {1, 2} /\ Plains' >= Plains /\ Plains \in {1, 2}
    BY <1>0, <1>2, <1>5, <1>8
  <2>h. /\ H = 0 => decrypt' = 0
        /\ H # 0 => H = 1 /\ decrypt' = decrypt /\ decrypt = 0 /\ Plains = 2
    BY <2>1, <1>3
  <2> HIDE DEF H, H1
  <2>2. decrypt' = 0 /\ (H1 >= Plains' => H1 = Plains')
    BY ONLY <2>0, <2>h
  <2>3. (ses'.sec <=> ses'.out > 0) /\ (ses'.sec => device_secret' = Key)
    <3>1. \/ ~ses'.sec /\ ses'.out = 0
          \/ ses'.sec /\ ses'.out = 1 /\ device_secret' = Key
      BY <1>8
    <3> QED BY ONLY <3>1
  <2>4. Len(heard') < Plains' => /\ pc' = "idle" /\ device_status' = SSM_CONNECTED /\ ~ses'.sec
                                 /\ Plains' = 2 => registered'
    <3>0. H < Plains /\ (H = 0 => Plains = 1)
      BY <1>1, <1>6, <1>h DEF H
    <3>2. H1 < Plains' => H = 0 /\ Plains' # Plains
      BY ONLY <2>0, <2>h, <3>0
    <3>1. Len(heard') < Plains' => Len(heard) = 0 /\ Plains' # Plains
      BY <3>2 DEF H, H1
    <3> QED BY <3>1, <1>1, <1>2, <1>3, <1>8
  <2>5. decrypt' = IF Len(heard') >= Plains' THEN Len(heard') - Plains' ELSE 0
    <3>1. decrypt' = IF H1 >= Plains' THEN H1 - Plains' ELSE 0
      <4>1. CASE H1 >= Plains'
        <5>0. H1 = Plains' /\ H1 \in Int
          BY ONLY <4>1, <2>0, <2>2
        <5>2. \A x, y \in Int : x = y => x - y = 0
          OBVIOUS
        <5>3. Plains' \in Int
          BY ONLY <5>0
        <5>1. H1 - Plains' = 0
          BY ONLY <5>0, <5>2, <5>3
        <5> QED BY ONLY <5>1, <4>1, <2>2
      <4>2. CASE ~(H1 >= Plains')
        BY ONLY <4>2, <2>2
      <4> QED BY <4>1, <4>2
    <3> QED BY <3>1 DEF H1
  <2> QED BY <2>1, <2>3, <2>4, <2>5, <1>h DEF Phase
<1>15. Stream'
  <2>1. OnAir(down', Wire', Len(heard'), 1)
    BY <1>4, <1>5, <1>a
  <2>2. Received(1)'
    BY DEF Received
  <2> QED BY <2>1, <2>2 DEF Stream
<1>16. Heard'
  <2>1. Len(heard') <= Len(said')
    BY <1>0, <1>1, <1>5, <1>7
  <2>2. ~met' => ~wild' /\ \A m \in 1 .. Len(heard') : heard'[m] = said'[m]
    <3> SUFFICES ASSUME ~met', NEW m \in 1 .. Len(heard') PROVE heard'[m] = said'[m]
      BY <1>0, <1>1 DEF Heard
    <3>1. ~met
      BY <1>1
    <3>2. m \in 1 .. Len(heard) \/ m = Len(heard) + 1
      BY <1>0, <1>5
    <3>3. m \in 1 .. Len(said)
      BY <1>0, <1>1, <1>5
    <3>4. m \in 1 .. Len(heard) => heard[m] = said[m]
      BY <3>1, <1>0 DEF Heard
    <3> QED BY <3>2, <3>3, <3>4, <1>5, <1>7
  <2> QED BY <2>1, <2>2 DEF Heard
<1>17. Sending'
  BY <1>1 DEF Sending
<1>18. Obeyed'
  BY <1>0, <1>1, <1>4 DEF Obeyed
<1>19. Counts'
  <2>1. Len(heard) = 0 => encrypt' = 0 /\ ses'.in = 0
    BY <1>3, <1>4, <1>6, <1>h
  <2>2. Len(heard) # 0 /\ lost = 0 /\ ~SqueezedIn' => encrypt' = ses'.in
    <3> SUFFICES ASSUME Len(heard) # 0, lost = 0, ~SqueezedIn' PROVE encrypt' = ses'.in
      OBVIOUS
    <3>1. ~SqueezedIn
      <4>1. CASE device_secret = <<>>
        <5>1. nonces = <<>>
          BY <4>1, <1>0 DEF Secret
        <5>2. 1 .. Len(nonces) = {}
          BY <5>1, NoBytes
        <5> QED BY <5>2 DEF SqueezedIn
      <4>2. CASE device_secret # <<>>
        <5>1. token' = token
          BY <4>2, <1>0, <1>3 DEF Secret
        <5> QED BY <5>1, <1>1 DEF SqueezedIn
      <4> QED BY <4>1, <4>2
    <3>2. encrypt = ses.in + 0
      BY <3>1, <1>0, <1>1, <1>h DEF Counts
    <3> QED BY <3>2, <1>0, <1>3, <1>4
  <2>3. encrypt' \in Nat /\ ses'.in \in Nat
    BY <1>0, <1>3, <1>4 DEF Shape
  <2> QED BY <2>1, <2>2, <2>3, <1>0, <1>1, <1>4 DEF Counts
<1> QED BY <1>9, <1>10, <1>11, <1>12, <1>13, <1>14, <1>15, <1>16, <1>17, <1>18, <1>19 DEF IInv

\* A length that wraps ends the conversation.
LEMMA BreaksKeeps == ASSUME IInv, Breaks PROVE IInv'
<1>0. /\ Shape /\ Secret /\ Used /\ Once /\ Away /\ Messages /\ Phase /\ Stream /\ Heard
      /\ link /\ met \in BOOLEAN /\ Len(heard) \in Nat /\ Plains \in Nat
  <2>1. /\ Shape /\ Secret /\ Used /\ Once /\ Away /\ Messages /\ Phase /\ Stream /\ Heard
        /\ link /\ met \in BOOLEAN /\ Len(heard) \in Nat
    BY DEF IInv, Shape, IsBytes, Breaks
  <2> QED BY <2>1, SaidAre
<1>1. /\ Len(heard) >= Plains /\ pc' = "panic" /\ wild' = TRUE /\ overrun' = FALSE /\ met' = TRUE /\ pc # "panic"
      /\ UNCHANGED <<device_status, b_buf, c_offset, device_secret, code, token, encrypt, decrypt,
                     todo, loaded, data, remain, link, session, down, registered, ses,
                     asked, obeyed, said, heard, nonces, lost>>
  BY <1>0 DEF Breaks
<1>2. ~(Len(heard) < Plains) /\ Plains' = Plains /\ Wire' = Wire /\ NextMessage' = NextMessage
  BY <1>0, <1>1 DEF Plains, Wire, NextMessage
<1>3. Shape'
  BY <1>0, <1>1 DEF Shape
<1>4. Secret'
  <2>1. device_secret = Key
    BY DEF Breaks
  <2> QED BY <2>1, <1>0, <1>1 DEF Secret
<1>5. Used' /\ Once'
  BY <1>0, <1>1 DEF Used, Once
<1>6. Away' /\ Messages'
  BY <1>0, <1>1, <1>2 DEF Away, Messages
<1>7. Phase'
  BY <1>0, <1>1, <1>2 DEF Phase
<1>8. Stream'
  <2>1. PICK k \in Nat : OnAir(down, Wire, Len(heard), k) /\ Received(k)
    BY <1>0 DEF Stream
  <2>2. Received(k)'
    <3> SUFFICES ASSUME k > 1 PROVE \E n \in Starts : c_offset <= n + At(k - 1) + TagLen
      BY <1>1, <1>2 DEF Received
    <3>1. PICK n \in Starts :
            c_offset <= n + At(k - 1) + (IF pc \in {"rest", "encrypt", "count", "store"} THEN 0 ELSE TagLen)
      BY <2>1 DEF Received
    <3>2. n \in Nat /\ At(k - 1) \in Nat /\ TagLen \in Nat /\ c_offset \in Nat
      <4>1. n \in Nat /\ TagLen \in Nat /\ BufSize \in Nat
        BY StartsAre, LinkAssumption
      <4>2. k - 1 \in Nat \ {0}
        BY <2>1
      <4>3. At(k - 1) \in Nat
        BY <4>2, AtStep
      <4> QED BY <4>1, <4>3, <1>0 DEF Shape
    <3> DEFINE A == At(k - 1)
    <3>3. c_offset <= n + A + TagLen
      <4>1. c_offset <= n + A + (IF pc \in {"rest", "encrypt", "count", "store"} THEN 0 ELSE TagLen) /\ A \in Nat
        BY <3>1, <3>2
      <4> HIDE DEF A
      <4> QED BY ONLY <3>2, <4>1
    <3> QED BY <3>3
  <2> QED BY <2>1, <2>2, <1>1, <1>2 DEF Stream
<1>9. Heard'
  BY <1>0, <1>1 DEF Heard
<1>10. Sending' /\ Obeyed' /\ Counts'
  BY <1>1 DEF Sending, Obeyed, Counts
<1> QED BY <1>3, <1>4, <1>5, <1>6, <1>7, <1>8, <1>9, <1>10 DEF IInv

\* A notification keeps the invariant.
LEMMA ReceiveKeeps == ASSUME IInv, Receive PROVE IInv'
BY ReceiveCases, StoresKeeps, TakesKeeps, OpensKeeps, BreaksKeeps

-----------------------------------------------------------------------------
(* The steps of a command.                                                 *)

\* What a command can be.
LEMMA CommandIs ==
  ASSUME NEW c \in Commands
  PROVE  /\ IsBytes(c.head) /\ IsBytes(c.rest) /\ IsBytes(Plain(c)) /\ Len(Plain(c)) \in Nat
         /\ Len(Plain(c)) = Len(c.head) + Len(c.rest) /\ Len(c.head) \in Nat /\ Len(c.rest) \in Nat
         /\ Len(Plain(c)) \in Starts /\ Len(Plain(c)) + TagLen <= BufSize
<1>1. IsBytes(c.head) /\ IsBytes(c.rest)
  BY BytesAssumption
<1>2. IsBytes(Plain(c)) /\ Len(Plain(c)) = Len(c.head) + Len(c.rest)
  BY <1>1, ConcatIs DEF Plain
<1>3. Len(Plain(c)) \in Starts
  BY DEF Starts
<1>4. Len(Plain(c)) + TagLen <= BufSize
  BY <1>3, RoomAssumption
<1> QED BY <1>1, <1>2, <1>3, <1>4 DEF IsBytes

\* Its bytes are those of its two parts.
LEMMA PlainIs ==
  ASSUME NEW c \in Commands
  PROVE  /\ \A i \in 1 .. Len(c.head) : Plain(c)[i] = c.head[i]
         /\ \A i \in 1 .. Len(c.rest) : Plain(c)[Len(c.head) + i] = c.rest[i]
<1>1. IsBytes(c.head) /\ IsBytes(c.rest)
  BY BytesAssumption
<1> DEFINE h == c.head
           r == c.rest
           x == Plain(c)
<1>2. x = h \o r /\ IsBytes(h) /\ IsBytes(r)
  BY <1>1 DEF Plain
<1> HIDE DEF h, r, x
<1>3. /\ \A i \in 1 .. Len(h) : x[i] = h[i]
      /\ \A i \in 1 .. Len(r) : x[Len(h) + i] = r[i]
  BY <1>2, ConcatTo
<1> QED BY <1>3 DEF h, r, x

\* c_offset is where a command left it and x bytes of segments at most further.
Behind(p, c, x) ==
  \E n \in Starts : c <= n + x + (IF p \in {"rest", "encrypt", "count", "store"} THEN 0 ELSE TagLen)

\* Steps of the MQTT task that say nothing leave the conversation as it is.
LEMMA TaskKeeps ==
  ASSUME IInv, pc # "idle",
         UNCHANGED <<device_status, device_secret, code, decrypt, link, session, heard, down, said,
                     registered, met, wild>>,
         ses' = ses \/ (link /\ ses'.sec = ses.sec /\ ses'.out = ses.out),
         \A x \in Nat : Behind(pc, c_offset, x) => Behind(pc', c_offset', x)
  PROVE  Away' /\ Messages' /\ Phase' /\ Stream' /\ Heard'
<1>0. Away /\ Messages /\ Phase /\ Stream /\ Heard
  BY DEF IInv
<1>1. Plains' = Plains /\ Wire' = Wire
  BY DEF Plains, Wire
<1>2. Away' /\ Messages' /\ Heard'
  BY <1>0, <1>1 DEF Away, Messages, Heard
<1>3. link => ~(Len(heard) < Plains) /\ heard # <<>>
  <2>1. link => ~(Len(heard) < Plains) /\ Plains \in {1, 2}
    BY <1>0 DEF Phase, Messages
  <2> QED BY <2>1, NoBytes
<1>4. Phase'
  BY <1>0, <1>1, <1>3 DEF Phase
<1>5. Stream'
  <2> SUFFICES ASSUME link PROVE \E k \in Nat : OnAir(down, Wire, Len(heard), k) /\ Received(k)'
    BY <1>1 DEF Stream
  <2>1. PICK k \in Nat : OnAir(down, Wire, Len(heard), k) /\ Received(k)
    BY <1>0 DEF Stream
  <2>2. k > 1 => ~(Len(heard) < Plains \/ ~met) /\ Behind(pc, c_offset, At(k - 1))
    BY <2>1 DEF Received, Behind
  <2>3. k > 1 => Behind(pc', c_offset', At(k - 1))
    <3> SUFFICES ASSUME k > 1 PROVE Behind(pc', c_offset', At(k - 1))
      OBVIOUS
    <3>1. k - 1 \in Nat \ {0}
      OBVIOUS
    <3>2. At(k - 1) \in Nat
      BY <3>1, AtStep
    <3> QED BY <3>2, <2>2
  <2>4. Received(k)'
    BY <2>2, <2>3, <1>1 DEF Received, Behind
  <2> QED BY <2>1, <2>4
<1> QED BY <1>2, <1>4, <1>5

\* Behind the first segment of a message comes one that is not a first.
LEMMA NotFirst ==
  ASSUME IInv, link, NEW k \in Nat, OnAir(down, Wire, Len(heard), k), k > 1
  PROVE  down # <<>> /\ ~Head(down).first
<1>1. down # <<>>
  BY DEF OnAir
<1>2. /\ k \in 1 .. Len(Wire[Len(heard) + 1]) /\ Head(down) = Wire[Len(heard) + 1][k]
      /\ Wire[Len(heard) + 1] = Segments(NextMessage, TypeOf(Plains, Len(heard) + 1))
      /\ IsBytes(NextMessage) /\ Len(NextMessage) \in Nat \ {0}
  BY <1>1, Where
<1> DEFINE segs == Wire[Len(heard) + 1]
           type == TypeOf(Plains, Len(heard) + 1)
           bytes == NextMessage
<1>3. segs = Segments(bytes, type) /\ IsBytes(bytes) /\ Len(bytes) > 0 /\ k \in 1 .. Len(segs) /\ Head(down) = segs[k]
  BY <1>2
<1> HIDE DEF segs, type, bytes
<1>4. segs[k].first <=> k = 1
  BY <1>3, Cut
<1>5. ~segs[k].first
  BY <1>4
<1> QED BY <1>1, <1>3, <1>5

\* b_buf[0] and b_buf[1] of a command; a message whose first segments are in b_buf has
\* met it.
LEMMA CommandKeeps == ASSUME IInv, NEW c \in Commands, Command(c) PROVE IInv'
<1>0. /\ Shape /\ Secret /\ Used /\ Once /\ Away /\ Messages /\ Phase /\ Stream /\ Heard /\ Sending /\ Obeyed /\ Counts
      /\ IsBytes(asked) /\ Len(asked) \in Nat /\ met \in BOOLEAN /\ encrypt \in Nat /\ MaxCmd \in Nat
      /\ BufSize \in Nat /\ TagLen \in Nat
  BY LinkAssumption DEF IInv, Shape, IsBytes
<1>1. /\ pc = "idle" /\ pc' = "offset" /\ device_status >= SSM_LOGGIN /\ Len(asked) < MaxCmd
      /\ met' = (met \/ (down # <<>> /\ ~Head(down).first))
      /\ todo' = c /\ asked' = Append(asked, Plain(c)) /\ b_buf' = Put(b_buf, 0, c.head)
      /\ UNCHANGED <<c_offset, encrypt, loaded, data, remain, nonces, device_status, device_secret, code, token, decrypt,
                     link, session, heard, overrun, wild, down, said, ses, obeyed, registered, lost>>
  BY DEF Command, OthersKept, SesameKept
<1>2. device_status = SSM_LOGGIN /\ device_secret = Key /\ link
  <2>1. device_status = SSM_LOGGIN
    BY SMTT(30), <1>0, <1>1 DEF Shape, SSM_LOGGIN, SSM_CONNECTED, SSM_DISCONNECTED
  <2> QED BY <2>1, <1>0 DEF Secret, Away, Shape, SSM_LOGGIN, SSM_DISCONNECTED
<1>3. /\ IsBytes(asked') /\ Len(asked') = Len(asked) + 1 /\ asked'[Len(asked) + 1] = Plain(c)
      /\ \A i \in 1 .. Len(asked) : asked'[i] = asked[i]
  BY <1>0, <1>1, AppendIs
<1>4. IsBytes(b_buf') /\ Len(b_buf') = BufSize
  BY <1>1, PutBuf
<1>5. \A i \in 1 .. Len(c.head) : b_buf'[i] = c.head[i]
  <2> DEFINE h == c.head
             n == Len(h)
  <2>c. /\ Len(Plain(c)) = n + Len(c.rest) /\ n \in Nat /\ Len(c.rest) \in Nat
        /\ Len(Plain(c)) + TagLen <= BufSize
    BY CommandIs
  <2>d. n <= BufSize
    <3> DEFINE l == Len(Plain(c))
               r == Len(c.rest)
    <3>1. /\ l = n + r /\ n \in Nat /\ r \in Nat /\ l + TagLen <= BufSize /\ TagLen \in Nat /\ BufSize \in Nat
      BY <2>c, <1>0
    <3> HIDE DEF n, l, r
    <3> QED BY ONLY <3>1
  <2>1. IsBytes(h) /\ n = Len(h) /\ n <= BufSize
    BY <2>d, CommandIs
  <2>2. b_buf' = Put(b_buf, 0, h)
    BY <1>1
  <2> HIDE DEF h, n
  <2>3. \A i \in 1 .. n : Put(b_buf, 0, h)[i] = h[i]
    BY <2>1, PutStart
  <2> QED BY <2>1, <2>2, <2>3 DEF h
<1>6. Len(heard) >= Plains /\ ~(Len(heard) < Plains)
  <2>1. ~(Len(heard) < Plains)
    BY <1>0, <1>2 DEF Phase, SSM_LOGGIN, SSM_CONNECTED
  <2>2. Len(heard) \in Nat /\ Plains \in {1, 2}
    BY <1>0, <1>2 DEF Shape, IsBytes, Messages
  <2> QED BY <2>1, <2>2
<1>7. Shape'
  <2>1. (/\ device_status \in {SSM_DISCONNECTED, SSM_CONNECTED, SSM_LOGGIN}
         /\ pc \in {"idle", "offset", "rest", "encrypt", "count", "store", "write", "panic"}
         /\ IsBytes(b_buf) /\ Len(b_buf) = BufSize /\ c_offset \in 0 .. BufSize)'
    BY <1>0, <1>1, <1>4 DEF Shape
  <2>2. (encrypt \in Nat /\ decrypt \in Nat /\ loaded \in Nat /\ data \in Nat /\ remain \in Nat /\ lost \in Nat)'
    BY <1>0, <1>1 DEF Shape
  <2>3. (link \in BOOLEAN /\ registered \in BOOLEAN /\ met \in BOOLEAN /\ wild \in BOOLEAN /\ overrun = FALSE)'
    BY <1>0, <1>1 DEF Shape
  <2>4. (session \in 0 .. MaxSessions /\ code \in 0 .. session)'
    BY <1>0, <1>1 DEF Shape
  <2>5. (/\ IsBytes(down) /\ IsBytes(said) /\ IsBytes(heard)
         /\ IsBytes(asked) /\ IsBytes(obeyed) /\ IsBytes(nonces))'
    BY <1>0, <1>1, <1>3 DEF Shape
  <2>6. (/\ DOMAIN ses = {"sec", "in", "out", "buf"} /\ IsBytes(ses.buf)
         /\ ses.sec \in BOOLEAN /\ ses.in \in Nat /\ ses.out \in Nat)'
    BY <1>0, <1>1 DEF Shape
  <2> QED BY <2>1, <2>2, <2>3, <2>4, <2>5, <2>6 DEF Shape
<1>8. Secret' /\ Used' /\ Once'
  BY <1>0, <1>1, <1>2 DEF Secret, Used, Once, NextCount
<1>9. Away'
  BY <1>0, <1>1 DEF Away
<1>10. Plains' = Plains /\ Wire' = Wire
  BY <1>1 DEF Plains, Wire
<1>11. Messages'
  BY <1>0, <1>1, <1>10 DEF Messages
<1>12. Phase'
  BY <1>0, <1>1, <1>6, <1>10 DEF Phase
<1>13. Stream'
  <2>1. PICK k \in Nat : OnAir(down, Wire, Len(heard), k) /\ Received(k)
    BY <1>0, <1>2 DEF Stream
  <2>2. k > 1 => met'
    BY <2>1, <1>1, <1>2, NotFirst
  <2>3. k > 1 => Behind(pc', c_offset', At(k - 1))
    BY <2>1, <1>1 DEF Received, Behind
  <2>4. Received(k)'
    BY <2>2, <2>3, <1>1, <1>6, <1>10 DEF Received, Behind
  <2> QED BY <2>1, <2>4, <1>1, <1>10 DEF Stream
<1>14. Heard'
  BY <1>0, <1>1 DEF Heard
<1>15. Sending'
  <2>1. Len(asked') > 0
    BY <1>0, <1>3
  <2> QED BY <2>1, <1>0, <1>1, <1>3, <1>5 DEF Sending
<1>16. Obeyed'
  <2>0. Len(asked) < Len(asked') /\ (~met' => ~met)
    BY <1>0, <1>1, <1>3
  <2>1. ~met => /\ \A i \in 1 .. Len(obeyed) : obeyed[i][1] \in 1 .. Len(asked) /\ obeyed[i][2] = asked[obeyed[i][1]]
                /\ \A i, j \in 1 .. Len(obeyed) : i < j => obeyed[i][1] < obeyed[j][1]
    BY <1>0 DEF Obeyed
  <2>2. \A m \in 1 .. Len(asked) : m \in 1 .. Len(asked') /\ m < Len(asked') /\ asked'[m] = asked[m]
    BY <1>0, <1>3
  <2>3. obeyed' = obeyed
    BY <1>1
  <2> QED BY ONLY <2>0, <2>1, <2>2, <2>3 DEF Obeyed
<1>17. Counts'
  BY <1>0, <1>1 DEF Counts, SqueezedIn
<1> QED BY <1>7, <1>8, <1>9, <1>11, <1>12, <1>13, <1>14, <1>15, <1>16, <1>17 DEF IInv

\* c_offset is set: from here on a segment would be stored behind the command.
LEMMA OffsetKeeps == ASSUME IInv, Offset PROVE IInv'
<1>0. /\ Shape /\ Secret /\ Used /\ Once /\ Sending /\ Obeyed /\ Counts
      /\ encrypt \in Nat /\ c_offset \in Nat /\ data \in Nat /\ remain \in Nat /\ met \in BOOLEAN
      /\ IsBytes(asked) /\ Len(asked) \in Nat /\ IsBytes(nonces) /\ IsBytes(b_buf) /\ Len(b_buf) = BufSize
      /\ BufSize \in Nat /\ TagLen \in Nat \ {0}
  BY LinkAssumption DEF IInv, Shape, IsBytes
<1>1. /\ pc = "offset" /\ pc' = "rest" /\ c_offset' = Len(Plain(todo))
      /\ UNCHANGED <<device_status, device_secret, code, token, decrypt, link, session, heard, overrun, down,
                     said, ses, obeyed, registered, lost, todo, loaded, asked, met, wild, b_buf, encrypt, data, remain, nonces>>
  BY DEF Offset, OthersKept, SesameKept
<1>2. todo \in Commands
  BY <1>0, <1>1 DEF Sending
<1>3. /\ Len(Plain(todo)) \in Nat /\ Len(Plain(todo)) \in Starts /\ Len(Plain(todo)) + TagLen <= BufSize
  BY <1>2, CommandIs
<1>4. c_offset' \in 0 .. BufSize /\ c_offset' + TagLen <= BufSize
  <2> DEFINE l == Len(Plain(todo))
  <2>1. l \in Nat /\ l + TagLen <= BufSize /\ c_offset' = l
    BY <1>1, <1>3
  <2> HIDE DEF l
  <2> QED BY <2>1, <1>0
<1>5. Shape'
  <2>1. (/\ device_status \in {SSM_DISCONNECTED, SSM_CONNECTED, SSM_LOGGIN}
         /\ pc \in {"idle", "offset", "rest", "encrypt", "count", "store", "write", "panic"}
         /\ IsBytes(b_buf) /\ Len(b_buf) = BufSize /\ c_offset \in 0 .. BufSize)'
    BY <1>0, <1>1, <1>4 DEF Shape
  <2>2. (encrypt \in Nat /\ decrypt \in Nat /\ loaded \in Nat /\ data \in Nat /\ remain \in Nat /\ lost \in Nat)'
    BY <1>0, <1>1 DEF Shape
  <2>3. (link \in BOOLEAN /\ registered \in BOOLEAN /\ met \in BOOLEAN /\ wild \in BOOLEAN /\ overrun = FALSE)'
    BY <1>0, <1>1 DEF Shape
  <2>4. (session \in 0 .. MaxSessions /\ code \in 0 .. session)'
    BY <1>0, <1>1 DEF Shape
  <2>5. (/\ IsBytes(down) /\ IsBytes(said) /\ IsBytes(heard)
         /\ IsBytes(asked) /\ IsBytes(obeyed) /\ IsBytes(nonces))'
    BY <1>0, <1>1 DEF Shape
  <2>6. (/\ DOMAIN ses = {"sec", "in", "out", "buf"} /\ IsBytes(ses.buf)
         /\ ses.sec \in BOOLEAN /\ ses.in \in Nat /\ ses.out \in Nat)'
    BY <1>0, <1>1 DEF Shape
  <2> QED BY <2>1, <2>2, <2>3, <2>4, <2>5, <2>6 DEF Shape
<1>6. Secret' /\ Used' /\ Once'
  BY <1>0, <1>1 DEF Secret, Used, Once, NextCount
<1>7. Away' /\ Messages' /\ Phase' /\ Stream' /\ Heard'
  <2>1. \A x \in Nat : Behind(pc, c_offset, x) => Behind(pc', c_offset', x)
    <3> TAKE x \in Nat
    <3> DEFINE l == Len(Plain(todo))
    <3>1. l \in Starts /\ l \in Nat /\ c_offset' = l
      BY <1>1, <1>3
    <3> HIDE DEF l
    <3>2. l <= l + x + 0
      BY <3>1
    <3> QED BY <3>1, <3>2, <1>1 DEF Behind
  <2>2. /\ pc # "idle"
        /\ UNCHANGED <<device_status, device_secret, code, decrypt, link, session, heard, down, said,
                       registered, met, wild>>
        /\ ses' = ses
    BY <1>1
  <2> QED BY <2>1, <2>2, TaskKeeps
<1>8. Sending'
  BY <1>0, <1>1, <1>4 DEF Sending
<1>9. Obeyed' /\ Counts'
  BY <1>0, <1>1 DEF Obeyed, Counts, SqueezedIn
<1> QED BY <1>5, <1>6, <1>7, <1>8, <1>9 DEF IInv

\* The parameters of a command are set.
LEMMA RestKeeps == ASSUME IInv, Rest PROVE IInv'
<1>0. /\ Shape /\ Secret /\ Used /\ Once /\ Sending /\ Obeyed /\ Counts
      /\ encrypt \in Nat /\ c_offset \in Nat /\ data \in Nat /\ remain \in Nat /\ met \in BOOLEAN
      /\ IsBytes(asked) /\ Len(asked) \in Nat /\ IsBytes(nonces) /\ IsBytes(b_buf) /\ Len(b_buf) = BufSize
      /\ BufSize \in Nat /\ TagLen \in Nat \ {0}
  BY LinkAssumption DEF IInv, Shape, IsBytes
<1>1. /\ pc = "rest" /\ pc' = "encrypt" /\ b_buf' = Put(b_buf, Len(todo.head), todo.rest)
      /\ UNCHANGED <<device_status, device_secret, code, token, decrypt, link, session, heard, overrun, down,
                     said, ses, obeyed, registered, lost, todo, loaded, asked, met, wild, c_offset, encrypt, data, remain, nonces>>
  BY DEF Rest, OthersKept, SesameKept
<1>2. todo \in Commands
  BY <1>0, <1>1 DEF Sending
<1>3. IsBytes(b_buf') /\ Len(b_buf') = BufSize
  BY <1>1, PutBuf
<1>4. Shape'
  <2>1. (/\ device_status \in {SSM_DISCONNECTED, SSM_CONNECTED, SSM_LOGGIN}
         /\ pc \in {"idle", "offset", "rest", "encrypt", "count", "store", "write", "panic"}
         /\ IsBytes(b_buf) /\ Len(b_buf) = BufSize /\ c_offset \in 0 .. BufSize)'
    BY <1>0, <1>1, <1>3 DEF Shape
  <2>2. (encrypt \in Nat /\ decrypt \in Nat /\ loaded \in Nat /\ data \in Nat /\ remain \in Nat /\ lost \in Nat)'
    BY <1>0, <1>1 DEF Shape
  <2>3. (link \in BOOLEAN /\ registered \in BOOLEAN /\ met \in BOOLEAN /\ wild \in BOOLEAN /\ overrun = FALSE)'
    BY <1>0, <1>1 DEF Shape
  <2>4. (session \in 0 .. MaxSessions /\ code \in 0 .. session)'
    BY <1>0, <1>1 DEF Shape
  <2>5. (/\ IsBytes(down) /\ IsBytes(said) /\ IsBytes(heard)
         /\ IsBytes(asked) /\ IsBytes(obeyed) /\ IsBytes(nonces))'
    BY <1>0, <1>1 DEF Shape
  <2>6. (/\ DOMAIN ses = {"sec", "in", "out", "buf"} /\ IsBytes(ses.buf)
         /\ ses.sec \in BOOLEAN /\ ses.in \in Nat /\ ses.out \in Nat)'
    BY <1>0, <1>1 DEF Shape
  <2> QED BY <2>1, <2>2, <2>3, <2>4, <2>5, <2>6 DEF Shape
<1>5. Secret' /\ Used' /\ Once'
  BY <1>0, <1>1 DEF Secret, Used, Once, NextCount
<1>6. Away' /\ Messages' /\ Phase' /\ Stream' /\ Heard'
  <2>1. \A x \in Nat : Behind(pc, c_offset, x) => Behind(pc', c_offset', x)
    BY <1>1 DEF Behind
  <2>2. /\ pc # "idle"
        /\ UNCHANGED <<device_status, device_secret, code, decrypt, link, session, heard, down, said,
                       registered, met, wild>>
        /\ ses' = ses
    BY <1>1
  <2> QED BY <2>1, <2>2, TaskKeeps
<1>7. ~met => \A i \in 1 .. Len(Plain(todo)) : b_buf'[i] = Plain(todo)[i]
  <2> SUFFICES ASSUME ~met, NEW i \in 1 .. Len(Plain(todo)) PROVE b_buf'[i] = Plain(todo)[i]
    OBVIOUS
  <2> DEFINE h == todo.head
             r == todo.rest
             x == Plain(todo)
             n == Len(h)
             l == Len(r)
             k == Len(x)
  <2>1. /\ IsBytes(h) /\ IsBytes(r) /\ k = n + l /\ n \in Nat /\ l \in Nat /\ k + TagLen <= BufSize /\ k \in Nat
        /\ n = Len(h) /\ l = Len(r) /\ i \in 1 .. k
    BY <1>2, CommandIs
  <2>2. (\A j \in 1 .. Len(h) : x[j] = h[j]) /\ (\A j \in 1 .. Len(r) : x[Len(h) + j] = r[j])
    BY <1>2, PlainIs
  <2>3. \A j \in 1 .. Len(h) : b_buf[j] = h[j]
    BY <1>0, <1>1 DEF Sending
  <2>4. b_buf' = Put(b_buf, n, r)
    BY <1>1
  <2> HIDE DEF h, r, x, n, l, k
  <2>5. /\ \A j \in 1 .. n : x[j] = h[j] /\ b_buf[j] = h[j]
        /\ \A j \in 1 .. l : x[n + j] = r[j]
    BY ONLY <2>1, <2>2, <2>3
  <2>6. i \in 1 .. BufSize
    BY ONLY <2>1, <1>0
  <2>7. b_buf'[i] = IF n < i /\ i <= n + l THEN r[i - n] ELSE b_buf[i]
    BY <2>1, <2>4, <2>6 DEF Put
  <2>8. CASE i <= n
    BY <2>8, <2>5, <2>7, <2>1 DEF x
  <2>9. CASE i > n
    <3> DEFINE j == i - n
    <3>1. j \in 1 .. l /\ i = n + j /\ n < i /\ i <= n + l /\ i - n = j
      BY ONLY <2>9, <2>1
    <3> HIDE DEF j
    <3>2. x[i] = r[j]
      BY <3>1, <2>5
    <3>3. b_buf'[i] = r[j]
      BY ONLY <3>1, <2>7
    <3> QED BY <3>2, <3>3 DEF x
  <2> QED BY <2>8, <2>9, <2>1
<1>8. Sending'
  BY <1>0, <1>1, <1>7 DEF Sending
<1>9. Obeyed' /\ Counts'
  BY <1>0, <1>1 DEF Obeyed, Counts, SqueezedIn
<1> QED BY <1>4, <1>5, <1>6, <1>7, <1>8, <1>9 DEF IInv

\* The count is read.
LEMMA LoadCountKeeps == ASSUME IInv, LoadCount PROVE IInv'
<1>0. /\ Shape /\ Secret /\ Used /\ Once /\ Sending /\ Obeyed /\ Counts
      /\ encrypt \in Nat /\ c_offset \in Nat /\ data \in Nat /\ remain \in Nat /\ met \in BOOLEAN
      /\ IsBytes(asked) /\ Len(asked) \in Nat /\ IsBytes(nonces) /\ IsBytes(b_buf) /\ Len(b_buf) = BufSize
      /\ BufSize \in Nat /\ TagLen \in Nat \ {0}
  BY LinkAssumption DEF IInv, Shape, IsBytes
<1>1. /\ pc = "count" /\ pc' = "store" /\ loaded' = encrypt
      /\ UNCHANGED <<device_status, device_secret, code, token, decrypt, link, session, heard, overrun, down,
                     said, ses, obeyed, registered, lost, todo, asked, met, wild, b_buf, c_offset, encrypt, data, remain, nonces>>
  BY DEF LoadCount, OthersKept, SesameKept
<1>2. Shape'
  <2>1. (/\ device_status \in {SSM_DISCONNECTED, SSM_CONNECTED, SSM_LOGGIN}
         /\ pc \in {"idle", "offset", "rest", "encrypt", "count", "store", "write", "panic"}
         /\ IsBytes(b_buf) /\ Len(b_buf) = BufSize /\ c_offset \in 0 .. BufSize)'
    BY <1>0, <1>1 DEF Shape
  <2>2. (encrypt \in Nat /\ decrypt \in Nat /\ loaded \in Nat /\ data \in Nat /\ remain \in Nat /\ lost \in Nat)'
    BY <1>0, <1>1 DEF Shape
  <2>3. (link \in BOOLEAN /\ registered \in BOOLEAN /\ met \in BOOLEAN /\ wild \in BOOLEAN /\ overrun = FALSE)'
    BY <1>0, <1>1 DEF Shape
  <2>4. (session \in 0 .. MaxSessions /\ code \in 0 .. session)'
    BY <1>0, <1>1 DEF Shape
  <2>5. (/\ IsBytes(down) /\ IsBytes(said) /\ IsBytes(heard)
         /\ IsBytes(asked) /\ IsBytes(obeyed) /\ IsBytes(nonces))'
    BY <1>0, <1>1 DEF Shape
  <2>6. (/\ DOMAIN ses = {"sec", "in", "out", "buf"} /\ IsBytes(ses.buf)
         /\ ses.sec \in BOOLEAN /\ ses.in \in Nat /\ ses.out \in Nat)'
    BY <1>0, <1>1 DEF Shape
  <2> QED BY <2>1, <2>2, <2>3, <2>4, <2>5, <2>6 DEF Shape
<1>3. Secret' /\ Used' /\ Once'
  BY <1>0, <1>1 DEF Secret, Used, Once, NextCount
<1>4. Away' /\ Messages' /\ Phase' /\ Stream' /\ Heard'
  <2>1. \A x \in Nat : Behind(pc, c_offset, x) => Behind(pc', c_offset', x)
    BY <1>1 DEF Behind
  <2>2. /\ pc # "idle"
        /\ UNCHANGED <<device_status, device_secret, code, decrypt, link, session, heard, down, said,
                       registered, met, wild>>
        /\ ses' = ses
    BY <1>1
  <2> QED BY <2>1, <2>2, TaskKeeps
<1>5. Sending'
  <2>1. todo' \in Commands /\ c_offset' + TagLen <= BufSize
    BY <1>0, <1>1 DEF Sending
  <2>2. ~met' => /\ Len(asked') > 0 /\ asked'[Len(asked')] = Plain(todo') /\ c_offset' = Len(Plain(todo'))
                 /\ loaded' = encrypt'
    BY <1>0, <1>1 DEF Sending
  <2>3. ~met' => \A i \in 1 .. Len(Plain(todo')) + TagLen : b_buf'[i] = Encrypt(token', encrypt', Plain(todo'))[i]
    <3>1. ~met => \A i \in 1 .. Len(Plain(todo)) + TagLen : b_buf[i] = Encrypt(token, encrypt, Plain(todo))[i]
      BY <1>0, <1>1 DEF Sending, Cell
    <3>2. Encrypt(token', encrypt', Plain(todo')) = Encrypt(token, encrypt, Plain(todo)) /\ Plain(todo') = Plain(todo)
      BY <1>1
    <3> QED BY <3>1, <3>2, <1>1
  <2> QED BY <2>1, <2>2, <2>3, <1>1 DEF Sending, Cell
<1>6. Obeyed' /\ Counts'
  BY <1>0, <1>1 DEF Obeyed, Counts, SqueezedIn
<1> QED BY <1>2, <1>3, <1>4, <1>5, <1>6 DEF IInv

\* The count moves on, and the nonce that was used lies below it.
LEMMA CountKeeps == ASSUME IInv, Count PROVE IInv'
<1>0. /\ Shape /\ Secret /\ Used /\ Once /\ Sending /\ Obeyed /\ Counts /\ loaded \in Nat
      /\ encrypt \in Nat /\ c_offset \in Nat /\ data \in Nat /\ remain \in Nat /\ met \in BOOLEAN
      /\ IsBytes(asked) /\ Len(asked) \in Nat /\ IsBytes(nonces) /\ IsBytes(b_buf) /\ Len(b_buf) = BufSize
      /\ BufSize \in Nat /\ TagLen \in Nat \ {0}
  BY LinkAssumption DEF IInv, Shape, IsBytes
<1>1. /\ pc = "store" /\ pc' = "write" /\ encrypt' = loaded + 1
      /\ c_offset' = c_offset + TagLen /\ data' = 0 /\ remain' = c_offset + TagLen
      /\ UNCHANGED <<device_status, device_secret, code, token, decrypt, link, session, heard, overrun, down,
                     said, ses, obeyed, registered, lost, todo, loaded, asked, met, wild, b_buf, nonces>>
  BY DEF Count, OthersKept, SesameKept
<1>2. /\ c_offset' \in 0 .. BufSize /\ remain' \in Nat /\ encrypt' \in Nat
      /\ data' + remain' <= BufSize /\ data' + remain' = c_offset + TagLen /\ remain' > 0
      /\ encrypt' > 0 /\ encrypt' - 1 = loaded
  <2>1. c_offset + TagLen <= BufSize
    BY <1>0, <1>1 DEF Sending
  <2> QED BY <2>1, <1>0, <1>1
<1>3. Shape'
  <2>1. (/\ device_status \in {SSM_DISCONNECTED, SSM_CONNECTED, SSM_LOGGIN}
         /\ pc \in {"idle", "offset", "rest", "encrypt", "count", "store", "write", "panic"}
         /\ IsBytes(b_buf) /\ Len(b_buf) = BufSize /\ c_offset \in 0 .. BufSize)'
    BY <1>0, <1>1, <1>2 DEF Shape
  <2>2. (encrypt \in Nat /\ decrypt \in Nat /\ loaded \in Nat /\ data \in Nat /\ remain \in Nat /\ lost \in Nat)'
    BY <1>0, <1>1, <1>2 DEF Shape
  <2>3. (link \in BOOLEAN /\ registered \in BOOLEAN /\ met \in BOOLEAN /\ wild \in BOOLEAN /\ overrun = FALSE)'
    BY <1>0, <1>1 DEF Shape
  <2>4. (session \in 0 .. MaxSessions /\ code \in 0 .. session)'
    BY <1>0, <1>1 DEF Shape
  <2>5. (/\ IsBytes(down) /\ IsBytes(said) /\ IsBytes(heard)
         /\ IsBytes(asked) /\ IsBytes(obeyed) /\ IsBytes(nonces))'
    BY <1>0, <1>1 DEF Shape
  <2>6. (/\ DOMAIN ses = {"sec", "in", "out", "buf"} /\ IsBytes(ses.buf)
         /\ ses.sec \in BOOLEAN /\ ses.in \in Nat /\ ses.out \in Nat)'
    BY <1>0, <1>1 DEF Shape
  <2> QED BY <2>1, <2>2, <2>3, <2>4, <2>5, <2>6 DEF Shape
<1>4. Secret' /\ Once'
  BY <1>0, <1>1 DEF Secret, Once
<1>5. Used'
  BY <1>0, <1>1 DEF Used, NextCount
<1>6. Away' /\ Messages' /\ Phase' /\ Stream' /\ Heard'
  <2>1. \A x \in Nat : Behind(pc, c_offset, x) => Behind(pc', c_offset', x)
    <3> TAKE x \in Nat
    <3> SUFFICES ASSUME NEW n \in Starts, c_offset <= n + x + 0 PROVE c_offset' <= n + x + TagLen
      BY <1>1 DEF Behind
    <3>1. n \in Nat
      BY StartsAre
    <3> QED BY <3>1, <1>0, <1>1
  <2>2. /\ pc # "idle"
        /\ UNCHANGED <<device_status, device_secret, code, decrypt, link, session, heard, down, said,
                       registered, met, wild>>
        /\ ses' = ses
    BY <1>1
  <2> QED BY <2>1, <2>2, TaskKeeps
<1>7. Sending'
  <2>1. todo' \in Commands /\ (~met' => Len(asked') > 0 /\ asked'[Len(asked')] = Plain(todo'))
    BY <1>0, <1>1 DEF Sending
  <2>2. ~met' => /\ data' + remain' = Len(Plain(todo')) + TagLen
                 /\ \A i \in 1 .. Len(Plain(todo')) + TagLen : b_buf'[i] = Encrypt(token', encrypt' - 1, Plain(todo'))[i]
    <3>1. ~met => /\ c_offset = Len(Plain(todo)) /\ loaded = encrypt
                  /\ \A i \in 1 .. Len(Plain(todo)) + TagLen : b_buf[i] = Encrypt(token, encrypt, Plain(todo))[i]
      BY <1>0, <1>1 DEF Sending, Cell
    <3>2. /\ Encrypt(token', encrypt' - 1, Plain(todo')) = Encrypt(token, loaded, Plain(todo))
          /\ Plain(todo') = Plain(todo) /\ b_buf' = b_buf /\ met' = met
      BY <1>1, <1>2
    <3> QED BY <3>1, <3>2, <1>2
  <2> QED BY <2>1, <2>2, <1>1, <1>2 DEF Sending, Cell
<1>8. Obeyed'
  BY <1>0, <1>1 DEF Obeyed
<1>9. Counts'
  <2>1. link /\ lost = 0 /\ heard # <<>> /\ ~SqueezedIn => encrypt = ses.in + 0 /\ loaded = encrypt /\ ses.in \in Nat
    BY <1>0, <1>1 DEF Counts, Shape
  <2> QED BY <2>1, <1>1 DEF Counts, SqueezedIn
<1> QED BY <1>3, <1>4, <1>5, <1>6, <1>7, <1>8, <1>9 DEF IInv

\* A write without a link ends in a panic.
LEMMA WriteNowhereKeeps == ASSUME IInv, WriteNowhere PROVE IInv'
<1>0. /\ Shape /\ Secret /\ Used /\ Once /\ Sending /\ Obeyed /\ Counts
      /\ encrypt \in Nat /\ c_offset \in Nat /\ data \in Nat /\ remain \in Nat /\ met \in BOOLEAN
      /\ IsBytes(asked) /\ Len(asked) \in Nat /\ IsBytes(nonces) /\ IsBytes(b_buf) /\ Len(b_buf) = BufSize
      /\ BufSize \in Nat /\ TagLen \in Nat \ {0}
  BY LinkAssumption DEF IInv, Shape, IsBytes
<1>1. /\ pc = "write" /\ ~link /\ pc' = "panic"
      /\ UNCHANGED <<device_status, device_secret, code, token, decrypt, link, session, heard, overrun, down,
                     said, ses, obeyed, registered, lost, todo, loaded, asked, met, wild, b_buf, c_offset, encrypt, data, remain, nonces>>
  BY DEF WriteNowhere, OthersKept, SesameKept
<1>2. Shape'
  <2>1. (/\ device_status \in {SSM_DISCONNECTED, SSM_CONNECTED, SSM_LOGGIN}
         /\ pc \in {"idle", "offset", "rest", "encrypt", "count", "store", "write", "panic"}
         /\ IsBytes(b_buf) /\ Len(b_buf) = BufSize /\ c_offset \in 0 .. BufSize)'
    BY <1>0, <1>1 DEF Shape
  <2>2. (encrypt \in Nat /\ decrypt \in Nat /\ loaded \in Nat /\ data \in Nat /\ remain \in Nat /\ lost \in Nat)'
    BY <1>0, <1>1 DEF Shape
  <2>3. (link \in BOOLEAN /\ registered \in BOOLEAN /\ met \in BOOLEAN /\ wild \in BOOLEAN /\ overrun = FALSE)'
    BY <1>0, <1>1 DEF Shape
  <2>4. (session \in 0 .. MaxSessions /\ code \in 0 .. session)'
    BY <1>0, <1>1 DEF Shape
  <2>5. (/\ IsBytes(down) /\ IsBytes(said) /\ IsBytes(heard)
         /\ IsBytes(asked) /\ IsBytes(obeyed) /\ IsBytes(nonces))'
    BY <1>0, <1>1 DEF Shape
  <2>6. (/\ DOMAIN ses = {"sec", "in", "out", "buf"} /\ IsBytes(ses.buf)
         /\ ses.sec \in BOOLEAN /\ ses.in \in Nat /\ ses.out \in Nat)'
    BY <1>0, <1>1 DEF Shape
  <2> QED BY <2>1, <2>2, <2>3, <2>4, <2>5, <2>6 DEF Shape
<1>3. Secret' /\ Used' /\ Once'
  BY <1>0, <1>1 DEF Secret, Used, Once, NextCount
<1>4. Away' /\ Messages' /\ Phase' /\ Stream' /\ Heard'
  <2>1. \A x \in Nat : Behind(pc, c_offset, x) => Behind(pc', c_offset', x)
    BY <1>1 DEF Behind
  <2>2. /\ pc # "idle"
        /\ UNCHANGED <<device_status, device_secret, code, decrypt, link, session, heard, down, said,
                       registered, met, wild>>
        /\ ses' = ses
    BY <1>1
  <2> QED BY <2>1, <2>2, TaskKeeps
<1>5. Sending'
  BY <1>0, <1>1 DEF Sending
<1>6. Obeyed' /\ Counts'
  BY <1>0, <1>1 DEF Obeyed, Counts, SqueezedIn
<1> QED BY <1>2, <1>3, <1>4, <1>5, <1>6 DEF IInv

\* The encryption uses a nonce that was not used: the count has not reached it yet.
LEMMA EncryptCommandKeeps == ASSUME IInv, EncryptCommand PROVE IInv'
<1>0. /\ Shape /\ Secret /\ Used /\ Once /\ Sending /\ Obeyed /\ Counts
      /\ encrypt \in Nat /\ c_offset \in Nat /\ data \in Nat /\ remain \in Nat /\ met \in BOOLEAN
      /\ IsBytes(asked) /\ Len(asked) \in Nat /\ IsBytes(nonces) /\ IsBytes(b_buf) /\ Len(b_buf) = BufSize
      /\ BufSize \in Nat /\ TagLen \in Nat \ {0}
  BY LinkAssumption DEF IInv, Shape, IsBytes
<1>1. /\ pc = "encrypt" /\ pc' = "count"
      /\ nonces' = Append(nonces, [nonce |-> <<token, encrypt>>, squeezed |-> FALSE])
      /\ overrun' = (overrun \/ c_offset + TagLen > BufSize)
      /\ b_buf' = Put(b_buf, 0, Encrypt(token, encrypt, Bytes(b_buf, 0, c_offset)))
      /\ UNCHANGED <<device_status, device_secret, code, token, decrypt, link, session, heard, down,
                     said, ses, obeyed, registered, lost, todo, loaded, asked, met, wild, c_offset, encrypt, data, remain>>
  BY DEF EncryptCommand, Uses, OthersKept, SesameKept
<1>2. todo \in Commands /\ overrun' = FALSE
  <2>1. todo \in Commands /\ c_offset + TagLen <= BufSize /\ overrun = FALSE
    BY <1>0, <1>1 DEF Sending, Shape
  <2>2. ~(c_offset + TagLen > BufSize)
    BY <2>1, <1>0
  <2> QED BY ONLY <2>1, <2>2, <1>1
<1>3. IsBytes(b_buf') /\ Len(b_buf') = BufSize
  BY <1>1, PutBuf
<1>4. /\ IsBytes(nonces') /\ Len(nonces') = Len(nonces) + 1 /\ Len(nonces) \in Nat
      /\ nonces'[Len(nonces) + 1].nonce = <<token, encrypt>>
      /\ nonces'[Len(nonces) + 1].squeezed = FALSE
      /\ \A i \in 1 .. Len(nonces) : nonces'[i] = nonces[i]
  <2> DEFINE new == [nonce |-> <<token, encrypt>>, squeezed |-> FALSE]
  <2>1. new.nonce = <<token, encrypt>> /\ new.squeezed = FALSE /\ nonces' = Append(nonces, new)
    BY <1>1
  <2> HIDE DEF new
  <2>2. /\ IsBytes(nonces') /\ Len(nonces') = Len(nonces) + 1 /\ nonces'[Len(nonces) + 1] = new
        /\ \A i \in 1 .. Len(nonces) : nonces'[i] = nonces[i]
    BY <2>1, <1>0, AppendIs
  <2> QED BY <2>1, <2>2, <1>0 DEF IsBytes
<1>5. Shape'
  <2>1. (/\ device_status \in {SSM_DISCONNECTED, SSM_CONNECTED, SSM_LOGGIN}
         /\ pc \in {"idle", "offset", "rest", "encrypt", "count", "store", "write", "panic"}
         /\ IsBytes(b_buf) /\ Len(b_buf) = BufSize /\ c_offset \in 0 .. BufSize)'
    BY <1>0, <1>1, <1>3 DEF Shape
  <2>2. (encrypt \in Nat /\ decrypt \in Nat /\ loaded \in Nat /\ data \in Nat /\ remain \in Nat /\ lost \in Nat)'
    BY <1>0, <1>1 DEF Shape
  <2>3. (link \in BOOLEAN /\ registered \in BOOLEAN /\ met \in BOOLEAN /\ wild \in BOOLEAN /\ overrun = FALSE)'
    BY <1>0, <1>1, <1>2 DEF Shape
  <2>4. (session \in 0 .. MaxSessions /\ code \in 0 .. session)'
    BY <1>0, <1>1 DEF Shape
  <2>5. (/\ IsBytes(down) /\ IsBytes(said) /\ IsBytes(heard)
         /\ IsBytes(asked) /\ IsBytes(obeyed) /\ IsBytes(nonces))'
    BY <1>0, <1>1, <1>4 DEF Shape
  <2>6. (/\ DOMAIN ses = {"sec", "in", "out", "buf"} /\ IsBytes(ses.buf)
         /\ ses.sec \in BOOLEAN /\ ses.in \in Nat /\ ses.out \in Nat)'
    BY <1>0, <1>1 DEF Shape
  <2> QED BY <2>1, <2>2, <2>3, <2>4, <2>5, <2>6 DEF Shape
<1>6. token = Token(code) /\ device_secret = Key /\ Key # <<>>
  BY <1>0, <1>1, KeyIs DEF Secret
<1>7. Secret'
  BY <1>0, <1>1, <1>6 DEF Secret
<1>8. \A i \in 1 .. Len(nonces') : i \in 1 .. Len(nonces) \/ i = Len(nonces) + 1
  BY <1>4
<1>9. ASSUME NEW i \in 1 .. Len(nonces)
      PROVE  /\ nonces[i].squeezed \in BOOLEAN
             /\ \E s \in 0 .. code, n \in Nat :
                  /\ nonces[i].nonce = <<Token(s), n>>
                  /\ s = code /\ ~nonces[i].squeezed => n < encrypt
  BY <1>0, <1>1 DEF Used, NextCount
<1>u. Used'
  <2>1. code \in 0 .. code
    BY <1>0 DEF Shape
  <2>2. ASSUME NEW i \in 1 .. Len(nonces')
        PROVE  /\ nonces'[i].squeezed \in BOOLEAN
               /\ \E s \in 0 .. code, n \in Nat :
                    /\ nonces'[i].nonce = <<Token(s), n>>
                    /\ s = code /\ ~nonces'[i].squeezed => n < encrypt + 1
    <3>1. CASE i \in 1 .. Len(nonces)
      <4>1. PICK s \in 0 .. code, n \in Nat :
              /\ nonces[i].nonce = <<Token(s), n>>
              /\ s = code /\ ~nonces[i].squeezed => n < encrypt
        BY <3>1, <1>9
      <4>2. s = code /\ ~nonces[i].squeezed => n < encrypt + 1
        BY <4>1, <1>0
      <4> QED BY <3>1, <4>1, <4>2, <1>4, <1>9
    <3>2. CASE i = Len(nonces) + 1
      <4>1. nonces'[i].nonce = <<Token(code), encrypt>> /\ nonces'[i].squeezed = FALSE /\ encrypt < encrypt + 1
        BY <3>2, <1>0, <1>4, <1>6
      <4> QED BY <4>1, <2>1, <1>0
    <3> QED BY <3>1, <3>2, <1>8
  <2>3. NextCount' = encrypt + 1 /\ code' = code
    BY <1>1 DEF NextCount
  <2>4. \A i \in 1 .. Len(nonces') :
          /\ nonces'[i].squeezed \in BOOLEAN
          /\ \E s \in 0 .. code', n \in Nat :
               /\ nonces'[i].nonce = <<Token(s), n>>
               /\ s = code' /\ ~nonces'[i].squeezed /\ pc' # "panic" => n < NextCount'
    <3> TAKE i \in 1 .. Len(nonces')
    <3>1. PICK s \in 0 .. code, n \in Nat :
            /\ nonces'[i].nonce = <<Token(s), n>>
            /\ s = code /\ ~nonces'[i].squeezed => n < encrypt + 1
      BY <2>2
    <3> QED BY <2>2, <2>3, <3>1
  <2> QED BY ONLY <2>4 DEF Used
<1>10. Once'
  <2>1. ASSUME NEW i \in 1 .. Len(nonces), nonces[i].nonce = <<token, encrypt>> PROVE nonces[i].squeezed
    <3>1. PICK s \in 0 .. code, n \in Nat :
            /\ nonces[i].nonce = <<Token(s), n>>
            /\ s = code /\ ~nonces[i].squeezed => n < encrypt
      BY <1>9
    <3>2. s = code /\ n = encrypt
      BY <2>1, <3>1, <1>6 DEF Token
    <3> QED BY <3>1, <3>2, <1>0, <1>9
  <2> SUFFICES ASSUME NEW i \in 1 .. Len(nonces'), NEW j \in 1 .. Len(nonces'), i # j,
                      nonces'[i].nonce = nonces'[j].nonce
               PROVE  nonces'[i].squeezed \/ nonces'[j].squeezed
    BY DEF Once
  <2>2. CASE i \in 1 .. Len(nonces) /\ j \in 1 .. Len(nonces)
    <3>1. nonces'[i] = nonces[i] /\ nonces'[j] = nonces[j]
      BY <2>2, <1>4
    <3> QED BY <3>1, <2>2, <1>0 DEF Once
  <2>3. CASE i \in 1 .. Len(nonces) /\ j = Len(nonces) + 1
    <3>1. nonces'[i] = nonces[i] /\ nonces'[j].nonce = <<token, encrypt>>
      BY <2>3, <1>4
    <3> QED BY <3>1, <2>1, <2>3
  <2>4. CASE i = Len(nonces) + 1 /\ j \in 1 .. Len(nonces)
    <3>1. nonces'[j] = nonces[j] /\ nonces'[i].nonce = <<token, encrypt>>
      BY <2>4, <1>4
    <3> QED BY <3>1, <2>1, <2>4
  <2> QED BY <2>2, <2>3, <2>4, <1>8
<1>11. Away' /\ Messages' /\ Phase' /\ Stream' /\ Heard'
  <2>1. \A x \in Nat : Behind(pc, c_offset, x) => Behind(pc', c_offset', x)
    BY <1>1 DEF Behind
  <2>2. /\ pc # "idle"
        /\ UNCHANGED <<device_status, device_secret, code, decrypt, link, session, heard, down, said,
                       registered, met, wild>>
        /\ ses' = ses
    BY <1>1
  <2> QED BY <2>1, <2>2, TaskKeeps
<1>12. ~met => \A i \in 1 .. Len(Plain(todo)) + TagLen : b_buf'[i] = Encrypt(token, encrypt, Plain(todo))[i]
  <2> SUFFICES ASSUME ~met
               PROVE  \A i \in 1 .. Len(Plain(todo)) + TagLen : b_buf'[i] = Encrypt(token, encrypt, Plain(todo))[i]
    OBVIOUS
  <2> DEFINE p == Plain(todo)
             b == Bytes(b_buf, 0, c_offset)
             x == Encrypt(token, encrypt, p)
             n == Len(p) + TagLen
  <2>1. c_offset = Len(p) /\ \A i \in 1 .. Len(p) : b_buf[i] = p[i]
    BY <1>0, <1>1 DEF Sending
  <2>2. IsBytes(p) /\ n <= BufSize
    BY <1>2, CommandIs
  <2>3. IsBytes(b) /\ Len(b) = c_offset /\ \A i \in 1 .. c_offset : b[i] = b_buf[i]
    <3>1. b = Bytes(b_buf, 0, c_offset) /\ c_offset \in Nat
      BY <1>0
    <3> HIDE DEF b
    <3> QED BY ONLY <3>1, BytesIs
  <2>x. x = Encrypt(token, encrypt, p) /\ n = Len(p) + TagLen /\ b_buf' = Put(b_buf, 0, Encrypt(token, encrypt, b))
    BY <1>1
  <2> HIDE DEF p, b, x, n
  <2>4. b = p
    <3>1. Len(b) = Len(p) /\ \A i \in 1 .. Len(b) : b[i] = p[i]
      BY <2>1, <2>3
    <3> QED BY <3>1, <2>2, <2>3, SameBytes
  <2>5. IsBytes(x) /\ Len(x) = n
    BY <2>2, <2>x, EncryptIs
  <2>6. b_buf' = Put(b_buf, 0, x)
    BY <2>4, <2>x
  <2>7. n <= BufSize /\ n = Len(x)
    BY <2>2, <2>5
  <2>8. \A i \in 1 .. n : Put(b_buf, 0, x)[i] = x[i]
    BY ONLY <2>5, <2>7, PutStart
  <2>9. \A i \in 1 .. n : b_buf'[i] = x[i]
    BY <2>6, <2>8
  <2> QED BY <2>9 DEF p, x, n
<1>13. Sending'
  BY <1>0, <1>1, <1>12 DEF Sending, Cell
<1>14. Obeyed'
  BY <1>0, <1>1 DEF Obeyed
<1>15. SqueezedIn => SqueezedIn'
  <2> SUFFICES ASSUME NEW i \in 1 .. Len(nonces), nonces[i].squeezed, nonces[i].nonce[1] = token PROVE SqueezedIn'
    BY DEF SqueezedIn
  <2>1. i \in 1 .. Len(nonces') /\ nonces'[i] = nonces[i]
    BY <1>4
  <2> QED BY <2>1, <1>1 DEF SqueezedIn
<1>16. Counts'
  BY <1>0, <1>1, <1>15 DEF Counts
<1> QED BY <1>5, <1>7, <1>u, <1>10, <1>11, <1>13, <1>14, <1>16 DEF IInv

\* A segment is written or lost; with the last one the SESAME has the command that was
\* encrypted, or drops it.
LEMMA WriteKeeps == ASSUME IInv, Write PROVE IInv'
<1>0. /\ Shape /\ Secret /\ Used /\ Once /\ Sending /\ Obeyed /\ Counts
      /\ encrypt \in Nat /\ c_offset \in Nat /\ data \in Nat /\ remain \in Nat /\ met \in BOOLEAN
      /\ IsBytes(asked) /\ Len(asked) \in Nat /\ IsBytes(nonces) /\ IsBytes(b_buf) /\ Len(b_buf) = BufSize
      /\ BufSize \in Nat /\ TagLen \in Nat \ {0}
  BY LinkAssumption DEF IInv, Shape, IsBytes
<1>n. Away /\ Messages /\ Phase /\ Stream /\ Heard /\ SegSize \in Nat \ {0} /\ lost \in Nat
  BY LinkAssumption DEF IInv, Shape
<1> DEFINE n == Min({remain, SegSize})
           seg == Segment(Bytes(b_buf, 0, data + remain), data, "cipher")
<1>m. n = IF remain <= SegSize THEN remain ELSE SegSize
  BY <1>0, <1>n, MinOf
<1>1. /\ pc = "write" /\ link /\ data' = data + n /\ remain' = remain - n
      /\ pc' = IF n = remain THEN "idle" ELSE "write"
      /\ \/ lost' = lost + 1 /\ UNCHANGED <<down, said, ses, obeyed, registered>>
         \/ SesameGets(seg) /\ UNCHANGED lost
      /\ UNCHANGED <<b_buf, c_offset, encrypt, todo, loaded, asked, nonces, met, wild,
                     device_status, device_secret, code, token, decrypt, link, session, heard, overrun>>
  BY DEF Write, OthersKept
<1> HIDE DEF n
<1>2. /\ data' \in Nat /\ remain' \in Nat /\ data' + remain' = data + remain
      /\ pc' = IF remain <= SegSize THEN "idle" ELSE "write"
      /\ pc' = "write" => remain' > 0
  <2>1. n \in Nat /\ n <= remain /\ (n = remain <=> remain <= SegSize)
    BY <1>m, <1>0, <1>n
  <2> QED BY <2>1, <1>0, <1>1
<1>3. Secret' /\ Used' /\ Once'
  <2>1. /\ pc = "write" /\ pc' \in {"idle", "write"}
        /\ UNCHANGED <<encrypt, nonces, device_status, device_secret, code, token>>
    BY <1>1, <1>2
  <2>2. Secret'
    BY ONLY <1>0, <2>1 DEF Secret
  <2>3. Used' /\ Once'
    BY ONLY <1>0, <2>1 DEF Used, Once, NextCount
  <2> QED BY <2>2, <2>3
<1>4. Sending'
  BY <1>0, <1>1, <1>2 DEF Sending, Cell
<1>5. DOMAIN ses = Kinds /\ ses.in \in Nat /\ ses.sec \in BOOLEAN /\ ses.out \in Nat /\ IsBytes(ses.buf)
  BY <1>0 DEF Shape, Kinds
<1>6. /\ IsBytes(down') /\ IsBytes(said') /\ IsBytes(obeyed') /\ lost' \in Nat /\ registered' \in BOOLEAN
      /\ DOMAIN ses' = Kinds /\ ses'.in \in Nat /\ ses'.sec \in BOOLEAN /\ ses'.out \in Nat /\ IsBytes(ses'.buf)
      => Shape'
  <2> SUFFICES ASSUME /\ IsBytes(down') /\ IsBytes(said') /\ IsBytes(obeyed') /\ lost' \in Nat /\ registered' \in BOOLEAN
                      /\ DOMAIN ses' = Kinds /\ ses'.in \in Nat /\ ses'.sec \in BOOLEAN /\ ses'.out \in Nat
                      /\ IsBytes(ses'.buf)
               PROVE  Shape'
    OBVIOUS
  <2>1. (/\ device_status \in {SSM_DISCONNECTED, SSM_CONNECTED, SSM_LOGGIN}
         /\ pc \in {"idle", "offset", "rest", "encrypt", "count", "store", "write", "panic"}
         /\ IsBytes(b_buf) /\ Len(b_buf) = BufSize /\ c_offset \in 0 .. BufSize)'
    BY <1>0, <1>1, <1>2 DEF Shape
  <2>2. (encrypt \in Nat /\ decrypt \in Nat /\ loaded \in Nat /\ data \in Nat /\ remain \in Nat /\ lost \in Nat)'
    BY <1>0, <1>1, <1>2 DEF Shape
  <2>3. (link \in BOOLEAN /\ registered \in BOOLEAN /\ met \in BOOLEAN /\ wild \in BOOLEAN /\ overrun = FALSE)'
    BY <1>0, <1>1, <1>2 DEF Shape
  <2>4. (session \in 0 .. MaxSessions /\ code \in 0 .. session)'
    BY <1>0, <1>1, <1>2 DEF Shape
  <2>5. (/\ IsBytes(down) /\ IsBytes(said) /\ IsBytes(heard)
         /\ IsBytes(asked) /\ IsBytes(obeyed) /\ IsBytes(nonces))'
    BY <1>0, <1>1, <1>2 DEF Shape
  <2>6. (/\ DOMAIN ses = {"sec", "in", "out", "buf"} /\ IsBytes(ses.buf)
         /\ ses.sec \in BOOLEAN /\ ses.in \in Nat /\ ses.out \in Nat)'
    BY DEF Kinds
  <2> QED BY <2>1, <2>2, <2>3, <2>4, <2>5, <2>6 DEF Shape
<1>7. ASSUME UNCHANGED <<down, said, registered>>, ses'.sec = ses.sec, ses'.out = ses.out
      PROVE  Away' /\ Messages' /\ Phase' /\ Stream' /\ Heard'
  <2>1. \A x \in Nat : Behind(pc, c_offset, x) => Behind(pc', c_offset', x)
    BY <1>1, <1>2 DEF Behind
  <2>2. /\ pc # "idle" /\ link
        /\ UNCHANGED <<device_status, device_secret, code, decrypt, link, session, heard, down, said,
                       registered, met, wild>>
    BY <1>1, <1>7
  <2> QED BY <2>1, <2>2, <1>7, TaskKeeps
<1>8. ~met => /\ Len(asked) > 0
             /\ \A i \in 1 .. Len(obeyed) : /\ obeyed[i][1] \in 1 .. Len(asked)
                                           /\ obeyed[i][1] < Len(asked)
                                           /\ obeyed[i][2] = asked[obeyed[i][1]]
  BY <1>0, <1>1 DEF Sending, Obeyed
<1>9. CASE lost' = lost + 1 /\ UNCHANGED <<down, said, ses, obeyed, registered>>
  <2>1. Shape'
    BY <1>0, <1>n, <1>5, <1>6, <1>9 DEF Shape
  <2>2. Away' /\ Messages' /\ Phase' /\ Stream' /\ Heard'
    BY <1>7, <1>9
  <2>3. Obeyed'
    BY <1>0, <1>1, <1>9 DEF Obeyed
  <2>4. Counts'
    BY <1>n, <1>9 DEF Counts, SqueezedIn
  <2> QED BY <2>1, <2>2, <2>3, <2>4, <1>3, <1>4 DEF IInv
<1>10. CASE SesameGets(seg) /\ UNCHANGED lost
  <2> DEFINE x == Bytes(b_buf, 0, data + remain)
             all == data + remain
             front == IF seg.first THEN <<>> ELSE ses.buf
             whole == front \o seg.bytes
             l == Len(seg.bytes)
  <2>1. all \in Nat /\ data \in Nat /\ data <= all /\ all - data = remain
    BY <1>0
  <2>2. IsBytes(x) /\ Len(x) = all /\ \A i \in 1 .. all : x[i] = b_buf[i]
    <3>1. x = Bytes(b_buf, 0, all)
      OBVIOUS
    <3> HIDE DEF x, all
    <3> QED BY ONLY <3>1, <2>1, BytesIs
  <2>3. /\ seg.type = IF all - data <= SegSize THEN "cipher" ELSE "append"
        /\ IsBytes(seg.bytes) /\ Len(seg.bytes) = IF all - data <= SegSize THEN all - data ELSE SegSize
        /\ \A i \in 1 .. Len(seg.bytes) : seg.bytes[i] = x[data + i]
    <3>1. seg = Segment(x, data, "cipher") /\ all = Len(x) /\ all \in Nat /\ data \in Nat /\ data <= all
      BY <2>1, <2>2
    <3> DEFINE type == "cipher"
    <3>2. seg = Segment(x, data, type) /\ type = "cipher"
      BY <3>1
    <3> HIDE DEF x, all, seg, type
    <3>3. LET s == Segment(x, data, type)
          IN  /\ s.type = IF all - data <= SegSize THEN type ELSE "append"
              /\ IsBytes(s.bytes) /\ Len(s.bytes) = IF all - data <= SegSize THEN all - data ELSE SegSize
              /\ \A i \in 1 .. Len(s.bytes) : s.bytes[i] = x[data + i]
      BY ONLY <3>1, SegmentIs
    <3> QED BY <3>2, <3>3
  <2>4. seg.type = (IF remain <= SegSize THEN "cipher" ELSE "append") /\ l \in Nat /\ (remain <= SegSize => l = remain)
    BY <2>1, <2>3, <1>0, <1>n
  <2>5. IsBytes(front) /\ Len(front) \in Nat
    BY <1>5, NoBytes DEF IsBytes
  <2>g. /\ seg.type = "append" => ses' = [ses EXCEPT !.buf = whole] /\ UNCHANGED <<down, said, obeyed, registered>>
        /\ seg.type = "cipher" => SesameHears(down, "cipher", whole, Len(asked))
    <3> HIDE DEF seg
    <3> QED BY <1>10 DEF SesameGets
  <2>6. /\ IsBytes(whole) /\ Len(whole) = Len(front) + l
        /\ \A i \in 1 .. l : whole[Len(front) + i] = seg.bytes[i]
    <3> DEFINE b == seg.bytes
    <3>1. whole = front \o b /\ IsBytes(b) /\ l = Len(b)
      BY <2>3
    <3> HIDE DEF front, b, whole, l
    <3>2. /\ IsBytes(whole) /\ Len(whole) = Len(front) + Len(b)
          /\ \A i \in 1 .. Len(b) : whole[Len(front) + i] = b[i]
      <4>1. whole = front \o b /\ IsBytes(front) /\ IsBytes(b)
        BY <3>1, <2>5
      <4>2. /\ IsBytes(front \o b) /\ Len(front \o b) = Len(front) + Len(b)
            /\ \A i \in 1 .. Len(b) : (front \o b)[Len(front) + i] = b[i]
        BY ONLY <4>1, ConcatIs
      <4> QED BY ONLY <4>1, <4>2
    <3> QED BY <3>1, <3>2 DEF b
  <2> HIDE DEF seg, x, all, front, whole, l
  <2>7. CASE seg.type = "append"
    <3>1. ses' = [ses EXCEPT !.buf = whole] /\ UNCHANGED <<down, said, obeyed, registered>>
      BY <2>g, <2>7
    <3>2. /\ DOMAIN ses' = Kinds /\ ses'.in = ses.in /\ ses'.sec = ses.sec /\ ses'.out = ses.out /\ ses'.buf = whole
      BY <3>1, <1>5 DEF Kinds
    <3>3. Shape'
      BY <3>1, <3>2, <2>6, <1>0, <1>n, <1>5, <1>6, <1>10 DEF Shape
    <3>4. Away' /\ Messages' /\ Phase' /\ Stream' /\ Heard'
      BY <1>7, <3>1, <3>2
    <3>5. Obeyed'
      BY <1>0, <1>1, <3>1 DEF Obeyed
    <3>6. pc' = "write"
      BY <2>4, <2>7, <1>2
    <3>7. Counts'
      BY <3>2, <3>6, <1>0, <1>1, <1>10 DEF Counts, SqueezedIn
    <3> QED BY <3>3, <3>4, <3>5, <3>7, <1>3, <1>4 DEF IInv
  <2>8. CASE seg.type = "cipher"
    <3> DEFINE plain == Decrypt(Token(session), ses.in, whole)
    <3>1. SesameHears(down, "cipher", whole, Len(asked)) /\ plain = Decrypt(Token(session), ses.in, whole)
      BY <2>g, <2>8
    <3>2. pc' = "idle" /\ remain <= SegSize /\ l = remain
      BY <2>4, <2>8, <1>2
    <3> DEFINE number == Len(asked)
    <3>n. SesameHears(down, "cipher", whole, number)
      BY <3>1
    <3> HIDE DEF plain, number
    <3>d. Decides(down, plain, number)
      BY ZenonT(40), <3>1, <3>n, <1>5, HearsCipher
    <3>3. PICK s :
           /\ DOMAIN s = Kinds /\ s.in = ses.in + 1 /\ s.out = ses.out /\ s.sec = ses.sec /\ s.buf = <<>>
           /\ UNCHANGED registered
           /\ \/ /\ ses.sec /\ plain # <<>> /\ plain[1] \notin {Zero, Item("INITIAL"), Item("REGISTRATION")}
                 /\ obeyed' = Append(obeyed, <<Len(asked), plain>>)
                 /\ Say(down, s, <<Op("RESPONSE"), plain[1]>>, TRUE)
              \/ ses' = s /\ down' = down /\ UNCHANGED <<said, obeyed>>
      BY <3>d DEF Decides, Reacts, number
    <3>c. ses'.in = ses.in + 1 => Counts'
      <4>1. link /\ lost = 0 /\ heard # <<>> /\ ~SqueezedIn => encrypt = ses.in + 1
        BY <1>0, <1>1 DEF Counts
      <4>2. SqueezedIn' <=> SqueezedIn
        BY <1>1 DEF SqueezedIn
      <4>3. link' = link /\ lost' = lost /\ heard' = heard /\ encrypt' = encrypt
        BY <1>1, <1>10
      <4> QED BY <4>1, <4>2, <4>3, <3>2, <1>0, <1>5 DEF Counts
    <3>4. CASE ses' = s /\ down' = down /\ UNCHANGED <<said, obeyed>>
      <4>1. /\ DOMAIN ses' = Kinds /\ ses'.in = ses.in + 1 /\ ses'.sec = ses.sec /\ ses'.out = ses.out /\ ses'.buf = <<>>
            /\ UNCHANGED registered
        BY <3>3, <3>4
      <4>2. Shape'
        BY <4>1, <3>4, <1>0, <1>n, <1>5, <1>6, <1>10, NoBytes DEF Shape
      <4>3. Away' /\ Messages' /\ Phase' /\ Stream' /\ Heard'
        BY <1>7, <3>4, <4>1
      <4>4. Obeyed'
        BY <1>0, <1>1, <3>2, <3>4 DEF Obeyed
      <4> QED BY <4>1, <4>2, <4>3, <4>4, <3>c, <1>3, <1>4 DEF IInv
    <3>5. CASE /\ ses.sec /\ plain # <<>> /\ plain[1] \notin {Zero, Item("INITIAL"), Item("REGISTRATION")}
               /\ obeyed' = Append(obeyed, <<Len(asked), plain>>)
               /\ Say(down, s, <<Op("RESPONSE"), plain[1]>>, TRUE)
      <4> DEFINE y == <<Op("RESPONSE"), plain[1]>>
      <4>1. Later(y) /\ Say(down, s, y, TRUE)
        BY <3>5, AnswerIs
      <4> HIDE DEF y
      <4>2. /\ IsBytes(down') /\ IsBytes(said') /\ Messages' /\ Plains' = Plains
            /\ DOMAIN ses' = Kinds /\ ses'.in = s.in /\ ses'.sec = ses.sec /\ ses'.buf = s.buf
            /\ ses'.out = ses.out + 1
            /\ Len(said') = Len(said) + 1 /\ \A m \in 1 .. Len(said) : said'[m] = said[m]
            /\ \A k \in Nat : OnAir(down, Wire, Len(heard), k) =>
                 OnAir(down', Wire', Len(heard), k) /\ (k > 1 => NextMessage' = NextMessage)
        <5>1. UNCHANGED <<link, session, heard>> /\ link /\ ses.sec /\ DOMAIN s = Kinds /\ s.out = ses.out /\ s.sec = ses.sec
          BY <1>1, <3>3, <3>5
        <5> QED BY <5>1, <4>1, SaysMore
      <4>3. /\ IsBytes(obeyed) /\ IsBytes(obeyed') /\ Len(obeyed') = Len(obeyed) + 1 /\ Len(obeyed) \in Nat
            /\ obeyed'[Len(obeyed) + 1] = <<Len(asked), plain>>
            /\ \A i \in 1 .. Len(obeyed) : obeyed'[i] = obeyed[i]
        <5>1. IsBytes(obeyed) /\ Len(obeyed) \in Nat
          BY <1>0 DEF Shape, IsBytes
        <5> QED BY <5>1, <3>5, AppendIs
      <4>4. Shape'
        BY <4>2, <4>3, <3>3, <1>0, <1>n, <1>5, <1>6, <1>10, NoBytes DEF Shape
      <4>5. Away'
        BY <1>1 DEF Away
      <4>6. ~(Len(heard) < Plains) /\ heard # <<>>
        <5>1. ~(Len(heard) < Plains)
          BY <1>n, <1>1 DEF Phase
        <5>2. Plains \in {1, 2} /\ IsBytes(heard)
          BY <1>n, <1>0, <1>1 DEF Messages, Shape
        <5> QED BY <5>1, <5>2, NoBytes
      <4>7. Phase'
        BY <4>2, <4>6, <3>5, <1>n, <1>1, <1>5 DEF Phase
      <4>8. Stream'
        <5>1. PICK k \in Nat : OnAir(down, Wire, Len(heard), k) /\ Received(k)
          BY <1>n, <1>1 DEF Stream
        <5>2. OnAir(down', Wire', Len(heard'), k)
          BY <5>1, <4>2, <1>1
        <5>3. Received(k)'
          BY <5>1, <4>2, <4>6, <3>2, <1>1 DEF Received
        <5> QED BY <5>2, <5>3 DEF Stream
      <4>9. Heard'
        <5> DEFINE h == Len(heard)
                   u == Len(said)
                   v == Len(said')
        <5>1. h \in Nat /\ u \in Nat /\ v = u + 1 /\ h <= u
          BY <4>2, <1>n, <1>0 DEF Heard, Shape, IsBytes
        <5>2. heard' = heard /\ met' = met /\ (~met => \A m \in 1 .. h : heard[m] = said[m])
              /\ \A m \in 1 .. u : said'[m] = said[m]
          BY <4>2, <1>n, <1>1 DEF Heard
        <5> HIDE DEF h, u, v
        <5>3. h <= v /\ (~met => \A m \in 1 .. h : heard[m] = said'[m])
          BY ONLY <5>1, <5>2
        <5>4. ~met => ~wild'
          BY <1>n, <1>1 DEF Heard
        <5> QED BY <5>2, <5>3, <5>4 DEF Heard, h, v
      <4>10. ~met => plain = asked[Len(asked)]
        <5> SUFFICES ASSUME ~met PROVE plain = asked[Len(asked)]
          OBVIOUS
        <5> DEFINE p == Plain(todo)
                   e == Encrypt(token, encrypt - 1, p)
        <5>1. /\ todo \in Commands /\ asked[Len(asked)] = p
              /\ data + remain = Len(p) + TagLen /\ remain > 0
              /\ \A i \in 1 .. Len(p) + TagLen : b_buf[i] = e[i]
          BY <1>0, <1>1 DEF Sending, Cell
        <5>2. IsBytes(p)
          BY <5>1, CommandIs
        <5>e. e = Encrypt(token, encrypt - 1, p)
          OBVIOUS
        <5> HIDE DEF p, e
        <5>3. Len(e) = Len(p) + TagLen /\ Len(e) \in Nat \ {0} /\ \A i \in 1 .. Len(e) : e[i][2].of = p
          BY <5>2, <5>e, EncryptIs
        <5>4. all = Len(e) /\ all = data + remain
          BY <5>1, <5>3 DEF all
        <5>5. b_buf[all] = e[all] /\ e[all][2].of = p /\ all \in 1 .. all
          BY <5>1, <5>3, <5>4
        <5>6. whole[Len(front) + l] = seg.bytes[l] /\ l \in 1 .. l
          BY <2>6, <3>2, <5>1, <1>0
        <5>7. seg.bytes[l] = x[data + l]
          BY <2>3, <5>6 DEF l
        <5>8. whole[Len(whole)] = e[all]
          BY <5>4, <5>5, <5>6, <5>7, <3>2, <2>2, <2>6
        <5>9. whole[Len(whole)][2].of = p
          BY <5>5, <5>8
        <5>10. Len(whole) > 0
          BY <2>5, <2>6, <5>6
        <5>11. plain = p
          <6> DEFINE tk == Token(session)
                     ct == ses.in
          <6>1. plain = Decrypt(tk, ct, whole)
            BY <3>1
          <6>2. IsBytes(whole) /\ Len(whole) > 0 /\ whole[Len(whole)][2].of = p /\ plain # <<>> /\ plain[1] # Zero
            BY <5>9, <5>10, <2>6, <3>5
          <6> HIDE DEF tk, ct
          <6> QED BY ONLY <6>1, <6>2, DecryptSent
        <5> QED BY <5>1, <5>11
      <4>11. Obeyed'
        <5> SUFFICES ASSUME ~met
                     PROVE  /\ \A i \in 1 .. Len(obeyed') : /\ obeyed'[i][1] \in 1 .. Len(asked)
                                                            /\ obeyed'[i][2] = asked[obeyed'[i][1]]
                            /\ \A i, j \in 1 .. Len(obeyed') : i < j => obeyed'[i][1] < obeyed'[j][1]
          BY <3>2, <1>1 DEF Obeyed
        <5>1. \A i \in 1 .. Len(obeyed') : i \in 1 .. Len(obeyed) \/ i = Len(obeyed) + 1
          BY <4>3
        <5>2. \A i \in 1 .. Len(obeyed) : /\ obeyed'[i][1] \in 1 .. Len(asked) /\ obeyed'[i][1] < Len(asked)
                                          /\ obeyed'[i][2] = asked[obeyed'[i][1]]
          BY <4>3, <1>8
        <5> DEFINE o == Len(obeyed) + 1
        <5>3. obeyed'[o][1] = Len(asked) /\ obeyed'[o][2] = plain /\ Len(asked) \in 1 .. Len(asked)
          BY <4>3, <1>8, <1>0
        <5>4. \A i \in 1 .. Len(obeyed') : /\ obeyed'[i][1] \in 1 .. Len(asked)
                                           /\ obeyed'[i][2] = asked[obeyed'[i][1]]
          BY <5>1, <5>2, <5>3, <4>10
        <5>5. \A i, j \in 1 .. Len(obeyed') : i < j => obeyed'[i][1] < obeyed'[j][1]
          <6> SUFFICES ASSUME NEW i \in 1 .. Len(obeyed'), NEW j \in 1 .. Len(obeyed'), i < j
                       PROVE  obeyed'[i][1] < obeyed'[j][1]
            OBVIOUS
          <6>1. i \in 1 .. Len(obeyed)
            BY <4>3
          <6>2. CASE j \in 1 .. Len(obeyed)
            <7>1. obeyed[i][1] < obeyed[j][1]
              BY <6>1, <6>2, <1>0 DEF Obeyed
            <7> QED BY <7>1, <6>1, <6>2, <4>3
          <6>3. CASE j = o
            BY <6>1, <6>3, <5>2, <5>3
          <6> QED BY <6>2, <6>3, <5>1
        <5> QED BY <5>4, <5>5
      <4>12. Counts'
        BY <4>2, <3>3, <3>c
      <4> QED BY <4>2, <4>4, <4>5, <4>7, <4>8, <4>9, <4>11, <4>12, <1>3, <1>4 DEF IInv
    <3> QED BY <3>3, <3>4, <3>5
  <2> QED BY <2>4, <2>7, <2>8
<1> QED BY <1>1, <1>9, <1>10

\* Another device is to be paired with this one; a command of the MQTT task, or a message
\* whose first segments are in b_buf, has met it.
LEMMA PairKeeps == ASSUME IInv, Pair PROVE IInv'
<1>0. /\ Shape /\ Secret /\ Used /\ Once /\ Away /\ Messages /\ Phase /\ Stream /\ Heard /\ Sending /\ Obeyed /\ Counts
      /\ IsBytes(down) /\ IsBytes(heard) /\ Len(heard) \in Nat /\ met \in BOOLEAN /\ Len(said) \in Nat
      /\ ses.out \in Nat
  BY DEF IInv, Shape, IsBytes
<1>1. /\ link /\ pc # "panic" /\ device_status >= SSM_LOGGIN
      /\ met' = (met \/ pc # "idle" \/ (down # <<>> /\ ~Head(down).first))
      /\ c_offset' = Len(AddSesame) + TagLen
      /\ HostOrders(down, b_buf, AddSesame)
      /\ UNCHANGED <<device_status, device_secret, code, token, decrypt, pc, todo, loaded, data, remain,
                     link, session, heard, overrun, wild>>
  BY DEF Pair, HostRuns, mqtt
<1>2. /\ c_offset' \in Starts /\ c_offset' \in Nat /\ TagLen \in Nat /\ BufSize \in Nat
      /\ c_offset' + TagLen <= BufSize
  <2>1. c_offset' \in Starts
    BY <1>1 DEF Starts
  <2> QED BY <2>1, StartsAre, LinkAssumption, RoomAssumption
<1>3. device_status = SSM_LOGGIN /\ device_secret = Key
  <2>1. device_status = SSM_LOGGIN
    BY SMTT(30), <1>0, <1>1 DEF Shape, SSM_LOGGIN, SSM_CONNECTED, SSM_DISCONNECTED
  <2> QED BY <2>1, <1>0 DEF Secret
<1>4. ~(Len(heard) < Plains) /\ Len(heard) >= Plains /\ heard # <<>>
  <2>1. ~(Len(heard) < Plains)
    BY <1>0, <1>1, <1>3 DEF Phase, SSM_LOGGIN, SSM_CONNECTED
  <2>2. Plains \in {1, 2}
    BY <1>0, <1>1 DEF Messages
  <2>3. heard # <<>>
    BY <2>1, <2>2, NoBytes
  <2> QED BY <2>1, <2>2, <2>3, <1>0
<1>5. PICK k \in Nat : OnAir(down, Wire, Len(heard), k) /\ Received(k)
  BY <1>0, <1>1 DEF Stream
<1> DEFINE a == Len(heard)
<1>6. Keeps(a, k)
  <2> DEFINE bytes == AddSesame
             q == down
             buf == b_buf
  <2>1. HostOrders(q, buf, bytes) /\ IsBytes(bytes) /\ IsBytes(q) /\ OnAir(q, Wire, a, k) /\ a \in Nat
    BY <1>0, <1>1, <1>5, BytesAssumption
  <2>2. link /\ session' = session
    BY <1>1
  <2> HIDE DEF bytes, q, buf, a
  <2>3. Orders(bytes, a, k)
    BY <2>1, <2>2, <1>0, OrdersIs
  <2>4. Ends(a, k)
    BY <2>1, <2>3 DEF Ends
  <2>5. met' \in BOOLEAN /\ (~met' => ~met /\ pc = "idle")
    BY <1>0, <1>1
  <2>6. LoggedIn
    BY <2>5, <1>1, <1>3, <1>4 DEF LoggedIn
  <2> QED BY <2>4, <2>6, <1>0, EndsKeep
<1> HIDE DEF a
<1>7. /\ IsBytes(b_buf') /\ Len(b_buf') = BufSize /\ encrypt' \in Nat /\ lost' \in Nat /\ UNCHANGED registered
      /\ IsBytes(down') /\ IsBytes(said') /\ IsBytes(asked') /\ IsBytes(obeyed') /\ IsBytes(nonces')
      /\ DOMAIN ses' = Kinds /\ IsBytes(ses'.buf) /\ ses'.sec = ses.sec /\ ses'.in \in Nat
      /\ ses'.out = ses.out \/ (ses.sec /\ ses'.out = ses.out + 1)
      /\ Plains' = Plains /\ OnAir(down', Wire', a, k)
      /\ Len(said') >= Len(said) /\ Len(said') \in Nat /\ \A m \in 1 .. Len(said) : said'[m] = said[m]
      /\ Messages' /\ Used' /\ Once' /\ Obeyed' /\ Counts'
  BY <1>6 DEF Keeps
<1>8. Shape'
  <2>1. (/\ device_status \in {SSM_DISCONNECTED, SSM_CONNECTED, SSM_LOGGIN}
         /\ pc \in {"idle", "offset", "rest", "encrypt", "count", "store", "write", "panic"}
         /\ IsBytes(b_buf) /\ Len(b_buf) = BufSize /\ c_offset \in 0 .. BufSize)'
    BY <1>0, <1>1, <1>2, <1>7 DEF Shape
  <2>2. (encrypt \in Nat /\ decrypt \in Nat /\ loaded \in Nat /\ data \in Nat /\ remain \in Nat /\ lost \in Nat)'
    BY <1>0, <1>1, <1>7 DEF Shape
  <2>3. (link \in BOOLEAN /\ registered \in BOOLEAN /\ met \in BOOLEAN /\ wild \in BOOLEAN /\ overrun = FALSE)'
    BY <1>0, <1>1, <1>7 DEF Shape
  <2>4. (session \in 0 .. MaxSessions /\ code \in 0 .. session)'
    BY <1>0, <1>1 DEF Shape
  <2>5. (/\ IsBytes(down) /\ IsBytes(said) /\ IsBytes(heard)
         /\ IsBytes(asked) /\ IsBytes(obeyed) /\ IsBytes(nonces))'
    BY <1>0, <1>1, <1>7
  <2>6. (/\ DOMAIN ses = {"sec", "in", "out", "buf"} /\ IsBytes(ses.buf)
         /\ ses.sec \in BOOLEAN /\ ses.in \in Nat /\ ses.out \in Nat)'
    <3>1. DOMAIN ses' = {"sec", "in", "out", "buf"} /\ IsBytes(ses'.buf) /\ ses'.in \in Nat /\ ses'.out \in Nat
      BY <1>0, <1>7 DEF Kinds
    <3>2. ses.sec \in BOOLEAN /\ ses'.sec = ses.sec
      BY <1>0, <1>7 DEF Shape
    <3> QED BY <3>1, <3>2
  <2> QED BY <2>1, <2>2, <2>3, <2>4, <2>5, <2>6 DEF Shape
<1>9. Secret'
  <2>1. Key # <<>>
    BY KeyIs
  <2> QED BY <2>1, <1>0, <1>1, <1>3 DEF Secret
<1>10. Away'
  BY <1>1 DEF Away
<1>11. Phase'
  <2>1. ses.sec <=> ses.out > 0
    BY <1>0, <1>1 DEF Phase
  <2>2. ses'.sec <=> ses'.out > 0
    BY <2>1, <1>0, <1>7
  <2>3. code = session /\ decrypt = Len(heard) - Plains
    BY <1>0, <1>1, <1>4 DEF Phase
  <2> QED BY <2>2, <2>3, <1>1, <1>3, <1>4, <1>7 DEF Phase
<1>12. Stream'
  <2>1. OnAir(down', Wire', Len(heard'), k)
    BY <1>1, <1>7 DEF a
  <2>2. k > 1 => met'
    BY <1>1, <1>5, NotFirst
  <2>3. k > 1 => Behind(pc', c_offset', At(k - 1))
    <3> SUFFICES ASSUME k > 1 PROVE Behind(pc', c_offset', At(k - 1))
      OBVIOUS
    <3>1. k - 1 \in Nat \ {0}
      OBVIOUS
    <3>2. At(k - 1) \in Nat
      BY <3>1, AtStep
    <3> DEFINE d == IF pc' \in {"rest", "encrypt", "count", "store"} THEN 0 ELSE TagLen
    <3>3. d \in Nat
      BY <1>2
    <3>4. c_offset' <= c_offset' + At(k - 1) + d
      BY <3>2, <3>3, <1>2
    <3> QED BY <3>4, <1>2 DEF Behind
  <2>4. Received(k)'
    BY <2>2, <2>3, <1>1, <1>4, <1>7 DEF Received, Behind
  <2> QED BY <2>1, <2>4 DEF Stream
<1>13. Heard'
  <2>1. Len(heard) <= Len(said) /\ (~met => ~wild /\ \A m \in 1 .. Len(heard) : heard[m] = said[m])
    BY <1>0 DEF Heard
  <2>2. Len(heard') <= Len(said')
    BY <2>1, <1>0, <1>1, <1>7
  <2>3. \A m \in 1 .. Len(heard) : m \in 1 .. Len(said)
    BY <2>1, <1>0
  <2>4. ~met' => ~met
    BY <1>0, <1>1
  <2>5. heard' = heard /\ wild' = wild
    BY <1>1
  <2>6. \A m \in 1 .. Len(said) : said'[m] = said[m]
    BY <1>7
  <2> QED BY ONLY <2>1, <2>2, <2>3, <2>4, <2>5, <2>6 DEF Heard
<1>14. Sending'
  <2>1. ~met' => pc = "idle"
    BY <1>0, <1>1
  <2>2. /\ pc' \notin {"idle", "panic"} => todo' \in Commands
        /\ pc' = "write" => data' + remain' <= BufSize
    BY <1>0, <1>1 DEF Sending
  <2>3. pc' = pc
    BY <1>1
  <2> QED BY <2>1, <2>2, <2>3, <1>2 DEF Sending
<1> QED BY <1>7, <1>8, <1>9, <1>10, <1>11, <1>12, <1>13, <1>14 DEF IInv

-----------------------------------------------------------------------------
(* Every step, and what the invariant says.                                *)

\* A step that changes nothing.
LEMMA StutterKeeps == ASSUME IInv, UNCHANGED vars PROVE IInv'
<1>0. /\ Shape /\ Secret /\ Used /\ Once /\ Away /\ Messages /\ Phase /\ Stream /\ Heard /\ Sending /\ Obeyed /\ Counts
  BY DEF IInv
<1>1. UNCHANGED <<device_status, b_buf, c_offset, device_secret, code, token, encrypt, decrypt,
                  pc, todo, loaded, data, remain, link, session, down, registered, ses,
                  asked, obeyed, said, heard, nonces, overrun, wild, met, news, lost>>
  BY DEF vars, slot, cipher, mqtt, conn, hist
<1>2. Shape'
  <2>1. (/\ device_status \in {SSM_DISCONNECTED, SSM_CONNECTED, SSM_LOGGIN}
         /\ pc \in {"idle", "offset", "rest", "encrypt", "count", "store", "write", "panic"}
         /\ IsBytes(b_buf) /\ Len(b_buf) = BufSize /\ c_offset \in 0 .. BufSize)'
    BY <1>1, <1>0 DEF Shape
  <2>2. (encrypt \in Nat /\ decrypt \in Nat /\ loaded \in Nat /\ data \in Nat /\ remain \in Nat /\ lost \in Nat)'
    BY <1>1, <1>0 DEF Shape
  <2>3. (link \in BOOLEAN /\ registered \in BOOLEAN /\ met \in BOOLEAN /\ wild \in BOOLEAN /\ overrun = FALSE)'
    BY <1>1, <1>0 DEF Shape
  <2>4. (session \in 0 .. MaxSessions /\ code \in 0 .. session)'
    BY <1>1, <1>0 DEF Shape
  <2>5. (/\ IsBytes(down) /\ IsBytes(said) /\ IsBytes(heard)
         /\ IsBytes(asked) /\ IsBytes(obeyed) /\ IsBytes(nonces))'
    BY <1>1, <1>0 DEF Shape
  <2>6. (/\ DOMAIN ses = {"sec", "in", "out", "buf"} /\ IsBytes(ses.buf)
         /\ ses.sec \in BOOLEAN /\ ses.in \in Nat /\ ses.out \in Nat)'
    BY <1>1, <1>0 DEF Shape
  <2> QED BY <2>1, <2>2, <2>3, <2>4, <2>5, <2>6 DEF Shape
<1>3. Plains' = Plains /\ Wire' = Wire /\ NextMessage' = NextMessage
  BY <1>1 DEF Plains, Wire, NextMessage
<1>4. Secret' /\ Used' /\ Once' /\ Away' /\ Messages' /\ Phase'
  BY <1>0, <1>1, <1>3 DEF Secret, Used, Once, NextCount, Away, Messages, Phase
<1>5. Stream' /\ Heard'
  BY <1>0, <1>1, <1>3 DEF Stream, Received, Heard
<1>6. Sending'
  BY <1>0, <1>1 DEF Sending, Cell
<1>7. Obeyed' /\ Counts'
  BY <1>0, <1>1 DEF Obeyed, Counts, SqueezedIn
<1> QED BY <1>2, <1>4, <1>5, <1>6, <1>7 DEF IInv

\* Every step keeps the invariant.
LEMMA StepKeeps == ASSUME IInv, [Next]_vars PROVE IInv'
<1>1. CASE Connect
  BY <1>1, ConnectKeeps
<1>2. CASE Disconnect
  BY <1>2, DisconnectKeeps
<1>3. CASE Receive
  BY <1>3, ReceiveKeeps
<1>4. ASSUME NEW p \in News, Publish(p) PROVE IInv'
  BY <1>4, PublishKeeps
<1>5. ASSUME NEW c \in Commands, Command(c) PROVE IInv'
  BY <1>5, CommandKeeps
<1>6. CASE Offset
  BY <1>6, OffsetKeeps
<1>7. CASE Rest
  BY <1>7, RestKeeps
<1>8. CASE EncryptCommand
  BY <1>8, EncryptCommandKeeps
<1>9. CASE Count
  BY <1>9, CountKeeps
<1>10. CASE Write
  BY <1>10, WriteKeeps
<1>11. CASE WriteNowhere
  BY <1>11, WriteNowhereKeeps
<1>12. CASE UNCHANGED vars
  BY <1>12, StutterKeeps
<1>13. CASE Pair
  BY <1>13, PairKeeps
<1>14. CASE LoadCount
  BY <1>14, LoadCountKeeps
<1> QED BY <1>1, <1>2, <1>3, <1>4, <1>5, <1>6, <1>7, <1>8, <1>9, <1>10, <1>11, <1>12, <1>13, <1>14 DEF Next, MqttStep

\* The invariant holds throughout.
LEMMA Inductive == Spec => []IInv
<1>1. Init => IInv
  BY InitHolds
<1>2. IInv /\ [Next]_vars => IInv'
  BY StepKeeps
<1> QED BY <1>1, <1>2, PTL DEF Spec

\* Every queue of segments is of what the SESAME sends, which talk_to_ssm's loop makes.
LEMMA TypesOfAir ==
  ASSUME IInv, link, NEW i \in 1 .. Len(down)
  PROVE  down[i].type \in Types
<1>0. Shape /\ Messages /\ IsBytes(said)
  BY DEF IInv, Shape
<1> DEFINE w == Wire
           p == Plains
           sd == said
           s == session
<1>1. /\ p \in Nat /\ IsBytes(sd) /\ w = Sent(sd, p, s)
      /\ \A m \in 1 .. Len(sd) : IsBytes(sd[m]) /\ Len(sd[m]) > 0
  <2>1. Plains \in Nat /\ \A m \in 1 .. Len(said) : IsBytes(said[m]) /\ Len(said[m]) > 0
    BY <1>0, SaidAre
  <2> QED BY <2>1, <1>0 DEF Wire
<1>2. PICK m, j : m \in 1 .. Len(w) /\ j \in 1 .. Len(w[m]) /\ down[i] = w[m][j]
  <2>1. PICK k \in Nat : OnAir(down, Wire, Len(heard), k)
    BY DEF IInv, Stream
  <2>2. PICK position \in [1 .. Len(down) -> Nat \X Nat] :
          \A l \in 1 .. Len(down) :
            /\ position[l][1] \in 1 .. Len(Wire) /\ position[l][2] \in 1 .. Len(Wire[position[l][1]])
            /\ down[l] = Wire[position[l][1]][position[l][2]]
    BY <2>1 DEF OnAir
  <2> QED BY SMTT(30), <2>2
<1> HIDE DEF w, p, sd, s
<1>3. /\ Len(w) = Len(sd)
      /\ \A x \in 1 .. Len(sd) : /\ w[x] = Segments(Encoded(sd, p, s, x), TypeOf(p, x))
                                 /\ IsBytes(Encoded(sd, p, s, x)) /\ Len(Encoded(sd, p, s, x)) \in Nat \ {0}
  BY ONLY <1>1, SentIs
<1> DEFINE b == Encoded(sd, p, s, m)
           t == TypeOf(p, m)
           segs == w[m]
<1>4. segs = Segments(b, t) /\ IsBytes(b) /\ Len(b) > 0 /\ t \in Types /\ j \in 1 .. Len(segs) /\ down[i] = segs[j]
  BY <1>2, <1>3 DEF TypeOf, Types
<1> HIDE DEF b, t, segs
<1>5. /\ Len(segs) \in Nat \ {0}
      /\ \A x \in 1 .. Len(segs) : /\ x < Len(segs) => segs[x].type = "append"
                                   /\ x = Len(segs) => segs[x].type = t
  BY ONLY <1>4, Cut
<1>6. segs[j].type = "append" \/ segs[j].type = t
  BY <1>4, <1>5
<1> QED BY <1>4, <1>6 DEF Types

\* IsPrefix, element by element.
LEMMA HeardIsPrefix ==
  ASSUME NEW s, NEW t, IsBytes(s), IsBytes(t), Len(s) <= Len(t), \A i \in 1 .. Len(s) : s[i] = t[i]
  PROVE  IsPrefix(s, t)
<1> DEFINE n == Len(s)
           a == SubSeq(s, 1, n)
           b == SubSeq(t, 1, n)
           one == 1
<1>0. one = 1 /\ n \in Nat /\ one \in Nat /\ one <= n + 1 /\ n + 1 - one = n /\ n <= Len(t) /\ \A i \in 1 .. n : s[i] = t[i]
  BY DEF IsBytes
<1>1. a = SubSeq(s, one, n) /\ b = SubSeq(t, one, n) /\ n = Len(s)
  OBVIOUS
<1> HIDE DEF n, a, b, one
<1>2. ASSUME NEW u
      PROVE  /\ IsBytes(SubSeq(u, one, n)) /\ Len(SubSeq(u, one, n)) = n + 1 - one
             /\ \A i \in 1 .. n + 1 - one : SubSeq(u, one, n)[i] = u[one + i - 1]
  <2>1. one \in Nat /\ n \in Nat /\ one <= n + 1
    BY <1>0
  <2> QED BY ONLY <2>1, SubSeqIs
<1>3. /\ IsBytes(a) /\ Len(a) = n + 1 - one /\ \A i \in 1 .. n + 1 - one : a[i] = s[one + i - 1]
      /\ IsBytes(b) /\ Len(b) = n + 1 - one /\ \A i \in 1 .. n + 1 - one : b[i] = t[one + i - 1]
  BY ONLY <1>1, <1>2
<1>4. \A i \in 1 .. n : one + i - 1 = i
  BY <1>0
<1>5. Len(a) = Len(b) /\ \A i \in 1 .. Len(a) : a[i] = b[i]
  BY ONLY <1>0, <1>3, <1>4
<1>6. a = b
  BY ONLY <1>3, <1>5, SameBytes
<1> QED BY <1>0, <1>1, <1>6 DEF IsPrefix

\* What the invariant says of each property.
LEMMA ImpliesUnderstood == IInv => Understood
<1> SUFFICES ASSUME IInv PROVE Understood
  OBVIOUS
<1>0. Shape /\ Secret /\ Away /\ Sending /\ Obeyed /\ Heard /\ LinkAssumption
  BY LinkAssumption DEF IInv
<1>1. TypeOK
  <2>1. /\ device_status \in {SSM_DISCONNECTED, SSM_CONNECTED, SSM_LOGGIN}
        /\ c_offset \in Nat /\ Len(b_buf) = BufSize
        /\ pc \in {"idle", "offset", "rest", "encrypt", "count", "store", "write", "panic"}
    BY <1>0 DEF Shape, LinkAssumption
  <2>2. {encrypt, decrypt, loaded, data, remain} \subseteq Nat
    BY <1>0 DEF Shape
  <2>3. link \in BOOLEAN
    BY <1>0 DEF Shape
  <2>4. session \in 0 .. MaxSessions /\ code \in 0 .. MaxSessions
    BY <1>0 DEF Shape, LinkAssumption
  <2>5. \A i \in DOMAIN down : down[i].type \in Types
    <3>1. DOMAIN down = 1 .. Len(down)
      BY <1>0, AsSeq DEF Shape
    <3>2. CASE link
      BY <3>1, <3>2, TypesOfAir
    <3>3. CASE ~link
      <4>1. Len(down) = 0
        BY <3>3, <1>0, NoBytes DEF Away
      <4> QED BY <4>1, <3>1
    <3> QED BY <3>2, <3>3
  <2> QED BY <2>1, <2>2, <2>3, <2>4, <2>5 DEF TypeOK
<1>2. ~overrun /\ c_offset <= BufSize
  BY <1>0 DEF Shape, LinkAssumption
<1>3. ~met => IsPrefix(heard, said)
  BY <1>0, HeardIsPrefix DEF Heard, Shape
<1>4. DOMAIN obeyed = 1 .. Len(obeyed)
  BY <1>0, AsSeq DEF Shape
<1>5. ~met => \A i \in DOMAIN obeyed : obeyed[i][2] = asked[obeyed[i][1]]
  BY <1>0, <1>4 DEF Obeyed
<1>6. ~met => ~wild /\ \A i, j \in DOMAIN obeyed : i < j => obeyed[i][1] < obeyed[j][1]
  BY <1>0, <1>4 DEF Obeyed, Heard
<1> QED BY <1>1, <1>2, <1>3, <1>5, <1>6 DEF Understood

\* The histories are sequences, so that DOMAIN nonces is 1 .. Len(nonces).
LEMMA ImpliesNonceOnce == IInv => NonceOnce
<1> SUFFICES ASSUME IInv PROVE NonceOnce
  OBVIOUS
<1>1. DOMAIN nonces = 1 .. Len(nonces)
  BY AsSeq DEF IInv, Shape
<1> QED BY <1>1 DEF IInv, Once, NonceOnce

\* When all notifications are handled everything that the SESAME said was heard.
LEMMA ImpliesInStep == IInv => InStep
<1> SUFFICES ASSUME IInv, lost = 0, link, ses.sec, pc = "idle", down = <<>>
             PROVE  decrypt = ses.out /\ (~Squeezed => encrypt = ses.in)
  BY DEF InStep
<1>0. Shape /\ Messages /\ Phase /\ Stream /\ Counts /\ IsBytes(said) /\ IsBytes(heard)
  BY DEF IInv, Shape
<1>1. Len(heard) = Len(Wire)
  <2>1. PICK k \in Nat : OnAir(down, Wire, Len(heard), k)
    BY <1>0 DEF Stream
  <2> QED BY <2>1 DEF OnAir
<1>2. Len(Wire) = Len(said)
  <2> DEFINE p == Plains
             s == session
             sd == said
             w == Wire
  <2>1. p \in Nat /\ IsBytes(sd) /\ w = Sent(sd, p, s) /\ \A m \in 1 .. Len(sd) : IsBytes(sd[m]) /\ Len(sd[m]) > 0
    <3>1. Plains \in Nat /\ \A m \in 1 .. Len(said) : IsBytes(said[m]) /\ Len(said[m]) > 0
      BY <1>0, SaidAre
    <3> QED BY <3>1, <1>0 DEF Wire
  <2> HIDE DEF p, s, sd, w
  <2>2. Len(w) = Len(sd)
    BY ONLY <2>1, SentIs
  <2> QED BY <2>2 DEF w, sd
<1>3. Plains \in {1, 2} /\ Len(said) >= Plains /\ Plains = Len(said) - ses.out /\ ses.out \in Nat /\ Len(said) \in Nat
  BY <1>0 DEF Messages, Plains, Shape, IsBytes
<1>4. heard # <<>>
  BY <1>1, <1>2, <1>3, NoBytes
<1>5. ~Squeezed => encrypt = ses.in
  <2>1. DOMAIN nonces = 1 .. Len(nonces)
    BY <1>0, AsSeq DEF Shape
  <2>2. ~Squeezed => ~SqueezedIn
    BY <2>1 DEF Squeezed, SqueezedIn
  <2> QED BY <2>2, <1>0, <1>4 DEF Counts, Shape
<1>6. decrypt = Len(heard) - Plains
  BY <1>0, <1>1, <1>2, <1>3, <1>4 DEF Phase
<1> QED BY <1>1, <1>2, <1>3, <1>5, <1>6

\* No segment of a notification and no tag of a command runs past the end of b_buf,
\* whatever was in it.  As long as it was never used for two messages or commands at once,
\* no length falls below zero, the ESP32 parses what the SESAME said, in order, and the
\* SESAME obeys each command at most once, in order and as it was given: whatever link is
\* lost between whichever segments, and whichever write fails unnoticed.
THEOREM UnderstoodHolds == Spec => []Understood
BY Inductive, ImpliesUnderstood, PTL

\* talk_to_ssm encrypts two messages under the same token and count only when the host
\* task encrypts one of them between aes_ccm_encrypt_and_tag and encrypt.count++ of the
\* MQTT task: over links lost and made again, failed writes, and callbacks that send
\* commands at any other step of a command.
THEOREM NonceOnceHolds == Spec => []NonceOnce
BY Inductive, ImpliesNonceOnce, PTL

\* As long as no write was lost, the ESP32 and the SESAME count alike whenever the MQTT
\* task is idle and all notifications are handled, unless a count of this session was
\* squeezed: the next message will be understood.
THEOREM InStepHolds == Spec => []InStep
BY Inductive, ImpliesInStep, PTL

=============
