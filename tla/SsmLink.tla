------------------------------ MODULE SsmLink -------------------------------
(***************************************************************************)
(* The message layer between the ESP32 and one SESAME: messages cut into   *)
(* segments of one write or notification each, put together again in       *)
(* b_buf, encrypted and authenticated under a token of the session and a   *)
(* count that both sides keep (ssm.c, ssm_cmd.c).                          *)
(*                                                                         *)
(* b_buf, c_offset and the cipher's counts belong to both directions and   *)
(* both tasks.  A callback of the host task is one step, the commands that *)
(* it sends by itself included.  A command of the MQTT task fills the      *)
(* buffer, encrypts it, counts and writes it in steps.  The host task, of  *)
(* higher priority on the same core, may run between any two of them, and  *)
(* a command may come between two segments of a message; met records that  *)
(* two of them were in the buffer at once.  The SESAME is external.        *)
(*                                                                         *)
(* A byte is a pair <<kind, value>>.  Encryption is symbolic: a byte of a  *)
(* ciphertext is known by its token, count, place and whole plaintext.     *)
(***************************************************************************)
EXTENDS Naturals, Sequences, FiniteSets, SequencesExt

CONSTANTS
  Commands,         \* what the MQTT task may send: [head, rest], sequences of bytes
  Relock,           \* what ssm_lock sends by default, from the callback: LOCK and a tag
  AddSesame,        \* what tch_add_sesame sends, from another device's callback
  News,             \* messages of the SESAME that no command asked for
  SegSize,          \* bytes in a segment after its header: 19
  TagLen,           \* CCM_TAG_LENGTH: 4
  BufSize,          \* size of b_buf: 80
  KeySize,          \* bytes of a public key: 64
  Prefix,           \* bytes before the key in a registration's answer: 14 for a lock
  MaxCmd, MaxNews, MaxSessions, MaxLost   \* bounds: commands, news, links, writes lost

ASSUME LinkAssumption ==
  /\ {SegSize, TagLen, KeySize} \subseteq Nat \ {0} /\ {BufSize, Prefix} \subseteq Nat
  /\ {MaxCmd, MaxNews, MaxSessions, MaxLost} \subseteq Nat

SSM_DISCONNECTED == 1
SSM_CONNECTED == 4
SSM_LOGGIN == 5

Zero == <<"zero", 0>>
Op(x) == <<"op", x>>
Item(x) == <<"item", x>>
Fill(kind, n) == [i \in 1 .. n |-> <<kind, i>>]
Key == Fill("key", KeySize)
IsBytes(s) == Len(s) \in Nat /\ s = [i \in 1 .. Len(s) |-> s[i]]
Plain(c) == c.head \o c.rest

\* What send_read_history_cmd_to_ssm sends, and the first byte of a status that says the
\* lock is unlocked.
ReadHistory == <<Item("HISTORY"), <<"read", 1>>>>
Unlocked == <<"status", 0>>

\* The SESAME says its random code only when notifications are enabled, its key only in
\* the clear; a message has an op code and an item.
ASSUME BytesAssumption ==
  /\ \A c \in Commands : IsBytes(c.head) /\ IsBytes(c.rest)
  /\ IsBytes(Relock) /\ IsBytes(AddSesame) /\ Relock # <<>>
  /\ \A p \in News : IsBytes(p) /\ Len(p) >= 2 /\ p[2] \notin {Item("INITIAL"), Item("REGISTRATION")}

\* No length is ever compared with the size of b_buf.  What has to fit: a segment, the
\* answer to a registration, every command of either task with its tag, the tag of one
\* that takes the c_offset left by AddSesame for its length, a message of the SESAME, and
\* the segments after its first behind such a command (33 + 4 + 4 bytes at most, so that
\* a message may have 58).
Starts == {SegSize, Len(AddSesame) + TagLen, Len(Relock), 2} \cup {Len(Plain(c)) : c \in Commands}
Lengths == {2 + TagLen} \cup {Len(p) + TagLen : p \in News}
ASSUME RoomAssumption ==
  /\ 2 + Prefix + KeySize <= BufSize
  /\ \A n \in Starts : n + TagLen <= BufSize
  /\ \A l \in Lengths : l <= BufSize
  /\ \A n \in Starts, l \in Lengths : l > SegSize => n + TagLen + l - SegSize <= BufSize

VARIABLES
  device_status, b_buf, c_offset, device_secret, code, token, encrypt, decrypt,
                          \* fields of the slot; random code and the cipher's two counts
  pc, todo, loaded, data, remain,
                          \* the MQTT task: step, command, count read, talk_to_ssm's loop
  link, session, down,    \* the connection: its random code, segments not yet handled
  registered, ses,        \* the SESAME: has a secret, [sec, in, out, buf]
  asked, obeyed,          \* history: commands of both tasks, and obeyed as <<number, plaintext>>
  said, heard,            \* history: messages of the SESAME in this session, and as parsed
  nonces,                 \* history: [nonce, squeezed] of every encryption of the ESP32
  overrun, wild,          \* history: bytes did not fit b_buf; a length fell below zero
  met,                    \* history: two messages or commands were in b_buf at once
  news, lost

cipher == <<code, token, encrypt, decrypt>>
slot == <<device_status, b_buf, c_offset, device_secret, cipher>>
mqtt == <<pc, todo, loaded, data, remain>>
conn == <<link, session, down>>
hist == <<asked, obeyed, said, heard, nonces, overrun, wild, met>>
vars == <<slot, mqtt, conn, registered, ses, hist, news, lost>>

NoSes == [sec |-> FALSE, in |-> 0, out |-> 0, buf |-> <<>>]

Init ==
  /\ device_status = SSM_DISCONNECTED
  /\ b_buf = [i \in 1 .. BufSize |-> Zero] /\ c_offset = 0
  /\ device_secret = <<>> /\ code = 0 /\ token = <<>> /\ encrypt = 0 /\ decrypt = 0
  /\ pc = "idle" /\ todo = 0 /\ loaded = 0 /\ data = 0 /\ remain = 0
  /\ link = FALSE /\ session = 0 /\ down = <<>>
  /\ registered = FALSE /\ ses = NoSes
  /\ asked = <<>> /\ obeyed = <<>> /\ said = <<>> /\ heard = <<>> /\ nonces = <<>>
  /\ overrun = FALSE /\ wild = FALSE /\ met = FALSE /\ news = 0 /\ lost = 0

-----------------------------------------------------------------------------
(* Bytes, segments and the cipher.                                         *)

\* memcpy(&buf[off], bytes): what fits.
Put(buf, off, bytes) ==
  [i \in 1 .. BufSize |-> IF off < i /\ i <= off + Len(bytes) THEN bytes[i - off] ELSE buf[i]]

\* n bytes of the buffer from offset off.
Bytes(buf, off, n) == SubSeq(buf, off + 1, off + n)

\* SSM_SEG_PARSING_TYPE_APPEND_ONLY, PLAINTEXT, CIPHERTEXT
Types == {"append", "plain", "cipher"}

\* One turn of the loop of talk_to_ssm: the segment at offset at.
Segment(bytes, at, type) ==
  LET n == Len(bytes) - at
  IN  [first |-> at = 0,
       type |-> IF n <= SegSize THEN type ELSE "append",
       bytes |-> SubSeq(bytes, at + 1, at + (IF n <= SegSize THEN n ELSE SegSize))]

\* All segments of a message, as the loop makes them.
Segments(bytes, type) ==
  [k \in 1 .. (Len(bytes) + SegSize - 1) \div SegSize |-> Segment(bytes, (k - 1) * SegSize, type)]

\* aes_ccm_encrypt_and_tag
Encrypt(t, n, bytes) ==
  [i \in 1 .. Len(bytes) + TagLen |-> <<"cipher", [token |-> t, count |-> n, at |-> i, of |-> bytes]>>]

\* aes_ccm_auth_decrypt: the plaintext, or zeroes when the tag does not fit.
Decrypt(t, n, bytes) ==
  IF /\ bytes # <<>> /\ bytes[1][1] = "cipher"
     /\ bytes = Encrypt(t, n, bytes[1][2].of)
  THEN bytes[1][2].of
  ELSE [i \in 1 .. Len(bytes) - TagLen |-> Zero]

\* AES_CMAC of the random code under the device secret.
Token(s) == <<"token", s>>

\* The host task preempts the MQTT task.
HostRuns == pc # "panic"

\* An encryption under the current count.  squeezed: the MQTT task has
\* encrypted its command and has not stored the next count.
Uses(squeezed) == nonces' = Append(nonces, [nonce |-> <<token, encrypt>>, squeezed |-> squeezed])

-----------------------------------------------------------------------------
(* The SESAME (external): registers, logs in and obeys.                    *)

\* It sends a message, encrypted once a session is logged in, behind the queue q.
Say(q, s, bytes, secure) ==
  /\ down' = q \o (IF secure THEN Segments(Encrypt(Token(session), s.out, bytes), "cipher")
                      ELSE Segments(bytes, "plain"))
  /\ said' = Append(said, bytes)
  /\ ses' = [s EXCEPT !.out = IF secure THEN @ + 1 ELSE @]

\* A complete message reaches it; number is that of the command, if it is one.
SesameHears(q, type, bytes, number) ==
  LET plain == IF type = "cipher" THEN Decrypt(Token(session), ses.in, bytes) ELSE bytes
      s == [ses EXCEPT !.in = IF type = "cipher" THEN @ + 1 ELSE @, !.buf = <<>>]
      item == IF plain = <<>> THEN Zero ELSE plain[1]
  IN  CASE type = "plain" /\ item = Item("REGISTRATION") /\ ~registered ->
             /\ registered' = TRUE
             /\ Say(q, s, <<Op("RESPONSE"), Item("REGISTRATION")>> \o Fill("mech", Prefix) \o Key, FALSE)
             /\ UNCHANGED obeyed
        [] type = "plain" /\ item = Item("LOGIN") /\ registered /\ Len(plain) = 2 /\ plain[2] = <<"mac", Token(session)>> ->
             /\ Say(q, [s EXCEPT !.sec = TRUE], <<Op("RESPONSE"), Item("LOGIN")>>, TRUE)
             /\ UNCHANGED <<obeyed, registered>>
        [] type = "cipher" /\ s.sec /\ item \notin {Zero, Item("INITIAL"), Item("REGISTRATION")} ->
             /\ obeyed' = Append(obeyed, <<number, plain>>)
             /\ Say(q, s, <<Op("RESPONSE"), item>>, TRUE) /\ UNCHANGED registered
        [] OTHER -> ses' = s /\ down' = q /\ UNCHANGED <<said, obeyed, registered>>

\* A segment reaches it.
SesameGets(seg) ==
  LET whole == (IF seg.first THEN <<>> ELSE ses.buf) \o seg.bytes
  IN  IF seg.type = "append"
      THEN ses' = [ses EXCEPT !.buf = whole] /\ UNCHANGED <<down, said, obeyed, registered>>
      ELSE SesameHears(down, seg.type, whole, Len(asked))

\* It says something that no command asked for.
Publish(p) ==
  /\ link /\ ses.sec /\ news < MaxNews
  /\ HostRuns
  /\ news' = news + 1
  /\ Say(down, ses, p, TRUE)
  /\ UNCHANGED <<slot, mqtt, link, session, registered, asked, obeyed, heard, nonces, overrun, wild, met, lost>>

-----------------------------------------------------------------------------
(* The host task: links and notifications.                                 *)

\* A link, on which the SESAME says its random code; the MQTT task has had the
\* 600 ms before the reconnection to itself.
Connect ==
  /\ ~link /\ session < MaxSessions /\ pc = "idle"
  /\ link' = TRUE /\ session' = session + 1
  /\ device_status' = SSM_CONNECTED /\ ses' = NoSes
  /\ LET initial == <<Op("PUBLISH"), Item("INITIAL"), <<"code", session'>>>>
     IN  down' = Segments(initial, "plain") /\ said' = <<initial>>
  /\ heard' = <<>>
  /\ UNCHANGED <<b_buf, c_offset, device_secret, cipher, mqtt, registered,
                 asked, obeyed, nonces, overrun, wild, met, news, lost>>

Disconnect ==
  /\ link /\ HostRuns /\ session < MaxSessions
  /\ link' = FALSE /\ device_status' = SSM_DISCONNECTED
  /\ ses' = NoSes /\ down' = <<>>
  /\ UNCHANGED <<b_buf, c_offset, device_secret, cipher, mqtt, session, registered, hist, news, lost>>

\* talk_to_ssm in a callback, PLAINTEXT: every segment goes, or the message is lost.
HostTalks(bytes) ==
  /\ b_buf' = Put(b_buf, 0, bytes)
  /\ \/ /\ lost < MaxLost /\ lost' = lost + 1
        /\ down' = Tail(down) /\ UNCHANGED <<said, ses, obeyed, registered>>
     \/ /\ UNCHANGED lost
        /\ SesameHears(Tail(down), "plain", bytes, 0)

\* The same, CIPHERTEXT, with the queue q and the buffer buf.
HostOrders(q, buf, bytes) ==
  /\ b_buf' = Put(buf, 0, Encrypt(token, encrypt, bytes))
  /\ Uses(pc \in {"count", "store"}) /\ encrypt' = encrypt + 1
  /\ asked' = Append(asked, bytes)
  /\ \/ /\ lost < MaxLost /\ lost' = lost + 1
        /\ down' = q /\ UNCHANGED <<said, ses, obeyed, registered>>
     \/ /\ UNCHANGED lost
        /\ SesameHears(q, "cipher", Encrypt(token, encrypt, bytes), Len(asked) + 1)

\* Mutant: login under the token of the session before.
LoginAsBefore(secret, rc) ==
  /\ token' = IF token = <<>> THEN Token(rc) ELSE token
  /\ HostTalks(<<Item("LOGIN"), <<"mac", token'>>>>)

\* send_login_cmd_to_ssm: the token is the MAC of the random code under the secret.
SendLogin(secret, rc) ==
  /\ token' = IF secret = Key THEN Token(rc) ELSE <<"token", 0>>
  /\ HostTalks(<<Item("LOGIN"), <<"mac", token'>>>>)

\* send_reg_cmd_to_ssm
SendReg == HostTalks(<<Item("REGISTRATION")>> \o Key) /\ UNCHANGED token

\* Mutant: the counts of the cipher go on from the session before.
KeepCounts(rc) ==
  /\ code' = rc /\ UNCHANGED <<encrypt, decrypt>>
  /\ IF device_secret = <<>> THEN SendReg ELSE SendLogin(device_secret, rc)
  /\ UNCHANGED <<device_status, device_secret>>

\* ssm_initial_handle
Initial(rc) ==
  /\ code' = rc /\ encrypt' = 0 /\ decrypt' = 0
  /\ IF device_secret = <<>> THEN SendReg ELSE SendLogin(device_secret, rc)
  /\ UNCHANGED <<device_status, device_secret>>

\* handle_reg_data_from_ssm: the secret comes from the key received.
HandleReg(payload, count) ==
  /\ device_secret' = SubSeq(payload, Prefix + 1, Len(payload)) /\ device_status' = SSM_LOGGIN /\ decrypt' = count
  /\ SendLogin(device_secret', code) /\ UNCHANGED <<code, encrypt>>

\* What a callback sends by itself: ssm_action_handle locks what was unlocked, the next
\* part of the history is asked for.
Reply(op, it, payload) ==
  IF payload # <<>> /\ op = Op("PUBLISH") /\ it = Item("MECH_STATUS") /\ payload[1] = Unlocked THEN Relock
  ELSE IF payload # <<>> /\ op = Op("RESPONSE") /\ it = Item("HISTORY") THEN ReadHistory
  ELSE <<>>

\* ssm_parse_publish, ssm_parse_response: MECH_STATUS and LOGIN leave the slot logged in.
\* plain is the message, body the buffer it is in, count the count of decryptions.
Parse(plain, body, count) ==
  LET op == plain[1]
      it == plain[2]
      payload == SubSeq(plain, 3, Len(plain))
      moved == Put(body, 0, payload)
      reply == Reply(op, it, payload)
  IN  CASE op = Op("PUBLISH") /\ it = Item("INITIAL") ->
             Initial(moved[1][2]) /\ UNCHANGED <<asked, nonces>>
        [] op = Op("RESPONSE") /\ it = Item("REGISTRATION") ->
             HandleReg(payload, count) /\ UNCHANGED <<asked, nonces>>
        [] OTHER ->
             /\ device_status' = IF \/ op = Op("PUBLISH") /\ it = Item("MECH_STATUS")
                                    \/ op = Op("RESPONSE") /\ it = Item("LOGIN")
                                 THEN SSM_LOGGIN ELSE device_status
             /\ decrypt' = count
             /\ IF reply # <<>> THEN HostOrders(Tail(down), moved, reply)
                ELSE /\ b_buf' = moved /\ down' = Tail(down)
                     /\ UNCHANGED <<encrypt, said, ses, asked, obeyed, nonces, registered, lost>>
             /\ UNCHANGED <<device_secret, code, token>>

\* The lengths are uint16_t and subtracted from unchecked: the tag, the op code and the
\* item, and one byte more of a registration.
Wraps(secure, received, plain) ==
  \/ Len(received) < IF secure THEN TagLen + 2 ELSE 2
  \/ Len(plain) = 2 /\ plain = <<Op("RESPONSE"), Item("REGISTRATION")>>

\* Mutant: a first segment does not start the buffer again.
OffsetKept(seg) == c_offset

\* ssm_ble_receiver: where a segment goes.
OffsetOf(seg) == IF seg.first THEN 0 ELSE c_offset

\* ssm_ble_receiver.  With a length that wrapped, memcpy moves the memory behind b_buf:
\* nothing is said of what comes after it.
Receive ==
  /\ link /\ down # <<>> /\ HostRuns
  /\ LET seg == Head(down)
         offset == OffsetOf(seg)
         end == offset + Len(seg.bytes)
         whole == Put(b_buf, offset, seg.bytes)
         secure == seg.type = "cipher"
         received == Bytes(whole, 0, Min({end, BufSize}))
         plain == IF secure THEN Decrypt(token, decrypt, received) ELSE received
         count == IF secure THEN decrypt + 1 ELSE decrypt
     IN  /\ overrun' = (overrun \/ end > BufSize)
         /\ met' = (met \/ pc # "idle")
         /\ CASE seg.type = "append" ->
                   /\ b_buf' = whole /\ c_offset' = end /\ down' = Tail(down)
                   /\ UNCHANGED <<device_status, device_secret, cipher, pc, said, heard, ses,
                                  asked, obeyed, nonces, registered, wild, lost>>
              [] seg.type # "append" /\ Wraps(secure, received, plain) ->
                   /\ wild' = TRUE /\ pc' = "panic"
                   /\ UNCHANGED <<slot, down, said, heard, ses, asked, obeyed, nonces, registered, lost>>
              [] OTHER ->
                   /\ heard' = Append(heard, plain) /\ c_offset' = 0
                   /\ Parse(plain, Put(whole, 0, plain), count)
                   /\ UNCHANGED <<pc, wild>>
  /\ UNCHANGED <<todo, loaded, data, remain, link, session, news>>

\* sesame_update, in a callback of the lock that this device is to open: tch_add_sesame.
Pair ==
  /\ link /\ HostRuns /\ device_status >= SSM_LOGGIN /\ Len(asked) < MaxCmd
  /\ met' = (met \/ pc # "idle" \/ (down # <<>> /\ ~Head(down).first))
  /\ c_offset' = Len(AddSesame) + TagLen
  /\ HostOrders(down, b_buf, AddSesame)
  /\ UNCHANGED <<device_status, device_secret, code, token, decrypt, mqtt, link, session, heard,
                 overrun, wild, news>>

-----------------------------------------------------------------------------
(* The MQTT task: one command, through talk_to_ssm, CIPHERTEXT.            *)

\* What the steps of the MQTT task leave alone.
OthersKept == UNCHANGED <<device_status, device_secret, code, token, decrypt, link, session,
                          heard, wild, news>>
SesameKept == UNCHANGED <<down, said, ses, obeyed, registered, lost>>

\* ssm_lock and the others: device_status, b_buf[0] and b_buf[1]
Command(c) ==
  /\ pc = "idle" /\ device_status >= SSM_LOGGIN /\ Len(asked) < MaxCmd
  /\ met' = (met \/ (down # <<>> /\ ~Head(down).first))
  /\ todo' = c /\ asked' = Append(asked, Plain(c)) /\ pc' = "offset"
  /\ b_buf' = Put(b_buf, 0, c.head)
  /\ UNCHANGED <<c_offset, encrypt, loaded, data, remain, nonces, overrun>> /\ OthersKept /\ SesameKept

Offset ==
  /\ pc = "offset" /\ pc' = "rest"
  /\ c_offset' = Len(Plain(todo))
  /\ UNCHANGED <<b_buf, encrypt, todo, loaded, data, remain, asked, nonces, overrun, met>> /\ OthersKept /\ SesameKept

\* Mutant: the parameters stay what the buffer held.
RestForgotten ==
  /\ pc = "rest" /\ pc' = "encrypt"
  /\ UNCHANGED <<b_buf, c_offset, encrypt, todo, loaded, data, remain, asked, nonces, overrun, met>> /\ OthersKept /\ SesameKept

Rest ==
  /\ pc = "rest" /\ pc' = "encrypt"
  /\ b_buf' = Put(b_buf, Len(todo.head), todo.rest)
  /\ UNCHANGED <<c_offset, encrypt, todo, loaded, data, remain, asked, nonces, overrun, met>> /\ OthersKept /\ SesameKept

EncryptCommand ==
  /\ pc = "encrypt" /\ pc' = "count"
  /\ b_buf' = Put(b_buf, 0, Encrypt(token, encrypt, Bytes(b_buf, 0, c_offset)))
  /\ overrun' = (overrun \/ c_offset + TagLen > BufSize)
  /\ Uses(FALSE)
  /\ UNCHANGED <<c_offset, encrypt, todo, loaded, data, remain, asked, met>> /\ OthersKept /\ SesameKept

\* encrypt.count++ is a load and a store: the load
LoadCount ==
  /\ pc = "count" /\ pc' = "store"
  /\ loaded' = encrypt
  /\ UNCHANGED <<b_buf, c_offset, encrypt, todo, data, remain, asked, nonces, overrun, met>> /\ OthersKept /\ SesameKept

\* Mutant: encrypt.count++ only after all has been written without error.
CountLater ==
  /\ pc = "store" /\ pc' = "write"
  /\ c_offset' = c_offset + TagLen /\ data' = 0 /\ remain' = c_offset'
  /\ encrypt' = IF lost > 0 THEN loaded ELSE loaded + 1
  /\ UNCHANGED <<b_buf, todo, loaded, asked, nonces, overrun, met>> /\ OthersKept /\ SesameKept

\* The store, and the start of the loop
Count ==
  /\ pc = "store" /\ pc' = "write"
  /\ encrypt' = loaded + 1
  /\ c_offset' = c_offset + TagLen /\ data' = 0 /\ remain' = c_offset'
  /\ UNCHANGED <<b_buf, todo, loaded, asked, nonces, overrun, met>> /\ OthersKept /\ SesameKept

\* One turn of the loop: esp_ble_gatt_write may fail, which nobody notices, and
\* dereferences the peer of a link that is gone.
Write ==
  /\ pc = "write" /\ link
  /\ LET n == Min({remain, SegSize})
     IN  /\ data' = data + n /\ remain' = remain - n
         /\ pc' = IF n = remain THEN "idle" ELSE "write"
         /\ \/ lost < MaxLost /\ lost' = lost + 1 /\ UNCHANGED <<down, said, ses, obeyed, registered>>
            \/ SesameGets(Segment(Bytes(b_buf, 0, data + remain), data, "cipher")) /\ UNCHANGED lost
  /\ UNCHANGED <<b_buf, c_offset, encrypt, todo, loaded, asked, nonces, overrun, met>> /\ OthersKept

WriteNowhere ==
  /\ pc = "write" /\ ~link /\ pc' = "panic"
  /\ UNCHANGED <<b_buf, c_offset, encrypt, todo, loaded, data, remain, asked, nonces, overrun, met>> /\ OthersKept /\ SesameKept

MqttStep == Offset \/ Rest \/ EncryptCommand \/ LoadCount \/ Count \/ Write \/ WriteNowhere

Next ==
  \/ Connect \/ Disconnect \/ Receive \/ Pair
  \/ \E p \in News : Publish(p)
  \/ \E c \in Commands : Command(c)
  \/ MqttStep

Spec == Init /\ [][Next]_vars

\* Both tasks run: the host task takes what has arrived (a publication is added to down a
\* bounded number of times), the MQTT task goes on with its command.
FairSpec ==
  /\ Spec
  /\ []<>(~link \/ down = <<>> \/ pc = "panic") \/ []<><<down' # down>>_vars
  /\ []<>(pc \in {"idle", "panic"}) \/ []<><<<<pc, data>>' # <<pc, data>>>>_vars

-----------------------------------------------------------------------------
(* Properties.                                                             *)

TypeOK ==
  /\ device_status \in {SSM_DISCONNECTED, SSM_CONNECTED, SSM_LOGGIN}
  /\ c_offset \in Nat /\ Len(b_buf) = BufSize
  /\ pc \in {"idle", "offset", "rest", "encrypt", "count", "store", "write", "panic"}
  /\ {encrypt, decrypt, loaded, data, remain} \subseteq Nat
  /\ link \in BOOLEAN /\ session \in 0 .. MaxSessions /\ code \in 0 .. MaxSessions
  /\ \A i \in DOMAIN down : down[i].type \in Types

\* No two messages of the ESP32 are encrypted under the same token and count, over
\* reconnections, failed writes and the commands of both tasks: CCM gives both messages
\* away when a nonce is used twice.  The one way to it: the host task encrypts between
\* aes_ccm_encrypt_and_tag and encrypt.count++ of the MQTT task (squeezed), which nothing
\* prevents.
NonceOnce ==
  \A i, j \in DOMAIN nonces :
    i # j /\ nonces[i].nonce = nonces[j].nonce => nonces[i].squeezed \/ nonces[j].squeezed

\* No segment and no tag runs past the end of b_buf, which a registration's answer fills.
\* While the buffer was never used for two messages at once (met), no length falls below
\* zero and both directions are understood: the ESP32 takes from its notifications what
\* the SESAME said, message by message, in order, whatever its length and wherever the
\* link was lost, and the SESAME obeys each command of either task at most once, in order,
\* and as it was given.  (Not so if met: a notification handled between b_buf[1] = and
\* talk_to_ssm makes the SESAME decrypt the rest of the notification, and the c_offset of
\* a command of one byte between two segments leaves less than a tag.)
Understood ==
  /\ TypeOK /\ ~overrun /\ c_offset <= BufSize
  /\ ~met =>
       /\ ~wild
       /\ IsPrefix(heard, said)
       /\ \A i \in DOMAIN obeyed : obeyed[i][2] = asked[obeyed[i][1]]
       /\ \A i, j \in DOMAIN obeyed : i < j => obeyed[i][1] < obeyed[j][1]

\* When no write was lost both sides count alike between two commands: the next one
\* will be understood, unless a count of this session was squeezed.
Squeezed == \E i \in DOMAIN nonces : nonces[i].squeezed /\ nonces[i].nonce[1] = token
InStep ==
  lost = 0 /\ link /\ ses.sec /\ pc = "idle" /\ down = <<>> =>
    decrypt = ses.out /\ (~Squeezed => encrypt = ses.in)

\* A link between sides that agree whether there is a secret leads to a login, unless
\* it is lost or a write is.  (They disagree when the link was lost with the answer
\* to the registration on it.)
LogsIn ==
  (link /\ lost = 0 /\ (registered => device_secret # <<>>)) ~>
    (device_status = SSM_LOGGIN \/ ~link \/ lost > 0)
=============================================================================
