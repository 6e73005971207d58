# Verification of libsesame2mqtt

libsesame2mqtt is the library of an ESP32 firmware that puts CANDY HOUSE
SESAME devices (locks, a bike lock, touch pads) behind Home Assistant: it
finds them over Bluetooth LE, registers them or logs in, and translates between
their encrypted messages and MQTT topics. This directory holds TLA+ models of
it, the TLC runs that check them, and proofs checked by TLAPS. Every line number
refers to the sources under `src/`.

Run a model with `tlc -config MCSsmTable_table.cfg MCSsmTable.tla`, a proof with
`tlapm SsmTable_proofs.tla`. `PROJECT.json` lists the runs, what each definition
models, the mutants that show that each property can fail, the hazards and
the findings.

## 1. The system

| Component | State | Operations | Talks to |
|---|---|---|---|
| Slot table (`ssm.c`, `ssm_cmd.c`) | `p_ssms_env[SSM_MAX_NUM]`, `cnt_ssms`, `cnt_unregistered_ssms`, `ecc_private_esp32`; the NVS namespace of each MAC address | `ssm_init`, `ssm_read_nvs`, `ssm_save_nvs`, counting in `send_login_cmd_to_ssm` | everything below reads and writes the slots |
| BLE host task (`blecent.c`) | GAP procedures of NimBLE (scan, one connection attempt, up to three links), in the slot `device_status`, `conn_id`, `disconnect_forever` | `ssm_scan_connect`, `ble_gap_connect_event` (connect, disconnect, notification), `sesame_update` | callbacks of NimBLE; publishes |
| GATT discovery (`peer.c`) | four block pools, per peer a tree of services, characteristics, descriptors and a cursor | `peer_add`, `peer_disc_all` and its three callbacks, `peer_delete`, lookups | called from `blecent.c`, reports to `service_disc_complete` |
| Message layer (`ssm.c`, `ssm_cmd.c`) | `b_buf[80]`, `c_offset`, `cipher` (token, two counts, random code) | `ssm_ble_receiver`, `talk_to_ssm`, `ssm_parse_publish`, `ssm_parse_response`, registration and login | both tasks use the one buffer |
| Ciphers (`aes-cbc-cmac.c`, `c_ccm.c`, `TI_aes_128.c`) | local | `AES_CMAC`, `aes_ccm_encrypt_and_tag`, `aes_ccm_auth_decrypt`, `AES_128_ENC` | message layer |
| Keys (`uECC.c`, `curve-specific.inc`) | local | `uECC_make_key_lit`, `uECC_shared_secret_lit` | registration |
| MQTT (`mqtt_section.c`) | `mqtt_init_done`, `msg_id_subscribed`, per slot `mqtt_discovery_done`, `mqtt_subscribe_done`, `is_new` | `mqtt_start`, `mqtt_discovery`, `mqtt_subscribe`, `wait_published` in the host task; `mqtt_event_handler`, `wake_up` in the MQTT task | broker, Home Assistant |
| Signal strength (`blecent.c`) | per slot `rssi`, `is_alive`, `rssi_changed`; `tv_1min` | each advertisement, the check once a minute | publishes |
| Lock positions (`mqtt_section.c`, `ssm_cmd.c`) | per slot `mech` | `set_lock_position`, `set_unlock_position`, `ssm_mech` | commands retained at the broker |
| QR code, battery (`ssm.c`) | `battery_percentage` | `gen_qr_code_txt`, table in `ssm_parse_publish` | published |
| Wi-Fi (`wifi_section.c`) | retry count, event group | `wifi_init_sta`, `wifi_event_handler` | nothing under `src/` calls it |

Two tasks matter. The NimBLE **host task** runs every BLE callback to completion,
one after the other. The **MQTT task** runs `mqtt_event_handler`. There is one core
(`CONFIG_FREERTOS_UNICORE`) and the host task has the higher priority: it may
run between any two statements of the MQTT task, and the MQTT task runs when the
host task waits or sleeps inside a callback. No slot, buffer or flag is locked.
`main.c` is a demo; a firmware that uses the library calls `mqtt_start` before
`esp_ble_init`, which the models assume.

What is hard here: many devices connect through the one slot `cnt_ssms`; links are
lost at any step, and power too; a sleeping touch is woken by tearing its link
down and hoping for the reconnection; the buffer and the flags are shared
without a lock; lists and pools of `peer.c` must stay whole when discoveries end
early; commands and entities must survive restarts of both sides of MQTT.
`PROJECT.json` lists each such hazard at its line.

What makes each component correct:

- Slot table: an index of distinct, controllable devices whose positions are
  stable until a reboot; NVS holds for an address the secret of that device.
- Host task: the scan always resumes; each device in range is found; a lock
  that was lost comes back.
- Touch commands: a wake-up succeeds only on fresh news and ends in time; the touch
  sleeps again afterwards; flags describe the link.
- GATT discovery: no block lost, one report per discovery, complete when
  successful, the link of a failed one closed.
- Message layer: both sides understand each other; no nonce twice; in bounds.
- Ciphers, keys, QR code: they compute their definition; gateway and SESAME get one
  secret.
- Wi-Fi: the station comes back when the access point does.
- Lock positions: the lock has what Home Assistant set last, whatever was away.
- MQTT: announced is announced, announced is heard, old commands are not obeyed,
  nothing waits for ever.

## 2. Modules

| Module | Models | Checked by | Proved in |
|---|---|---|---|
| `Registry` | the promise of the slot table: an append-only list of distinct devices | `table` (`RegistrySpec`) | – |
| `SsmTable` | slot table and host task, any number of devices | `table`, `table_one` | `SsmTable_proofs` |
| `TouchCmd` | commands to one touch, both tasks statement by statement | `touch_prompt`, `touch_rough` | `TouchCmd_proofs` |
| `PeerDisc` | `peer.c`, several links, shared pools | `peer`, `peer_include` | `PeerDisc_proofs` |
| `SsmLink` | segments, buffer, sessions and counts of one device | `link` | `SsmLink_proofs` |
| `Mqtt` | client, discovery, subscription, broker | `mqtt_calm`, `mqtt_faults`, `mqtt_forget` | `Mqtt_proofs` |
| `Rssi` | signal strength and what is shown of it | `parts` | `Parts_proofs` |
| `Wifi` | the station's events, retries and restart | `parts` | – |
| `LockSettings` | the positions in RAM, at the broker and in the lock | `parts` | `Parts_proofs` |
| `Cmac`, `Ccm` | the two modes over an arbitrary block cipher | `algorithms` | `Algorithms_proofs` |
| `Aes` | the block cipher, both directions | `algorithms` | `Algorithms_proofs` |
| `QrCode` | the text of the QR code | `algorithms` | `Algorithms_proofs` |
| `Bytes` | bytes, their bits and the exclusive or, for those four | `algorithms` | `Algorithms_proofs` |
| `Algorithms` | those four side by side, for any ciphers and inputs | `algorithms` | `Algorithms_proofs` |
| `Vli` | arithmetic on sequences of words of any size | `algorithms` | `Vli_proofs` |
| `Ecdh` | keys and shared secrets on a curve of any size | `algorithms` | – |

`MC*` modules only define constants for TLC; `Algorithms` puts the
ciphers and the QR code side by side, `MCAlgorithms` the curve beside them, and `MCParts`
three small parts that share no state: one of them runs, the variables of the others rest. Definitions commented "Mutant" are
never used by a specification; they are the wrong versions of the definition
after them with which each property was seen to fail.

### SsmTable

One action is one callback of the host task, with all that it calls. A slot is an
index `0 .. SSM_MAX_NUM`, where the last lies behind the array: the model stops
after the first write there. Slot fields are functions over slots, named as in
`sesame` in `ssm.h`. A connection handle is named by the device at its other end.
`SSM_LOCKED` stands for the three statuses that a mech status sets. A secret is
the device that it was agreed with and the number of the ESP32's key pair, so that
a wrong secret is seen to be wrong; `WeakKey` are the key pairs whose secret starts
with a zero byte, which the code takes for "no secret" (ssm.c:290).

| Action | Code |
|---|---|
| `SeenAgain`, `NewUnsupported`, `NewUnregistered`, `NewRegistered` | `ssm_scan_connect` |
| `Connected`, `ConnectFailed`, `PeerRefused`, `DiscoveryRefused` | `ble_gap_event_connect_handle`: success, a status other than 0, a refused `peer_add`, a `peer_disc_all` that cannot start |
| `NotifyEnabled`, `DiscoveryFailed` | `service_disc_complete`, `ssm_enable_notify` |
| `InitialRegister`, `InitialLogin` | `ssm_initial_handle` |
| `RegistrationDone` | `handle_reg_data_from_ssm` with `ssm_save_nvs` and the login |
| `LoginDone`, `MechStatus`, `Garbled` | the other messages, `sesame_update`, `mqtt_subscribe`'s dismissals |
| `WriteWithoutPeer` | the NULL dereference of `esp_ble_gatt_write`: panic and reboot |
| `Disconnected`, `DeviceReset` | `BLE_GAP_EVENT_DISCONNECT`, reason 531 included |
| `PowerCut` | reboot at any moment; NVS survives |

`ssm_save_nvs` may fail at each of its writes: the namespace then holds the device
without a secret, or with the previous one, and nothing tells the caller. The commands that
callbacks send by themselves change no slot and are in `SsmLink`. A link has a progress:
`phase` is "refused" when `peer_add` failed, which resumes the scan and leaves the link
without a peer, and "idle" when `peer_disc_all` did, which resumes nothing and leaves it
without a discovery. Neither is terminated by the gateway.

The properties have to name the code's own dead ends, and name nothing else:

| Dead end | What it is | Excepted by |
|---|---|---|
| `Undiscovered`, `LeftIdle` | the link is up, and its discovery was not started, or it has no peer (`LeftIdle` has both); ends with the link | `NeverDeaf`, `ScanResumes` (`Undiscovered`); `NewDeviceIsFound`, `LockComesBack` (`LeftIdle`) |
| `Orphaned` | another link through the same slot has ended and left it marked as disconnected | `NeverDeaf` |
| `GivenUp` | the reconnection was refused or timed out, and the scan skips the device | `LockComesBack` |
| `NoSecret` | its secret looks empty | `LockComesBack` |
| `ResetUnnoticed` | it was reset while nobody looked | `NewDeviceIsFound` |
| `AnswerLost` | it was registered, and nobody has the secret | `NewDeviceIsFound` |

An idle link is not enough for `NeverDeaf`: a link on which nothing is due (`Due`), neither
a discovery nor a notification nor an end, resumes nothing, and the device may
never speak.

### TouchCmd

The MQTT task is a program counter over the statements that touch shared state
(`Clear`, `Branch`, `Cancel`, `Connect`, `Terminate`, the polls, `Check`, `Write`,
`Test`, `Flag`, `Dismiss`); the host task's callbacks are whole actions that come
between any two of them, and `host` says when one of them sleeps inside its
callback (600 ms before a reconnection, or a publication). `Slow` lets a wake-up
take longer than its 10 s, `Hurried` lets a command come before the link that the
last one dismissed has ended. `add_finger` and `add_card` are two flags, and `finger_mode` and
`card_mode` are the mode bytes that the touch took last, as the commands send them: 1 to
add, 2 for a finger to verify, 0 for a card (`ModeByte`); `ReadsAdd` is how
`ssm_parse_response` reads such a byte. `DiscoveryRefused` is a connection whose discovery
cannot be started: no notification ever comes on it.

### PeerDisc

A callback is a function from the state of a peer to the set of its outcomes
(`DiscChrs`, `SvcAdd`, ...), because starting a request may fail; `Return` puts
an outcome in place. Lists are sequences; `LinkAfter` is the insertion of
peer.c:160 and 350, which drops what follows, `InsertAfter` the right one of
the services. `Find` by value handle with a definition handle (peer.c:332) is
kept as it is. Databases are any well-formed set of services, characteristics and
descriptors (`WellFormed`), in which a service with SESAME's notifications has its write
characteristic too (`Sesame`); the remote's answers are external. The blocks of a peer
are the places in its lists (`SvcBlocks`, `ChrBlocks`, `DscBlocks`): a block that drops out of a
list has no place, and nothing gives it back. `turn` in a request tells it from
an equal one before it, so that fairness can say that requests are answered.

### SsmLink

A byte is a pair of kind and value, encryption is symbolic: a byte of a ciphertext
carries the token, the count and the plaintext it came from, so a receiver gets
the plaintext only under the same token and count. A command of the MQTT task is seven
steps, of which `encrypt.count++` is two (`LoadCount`, `Count`), and callbacks may come between any two
of them, as a command may between two segments of a message. The host task has the
higher priority on the one core: a callback is one step, and only its waits let
the MQTT task run. An encryption is one step also in the MQTT task; a callback in the
middle of it would use the same count, which is what a callback right after it does.

The host task encrypts too, in its callbacks: `ssm_lock`, which `main.c` answers to an unlocked
lock (`Relock`), the next part of a history (`ReadHistory`), both through `Reply`, and
`tch_add_sesame` from `sesame_update` in the callback of another device (`Pair`). Of the
three, the last leaves `c_offset` behind. A write that is lost loses the whole message when it is the
host task's.

The lengths are those of the code: `Wraps` is a subtraction below zero from a `uint16_t`. What
`memcpy` does to the memory then is not modelled: `wild` records it, and the model stops. The history
variable `met` says that two messages or commands have been in `b_buf` at once; from then on only
the bounds, `NonceOnce` and `InStep` are promised. `squeezed` marks an encryption of the
host task between the encryption and the count of the MQTT task. No
length is compared with the size of `b_buf` in the code, so what has to fit is an
assumption (`RoomAssumption`), which includes a message behind what a command left in `c_offset`.

### Mqtt

The host task is a program counter over `mqtt_discovery`, `wait_published` and
`mqtt_subscribe`, with the 16 entities of a lock and a touch in their order.
The client's outbox, the broker's session, subscriptions, retained messages and
the queue it keeps for the ESP32 are external and modelled as MQTT 3.1.1 has
them: QoS 2 survives a lost connection, QoS 0 does not.
Message ids are random (`CONFIG_MQTT_MSG_ID_INCREMENTAL` is off), so a fresh id
may equal the one acknowledged last: `published` starts with either value. The
outbox's expiry after 30 s is not modelled, nor the texts of the messages.

### Wifi, LockSettings

`Wifi` has the event handler's three branches, the main task that waits for a bit,
and the driver as four states. The access point may come and go at any time.
`LockSettings` has the copy of the settings in RAM, the two retained commands, and
what is on its way to the lock; the assignment of a command and the sending are two
steps, and the host task may act in between. `missed` is a history variable: the lock
has received nothing since a command that could not be sent or was lost.

### Aes, Vli, Ecdh

`Aes` takes the tables from the code and compares them with the field they come from;
the cipher of the standard runs beside the program's (`expanded`, `fips`), since the
round keys are made in place while they are used. `Vli` is exact: words with carries,
for any word size and, but for the fast reduction, any number of words. Its modulus
2^256 - 2^224 + 2^192 + 2^96 - 1 is a polynomial in the word, so that eight words of *one*
bit have a reduction too, modulo 199, with the same eight terms. `Ecdh` computes with
the integers that these words stand for, on y^2 = x^3 - 3x + 6 modulo 199, whose order
197 is a prime of as many bits, as the order of the program's curve is. The ladder never uses the
constant of the curve. Rounds of the ladder and of the inverse, terms of the reduction and
columns of the product are steps.

### Rssi, QrCode, Cmac, Ccm

`Rssi` has a slot's three fields and the retained message; `moved` is a history
variable. `QrCode` builds the text letter by letter, since the properties are about
the text. `Cmac` and `Ccm` take the loops of the code as steps and the block cipher
as a parameter. What the code computes in a loop inside of one step, and the definitions it is
compared with, are recursive functions. The exclusive or of `Bytes` is taken bit by bit.

## 3. Runs

Bounds are constants: `Max...` cap counters and appear in guards. Deadlock is
not checked where a system may stop: its faults, key pairs or commands are used
up, everything is connected and silent, the firmware has panicked, or an
algorithm is done.

| Run | Question and result |
|---|---|
| `table` | A lock, a touch and a third product that the program does not support, in three slots, with a fault (link loss, reset, power cut) and a key pair whose secret looks empty: the table is an index of distinct devices and links lie in it (`TableSound`: `SlotDiscipline`, `NoDuplicateSlots`, `LinksInTable`), it implements `Registry`, it does not overflow while three devices are in range (`InBounds`), and the host task always scans, dials or has something due on a link that resumes the scan, but for the dead ends above (`NeverDeaf`). Two devices make every conflict over the candidate slot, the third overwrites it without ever connecting. |
| `table_one` | Liveness for one device and five faults, failing NVS writes, refused peers and discoveries that cannot be started included: the scan resumes (`ScanResumes`); a new or reset device is found, and a lock that was lost comes back, unless it ran into one of the dead ends above (`NewDeviceIsFound`, `LockComesBack`) |
| `touch_prompt` | A touch that answers in time, all sequences of four commands: every wake-up succeeds, the touch sleeps again, the flags are put back, and each of its two modes is what the slot's flag of that kind says |
| `touch_rough` | Slow wake-ups, lost links, discoveries that cannot be started, commands at any time, other devices: what still holds (`StatusTracksLink`, `WokenByNews`, `CommandEnds`) |
| `peer` | Three links with three kinds of database, pools too small for them, and a failed request or lost link: no block is lost, each discovery ends and is reported once, success means that everything was found where it is, failure closes the link, notifications are enabled on the right descriptor |
| `link` | Three sessions, one of them the registration, two commands of either task, a publication and a lost write, in every interleaving: nothing is copied past `b_buf`, and both sides understand each other, in order and with lengths above zero, unless two of them met in `b_buf` (`Understood`); no nonce twice, but where the host task encrypts between the encryption and the count of the MQTT task (`NonceOnce`); the counts agree (`InStep`); a link leads to a login (`LogsIn`) |
| `mqtt_calm` | A lock and a touch with their 16 entities, a retained command from before: what is announced is obeyed, the old command is not |
| `mqtt_faults` | One loss anywhere, also during a start: a device that counts as announced is, or is in the outbox; polls end without a network; with it all is announced; no command crosses a restart |
| `parts` | Signal strength of two devices, checks and restarts at any time: what is shown of a device is its last value, or the next check publishes it; the value with which a device was found is the exception, which the code never publishes. Wi-Fi: the station recovers by a retry or a restart (`StationRecovers`). Lock positions: whatever was lost, and after any restart, a lock that the gateway set last has both positions as Home Assistant set them last, or the defaults (`LockFollowsCommands`) |
| `algorithms` | `AES_CMAC` and `c_ccm.c` equal their definitions, are inverse, and notice a changed byte, for lengths around all block boundaries and a small cipher that is a permutation (`MacIsCmac`, `IsCcm`, `ChangeNoticed`); AES is the standard's (`IsAes`); word arithmetic is arithmetic (`WordsCompute`, and in `CurveComputes` once more for eight words of one bit, with the fast reduction); every private key that is kept gives its public key and, with every initial z, the SESAME's secret (`CurveComputes`); the text of the QR code scans back (`ScansBack`) |

The bound of 2 for `cnt_discovery` (128 in the code) keeps its three values
that matter: never, once, saturated. `NMax` (30 polls) is 1 or 2. In `link` the
sizes are scaled down: segments of 4 bytes instead of 19, so that messages have
one to three segments, and a `b_buf` that the answer to a registration fills exactly, as it does
in the code (2 + 14 + 64 = 80 bytes, here 2 + 2 + 8 = 12). The pools of `peer` hold
fewer than the three databases need together, so that they run out at each kind of
block. `MCAlgorithms` takes CMAC with blocks of two bytes, so that keys exist whose
subkeys shift a bit out once, twice and never. `Vli` runs with eight words of one bit,
where each sum carries and the reduction has all eight words (the instance `BITS`), and with two
words of four bits and three moduli, one of them not a prime. There are fewer words than a word counts in
the program, which `uECC_vli_mult` needs for `r2`; so the product is computed for the latter
only. `Ecdh` draws every number of eight bits, so every private key occurs, those for which
the ladder fails included; the SESAME's keys are six, extremes among them, and `MaxTries` is 2
instead of 64.

Two runs show a disagreement of the code with its own words:

| Run | Statement | What happens |
|---|---|---|
| `peer_include` | "start discovering characteristics in the next service" (peer.c:373) | a service that holds only an include declaration is asked for ever, and the discovery is never reported |
| `mqtt_forget` | "Reboot to resume the subscription when MQTT broker disconnect and reconnect" (CHANGELOG.md:9) | the reboot is commented out, and a broker without the session sends no commands |

Further disagreements were met while modelling. The properties of the passing runs
are stated so that they hold beside them, and the models contain each as a
behaviour:

- Slots. Two unregistered locks share the slot `cnt_ssms`, and the secret of the
  first one can be saved under the address of the second (blecent.c:214,
  ssm_cmd.c:42). A failed or partial save is ignored (ssm_cmd.c:42). An unsupported product overwrites the address of a slot that is
  registering (blecent.c:214 before 227). A device is counted when its login is
  sent, accepted or not (ssm_cmd.c:57). A ninth device is written behind the array.
- Scan. When `peer_disc_all` cannot start the discovery, the handler returns with the link up, the
  scan off and nothing that would end the one or resume the other (blecent.c:71-75): until
  that link is lost, the gateway hears no other device. When `peer_add` fails it resumes the scan, but leaves the link without a
  peer (blecent.c:61-65); with the shipped configuration that cannot happen, since there is room
  for eight peers (blecent.c:314) and NimBLE allows three links (sdkconfig:461), so it is a fault that the model
  allows. When two devices are linked through the candidate slot and one link ends, the slot is
  marked as disconnected while the other lives (`Orphaned`), and the reconnection that stops the scan can be
  refused because its device is linked already.
- Reconnection. `reconnect_ssm` gives up for good when `ble_gap_connect` refuses
  because another attempt runs (blecent.c:84), and an attempt that times out after
  30 s is not repeated, since the scan skips a known device (blecent.c:53, 197). A device that is reset while it is not
  connected is not noticed by reason 531 (blecent.c:125).
- Touch. A command right after a dismissal finds `disconnect_forever` set, and its own
  reconnection is swallowed. A connection that comes up after the wake-up timed out
  stays up. A touch dismissed before its first notification leaves the scan off
  (blecent.c:121). A link that ends between the check and the write of a command
  makes `esp_ble_gatt_write` use a NULL pointer (blecent.c:294): panic and reboot.
- Touch modes. `tch_finger_verify` sends 2, with the comment "set to verify mode"
  (ssm_cmd.c:154), which the code itself logs as "add" when the touch reports it: only 0 is "verify" (ssm.c:356,
  359), which is what `tch_card_verify` sends (ssm_cmd.c:172). `ModesAgree` therefore says of
  the finger's flag that the byte 1 was the last one, not that the byte reads as "add".
- Keys. A registered device whose secret starts with a zero byte is sent a registration
  instead of a login, and does not come back (ssm.c:290). The results of `uECC_make_key_lit` and
  `uECC_shared_secret_lit` are ignored (ssm_cmd.c:22, 37).
- Lock positions. Setting one sends the other's default after a restart, over whatever
  the official app had set, and turns the auto-lock off. `get_json_value` reads a number
  from a string without an end (mqtt_section.c:51), so digits may follow it.
- Wi-Fi. `wifi_connected_to_ap` stays set when the access point is lost, and five
  disconnections without an address restart the ESP32 at any time.
- Buffer. A notification handled while a command is in `b_buf` mixes with it. A command of one
  byte (ssm_cmd.c:106) between two segments of a message leaves a `c_offset` from which the
  tag and the two bytes of the head cannot be taken: the `uint16_t` wraps, and the decryption and `memcpy` run
  over the memory behind `b_buf` (ssm.c:389, 396; for a registration 339). The other commands
  leave enough.
- Nonces. A callback of the host task that encrypts after `aes_ccm_encrypt_and_tag` of the MQTT
  task and before its `encrypt.count++` is stored (ssm.c:411, 412) uses the nonce that was just used; so does the
  next command, when it comes between the load and the store and encrypts twice.
- Restarts. `is_new` is lost by a power failure between registration and subscription
  while the registration is not, so the retained command from before is obeyed.
- Texts. `c_ccm.h` documents nonces of 2 to 8 bytes, `c_ccm.c` accepts 7 to 13. The
  name of a SESAME 5 Pro holds an unescaped `%20P` in a format string (ssm.c:137), which
  `QrCode` models by what it prints.

### Fairness

Safety runs assume none. `SsmTable!FairSpec`: a device in range keeps advertising
until connected (strong fairness, since the scan comes and goes), answers when
asked, the host task handles each event, a link that was terminated ends. Nothing
forces a fault to happen or to stop, but faults are bounded, so the liveness
properties say "once the faults are over". `TouchCmd`: both tasks run, the touch
answers, the timeouts of the host task expire. `SsmLink`: notifications are
handled, the command goes on. `PeerDisc`: the remote or NimBLE's own timeout
answers every request, and a terminated link ends. In both, a procedure that goes on
for ever changes state for ever; the fairness is written as that, since it does not
say which of several steps is taken. `Mqtt!HostSpec` has fairness for the host task only, since
`PassEnds` must hold without a network; `Announced` assumes `NetworkFairness`, the
network and the devices, as well. `Wifi`: the tasks run and the driver reports how each
attempt goes on; the access point owes nothing.

## 4. Proofs

All for every value of the constants that satisfies the named `ASSUME`.

**SsmTable_proofs.** The invariant `TableInv` joins typing with facts that hold
each other up: counted slots, and only they, carry their own number and a positive
`cnt_discovery` (`SlotDiscipline`); the addresses of the counted slots *and of the
candidate slot* are distinct (`FreshCandidate`); counted slots have an address and
those behind the candidate have none (`CountedHaveAddress`); each link and attempt
refers to a counted slot or to the candidate (`LinksInTable`). `NoDuplicateSlots`
is not inductive without them: that a login appends a new device needs the
candidate's address to be fresh already, and that it counts the candidate and no
slot twice needs the link to lie in the table and `cnt_discovery` never to return
to zero. From the invariant follow `NoDuplicateSlots` and `CountedSlotsAreStable`, which
no run checks since `RegistrySpec` contains what they say of the list, the refinement of
`Registry` (a step of the table appends, empties or stutters), and
`EnoughSlots`: while no more than `SSM_MAX_NUM` devices are in range, the slot behind
the array is never written. The argument
for `EnoughSlots` is that `FreshCandidate` makes `addr` an injection.

`NeverDeaf` speaks of the scan and the callbacks to come, and breaks as soon as it forgets
why the last callback resumes the scan. `AwakeInv` says it: a scan never runs beside an
attempt to connect (`OneProcedure`), which dials the address in its slot (`Dialled`); a linked
device that has a slot is linked through that one (`OwnSlot`); only a slot with a link is
dismissed (`Dismissals`); the links and the attempt fit into the controller
(`WithinController`). `Awake` then is the strengthened statement: when nothing scans or
connects, a link on which something is due, or which is one of the two dead ends (`Expected`), will
reconnect when it ends, or another one hangs on its slot (`WillReconnect`). A step that uses up
the last thing due on a link, a notification that is handled or a discovery that ends, resumes
the scan, or terminates the link, whose end is then due. When a link ends, its place in the controller is free again, so the attempt that follows it can
only be refused because the device of the slot is linked already. `NoneAssumption` says that an
attempt is not mistaken for the value that stands for none.

**TouchCmd_proofs.** `CmdInv` joins typing, `StatusTracksLink`, the order of the
notifications of a session (`SessionOrder`, since a status of at least LOGGIN needs
a session that was accepted) and `FreshStatus`: from the moment `wake_up`
has cleared `update_status` until its wait ends, the flag implies that news came in
between. Only a mech status sets the flag, and it is the news. Both conclusions hold
for every interleaving, lost link and timeout, `Slow` and `Hurried` included.
`ModesStayAgreed` is for the case of `touch_prompt` (`Reliable`: no late wake-up, no
hurried command, no lost link), and for any number of commands and any steps of other
devices: `ModeInv` says that the flag of a kind follows its mode byte but for the one command between
`Check` and `Write`, that a link begins and ends only while the MQTT task waits or
after its dismissal (`Awaited`, `Relied`) and that behind a mech status no other one
is queued (`NewsOnce`), so the write after the mode was noted always finds a session.

**PeerDisc_proofs.** That a discovery reports once needs that its requests end when it
does (a `Good` outcome: a status, or a request that goes on). That no descriptor asserts needs
the lists: they hold the remote's own services and characteristics, in order and apart
(`Services`, `Characteristics`), and all of them lie before what the request still asks for
(`Position`). From the order follows that the searches find what they are for
(`FindAt`, `KeyFound`) and that `LinkAfter` always links at the end of a list of
characteristics, where dropping what follows drops nothing (`FindPrevAll`, `AtTheEnd`).
`PeerAssumption` asks of a database what the attribute protocol says: handles from 1 on, a
value behind its declaration and before the next one, in the service of the declaration,
and services that do not overlap.

What was found. That what is in the lists is the remote's does not say that nothing
is missing. `WholeInv` does, for each moment of a discovery: while a request runs, the lists
are complete up to the last handle that was answered (`Progress`, with a part for each
kind of request); between two requests all is complete that was asked for, and what is yet
to be asked for is empty (`Listed`, `Ready`, which are what the choice of the next request
needs); a reported success is complete (`Complete`); and the handle that was written is the one that the
lists give (`Enabled`). It needs `PeerInv` at each step: since an answer is the next
attribute, it goes to the end of its list, and since characteristics lie apart, one that is
behind `disc_prev_chr_val` has no descriptors yet. `WholeDatabase` follows, and
`NotifyReaches` with `SesameAssumption`: the CCCD found by its type is that of the SESAME, and
the write characteristic exists.

The pools are books about all connections. `PoolsInv` says of each that the free
blocks and the places in the lists of all peers add up to what `peer_init` made
(`Balance`), and that finitely many peers exist, which `Conns` need not be. It is not inductive
without `WholeInv`: `peer_chr_add` and `peer_dsc_add` link a new element in front of nothing, so
one in the middle would drop those behind, whose blocks no deletion reaches any more.
A callback takes a block exactly when a list grows by one place (`Paid`), a deletion returns
as many as the lists of the peer have places, the descriptors' included, and all others keep theirs.

**SsmLink_proofs.** `Understood` compares what was parsed with what was said, and says nothing of
a message half-way. `IInv` describes the conversation as a whole: the notifications
not yet handled are, segment by segment, the rest of what the SESAME said (`Stream`,
`OnAir`); the segments taken off are what is in `b_buf` up to `c_offset` (`Received`), or the command
is, in clear or encrypted according to the step of the MQTT task (`Sending`); and each count is
the length of a history: of the messages parsed since the login (`Phase`), of the
commands that arrived (`Counts`), of the encryptions under this token (`Used`). That a new
session cannot use an old nonce comes from the token: a link that has told its random
code is newer than every one in `nonces`, and until it has told it, no status lets a
command of either task through. Within a session the nonces so far lie below the count that the MQTT task is going to
leave behind (`NextCount`), which is not `encrypt` between the encryption and the store; those for which it
does not hold are the squeezed ones, which the property names.

The bounds do not need the buffer to be used in turn: `Received` bounds `c_offset` by what any command
can leave and the segments that followed, whoever wrote them, and `Sending` bounds each step of a command. What
is in the buffer, and that lengths do not wrap, is said only while not `met`. A callback that sends is treated once for all
that it may send (`Orders`, `Talked`), with what a command must keep for the rest of the conversation (`Keeps`).

Assumed are sizes (`LinkAssumption`), commands and publications that are byte
sequences, of which none looks like the random code (`BytesAssumption`), and that what has to
fit into `b_buf` does (`RoomAssumption`). `Understood`, `NonceOnce` and `InStep` keep the cases that the code does not
handle as their own hypotheses: two messages or commands that met in `b_buf`, a lost write, and an
encryption that was squeezed in.

**Parts_proofs**, signal strength. `ShownOrChanged` is not inductive: a check replaces the value of a
device that was not heard. The invariant adds that a device that is not counted
has not moved (`Fresh`) and that one whose value stands for "not available" has
moved (`Absent`); typing says that a changed value was heard and is of a counted
device. `SilenceIsShown` follows from the same invariant for every check.

**Mqtt_proofs.** `MqttInv` says in which order things become possible: until both
starts are done no device is known and nothing is sent, and from the moment the clean
session is connected the broker has no subscription and no queue (`NotStarted`), so
that a queue of the running phase holds commands of this boot and retained ones
(`ThisBoot`). That gives `NoCommandFromBefore`. `DoneIsAnnounced` needs to look
into the middle of a pass: the first `k - 1` entities of the device in work, and the
one waited for, are announced (`PassAnnounced`); a configuration that waits only for its
acknowledgement is retained (`TakenRetained`), so that taking it off the outbox loses
nothing; and the topics that `mqtt_subscribe` clears are not those of entities
(`Apart`). It assumes a broker that does not forget, which the theorem names; the
run `mqtt_faults` lets the broker forget when it is not connected, which one
fault allows only before anything was announced.

`CommandsReach` (`EntitiesObeyed`) assumes that the connection is not lost, but the
ESP32 may restart, and the broker forget meanwhile. `Subscriptions` says that from the start on the client is connected
(`Online`), that each topic of a device that is done, and of the calls that a pass has made, is
subscribed or in the outbox not yet taken (`AllSubscribed`, `PassSubscribed`), and that each
command in the queue suits the device (`Sane`), so that the NULL one of `ssm` and `tch` is not used.
`NothingOld` (`NoOldCommand`) also excludes restarts, since `is_new` is lost with one. `Clearing`
follows the outbox: every device is new in this boot (`Fresh`), and in front of
every subscription of a command topic, a message that clears it is in the outbox, or nothing is
retained any more (`ClearedFirst`, `PassCleared`), which has to be shown for each way in which the
outbox moves: sending takes the place of a message, an acknowledgement closes the gap
(`GoneStays`). TLC violates `NoOldCommand` when `Faults` is `{"reboot"}` or `{"down"}`, and
`EntitiesObeyed` when it is `{"down"}`, so these hypotheses cannot be dropped.

**Parts_proofs**, lock positions. `LockFollowsCommands` speaks of the lock at rest, and says
nothing of a step on its way there. The invariant follows a command along its path:
commands come only for subscribed positions, whose value is retained (`FromTopics`);
the last one waiting for a position carries the retained value, and when none waits
the copy in RAM has it (`LastCommand`); the newest settings on their way are that copy
unless `ssm_mech` is still to come, and a link that is down carries none (`SentIsMech`);
a lock that has missed nothing has that copy too (`LockIsMech`), or no command
was handled since a restart, and then every subscribed command still waits.
`NeverSet` and `AutoLockOff` add that a position never commanded is the default
wherever the gateway put it, and that whatever it sends turns the auto-lock off.

**Algorithms_proofs.** What four algorithms compute, for every input; TLC sees some lengths
and small ciphers. In each the invariant says what the loop has done by now, in terms of
the definition. The theorems about induction that the library has take an operator as a
parameter, which the provers cannot instantiate; instead, a set of numbers that are
counterexamples has a least one (`UpTo`), and `Loop` gives a recursive function its partial
results, from which the lemmas about `Value`, `Chain`, `MacAll`, `times` and the like follow.
The exclusive or is a sum of bits modulo 2 in each place (`BitsTyped`, `XorBits`): it commutes, it
associates, and a byte with itself is 0.

- *`MacIsCmac`.* `X` is the chain over the blocks so far of the marked message (`LinksOf`),
  and the last turn completes it, whether the message ends with its last block, within
  it, or is empty. The subkeys are numbers: shifting a block with the carries of
  `leftshift_onebit` doubles its number, less the power that leaves at the top, for any size of a block.
- *`IsCcm`.* `CcmInv` says that the part of the buffer before `at` is changed and the rest
  is as it was; that `y` is the chain over the formatted data and the text so far, read before
  it is encrypted by the sender and after it is decrypted by the receiver; and that the counter block is
  the number of the next block (`Increment` with its carries adds one). The blocks that the
  program cuts out of the additional data are those of the definition's filled string.
  The cipher is any function from blocks to blocks (`CcmGood`, the theorem's hypothesis:
  there are too many blocks for TLC to evaluate it as an assumption on its constants).
- *`IsAes`.* While it encrypts, `state` plus `key_copy` is the standard's block and `key_copy` its round key:
  substitution, rows and columns commute in the way that the program uses, and its mixing, three
  sums and a doubling per byte, is the standard's product with 2 and 3. While it decrypts, the
  state is the one that the encryption had at the same round: the keys are taken back one by one
  (`KeyBefore` undoes `NextKey`), and the columns are unmixed, since mixing after
  `Precomputed` gives back what was mixed. Assumed of the tables is `TablesRight`, which TLC evaluates for all
  256 entries.
- *`ScansBack`.* Three letters are twelve bits and two digits are the same twelve
  (`Turned`), so each byte that is scanned is the one whose two letters were printed (`HasByte`).

The other assumptions (`CmacAssumption`, `CcmAssumption`, `AesAssumption`, `DevicesAssumption`)
are about the types and sizes of the inputs. `Algorithms` states each for its instance, and TLC evaluates
them for its own inputs.

**Vli_proofs.** The words of uECC.c, for every `WORD_BITS`, `BYTE_BITS` that divides it, number of words,
odd modulus and inputs (`VliAssumption`): the program's 32, 8 and 8, and any other. What the
functions on words do in one call is shown for all numbers:

- *Sums, differences, shifts.* Each word balances with the carry in and out (`AddWord`: the comparison
  of the sum with one summand finds the carry, and a sum that is equal to it hands the last one
  on), and words that balance one by one balance as numbers (`Balance`).
  `uECC_vli_cmp_unsafe` decides by the first words that differ (`DifferenceDecides`), since what
  is below a place is less than it (`SumsBounded`).
- *Product.* `Grid` is the multiplication on paper, row by row: a row is one word times the other number
  (`RowValue`), and the sum over a column is what `Column` adds to r0, r1, r2 (`ColumnIs`). That the three words
  have room for it, whatever the words are, needs fewer words than a word counts (`ColumnFits`). `Multiplying` is the
  invariant: the words so far, and r in the next place, are the columns so far.
- *Fast reduction.* Each place from the eighth on is, but for a multiple of `curve_p`, the same sum of lower
  places as the terms give it (`HighPlacesAre`), so all eight terms together have the residue of
  the product (`FoldedIs`). `Reducing` follows result and carry term by term, and through the
  loops that add or subtract the modulus.
- *Inverse.* `Inverting`: a and b are, modulo mod, the products of left with u and v, which are residues. Halving
  (`UpdateIs`: the carry of `uv + mod` comes back as the highest bit) and subtracting keep it, since the modulus
  is odd.

The algorithms end when their loops do; that they end is not claimed for every size.

**Only model-checked.** Every liveness property (`ENABLED` and fairness are beyond
the prover): `ScanResumes`, `NewDeviceIsFound`, `LockComesBack`, `TouchSleeps`, `WakeSucceeds`,
`CommandEnds`, `DiscoveryEnds`, `FailureCloses`, `LogsIn`, `PassEnds`, `Announced` and
`StationRecovers`. `ChangeNoticed`, which a cipher must earn: a short tag has its like for some
change under some cipher. `SecretsAgree`, which is in `CurveComputes`: what `Ecdh` computes rests on the group law of
the curve, for which the provers have no polynomials. Every other property of a passing run is a theorem. `ModesAgree` is not claimed when wake-ups are late or
links are lost.

## 5. Not modelled

- Of `uECC.c` and `curve-specific.inc`: signatures, compressed points, checks of points,
  other curves and word sizes, which nothing in the program calls. A curve of 256 bits is
  out of TLC's reach: `Vli` and `Ecdh` take small words and a small curve. That random
  draws are unpredictable, and the points with x = 0, which the small curve does not have,
  are not covered. `SsmTable` and `SsmLink` take a shared secret as a value that both sides
  compute, which `Ecdh` justifies.
- The outbox's expiry: esp-mqtt drops a message that was not acknowledged for 30 s. It
  belongs to a library and to a clock that `Mqtt` does not have; with it
  `DoneIsAnnounced` would only hold for shorter losses of the broker. The publications of
  the application's own callback are not in the repository.
- The battery percentage (ssm.c:306-331): the lookup of one reading in a table.
- `misc.c`, `utils.c`, `candy.h`: printing and names.
- `protocol_examples_common/`: ESP-IDF's example code, not called.
- Forged radio messages: the models have honest devices and faults.

## 6. What could follow

1. Two devices in `SsmLink`, so that the global key pair and the candidate slot meet
   real segments; the wake-up of `sesame_update` composed with `TouchCmd`.
2. `Wifi` composed with `Mqtt`'s start in the application's order.
3. Proofs: an abstract message channel that `SsmLink` implements while nothing meets in
   `b_buf`, and `DoneIsAnnounced` for a broker that forgets only what was announced before
   the last start.
