------------------------------ MODULE SsmTable ------------------------------
(***************************************************************************)
(* The table of SESAME devices (p_ssms_env, cnt_ssms) and the BLE host     *)
(* task that fills it: scan, connect, register, log in, reconnect.         *)
(*                                                                         *)
(* Every action of the program is one callback of the NimBLE host task,    *)
(* which runs to completion before the next one.  The devices, the radio   *)
(* and the NimBLE GAP procedures are the environment.  A connection handle *)
(* is named by the device at its other end.                                *)
(***************************************************************************)
EXTENDS Integers, Sequences, FiniteSets

CONSTANTS
  Device,         \* the SESAME devices in radio range, named by MAC address
  ProductType,    \* Device -> the product an advertisement announces
  SSM_MAX_NUM,    \* slots allocated by ssm_init
  MaxConn,        \* CONFIG_BT_NIMBLE_MAX_CONNECTIONS
  CntCap,         \* where cnt_discovery saturates (128 in the code)
  WeakKey,        \* key generations whose secret starts with a zero byte
  None,           \* no address, no handle, no secret, no link
  MaxKey,         \* bound: ECC key pairs generated
  MaxUp,          \* bound: spontaneous notifications queued on a link
  MaxFaults       \* bound: link losses, failed connects, resets, power cuts

Products == {"SESAME_5", "SESAME_TOUCH", "SESAME_BIKE_2", "unsupported"}

ASSUME TableAssumption ==
  /\ SSM_MAX_NUM \in Nat \ {0} /\ MaxConn \in Nat \ {0}
  /\ CntCap \in Nat \ {0}
  /\ MaxKey \in Nat /\ MaxUp \in Nat /\ MaxFaults \in Nat
  /\ None \notin Device
  /\ None \notin Int
  /\ ProductType \in [Device -> Products]

\* No attempt to connect is taken for none.
ASSUME NoneAssumption == None \notin [dev : Device, slot : Nat]

Slot == 0 .. SSM_MAX_NUM        \* index SSM_MAX_NUM lies behind the calloc

\* device_status_t; SSM_LOCKED stands for LOCKED, UNLOCKED and MOVED.
SSM_NOUSE == 0
SSM_DISCONNECTED == 1
SSM_CONNECTED == 4
SSM_LOGGIN == 5
SSM_LOCKED == 6
Status == {SSM_NOUSE, SSM_DISCONNECTED, SSM_CONNECTED, SSM_LOGGIN, SSM_LOCKED}

\* An ECDH secret: the device it is shared with (None: computed from bytes that
\* are not a public key) and the generation of the ESP32's key pair; 0 is that of
\* an earlier boot, -1 that of another controller.
Secret == [dev : Device \cup {None}, gen : -1 .. MaxKey]
Token == [secret : Secret, rnd : Device \cup {None}] \* AES_CMAC(secret, random_code)
\* How far a link is; "refused": peer_add failed, "idle": no discovery was started
Progress == {"refused", "idle", "discovering", "open", "auth"}
Items == {"INITIAL", "REGISTRATION", "LOGIN", "MECH_STATUS"}
\* None, and cipher FALSE: this field was never written
NvsEntry == [secret : Secret \cup {None}, uuid : Device \cup {None}, cipher : BOOLEAN]

VARIABLES
  cnt_ssms, cnt_unregistered_ssms,                  \* ssm.c globals
  addr, product_type, device_uuid, device_secret,   \* fields of sesame, by slot
  device_status, conn_id, id, cnt_discovery,
  random_code, token, mqtt_subscribe_done, disconnect_forever,
  ecc_private_esp32,                                \* ssm_cmd.c global
  nvs,                                              \* flash, by MAC address
  scanning, connecting,                             \* GAP procedures
  link, phase, up, closing,                         \* by device: callback slot,
                                                    \* progress, notifications, terminated
  key,                                              \* by device: its own secret
  faults

table == <<cnt_ssms, addr, id, cnt_discovery>>
slotVars == <<product_type, device_uuid, device_secret, device_status, conn_id,
              random_code, token, mqtt_subscribe_done, disconnect_forever>>
ram == <<cnt_unregistered_ssms, ecc_private_esp32>>
gap == <<scanning, connecting>>
links == <<link, phase, up, closing>>
vars == <<table, slotVars, ram, nvs, gap, links, key, faults>>

-----------------------------------------------------------------------------
Counted == 0 .. cnt_ssms - 1
IsKnown(d) == \E n \in Counted : addr[n] = d
Linked == {d \in Device : link[d] # None}
IsTouch(n) == product_type[n] = "SESAME_TOUCH"
IsLock(n) == product_type[n] = "SESAME_5"
\* peer_find(conn_id) succeeds
PeerFound(n) ==
  conn_id[n] # None /\ link[conn_id[n]] # None /\ phase[conn_id[n]] # "refused"
\* device_secret[0] == 0 is how the code recognises a device without a secret
NoSecret(s) == s # None => s.gen \in WeakKey

TypeOK ==
  /\ cnt_ssms \in 0 .. SSM_MAX_NUM + 1
  /\ cnt_unregistered_ssms \in Nat
  /\ addr \in [Slot -> Device \cup {None}]
  /\ product_type \in [Slot -> Products \cup {None}]
  /\ device_uuid \in [Slot -> Device \cup {None}]
  /\ device_secret \in [Slot -> Secret \cup {None}]
  /\ device_status \in [Slot -> Status]
  /\ conn_id \in [Slot -> Device \cup {None}]
  /\ id \in [Slot -> 0 .. SSM_MAX_NUM \cup {None}]
  /\ cnt_discovery \in [Slot -> 0 .. CntCap]
  /\ random_code \in [Slot -> Device \cup {None}]
  /\ token \in [Slot -> Token \cup {None}]
  /\ mqtt_subscribe_done \in [Slot -> BOOLEAN]
  /\ disconnect_forever \in [Slot -> BOOLEAN]
  /\ ecc_private_esp32 \in 0 .. MaxKey
  /\ nvs \in [Device -> NvsEntry \cup {None}]
  /\ scanning \in BOOLEAN
  /\ connecting \in [dev : Device, slot : Slot] \cup {None}
  /\ link \in [Device -> Slot \cup {None}]
  /\ phase \in [Device -> Progress]
  /\ up \in [Device -> Seq(Items)]
  /\ closing \in [Device -> BOOLEAN]
  /\ key \in [Device -> Secret \cup {None}]
  /\ faults \in 0 .. MaxFaults

-----------------------------------------------------------------------------
(* ssm_init and the first sync callback, at boot and after esp_restart.    *)

Init ==
  /\ cnt_ssms = 0 /\ cnt_unregistered_ssms = 0
  /\ addr = [n \in Slot |-> None]
  /\ product_type = [n \in Slot |-> None]
  /\ device_uuid = [n \in Slot |-> None]
  /\ device_secret = [n \in Slot |-> None]
  /\ device_status = [n \in Slot |-> SSM_NOUSE]
  /\ conn_id = [n \in Slot |-> None]
  /\ id = [n \in Slot |-> None]
  /\ cnt_discovery = [n \in Slot |-> 0]
  /\ random_code = [n \in Slot |-> None]
  /\ token = [n \in Slot |-> None]
  /\ mqtt_subscribe_done = [n \in Slot |-> FALSE]
  /\ disconnect_forever = [n \in Slot |-> FALSE]
  /\ ecc_private_esp32 = 0
  \* a device is new, registered here or elsewhere; since it was saved here it
  \* may have been reset, and registered elsewhere
  /\ key \in {k \in [Device -> {None} \cup [dev : Device, gen : {-1, 0}]] :
                \A d \in Device : k[d] # None => k[d].dev = d}
  /\ nvs \in {s \in [Device -> {None} \cup
                       [secret : [dev : Device, gen : {0}], uuid : Device, cipher : {TRUE}]] :
                \A d \in Device :
                  IF s[d] = None THEN key[d] = None \/ key[d].gen = -1
                                 ELSE s[d].uuid = d /\ s[d].secret.dev = d}
  /\ scanning = TRUE /\ connecting = None
  /\ link = [d \in Device |-> None]
  /\ phase = [d \in Device |-> "discovering"]
  /\ up = [d \in Device |-> <<>>]
  /\ closing = [d \in Device |-> FALSE]
  /\ faults = 0

Reboot ==
  /\ cnt_ssms' = 0 /\ cnt_unregistered_ssms' = 0
  /\ addr' = [n \in Slot |-> None]
  /\ product_type' = [n \in Slot |-> None]
  /\ device_uuid' = [n \in Slot |-> None]
  /\ device_secret' = [n \in Slot |-> None]
  /\ device_status' = [n \in Slot |-> SSM_NOUSE]
  /\ conn_id' = [n \in Slot |-> None]
  /\ id' = [n \in Slot |-> None]
  /\ cnt_discovery' = [n \in Slot |-> 0]
  /\ random_code' = [n \in Slot |-> None]
  /\ token' = [n \in Slot |-> None]
  /\ mqtt_subscribe_done' = [n \in Slot |-> FALSE]
  /\ disconnect_forever' = [n \in Slot |-> FALSE]
  /\ scanning' = TRUE /\ connecting' = None
  /\ link' = [d \in Device |-> None]
  /\ phase' = [d \in Device |-> "discovering"]
  /\ up' = [d \in Device |-> <<>>]
  /\ closing' = [d \in Device |-> FALSE]
  \* the key generation only names key pairs apart, across reboots too
  /\ UNCHANGED ecc_private_esp32

-----------------------------------------------------------------------------
(* ssm_scan_connect: one advertisement of a device.  Devices that hold a   *)
(* connection do not advertise; reports below -95 dBm of a device that is  *)
(* not counted change nothing and are left out.                            *)

\* Mutant: the count of advertisements wraps to zero.
SeenAgainWraps(d) ==
  /\ scanning /\ link[d] = None /\ IsKnown(d)
  /\ \E n \in Counted :
       addr[n] = d /\ cnt_discovery' = [cnt_discovery EXCEPT ![n] = (@ + 1) % (CntCap + 1)]
  /\ UNCHANGED <<cnt_ssms, addr, id, slotVars, ram, nvs, gap, links, key, faults>>

\* "skip if the device was discovered already"
SeenAgain(d) ==
  /\ scanning /\ link[d] = None /\ IsKnown(d)
  /\ \E n \in Counted :
       /\ addr[n] = d /\ \A m \in Counted : addr[m] = d => n <= m
       /\ cnt_discovery' = [cnt_discovery EXCEPT
            ![n] = IF @ < CntCap THEN @ + 1 ELSE CntCap]
  /\ UNCHANGED <<cnt_ssms, addr, id, slotVars, ram, nvs, gap, links, key, faults>>

\* Mutants: a known device becomes a candidate again, or the candidate overwrites
\* the last counted slot.
CandidateAgain(d) ==
  /\ scanning /\ link[d] = None /\ cnt_ssms \in Slot
  /\ addr' = [addr EXCEPT ![cnt_ssms] = d]

\* The advertisement of a device that is not counted, at slot cnt_ssms.  The
\* model ends with the first slot behind the array.
Candidate(d) ==
  /\ scanning /\ link[d] = None /\ ~IsKnown(d) /\ cnt_ssms \in Slot
  /\ addr' = [addr EXCEPT ![cnt_ssms] = d]

\* ble_gap_disc_cancel, then ble_gap_connect, which fails without a free slot
StartConnect(d, n) ==
  IF Cardinality(Linked) < MaxConn
  THEN connecting' = [dev |-> d, slot |-> n] /\ scanning' = FALSE
  ELSE UNCHANGED gap                    \* rc /= 0: sync_cb resumes the scan

NewUnsupported(d) ==
  /\ Candidate(d) /\ ProductType[d] = "unsupported"
  /\ UNCHANGED <<cnt_ssms, id, cnt_discovery, slotVars, ram, nvs, gap, links, key, faults>>

NewUnregistered(d) ==
  /\ Candidate(d) /\ ProductType[d] # "unsupported" /\ key[d] = None
  /\ product_type' = [product_type EXCEPT ![cnt_ssms] = ProductType[d]]
  /\ device_uuid' = [device_uuid EXCEPT ![cnt_ssms] = d]
  /\ IF device_status[cnt_ssms] = SSM_NOUSE
     THEN /\ device_status' = [device_status EXCEPT ![cnt_ssms] = SSM_DISCONNECTED]
          /\ conn_id' = [conn_id EXCEPT ![cnt_ssms] = None]
     ELSE UNCHANGED <<device_status, conn_id>>
  /\ StartConnect(d, cnt_ssms)
  /\ UNCHANGED <<cnt_ssms, id, cnt_discovery, device_secret, random_code, token,
                 mqtt_subscribe_done, disconnect_forever, ram, nvs, links, key, faults>>

\* ssm_read_nvs restores the cipher and the connection handle of an earlier boot with
\* the rest: a random code and a token of no session of this one, and a handle that
\* may number any connection of this one.
NewRegistered(d) ==
  /\ Candidate(d) /\ ProductType[d] # "unsupported" /\ key[d] # None
  /\ product_type' = [product_type EXCEPT ![cnt_ssms] = ProductType[d]]
  /\ IF nvs[d] = None
     THEN UNCHANGED <<device_uuid, device_secret, random_code, token, conn_id, gap>>
     ELSE /\ device_uuid' = [device_uuid EXCEPT
               ![cnt_ssms] = IF nvs[d].uuid = None THEN @ ELSE nvs[d].uuid]
          /\ device_secret' = [device_secret EXCEPT
               ![cnt_ssms] = IF nvs[d].secret = None THEN @ ELSE nvs[d].secret]
          /\ IF nvs[d].cipher
             THEN /\ random_code' = [random_code EXCEPT ![cnt_ssms] = None]
                  /\ token' = [token EXCEPT ![cnt_ssms] = None]
             ELSE UNCHANGED <<random_code, token>>
          /\ \E c \in Linked \cup {None} :
               conn_id' = [conn_id EXCEPT ![cnt_ssms] = c]
          /\ StartConnect(d, cnt_ssms)
  /\ UNCHANGED <<cnt_ssms, id, cnt_discovery, device_status,
                 mqtt_subscribe_done, disconnect_forever, ram, nvs, links, key, faults>>

-----------------------------------------------------------------------------
(* ble_gap_event_connect_handle and the GATT discovery that follows it.    *)

\* The link is there, through the slot that is the callback's argument.
LinkUp(d, progress) ==
  /\ connecting # None /\ connecting.dev = d /\ link[d] = None
  /\ connecting' = None
  /\ link' = [link EXCEPT ![d] = connecting.slot]
  /\ phase' = [phase EXCEPT ![d] = progress]
  /\ UNCHANGED <<table, product_type, device_uuid, device_secret, random_code, token,
                 mqtt_subscribe_done, disconnect_forever, ram, nvs, up, closing, key>>

\* peer_add refuses: the scan resumes, the slot learns nothing of the link, and nobody
\* terminates it.
PeerRefused(d) ==
  /\ LinkUp(d, "refused") /\ scanning' = TRUE
  /\ faults < MaxFaults /\ faults' = faults + 1
  /\ UNCHANGED <<device_status, conn_id>>

SlotConnected(d) ==
  /\ device_status' = [device_status EXCEPT ![connecting.slot] = SSM_CONNECTED]
  /\ conn_id' = [conn_id EXCEPT ![connecting.slot] = d]
  /\ UNCHANGED scanning

\* peer_disc_all cannot start the discovery: the link is left as it is, the scan off.
DiscoveryRefused(d) ==
  /\ LinkUp(d, "idle") /\ SlotConnected(d)
  /\ faults < MaxFaults /\ faults' = faults + 1

Connected(d) == LinkUp(d, "discovering") /\ SlotConnected(d) /\ UNCHANGED faults

\* Mutant: a failed connection does not resume the scan.
ConnectFailedSilently ==
  /\ connecting # None /\ faults < MaxFaults /\ faults' = faults + 1
  /\ connecting' = None
  /\ UNCHANGED <<table, slotVars, ram, nvs, scanning, links, key>>

\* The 30 s timeout, or any other status /= 0: resume the scan
ConnectFailed ==
  /\ connecting # None /\ faults < MaxFaults /\ faults' = faults + 1
  /\ connecting' = None /\ scanning' = TRUE
  /\ UNCHANGED <<table, slotVars, ram, nvs, links, key>>

\* service_disc_complete, ssm_enable_notify: the device answers INITIAL
NotifyEnabled(d) ==
  /\ link[d] # None /\ phase[d] = "discovering" /\ ~closing[d]
  /\ phase' = [phase EXCEPT ![d] = "open"]
  /\ up' = [up EXCEPT ![d] = Append(@, "INITIAL")]
  /\ UNCHANGED <<table, slotVars, ram, nvs, gap, link, closing, key, faults>>

\* Mutant: a failed discovery keeps the connection.
DiscoveryAbandoned(d) ==
  /\ link[d] # None /\ phase[d] = "discovering" /\ ~closing[d]
  /\ faults < MaxFaults /\ faults' = faults + 1
  /\ phase' = [phase EXCEPT ![d] = "open"]
  /\ UNCHANGED <<table, slotVars, ram, nvs, gap, link, up, closing, key>>

\* a failed discovery, a missing CCCD or a failed subscription
DiscoveryFailed(d) ==
  /\ link[d] # None /\ phase[d] = "discovering" /\ ~closing[d]
  /\ faults < MaxFaults /\ faults' = faults + 1
  /\ closing' = [closing EXCEPT ![d] = TRUE]
  /\ UNCHANGED <<table, slotVars, ram, nvs, gap, link, phase, up, key>>

-----------------------------------------------------------------------------
(* BLE_GAP_EVENT_NOTIFY_RX: ssm_ble_receiver on the slot that is the       *)
(* callback argument of the connection, then, after a mech status,         *)
(* sesame_update, mqtt_discovery and mqtt_subscribe, and always sync_cb.   *)

\* Mutant: a notification does not resume the scan.
ScanNotResumed(c) == scanning

\* blecent_scan: EALREADY while scanning, EBUSY while connecting
ScanUnless(c) == IF c = None THEN TRUE ELSE scanning

Consume(d) == [up EXCEPT ![d] = Tail(@)]

\* The device at the other end of conn_id takes a REGISTRATION command: only an
\* unregistered device registers, and it answers with its public key.
DeviceRegisters(c, gen, queue) ==
  IF key[c] = None /\ phase[c] # "idle"
  THEN /\ key' = [key EXCEPT ![c] = [dev |-> c, gen |-> gen]]
       /\ up' = [queue EXCEPT ![c] = Append(@, "REGISTRATION")]
  ELSE UNCHANGED key /\ up' = queue

\* It accepts a login made with its own secret and the random code it sent, and
\* then reports its state.
DeviceLogsIn(c, tok, queue) ==
  IF key[c] # None /\ phase[c] # "idle" /\ tok = [secret |-> key[c], rnd |-> c]
  THEN /\ phase' = [phase EXCEPT ![c] = "auth"]
       /\ up' = [queue EXCEPT ![c] = @ \o <<"LOGIN", "MECH_STATUS">>]
  ELSE UNCHANGED phase /\ up' = queue

\* Writing through a slot whose conn_id names no peer dereferences NULL
\* (peer_chr_find_uuid on the result of peer_find): the ESP32 panics and reboots.
Panic == Reboot /\ UNCHANGED <<nvs, key, faults>>

\* Mutant: a slot is counted at every login.
CountSlotAgain(n) ==
  /\ id' = [id EXCEPT ![n] = cnt_ssms]
  /\ cnt_discovery' = [cnt_discovery EXCEPT ![n] = 1]
  /\ cnt_ssms' = cnt_ssms + 1

\* "one more registered device login successfully"
CountSlot(n) ==
  IF cnt_discovery[n] = 0
  THEN /\ id' = [id EXCEPT ![n] = cnt_ssms]
       /\ cnt_discovery' = [cnt_discovery EXCEPT ![n] = 1]
       /\ cnt_ssms' = cnt_ssms + 1
  ELSE UNCHANGED <<id, cnt_discovery, cnt_ssms>>

\* Mutant: the login is made before the new random code is stored.
LoginWithOldCode(n, s, r, queue) ==
  LET tok == [secret |-> s, rnd |-> random_code[n]]
  IN  /\ token' = [token EXCEPT ![n] = tok]
      /\ DeviceLogsIn(conn_id[n], tok, queue)
      /\ CountSlot(n)

\* send_login_cmd_to_ssm with secret s and random code r
SendLogin(n, s, r, queue) ==
  /\ token' = [token EXCEPT ![n] = [secret |-> s, rnd |-> r]]
  /\ DeviceLogsIn(conn_id[n], [secret |-> s, rnd |-> r], queue)
  /\ CountSlot(n)

\* send_reg_cmd_to_ssm: a new key pair in the one global ecc_private_esp32
SendRegistration(n, queue) ==
  /\ ecc_private_esp32 < MaxKey
  /\ ecc_private_esp32' = ecc_private_esp32 + 1
  /\ DeviceRegisters(conn_id[n], ecc_private_esp32 + 1, queue)

Receives(d, n, item) ==
  /\ link[d] = n /\ n # None /\ up[d] # <<>> /\ Head(up[d]) = item

\* ssm_initial_handle
InitialRegister(d, n) ==
  /\ Receives(d, n, "INITIAL") /\ NoSecret(device_secret[n]) /\ PeerFound(n)
  /\ random_code' = [random_code EXCEPT ![n] = d]
  /\ SendRegistration(n, Consume(d))
  /\ scanning' = ScanUnless(connecting)
  /\ UNCHANGED <<table, product_type, device_uuid, device_secret, device_status,
                 conn_id, token, mqtt_subscribe_done, disconnect_forever,
                 cnt_unregistered_ssms, nvs, connecting, link, phase, closing, faults>>

InitialLogin(d, n) ==
  /\ Receives(d, n, "INITIAL") /\ ~NoSecret(device_secret[n]) /\ PeerFound(n)
  /\ random_code' = [random_code EXCEPT ![n] = d]
  /\ SendLogin(n, device_secret[n], d, Consume(d))
  /\ scanning' = ScanUnless(connecting)
  /\ UNCHANGED <<addr, product_type, device_uuid, device_secret, device_status, conn_id,
                 mqtt_subscribe_done, disconnect_forever, ram, nvs, connecting,
                 link, closing, key, faults>>

\* handle_reg_data_from_ssm takes the public key at an offset that depends on
\* the product, so another product's answer yields a secret shared with nobody.
SharedSecret(d, n) ==
  [dev |-> IF IsLock(n) <=> ProductType[d] = "SESAME_5" THEN d ELSE None,
   gen |-> ecc_private_esp32]

\* What a failing ssm_save_nvs leaves in flash: nothing is written, or some of the fields.
PartlySaved(a, s, u) ==
  LET Old == IF nvs[a] = None THEN [secret |-> None, uuid |-> None, cipher |-> FALSE]
                              ELSE nvs[a]
  IN  {nvs[a]} \cup [secret : {Old.secret, s}, uuid : {Old.uuid, u},
                      cipher : {Old.cipher, TRUE}]

\* ssm_save_nvs, whose result the caller ignores
SaveNvs(a, s, u) ==
  \/ nvs' = [nvs EXCEPT ![a] = [secret |-> s, uuid |-> u, cipher |-> TRUE]]
     /\ UNCHANGED faults
  \/ /\ faults < MaxFaults /\ faults' = faults + 1
     /\ \E e \in PartlySaved(a, s, u) : nvs' = [nvs EXCEPT ![a] = e]

RegistrationDone(d, n) ==
  /\ Receives(d, n, "REGISTRATION") /\ PeerFound(n)
  /\ device_secret' = [device_secret EXCEPT ![n] = SharedSecret(d, n)]
  /\ device_status' = [device_status EXCEPT ![n] = SSM_LOGGIN]
  /\ SaveNvs(addr[n], SharedSecret(d, n), device_uuid[n])
  /\ cnt_unregistered_ssms' = cnt_unregistered_ssms + 1
  /\ SendLogin(n, SharedSecret(d, n), random_code[n], Consume(d))
  /\ scanning' = ScanUnless(connecting)
  /\ UNCHANGED <<addr, product_type, device_uuid, conn_id, random_code,
                 mqtt_subscribe_done, disconnect_forever, ecc_private_esp32,
                 connecting, link, closing, key>>

\* A ciphertext decrypts only with the session token the device uses; anything else
\* fails the CCM tag and is parsed as an unknown code.
Decrypts(d, n) == token[n] = [secret |-> key[d], rnd |-> d]

\* The write behind a handler finds no peer (after a mech status: the lock
\* command of ssm_action_handle); a registration has been saved by then.
WriteWithoutPeer(d, n) ==
  /\ ~PeerFound(n)
  /\ \/ Receives(d, n, "INITIAL") /\ Panic
     \/ Receives(d, n, "MECH_STATUS") /\ Decrypts(d, n) /\ Panic
     \/ /\ Receives(d, n, "REGISTRATION") /\ Reboot
        /\ SaveNvs(addr[n], SharedSecret(d, n), device_uuid[n])
        /\ UNCHANGED key

LoginDone(d, n) ==
  /\ Receives(d, n, "LOGIN")
  /\ device_status' = IF Decrypts(d, n)
                      THEN [device_status EXCEPT ![n] = SSM_LOGGIN]
                      ELSE device_status
  /\ up' = Consume(d)
  /\ scanning' = ScanUnless(connecting)
  /\ UNCHANGED <<table, product_type, device_uuid, device_secret, conn_id, random_code,
                 token, mqtt_subscribe_done, disconnect_forever, ram, nvs, connecting,
                 link, phase, closing, key, faults>>

Garbled(d, n) ==
  /\ Receives(d, n, "MECH_STATUS") /\ ~Decrypts(d, n)
  /\ up' = Consume(d)
  /\ scanning' = ScanUnless(connecting)
  /\ UNCHANGED <<table, slotVars, ram, nvs, connecting, link, phase, closing, key, faults>>

\* sesame_update: a lock and a touch, one of them new, are introduced to each
\* other; with the touch in slot 0 the host task itself calls wake_up, which
\* terminates or starts the touch's connection and then times out.
AutoAdd == cnt_ssms = 2 /\ cnt_unregistered_ssms > 0
WakesTouch == AutoAdd /\ IsTouch(0) /\ IsLock(1)

\* Slots on which disconnect() is called: the touch of sesame_update, then every
\* touch that mqtt_subscribe subscribes for the first time.
Dismissed(status) ==
  {m \in Slot : /\ status[m] > SSM_DISCONNECTED
                /\ \/ m = 0 /\ WakesTouch
                   \/ m \in Counted /\ IsTouch(m) /\ ~mqtt_subscribe_done[m]}

\* Mutant: a device reconnects through the candidate slot.
ReconnectAsCandidate(n, live) ==
  IF connecting = None /\ addr[n] \notin live /\ Cardinality(live) < MaxConn
  THEN [dev |-> addr[n], slot |-> cnt_ssms]
  ELSE connecting

\* ble_gap_connect in reconnect_ssm, the links in `live' still up
ReconnectTo(n, live) ==
  IF connecting = None /\ addr[n] \notin live /\ Cardinality(live) < MaxConn
  THEN [dev |-> addr[n], slot |-> n]
  ELSE connecting

MechStatus(d, n) ==
  /\ Receives(d, n, "MECH_STATUS") /\ Decrypts(d, n)
  /\ up' = Consume(d)
  /\ device_status' = [device_status EXCEPT ![n] = SSM_LOCKED]
  /\ cnt_unregistered_ssms' = IF AutoAdd THEN 0 ELSE cnt_unregistered_ssms
  /\ disconnect_forever' =
       [m \in Slot |-> disconnect_forever[m] \/ m \in Dismissed(device_status')]
  /\ closing' = [c \in Device |->
       closing[c] \/ (link[c] # None /\ \E m \in Dismissed(device_status') : conn_id[m] = c)]
  /\ mqtt_subscribe_done' = [m \in Slot |-> mqtt_subscribe_done[m] \/ m \in Counted]
  /\ connecting' = IF WakesTouch /\ device_status'[0] <= SSM_DISCONNECTED
                   THEN ReconnectTo(0, Linked) ELSE connecting
  /\ scanning' = (connecting' = None \/ (scanning /\ connecting' = connecting))
  /\ UNCHANGED <<table, product_type, device_uuid, device_secret, conn_id, random_code,
                 token, ecc_private_esp32, nvs, link, phase, key, faults>>

\* The device reports a change of its own accord.
Publish(d) ==
  /\ link[d] # None /\ phase[d] = "auth" /\ ~closing[d] /\ Len(up[d]) < MaxUp
  /\ up' = [up EXCEPT ![d] = Append(@, "MECH_STATUS")]
  /\ UNCHANGED <<table, slotVars, ram, nvs, gap, link, phase, closing, key, faults>>

-----------------------------------------------------------------------------
(* BLE_GAP_EVENT_DISCONNECT                                                *)

LinkDown(d, n) ==
  /\ n # None /\ link[d] = n
  /\ device_status' = [device_status EXCEPT ![n] = SSM_DISCONNECTED]
  /\ conn_id' = [conn_id EXCEPT ![n] = None]
  /\ link' = [link EXCEPT ![d] = None]
  /\ phase' = [phase EXCEPT ![d] = "discovering"]
  /\ up' = [up EXCEPT ![d] = <<>>]
  /\ closing' = [closing EXCEPT ![d] = FALSE]
  /\ UNCHANGED <<table, product_type, device_uuid, device_secret, random_code, token,
                 mqtt_subscribe_done, ram, nvs>>

StayDisconnected(d, n) ==
  /\ LinkDown(d, n) /\ disconnect_forever[n]
  /\ disconnect_forever' = [disconnect_forever EXCEPT ![n] = FALSE]
  /\ UNCHANGED gap

\* stop the scan and reconnect_ssm, whose failure nobody handles
ReconnectNow(d, n) ==
  /\ LinkDown(d, n) /\ ~disconnect_forever[n]
  /\ scanning' = FALSE
  /\ connecting' = ReconnectTo(n, Linked \ {d})
  /\ UNCHANGED disconnect_forever

\* terminated by the ESP32, or lost
Disconnected(d, n) ==
  /\ StayDisconnected(d, n) \/ ReconnectNow(d, n)
  /\ \/ closing[d] /\ UNCHANGED faults
     \/ faults < MaxFaults /\ faults' = faults + 1
  /\ UNCHANGED key

\* A factory reset: the device forgets its secret, and a live connection ends
\* with reason 531, on which the ESP32 restarts.
DeviceReset(d) ==
  /\ key[d] # None /\ faults < MaxFaults
  /\ faults' = faults + 1
  /\ key' = [key EXCEPT ![d] = None]
  /\ \/ link[d] = None /\ UNCHANGED <<table, slotVars, ram, nvs, gap, links>>
     \/ \E n \in Slot : StayDisconnected(d, n)
     \/ link[d] # None /\ ~disconnect_forever[link[d]] /\ Reboot /\ UNCHANGED nvs

PowerCut == faults < MaxFaults /\ faults' = faults + 1 /\ Reboot /\ UNCHANGED <<nvs, key>>

-----------------------------------------------------------------------------
Advertises(d) ==
  SeenAgain(d) \/ NewUnsupported(d) \/ NewUnregistered(d) \/ NewRegistered(d)

Notified(d, n) ==
  \/ InitialRegister(d, n) \/ InitialLogin(d, n) \/ RegistrationDone(d, n)
  \/ WriteWithoutPeer(d, n) \/ LoginDone(d, n) \/ Garbled(d, n) \/ MechStatus(d, n)

DeviceStep(d) ==
  \/ Advertises(d) \/ PeerRefused(d) \/ DiscoveryRefused(d) \/ Connected(d)
  \/ NotifyEnabled(d) \/ DiscoveryFailed(d)
  \/ Publish(d) \/ DeviceReset(d)
  \/ \E n \in Slot : Notified(d, n) \/ Disconnected(d, n)

Next == ConnectFailed \/ PowerCut \/ \E d \in Device : DeviceStep(d)

Spec == Init /\ [][Next]_vars

\* The host task runs every callback, a device in range advertises until it is
\* connected, answers when it is, and a terminated connection ends.
Fairness ==
  \A d \in Device :
    /\ SF_vars(NewUnregistered(d) \/ NewRegistered(d))
    /\ WF_vars(Connected(d)) /\ WF_vars(NotifyEnabled(d))
    /\ WF_vars(\E n \in Slot : Notified(d, n))
    /\ WF_vars(closing[d] /\ \E n \in Slot : Disconnected(d, n))

FairSpec == Spec /\ Fairness

-----------------------------------------------------------------------------
(* Safety                                                                  *)

\* The slot that a connection attempt or a link will write to
InUse(n) == \/ connecting # None /\ connecting.slot = n
            \/ \E d \in Device : link[d] = n

\* Counted slots, and only they, know their own index and how often they were
\* seen: the counting in send_login_cmd_to_ssm ("cnt_discovery == 0") depends on
\* it, and so does the saturation that keeps cnt_discovery from wrapping to 0.
SlotDiscipline ==
  \A n \in Slot :
    IF n < cnt_ssms THEN id[n] = n /\ cnt_discovery[n] >= 1
                    ELSE id[n] = None /\ cnt_discovery[n] = 0

\* No device is found twice ("skip if the device was discovered already"), even
\* when several devices connect through the same slot.
NoDuplicateSlots ==
  \A m, n \in Slot : m < cnt_ssms /\ n < cnt_ssms /\ addr[m] = addr[n] => m = n

\* Connections only ever refer to slots of the table that hold an address, and
\* at most the slot after the last counted one ("address offset relative to
\* p_ssms_env").
LinksInTable == \A n \in Slot : InUse(n) => n <= cnt_ssms /\ addr[n] # None

\* The table is an index of distinct devices, and links lie in it: what counts a slot in
\* send_login_cmd_to_ssm and what looks a connection up rely on each other.
TableSound == SlotDiscipline /\ NoDuplicateSlots /\ LinksInTable

\* The array of ssm_init is large enough ("maximum 8 SSM devices").
InBounds == cnt_ssms <= SSM_MAX_NUM /\ addr[SSM_MAX_NUM] = None

\* Something will still happen on d's link: the discovery ends, a notification waits, the
\* link has been terminated, or the device is logged in and reports its changes.
Due(d) ==
  link[d] # None /\ (closing[d] \/ up[d] # <<>> \/ phase[d] \in {"discovering", "auth"})

\* d is linked, and the discovery of its services could not be started.
Undiscovered(d) == link[d] # None /\ phase[d] = "idle"

\* d is linked through a slot that says it is not, because another link through the
\* same slot has ended (or peer_add was refused).
Orphaned(d) == link[d] # None /\ device_status[link[d]] = SSM_DISCONNECTED

\* The host task scans, dials, or has a link on which something is still due that
\* resumes the scan or dials again.  A link on which nothing is due, such as that of a
\* device that refuses the login, does not count: whoever stopped the scan for it owes
\* its resumption.  The program breaks this in two ways only: a discovery that cannot be
\* started is not reported to anybody, and the end of a link through a shared slot
\* stops the scan to reconnect a device that is linked already.
NeverDeaf ==
  \/ scanning \/ connecting # None
  \/ \E d \in Device : Due(d) \/ Undiscovered(d) \/ Orphaned(d)

-----------------------------------------------------------------------------
(* The table implements the list of known devices.                         *)

known == [i \in 1 .. cnt_ssms |-> addr[i - 1]]

R == INSTANCE Registry WITH known <- known

RegistrySpec == R!Spec

\* Only a reboot forgets a device or changes the address, the index or the
\* position of a counted slot, whatever connects, fails or is saved meanwhile.
CountedSlotsAreStable ==
  [][cnt_ssms' = 0 \/ \A n \in Counted : n < cnt_ssms' /\ addr'[n] = addr[n] /\ id'[n] = id[n]]_vars

-----------------------------------------------------------------------------
(* Liveness, under FairSpec and finitely many faults                       *)

\* The scan always resumes, whichever connection attempt or link stopped it, unless the
\* discovery on a link cannot be started, and then as soon as that link is lost.
ScanResumes == []<>(scanning \/ \E d \in Device : Undiscovered(d))

\* The gateway holds the secret of d: in its slot once it is counted, in flash before.
Agreed(d) ==
  /\ key[d] # None
  /\ IF IsKnown(d) THEN \E n \in Counted : addr[n] = d /\ device_secret[n] = key[d]
                   ELSE nvs[d] # None /\ nvs[d].secret = key[d]

\* The answer to the registration is lost with the link, or a reboot comes before it
\* is in flash: nobody but d has its secret.
AnswerLost(d) ==
  /\ key[d] # None /\ \A i \in DOMAIN up[d] : up[d][i] # "REGISTRATION"
  /\ nvs[d] = None \/ nvs[d].secret # key[d]
  /\ \A n \in Slot : device_secret[n] # key[d]

\* The slot of a device that was reset keeps the secret from before: the gateway
\* logs in with it, and the device, which waits for a registration, is silent.
ResetUnnoticed(d) == key[d] = None /\ \E n \in Slot : addr[n] = d /\ device_secret[n] # None

\* d's link is up and will stay so, but nobody discovers its services.
LeftIdle(d) == link[d] # None /\ phase[d] \in {"refused", "idle"}

\* A supported device that nobody has registered is found, registered and counted with
\* the secret it has itself, whatever connection attempts, links and writes to flash
\* fail on the way, unless the answer to its registration is lost, the slot remembers
\* it from before a reset, or, until its link is lost, its discovery was not started.
NewDeviceIsFound ==
  \A d \in Device :
    key[d] = None ~> \/ IsKnown(d) /\ Agreed(d)
                     \/ AnswerLost(d) \/ ResetUnnoticed(d) \/ LeftIdle(d)

\* The link of d's own slot is up and the device has accepted its login.
LoggedIn(d) ==
  /\ phase[d] = "auth" /\ link[d] # None /\ addr[link[d]] = d
  /\ device_status[link[d]] = SSM_LOCKED

\* A counted device without a link or an attempt to connect: the scan skips it, and
\* nothing connects to it again.
GivenUp(d) == IsKnown(d) /\ link[d] = None /\ (connecting = None \/ connecting.dev # d)

\* A device whose secret the gateway holds logs in again after every loss of its link
\* and after every restart, unless the one attempt to reconnect fails (reconnect_ssm),
\* the secret is a good one that starts with a zero byte (ssm_initial_handle) or, until
\* the link is lost, the discovery was not started.
LockComesBack ==
  \A d \in Device :
    Agreed(d) ~> \/ LoggedIn(d) \/ ~Agreed(d)
                 \/ GivenUp(d) \/ NoSecret(key[d]) \/ LeftIdle(d)
=============================================================================
