------------------------------ MODULE TouchCmd ------------------------------
(***************************************************************************)
(* The MQTT commands to a SESAME Touch, which sleeps disconnected and is   *)
(* woken for each command: wake_up, the write, disconnect.                 *)
(*                                                                         *)
(* Two tasks share the touch's slot without a lock.  mqtt_event_handler    *)
(* runs in the MQTT task; the callbacks of blecent.c run in the NimBLE     *)
(* host task, which has the higher priority on the one core and so runs    *)
(* between any two steps of the MQTT task.  The host task gives way only   *)
(* where it sleeps: 600 ms in the disconnection callback, and while it     *)
(* waits for a publication.  The touch is registered, counted and          *)
(* subscribed, and the pairing partner is logged in or not.                *)
(***************************************************************************)
EXTENDS Naturals, Sequences

CONSTANTS
  Commands,       \* the commands Home Assistant sends
  Slow,           \* may a wake-up take longer than the 10 s it is waited for?
  Hurried,        \* may a command arrive before a terminated link has ended?
  MaxCmd,         \* bound: commands
  MaxFaults,      \* bound: links lost and connection attempts failed
  MaxOther        \* bound: what other devices do to the GAP procedures

Pairing == {"add_sesame", "remove_sesame"}
Adding == {"add_finger", "add_card"}
Verifying == {"verify_finger", "verify_card"}
OfFinger == {"add_finger", "verify_finger"}
OfCard == {"add_card", "verify_card"}

ASSUME TouchAssumption ==
  /\ Commands \subseteq Pairing \cup Adding \cup Verifying \cup
                        {"disconnect_touch", "reconnect_touch", "battery_update"}
  /\ Slow \in BOOLEAN /\ Hurried \in BOOLEAN
  /\ MaxCmd \in Nat /\ MaxFaults \in Nat /\ MaxOther \in Nat

Writing == Pairing \cup Adding \cup Verifying
Dismissing == Pairing \cup Verifying \cup {"disconnect_touch", "battery_update"}

\* device_status_t; SSM_LOCKED stands for LOCKED, UNLOCKED and MOVED.
SSM_DISCONNECTED == 1
SSM_CONNECTED == 4
SSM_LOGGIN == 5
SSM_LOCKED == 6

VARIABLES
  device_status, conn_id, update_status, disconnect_forever, add_finger, add_card,
                            \* fields of the touch's slot; conn_id: in use or 0xFF
  scanning, connecting,     \* GAP procedures
  link, closing, phase, up, \* the connection: up, terminated, progress, notifications
  finger_mode, card_mode,   \* the mode bytes that the touch took last
  host,                     \* the host task: ready or sleeping inside a callback
  pc, cmd,                  \* the MQTT task
  news,                     \* history: a mech status arrived during this wake_up
  cmds, faults, others

flags == <<add_finger, add_card>>
slot == <<device_status, conn_id, update_status, disconnect_forever, flags>>
modes == <<finger_mode, card_mode>>
gap == <<scanning, connecting>>
conn == <<link, closing, phase, up>>
mqtt == <<pc, cmd, cmds>>
vars == <<slot, gap, conn, modes, host, mqtt, news, faults, others>>

Steps == {"idle", "clear", "branch", "cancel", "connect", "terminate", "wait",
          "check", "write", "pause", "test", "flag", "hangup", "panic"}

Notification == {"INITIAL", "LOGIN", "MECH_STATUS", "RESPONSE"}

SlotType ==
  /\ device_status \in {SSM_DISCONNECTED, SSM_CONNECTED, SSM_LOGGIN, SSM_LOCKED}
  /\ conn_id \in {"handle", "0xFF"}

FlagType ==
  /\ update_status \in BOOLEAN /\ disconnect_forever \in BOOLEAN
  /\ add_finger \in BOOLEAN /\ add_card \in BOOLEAN /\ news \in BOOLEAN
  /\ scanning \in BOOLEAN /\ link \in BOOLEAN /\ closing \in BOOLEAN

LinkType ==
  /\ connecting \in {"nobody", "touch", "other"}
  /\ phase \in {"idle", "discovering", "open", "auth"} /\ up \in Seq(Notification)
  /\ finger_mode \in 0 .. 2 /\ card_mode \in 0 .. 2

TaskType ==
  /\ host \in {"ready", "delay", "publishing"}
  /\ pc \in Steps /\ cmd \in Commands \cup {"none"}
  /\ cmds \in 0 .. MaxCmd /\ faults \in 0 .. MaxFaults /\ others \in 0 .. MaxOther

TypeOK == SlotType /\ FlagType /\ LinkType /\ TaskType

\* The touch has been found, subscribed and dismissed.
Init ==
  /\ device_status = SSM_DISCONNECTED /\ conn_id = "0xFF"
  /\ update_status \in BOOLEAN /\ disconnect_forever = FALSE
  /\ add_finger = FALSE /\ add_card = FALSE /\ finger_mode = 0 /\ card_mode = 0
  /\ scanning = TRUE /\ connecting = "nobody"
  /\ link = FALSE /\ closing = FALSE /\ phase = "discovering" /\ up = <<>>
  /\ host = "ready"
  /\ pc = "idle" /\ cmd = "none" /\ news = FALSE
  /\ cmds = 0 /\ faults = 0 /\ others = 0

-----------------------------------------------------------------------------
(* The MQTT task: MQTT_EVENT_DATA on the touch's command topic.            *)

Dismissal == IF cmd \in Dismissing THEN "test" ELSE "idle"

\* A pairing whose partner is not found goes straight to disconnect.
Receive(c) ==
  /\ pc = "idle" /\ cmds < MaxCmd /\ (Hurried \/ ~closing)
  /\ cmd' = c /\ cmds' = cmds + 1
  /\ \/ c # "disconnect_touch" /\ pc' = "clear"
     \/ c \in Pairing \cup {"disconnect_touch"} /\ pc' = "test"
  /\ UNCHANGED <<slot, gap, conn, modes, host, news, faults, others>>

\* Mutant: wake_up trusts the last update_status.
ClearNothing ==
  /\ pc = "clear" /\ pc' = "branch" /\ news' = FALSE
  /\ UNCHANGED <<slot, gap, conn, modes, host, cmd, cmds, faults, others>>

\* wake_up: update_status = 0
Clear ==
  /\ pc = "clear" /\ pc' = "branch"
  /\ update_status' = FALSE /\ news' = FALSE
  /\ UNCHANGED <<device_status, conn_id, disconnect_forever, flags, gap, conn, modes,
                 host, cmd, cmds, faults, others>>

\* reconnect: "reconnect if is disconnected", else "disconnect to trigger
\* reconnect automatically"
Branch ==
  /\ pc = "branch"
  /\ pc' = IF device_status <= SSM_DISCONNECTED THEN "cancel" ELSE "terminate"
  /\ UNCHANGED <<slot, gap, conn, modes, host, cmd, cmds, news, faults, others>>

\* ble_gap_disc_cancel
Cancel ==
  /\ pc = "cancel" /\ pc' = "connect"
  /\ scanning' = FALSE
  /\ UNCHANGED <<slot, connecting, conn, modes, host, cmd, cmds, news, faults, others>>

\* ble_gap_connect in reconnect_ssm: EALREADY while connecting, EBUSY while
\* scanning, EDONE while connected; no failure is handled.
ConnectTouch ==
  IF connecting = "nobody" /\ ~scanning /\ ~link THEN "touch" ELSE connecting

Connect ==
  /\ pc = "connect" /\ pc' = "wait"
  /\ connecting' = ConnectTouch
  /\ UNCHANGED <<slot, scanning, conn, modes, host, cmd, cmds, news, faults, others>>

\* ble_gap_terminate on the handle that the slot holds now
HangUp == closing' = (closing \/ (conn_id = "handle" /\ link))

Terminate ==
  /\ pc = "terminate" /\ pc' = "wait"
  /\ HangUp
  /\ UNCHANGED <<slot, gap, link, phase, up, modes, host, cmd, cmds, news, faults, others>>

\* wait_for_status_update polls every 100 ms, 100 times.
WaitSucceeds ==
  /\ pc = "wait" /\ update_status
  /\ pc' = IF cmd \in Writing THEN "check" ELSE Dismissal
  /\ UNCHANGED <<slot, gap, conn, modes, host, cmd, cmds, news, faults, others>>

\* Mutant: a wake-up that times out is tried again.
WaitTriesAgain ==
  /\ pc = "wait" /\ ~update_status /\ Slow
  /\ pc' = "clear"
  /\ UNCHANGED <<slot, gap, conn, modes, host, cmd, cmds, news, faults, others>>

WaitTimesOut ==
  /\ pc = "wait" /\ ~update_status /\ Slow
  /\ pc' = Dismissal
  /\ UNCHANGED <<slot, gap, conn, modes, host, cmd, cmds, news, faults, others>>

\* Mutant: the two flags of the slot are one.
CheckMergesFlags ==
  /\ pc = "check"
  /\ add_finger' = (cmd \in Adding \/ (cmd \in Pairing /\ add_finger))
  /\ add_card' = add_finger'
  /\ \/ device_status >= SSM_LOGGIN /\ pc' = "write"
     \/ (device_status < SSM_LOGGIN \/ cmd \in Pairing) /\ pc' = "pause"
  /\ UNCHANGED <<device_status, conn_id, update_status, disconnect_forever, gap, conn,
                 modes, host, cmd, cmds, news, faults, others>>

\* tch_add_sesame and the others: the flag of the command's kind is set or cleared,
\* then the status is tested, that of the partner too.
Check ==
  /\ pc = "check"
  /\ add_finger' = IF cmd \in OfFinger THEN cmd = "add_finger" ELSE add_finger
  /\ add_card' = IF cmd \in OfCard THEN cmd = "add_card" ELSE add_card
  /\ \/ device_status >= SSM_LOGGIN /\ pc' = "write"
     \/ (device_status < SSM_LOGGIN \/ cmd \in Pairing) /\ pc' = "pause"
  /\ UNCHANGED <<device_status, conn_id, update_status, disconnect_forever, gap, conn,
                 modes, host, cmd, cmds, news, faults, others>>

\* b_buf[1] of tch_finger_add, tch_finger_verify, tch_card_add and tch_card_verify
ModeByte(c) == CASE c \in Adding -> 1 [] c = "verify_finger" -> 2 [] c = "verify_card" -> 0

\* talk_to_ssm; without a peer, esp_ble_gatt_write dereferences NULL.  The touch
\* obeys and answers when the session is logged in.
Write ==
  /\ pc = "write"
  /\ IF conn_id = "handle" /\ link
     THEN /\ pc' = "pause"
          /\ finger_mode' = IF phase = "auth" /\ cmd \in OfFinger THEN ModeByte(cmd)
                                                             ELSE finger_mode
          /\ card_mode' = IF phase = "auth" /\ cmd \in OfCard THEN ModeByte(cmd)
                                                         ELSE card_mode
          /\ up' = IF phase = "auth" THEN Append(up, "RESPONSE") ELSE up
     ELSE pc' = "panic" /\ UNCHANGED <<modes, up>>
  /\ UNCHANGED <<slot, gap, link, closing, phase, host, cmd, cmds, news, faults, others>>

\* vTaskDelay(200)
Pause ==
  /\ pc = "pause" /\ pc' = Dismissal
  /\ UNCHANGED <<slot, gap, conn, modes, host, cmd, cmds, news, faults, others>>

\* Mutant: disconnect terminates without disconnect_forever.
TestWithoutFlag ==
  /\ pc = "test"
  /\ pc' = IF device_status > SSM_DISCONNECTED THEN "hangup" ELSE "idle"
  /\ UNCHANGED <<slot, gap, conn, modes, host, cmd, cmds, news, faults, others>>

\* disconnect: "disconnect if is connected"
Test ==
  /\ pc = "test"
  /\ pc' = IF device_status > SSM_DISCONNECTED THEN "flag" ELSE "idle"
  /\ UNCHANGED <<slot, gap, conn, modes, host, cmd, cmds, news, faults, others>>

Flag ==
  /\ pc = "flag" /\ pc' = "hangup"
  /\ disconnect_forever' = TRUE
  /\ UNCHANGED <<device_status, conn_id, update_status, flags, gap, conn, modes, host,
                 cmd, cmds, news, faults, others>>

Dismiss ==
  /\ pc = "hangup" /\ pc' = "idle"
  /\ HangUp
  /\ UNCHANGED <<slot, gap, link, phase, up, modes, host, cmd, cmds, news, faults, others>>

MqttStep ==
  \/ Clear \/ Branch \/ Cancel \/ Connect \/ Terminate \/ WaitSucceeds
  \/ WaitTimesOut \/ Check \/ Write \/ Pause \/ Test \/ Flag \/ Dismiss

-----------------------------------------------------------------------------
(* The host task                                                           *)

\* Mutant: the callback does not store the handle.
ConnectedWithoutHandle ==
  /\ host = "ready" /\ connecting = "touch" /\ connecting' = "nobody"
  /\ link' = TRUE /\ device_status' = SSM_CONNECTED
  /\ UNCHANGED <<conn_id, update_status, disconnect_forever, flags, scanning, closing,
                 phase, up, modes, host, mqtt, news, faults, others>>

\* ble_gap_event_connect_handle
Connected ==
  /\ host = "ready" /\ connecting = "touch" /\ connecting' = "nobody"
  /\ link' = TRUE
  /\ device_status' = SSM_CONNECTED /\ conn_id' = "handle"
  /\ UNCHANGED <<update_status, disconnect_forever, flags, scanning, closing, phase, up,
                 modes, host, mqtt, news, faults, others>>

\* peer_disc_all cannot start the discovery: no notification will ever come.  (peer_add
\* has room for more peers than the controller has links.)
DiscoveryRefused ==
  /\ host = "ready" /\ connecting = "touch" /\ connecting' = "nobody"
  /\ faults < MaxFaults /\ faults' = faults + 1
  /\ link' = TRUE /\ phase' = "idle"
  /\ device_status' = SSM_CONNECTED /\ conn_id' = "handle"
  /\ UNCHANGED <<update_status, disconnect_forever, flags, scanning, closing, up, modes,
                 host, mqtt, news, others>>

ConnectFailed ==
  /\ host = "ready" /\ connecting = "touch" /\ connecting' = "nobody"
  /\ faults < MaxFaults /\ faults' = faults + 1
  /\ scanning' = TRUE
  /\ UNCHANGED <<slot, conn, modes, host, mqtt, news, others>>

\* ssm_enable_notify after the service discovery
NotifyEnabled ==
  /\ host = "ready" /\ link /\ phase = "discovering" /\ ~closing
  /\ phase' = "open" /\ up' = <<"INITIAL">>
  /\ UNCHANGED <<slot, gap, link, closing, modes, host, mqtt, news, faults, others>>

\* BLE_GAP_EVENT_NOTIFY_RX: every notification clears update_status, a mech status
\* sets it, and sync_cb resumes the scan unless a connection attempt is under way.
Notified(item) ==
  /\ host = "ready" /\ link /\ up # <<>> /\ Head(up) = item
  /\ update_status' = (item = "MECH_STATUS")
  /\ scanning' = (scanning \/ connecting = "nobody")
  /\ UNCHANGED <<conn_id, disconnect_forever, flags, connecting, link, closing, modes,
                 host, mqtt, faults, others>>

\* ssm_initial_handle, and the touch accepts the login
Initial ==
  /\ Notified("INITIAL")
  /\ phase' = "auth" /\ up' = Tail(up) \o <<"LOGIN", "MECH_STATUS">>
  /\ UNCHANGED <<device_status, news>>

LoginDone ==
  /\ Notified("LOGIN")
  /\ device_status' = SSM_LOGGIN
  /\ up' = Tail(up) /\ UNCHANGED <<phase, news>>

MechStatus ==
  /\ Notified("MECH_STATUS")
  /\ device_status' = SSM_LOCKED /\ news' = TRUE
  /\ up' = Tail(up) /\ UNCHANGED phase

Response ==
  /\ Notified("RESPONSE")
  /\ up' = Tail(up) /\ UNCHANGED <<device_status, phase, news>>

\* Mutant: the flag stays.
KeepFlag == UNCHANGED disconnect_forever

\* The callback takes the flag back.
ClearFlag == disconnect_forever' = FALSE

\* BLE_GAP_EVENT_DISCONNECT: terminated by the ESP32, or lost
Disconnected ==
  /\ host = "ready" /\ link
  /\ \/ closing /\ UNCHANGED faults
     \/ faults < MaxFaults /\ faults' = faults + 1
  /\ link' = FALSE /\ closing' = FALSE /\ phase' = "discovering" /\ up' = <<>>
  /\ device_status' = SSM_DISCONNECTED /\ conn_id' = "0xFF"
  /\ ClearFlag
  /\ IF disconnect_forever THEN UNCHANGED <<scanning, host>>
                           ELSE scanning' = FALSE /\ host' = "delay"
  /\ UNCHANGED <<update_status, flags, connecting, modes, mqtt, news, others>>

\* vTaskDelay(600) is over: reconnect_ssm
DelayOver ==
  /\ host = "delay" /\ host' = "ready"
  /\ connecting' = ConnectTouch
  /\ UNCHANGED <<slot, scanning, conn, modes, mqtt, news, faults, others>>

HostStep ==
  \/ Connected \/ DiscoveryRefused \/ ConnectFailed \/ NotifyEnabled \/ Initial
  \/ LoginDone \/ MechStatus \/ Response \/ Disconnected \/ DelayOver

-----------------------------------------------------------------------------
(* Other devices: a notification resumes the scan; an advertisement starts *)
(* a connection, which fails or whose first notification resumes the scan; *)
(* once a minute an advertisement publishes RSSIs, and wait_published      *)
(* blocks the host task until the MQTT task has seen the acknowledgement   *)
(* or for 3 s.                                                             *)

Other ==
  /\ host = "ready" /\ others < MaxOther /\ others' = others + 1
  /\ \/ scanning' = (scanning \/ connecting = "nobody") /\ UNCHANGED <<connecting, host>>
     \/ scanning /\ scanning' = FALSE /\ connecting' = "other" /\ UNCHANGED host
     \/ scanning /\ host' = "publishing" /\ UNCHANGED gap
  /\ UNCHANGED <<slot, conn, modes, mqtt, news, faults>>

OtherDone ==
  /\ \/ /\ host = "ready" /\ connecting = "other"
        /\ connecting' = "nobody" /\ scanning' = TRUE /\ UNCHANGED host
     \/ host = "publishing" /\ host' = "ready" /\ UNCHANGED gap
  /\ UNCHANGED <<slot, conn, modes, mqtt, news, faults, others>>

Next == HostStep \/ MqttStep \/ Other \/ OtherDone \/ \E c \in Commands : Receive(c)

Spec == Init /\ [][Next]_vars

\* Both tasks run, the touch answers, and a terminated link ends.
Fairness ==
  /\ WF_vars(MqttStep) /\ WF_vars(OtherDone) /\ WF_vars(DelayOver)
  /\ WF_vars(Connected) /\ WF_vars(NotifyEnabled)
  /\ WF_vars(Initial \/ LoginDone \/ MechStatus \/ Response)
  /\ WF_vars(closing /\ Disconnected)

FairSpec == Spec /\ Fairness

-----------------------------------------------------------------------------
(* Properties                                                              *)

\* What the MQTT task reads from the slot agrees with the connection: a status
\* above DISCONNECTED and a handle exactly while the link is up, and a status of
\* at least LOGGIN only in a session that the touch has accepted.
StatusTracksLink ==
  /\ device_status > SSM_DISCONNECTED <=> link
  /\ conn_id = "handle" <=> link
  /\ device_status >= SSM_LOGGIN => phase = "auth"

\* A wake-up that succeeds has seen a mech status that arrived after it began,
\* whichever way the two tasks write update_status.
WokenByNews == pc \in {"check", "write"} => news

\* How ssm_parse_response reads a mode byte: "verify" is 0, "add" any other.
ReadsAdd(byte) == byte # 0

\* Between commands the two flags of the slot agree with the modes of the touch, each with
\* its own.  tch_finger_verify sends 2, which ssm_parse_response would read as "add": the
\* finger's flag tells whether the byte of tch_finger_add was the last one, the card's
\* how ssm_parse_response reads the mode.
ModesAgree ==
  pc = "idle" => (add_finger <=> finger_mode = 1) /\ (add_card <=> ReadsAdd(card_mode))

\* A wake-up of a touch in range is answered: it connects or, connected, is
\* disconnected "to trigger reconnect automatically".
WakeSucceeds == pc = "wait" ~> pc # "wait"

\* Every command ends: no wait of the MQTT task is for ever.
CommandEnds == pc # "idle" ~> pc \in {"idle", "panic"}

\* After a command that dismisses the touch, it is disconnected and stays so until
\* the next command ("disconnect sesame touch or touch pro for power saving").
Asleep == ~link /\ connecting # "touch" /\ host # "delay"

TouchSleeps == pc = "idle" /\ cmd \in Dismissing ~> Asleep \/ pc # "idle"
=============================================================================
