-------------------------------- MODULE Mqtt --------------------------------
(***************************************************************************)
(* The ESP32 and Home Assistant (mqtt_section.c): the two starts of the    *)
(* MQTT client, the announcement of the entities of every device that has  *)
(* logged in (mqtt_discovery), the subscription to their commands          *)
(* (mqtt_subscribe) and the events of the client.  The host task publishes *)
(* and waits, the MQTT task handles the events.  The client library, with  *)
(* its outbox, and the broker with its retained messages and the session   *)
(* it keeps for the ESP32 are external.                                    *)
(*                                                                         *)
(* The bodies of commands that need the radio are in TouchCmd and SsmLink. *)
(***************************************************************************)
EXTENDS Naturals, Sequences, FiniteSets, SequencesExt

CONSTANTS
  Locks, Touches,     \* devices, by product
  NMax,               \* polls of wait_published: 30
  Faults,             \* what may happen: some of "down", "reboot", "forget"
  MaxFaults, MaxCommands   \* bounds

ASSUME MqttAssumption ==
  /\ Locks \cap Touches = {} /\ NMax \in Nat \ {0} /\ {MaxFaults, MaxCommands} \subseteq Nat
  /\ Faults \subseteq {"down", "reboot", "forget"}

Devices == Locks \cup Touches

\* An entity, with the topic below homeassistant/<device> that takes its commands.
Sensor(name) == [name |-> name, cmd_t |-> "none", action |-> "none"]
Control(name, cmd_t, action) == [name |-> name, cmd_t |-> cmd_t, action |-> action]

LockSensors ==
  <<Control("lock", "set", "lock"), Sensor("battery"), Sensor("position"),
    Control("lock_position", "set/lock_position", "set_lock_position"),
    Control("unlock_position", "set/unlock_position", "set_unlock_position")>>
LockButtons ==
  <<Control("horizon_calibration", "set", "magnet"), Control("qr_code_text", "set", "gen_qr_code_text"),
    Control("gen_qr_code_text", "set", "gen_qr_code_text")>>
TouchTexts ==
  <<Sensor("battery"), Control("add_sesame", "set", "add_sesame"),
    Control("remove_sesame", "set", "remove_sesame")>>
TouchButtons ==
  <<Control("qr_code_text", "set", "gen_qr_code_text"), Control("gen_qr_code_text", "set", "gen_qr_code_text"),
    Control("battery_update", "set", "battery_update")>>

\* What mqtt_discovery publishes for a device, in order.
Configs(d) ==
  (IF d \in Locks THEN LockSensors \o LockButtons ELSE TouchTexts \o TouchButtons) \o <<Sensor("rssi")>>

\* The branches of MQTT_EVENT_DATA that use ssm, and those that use tch.
SsmActions == {"lock", "unlock", "magnet", "set_lock_position", "set_unlock_position"}
TchActions == {"add_sesame", "remove_sesame", "battery_update"}

Call(kind, t) == [kind |-> kind, t |-> t]
State(t) == Call("state", t)

\* Mutant: the retained command is cleared after the subscription.
SubscribeFirst(d, new) ==
  <<Call("subscribe", "set")>> \o (IF new THEN <<Call("clear", "set")>> ELSE <<>>)
    \o <<State("qr_code_text")>> \o (IF d \in Locks THEN
           <<Call("subscribe", "set/lock_position"), Call("subscribe", "set/unlock_position")>> ELSE <<>>)

\* Mutant: one topic for the two positions.
OnePosition(d, new) ==
  (IF new THEN <<Call("clear", "set")>> ELSE <<>>)
    \o <<Call("subscribe", "set"), State("qr_code_text"), Call("subscribe", "set/lock_position")>>

\* The calls that mqtt_subscribe makes for a device, in order.
Calls(d, new) ==
  LET Command(t) == (IF new THEN <<Call("clear", t)>> ELSE <<>>) \o <<Call("subscribe", t)>>
  IN  Command("set") \o (IF new THEN <<Call("clear", "state")>> ELSE <<>>) \o <<State("qr_code_text")>>
        \o (IF d \in Locks THEN Command("set/lock_position") \o Command("set/unlock_position")
            ELSE <<State("add_sesame"), State("remove_sesame")>>)

VARIABLES
  phase,              \* of mqtt_start: "clean", "persistent", "run"
  mqtt_init_done,
  known,              \* the devices counted in cnt_ssms, in order
  is_new, mqtt_discovery_done, mqtt_subscribe_done,   \* flags of slots, as sets of devices
  registered,         \* NVS: devices registered by this ESP32
  pc, n, k, polls,    \* the host task in mqtt_discovery and mqtt_subscribe
  published,          \* msg_id = msg_id_subscribed, as wait_published reads it
  connected, outbox,  \* the client: messages not yet acknowledged
  session, subs, queue,   \* the broker: kind of session, topics subscribed, commands kept for it
  retained,           \* the broker: retained messages as <<device, topic>>
  obeyed, crashed,    \* history: commands obeyed, a NULL pointer used
  boots, faults, commands

slots == <<known, is_new, mqtt_discovery_done, mqtt_subscribe_done, registered>>
host == <<pc, n, k, polls>>
client == <<connected, outbox>>
broker == <<session, subs, queue, retained>>
hist == <<obeyed, crashed, boots, faults, commands>>
vars == <<phase, mqtt_init_done, slots, host, published, client, broker, hist>>

\* A retained command from before the registration of each device.
OldCommands == {<<d, "set">> : d \in Devices}

Init ==
  /\ phase = "clean" /\ mqtt_init_done = FALSE
  /\ known = <<>> /\ is_new = {} /\ mqtt_discovery_done = {} /\ mqtt_subscribe_done = {} /\ registered = {}
  /\ pc = "idle" /\ n = 0 /\ k = 0 /\ polls = 0 /\ published = FALSE
  /\ connected = FALSE /\ outbox = <<>>
  /\ session = "none" /\ subs = {} /\ queue = <<>> /\ retained = OldCommands
  /\ obeyed = {} /\ crashed = FALSE /\ boots = 0 /\ faults = 0 /\ commands = 0

-----------------------------------------------------------------------------
(* mqtt_start.                                                             *)

\* Mutant: the first start keeps the session too.
ConnectKeeps ==
  /\ ~connected /\ connected' = TRUE /\ mqtt_init_done' = TRUE
  /\ session' = "persistent"
  /\ UNCHANGED <<phase, slots, host, published, outbox, subs, queue, retained, hist>>

\* The client connects, for the first time or again; MQTT_EVENT_CONNECTED.  The broker
\* forgets a clean session and keeps a persistent one.
Connect ==
  /\ ~connected /\ connected' = TRUE /\ mqtt_init_done' = TRUE
  /\ IF phase = "clean"
     THEN session' = "clean" /\ subs' = {} /\ queue' = <<>>
     ELSE session' = "persistent" /\ UNCHANGED <<subs, queue>>
  /\ UNCHANGED <<phase, slots, host, published, outbox, retained, hist>>

\* The first start is done: the client is destroyed and started with a persistent session.
CleanDone ==
  /\ phase = "clean" /\ mqtt_init_done
  /\ phase' = "persistent" /\ mqtt_init_done' = FALSE /\ connected' = FALSE /\ outbox' = <<>>
  /\ UNCHANGED <<slots, host, published, broker, hist>>

\* The second start is done; the host task may run.
PersistentDone ==
  /\ phase = "persistent" /\ mqtt_init_done /\ phase' = "run"
  /\ UNCHANGED <<mqtt_init_done, slots, host, published, client, broker, hist>>

\* Power fails, or a start takes 60 s: all but the NVS and the broker is lost.
Reboot ==
  /\ "reboot" \in Faults /\ faults < MaxFaults /\ faults' = faults + 1 /\ boots' = boots + 1
  /\ phase' = "clean" /\ mqtt_init_done' = FALSE
  /\ known' = <<>> /\ is_new' = {} /\ mqtt_discovery_done' = {} /\ mqtt_subscribe_done' = {}
  /\ pc' = "idle" /\ n' = 0 /\ k' = 0 /\ polls' = 0 /\ published' = FALSE
  /\ connected' = FALSE /\ outbox' = <<>>
  /\ UNCHANGED <<registered, broker, obeyed, crashed, commands>>

-----------------------------------------------------------------------------
(* The host task.                                                          *)

\* send_login_cmd_to_ssm counts a device, which registered just now if it was not before.
LogIn(d) ==
  /\ phase = "run" /\ pc = "idle" /\ d \notin ToSet(known)
  /\ known' = Append(known, d)
  /\ registered' = registered \cup {d}
  /\ is_new' = IF d \in registered THEN is_new ELSE is_new \cup {d}
  /\ UNCHANGED <<phase, mqtt_init_done, mqtt_discovery_done, mqtt_subscribe_done, host, published, client, broker, hist>>

\* BLE_GAP_EVENT_NOTIFY_RX with a status: mqtt_discovery and mqtt_subscribe.
Status ==
  /\ pc = "idle" /\ ToSet(known) \ mqtt_subscribe_done # {}
  /\ pc' = "discover" /\ n' = 1 /\ k' = 1
  /\ UNCHANGED <<phase, mqtt_init_done, slots, polls, published, client, broker, hist>>

\* The loops: the slot is done already, or the last was reached.
Skip ==
  /\ pc \in {"discover", "subscribe"} /\ n <= Len(known)
  /\ known[n] \in IF pc = "discover" THEN mqtt_discovery_done ELSE mqtt_subscribe_done
  /\ n' = n + 1
  /\ UNCHANGED <<phase, mqtt_init_done, slots, pc, k, polls, published, client, broker, hist>>

\* Mutant: the loop ends before the last slot.
LoopEndsEarly ==
  /\ pc \in {"discover", "subscribe"} /\ n >= Len(known)
  /\ pc' = IF pc = "discover" THEN "subscribe" ELSE "idle"
  /\ n' = 1 /\ k' = 1
  /\ UNCHANGED <<phase, mqtt_init_done, slots, polls, published, client, broker, hist>>

LoopEnds ==
  /\ pc \in {"discover", "subscribe"} /\ n > Len(known)
  /\ pc' = IF pc = "discover" THEN "subscribe" ELSE "idle"
  /\ n' = 1 /\ k' = 1
  /\ UNCHANGED <<phase, mqtt_init_done, slots, polls, published, client, broker, hist>>

\* esp_mqtt_client_publish and esp_mqtt_client_subscribe: a publication of QoS 2 waits in
\* the outbox for the connection, the others fail without one.
Message(kind, d, t) == [kind |-> kind, dev |-> d, t |-> t, taken |-> FALSE, awaited |-> kind = "config"]
Sent(box, m) == IF m.kind \in {"config", "state"} \/ connected THEN Append(box, m) ELSE box
Unawaited(box) == [i \in DOMAIN box |-> [box[i] EXCEPT !.awaited = FALSE]]

\* The next configuration.  Its id is random: it may be the one acknowledged last.
Discover ==
  /\ pc = "discover" /\ n <= Len(known) /\ known[n] \notin mqtt_discovery_done
  /\ k <= Len(Configs(known[n]))
  /\ outbox' = Sent(Unawaited(outbox), Message("config", known[n], Configs(known[n])[k].name))
  /\ pc' = "wait" /\ polls' = 0 /\ published' \in BOOLEAN
  /\ UNCHANGED <<phase, mqtt_init_done, slots, n, k, connected, broker, hist>>

\* Mutant: no limit.
PollForever ==
  /\ pc = "wait" /\ published /\ pc' = "discover" /\ k' = k + 1
  /\ UNCHANGED <<phase, mqtt_init_done, slots, n, polls, published, client, broker, hist>>

\* wait_published: one turn; its result is not used.
Poll ==
  /\ pc = "wait"
  /\ IF published \/ polls = NMax THEN pc' = "discover" /\ k' = k + 1 /\ UNCHANGED polls
     ELSE polls' = polls + 1 /\ UNCHANGED <<pc, k>>
  /\ UNCHANGED <<phase, mqtt_init_done, slots, n, published, client, broker, hist>>

\* Mutant: the flag is set before the last configuration.
DiscoveredEarly ==
  /\ pc = "discover" /\ n <= Len(known) /\ known[n] \notin mqtt_discovery_done
  /\ k >= Len(Configs(known[n]))
  /\ mqtt_discovery_done' = mqtt_discovery_done \cup {known[n]} /\ n' = n + 1 /\ k' = 1
  /\ UNCHANGED <<phase, mqtt_init_done, known, is_new, mqtt_subscribe_done, registered, pc, polls, published, client, broker, hist>>

Discovered ==
  /\ pc = "discover" /\ n <= Len(known) /\ known[n] \notin mqtt_discovery_done
  /\ k > Len(Configs(known[n]))
  /\ mqtt_discovery_done' = mqtt_discovery_done \cup {known[n]} /\ n' = n + 1 /\ k' = 1
  /\ UNCHANGED <<phase, mqtt_init_done, known, is_new, mqtt_subscribe_done, registered, pc, polls, published, client, broker, hist>>

\* The next call of mqtt_subscribe, which waits for none.
Subscribe ==
  /\ pc = "subscribe" /\ n <= Len(known) /\ known[n] \notin mqtt_subscribe_done
  /\ LET d == known[n]
         calls == Calls(d, d \in is_new)
     IN  /\ k <= Len(calls)
         /\ outbox' = Sent(outbox, Message(calls[k].kind, d, calls[k].t))
  /\ k' = k + 1
  /\ UNCHANGED <<phase, mqtt_init_done, slots, pc, n, polls, published, connected, broker, hist>>

Subscribed ==
  /\ pc = "subscribe" /\ n <= Len(known) /\ known[n] \notin mqtt_subscribe_done
  /\ k > Len(Calls(known[n], known[n] \in is_new))
  /\ mqtt_subscribe_done' = mqtt_subscribe_done \cup {known[n]} /\ n' = n + 1 /\ k' = 1
  /\ UNCHANGED <<phase, mqtt_init_done, known, is_new, mqtt_discovery_done, registered, pc, polls, published, client, broker, hist>>

-----------------------------------------------------------------------------
(* The client library, the broker and Home Assistant (external), and       *)
(* mqtt_event_handler in the MQTT task.                                    *)

\* The broker takes the next message.  A subscription brings the retained command.
Order(d, action, sent) == [dev |-> d, action |-> action, sent |-> sent]
Take ==
  /\ connected
  /\ \E i \in DOMAIN outbox :
       LET m == outbox[i] IN
       /\ ~m.taken /\ \A j \in 1 .. i - 1 : outbox[j].taken
       /\ outbox' = IF m.kind \in {"clear", "lost"} THEN RemoveAt(outbox, i) ELSE [outbox EXCEPT ![i].taken = TRUE]
       /\ retained' = CASE m.kind = "config" -> retained \cup {<<m.dev, m.t>>}
                        [] m.kind = "clear" -> retained \ {<<m.dev, m.t>>} [] OTHER -> retained
       /\ subs' = IF m.kind = "subscribe" THEN subs \cup {<<m.dev, m.t>>} ELSE subs
       /\ queue' = IF m.kind = "subscribe" /\ <<m.dev, m.t>> \in OldCommands \cap retained
                   THEN Append(queue, Order(m.dev, "gen_qr_code_text", <<0, "old">>)) ELSE queue
  /\ UNCHANGED <<phase, mqtt_init_done, slots, host, published, connected, session, hist>>

\* MQTT_EVENT_PUBLISHED and MQTT_EVENT_SUBSCRIBED.
Acknowledge ==
  /\ connected /\ outbox # <<>> /\ Head(outbox).taken
  /\ outbox' = Tail(outbox)
  /\ published' = IF Head(outbox).kind = "subscribe" THEN published ELSE Head(outbox).awaited
  /\ UNCHANGED <<phase, mqtt_init_done, slots, host, connected, broker, hist>>

\* The connection is lost, and with it what was sent with QoS 0, whose place is left empty.
Lost(box) == [i \in DOMAIN box |->
  [box[i] EXCEPT !.taken = FALSE, !.kind = IF box[i].kind = "clear" THEN "lost" ELSE box[i].kind]]
Disconnect ==
  /\ "down" \in Faults /\ connected /\ faults < MaxFaults /\ faults' = faults + 1
  /\ connected' = FALSE
  /\ outbox' = Lost(outbox)
  /\ UNCHANGED <<phase, mqtt_init_done, slots, host, published, broker, obeyed, crashed, boots, commands>>

\* A broker without persistence restarts.
Forget ==
  /\ "forget" \in Faults /\ ~connected /\ faults < MaxFaults /\ faults' = faults + 1
  /\ session' = "none" /\ subs' = {} /\ queue' = <<>> /\ retained' = {}
  /\ UNCHANGED <<phase, mqtt_init_done, slots, host, published, client, obeyed, crashed, boots, commands>>

\* A command from an entity that Home Assistant knows.
Command ==
  /\ commands < MaxCommands /\ commands' = commands + 1
  /\ \E d \in Devices : \E c \in ToSet(Configs(d)) :
       /\ c.cmd_t # "none" /\ <<d, c.name>> \in retained
       /\ queue' = IF <<d, c.cmd_t>> \in subs THEN Append(queue, Order(d, c.action, <<boots, phase>>)) ELSE queue
  /\ UNCHANGED <<phase, mqtt_init_done, slots, host, published, client, session, subs, retained, obeyed, crashed, boots, faults>>

\* MQTT_EVENT_DATA: the device is looked up among the slots counted; the branch of the
\* action uses ssm or tch, one of which is NULL.
Data ==
  /\ connected /\ queue # <<>> /\ queue' = Tail(queue)
  /\ LET c == Head(queue)
         null == (c.action \in SsmActions /\ c.dev \in Touches) \/ (c.action \in TchActions /\ c.dev \in Locks)
     IN  IF c.dev \notin ToSet(known) THEN UNCHANGED <<obeyed, crashed, outbox>>
         ELSE /\ crashed' = (crashed \/ null)
              /\ obeyed' = IF null THEN obeyed ELSE obeyed \cup {[sent |-> c.sent, at |-> boots]}
              /\ outbox' = IF c.action = "gen_qr_code_text"
                           THEN Append(outbox, Message("state", c.dev, "qr_code_text")) ELSE outbox
  /\ UNCHANGED <<phase, mqtt_init_done, slots, host, published, connected, session, subs, retained, boots, faults, commands>>

HostTask == Skip \/ LoopEnds \/ Discover \/ Poll \/ Discovered \/ Subscribe \/ Subscribed
MqttTask == Connect \/ Acknowledge \/ Data
Start == CleanDone \/ PersistentDone
Next ==
  \/ HostTask \/ Status \/ (\E d \in Devices : LogIn(d))
  \/ MqttTask \/ Start \/ Take
  \/ Reboot \/ Disconnect \/ Forget \/ Command

Spec == Init /\ [][Next]_vars

\* The host task runs, whatever becomes of the network.
HostSpec == Spec /\ WF_vars(HostTask)

\* The network comes back as well, and the devices report.
NetworkFairness == WF_vars(MqttTask) /\ WF_vars(Start) /\ WF_vars(Take) /\ WF_vars(Status)

-----------------------------------------------------------------------------
(* Properties.                                                             *)

TypeOK ==
  /\ phase \in {"clean", "persistent", "run"} /\ {mqtt_init_done, published, connected, crashed} \subseteq BOOLEAN
  /\ known \in Seq(Devices) /\ is_new \cup registered \subseteq Devices
  /\ mqtt_subscribe_done \subseteq mqtt_discovery_done /\ mqtt_discovery_done \subseteq ToSet(known)
  /\ pc \in {"idle", "discover", "wait", "subscribe"} /\ n \in 0 .. Len(known) + 1 /\ polls \in 0 .. NMax
  /\ session \in {"none", "clean", "persistent"} /\ {boots, faults} \subseteq 0 .. MaxFaults
  /\ commands \in 0 .. MaxCommands

\* A retained command from before the registration of a device is never obeyed: it is
\* cleared before the subscription could bring it (mqtt_subscribe, is_new).
NoOldCommand == \A c \in obeyed : c.sent[2] # "old"

\* After mqtt_subscribe, once nothing is under way, the broker sends the ESP32 the
\* commands of every entity that mqtt_discovery announced.
SubscriptionHolds ==
  connected /\ phase = "run" /\ outbox = <<>> =>
    \A d \in mqtt_subscribe_done : \A c \in ToSet(Configs(d)) :
      c.cmd_t # "none" => <<d, c.cmd_t>> \in subs

\* What mqtt_discovery announces can be commanded: its topic is subscribed, and the branch
\* of MQTT_EVENT_DATA for it does not use the NULL one of ssm and tch.
EntitiesObeyed == SubscriptionHolds /\ ~crashed

\* mqtt_discovery_done: every configuration of the device is retained by the broker or
\* still in the outbox, however often the connection was lost; and only devices that
\* are announced are subscribed (TypeOK).
DoneIsAnnounced ==
  /\ TypeOK
  /\ \A d \in mqtt_discovery_done : \A c \in ToSet(Configs(d)) :
         \/ <<d, c.name>> \in retained
         \/ \E m \in ToSet(outbox) : m.kind = "config" /\ m.dev = d /\ m.t = c.name

\* A command given before a restart, which the broker kept for the ESP32, is not obeyed
\* after it: that is what the first, clean start is for.
NoCommandFromBefore == \A c \in obeyed : c.sent[2] # "old" => c.sent = <<c.at, "run">>

\* The host task comes back from mqtt_discovery and mqtt_subscribe even if the broker
\* never answers again.
PassEnds == pc # "idle" ~> pc = "idle"

\* A device that logged in is announced in the end, however the connection was lost,
\* if the network comes back and the broker does not forget.
Told(d) == \A c \in ToSet(Configs(d)) : <<d, c.name>> \in retained
Announced ==
  NetworkFairness => \A d \in Devices :
    d \in ToSet(known) ~> (d \notin ToSet(known) \/ session = "none" \/ Told(d))
=============================================================================
