---------------------------- MODULE Mqtt_proofs ----------------------------
(***************************************************************************)
(* Proofs about Mqtt, for any devices, faults and commands: no command     *)
(* from before a restart is obeyed, what was announced stays announced and *)
(* can be commanded, and what was retained before a registration is        *)
(* cleared before a subscription could bring it.                           *)
(***************************************************************************)
EXTENDS Mqtt, SequenceTheorems, TLAPS

\* Names of entities, topics that may hold commands or a state, and names of actions
Names ==
  {"lock", "battery", "position", "lock_position", "unlock_position", "horizon_calibration",
   "qr_code_text", "gen_qr_code_text", "add_sesame", "remove_sesame", "battery_update", "rssi"}
Topics == {"set", "set/lock_position", "set/unlock_position", "state"}
Words == Names \cup Topics \cup {"none", "set_lock_position", "set_unlock_position", "magnet"}

Entities == [name : Names, cmd_t : Words, action : Words]
CallSet == [kind : {"state", "subscribe"}, t : Words] \cup [kind : {"clear"}, t : Topics]
Kinds == {"config", "state", "clear", "subscribe", "lost"}
Messages == [kind : Kinds, dev : Devices, t : Words, taken : BOOLEAN, awaited : BOOLEAN]
Orders == [dev : Devices, action : Words, sent : Nat \X {"old", "clean", "persistent", "run"}]

MqttType ==
  /\ phase \in {"clean", "persistent", "run"}
  /\ known \in Seq(Devices) /\ is_new \subseteq Devices /\ registered \subseteq Devices
  /\ pc \in {"idle", "discover", "wait", "subscribe"}
  /\ n \in 0 .. Len(known) + 1 /\ k \in Nat /\ polls \in 0 .. NMax
  /\ outbox \in Seq(Messages) /\ queue \in Seq(Orders)
  /\ session \in {"none", "clean", "persistent"}
  /\ boots \in Nat /\ boots <= faults /\ faults \in 0 .. MaxFaults /\ commands \in 0 .. MaxCommands

\* Until both starts are done no device is known and nothing is published, and from the
\* moment the clean session is connected the broker keeps nothing for the ESP32.
NotStarted ==
  /\ phase # "run" => known = <<>> /\ outbox = <<>> /\ pc = "idle"
  /\ phase = "persistent" \/ (phase = "clean" /\ mqtt_init_done) => subs = {} /\ queue = <<>>
  /\ connected => mqtt_init_done

\* Then the broker keeps commands of this boot only, and those that were retained.
ThisBoot ==
  phase = "run" => \A i \in 1 .. Len(queue) : queue[i].sent[2] # "old" => queue[i].sent = <<boots, "run">>

\* A pass announces every device before it subscribes to any.
PassOrder ==
  /\ mqtt_subscribe_done \subseteq mqtt_discovery_done /\ mqtt_discovery_done \subseteq ToSet(known)
  /\ pc # "idle" => n >= 1 /\ k >= 1
  /\ pc \in {"discover", "wait"} => \A i \in 1 .. n - 1 : known[i] \in mqtt_discovery_done
  /\ pc = "wait" => n <= Len(known) /\ known[n] \notin mqtt_discovery_done
  /\ pc = "discover" /\ n <= Len(known) => (known[n] \in mqtt_discovery_done => k = 1)
  /\ pc = "subscribe" => ToSet(known) \subseteq mqtt_discovery_done

MqttFlags == mqtt_init_done \in BOOLEAN /\ published \in BOOLEAN /\ connected \in BOOLEAN /\ crashed \in BOOLEAN

MqttInv == MqttType /\ NotStarted /\ ThisBoot /\ PassOrder /\ NoCommandFromBefore

-----------------------------------------------------------------------------
(* Lemmas about sequences and what the operators give.                     *)

\* What is appended comes last and moves nothing.
LEMMA AppendLast ==
  ASSUME NEW S, NEW s \in Seq(S), NEW e \in S
  PROVE  /\ Append(s, e) \in Seq(S) /\ Len(Append(s, e)) = Len(s) + 1
         /\ Append(s, e)[Len(s) + 1] = e /\ Len(s) \in Nat
         /\ \A i \in 1 .. Len(s) : Append(s, e)[i] = s[i]
OBVIOUS

\* The rest of a sequence is the sequence one place earlier.
LEMMA TailShifts ==
  ASSUME NEW S, NEW s \in Seq(S), s # <<>>
  PROVE  /\ Tail(s) \in Seq(S) /\ Len(s) \in Nat /\ Len(s) > 0 /\ Len(Tail(s)) = Len(s) - 1
         /\ Head(s) = s[1] /\ Head(s) \in S
         /\ \A i \in 1 .. Len(s) - 1 : Tail(s)[i] = s[i + 1]
OBVIOUS

\* Removing one element moves those behind it up by one place.
LEMMA RemoveAtPlaces ==
  ASSUME NEW S, NEW s \in Seq(S), NEW i \in 1 .. Len(s)
  PROVE  /\ RemoveAt(s, i) \in Seq(S) /\ Len(RemoveAt(s, i)) = Len(s) - 1
         /\ \A j \in 1 .. Len(s) - 1 : RemoveAt(s, i)[j] = IF j <= i - 1 THEN s[j] ELSE s[j + 1]
<1>. DEFINE a == SubSeq(s, 1, i - 1)
            b == SubSeq(s, i + 1, Len(s))
<1>1. Len(s) \in Nat /\ i \in Nat /\ i >= 1 /\ i <= Len(s) /\ \A j \in 1 .. Len(s) : s[j] \in S
  OBVIOUS
<1>2. a \in Seq(S) /\ Len(a) = i - 1 /\ \A j \in 1 .. i - 1 : a[j] = s[j]
  BY <1>1
<1>3. b \in Seq(S) /\ Len(b) = Len(s) - i /\ \A j \in 1 .. Len(s) - i : b[j] = s[i + j]
  BY <1>1
<1>. HIDE DEF a, b
<1>4. /\ a \o b \in Seq(S) /\ Len(a \o b) = Len(s) - 1
      /\ \A j \in 1 .. Len(s) - 1 : (a \o b)[j] = IF j <= i - 1 THEN a[j] ELSE b[j - (i - 1)]
  <2>1. Len(a) + Len(b) = Len(s) - 1
    BY <1>1, <1>2, <1>3
  <2>2. /\ a \o b \in Seq(S) /\ Len(a \o b) = Len(a) + Len(b)
        /\ \A j \in 1 .. Len(a) + Len(b) : (a \o b)[j] = IF j <= Len(a) THEN a[j] ELSE b[j - Len(a)]
    BY <1>2, <1>3, ConcatProperties, Zenon
  <2>. QED BY <1>2, <2>1, <2>2
<1>5. \A j \in 1 .. Len(s) - 1 : (a \o b)[j] = IF j <= i - 1 THEN s[j] ELSE s[j + 1]
  <2>. SUFFICES ASSUME NEW j \in 1 .. Len(s) - 1 PROVE (a \o b)[j] = IF j <= i - 1 THEN s[j] ELSE s[j + 1]
    OBVIOUS
  <2>1. CASE j <= i - 1
    BY <2>1, <1>1, <1>2, <1>4
  <2>2. CASE ~(j <= i - 1)
    <3>1. j - (i - 1) \in 1 .. Len(s) - i /\ i + (j - (i - 1)) = j + 1
      BY <2>2, <1>1
    <3>2. b[j - (i - 1)] = s[i + (j - (i - 1))]
      BY <3>1, <1>3
    <3>. QED BY <2>2, <3>1, <3>2, <1>4
  <2>. QED BY <2>1, <2>2
<1>6. RemoveAt(s, i) = a \o b
  BY DEF RemoveAt, a, b
<1>. QED BY <1>4, <1>5, <1>6

\* Removing one element leaves the others.
LEMMA RemoveAtKeeps ==
  ASSUME NEW S, NEW s \in Seq(S), NEW i \in 1 .. Len(s)
  PROVE  /\ RemoveAt(s, i) \in Seq(S)
         /\ \A j \in 1 .. Len(s) : j # i => \E m \in 1 .. Len(RemoveAt(s, i)) : RemoveAt(s, i)[m] = s[j]
         /\ \A m \in 1 .. Len(RemoveAt(s, i)) : \E j \in 1 .. Len(s) : RemoveAt(s, i)[m] = s[j]
<1>. DEFINE rest == RemoveAt(s, i)
<1>1. Len(s) \in Nat /\ i \in Nat /\ i >= 1 /\ i <= Len(s)
  OBVIOUS
<1>2. /\ rest \in Seq(S) /\ Len(rest) = Len(s) - 1
      /\ \A j \in 1 .. Len(s) - 1 : rest[j] = IF j <= i - 1 THEN s[j] ELSE s[j + 1]
  BY RemoveAtPlaces
<1>. HIDE DEF rest
<1>3. ASSUME NEW j \in 1 .. Len(s), j # i
      PROVE  \E m \in 1 .. Len(rest) : rest[m] = s[j]
  <2>1. CASE j < i
    <3>1. j \in 1 .. Len(s) - 1 /\ j <= i - 1
      BY <2>1, <1>1
    <3>. QED BY <3>1, <1>2
  <2>2. CASE j > i
    <3>1. j - 1 \in 1 .. Len(s) - 1 /\ ~(j - 1 <= i - 1) /\ (j - 1) + 1 = j
      BY <2>2, <1>1
    <3>2. rest[j - 1] = s[(j - 1) + 1]
      BY <3>1, <1>2
    <3>. QED BY <3>1, <3>2, <1>2
  <2>. QED BY <2>1, <2>2, <1>1, <1>3
<1>4. ASSUME NEW m \in 1 .. Len(rest)
      PROVE  \E j \in 1 .. Len(s) : rest[m] = s[j]
  <2>1. m \in 1 .. Len(s) - 1 /\ m \in 1 .. Len(s) /\ m + 1 \in 1 .. Len(s)
    BY <1>1, <1>2
  <2>. QED BY <2>1, <1>2
<1>. QED BY <1>2, <1>3, <1>4 DEF rest

\* What mqtt_discovery announces for a device is a sequence of entities.
LEMMA ConfigsType == ASSUME NEW d \in Devices PROVE Configs(d) \in Seq(Entities)
<1>1. \A a \in Names, b, c \in Words : Control(a, b, c) \in Entities /\ Sensor(a) \in Entities
  BY DEF Control, Sensor, Entities, Words
<1>2. LockSensors \in Seq(Entities) /\ LockButtons \in Seq(Entities)
  BY <1>1 DEF LockSensors, LockButtons, Words, Names, Topics
<1>3. TouchTexts \in Seq(Entities) /\ TouchButtons \in Seq(Entities) /\ <<Sensor("rssi")>> \in Seq(Entities)
  BY <1>1 DEF TouchTexts, TouchButtons, Words, Names, Topics
<1>. QED BY <1>2, <1>3 DEF Configs

\* The calls of mqtt_subscribe are messages.
LEMMA CallsType ==
  ASSUME NEW d \in Devices
  PROVE  Calls(d, d \in is_new) \in Seq(CallSet)
<1>. DEFINE S == CallSet
            CommandCalls(t) == (IF d \in is_new THEN <<Call("clear", t)>> ELSE <<>>) \o <<Call("subscribe", t)>>
            state == IF d \in is_new THEN <<Call("clear", "state")>> ELSE <<>>
<1>1. /\ \A t \in Topics : Call("clear", t) \in S /\ Call("subscribe", t) \in S
      /\ \A t \in Words : State(t) \in S
  BY DEF Call, State, CallSet, Words
<1>2. \A t \in Topics : CommandCalls(t) \in Seq(S)
  <2>. SUFFICES ASSUME NEW t \in Topics PROVE CommandCalls(t) \in Seq(S)
    OBVIOUS
  <2>1. <<Call("clear", t)>> \in Seq(S) /\ <<Call("subscribe", t)>> \in Seq(S) /\ <<>> \in Seq(S)
    BY <1>1
  <2>. QED BY <2>1, ConcatProperties
<1>3. state \in Seq(S) /\ \A t \in Words : <<State(t)>> \in Seq(S)
  <2>1. Call("clear", "state") \in S
    BY <1>1 DEF Topics
  <2>. HIDE DEF S
  <2>2. <<Call("clear", "state")>> \in Seq(S) /\ <<>> \in Seq(S) /\ \A t \in Words : <<State(t)>> \in Seq(S)
    BY <1>1, <2>1
  <2>. QED BY <2>2
<1>4. <<State("add_sesame"), State("remove_sesame")>> \in Seq(S)
  BY <1>1 DEF Words, Names
<1>5. Calls(d, d \in is_new) = CommandCalls("set") \o state \o <<State("qr_code_text")>>
        \o (IF d \in Locks THEN CommandCalls("set/lock_position") \o CommandCalls("set/unlock_position")
            ELSE <<State("add_sesame"), State("remove_sesame")>>)
  BY DEF Calls
<1>. HIDE DEF S, CommandCalls, state
<1>6. \A x, y \in Seq(S) : x \o y \in Seq(S)
  BY ConcatProperties
<1>7. CommandCalls("set") \in Seq(S) /\ CommandCalls("set/lock_position") \in Seq(S) /\ CommandCalls("set/unlock_position") \in Seq(S)
      /\ <<State("qr_code_text")>> \in Seq(S)
  BY <1>2, <1>3 DEF Words, Names, Topics
<1>8. Calls(d, d \in is_new) \in Seq(S)
  <2>1. CommandCalls("set") \o state \in Seq(S)
    BY <1>3, <1>6, <1>7
  <2>2. CommandCalls("set") \o state \o <<State("qr_code_text")>> \in Seq(S)
    BY <1>6, <1>7, <2>1
  <2>3. CommandCalls("set/lock_position") \o CommandCalls("set/unlock_position") \in Seq(S)
    BY <1>6, <1>7
  <2>4. (IF d \in Locks THEN CommandCalls("set/lock_position") \o CommandCalls("set/unlock_position")
         ELSE <<State("add_sesame"), State("remove_sesame")>>) \in Seq(S)
    BY <1>4, <2>3
  <2>. QED BY <1>5, <1>6, <2>2, <2>4
<1>. QED BY <1>8 DEF S

\* A message sent is in the outbox, behind the others, or lost.
LEMMA SentType ==
  ASSUME NEW box \in Seq(Messages), NEW kind \in Kinds, NEW d \in Devices, NEW t \in Words
  PROVE  Sent(box, Message(kind, d, t)) \in Seq(Messages)
<1>1. Message(kind, d, t) \in Messages
  BY DEF Message, Messages
<1>. QED BY <1>1, AppendLast DEF Sent

\* Unawaited changes the one field.
LEMMA UnawaitedType ==
  ASSUME NEW box \in Seq(Messages)
  PROVE  /\ Unawaited(box) \in Seq(Messages) /\ Len(Unawaited(box)) = Len(box)
         /\ \A i \in 1 .. Len(box) : /\ Unawaited(box)[i].kind = box[i].kind /\ Unawaited(box)[i].dev = box[i].dev
                                     /\ Unawaited(box)[i].t = box[i].t /\ Unawaited(box)[i].taken = box[i].taken
<1>1. \A i \in 1 .. Len(box) : box[i] \in Messages
  OBVIOUS
<1>2. \A m \in Messages : /\ [m EXCEPT !.awaited = FALSE] \in Messages
                          /\ [m EXCEPT !.awaited = FALSE].kind = m.kind /\ [m EXCEPT !.awaited = FALSE].dev = m.dev
                          /\ [m EXCEPT !.awaited = FALSE].t = m.t /\ [m EXCEPT !.awaited = FALSE].taken = m.taken
  BY DEF Messages
<1>3. Unawaited(box) = [i \in 1 .. Len(box) |-> [box[i] EXCEPT !.awaited = FALSE]] /\ Len(box) \in Nat
  BY DEF Unawaited
<1>4. Unawaited(box) \in Seq(Messages) /\ Len(Unawaited(box)) = Len(box)
  BY <1>1, <1>2, <1>3, IsASeq
<1>. QED BY <1>1, <1>2, <1>3, <1>4

\* A lost connection changes no message but those that it loses.
LEMMA LostType ==
  ASSUME NEW box \in Seq(Messages)
  PROVE  /\ Lost(box) \in Seq(Messages) /\ Len(Lost(box)) = Len(box) /\ (box = <<>> => Lost(box) = <<>>)
         /\ \A i \in 1 .. Len(box) : /\ Lost(box)[i].dev = box[i].dev /\ Lost(box)[i].t = box[i].t
                                     /\ Lost(box)[i].taken = FALSE
                                     /\ Lost(box)[i].kind \in {box[i].kind, "lost"}
                                     /\ box[i].kind = "config" => Lost(box)[i].kind = "config"
<1>. DEFINE L(m) == [m EXCEPT !.taken = FALSE, !.kind = IF m.kind = "clear" THEN "lost" ELSE m.kind]
<1>1. \A i \in 1 .. Len(box) : box[i] \in Messages
  OBVIOUS
<1>2. \A m \in Messages : /\ L(m) \in Messages /\ L(m).dev = m.dev /\ L(m).t = m.t /\ L(m).taken = FALSE
                          /\ L(m).kind \in {m.kind, "lost"} /\ (m.kind = "config" => L(m).kind = "config")
  BY DEF Messages, Kinds
<1>3. Lost(box) = [i \in 1 .. Len(box) |-> L(box[i])] /\ Len(box) \in Nat
  BY DEF Lost
<1>. HIDE DEF L
<1>4. Lost(box) \in Seq(Messages) /\ Len(Lost(box)) = Len(box)
  BY <1>1, <1>2, <1>3, IsASeq
<1>5. box = <<>> => Lost(box) = <<>>
  BY <1>4
<1>. QED BY <1>1, <1>2, <1>3, <1>4, <1>5

\* A message marked taken is the same otherwise, and so are the others.
Marked(box, i) == [box EXCEPT ![i].taken = TRUE]
LEMMA MarkKeeps ==
  ASSUME NEW box \in Seq(Messages), NEW i \in 1 .. Len(box)
  PROVE  /\ Len(Marked(box, i)) = Len(box) /\ Marked(box, i)[i].taken = TRUE
         /\ \A j \in 1 .. Len(box) :
              /\ Marked(box, i)[j].kind = box[j].kind /\ Marked(box, i)[j].dev = box[j].dev
              /\ Marked(box, i)[j].t = box[j].t
              /\ j # i => Marked(box, i)[j].taken = box[j].taken
<1>. DEFINE m == [box[i] EXCEPT !.taken = TRUE]
            marked == Marked(box, i)
<1>1. box[i] \in Messages
  OBVIOUS
<1>2. m \in Messages /\ m.kind = box[i].kind /\ m.dev = box[i].dev /\ m.t = box[i].t /\ m.taken = TRUE
  BY <1>1 DEF Messages
<1>3. marked = [box EXCEPT ![i] = m]
  BY DEF Marked
<1>. HIDE DEF m, marked
<1>4. \A e : [box EXCEPT ![i] = e] = [j \in DOMAIN box |-> IF j = i THEN e ELSE box[j]]
  OBVIOUS
<1>5. DOMAIN box = 1 .. Len(box)
  OBVIOUS
<1>6. marked = [j \in 1 .. Len(box) |-> IF j = i THEN m ELSE box[j]]
  BY <1>3, <1>4, <1>5, Zenon
<1>7. Len(marked) = Len(box)
  BY <1>2, <1>3, ExceptSeq
<1>. QED BY <1>2, <1>6, <1>7 DEF marked

-----------------------------------------------------------------------------
(* The invariant holds at the start and with every step.                   *)

\* Nothing is known, sent or kept at the start.
LEMMA MqttStarts == Init => MqttInv
<1>. SUFFICES ASSUME Init PROVE MqttInv
  OBVIOUS
<1>1. known = <<>> /\ outbox = <<>> /\ queue = <<>> /\ Len(known) = 0 /\ obeyed = {} /\ subs = {}
  BY DEF Init
<1>2. MqttType
  BY <1>1, MqttAssumption DEF Init, MqttType
<1>. QED
  BY <1>1, <1>2 DEF Init, MqttInv, NotStarted, ThisBoot, PassOrder, NoCommandFromBefore

\* The starts of the client, its connection, and faults: the devices, the pass and what was
\* obeyed stay as they are, or a restart forgets them.
LEMMA NetworkSteps ==
  ASSUME MqttInv, Connect \/ CleanDone \/ PersistentDone \/ Disconnect \/ Forget \/ Reboot
  PROVE  MqttInv'
<1>1. CASE Connect
  <2>1. queue' \in {queue, <<>>} /\ outbox' = outbox /\ known' = known
    BY <1>1 DEF Connect, slots
  <2>2. MqttType'
    <3>1. session' \in {"none", "clean", "persistent"}
      BY <1>1 DEF Connect
    <3>2. queue' \in Seq(Orders)
      BY <2>1, EmptySeq DEF MqttInv, MqttType
    <3>. QED BY <1>1, <2>1, <3>1, <3>2 DEF Connect, MqttInv, MqttType, slots, host, hist
  <2>3. NotStarted'
    BY <1>1 DEF Connect, MqttInv, MqttType, NotStarted, slots, host, hist
  <2>4. ThisBoot' /\ PassOrder' /\ NoCommandFromBefore'
    BY <1>1 DEF Connect, MqttInv, MqttType, ThisBoot, PassOrder, NoCommandFromBefore, slots, host, hist
  <2>. QED BY <2>2, <2>3, <2>4 DEF MqttInv
<1>2. CASE CleanDone
  <2>1. MqttType' /\ NotStarted'
    BY <1>2 DEF CleanDone, MqttInv, MqttType, NotStarted, slots, host, broker, hist
  <2>2. ThisBoot' /\ PassOrder' /\ NoCommandFromBefore'
    BY <1>2 DEF CleanDone, MqttInv, ThisBoot, PassOrder, NoCommandFromBefore, slots, host, broker, hist
  <2>. QED BY <2>1, <2>2 DEF MqttInv
<1>3. CASE PersistentDone
  <2>1. MqttType' /\ NotStarted'
    BY <1>3 DEF PersistentDone, MqttInv, MqttType, NotStarted, slots, host, client, broker, hist
  <2>2. Len(queue') = 0
    BY <1>3 DEF PersistentDone, MqttInv, NotStarted, broker
  <2>3. ThisBoot' /\ PassOrder' /\ NoCommandFromBefore'
    BY <1>3, <2>2 DEF PersistentDone, MqttInv, ThisBoot, PassOrder, NoCommandFromBefore, slots, host, hist
  <2>. QED BY <2>1, <2>3 DEF MqttInv
<1>4. CASE Disconnect
  <2>1. outbox' \in Seq(Messages) /\ (outbox = <<>> => outbox' = <<>>)
    <3>1. outbox \in Seq(Messages)
      BY DEF MqttInv, MqttType
    <3>. QED BY <1>4, <3>1, LostType DEF Disconnect
  <2>2. MqttType'
    BY <1>4, <2>1, MqttAssumption DEF Disconnect, MqttInv, MqttType, slots, host, broker
  <2>3. NotStarted' /\ ThisBoot' /\ PassOrder' /\ NoCommandFromBefore'
    BY <1>4, <2>1 DEF Disconnect, MqttInv, NotStarted, ThisBoot, PassOrder, NoCommandFromBefore, slots, host, broker
  <2>. QED BY <2>2, <2>3 DEF MqttInv
<1>5. CASE Forget
  <2>1. queue' = <<>> /\ Len(queue') = 0
    BY <1>5 DEF Forget
  <2>2. MqttType'
    BY <1>5, <2>1, MqttAssumption DEF Forget, MqttInv, MqttType, slots, host, client
  <2>3. NotStarted' /\ ThisBoot' /\ PassOrder' /\ NoCommandFromBefore'
    BY <1>5, <2>1 DEF Forget, MqttInv, NotStarted, ThisBoot, PassOrder, NoCommandFromBefore, slots, host, client
  <2>. QED BY <2>2, <2>3 DEF MqttInv
<1>6. CASE Reboot
  <2>1. known' = <<>> /\ outbox' = <<>> /\ Len(known') = 0
    BY <1>6 DEF Reboot
  <2>2. MqttType'
    BY <1>6, <2>1, MqttAssumption DEF Reboot, MqttInv, MqttType, broker
  <2>3. NotStarted' /\ ThisBoot' /\ PassOrder' /\ NoCommandFromBefore'
    BY <1>6, <2>1 DEF Reboot, MqttInv, NotStarted, ThisBoot, PassOrder, NoCommandFromBefore, broker
  <2>. QED BY <2>2, <2>3 DEF MqttInv
<1>. QED BY <1>1, <1>2, <1>3, <1>4, <1>5, <1>6

\* The order of a pass, step by step: what the host task sends does not matter to it.
LEMMA HostSteps ==
  ASSUME MqttInv, Status \/ Skip \/ LoopEnds \/ Poll \/ Discovered \/ Subscribed
  PROVE  MqttInv'
<1>1. known' = known /\ outbox' = outbox /\ queue' = queue /\ phase' = phase /\ boots' = boots /\ obeyed' = obeyed
      /\ subs' = subs /\ connected' = connected /\ mqtt_init_done' = mqtt_init_done
  BY DEF Status, Skip, LoopEnds, Poll, Discovered, Subscribed, slots, client, broker, hist
<1>2. phase = "run"
  BY DEF Status, Skip, LoopEnds, Poll, Discovered, Subscribed, MqttInv, NotStarted, MqttType, ToSet
<1>3. ThisBoot' /\ NoCommandFromBefore' /\ NotStarted'
  BY <1>1, <1>2 DEF MqttInv, ThisBoot, NoCommandFromBefore, NotStarted
<1>4. known \in Seq(Devices) /\ Len(known) \in Nat /\ ToSet(known) = {known[i] : i \in 1 .. Len(known)} /\ n \in Nat
  BY DEF MqttInv, MqttType, ToSet
<1>5. CASE Status
  <2>1. MqttType'
    BY <1>5, <1>1, <1>4 DEF Status, MqttInv, MqttType, slots, client, broker, hist
  <2>2. PassOrder'
    BY <1>5, <1>1, <1>4 DEF Status, MqttInv, MqttType, PassOrder, slots, client, broker, hist
  <2>. QED BY <1>3, <2>1, <2>2 DEF MqttInv
<1>6. CASE Skip
  <2>1. MqttType'
    BY <1>6, <1>1, <1>4 DEF Skip, MqttInv, MqttType, slots, client, broker, hist
  <2>2. PassOrder'
    BY <1>6, <1>1, <1>4 DEF Skip, MqttInv, MqttType, PassOrder, slots, client, broker, hist
  <2>. QED BY <1>3, <2>1, <2>2 DEF MqttInv
<1>7. CASE LoopEnds
  <2>1. MqttType'
    BY <1>7, <1>1, <1>4 DEF LoopEnds, MqttInv, MqttType, slots, client, broker, hist
  <2>2. PassOrder'
    BY <1>7, <1>1, <1>4 DEF LoopEnds, MqttInv, MqttType, PassOrder, slots, client, broker, hist
  <2>. QED BY <1>3, <2>1, <2>2 DEF MqttInv
<1>8. CASE Poll
  <2>1. MqttType'
    BY SMTT(30), <1>8, <1>1, <1>4, MqttAssumption DEF Poll, MqttInv, MqttType, slots, client, broker, hist
  <2>2. PassOrder'
    BY <1>8, <1>1, <1>4 DEF Poll, MqttInv, MqttType, PassOrder, slots, client, broker, hist
  <2>. QED BY <1>3, <2>1, <2>2 DEF MqttInv
<1>9. CASE Discovered
  <2>1. MqttType'
    BY <1>9, <1>1, <1>4 DEF Discovered, MqttInv, MqttType, client, broker, hist
  <2>2. PassOrder'
    BY <1>9, <1>1, <1>4 DEF Discovered, MqttInv, MqttType, PassOrder, client, broker, hist
  <2>. QED BY <1>3, <2>1, <2>2 DEF MqttInv
<1>10. CASE Subscribed
  <2>1. MqttType'
    BY <1>10, <1>1, <1>4 DEF Subscribed, MqttInv, MqttType, client, broker, hist
  <2>2. PassOrder'
    BY <1>10, <1>1, <1>4 DEF Subscribed, MqttInv, MqttType, PassOrder, client, broker, hist
  <2>. QED BY <1>3, <2>1, <2>2 DEF MqttInv
<1>. QED BY <1>5, <1>6, <1>7, <1>8, <1>9, <1>10

\* mqtt_discovery publishes the configuration of an entity of a device.
LEMMA DiscoverType ==
  ASSUME MqttInv, Discover
  PROVE  known[n] \in Devices /\ Configs(known[n])[k].name \in Names
<1>1. known[n] \in Devices /\ k >= 1 /\ k \in Nat
  BY DEF Discover, MqttInv, MqttType, PassOrder
<1>2. Configs(known[n]) \in Seq(Entities) /\ Len(Configs(known[n])) \in Nat
  BY <1>1, ConfigsType
<1>3. Configs(known[n])[k] \in Entities
  BY <1>1, <1>2 DEF Discover
<1>. QED BY <1>1, <1>3 DEF Entities

\* mqtt_subscribe clears only topics that hold commands or a state.
LEMMA SubscribeType ==
  ASSUME MqttInv, Subscribe
  PROVE  \E kind \in Kinds, d \in Devices, t \in Words :
           /\ outbox' = Sent(outbox, Message(kind, d, t)) /\ kind # "config"
           /\ kind = "clear" => t \in Topics
<1>1. known[n] \in Devices /\ k >= 1 /\ k \in Nat
  BY DEF Subscribe, MqttInv, MqttType, PassOrder
<1>. DEFINE calls == Calls(known[n], known[n] \in is_new)
<1>2. calls \in Seq(CallSet)
  BY <1>1, CallsType
<1>3. k <= Len(calls) /\ outbox' = Sent(outbox, Message(calls[k].kind, known[n], calls[k].t))
  BY DEF Subscribe
<1>. HIDE DEF calls
<1>4. k \in 1 .. Len(calls)
  <2>1. Len(calls) \in Nat
    BY <1>2
  <2>. QED BY <1>1, <1>3, <2>1
<1>5. calls[k] \in CallSet
  BY <1>2, <1>4, ElementOfSeq
<1>6. /\ calls[k].kind \in Kinds /\ calls[k].t \in Words /\ calls[k].kind # "config"
      /\ calls[k].kind = "clear" => calls[k].t \in Topics
  BY <1>5 DEF CallSet, Kinds, Words
<1>. QED BY <1>1, <1>3, <1>6

\* A device is counted; a configuration or a call goes to the outbox.
LEMMA SendingSteps ==
  ASSUME MqttInv, (\E d \in Devices : LogIn(d)) \/ Discover \/ Subscribe
  PROVE  MqttInv'
<1>1. queue' = queue /\ phase' = phase /\ boots' = boots /\ obeyed' = obeyed
      /\ subs' = subs /\ connected' = connected /\ mqtt_init_done' = mqtt_init_done
  BY DEF LogIn, Discover, Subscribe, slots, client, broker, hist
<1>2. phase = "run"
  BY DEF LogIn, Discover, Subscribe, MqttInv, NotStarted, MqttType
<1>3. ThisBoot' /\ NoCommandFromBefore' /\ NotStarted'
  BY <1>1, <1>2 DEF MqttInv, ThisBoot, NoCommandFromBefore, NotStarted
<1>4. known \in Seq(Devices) /\ Len(known) \in Nat /\ n \in Nat /\ k \in Nat /\ outbox \in Seq(Messages)
  BY DEF MqttInv, MqttType
<1>5. ASSUME NEW d \in Devices, LogIn(d) PROVE MqttInv'
  <2>1. /\ known' \in Seq(Devices) /\ Len(known') = Len(known) + 1
        /\ \A i \in 1 .. Len(known) : known'[i] = known[i]
    BY <1>4, <1>5, AppendLast DEF LogIn
  <2>2. ToSet(known) \subseteq ToSet(known')
    BY <1>4, <2>1 DEF ToSet
  <2>3. MqttType'
    BY <1>5, <1>4, <2>1 DEF LogIn, MqttInv, MqttType, host, client, broker, hist
  <2>4. PassOrder'
    BY <1>5, <2>2 DEF LogIn, MqttInv, PassOrder, host
  <2>. QED BY <1>3, <2>3, <2>4 DEF MqttInv
<1>6. CASE Discover
  <2>1. Configs(known[n])[k].name \in Names /\ known[n] \in Devices
    BY <1>6, DiscoverType
  <2>2. outbox' \in Seq(Messages)
    BY <1>4, <1>6, <2>1, UnawaitedType, SentType DEF Discover, Kinds, Words
  <2>3. MqttType'
    BY <1>6, <2>2, MqttAssumption DEF Discover, MqttInv, MqttType, slots, broker, hist
  <2>4. PassOrder'
    BY <1>6 DEF Discover, MqttInv, PassOrder, slots
  <2>. QED BY <1>3, <2>3, <2>4 DEF MqttInv
<1>7. CASE Subscribe
  <2>1. outbox' \in Seq(Messages)
    <3>1. PICK kind \in Kinds, d \in Devices, t \in Words : outbox' = Sent(outbox, Message(kind, d, t))
      BY <1>7, SubscribeType
    <3>. QED BY <1>4, <3>1, SentType
  <2>2. MqttType'
    BY <1>7, <2>1 DEF Subscribe, MqttInv, MqttType, slots, broker, hist
  <2>3. PassOrder'
    BY <1>7, <1>4 DEF Subscribe, MqttInv, PassOrder, slots
  <2>. QED BY <1>3, <2>2, <2>3 DEF MqttInv
<1>. QED BY <1>5, <1>6, <1>7

\* The broker and the MQTT task: what comes was sent in this boot, or retained before.
LEMMA BrokerSteps ==
  ASSUME MqttInv, Take \/ Acknowledge \/ Command \/ Data
  PROVE  MqttInv'
<1>1. /\ phase' = phase /\ boots' = boots /\ connected' = connected /\ mqtt_init_done' = mqtt_init_done
      /\ known' = known /\ is_new' = is_new /\ registered' = registered
      /\ mqtt_discovery_done' = mqtt_discovery_done /\ mqtt_subscribe_done' = mqtt_subscribe_done
      /\ pc' = pc /\ n' = n /\ k' = k /\ polls' = polls /\ session' = session /\ faults' = faults
  <2>1. CASE Take
    BY <2>1 DEF Take, slots, host, hist
  <2>2. CASE Acknowledge
    BY <2>2 DEF Acknowledge, slots, host, broker, hist
  <2>3. CASE Command
    BY <2>3 DEF Command, slots, host, client
  <2>4. CASE Data
    BY <2>4 DEF Data, slots, host
  <2>. QED BY <2>1, <2>2, <2>3, <2>4
<1>2. PassOrder'
  BY <1>1 DEF MqttInv, PassOrder
<1>3. outbox \in Seq(Messages) /\ queue \in Seq(Orders) /\ Len(outbox) \in Nat /\ Len(queue) \in Nat
  BY DEF MqttInv, MqttType
<1>4. ASSUME outbox' \in Seq(Messages), queue' \in Seq(Orders), commands' \in 0 .. MaxCommands
      PROVE  MqttType'
  BY <1>1, <1>4 DEF MqttInv, MqttType
<1>5. CASE Take
  <2>1. PICK i \in 1 .. Len(outbox) :
          /\ outbox' = RemoveAt(outbox, i) \/ outbox' = [outbox EXCEPT ![i].taken = TRUE]
          /\ queue' = queue \/ queue' = Append(queue, Order(outbox[i].dev, "gen_qr_code_text", <<0, "old">>))
    <3>1. DOMAIN outbox = 1 .. Len(outbox)
      BY <1>3
    <3>. QED BY <1>5, <3>1 DEF Take
  <2>2. phase = "run"
    BY <2>1, <1>3 DEF MqttInv, NotStarted
  <2>3. outbox[i] \in Messages
    BY <1>3
  <2>4. outbox' \in Seq(Messages)
    <3>1. [outbox EXCEPT ![i].taken = TRUE] \in Seq(Messages)
      <4>1. [outbox[i] EXCEPT !.taken = TRUE] \in Messages
        BY <2>3 DEF Messages
      <4>2. [outbox EXCEPT ![i].taken = TRUE] = [outbox EXCEPT ![i] = [outbox[i] EXCEPT !.taken = TRUE]]
        OBVIOUS
      <4>. QED BY <1>3, <4>1, <4>2, ExceptSeq
    <3>2. RemoveAt(outbox, i) \in Seq(Messages)
      BY <1>3, RemoveAtKeeps, Zenon
    <3>. QED BY <2>1, <3>1, <3>2
  <2>5. /\ queue' \in Seq(Orders)
        /\ \A j \in 1 .. Len(queue') : (j \in 1 .. Len(queue) /\ queue'[j] = queue[j]) \/ queue'[j].sent = <<0, "old">>
    <3>1. CASE queue' = queue
      BY <3>1, <1>3
    <3>2. CASE queue' = Append(queue, Order(outbox[i].dev, "gen_qr_code_text", <<0, "old">>))
      <4>. DEFINE e == Order(outbox[i].dev, "gen_qr_code_text", <<0, "old">>)
      <4>1. e \in Orders /\ e.sent = <<0, "old">>
        BY <2>3 DEF Order, Orders, Messages, Words, Names
      <4>. HIDE DEF e
      <4>. QED BY <3>2, <4>1, <1>3, AppendLast DEF e
    <3>. QED BY <2>1, <3>1, <3>2
  <2>6. MqttType'
    BY <1>4, <1>5, <2>4, <2>5 DEF Take, MqttInv, MqttType, hist
  <2>7. NotStarted'
    BY <1>1, <2>2 DEF MqttInv, NotStarted
  <2>8. ThisBoot' /\ NoCommandFromBefore'
    <3>1. obeyed' = obeyed
      BY <1>5 DEF Take, hist
    <3>2. <<0, "old">>[2] = "old"
      OBVIOUS
    <3>. QED BY <1>1, <2>5, <3>1, <3>2 DEF MqttInv, ThisBoot, NoCommandFromBefore
  <2>. QED BY <1>2, <2>6, <2>7, <2>8 DEF MqttInv
<1>6. CASE Acknowledge
  <2>1. outbox' \in Seq(Messages) /\ queue' = queue /\ subs' = subs /\ obeyed' = obeyed /\ commands' = commands
        /\ outbox # <<>>
    BY <1>3, <1>6, TailShifts DEF Acknowledge, broker, hist
  <2>2. MqttType'
    BY <1>3, <1>4, <2>1 DEF MqttInv, MqttType
  <2>3. NotStarted' /\ ThisBoot' /\ NoCommandFromBefore'
    BY <1>1, <2>1 DEF MqttInv, NotStarted, ThisBoot, NoCommandFromBefore
  <2>. QED BY <1>2, <2>2, <2>3 DEF MqttInv
<1>7. CASE Command
  <2>0. PICK d \in Devices : \E c \in ToSet(Configs(d)) :
          queue' = IF <<d, c.cmd_t>> \in subs THEN Append(queue, Order(d, c.action, <<boots, phase>>)) ELSE queue
    BY <1>7 DEF Command
  <2>1. PICK c \in ToSet(Configs(d)) :
          queue' = IF <<d, c.cmd_t>> \in subs THEN Append(queue, Order(d, c.action, <<boots, phase>>)) ELSE queue
    BY <2>0
  <2>2. outbox' = outbox /\ subs' = subs /\ obeyed' = obeyed /\ commands' \in 0 .. MaxCommands
    BY <1>7, MqttAssumption DEF Command, client, MqttInv, MqttType
  <2>3. c \in Entities
    <3>1. Configs(d) \in Seq(Entities)
      BY ConfigsType
    <3>. QED BY <2>1, <3>1, ElementOfSeq DEF ToSet
  <2>4. /\ queue' \in Seq(Orders) /\ (subs = {} => queue' = queue)
        /\ \A j \in 1 .. Len(queue') : (j \in 1 .. Len(queue) /\ queue'[j] = queue[j]) \/ queue'[j].sent = <<boots, phase>>
    <3>1. CASE queue' = queue
      BY <3>1, <1>3
    <3>2. CASE <<d, c.cmd_t>> \in subs /\ queue' = Append(queue, Order(d, c.action, <<boots, phase>>))
      <4>. DEFINE e == Order(d, c.action, <<boots, phase>>)
      <4>1. e \in Orders /\ e.sent = <<boots, phase>>
        BY <2>3 DEF Order, Orders, Entities, MqttInv, MqttType
      <4>. HIDE DEF e
      <4>2. queue' = Append(queue, e)
        BY <3>2 DEF e
      <4>3. /\ queue' \in Seq(Orders) /\ Len(queue') = Len(queue) + 1
            /\ queue'[Len(queue) + 1] = e
            /\ \A i \in 1 .. Len(queue) : queue'[i] = queue[i]
        BY <4>1, <4>2, <1>3, AppendLast
      <4>4. subs # {}
        BY <3>2
      <4>. QED BY <1>3, <4>1, <4>3, <4>4
    <3>. QED BY <2>1, <3>1, <3>2
  <2>5. MqttType'
    BY <1>3, <1>4, <2>2, <2>4
  <2>6. NotStarted'
    BY <1>1, <2>2, <2>4 DEF MqttInv, NotStarted
  <2>7. ThisBoot' /\ NoCommandFromBefore'
    BY <1>1, <2>2, <2>4 DEF MqttInv, ThisBoot, NoCommandFromBefore
  <2>. QED BY <1>2, <2>5, <2>6, <2>7 DEF MqttInv
<1>8. CASE Data
  <2>. DEFINE c == Head(queue)
  <2>1. queue # <<>> /\ queue' = Tail(queue) /\ subs' = subs /\ commands' = commands
    BY <1>8 DEF Data
  <2>2. /\ queue' \in Seq(Orders) /\ Len(queue') = Len(queue) - 1 /\ c = queue[1] /\ c \in Orders /\ Len(queue) > 0
        /\ \A j \in 1 .. Len(queue) - 1 : queue'[j] = queue[j + 1]
    BY <1>3, <2>1, TailShifts
  <2>3. \/ c.dev \notin ToSet(known) /\ obeyed' = obeyed /\ outbox' = outbox
        \/ /\ c.dev \in ToSet(known) /\ (obeyed' = obeyed \/ obeyed' = obeyed \cup {[sent |-> c.sent, at |-> boots]})
           /\ (outbox' = outbox \/ outbox' = Append(outbox, Message("state", c.dev, "qr_code_text")))
    BY <1>8 DEF Data
  <2>. HIDE DEF c
  <2>4. c.dev \in ToSet(known) => phase = "run"
    BY DEF MqttInv, NotStarted, ToSet
  <2>5. outbox' \in Seq(Messages)
    <3>1. Message("state", c.dev, "qr_code_text") \in Messages
      BY <2>2 DEF Message, Messages, Orders, Kinds, Words, Names
    <3>. QED BY <1>3, <2>3, <3>1, AppendLast
  <2>6. MqttType'
    BY <1>4, <2>1, <2>2, <2>5 DEF MqttInv, MqttType
  <2>7. NotStarted'
    BY <1>1, <2>1, <2>3, <2>4 DEF MqttInv, NotStarted
  <2>8. ThisBoot'
    <3>1. \A j \in 1 .. Len(queue') : j + 1 \in 1 .. Len(queue) /\ queue'[j] = queue[j + 1]
      BY <1>3, <2>2
    <3>. QED BY <1>1, <3>1 DEF MqttInv, ThisBoot
  <2>9. NoCommandFromBefore'
    <3>1. c.dev \in ToSet(known) => (c.sent[2] # "old" => c.sent = <<boots, "run">>)
      BY <1>3, <2>2, <2>4 DEF MqttInv, ThisBoot
    <3>. QED BY <2>3, <3>1 DEF MqttInv, NoCommandFromBefore
  <2>. QED BY <1>2, <2>6, <2>7, <2>8, <2>9 DEF MqttInv
<1>. QED BY <1>5, <1>6, <1>7, <1>8

\* Every step keeps the invariant.
LEMMA MqttStep == MqttInv /\ [Next]_vars => MqttInv'
<1>. SUFFICES ASSUME MqttInv, [Next]_vars PROVE MqttInv'
  OBVIOUS
<1>1. CASE Connect \/ Start \/ Disconnect \/ Forget \/ Reboot
  BY <1>1, NetworkSteps DEF Start
<1>2. CASE Status \/ Skip \/ LoopEnds \/ Poll \/ Discovered \/ Subscribed
  BY <1>2, HostSteps
<1>3. CASE (\E d \in Devices : LogIn(d)) \/ Discover \/ Subscribe
  BY <1>3, SendingSteps
<1>4. CASE Take \/ Acknowledge \/ Command \/ Data
  BY <1>4, BrokerSteps
<1>5. CASE UNCHANGED vars
  BY <1>5 DEF vars, slots, host, client, broker, hist, MqttInv, MqttType, NotStarted, ThisBoot, PassOrder, NoCommandFromBefore
<1>. QED BY <1>1, <1>2, <1>3, <1>4, <1>5 DEF Next, HostTask, MqttTask

-----------------------------------------------------------------------------
(* What is announced stays announced, unless the broker forgets.           *)

\* The configuration of an entity, by its name, is retained or on its way.
Kept(d, t) ==
  \/ <<d, t>> \in retained
  \/ \E i \in 1 .. Len(outbox) : outbox[i].kind = "config" /\ outbox[i].dev = d /\ outbox[i].t = t

\* The topics of entities are not those that mqtt_subscribe clears.
Apart ==
  \A i \in 1 .. Len(outbox) :
    /\ outbox[i].kind = "config" => outbox[i].t \in Names
    /\ outbox[i].kind = "clear" => outbox[i].t \in Topics

\* What waits for its acknowledgement only is retained.
TakenRetained ==
  \A i \in 1 .. Len(outbox) :
    outbox[i].kind = "config" /\ outbox[i].taken => <<outbox[i].dev, outbox[i].t>> \in retained

AllAnnounced ==
  \A d \in mqtt_discovery_done : \A i \in 1 .. Len(Configs(d)) : Kept(d, Configs(d)[i].name)

\* In the middle of a device, its first k - 1 entities are announced, and the one waited for.
PassAnnounced ==
  pc \in {"discover", "wait"} /\ n <= Len(known) /\ known[n] \notin mqtt_discovery_done =>
    \A i \in 1 .. Len(Configs(known[n])) :
      i < k \/ (i = k /\ pc = "wait") => Kept(known[n], Configs(known[n])[i].name)

Announcements == Apart /\ TakenRetained /\ AllAnnounced /\ PassAnnounced

\* A message sent joins those that were in the outbox.
LEMMA SentKeeps ==
  ASSUME NEW box \in Seq(Messages), NEW kind \in Kinds, NEW d \in Devices, NEW t \in Words,
         NEW sent, sent = Sent(box, Message(kind, d, t))
  PROVE  /\ Len(sent) \in Nat /\ Len(box) \in Nat /\ Len(sent) >= Len(box)
         /\ \A i \in 1 .. Len(box) : sent[i] = box[i]
         /\ \A i \in 1 .. Len(sent) : i \in 1 .. Len(box) \/ (sent[i].kind = kind /\ sent[i].t = t /\ ~sent[i].taken)
         /\ kind = "config" => \E i \in 1 .. Len(sent) : sent[i].kind = "config" /\ sent[i].dev = d /\ sent[i].t = t
<1>. DEFINE m == Message(kind, d, t)
<1>1. m \in Messages /\ m.kind = kind /\ m.dev = d /\ m.t = t /\ m.taken = FALSE
  BY DEF Message, Messages
<1>2. sent = Append(box, m) \/ (sent = box /\ kind # "config")
  BY <1>1 DEF Sent
<1>. HIDE DEF m
<1>3. CASE sent = Append(box, m)
  <2>1. Len(sent) = Len(box) + 1 /\ Len(box) \in Nat /\ sent[Len(box) + 1] = m /\ \A i \in 1 .. Len(box) : sent[i] = box[i]
    BY <1>1, <1>3, AppendLast
  <2>. QED BY <1>1, <2>1
<1>4. CASE sent = box /\ kind # "config"
  BY <1>4
<1>. QED BY <1>2, <1>3, <1>4

\* When each message that was in the outbox stays there, and no other is taken, all is kept.
LEMMA GrowingKeeps ==
  ASSUME Apart, TakenRetained, retained' = retained, Len(outbox) \in Nat, Len(outbox') \in Nat,
         Len(outbox') >= Len(outbox),
         \A i \in 1 .. Len(outbox) :
           /\ outbox'[i].dev = outbox[i].dev /\ outbox'[i].t = outbox[i].t
           /\ outbox'[i].kind \in {outbox[i].kind, "lost"}
           /\ outbox[i].kind = "config" => outbox'[i].kind = "config"
           /\ outbox'[i].taken => outbox[i].taken,
         \A i \in 1 .. Len(outbox') :
           i \in 1 .. Len(outbox) \/ /\ ~outbox'[i].taken
                                     /\ outbox'[i].kind = "config" => outbox'[i].t \in Names
                                     /\ outbox'[i].kind = "clear" => outbox'[i].t \in Topics
  PROVE  Apart' /\ TakenRetained' /\ \A d, t : Kept(d, t) => Kept(d, t)'
<1>0. Apart'
  <2>. SUFFICES ASSUME NEW i \in 1 .. Len(outbox')
                PROVE  /\ outbox'[i].kind = "config" => outbox'[i].t \in Names
                       /\ outbox'[i].kind = "clear" => outbox'[i].t \in Topics
    BY DEF Apart
  <2>1. CASE i \in 1 .. Len(outbox)
    BY <2>1 DEF Apart
  <2>2. CASE i \notin 1 .. Len(outbox)
    BY <2>2
  <2>. QED BY <2>1, <2>2
<1>1. TakenRetained'
  <2>. SUFFICES ASSUME NEW i \in 1 .. Len(outbox'), outbox'[i].kind = "config", outbox'[i].taken
                PROVE  <<outbox'[i].dev, outbox'[i].t>> \in retained'
    BY DEF TakenRetained
  <2>1. i \in 1 .. Len(outbox) /\ outbox[i].kind = "config" /\ outbox[i].taken
    OBVIOUS
  <2>. QED BY <2>1 DEF TakenRetained
<1>2. ASSUME NEW d, NEW t, Kept(d, t) PROVE Kept(d, t)'
  <2>1. CASE <<d, t>> \in retained
    BY <2>1 DEF Kept
  <2>2. CASE \E i \in 1 .. Len(outbox) : outbox[i].kind = "config" /\ outbox[i].dev = d /\ outbox[i].t = t
    <3>1. PICK i \in 1 .. Len(outbox) : outbox[i].kind = "config" /\ outbox[i].dev = d /\ outbox[i].t = t
      BY <2>2
    <3>2. i \in 1 .. Len(outbox')
      OBVIOUS
    <3>. QED BY <3>1, <3>2 DEF Kept
  <2>. QED BY <1>2, <2>1, <2>2 DEF Kept
<1>. QED BY <1>0, <1>1, <1>2

\* No step of the broker, the tasks or the network loses an announcement, but a restart and a
\* broker that forgets.
LEMMA KeptStays ==
  ASSUME MqttInv, Apart, TakenRetained, [Next]_vars, ~Reboot, ~CleanDone, ~Forget
  PROVE  Apart' /\ TakenRetained' /\ \A d : \A t \in Names : Kept(d, t) => Kept(d, t)'
<1>1. outbox \in Seq(Messages) /\ Len(outbox) \in Nat
  BY DEF MqttInv, MqttType
<1>2. CASE outbox' = outbox /\ retained' = retained
  BY <1>2 DEF Apart, TakenRetained, Kept
<1>3. CASE Discover
  <2>1. Configs(known[n])[k].name \in Names /\ known[n] \in Devices
    BY <1>3, DiscoverType
  <2>2. outbox' = Sent(Unawaited(outbox), Message("config", known[n], Configs(known[n])[k].name)) /\ retained' = retained
    BY <1>3 DEF Discover, broker
  <2>3. /\ Unawaited(outbox) \in Seq(Messages) /\ Len(Unawaited(outbox)) = Len(outbox)
        /\ \A i \in 1 .. Len(outbox) :
             /\ Unawaited(outbox)[i].kind = outbox[i].kind /\ Unawaited(outbox)[i].dev = outbox[i].dev
             /\ Unawaited(outbox)[i].t = outbox[i].t /\ Unawaited(outbox)[i].taken = outbox[i].taken
    BY <1>1, UnawaitedType
  <2>4. /\ Len(outbox') \in Nat /\ Len(outbox') >= Len(Unawaited(outbox))
        /\ \A i \in 1 .. Len(Unawaited(outbox)) : outbox'[i] = Unawaited(outbox)[i]
        /\ \A i \in 1 .. Len(outbox') :
             \/ i \in 1 .. Len(Unawaited(outbox))
             \/ outbox'[i].kind = "config" /\ outbox'[i].t \in Names /\ ~outbox'[i].taken
    BY <2>1, <2>2, <2>3, SentKeeps DEF Kinds, Words
  <2>. QED BY <1>1, <2>2, <2>3, <2>4, GrowingKeeps
<1>4. CASE Subscribe
  <2>1. PICK kind \in Kinds, d \in Devices, t \in Words :
          /\ outbox' = Sent(outbox, Message(kind, d, t)) /\ kind # "config"
          /\ kind = "clear" => t \in Topics
    BY <1>4, SubscribeType
  <2>2. retained' = retained
    BY <1>4 DEF Subscribe, broker
  <2>3. /\ Len(outbox') \in Nat /\ Len(outbox') >= Len(outbox)
        /\ \A i \in 1 .. Len(outbox) : outbox'[i] = outbox[i]
        /\ \A i \in 1 .. Len(outbox') :
             i \in 1 .. Len(outbox) \/ (outbox'[i].kind = kind /\ outbox'[i].t = t /\ ~outbox'[i].taken)
    BY <1>1, <2>1, SentKeeps
  <2>. QED BY <1>1, <2>1, <2>2, <2>3, GrowingKeeps
<1>5. CASE Data
  <2>1. retained' = retained /\ queue # <<>>
    BY <1>5 DEF Data
  <2>2. Head(queue).dev \in Devices
    <3>1. Head(queue) \in Orders
      BY <2>1, TailShifts DEF MqttInv, MqttType
    <3>. QED BY <3>1 DEF Orders
  <2>3. outbox' = outbox \/ outbox' = Sent(outbox, Message("state", Head(queue).dev, "qr_code_text"))
    BY <1>5 DEF Data, Sent, Message
  <2>4. CASE outbox' = outbox
    BY <1>2, <2>1, <2>4
  <2>5. CASE outbox' = Sent(outbox, Message("state", Head(queue).dev, "qr_code_text"))
    <3>1. /\ Len(outbox') \in Nat /\ Len(outbox') >= Len(outbox)
          /\ \A i \in 1 .. Len(outbox) : outbox'[i] = outbox[i]
          /\ \A i \in 1 .. Len(outbox') : i \in 1 .. Len(outbox) \/ (outbox'[i].kind = "state" /\ ~outbox'[i].taken)
      BY <1>1, <2>2, <2>5, SentKeeps DEF Kinds, Words, Names
    <3>. QED BY <1>1, <2>1, <3>1, GrowingKeeps
  <2>. QED BY <2>3, <2>4, <2>5
<1>6. CASE Disconnect
  <2>1. outbox' = Lost(outbox) /\ retained' = retained
    BY <1>6 DEF Disconnect, broker
  <2>2. /\ Len(outbox') = Len(outbox)
        /\ \A i \in 1 .. Len(outbox) : /\ outbox'[i].dev = outbox[i].dev /\ outbox'[i].t = outbox[i].t
                                       /\ outbox'[i].taken = FALSE /\ outbox'[i].kind \in {outbox[i].kind, "lost"}
                                       /\ outbox[i].kind = "config" => outbox'[i].kind = "config"
    BY <1>1, <2>1, LostType
  <2>. QED BY <1>1, <2>1, <2>2, GrowingKeeps
<1>7. CASE Acknowledge
  <2>1. outbox # <<>> /\ Head(outbox).taken /\ outbox' = Tail(outbox) /\ retained' = retained
    BY <1>7 DEF Acknowledge, broker
  <2>2. /\ Len(outbox) > 0 /\ Len(outbox') = Len(outbox) - 1 /\ Head(outbox) = outbox[1]
        /\ \A i \in 1 .. Len(outbox) - 1 : outbox'[i] = outbox[i + 1]
    BY <1>1, <2>1, TailShifts
  <2>3. Apart' /\ TakenRetained'
    <3>1. \A i \in 1 .. Len(outbox') : i + 1 \in 1 .. Len(outbox) /\ outbox'[i] = outbox[i + 1]
      BY <1>1, <2>2
    <3>. QED BY <2>1, <3>1 DEF Apart, TakenRetained
  <2>4. ASSUME NEW d, NEW t, Kept(d, t) PROVE Kept(d, t)'
    <3>1. CASE <<d, t>> \in retained
      BY <2>1, <3>1 DEF Kept
    <3>2. CASE \E i \in 1 .. Len(outbox) : outbox[i].kind = "config" /\ outbox[i].dev = d /\ outbox[i].t = t
      <4>1. PICK i \in 1 .. Len(outbox) : outbox[i].kind = "config" /\ outbox[i].dev = d /\ outbox[i].t = t
        BY <3>2
      <4>2. CASE i = 1
        BY <2>1, <2>2, <4>1, <4>2 DEF Kept, TakenRetained
      <4>3. CASE i > 1
        <5>1. i - 1 \in 1 .. Len(outbox') /\ outbox'[i - 1] = outbox[i]
          BY <1>1, <2>2, <4>3
        <5>. QED BY <4>1, <5>1 DEF Kept
      <4>. QED BY <4>2, <4>3
    <3>. QED BY <2>4, <3>1, <3>2 DEF Kept
  <2>. QED BY <2>3, <2>4
<1>8. CASE Take
  <2>1. PICK i \in 1 .. Len(outbox) :
          /\ outbox' = IF outbox[i].kind \in {"clear", "lost"} THEN RemoveAt(outbox, i)
                       ELSE [outbox EXCEPT ![i].taken = TRUE]
          /\ retained' = CASE outbox[i].kind = "config" -> retained \cup {<<outbox[i].dev, outbox[i].t>>}
                           [] outbox[i].kind = "clear" -> retained \ {<<outbox[i].dev, outbox[i].t>>}
                           [] OTHER -> retained
    <3>1. DOMAIN outbox = 1 .. Len(outbox)
      BY <1>1
    <3>. QED BY <1>8, <3>1 DEF Take
  <2>2. outbox[i] \in Messages
    BY <1>1
  <2>3. CASE outbox[i].kind \in {"clear", "lost"}
    <3>1. outbox' = RemoveAt(outbox, i)
      BY <2>1, <2>3
    <3>2. /\ \A j \in 1 .. Len(outbox) : j # i => \E m \in 1 .. Len(outbox') : outbox'[m] = outbox[j]
          /\ \A m \in 1 .. Len(outbox') : \E j \in 1 .. Len(outbox) : outbox'[m] = outbox[j]
      BY <1>1, <3>1, RemoveAtKeeps
    <3>3. \A d : \A t \in Names : <<d, t>> \in retained => <<d, t>> \in retained'
      <4>1. CASE outbox[i].kind = "clear"
        <5>1. outbox[i].t \notin Names
          BY <4>1 DEF Apart, Names, Topics
        <5>. QED BY <2>1, <4>1, <5>1
      <4>2. CASE outbox[i].kind = "lost"
        BY <2>1, <4>2
      <4>. QED BY <2>3, <4>1, <4>2
    <3>4. Apart'
      BY <3>2 DEF Apart
    <3>5. TakenRetained'
      BY <3>2, <3>3 DEF Apart, TakenRetained
    <3>6. ASSUME NEW d, NEW t \in Names, Kept(d, t) PROVE Kept(d, t)'
      <4>1. CASE <<d, t>> \in retained
        BY <3>3, <4>1 DEF Kept
      <4>2. CASE \E j \in 1 .. Len(outbox) : outbox[j].kind = "config" /\ outbox[j].dev = d /\ outbox[j].t = t
        <5>1. PICK j \in 1 .. Len(outbox) : outbox[j].kind = "config" /\ outbox[j].dev = d /\ outbox[j].t = t
          BY <4>2
        <5>2. j # i
          BY <2>3, <5>1
        <5>. QED BY <3>2, <5>1, <5>2 DEF Kept
      <4>. QED BY <3>6, <4>1, <4>2 DEF Kept
    <3>. QED BY <3>4, <3>5, <3>6
  <2>4. CASE outbox[i].kind \notin {"clear", "lost"}
    <3>1. outbox' = [outbox EXCEPT ![i].taken = TRUE]
      BY <2>1, <2>4
    <3>2. /\ Len(outbox') = Len(outbox)
          /\ \A j \in 1 .. Len(outbox) : /\ outbox'[j].kind = outbox[j].kind /\ outbox'[j].dev = outbox[j].dev
                                         /\ outbox'[j].t = outbox[j].t /\ (j # i => outbox'[j].taken = outbox[j].taken)
      <4>1. outbox' = Marked(outbox, i)
        BY <3>1 DEF Marked
      <4>. QED BY <1>1, <4>1, MarkKeeps
    <3>3. /\ \A x \in retained : x \in retained'
          /\ outbox[i].kind = "config" => <<outbox[i].dev, outbox[i].t>> \in retained'
      <4>1. CASE outbox[i].kind = "config"
        BY <2>1, <4>1
      <4>2. CASE outbox[i].kind # "config"
        BY <2>1, <2>4, <4>2
      <4>. QED BY <4>1, <4>2
    <3>. QED BY <3>2, <3>3 DEF Apart, TakenRetained, Kept
  <2>. QED BY <2>3, <2>4
<1>9. CASE (outbox' = outbox /\ retained' = retained) \/ Discover \/ Subscribe \/ Data \/ Disconnect \/ Acknowledge \/ Take
  BY <1>2, <1>3, <1>4, <1>5, <1>6, <1>7, <1>8, <1>9
<1>. QED
  BY <1>9 DEF Next, HostTask, MqttTask, Start, Skip, LoopEnds, Poll, Discovered, Subscribed, Status, LogIn,
    Connect, PersistentDone, Command, vars, client, broker

\* A pass announces the entities of a device one by one, and marks the device after the last.
LEMMA AnnounceStep ==
  ASSUME MqttInv, Announcements, [Next]_vars, ~Forget
  PROVE  Announcements'
<1>1. CASE Reboot \/ CleanDone
  <2>1. outbox' = <<>> /\ Len(outbox') = 0
    BY <1>1 DEF Reboot, CleanDone
  <2>2. mqtt_discovery_done' = {} /\ pc' = "idle"
    <3>1. CASE Reboot
      BY <3>1 DEF Reboot
    <3>2. CASE CleanDone
      <4>1. known = <<>> /\ pc = "idle" /\ mqtt_discovery_done' = mqtt_discovery_done /\ pc' = pc
        BY <3>2 DEF CleanDone, MqttInv, NotStarted, slots, host
      <4>. QED BY <4>1 DEF MqttInv, PassOrder, ToSet
    <3>. QED BY <1>1, <3>1, <3>2
  <2>. QED BY <2>1, <2>2 DEF Announcements, Apart, TakenRetained, AllAnnounced, PassAnnounced
<1>2. CASE ~Reboot /\ ~CleanDone
  <2>1. Apart' /\ TakenRetained' /\ \A d : \A t \in Names : Kept(d, t) => Kept(d, t)'
    BY <1>2, KeptStays DEF Announcements
  <2>2. \A d \in Devices : \A i \in 1 .. Len(Configs(d)) : Configs(d)[i].name \in Names
    <3>. SUFFICES ASSUME NEW d \in Devices, NEW i \in 1 .. Len(Configs(d)) PROVE Configs(d)[i].name \in Names
      OBVIOUS
    <3>1. Configs(d) \in Seq(Entities)
      BY ConfigsType
    <3>2. Configs(d)[i] \in Entities
      BY <3>1, ElementOfSeq
    <3>. QED BY <3>2 DEF Entities
  <2>3. mqtt_discovery_done \subseteq Devices /\ (n \in 1 .. Len(known) => known[n] \in Devices) /\ n \in Nat /\ k \in Nat
    BY DEF MqttInv, MqttType, PassOrder, ToSet
  <2>4. CASE mqtt_discovery_done' = mqtt_discovery_done
    <3>1. AllAnnounced'
      BY <2>1, <2>2, <2>3, <2>4 DEF Announcements, AllAnnounced
    <3>2. CASE pc' = pc /\ n' = n /\ k' = k /\ (pc = "idle" \/ known' = known)
      <4>1. PassAnnounced'
        <5>. SUFFICES ASSUME pc \in {"discover", "wait"}, n <= Len(known), known[n] \notin mqtt_discovery_done,
                             NEW i \in 1 .. Len(Configs(known[n])), i < k \/ (i = k /\ pc = "wait")
                      PROVE  Kept(known[n], Configs(known[n])[i].name)'
          BY <2>4, <3>2 DEF PassAnnounced
        <5>1. n >= 1
          BY DEF MqttInv, PassOrder
        <5>2. Kept(known[n], Configs(known[n])[i].name)
          BY DEF Announcements, PassAnnounced
        <5>. QED BY <2>1, <2>2, <2>3, <3>2, <5>1, <5>2
      <4>. QED BY <2>1, <3>1, <4>1 DEF Announcements
    <3>3. CASE Status \/ Skip \/ LoopEnds \/ Subscribe \/ Subscribed
      <4>1. PassAnnounced'
        BY <2>3, <3>3 DEF Status, Skip, LoopEnds, Subscribe, Subscribed, PassAnnounced, MqttInv, PassOrder, slots
      <4>. QED BY <2>1, <3>1, <4>1 DEF Announcements
    <3>4. CASE Discover
      <4>1. /\ pc = "discover" /\ pc' = "wait" /\ n' = n /\ k' = k /\ known' = known /\ n <= Len(known)
            /\ known[n] \notin mqtt_discovery_done /\ n >= 1
        BY <3>4 DEF Discover, slots, MqttInv, PassOrder
      <4>2. known[n] \in Devices /\ Configs(known[n])[k].name \in Names
        BY <3>4, DiscoverType
      <4>3. Kept(known[n], Configs(known[n])[k].name)'
        <5>1. outbox' = Sent(Unawaited(outbox), Message("config", known[n], Configs(known[n])[k].name))
          BY <3>4 DEF Discover
        <5>2. Unawaited(outbox) \in Seq(Messages)
          BY UnawaitedType DEF MqttInv, MqttType
        <5>3. \E i \in 1 .. Len(outbox') : /\ outbox'[i].kind = "config" /\ outbox'[i].dev = known[n]
                                          /\ outbox'[i].t = Configs(known[n])[k].name
          <6>1. ASSUME NEW d \in Devices, NEW t \in Words, NEW sent, sent = Sent(Unawaited(outbox), Message("config", d, t))
                PROVE  \E i \in 1 .. Len(sent) : sent[i].kind = "config" /\ sent[i].dev = d /\ sent[i].t = t
            <7>1. "config" \in Kinds
              BY DEF Kinds
            <7>. HIDE DEF Kinds
            <7>. QED BY <5>2, <6>1, <7>1, SentKeeps
          <6>2. Configs(known[n])[k].name \in Words
            BY <4>2 DEF Words
          <6>. HIDE DEF Words
          <6>. QED BY <4>2, <5>1, <6>1, <6>2
        <5>. QED BY <4>1, <5>3 DEF Kept
      <4>4. ASSUME NEW i \in 1 .. Len(Configs(known[n])), i < k
            PROVE  Kept(known[n], Configs(known[n])[i].name)'
        <5>1. Kept(known[n], Configs(known[n])[i].name)
          BY <4>1, <4>4 DEF Announcements, PassAnnounced
        <5>. QED BY <2>1, <2>2, <4>1, <4>2, <5>1
      <4>5. PassAnnounced'
        BY <4>1, <4>3, <4>4 DEF PassAnnounced
      <4>. QED BY <2>1, <3>1, <4>5 DEF Announcements
    <3>5. CASE Poll
      <4>1. /\ pc = "wait" /\ n' = n /\ known' = known /\ n <= Len(known) /\ n >= 1
            /\ known[n] \notin mqtt_discovery_done
            /\ (pc' = "discover" /\ k' = k + 1) \/ (pc' = "wait" /\ k' = k)
        <5>1. (pc' = "discover" /\ k' = k + 1) \/ (pc' = "wait" /\ k' = k)
          BY <3>5 DEF Poll
        <5>. QED BY <3>5, <5>1 DEF Poll, slots, MqttInv, PassOrder
      <4>2. ASSUME NEW i \in 1 .. Len(Configs(known[n])), i <= k
            PROVE  Kept(known[n], Configs(known[n])[i].name)'
        <5>1. Len(Configs(known[n])) \in Nat
          BY <2>3, <4>1, ConfigsType
        <5>2. i < k \/ i = k
          BY <2>3, <4>2, <5>1
        <5>3. Kept(known[n], Configs(known[n])[i].name)
          BY <4>1, <5>2 DEF Announcements, PassAnnounced
        <5>. QED BY <2>1, <2>2, <2>3, <4>1, <5>3
      <4>3. \A i \in 1 .. Len(Configs(known[n])) : (i < k + 1 \/ i = k) => i <= k
        BY <2>3, <4>1, ConfigsType
      <4>4. PassAnnounced'
        BY <2>3, <4>1, <4>2, <4>3 DEF PassAnnounced
      <4>. QED BY <2>1, <3>1, <4>4 DEF Announcements
    <3>6. CASE (\E d \in Devices : LogIn(d)) \/ Connect \/ PersistentDone \/ Disconnect
      BY <3>2, <3>6 DEF LogIn, Connect, PersistentDone, Disconnect, slots, host
    <3>7. CASE Command \/ Take \/ Acknowledge \/ Data \/ UNCHANGED vars
      BY <3>2, <3>7 DEF Command, Take, Acknowledge, Data, vars, slots, host
    <3>8. ~Discovered
      BY <2>4 DEF Discovered
    <3>. QED
      BY <1>2, <3>3, <3>4, <3>5, <3>6, <3>7, <3>8 DEF Next, HostTask, MqttTask, Start
  <2>5. CASE Discovered
    <3>1. /\ pc' = pc /\ pc = "discover" /\ n' = n + 1 /\ k' = 1 /\ known' = known /\ n <= Len(known) /\ n >= 1
          /\ known[n] \notin mqtt_discovery_done /\ k > Len(Configs(known[n]))
          /\ mqtt_discovery_done' = mqtt_discovery_done \cup {known[n]}
      BY <2>5 DEF Discovered, MqttInv, PassOrder
    <3>2. \A i \in 1 .. Len(Configs(known[n])) : Kept(known[n], Configs(known[n])[i].name)
      <4>1. Len(Configs(known[n])) \in Nat
        BY <2>3, <3>1, ConfigsType
      <4>2. \A i \in 1 .. Len(Configs(known[n])) : i < k
        BY <2>3, <3>1, <4>1
      <4>. QED BY <3>1, <4>2 DEF Announcements, PassAnnounced
    <3>3. AllAnnounced'
      BY <2>1, <2>2, <2>3, <3>1, <3>2 DEF Announcements, AllAnnounced
    <3>4. PassAnnounced'
      BY <3>1 DEF PassAnnounced
    <3>. QED BY <2>1, <3>3, <3>4 DEF Announcements
  <2>. QED
    BY <1>2, <2>4, <2>5
    DEF Next, HostTask, MqttTask, Start, LogIn, Status, Skip, LoopEnds, Discover, Poll, Subscribe, Subscribed,
      Connect, PersistentDone, Command, Disconnect, Take, Acknowledge, Data, vars, slots
<1>. QED BY <1>1, <1>2

\* The flags keep their types.
LEMMA FlagsStep == MqttInv /\ MqttFlags /\ [Next]_vars => MqttFlags'
<1>. SUFFICES ASSUME MqttInv, MqttFlags, [Next]_vars PROVE MqttFlags'
  OBVIOUS
<1>1. CASE Connect \/ Start \/ Disconnect \/ Forget \/ Reboot
  BY <1>1 DEF MqttFlags, Connect, Start, CleanDone, PersistentDone, Disconnect, Forget, Reboot, client, broker, hist
<1>2. CASE Status \/ Skip \/ LoopEnds \/ Poll \/ Discovered \/ Subscribed
  BY <1>2 DEF MqttFlags, Status, Skip, LoopEnds, Poll, Discovered, Subscribed, client, broker, hist
<1>3. CASE (\E d \in Devices : LogIn(d)) \/ Discover \/ Subscribe
  BY <1>3 DEF MqttFlags, LogIn, Discover, Subscribe, client, broker, hist
<1>4. CASE Take \/ Acknowledge \/ Command \/ Data
  <2>1. CASE Take \/ Command
    BY <2>1 DEF MqttFlags, Take, Command, client, hist
  <2>3. CASE Acknowledge
    <3>1. Head(outbox).awaited \in BOOLEAN
      <4>1. Head(outbox) \in Messages
        BY <2>3, TailShifts DEF Acknowledge, MqttInv, MqttType
      <4>. QED BY <4>1 DEF Messages
    <3>2. published' \in BOOLEAN
      BY <2>3, <3>1 DEF Acknowledge, MqttFlags
    <3>. QED BY <2>3, <3>2 DEF Acknowledge, MqttFlags, hist
  <2>2. CASE Data
    <3>1. mqtt_init_done' = mqtt_init_done /\ published' = published /\ connected' = connected
      BY <2>2 DEF Data
    <3>2. crashed' \in BOOLEAN
      BY <2>2 DEF Data, MqttFlags
    <3>. QED BY <3>1, <3>2 DEF MqttFlags
  <2>. QED BY <1>4, <2>1, <2>2, <2>3
<1>5. CASE UNCHANGED vars
  BY <1>5 DEF vars, client, broker, hist, MqttFlags
<1>. QED BY <1>1, <1>2, <1>3, <1>4, <1>5 DEF Next, HostTask, MqttTask

-----------------------------------------------------------------------------
(* The theorems.                                                           *)

\* The order of the starts and of the passes holds in every state.
THEOREM MqttInvariant == Spec => []MqttInv
BY MqttStarts, MqttStep, PTL DEF Spec

\* A command given before a restart, which the broker kept, is not obeyed after it.
THEOREM NothingFromBefore == Spec => []NoCommandFromBefore
<1>1. MqttInv => NoCommandFromBefore
  BY DEF MqttInv
<1>. QED BY <1>1, MqttInvariant, PTL

\* Unless the broker forgets, whatever is marked announced is retained or on its way, however
\* the connection is lost and the ESP32 restarts.
THEOREM AnnouncedStays == "forget" \notin Faults => (Spec => []DoneIsAnnounced)
<1>. SUFFICES ASSUME "forget" \notin Faults PROVE Spec => []DoneIsAnnounced
  OBVIOUS
<1>. DEFINE I == MqttInv /\ MqttFlags /\ Announcements
<1>1. Init => I
  <2>. SUFFICES ASSUME Init PROVE I
    OBVIOUS
  <2>1. Len(outbox) = 0 /\ mqtt_discovery_done = {} /\ pc = "idle"
    BY DEF Init
  <2>2. MqttFlags
    BY DEF Init, MqttFlags
  <2>. QED
    BY <2>1, <2>2, MqttStarts DEF Announcements, Apart, TakenRetained, AllAnnounced, PassAnnounced
<1>2. I /\ [Next]_vars => I'
  <2>1. ~Forget
    BY DEF Forget
  <2>. QED BY <2>1, MqttStep, FlagsStep, AnnounceStep
<1>3. I => DoneIsAnnounced
  <2>. SUFFICES ASSUME I PROVE DoneIsAnnounced
    OBVIOUS
  <2>1. TypeOK
    <3>1. {mqtt_init_done, published, connected, crashed} \subseteq BOOLEAN
      BY DEF MqttFlags
    <3>2. {boots, faults} \subseteq 0 .. MaxFaults
      BY MqttAssumption DEF MqttInv, MqttType
    <3>. QED BY <3>1, <3>2 DEF MqttInv, MqttType, PassOrder, TypeOK
  <2>2. ASSUME NEW d \in mqtt_discovery_done, NEW c \in ToSet(Configs(d))
        PROVE  \/ <<d, c.name>> \in retained
               \/ \E m \in ToSet(outbox) : m.kind = "config" /\ m.dev = d /\ m.t = c.name
    <3>1. d \in Devices
      BY DEF MqttInv, MqttType, PassOrder, ToSet
    <3>2. Configs(d) \in Seq(Entities) /\ outbox \in Seq(Messages)
      BY <3>1, ConfigsType DEF MqttInv, MqttType
    <3>3. PICK i \in 1 .. Len(Configs(d)) : c = Configs(d)[i]
      BY <3>2 DEF ToSet
    <3>4. Kept(d, c.name)
      BY <3>3 DEF Announcements, AllAnnounced
    <3>. QED BY <3>2, <3>4 DEF Kept, ToSet
  <2>. QED BY <2>1, <2>2 DEF DoneIsAnnounced
<1>. HIDE DEF I
<1>. QED BY <1>1, <1>2, <1>3, PTL DEF Spec

-----------------------------------------------------------------------------
(* What is announced can be commanded, while the connection holds.         *)

\* The topics that take the commands of d's entities.
Wanted(d) == {c.cmd_t : c \in ToSet(Configs(d))} \ {"none"}

\* The topic is subscribed, or a message that subscribes it is on its way.
OnItsWay(d, t) ==
  \/ <<d, t>> \in subs
  \/ \E i \in 1 .. Len(outbox) :
       outbox[i].kind = "subscribe" /\ outbox[i].dev = d /\ outbox[i].t = t /\ ~outbox[i].taken

\* While the connection is not lost the client has one from MQTT_EVENT_CONNECTED on.
Online == phase = "run" \/ mqtt_init_done => connected

AllSubscribed == \A d \in mqtt_subscribe_done : \A t \in Wanted(d) : OnItsWay(d, t)

\* In the middle of a device, what its first k - 1 calls subscribe.
CallsOf(d) == Calls(d, d \in is_new)
PassSubscribed ==
  pc = "subscribe" /\ n <= Len(known) /\ known[n] \notin mqtt_subscribe_done =>
    \A i \in 1 .. Len(CallsOf(known[n])) :
      i < k /\ CallsOf(known[n])[i].kind = "subscribe" => OnItsWay(known[n], CallsOf(known[n])[i].t)

\* A slot that is done is skipped from its first call.
SkipAtFirst ==
  pc = "subscribe" /\ n <= Len(known) /\ known[n] \in mqtt_subscribe_done => k = 1

\* The broker keeps no order for a branch that would use the NULL one of ssm and tch.
Suits(o) ==
  /\ o.dev \in Touches => o.action \notin SsmActions
  /\ o.dev \in Locks => o.action \notin TchActions
Sane == ~crashed /\ \A i \in 1 .. Len(queue) : Suits(queue[i])

Subscriptions == Online /\ AllSubscribed /\ PassSubscribed /\ SkipAtFirst /\ Sane

\* The elements of a sequence.
Has(s, x) == \E i \in 1 .. Len(s) : s[i] = x

\* The elements of two sequences joined are theirs, in their order.
LEMMA Joined ==
  ASSUME NEW S, NEW s \in Seq(S), NEW t \in Seq(S)
  PROVE  /\ s \o t \in Seq(S) /\ Len(s \o t) = Len(s) + Len(t) /\ Len(s) \in Nat /\ Len(t) \in Nat
         /\ \A i \in 1 .. Len(s) : (s \o t)[i] = s[i]
         /\ \A i \in 1 .. Len(s) + Len(t) : i \notin 1 .. Len(s) =>
              i - Len(s) \in 1 .. Len(t) /\ (s \o t)[i] = t[i - Len(s)]
         /\ \A x : Has(s \o t, x) <=> Has(s, x) \/ Has(t, x)
<1>1. /\ s \o t \in Seq(S) /\ Len(s \o t) = Len(s) + Len(t) /\ Len(s) \in Nat /\ Len(t) \in Nat
      /\ \A i \in 1 .. Len(s) + Len(t) : (s \o t)[i] = IF i <= Len(s) THEN s[i] ELSE t[i - Len(s)]
  BY ConcatProperties
<1>. DEFINE st == s \o t
<1>. HIDE DEF st
<1>2. /\ Len(st) = Len(s) + Len(t)
      /\ \A i \in 1 .. Len(s) : st[i] = s[i]
      /\ \A i \in 1 .. Len(s) + Len(t) : i \notin 1 .. Len(s) =>
           i - Len(s) \in 1 .. Len(t) /\ st[i] = t[i - Len(s)]
  BY <1>1 DEF st
<1>3. \A i \in 1 .. Len(t) : st[Len(s) + i] = t[i] /\ Len(s) + i \in 1 .. Len(st)
  <2>. SUFFICES ASSUME NEW i \in 1 .. Len(t) PROVE st[Len(s) + i] = t[i] /\ Len(s) + i \in 1 .. Len(st)
    OBVIOUS
  <2>1. Len(s) + i \in 1 .. Len(s) + Len(t) /\ Len(s) + i \notin 1 .. Len(s) /\ (Len(s) + i) - Len(s) = i
    BY <1>1
  <2>. QED BY <1>2, <2>1
<1>4. ASSUME NEW x PROVE Has(st, x) <=> Has(s, x) \/ Has(t, x)
  <2>1. ASSUME NEW i \in 1 .. Len(st), st[i] = x PROVE Has(s, x) \/ Has(t, x)
    <3>1. CASE i \in 1 .. Len(s)
      BY <1>2, <2>1, <3>1 DEF Has
    <3>2. CASE i \notin 1 .. Len(s)
      BY <1>2, <2>1, <3>2 DEF Has
    <3>. QED BY <3>1, <3>2
  <2>2. ASSUME NEW i \in 1 .. Len(s), s[i] = x PROVE Has(st, x)
    <3>1. i \in 1 .. Len(st)
      BY <1>1, <1>2
    <3>. QED BY <1>2, <2>2, <3>1 DEF Has
  <2>3. ASSUME NEW i \in 1 .. Len(t), t[i] = x PROVE Has(st, x)
    BY <1>3, <2>3 DEF Has
  <2>. QED BY <2>1, <2>2, <2>3 DEF Has
<1>. QED BY <1>1, <1>2, <1>4 DEF st

\* mqtt_subscribe subscribes "set" for every device, and the positions for a lock.
LEMMA CallsSubscribe ==
  ASSUME NEW d \in Devices, NEW new \in BOOLEAN
  PROVE  /\ Calls(d, new) \in Seq(CallSet)
         /\ Has(Calls(d, new), Call("subscribe", "set"))
         /\ d \in Locks => /\ Has(Calls(d, new), Call("subscribe", "set/lock_position"))
                           /\ Has(Calls(d, new), Call("subscribe", "set/unlock_position"))
         /\ new => /\ Len(Calls(d, new)) >= 2 /\ Calls(d, new)[1] = Call("clear", "set")
                   /\ \A i \in 1 .. Len(Calls(d, new)) : Calls(d, new)[i] = Call("subscribe", "set") => i = 2
<1>. DEFINE S == CallSet
            clear(t) == IF new THEN <<Call("clear", t)>> ELSE <<>>
            sub(t) == <<Call("subscribe", t)>>
            first == clear("set") \o sub("set")
            A == clear("state")
            B == <<State("qr_code_text")>>
            P == clear("set/lock_position") \o sub("set/lock_position")
            Q == clear("set/unlock_position") \o sub("set/unlock_position")
            T == <<State("add_sesame"), State("remove_sesame")>>
            C == IF d \in Locks THEN P \o Q ELSE T
            x == Call("subscribe", "set")
<1>1. Calls(d, new) = first \o A \o B \o C
  BY DEF Calls
<1>2. /\ \A t \in Topics : Call("clear", t) \in S /\ Call("subscribe", t) \in S
      /\ State("qr_code_text") \in S /\ State("add_sesame") \in S /\ State("remove_sesame") \in S
  BY DEF Call, State, CallSet, Words, Names
<1>3. /\ \A t : Call("clear", t) # x
      /\ \A t : t # "set" => Call("subscribe", t) # x
      /\ \A t : State(t) # x
  BY DEF Call, State
<1>. HIDE DEF S, x
<1>4. \A t \in Topics :
        /\ clear(t) \in Seq(S) /\ sub(t) \in Seq(S) /\ Has(sub(t), Call("subscribe", t)) /\ ~Has(clear(t), x)
        /\ t # "set" => ~Has(sub(t), x)
        /\ Len(sub(t)) = 1 /\ sub(t)[1] = Call("subscribe", t)
        /\ new => Len(clear(t)) = 1 /\ clear(t)[1] = Call("clear", t)
  BY <1>2, <1>3 DEF Has
<1>5. B \in Seq(S) /\ ~Has(B, x) /\ T \in Seq(S) /\ ~Has(T, x)
  BY <1>2, <1>3 DEF Has
<1>6. "set" \in Topics /\ "state" \in Topics /\ "set/lock_position" \in Topics /\ "set/unlock_position" \in Topics
  BY DEF Topics
<1>. HIDE DEF clear, sub, B, T
<1>7. A \in Seq(S) /\ ~Has(A, x)
  BY <1>4, <1>6
<1>8. /\ P \in Seq(S) /\ ~Has(P, x) /\ Has(P, Call("subscribe", "set/lock_position"))
      /\ Q \in Seq(S) /\ ~Has(Q, x) /\ Has(Q, Call("subscribe", "set/unlock_position"))
  <2>1. /\ clear("set/lock_position") \in Seq(S) /\ sub("set/lock_position") \in Seq(S)
        /\ Has(sub("set/lock_position"), Call("subscribe", "set/lock_position"))
        /\ ~Has(clear("set/lock_position"), x) /\ ~Has(sub("set/lock_position"), x)
    BY <1>4, <1>6
  <2>2. /\ clear("set/unlock_position") \in Seq(S) /\ sub("set/unlock_position") \in Seq(S)
        /\ Has(sub("set/unlock_position"), Call("subscribe", "set/unlock_position"))
        /\ ~Has(clear("set/unlock_position"), x) /\ ~Has(sub("set/unlock_position"), x)
    BY <1>4, <1>6
  <2>3. P \in Seq(S) /\ ~Has(P, x) /\ Has(P, Call("subscribe", "set/lock_position"))
    BY <2>1, Joined
  <2>4. Q \in Seq(S) /\ ~Has(Q, x) /\ Has(Q, Call("subscribe", "set/unlock_position"))
    BY <2>2, Joined
  <2>. QED BY <2>3, <2>4
<1>9. /\ first \in Seq(S) /\ Has(first, x)
      /\ new => Len(first) = 2 /\ first[1] = Call("clear", "set") /\ first[1] # x
  <2>1. /\ clear("set") \in Seq(S) /\ sub("set") \in Seq(S) /\ Has(sub("set"), x)
        /\ Len(sub("set")) = 1
        /\ new => Len(clear("set")) = 1 /\ clear("set")[1] = Call("clear", "set")
    BY <1>4, <1>6 DEF x
  <2>2. Call("clear", "set") # x
    BY <1>3
  <2>. HIDE DEF first
  <2>3. /\ first \in Seq(S) /\ Has(first, x) /\ Len(first) = Len(clear("set")) + Len(sub("set"))
        /\ \A i \in 1 .. Len(clear("set")) : first[i] = clear("set")[i]
    BY <2>1, Joined DEF first
  <2>. QED BY <2>1, <2>2, <2>3
<1>. HIDE DEF first, A, P, Q
<1>10. /\ C \in Seq(S) /\ ~Has(C, x)
       /\ d \in Locks => /\ Has(C, Call("subscribe", "set/lock_position"))
                         /\ Has(C, Call("subscribe", "set/unlock_position"))
  <2>1. /\ P \o Q \in Seq(S) /\ ~Has(P \o Q, x)
        /\ Has(P \o Q, Call("subscribe", "set/lock_position"))
        /\ Has(P \o Q, Call("subscribe", "set/unlock_position"))
    BY <1>8, Joined
  <2>2. CASE d \in Locks
    BY <2>1, <2>2
  <2>3. CASE d \notin Locks
    BY <1>5, <2>3
  <2>. QED BY <2>2, <2>3
<1>. HIDE DEF C
<1>. DEFINE F1 == first \o A
            F2 == F1 \o B
            F3 == F2 \o C
            Leads(s) == Len(s) >= 2 /\ s[1] = Call("clear", "set") /\ \A i \in 1 .. Len(s) : s[i] = x => i = 2
<1>11. ASSUME NEW s \in Seq(S), NEW t \in Seq(S), ~Has(t, x), Leads(s) PROVE Leads(s \o t)
  <2>1. /\ Len(s \o t) = Len(s) + Len(t) /\ Len(s) \in Nat /\ Len(t) \in Nat
        /\ \A i \in 1 .. Len(s) : (s \o t)[i] = s[i]
        /\ \A i \in 1 .. Len(s) + Len(t) : i \notin 1 .. Len(s) =>
             i - Len(s) \in 1 .. Len(t) /\ (s \o t)[i] = t[i - Len(s)]
    BY Joined
  <2>. DEFINE st == s \o t
  <2>. HIDE DEF st
  <2>2. Len(st) >= 2 /\ st[1] = Call("clear", "set")
    BY <1>11, <2>1 DEF st
  <2>3. ASSUME NEW i \in 1 .. Len(st), st[i] = x PROVE i = 2
    <3>1. i \in 1 .. Len(s) + Len(t)
      BY <2>1 DEF st
    <3>2. CASE i \in 1 .. Len(s)
      BY <1>11, <2>1, <2>3, <3>2 DEF st
    <3>3. CASE i \notin 1 .. Len(s)
      BY <1>11, <2>1, <2>3, <3>1, <3>3 DEF st, Has
    <3>. QED BY <3>2, <3>3
  <2>4. Leads(st)
    BY <2>2, <2>3
  <2>. QED BY <2>4 DEF st
<1>12. new => Leads(first)
  <2>. SUFFICES ASSUME new PROVE Leads(first)
    OBVIOUS
  <2>1. Len(first) = 2 /\ first[1] = Call("clear", "set") /\ first[1] # x
    BY <1>9
  <2>. QED BY <2>1
<1>. HIDE DEF Leads
<1>13. F1 \in Seq(S) /\ Has(F1, x) /\ (new => Leads(F1))
  BY <1>7, <1>9, <1>11, <1>12, Joined
<1>. HIDE DEF F1
<1>14. F2 \in Seq(S) /\ Has(F2, x) /\ (new => Leads(F2))
  BY <1>5, <1>11, <1>13, Joined
<1>. HIDE DEF F2
<1>15. /\ F3 \in Seq(S) /\ Has(F3, x) /\ (new => Leads(F3))
       /\ d \in Locks => /\ Has(F3, Call("subscribe", "set/lock_position"))
                         /\ Has(F3, Call("subscribe", "set/unlock_position"))
  <2>1. F3 \in Seq(S) /\ \A y : Has(F3, y) <=> Has(F2, y) \/ Has(C, y)
    BY <1>10, <1>14, Joined
  <2>2. new => Leads(F3)
    BY <1>10, <1>11, <1>14
  <2>. HIDE DEF F3
  <2>. QED BY <1>10, <1>14, <2>1, <2>2
<1>16. Calls(d, new) = F3
  BY <1>1 DEF F1, F2
<1>. HIDE DEF F3
<1>. QED BY <1>15, <1>16 DEF Leads, S, x

\* The entities of a lock take commands on three topics, those of a touch on one, and
\* none of their actions is for the other kind.
LEMMA EntitiesSuit ==
  ASSUME NEW d \in Devices
  PROVE  /\ Wanted(d) \subseteq {"set", "set/lock_position", "set/unlock_position"}
         /\ d \in Touches => Wanted(d) \subseteq {"set"}
         /\ \A c \in ToSet(Configs(d)) : /\ c \in Entities
                                        /\ \A s : Suits(Order(d, c.action, s))
<1>. DEFINE L == {c \in Entities : /\ c.cmd_t \in {"none", "set", "set/lock_position", "set/unlock_position"}
                                   /\ c.action \notin TchActions}
            U == {c \in Entities : c.cmd_t \in {"none", "set"} /\ c.action \notin SsmActions}
<1>1. \A a \in Names, b, c \in Words :
        /\ Control(a, b, c) \in Entities /\ Control(a, b, c).cmd_t = b /\ Control(a, b, c).action = c
        /\ Sensor(a) \in Entities /\ Sensor(a).cmd_t = "none" /\ Sensor(a).action = "none"
  BY DEF Control, Sensor, Entities, Words
<1>2. \A a \in Names, c \in Words :
        /\ c \notin TchActions => \A b \in {"set", "set/lock_position", "set/unlock_position"} : Control(a, b, c) \in L
        /\ Sensor(a) \in L /\ Sensor(a) \in U
        /\ c \notin SsmActions => Control(a, "set", c) \in U
  <2>1. {"none", "set", "set/lock_position", "set/unlock_position"} \subseteq Words
    BY DEF Words, Topics
  <2>. SUFFICES ASSUME NEW a \in Names, NEW c \in Words
                PROVE  /\ c \notin TchActions =>
                            \A b \in {"set", "set/lock_position", "set/unlock_position"} : Control(a, b, c) \in L
                       /\ Sensor(a) \in L /\ Sensor(a) \in U
                       /\ c \notin SsmActions => Control(a, "set", c) \in U
    OBVIOUS
  <2>2. \A b \in {"set", "set/lock_position", "set/unlock_position"} :
          Control(a, b, c) \in Entities /\ Control(a, b, c).cmd_t = b /\ Control(a, b, c).action = c
    BY <1>1, <2>1
  <2>3. Sensor(a) \in Entities /\ Sensor(a).cmd_t = "none" /\ Sensor(a).action = "none"
    BY <1>1, <2>1
  <2>4. "none" \notin TchActions /\ "none" \notin SsmActions
    BY DEF TchActions, SsmActions
  <2>5. Sensor(a) \in L /\ Sensor(a) \in U
    BY <2>3, <2>4
  <2>. HIDE DEF Entities
  <2>6. c \notin TchActions => \A b \in {"set", "set/lock_position", "set/unlock_position"} : Control(a, b, c) \in L
    BY <2>2
  <2>7. c \notin SsmActions => Control(a, "set", c) \in U
    BY <2>2
  <2>. QED BY <2>5, <2>6, <2>7
<1>3. \A c \in L : c.cmd_t \in {"none", "set", "set/lock_position", "set/unlock_position"} /\ c.action \notin TchActions /\ c \in Entities
  OBVIOUS
<1>4. \A c \in U : c.cmd_t \in {"none", "set"} /\ c.action \notin SsmActions /\ c \in Entities
  OBVIOUS
<1>. HIDE DEF L, U
<1>5. CASE d \in Locks
  <2>1. LockSensors \in Seq(L)
    BY <1>2 DEF LockSensors, Words, Names, Topics, TchActions
  <2>2. LockButtons \in Seq(L) /\ <<Sensor("rssi")>> \in Seq(L)
    BY <1>2 DEF LockButtons, Words, Names, Topics, TchActions
  <2>3. Configs(d) \in Seq(L)
    BY <1>5, <2>1, <2>2 DEF Configs
  <2>4. ToSet(Configs(d)) \subseteq L
    BY <2>3, ElementOfSeq DEF ToSet
  <2>5. d \notin Touches
    BY <1>5, MqttAssumption
  <2>6. \A c \in L : \A s : Suits(Order(d, c.action, s))
    BY <1>3, <2>5 DEF Suits, Order
  <2>. QED BY <1>3, <2>4, <2>5, <2>6 DEF Wanted
<1>6. CASE d \notin Locks
  <2>1. TouchTexts \in Seq(U)
    BY <1>2 DEF TouchTexts, Words, Names, Topics, SsmActions
  <2>2. TouchButtons \in Seq(U) /\ <<Sensor("rssi")>> \in Seq(U)
    BY <1>2 DEF TouchButtons, Words, Names, Topics, SsmActions
  <2>3. Configs(d) \in Seq(U)
    BY <1>6, <2>1, <2>2 DEF Configs
  <2>4. ToSet(Configs(d)) \subseteq U
    BY <2>3, ElementOfSeq DEF ToSet
  <2>5. \A c \in U : \A s : Suits(Order(d, c.action, s))
    BY <1>4, <1>6 DEF Suits, Order
  <2>. QED BY <1>4, <2>4, <2>5 DEF Wanted
<1>. QED BY <1>5, <1>6

\* No message overtakes another: each keeps its place, and one is taken with its effect.
InPlace ==
  /\ Len(outbox') >= Len(outbox)
  /\ \A i \in 1 .. Len(outbox) :
       /\ outbox'[i].kind = outbox[i].kind /\ outbox'[i].dev = outbox[i].dev /\ outbox'[i].t = outbox[i].t
       /\ outbox[i].taken => outbox'[i].taken
       /\ outbox'[i].taken /\ ~outbox[i].taken =>
            outbox[i].kind # "clear" /\ (outbox[i].kind = "subscribe" => <<outbox[i].dev, outbox[i].t>> \in subs')

\* Or one that is taken leaves its place to those behind it.
MovedUp(i) ==
  /\ i \in 1 .. Len(outbox) /\ \A j \in 1 .. i - 1 : outbox[j].taken
  /\ outbox[i].taken \/ (outbox[i].kind \in {"clear", "lost"} /\
                         (outbox[i].kind = "clear" => <<outbox[i].dev, outbox[i].t>> \notin retained'))
  /\ Len(outbox') = Len(outbox) - 1
  /\ \A j \in 1 .. Len(outbox) - 1 : outbox'[j] = IF j <= i - 1 THEN outbox[j] ELSE outbox[j + 1]

\* What empties the outbox: a connection or a broker that starts before the host task does.
Resets == Connect \/ CleanDone \/ Forget \/ Reboot

\* A reset finds the host task idle, or makes it so.
LEMMA ResetStep ==
  ASSUME MqttInv, Online, Resets
  PROVE  /\ known' = <<>> /\ outbox' = <<>> /\ pc' = "idle" /\ queue' \in {queue, <<>>}
         /\ crashed' = crashed /\ obeyed' = obeyed /\ Online'
<1>1. CASE Connect \/ Forget
  <2>1. phase # "run"
    BY <1>1 DEF Connect, Forget, Online
  <2>2. known = <<>> /\ outbox = <<>> /\ pc = "idle"
    BY <2>1 DEF MqttInv, NotStarted
  <2>3. CASE Connect
    BY <2>2, <2>3 DEF Connect, Online, slots, host, hist
  <2>4. CASE Forget
    BY <2>2, <2>4 DEF Forget, Online, slots, host, client
  <2>. QED BY <1>1, <2>3, <2>4
<1>2. CASE CleanDone
  <2>1. known = <<>> /\ pc = "idle"
    BY <1>2 DEF CleanDone, MqttInv, NotStarted
  <2>. QED BY <1>2, <2>1 DEF CleanDone, Online, slots, host, broker, hist
<1>3. CASE Reboot
  BY <1>3 DEF Reboot, Online, broker
<1>. QED BY <1>1, <1>2, <1>3 DEF Resets

\* Every other step moves the messages in order.
LEMMA MessagesMove ==
  ASSUME MqttInv, Online, [Next]_vars, ~Resets, ~Disconnect
  PROVE  /\ subs \subseteq subs' /\ Online'
         /\ InPlace \/ \E i \in 1 .. Len(outbox) : MovedUp(i)
         /\ Apart => \A d : <<d, "set">> \in retained' => <<d, "set">> \in retained
         /\ ~Subscribe /\ InPlace =>
              \A j \in 1 .. Len(outbox') : j \in 1 .. Len(outbox) \/ outbox'[j].kind # "subscribe"
<1>1. outbox \in Seq(Messages) /\ Len(outbox) \in Nat
  BY DEF MqttInv, MqttType
<1>2. CASE outbox' = outbox /\ retained' = retained /\ subs' = subs /\ Online'
  BY <1>1, <1>2 DEF InPlace
<1>3. CASE Discover
  <2>1. Configs(known[n])[k].name \in Names /\ known[n] \in Devices
    BY <1>3, DiscoverType
  <2>2. /\ outbox' = Sent(Unawaited(outbox), Message("config", known[n], Configs(known[n])[k].name))
        /\ retained' = retained /\ subs' = subs /\ Online'
    BY <1>3 DEF Discover, broker, Online
  <2>3. /\ Unawaited(outbox) \in Seq(Messages) /\ Len(Unawaited(outbox)) = Len(outbox)
        /\ \A i \in 1 .. Len(outbox) :
             /\ Unawaited(outbox)[i].kind = outbox[i].kind /\ Unawaited(outbox)[i].dev = outbox[i].dev
             /\ Unawaited(outbox)[i].t = outbox[i].t /\ Unawaited(outbox)[i].taken = outbox[i].taken
    BY <1>1, UnawaitedType
  <2>4. /\ Len(outbox') \in Nat /\ Len(outbox') >= Len(Unawaited(outbox))
        /\ \A i \in 1 .. Len(Unawaited(outbox)) : outbox'[i] = Unawaited(outbox)[i]
        /\ \A i \in 1 .. Len(outbox') : i \in 1 .. Len(Unawaited(outbox)) \/ outbox'[i].kind = "config"
    BY <2>1, <2>2, <2>3, SentKeeps DEF Kinds, Words
  <2>5. InPlace
    BY <2>3, <2>4 DEF InPlace
  <2>. QED BY <2>2, <2>3, <2>4, <2>5
<1>4. CASE Subscribe
  <2>1. PICK kind \in Kinds, d \in Devices, t \in Words : outbox' = Sent(outbox, Message(kind, d, t))
    BY <1>4, SubscribeType
  <2>2. retained' = retained /\ subs' = subs /\ Online'
    BY <1>4 DEF Subscribe, broker, Online
  <2>3. /\ Len(outbox') \in Nat /\ Len(outbox') >= Len(outbox)
        /\ \A i \in 1 .. Len(outbox) : outbox'[i] = outbox[i]
    BY <1>1, <2>1, SentKeeps
  <2>4. InPlace
    BY <2>3 DEF InPlace
  <2>. QED BY <1>4, <2>2, <2>4
<1>5. CASE Data
  <2>1. retained' = retained /\ queue # <<>> /\ subs' = subs /\ Online'
    BY <1>5 DEF Data, slots, host, Online
  <2>2. Head(queue).dev \in Devices
    <3>1. Head(queue) \in Orders
      BY <2>1, TailShifts DEF MqttInv, MqttType
    <3>. QED BY <3>1 DEF Orders
  <2>3. outbox' = outbox \/ outbox' = Sent(outbox, Message("state", Head(queue).dev, "qr_code_text"))
    BY <1>5 DEF Data, Sent, Message
  <2>4. CASE outbox' = outbox
    BY <1>2, <2>1, <2>4
  <2>5. CASE outbox' = Sent(outbox, Message("state", Head(queue).dev, "qr_code_text"))
    <3>1. /\ Len(outbox') \in Nat /\ Len(outbox') >= Len(outbox)
          /\ \A i \in 1 .. Len(outbox) : outbox'[i] = outbox[i]
          /\ \A i \in 1 .. Len(outbox') : i \in 1 .. Len(outbox) \/ outbox'[i].kind = "state"
      BY <1>1, <2>2, <2>5, SentKeeps DEF Kinds, Words, Names
    <3>2. InPlace
      BY <3>1 DEF InPlace
    <3>. QED BY <2>1, <3>1, <3>2
  <2>. QED BY <2>3, <2>4, <2>5
<1>6. CASE Acknowledge
  <2>1. outbox # <<>> /\ Head(outbox).taken /\ outbox' = Tail(outbox) /\ retained' = retained /\ subs' = subs /\ Online'
    BY <1>6 DEF Acknowledge, broker, Online
  <2>2. /\ Len(outbox) > 0 /\ Len(outbox') = Len(outbox) - 1 /\ Head(outbox) = outbox[1]
        /\ \A i \in 1 .. Len(outbox) - 1 : outbox'[i] = outbox[i + 1]
    BY <1>1, <2>1, TailShifts
  <2>3. 1 \in 1 .. Len(outbox) /\ MovedUp(1)
    BY <1>1, <2>1, <2>2 DEF MovedUp
  <2>4. ~InPlace
    BY <1>1, <2>2 DEF InPlace
  <2>. QED BY <2>1, <2>3, <2>4
<1>7. CASE Take
  <2>1. PICK i \in 1 .. Len(outbox) :
          /\ ~outbox[i].taken /\ \A j \in 1 .. i - 1 : outbox[j].taken
          /\ outbox' = IF outbox[i].kind \in {"clear", "lost"} THEN RemoveAt(outbox, i)
                       ELSE [outbox EXCEPT ![i].taken = TRUE]
          /\ retained' = CASE outbox[i].kind = "config" -> retained \cup {<<outbox[i].dev, outbox[i].t>>}
                           [] outbox[i].kind = "clear" -> retained \ {<<outbox[i].dev, outbox[i].t>>}
                           [] OTHER -> retained
          /\ subs' = IF outbox[i].kind = "subscribe" THEN subs \cup {<<outbox[i].dev, outbox[i].t>>} ELSE subs
    <3>1. DOMAIN outbox = 1 .. Len(outbox)
      BY <1>1
    <3>. QED BY <1>7, <3>1 DEF Take
  <2>2. subs \subseteq subs' /\ Online'
    <3>1. subs \subseteq subs'
      BY <2>1
    <3>. QED BY <1>7, <3>1 DEF Take, Online
  <2>3. Apart => \A d : <<d, "set">> \in retained' => <<d, "set">> \in retained
    <3>. SUFFICES ASSUME Apart, NEW d, <<d, "set">> \in retained' PROVE <<d, "set">> \in retained
      OBVIOUS
    <3>1. CASE outbox[i].kind = "config"
      <4>1. outbox[i].t # "set"
        BY <3>1 DEF Apart, Names
      <4>2. <<d, "set">> # <<outbox[i].dev, outbox[i].t>>
        BY <4>1
      <4>. QED BY <2>1, <3>1, <4>2
    <3>2. CASE outbox[i].kind = "clear"
      BY <2>1, <3>2
    <3>3. CASE outbox[i].kind \notin {"config", "clear"}
      BY <2>1, <3>3
    <3>. QED BY <3>1, <3>2, <3>3
  <2>4. CASE outbox[i].kind \in {"clear", "lost"}
    <3>1. /\ Len(outbox') = Len(outbox) - 1
          /\ \A j \in 1 .. Len(outbox) - 1 : outbox'[j] = IF j <= i - 1 THEN outbox[j] ELSE outbox[j + 1]
      BY <1>1, <2>1, <2>4, RemoveAtPlaces
    <3>2. outbox[i].kind = "clear" => <<outbox[i].dev, outbox[i].t>> \notin retained'
      <4>. SUFFICES ASSUME outbox[i].kind = "clear" PROVE <<outbox[i].dev, outbox[i].t>> \notin retained'
        OBVIOUS
      <4>1. retained' = retained \ {<<outbox[i].dev, outbox[i].t>>}
        BY <2>1
      <4>. QED BY <4>1
    <3>3. MovedUp(i)
      BY <2>1, <2>4, <3>1, <3>2 DEF MovedUp
    <3>4. ~InPlace
      BY <1>1, <3>1 DEF InPlace
    <3>. QED BY <2>2, <2>3, <3>3, <3>4
  <2>5. CASE outbox[i].kind \notin {"clear", "lost"}
    <3>1. outbox' = Marked(outbox, i)
      BY <2>1, <2>5 DEF Marked
    <3>2. /\ Len(outbox') = Len(outbox) /\ outbox'[i].taken = TRUE
          /\ \A j \in 1 .. Len(outbox) :
               /\ outbox'[j].kind = outbox[j].kind /\ outbox'[j].dev = outbox[j].dev /\ outbox'[j].t = outbox[j].t
               /\ j # i => outbox'[j].taken = outbox[j].taken
      BY <1>1, <3>1, MarkKeeps
    <3>3. outbox[i].kind = "subscribe" => <<outbox[i].dev, outbox[i].t>> \in subs'
      BY <2>1
    <3>4. InPlace
      BY <1>1, <2>5, <3>2, <3>3 DEF InPlace
    <3>. QED BY <1>1, <2>2, <2>3, <3>2, <3>4
  <2>. QED BY <2>4, <2>5
<1>8. CASE Skip \/ LoopEnds \/ Poll \/ Discovered \/ Subscribed \/ Status
  BY <1>2, <1>8 DEF Skip, LoopEnds, Poll, Discovered, Subscribed, Status, client, broker, Online
<1>9. CASE (\E d \in Devices : LogIn(d)) \/ PersistentDone \/ Command \/ UNCHANGED vars
  BY <1>2, <1>9 DEF LogIn, PersistentDone, Command, vars, client, broker, Online
<1>. QED
  BY <1>3, <1>4, <1>5, <1>6, <1>7, <1>8, <1>9 DEF Next, HostTask, MqttTask, Start, Resets

\* A topic that is subscribed, or on its way to be, remains so.
LEMMA WayStays ==
  ASSUME MqttInv, MqttInv', subs \subseteq subs', InPlace \/ \E i \in 1 .. Len(outbox) : MovedUp(i)
  PROVE  \A d, t : OnItsWay(d, t) => OnItsWay(d, t)'
<1>1. Len(outbox) \in Nat /\ Len(outbox') \in Nat
  <2>1. outbox \in Seq(Messages)
    BY DEF MqttInv, MqttType
  <2>2. (outbox \in Seq(Messages))'
    BY DEF MqttInv, MqttType
  <2>. QED BY <2>1, <2>2
<1>. SUFFICES ASSUME NEW d, NEW t, OnItsWay(d, t) PROVE OnItsWay(d, t)'
  OBVIOUS
<1>2. CASE <<d, t>> \in subs
  BY <1>2 DEF OnItsWay
<1>3. CASE <<d, t>> \notin subs
  <2>1. PICK p \in 1 .. Len(outbox) :
          outbox[p].kind = "subscribe" /\ outbox[p].dev = d /\ outbox[p].t = t /\ ~outbox[p].taken
    BY <1>3 DEF OnItsWay
  <2>2. CASE InPlace
    <3>1. p \in 1 .. Len(outbox')
      BY <1>1, <2>2 DEF InPlace
    <3>2. outbox'[p].kind = "subscribe" /\ outbox'[p].dev = d /\ outbox'[p].t = t
          /\ (outbox'[p].taken => <<d, t>> \in subs')
      BY <2>1, <2>2 DEF InPlace
    <3>. QED BY <3>1, <3>2 DEF OnItsWay
  <2>3. CASE \E i \in 1 .. Len(outbox) : MovedUp(i)
    <3>1. PICK i \in 1 .. Len(outbox) : MovedUp(i)
      BY <2>3
    <3>2. p > i
      BY <1>1, <2>1, <3>1 DEF MovedUp
    <3>3. p - 1 \in 1 .. Len(outbox) - 1 /\ ~(p - 1 <= i - 1) /\ (p - 1) + 1 = p
      BY <1>1, <3>2
    <3>4. p - 1 \in 1 .. Len(outbox') /\ outbox'[p - 1] = outbox[p]
      BY <3>1, <3>3 DEF MovedUp
    <3>. QED BY <2>1, <3>4 DEF OnItsWay
  <2>. QED BY <2>2, <2>3
<1>. QED BY <1>2, <1>3

\* What a step puts into the queue is for a branch that its device has, and was not kept from
\* before unless a subscription found it retained.
Retrieved == \E i \in 1 .. Len(outbox) :
  /\ outbox[i].kind = "subscribe" /\ outbox[i].t = "set" /\ ~outbox[i].taken
  /\ \A j \in 1 .. i - 1 : outbox[j].taken
  /\ <<outbox[i].dev, "set">> \in retained
LEMMA QueueStep ==
  ASSUME MqttInv, [Next]_vars, ~Resets
  PROVE  \A j \in 1 .. Len(queue') :
           \/ \E i \in 1 .. Len(queue) : queue'[j] = queue[i]
           \/ Suits(queue'[j]) /\ (queue'[j].sent[2] # "old" \/ Retrieved)
<1>1. queue \in Seq(Orders) /\ Len(queue) \in Nat /\ outbox \in Seq(Messages) /\ Len(outbox) \in Nat
  BY DEF MqttInv, MqttType
<1>2. CASE queue' = queue
  BY <1>2
<1>3. ASSUME NEW e \in Orders, queue' = Append(queue, e), Suits(e), e.sent[2] # "old" \/ Retrieved
      PROVE  \A j \in 1 .. Len(queue') :
               \/ \E i \in 1 .. Len(queue) : queue'[j] = queue[i]
               \/ Suits(queue'[j]) /\ (queue'[j].sent[2] # "old" \/ Retrieved)
  <2>1. /\ Len(queue') = Len(queue) + 1 /\ queue'[Len(queue) + 1] = e
        /\ \A i \in 1 .. Len(queue) : queue'[i] = queue[i]
    BY <1>1, <1>3, AppendLast
  <2>. SUFFICES ASSUME NEW j \in 1 .. Len(queue')
                PROVE  \/ \E i \in 1 .. Len(queue) : queue'[j] = queue[i]
                       \/ Suits(queue'[j]) /\ (queue'[j].sent[2] # "old" \/ Retrieved)
    OBVIOUS
  <2>2. j \in 1 .. Len(queue) \/ j = Len(queue) + 1
    BY <1>1, <2>1
  <2>. QED BY <1>3, <2>1, <2>2
<1>4. CASE Take
  <2>1. PICK i \in 1 .. Len(outbox) :
          /\ ~outbox[i].taken /\ \A j \in 1 .. i - 1 : outbox[j].taken
          /\ queue' = IF outbox[i].kind = "subscribe" /\ <<outbox[i].dev, outbox[i].t>> \in OldCommands \cap retained
                      THEN Append(queue, Order(outbox[i].dev, "gen_qr_code_text", <<0, "old">>)) ELSE queue
    <3>1. DOMAIN outbox = 1 .. Len(outbox)
      BY <1>1
    <3>. QED BY <1>4, <3>1 DEF Take
  <2>2. CASE outbox[i].kind = "subscribe" /\ <<outbox[i].dev, outbox[i].t>> \in OldCommands \cap retained
    <3>. DEFINE e == Order(outbox[i].dev, "gen_qr_code_text", <<0, "old">>)
    <3>1. outbox[i].t = "set" /\ <<outbox[i].dev, "set">> \in retained
      BY <2>2 DEF OldCommands
    <3>2. Retrieved
      BY <2>1, <2>2, <3>1 DEF Retrieved
    <3>3. outbox[i] \in Messages
      BY <1>1
    <3>4. e \in Orders
      BY <3>3 DEF Order, Orders, Messages, Words, Names
    <3>5. Suits(e)
      BY DEF Suits, Order, SsmActions, TchActions
    <3>6. queue' = Append(queue, e)
      BY <2>1, <2>2
    <3>. HIDE DEF e
    <3>. QED BY <1>3, <3>2, <3>4, <3>5, <3>6
  <2>3. CASE ~(outbox[i].kind = "subscribe" /\ <<outbox[i].dev, outbox[i].t>> \in OldCommands \cap retained)
    BY <1>2, <2>1, <2>3
  <2>. QED BY <2>2, <2>3
<1>5. CASE Command
  <2>0. PICK d \in Devices : \E c \in ToSet(Configs(d)) :
          queue' = IF <<d, c.cmd_t>> \in subs THEN Append(queue, Order(d, c.action, <<boots, phase>>)) ELSE queue
    BY <1>5 DEF Command
  <2>1. PICK c \in ToSet(Configs(d)) :
          queue' = IF <<d, c.cmd_t>> \in subs THEN Append(queue, Order(d, c.action, <<boots, phase>>)) ELSE queue
    BY <2>0
  <2>2. c \in Entities /\ Suits(Order(d, c.action, <<boots, phase>>))
    BY <2>1, EntitiesSuit
  <2>. DEFINE e == Order(d, c.action, <<boots, phase>>)
  <2>3. e \in Orders /\ e.sent[2] # "old"
    BY <2>2 DEF Order, Orders, Entities, MqttInv, MqttType
  <2>4. Suits(e)
    BY <2>2
  <2>5. queue' = Append(queue, e) \/ queue' = queue
    BY <2>1
  <2>. HIDE DEF e
  <2>. QED BY <1>2, <1>3, <2>3, <2>4, <2>5
<1>6. CASE Data
  <2>1. queue # <<>> /\ queue' = Tail(queue)
    BY <1>6 DEF Data
  <2>2. /\ Len(queue') = Len(queue) - 1
        /\ \A j \in 1 .. Len(queue) - 1 : queue'[j] = queue[j + 1]
    BY <1>1, <2>1, TailShifts
  <2>3. \A j \in 1 .. Len(queue') : j + 1 \in 1 .. Len(queue) /\ queue'[j] = queue[j + 1]
    BY <1>1, <2>2
  <2>. QED BY <2>3
<1>7. CASE Skip \/ LoopEnds \/ Poll \/ Discovered \/ Subscribed \/ Status \/ Discover \/ Subscribe
  BY <1>2, <1>7 DEF Skip, LoopEnds, Poll, Discovered, Subscribed, Status, Discover, Subscribe, broker
<1>8. CASE (\E d \in Devices : LogIn(d)) \/ PersistentDone \/ Disconnect \/ Acknowledge \/ UNCHANGED vars
  BY <1>2, <1>8 DEF LogIn, PersistentDone, Disconnect, Acknowledge, vars, broker
<1>. QED
  BY <1>4, <1>5, <1>6, <1>7, <1>8 DEF Next, HostTask, MqttTask, Start, Resets

\* What is obeyed was first in the queue, and a branch that suits its device uses no NULL.
LEMMA ObeyStep ==
  ASSUME MqttInv, [Next]_vars, ~crashed, \A i \in 1 .. Len(queue) : Suits(queue[i])
  PROVE  /\ ~crashed'
         /\ \A c \in obeyed' : c \in obeyed \/ \E i \in 1 .. Len(queue) : c.sent = queue[i].sent
<1>1. CASE crashed' = crashed /\ obeyed' = obeyed
  BY <1>1
<1>2. CASE Data
  <2>1. queue \in Seq(Orders) /\ queue # <<>>
    BY <1>2 DEF Data, MqttInv, MqttType
  <2>2. Head(queue) = queue[1] /\ 1 \in 1 .. Len(queue)
    BY <2>1, TailShifts
  <2>3. Suits(Head(queue))
    BY <2>2
  <2>4. ~((Head(queue).action \in SsmActions /\ Head(queue).dev \in Touches)
          \/ (Head(queue).action \in TchActions /\ Head(queue).dev \in Locks))
    BY <2>3 DEF Suits
  <2>5. /\ crashed' = crashed \/ ~crashed'
        /\ obeyed' = obeyed \/ obeyed' = obeyed \cup {[sent |-> Head(queue).sent, at |-> boots]}
    BY <1>2, <2>4 DEF Data
  <2>. QED BY <2>2, <2>5
<1>3. CASE Skip \/ LoopEnds \/ Poll \/ Discovered \/ Subscribed \/ Status \/ Discover \/ Subscribe
  BY <1>1, <1>3 DEF Skip, LoopEnds, Poll, Discovered, Subscribed, Status, Discover, Subscribe, hist
<1>4. CASE (\E d \in Devices : LogIn(d)) \/ PersistentDone \/ CleanDone \/ Connect \/ Acknowledge \/ UNCHANGED vars
  BY <1>1, <1>4 DEF LogIn, PersistentDone, CleanDone, Connect, Acknowledge, vars, hist
<1>5. CASE Reboot \/ Disconnect \/ Forget \/ Take \/ Command
  BY <1>1, <1>5 DEF Reboot, Disconnect, Forget, Take, Command, hist
<1>. QED
  BY <1>2, <1>3, <1>4, <1>5 DEF Next, HostTask, MqttTask, Start

\* What Subscribe does while the client is connected.
LEMMA SubscribeSends ==
  ASSUME MqttInv, Online, Subscribe
  PROVE  /\ known[n] \in Devices /\ CallsOf(known[n]) \in Seq(CallSet)
         /\ k \in 1 .. Len(CallsOf(known[n])) /\ CallsOf(known[n])[k] \in CallSet
         /\ Len(outbox') = Len(outbox) + 1 /\ Len(outbox) \in Nat
         /\ \A i \in 1 .. Len(outbox) : outbox'[i] = outbox[i]
         /\ outbox'[Len(outbox) + 1].kind = CallsOf(known[n])[k].kind
         /\ outbox'[Len(outbox) + 1].dev = known[n]
         /\ outbox'[Len(outbox) + 1].t = CallsOf(known[n])[k].t
         /\ outbox'[Len(outbox) + 1].taken = FALSE
<1>1. known[n] \in Devices /\ k >= 1 /\ k \in Nat /\ connected
  BY DEF Subscribe, MqttInv, MqttType, PassOrder, NotStarted, Online
<1>. DEFINE calls == CallsOf(known[n])
<1>2. calls \in Seq(CallSet) /\ Len(calls) \in Nat
  <2>1. Calls(known[n], known[n] \in is_new) \in Seq(CallSet)
    BY <1>1, CallsType
  <2>. QED BY <2>1 DEF CallsOf
<1>3. k <= Len(calls) /\ outbox' = Sent(outbox, Message(calls[k].kind, known[n], calls[k].t))
  BY DEF Subscribe, CallsOf
<1>. HIDE DEF calls
<1>4. k \in 1 .. Len(calls)
  BY <1>1, <1>2, <1>3
<1>5. calls[k] \in CallSet
  BY <1>2, <1>4, ElementOfSeq
<1>6. calls[k].kind \in Kinds /\ calls[k].t \in Words
  BY <1>5 DEF CallSet, Kinds, Words
<1>7. outbox \in Seq(Messages)
  BY DEF MqttInv, MqttType
<1>. DEFINE m == Message(calls[k].kind, known[n], calls[k].t)
<1>8. m \in Messages /\ m.kind = calls[k].kind /\ m.dev = known[n] /\ m.t = calls[k].t /\ m.taken = FALSE
  BY <1>1, <1>6 DEF Message, Messages
<1>9. outbox' = Append(outbox, m)
  BY <1>1, <1>3 DEF Sent
<1>. HIDE DEF m
<1>10. /\ Len(outbox') = Len(outbox) + 1 /\ Len(outbox) \in Nat /\ outbox'[Len(outbox) + 1] = m
       /\ \A i \in 1 .. Len(outbox) : outbox'[i] = outbox[i]
  BY <1>7, <1>8, <1>9, AppendLast
<1>. QED BY <1>1, <1>2, <1>4, <1>5, <1>8, <1>10 DEF calls

\* Every step but those of the pass itself leaves the place in the pass, or there is none.
Place == pc' = pc /\ n' = n /\ k' = k /\ mqtt_subscribe_done' = mqtt_subscribe_done
         /\ (pc = "subscribe" => known' = known /\ is_new' = is_new)
LEMMA PassStep ==
  ASSUME MqttInv, SkipAtFirst, [Next]_vars, ~Resets, ~Subscribe, ~Subscribed
  PROVE  \/ Place
         \/ (pc' # "subscribe" \/ k' = 1) /\ mqtt_subscribe_done' = mqtt_subscribe_done
<1>1. CASE Skip
  <2>1. pc' = pc /\ k' = k /\ mqtt_subscribe_done' = mqtt_subscribe_done
    BY <1>1 DEF Skip, slots
  <2>2. pc = "subscribe" => k = 1
    BY <1>1 DEF Skip, SkipAtFirst
  <2>. QED BY <2>1, <2>2
<1>2. CASE Status \/ LoopEnds \/ Discover \/ Poll \/ Discovered
  <2>1. CASE Status \/ LoopEnds \/ Discovered
    BY <2>1 DEF Status, LoopEnds, Discovered, slots
  <2>2. CASE Discover
    BY <2>2 DEF Discover, slots
  <2>3. CASE Poll
    <3>1. pc = "wait" /\ pc' \in {"wait", "discover"}
      BY <2>3 DEF Poll
    <3>. QED BY <2>3, <3>1 DEF Poll, slots
  <2>. QED BY <1>2, <2>1, <2>2, <2>3
<1>3. CASE \E d \in Devices : LogIn(d)
  BY <1>3 DEF LogIn, Place, host
<1>4. CASE PersistentDone \/ Disconnect \/ Command \/ UNCHANGED vars
  BY <1>4 DEF PersistentDone, Disconnect, Command, vars, Place, slots, host
<1>5. CASE Take \/ Acknowledge \/ Data
  BY <1>5 DEF Take, Acknowledge, Data, Place, slots, host
<1>. QED
  BY <1>1, <1>2, <1>3, <1>4, <1>5 DEF Next, HostTask, MqttTask, Start, Resets

\* Every step keeps the subscriptions, while the connection holds.
LEMMA SubscriptionsStep ==
  ASSUME MqttInv, MqttInv', Subscriptions, [Next]_vars, ~Disconnect
  PROVE  Subscriptions'
<1>1. CASE Resets
  <2>1. /\ known' = <<>> /\ pc' = "idle" /\ queue' \in {queue, <<>>}
        /\ crashed' = crashed /\ Online'
    BY <1>1, ResetStep DEF Subscriptions
  <2>2. mqtt_subscribe_done' = {}
    <3>1. mqtt_subscribe_done' \subseteq ToSet(known')
      BY DEF MqttInv, PassOrder
    <3>. QED BY <2>1, <3>1 DEF ToSet
  <2>3. Sane'
    <3>1. Len(<<>>) = 0
      OBVIOUS
    <3>. QED BY <2>1, <3>1 DEF Subscriptions, Sane
  <2>. QED BY <2>1, <2>2, <2>3 DEF Subscriptions, AllSubscribed, PassSubscribed, SkipAtFirst
<1>2. CASE ~Resets
  <2>1. /\ Online' /\ subs \subseteq subs'
        /\ InPlace \/ \E i \in 1 .. Len(outbox) : MovedUp(i)
    BY <1>2, MessagesMove DEF Subscriptions
  <2>2. \A d, t : OnItsWay(d, t) => OnItsWay(d, t)'
    BY <2>1, WayStays
  <2>3. Sane'
    <3>1. ~crashed'
      BY ObeyStep DEF Subscriptions, Sane
    <3>2. \A j \in 1 .. Len(queue') : (\E i \in 1 .. Len(queue) : queue'[j] = queue[i]) \/ Suits(queue'[j])
      BY <1>2, QueueStep
    <3>. QED BY <3>1, <3>2 DEF Subscriptions, Sane
  <2>4. CASE Subscribed
    <3>. DEFINE d == known[n]
    <3>1. /\ pc = "subscribe" /\ n <= Len(known) /\ d \notin mqtt_subscribe_done
          /\ mqtt_subscribe_done' = mqtt_subscribe_done \cup {d} /\ k' = 1 /\ n >= 1
          /\ k > Len(CallsOf(d)) /\ k \in Nat
      BY <2>4 DEF Subscribed, CallsOf, MqttInv, MqttType, PassOrder
    <3>2. d \in Devices
      BY <2>4 DEF Subscribed, MqttInv, MqttType, PassOrder
    <3>. HIDE DEF d
    <3>3. /\ CallsOf(d) \in Seq(CallSet) /\ Has(CallsOf(d), Call("subscribe", "set"))
          /\ d \in Locks => /\ Has(CallsOf(d), Call("subscribe", "set/lock_position"))
                            /\ Has(CallsOf(d), Call("subscribe", "set/unlock_position"))
      <4>1. (d \in is_new) \in BOOLEAN
        OBVIOUS
      <4>. QED BY <3>2, <4>1, CallsSubscribe, Zenon DEF CallsOf
    <3>4. \A t : Has(CallsOf(d), Call("subscribe", t)) => OnItsWay(d, t)
      <4>. SUFFICES ASSUME NEW t, Has(CallsOf(d), Call("subscribe", t)) PROVE OnItsWay(d, t)
        OBVIOUS
      <4>1. PICK i \in 1 .. Len(CallsOf(d)) : CallsOf(d)[i] = Call("subscribe", t)
        BY DEF Has
      <4>2. i < k /\ CallsOf(d)[i].kind = "subscribe" /\ CallsOf(d)[i].t = t
        BY <3>1, <3>3, <4>1 DEF Call
      <4>. QED BY <3>1, <4>2 DEF Subscriptions, PassSubscribed, d
    <3>5. \A t \in Wanted(d) : OnItsWay(d, t)
      <4>1. /\ Wanted(d) \subseteq {"set", "set/lock_position", "set/unlock_position"}
            /\ d \in Touches => Wanted(d) \subseteq {"set"}
        BY <3>2, EntitiesSuit
      <4>2. d \in Locks \/ d \in Touches
        BY <3>2 DEF Devices
      <4>. QED BY <3>3, <3>4, <4>1, <4>2
    <3>6. AllSubscribed'
      BY <2>2, <3>1, <3>5 DEF Subscriptions, AllSubscribed
    <3>7. PassSubscribed' /\ SkipAtFirst'
      BY <3>1 DEF PassSubscribed, SkipAtFirst
    <3>. QED BY <2>1, <2>3, <3>6, <3>7 DEF Subscriptions
  <2>5. CASE Subscribe
    <3>1. /\ pc = "subscribe" /\ n <= Len(known) /\ known[n] \notin mqtt_subscribe_done /\ k' = k + 1
          /\ pc' = pc /\ n' = n /\ known' = known /\ is_new' = is_new /\ mqtt_subscribe_done' = mqtt_subscribe_done
      BY <2>5 DEF Subscribe, slots
    <3>2. /\ known[n] \in Devices
          /\ Len(outbox') = Len(outbox) + 1 /\ Len(outbox) \in Nat /\ k \in 1 .. Len(CallsOf(known[n]))
          /\ outbox'[Len(outbox) + 1].kind = CallsOf(known[n])[k].kind
          /\ outbox'[Len(outbox) + 1].dev = known[n]
          /\ outbox'[Len(outbox) + 1].t = CallsOf(known[n])[k].t
          /\ outbox'[Len(outbox) + 1].taken = FALSE
      BY <2>5, SubscribeSends DEF Subscriptions
    <3>3. AllSubscribed'
      BY <2>2, <3>1 DEF Subscriptions, AllSubscribed
    <3>4. ASSUME NEW i \in 1 .. Len(CallsOf(known[n])), i < k + 1, CallsOf(known[n])[i].kind = "subscribe"
          PROVE  OnItsWay(known[n], CallsOf(known[n])[i].t)'
      <4>1. CASE i < k
        <5>1. OnItsWay(known[n], CallsOf(known[n])[i].t)
          BY <3>1, <3>4, <4>1 DEF Subscriptions, PassSubscribed
        <5>2. (known[n])' = known[n] /\ (CallsOf(known[n])[i].t)' = CallsOf(known[n])[i].t
          BY <3>1 DEF CallsOf
        <5>3. \A d, t : OnItsWay(d, t) => OnItsWay(d, t)'
          BY <2>2
        <5>. QED BY <5>1, <5>2, <5>3 DEF OnItsWay
      <4>2. CASE i = k
        <5>1. Len(outbox) + 1 \in 1 .. Len(outbox')
          BY <3>2
        <5>. QED BY <3>1, <3>2, <3>4, <4>2, <5>1 DEF OnItsWay, CallsOf
      <4>. QED BY <3>2, <3>4, <4>1, <4>2
    <3>5. PassSubscribed'
      BY <3>1, <3>4 DEF PassSubscribed, CallsOf
    <3>6. SkipAtFirst'
      BY <3>1 DEF SkipAtFirst
    <3>. QED BY <2>1, <2>3, <3>3, <3>5, <3>6 DEF Subscriptions
  <2>6. CASE ~Subscribe /\ ~Subscribed
    <3>1. \/ Place
          \/ (pc' # "subscribe" \/ k' = 1) /\ mqtt_subscribe_done' = mqtt_subscribe_done
      BY <1>2, <2>6, PassStep DEF Subscriptions
    <3>2. AllSubscribed'
      BY <2>2, <3>1 DEF Subscriptions, AllSubscribed, Place
    <3>3. CASE Place
      <4>1. SkipAtFirst'
        BY <3>3 DEF Place, Subscriptions, SkipAtFirst
      <4>2. PassSubscribed'
        BY <2>2, <3>3 DEF Place, Subscriptions, PassSubscribed, CallsOf
      <4>. QED BY <2>1, <2>3, <3>2, <4>1, <4>2 DEF Subscriptions
    <3>4. CASE pc' # "subscribe" \/ k' = 1
      <4>1. PassSubscribed' /\ SkipAtFirst'
        BY <3>4 DEF PassSubscribed, SkipAtFirst
      <4>. QED BY <2>1, <2>3, <3>2, <4>1 DEF Subscriptions
    <3>. QED BY <3>1, <3>3, <3>4
  <2>. QED BY <2>4, <2>5, <2>6
<1>. QED BY <1>1, <1>2

\* While the connection holds, everything announced can be commanded, whatever restarts.
THEOREM CommandsReach == "down" \notin Faults => (Spec => []EntitiesObeyed)
<1>. SUFFICES ASSUME "down" \notin Faults PROVE Spec => []EntitiesObeyed
  OBVIOUS
<1>1. Init => MqttInv /\ Subscriptions
  <2>. SUFFICES ASSUME Init PROVE MqttInv /\ Subscriptions
    OBVIOUS
  <2>1. Len(queue) = 0 /\ mqtt_subscribe_done = {} /\ pc = "idle" /\ ~crashed /\ ~mqtt_init_done /\ phase = "clean"
    BY DEF Init
  <2>. QED
    BY <2>1, MqttStarts DEF Subscriptions, Online, AllSubscribed, PassSubscribed, SkipAtFirst, Sane
<1>2. MqttInv /\ Subscriptions /\ [Next]_vars => MqttInv' /\ Subscriptions'
  <2>1. ~Disconnect
    BY DEF Disconnect
  <2>. QED BY <2>1, MqttStep, SubscriptionsStep
<1>3. MqttInv /\ Subscriptions => EntitiesObeyed
  <2>. SUFFICES ASSUME MqttInv, Subscriptions PROVE EntitiesObeyed
    OBVIOUS
  <2>1. ~crashed
    BY DEF Subscriptions, Sane
  <2>2. ASSUME outbox = <<>>, NEW d \in mqtt_subscribe_done, NEW c \in ToSet(Configs(d)), c.cmd_t # "none"
        PROVE  <<d, c.cmd_t>> \in subs
    <3>1. c.cmd_t \in Wanted(d)
      BY <2>2 DEF Wanted
    <3>2. OnItsWay(d, c.cmd_t)
      BY <3>1 DEF Subscriptions, AllSubscribed
    <3>3. Len(outbox) = 0
      BY <2>2
    <3>. QED BY <3>2, <3>3 DEF OnItsWay
  <2>. QED BY <2>1, <2>2 DEF EntitiesObeyed, SubscriptionHolds
<1>. QED BY <1>1, <1>2, <1>3, PTL DEF Spec

-----------------------------------------------------------------------------
(* What was retained before a registration is cleared before it can come.  *)

\* Every device counted registered in this boot: the NVS of the first boot is empty.
Fresh == ToSet(known) \subseteq is_new /\ registered \subseteq ToSet(known)

NoOldOrder == \A i \in 1 .. Len(queue) : queue[i].sent[2] # "old"

\* The retained command of d is gone, or a message in front of place j clears it.
Gone(d, j) ==
  \/ <<d, "set">> \notin retained
  \/ \E i \in 1 .. j - 1 :
       outbox[i].kind = "clear" /\ outbox[i].dev = d /\ outbox[i].t = "set" /\ ~outbox[i].taken

\* It is so in front of every subscription on its way, and behind the outbox once a pass made
\* the first call for its device.
ClearedFirst ==
  \A j \in 1 .. Len(outbox) :
    outbox[j].kind = "subscribe" /\ outbox[j].t = "set" /\ ~outbox[j].taken => Gone(outbox[j].dev, j)
PassCleared ==
  pc = "subscribe" /\ n <= Len(known) /\ known[n] \notin mqtt_subscribe_done /\ k >= 2 =>
    Gone(known[n], Len(outbox) + 1)

Clearing ==
  Fresh /\ NoOldOrder /\ ClearedFirst /\ PassCleared /\ Apart /\ TakenRetained /\ NoOldCommand

\* What is gone, or cleared in front of a place, stays so while the messages move.
LEMMA GoneStays ==
  ASSUME MqttInv, MqttInv', \A d : <<d, "set">> \in retained' => <<d, "set">> \in retained
  PROVE  /\ InPlace => \A d : \A j \in 1 .. Len(outbox) + 1 : Gone(d, j) => Gone(d, j)'
         /\ \A i \in 1 .. Len(outbox) : MovedUp(i) =>
              \A d : \A j \in i + 1 .. Len(outbox) + 1 : Gone(d, j) => Gone(d, j - 1)'
         /\ (InPlace \/ \E i \in 1 .. Len(outbox) : MovedUp(i)) =>
              \A d : Gone(d, Len(outbox) + 1) => Gone(d, Len(outbox) + 1)'
<1>1. Len(outbox) \in Nat /\ Len(outbox') \in Nat
  <2>1. outbox \in Seq(Messages)
    BY DEF MqttInv, MqttType
  <2>2. (outbox \in Seq(Messages))'
    BY DEF MqttInv, MqttType
  <2>. QED BY <2>1, <2>2
<1>2. ASSUME InPlace, NEW d, NEW j \in 1 .. Len(outbox) + 1, Gone(d, j) PROVE Gone(d, j)'
  <2>1. CASE <<d, "set">> \notin retained
    BY <2>1 DEF Gone
  <2>2. CASE <<d, "set">> \in retained
    <3>1. PICK i \in 1 .. j - 1 :
            outbox[i].kind = "clear" /\ outbox[i].dev = d /\ outbox[i].t = "set" /\ ~outbox[i].taken
      BY <1>2, <2>2 DEF Gone
    <3>2. i \in 1 .. Len(outbox)
      BY <1>1
    <3>3. outbox'[i].kind = "clear" /\ outbox'[i].dev = d /\ outbox'[i].t = "set" /\ ~outbox'[i].taken
      BY <1>2, <3>1, <3>2 DEF InPlace
    <3>. QED BY <3>3 DEF Gone
  <2>. QED BY <2>1, <2>2
<1>3. ASSUME NEW i \in 1 .. Len(outbox), MovedUp(i), NEW d, NEW j \in i + 1 .. Len(outbox) + 1, Gone(d, j)
      PROVE  Gone(d, j - 1)'
  <2>1. CASE <<d, "set">> \notin retained
    BY <2>1 DEF Gone
  <2>2. CASE <<d, "set">> \in retained
    <3>1. PICK p \in 1 .. j - 1 :
            outbox[p].kind = "clear" /\ outbox[p].dev = d /\ outbox[p].t = "set" /\ ~outbox[p].taken
      BY <1>3, <2>2 DEF Gone
    <3>2. p \in 1 .. Len(outbox) /\ p >= i
      BY <1>1, <1>3, <3>1 DEF MovedUp
    <3>3. CASE p = i
      BY <1>3, <3>1, <3>3 DEF MovedUp, Gone
    <3>4. CASE p > i
      <4>1. p - 1 \in 1 .. Len(outbox) - 1 /\ ~(p - 1 <= i - 1) /\ (p - 1) + 1 = p /\ p - 1 \in 1 .. (j - 1) - 1
        BY <1>1, <3>2, <3>4
      <4>2. outbox'[p - 1] = outbox[p]
        BY <1>3, <4>1 DEF MovedUp
      <4>. QED BY <3>1, <4>1, <4>2 DEF Gone
    <3>. QED BY <3>2, <3>3, <3>4
  <2>. QED BY <2>1, <2>2
<1>4. ASSUME InPlace \/ \E i \in 1 .. Len(outbox) : MovedUp(i), NEW d, Gone(d, Len(outbox) + 1)
      PROVE  Gone(d, Len(outbox) + 1)'
  <2>1. CASE InPlace
    <3>1. Len(outbox) + 1 \in 1 .. Len(outbox) + 1 /\ Len(outbox') >= Len(outbox)
      BY <1>1, <2>1 DEF InPlace
    <3>2. ASSUME NEW l, l = Len(outbox) + 1 PROVE Gone(d, l)'
      BY <1>2, <1>4, <2>1, <3>1, <3>2
    <3>3. \A l : l = Len(outbox) + 1 => Gone(d, l)'
      BY <3>2
    <3>. QED BY <1>1, <3>1, <3>3 DEF Gone
  <2>2. CASE \E i \in 1 .. Len(outbox) : MovedUp(i)
    <3>1. PICK i \in 1 .. Len(outbox) : MovedUp(i)
      BY <2>2
    <3>2. Len(outbox) + 1 \in i + 1 .. Len(outbox) + 1 /\ Len(outbox') = Len(outbox) - 1
      BY <1>1, <3>1 DEF MovedUp
    <3>3. \A l : l = Len(outbox) + 1 => Gone(d, l - 1)'
      BY <1>3, <1>4, <3>1, <3>2
    <3>. QED BY <1>1, <3>2, <3>3 DEF Gone
  <2>. QED BY <1>4, <2>1, <2>2
<1>. QED BY <1>2, <1>3, <1>4

\* A subscription that the broker takes next finds nothing retained from before.
LEMMA NothingRetrieved == MqttInv /\ ClearedFirst => ~Retrieved
<1>. SUFFICES ASSUME MqttInv, ClearedFirst, Retrieved PROVE FALSE
  OBVIOUS
<1>1. PICK i \in 1 .. Len(outbox) :
        /\ outbox[i].kind = "subscribe" /\ outbox[i].t = "set" /\ ~outbox[i].taken
        /\ \A j \in 1 .. i - 1 : outbox[j].taken
        /\ <<outbox[i].dev, "set">> \in retained
  BY DEF Retrieved
<1>2. Gone(outbox[i].dev, i)
  BY <1>1 DEF ClearedFirst
<1>. QED BY <1>1, <1>2 DEF Gone

\* Every step clears in front of a subscription, while the connection and the power hold.
LEMMA ClearingStep ==
  ASSUME MqttInv, MqttInv', Subscriptions, Clearing, [Next]_vars, ~Disconnect, ~Reboot
  PROVE  Clearing'
<1>1. CASE Resets
  <2>1. /\ known' = <<>> /\ outbox' = <<>> /\ pc' = "idle" /\ queue' \in {queue, <<>>} /\ obeyed' = obeyed
    BY <1>1, ResetStep DEF Subscriptions
  <2>2. Len(<<>>) = 0 /\ ToSet(<<>>) = {}
    BY DEF ToSet
  <2>3. known' = known /\ registered' = registered
    BY <1>1 DEF Resets, Connect, CleanDone, Forget, slots
  <2>4. Fresh'
    BY <2>1, <2>2, <2>3 DEF Clearing, Fresh
  <2>5. NoOldOrder' /\ NoOldCommand'
    BY <2>1, <2>2 DEF Clearing, NoOldOrder, NoOldCommand
  <2>6. ClearedFirst' /\ PassCleared' /\ Apart' /\ TakenRetained'
    BY <2>1, <2>2 DEF ClearedFirst, PassCleared, Apart, TakenRetained
  <2>. QED BY <2>4, <2>5, <2>6 DEF Clearing
<1>2. CASE ~Resets
  <2>0. Len(outbox) \in Nat /\ Len(outbox') \in Nat /\ known \in Seq(Devices)
    <3>1. outbox \in Seq(Messages) /\ known \in Seq(Devices)
      BY DEF MqttInv, MqttType
    <3>2. (outbox \in Seq(Messages))'
      BY DEF MqttInv, MqttType
    <3>. QED BY <3>1, <3>2
  <2>1. /\ InPlace \/ \E i \in 1 .. Len(outbox) : MovedUp(i)
        /\ \A d : <<d, "set">> \in retained' => <<d, "set">> \in retained
        /\ ~Subscribe /\ InPlace =>
             \A j \in 1 .. Len(outbox') : j \in 1 .. Len(outbox) \/ outbox'[j].kind # "subscribe"
    BY <1>2, MessagesMove DEF Subscriptions, Clearing
  <2>2. Apart' /\ TakenRetained'
    BY <1>2, KeptStays DEF Clearing, Resets
  <2>3. NoOldOrder' /\ NoOldCommand'
    <3>1. ~Retrieved
      BY NothingRetrieved DEF Clearing
    <3>2. \A j \in 1 .. Len(queue') :
            (\E i \in 1 .. Len(queue) : queue'[j] = queue[i]) \/ queue'[j].sent[2] # "old"
      BY <1>2, <3>1, QueueStep
    <3>3. \A c \in obeyed' : c \in obeyed \/ \E i \in 1 .. Len(queue) : c.sent = queue[i].sent
      BY ObeyStep DEF Subscriptions, Sane
    <3>. QED BY <3>2, <3>3 DEF Clearing, NoOldOrder, NoOldCommand
  <2>4. Fresh'
    <3>1. ASSUME NEW d \in Devices, LogIn(d) PROVE Fresh'
      <4>1. /\ d \notin ToSet(known) /\ known' = Append(known, d) /\ registered' = registered \cup {d}
            /\ is_new' = IF d \in registered THEN is_new ELSE is_new \cup {d}
        BY <3>1 DEF LogIn
      <4>2. ToSet(known') = ToSet(known) \cup {d}
        <5>1. /\ Len(known') = Len(known) + 1 /\ known'[Len(known) + 1] = d /\ Len(known) \in Nat
              /\ \A i \in 1 .. Len(known) : known'[i] = known[i]
          BY <2>0, <4>1, AppendLast
        <5>. QED BY <2>0, <5>1 DEF ToSet
      <4>3. is_new' = is_new \cup {d}
        BY <4>1 DEF Clearing, Fresh
      <4>. QED BY <4>1, <4>2, <4>3 DEF Clearing, Fresh
    <3>2. CASE known' = known /\ is_new' = is_new /\ registered' = registered
      BY <3>2 DEF Clearing, Fresh
    <3>3. CASE Skip \/ LoopEnds \/ Poll \/ Discovered \/ Subscribed \/ Status \/ Discover \/ Subscribe
      BY <3>2, <3>3 DEF Skip, LoopEnds, Poll, Discovered, Subscribed, Status, Discover, Subscribe, slots
    <3>4. CASE PersistentDone \/ Disconnect \/ Take \/ Acknowledge \/ Command \/ Data \/ UNCHANGED vars
      BY <3>2, <3>4 DEF PersistentDone, Disconnect, Take, Acknowledge, Command, Data, vars, slots
    <3>. QED
      BY <1>2, <3>1, <3>3, <3>4 DEF Next, HostTask, MqttTask, Start, Resets
  <2>5. /\ InPlace => \A d : \A j \in 1 .. Len(outbox) + 1 : Gone(d, j) => Gone(d, j)'
        /\ \A i \in 1 .. Len(outbox) : MovedUp(i) =>
             \A d : \A j \in i + 1 .. Len(outbox) + 1 : Gone(d, j) => Gone(d, j - 1)'
        /\ \A d : Gone(d, Len(outbox) + 1) => Gone(d, Len(outbox) + 1)'
    BY <2>1, GoneStays
  <2>6. CASE Subscribe
    <3>0. PICK d \in Devices : d = known[n]
      BY <2>6, SubscribeSends DEF Subscriptions
    <3>1. /\ pc = "subscribe" /\ n <= Len(known) /\ d \notin mqtt_subscribe_done /\ k' = k + 1 /\ n >= 1 /\ n \in Nat
          /\ pc' = pc /\ n' = n /\ known' = known /\ mqtt_subscribe_done' = mqtt_subscribe_done /\ retained' = retained
      BY <2>6, <3>0 DEF Subscribe, slots, broker, MqttInv, MqttType, PassOrder
    <3>2. /\ d \in Devices /\ CallsOf(d) \in Seq(CallSet)
          /\ k \in 1 .. Len(CallsOf(d)) /\ CallsOf(d)[k] \in CallSet
          /\ Len(outbox') = Len(outbox) + 1
          /\ \A i \in 1 .. Len(outbox) : outbox'[i] = outbox[i]
          /\ outbox'[Len(outbox) + 1].kind = CallsOf(d)[k].kind
          /\ outbox'[Len(outbox) + 1].dev = d
          /\ outbox'[Len(outbox) + 1].t = CallsOf(d)[k].t
          /\ outbox'[Len(outbox) + 1].taken = FALSE
      BY <2>6, <3>0, SubscribeSends DEF Subscriptions
    <3>3. d \in is_new
      <4>1. d \in ToSet(known)
        BY <2>0, <3>0, <3>1 DEF ToSet
      <4>. QED BY <4>1 DEF Clearing, Fresh
    <3>4. /\ Len(CallsOf(d)) >= 2 /\ CallsOf(d)[1] = Call("clear", "set")
          /\ \A i \in 1 .. Len(CallsOf(d)) : CallsOf(d)[i] = Call("subscribe", "set") => i = 2
      <4>1. (d \in is_new) = TRUE
        BY <3>3
      <4>2. CallsOf(d) = Calls(d, TRUE)
        BY <4>1, Zenon DEF CallsOf
      <4>. QED BY <3>2, <4>2, CallsSubscribe
    <3>5. InPlace
      BY <2>0, <3>2 DEF InPlace
    <3>6. k >= 2 => Gone(d, Len(outbox) + 1)
      BY <3>0, <3>1 DEF Clearing, PassCleared
    <3>7. ClearedFirst'
      <4>. SUFFICES ASSUME NEW j \in 1 .. Len(outbox'), outbox'[j].kind = "subscribe", outbox'[j].t = "set",
                           ~outbox'[j].taken
                    PROVE  Gone(outbox[j].dev, j)'
        BY DEF ClearedFirst
      <4>1. CASE j \in 1 .. Len(outbox)
        <5>1. outbox'[j] = outbox[j]
          BY <3>2, <4>1
        <5>2. Gone(outbox[j].dev, j)
          BY <4>1, <5>1 DEF Clearing, ClearedFirst
        <5>3. j \in 1 .. Len(outbox) + 1
          BY <2>0, <4>1
        <5>4. \A e : Gone(e, j) => Gone(e, j)'
          BY <2>5, <3>5, <5>3
        <5>. QED BY <5>1, <5>2, <5>4 DEF Gone
      <4>2. CASE j = Len(outbox) + 1
        <5>1. CallsOf(d)[k] = Call("subscribe", "set")
          BY <3>2, <4>2 DEF Call, CallSet
        <5>2. k = 2
          BY <3>2, <3>4, <5>1
        <5>3. Gone(d, j)
          BY <3>6, <4>2, <5>2
        <5>4. \A e : Gone(e, j) => Gone(e, j)'
          BY <2>0, <2>5, <3>5, <4>2
        <5>. QED BY SMTT(30), <3>2, <4>2, <5>3, <5>4 DEF Gone
      <4>. QED BY <2>0, <3>2, <4>1, <4>2
    <3>8. Gone(d, Len(outbox) + 1)'
      <4>1. CASE k >= 2
        BY <2>5, <3>6, <4>1
      <4>2. CASE k = 1
        <5>1. outbox'[Len(outbox) + 1].kind = "clear" /\ outbox'[Len(outbox) + 1].t = "set"
          BY <3>2, <3>4, <4>2 DEF Call
        <5>2. Len(outbox) + 1 \in 1 .. (Len(outbox') + 1) - 1
          BY <2>0, <3>2
        <5>. QED BY <3>2, <5>1, <5>2 DEF Gone
      <4>. QED BY <3>2, <4>1, <4>2
    <3>9. PassCleared'
      <4>1. (known[n])' = d
        BY <3>0, <3>1
      <4>. QED BY <3>8, <4>1 DEF PassCleared, Gone
    <3>. QED BY <2>2, <2>3, <2>4, <3>7, <3>9 DEF Clearing
  <2>7. CASE ~Subscribe
    <3>1. ClearedFirst'
      <4>. SUFFICES ASSUME NEW j \in 1 .. Len(outbox'), outbox'[j].kind = "subscribe", outbox'[j].t = "set",
                           ~outbox'[j].taken
                    PROVE  Gone(outbox[j].dev, j)'
        BY DEF ClearedFirst
      <4>1. CASE InPlace
        <5>1. j \in 1 .. Len(outbox) /\ j \in 1 .. Len(outbox) + 1
          <6>1. j \in 1 .. Len(outbox)
            BY <2>1, <2>7, <4>1
          <6>. QED BY <2>0, <6>1
        <5>2. /\ outbox[j].kind = "subscribe" /\ outbox[j].t = "set" /\ ~outbox[j].taken
              /\ outbox'[j].dev = outbox[j].dev
          BY <4>1, <5>1 DEF InPlace
        <5>3. Gone(outbox[j].dev, j)
          BY <5>1, <5>2 DEF Clearing, ClearedFirst
        <5>4. \A e : Gone(e, j) => Gone(e, j)'
          BY <2>5, <4>1, <5>1
        <5>. QED BY <5>2, <5>3, <5>4 DEF Gone
      <4>2. CASE \E i \in 1 .. Len(outbox) : MovedUp(i)
        <5>1. PICK i \in 1 .. Len(outbox) : MovedUp(i)
          BY <4>2
        <5>2. j \in 1 .. Len(outbox) - 1
          BY <5>1 DEF MovedUp
        <5>3. ~(j <= i - 1)
          <6>. SUFFICES ASSUME j <= i - 1 PROVE FALSE
            OBVIOUS
          <6>1. outbox'[j] = outbox[j] /\ j \in 1 .. i - 1
            BY <2>0, <5>1, <5>2 DEF MovedUp
          <6>. QED BY <5>1, <6>1 DEF MovedUp
        <5>4. outbox'[j] = outbox[j + 1] /\ j + 1 \in 1 .. Len(outbox) /\ j + 1 \in i + 1 .. Len(outbox) + 1
          BY <2>0, <5>1, <5>2, <5>3 DEF MovedUp
        <5>5. Gone(outbox[j + 1].dev, j + 1)
          BY <5>4 DEF Clearing, ClearedFirst
        <5>6. \A e : Gone(e, j + 1) => Gone(e, (j + 1) - 1)'
          BY <2>5, <5>1, <5>4
        <5>7. (j + 1) - 1 = j
          OBVIOUS
        <5>. QED BY <5>4, <5>5, <5>6, <5>7 DEF Gone
      <4>. QED BY <2>1, <4>1, <4>2
    <3>2. PassCleared'
      <4>1. CASE Subscribed
        BY <4>1 DEF Subscribed, PassCleared
      <4>2. CASE ~Subscribed
        <5>1. \/ Place
              \/ (pc' # "subscribe" \/ k' = 1) /\ mqtt_subscribe_done' = mqtt_subscribe_done
          BY <1>2, <2>7, <4>2, PassStep DEF Subscriptions
        <5>2. CASE Place
          <6>. SUFFICES ASSUME pc = "subscribe", n <= Len(known), known[n] \notin mqtt_subscribe_done, k >= 2
                        PROVE  Gone(known[n], Len(outbox) + 1)'
            BY <5>2 DEF Place, PassCleared
          <6>1. Gone(known[n], Len(outbox) + 1)
            BY DEF Clearing, PassCleared
          <6>2. (known[n])' = known[n]
            BY <5>2 DEF Place
          <6>3. \A e : Gone(e, Len(outbox) + 1) => Gone(e, Len(outbox) + 1)'
            BY <2>5
          <6>. QED BY <6>1, <6>2, <6>3 DEF Gone
        <5>3. CASE pc' # "subscribe" \/ k' = 1
          BY <5>3 DEF PassCleared
        <5>. QED BY <5>1, <5>2, <5>3
      <4>. QED BY <4>1, <4>2
    <3>. QED BY <2>2, <2>3, <2>4, <3>1, <3>2 DEF Clearing
  <2>. QED BY <2>6, <2>7
<1>. QED BY <1>1, <1>2

\* No retained command from before a registration is obeyed, while the connection holds and
\* the ESP32 does not restart.
THEOREM NothingOld == Faults \cap {"down", "reboot"} = {} => (Spec => []NoOldCommand)
<1>. SUFFICES ASSUME Faults \cap {"down", "reboot"} = {} PROVE Spec => []NoOldCommand
  OBVIOUS
<1>. DEFINE I == MqttInv /\ Subscriptions /\ Clearing
<1>1. Init => I
  <2>. SUFFICES ASSUME Init PROVE I
    OBVIOUS
  <2>1. /\ Len(queue) = 0 /\ Len(outbox) = 0 /\ mqtt_subscribe_done = {} /\ pc = "idle" /\ ~crashed /\ ~mqtt_init_done
        /\ phase = "clean" /\ ToSet(known) = {} /\ registered = {} /\ obeyed = {}
    BY DEF Init, ToSet
  <2>2. Subscriptions
    BY <2>1 DEF Subscriptions, Online, AllSubscribed, PassSubscribed, SkipAtFirst, Sane
  <2>3. Clearing
    BY <2>1 DEF Clearing, Fresh, NoOldOrder, ClearedFirst, PassCleared, Apart, TakenRetained, NoOldCommand
  <2>. QED BY <2>2, <2>3, MqttStarts
<1>2. I /\ [Next]_vars => I'
  <2>1. ~Disconnect /\ ~Reboot
    BY DEF Disconnect, Reboot
  <2>. QED BY <2>1, MqttStep, SubscriptionsStep, ClearingStep
<1>3. I => NoOldCommand
  BY DEF Clearing
<1>. HIDE DEF I
<1>. QED BY <1>1, <1>2, <1>3, PTL DEF Spec
=============
