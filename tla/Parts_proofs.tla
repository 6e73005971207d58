---------------------------- MODULE Parts_proofs ----------------------------
(***************************************************************************)
(* Proofs about two small parts that share no state: what Home Assistant   *)
(* shows of the signal strengths, for all devices and signals, and that    *)
(* the lock follows its commands, for any positions, stray digits and      *)
(* lengths of the queues.                                                  *)
(***************************************************************************)
EXTENDS Rssi, LockSettings, TLAPS

-----------------------------------------------------------------------------
(* The signal strengths (Rssi).                                            *)

\* An advertisement keeps the types and the meaning of the flag.
LEMMA AdvertTyped ==
  ASSUME TypeOK, NEW d \in Devices, NEW r \in Signals, NEW minute \in BOOLEAN, Advert(d, r, minute)
  PROVE  TypeOK'
<1>1. \A x \in Devices : AfterCheck(x) \in Signals \cup {0, NotAvailable}
  BY DEF AfterCheck, TypeOK
<1>2. rssi' \in [Devices -> Signals \cup {0, NotAvailable}]
  BY <1>1 DEF Advert, TypeOK
<1>3. shown' \in [Devices -> Signals \cup {0, Nothing, NotAvailable}]
  BY <1>1 DEF Advert, TypeOK
<1>4. is_alive' \in [Devices -> BOOLEAN]
  BY DEF Advert, TypeOK
<1>5. rssi_changed' \in [Devices -> BOOLEAN]
  BY DEF Advert, TypeOK
<1>6. moved' \in [Devices -> BOOLEAN]
  BY DEF Advert, TypeOK
<1>7. \A x \in Devices : rssi_changed'[x] => is_alive'[x] /\ x \in counted'
  BY DEF Advert, TypeOK
<1>8. counted' \subseteq Devices
  BY DEF Advert, TypeOK
<1>9. QED
  BY <1>2, <1>3, <1>4, <1>5, <1>6, <1>7, <1>8 DEF TypeOK

\* Type correctness: values come from receivers or stand for "None", and only a counted
\* device heard since the last check has the flag that its value changed.
THEOREM TypeCorrect == Spec => []TypeOK
<1>1. Init => TypeOK
  BY DEF Init, TypeOK
<1>2. TypeOK /\ [Next]_vars => TypeOK'
  <2> SUFFICES ASSUME TypeOK, [Next]_vars PROVE TypeOK'
    OBVIOUS
  <2>1. CASE Reboot
    BY <2>1 DEF Reboot, TypeOK
  <2>2. ASSUME NEW d \in Devices, NEW r \in Signals, Found(d, r) PROVE TypeOK'
    BY <2>2 DEF Found, TypeOK
  <2>3. ASSUME NEW d \in Devices, NEW r \in Signals, NEW minute \in BOOLEAN, Advert(d, r, minute)
        PROVE TypeOK'
    BY <2>3, AdvertTyped
  <2>4. CASE UNCHANGED vars
    BY <2>4 DEF vars, TypeOK
  <2>5. QED
    BY <2>1, <2>2, <2>3, <2>4 DEF Next
<1>3. QED
  BY <1>1, <1>2, PTL DEF Spec

\* A device that has had two values is shown with the last, or is published at the next
\* check.  Beside it: one that is not counted has had none,
\* and "None" is no first value.
Fresh == \A d \in Devices \ counted : ~moved[d]
Absent == \A d \in counted : rssi[d] = NotAvailable => moved[d]
Shown == ShownOrChanged /\ Fresh /\ Absent

LEMMA ShownStep == TypeOK /\ Shown /\ [Next]_vars => Shown'
<1> SUFFICES ASSUME TypeOK, Shown, [Next]_vars PROVE Shown'
  OBVIOUS
<1>1. CASE Reboot
  BY <1>1 DEF Reboot, Shown, ShownOrChanged, Fresh, Absent
<1>2. ASSUME NEW d \in Devices, NEW r \in Signals, Found(d, r) PROVE Shown'
  <2>1. r # NotAvailable
    BY RssiAssumption DEF NotAvailable
  <2>2. QED
    BY <1>2, <2>1 DEF Found, TypeOK, Shown, ShownOrChanged, Fresh, Absent
<1>3. ASSUME NEW d \in Devices, NEW r \in Signals, NEW minute \in BOOLEAN, Advert(d, r, minute)
      PROVE Shown'
  <2>1. Fresh'
    BY <1>3 DEF Advert, AfterCheck, TypeOK, Shown, Fresh
  <2>2. ASSUME NEW x \in counted, moved'[x], ~rssi_changed'[x] PROVE shown'[x] = rssi'[x]
    <3>1. x \in Devices /\ x \in counted
      BY DEF TypeOK
    <3>2. CASE minute
      <4>1. shown'[x] = IF Published(x) THEN AfterCheck(x) ELSE shown[x]
        BY <1>3, <3>1, <3>2 DEF Advert
      <4>2. rssi'[x] = AfterCheck(x)
        BY <1>3, <2>2, <3>1, <3>2 DEF Advert
      <4>3. moved[x] \/ AfterCheck(x) # rssi[x]
        BY <1>3, <2>2, <3>1, <3>2 DEF Advert
      <4>4. QED
        BY <3>1, <4>1, <4>2, <4>3 DEF AfterCheck, Published, Shown, ShownOrChanged, TypeOK
    <3>3. CASE ~minute
      <4>1. shown'[x] = shown[x] /\ rssi'[x] = rssi[x] /\ moved[x] /\ ~rssi_changed[x]
        BY <1>3, <2>2, <3>1, <3>3 DEF Advert
      <4>2. QED
        BY <3>1, <4>1 DEF Shown, ShownOrChanged
    <3>4. QED
      BY <3>2, <3>3
  <2>3. ASSUME NEW x \in counted, rssi'[x] = NotAvailable PROVE moved'[x]
    <3>1. r # NotAvailable
      BY RssiAssumption DEF NotAvailable
    <3>2. x \in Devices
      BY DEF TypeOK
    <3>3. moved'[x] = (moved[x] \/ (IF minute THEN AfterCheck(x) ELSE rssi[x]) # rssi[x]
                        \/ ((x = d /\ d \in counted) /\ r # IF minute THEN AfterCheck(x) ELSE rssi[x]))
      BY <1>3, <3>2 DEF Advert
    <3>4. rssi'[x] = IF minute THEN AfterCheck(x) ELSE rssi[x]
      BY <1>3, <2>3, <3>1, <3>2 DEF Advert
    <3>5. QED
      BY <2>3, <3>3, <3>4 DEF Shown, Absent
  <2>4. QED
    BY <1>3, <2>1, <2>2, <2>3 DEF Advert, Shown, ShownOrChanged, Absent
<1>4. CASE UNCHANGED vars
  BY <1>4 DEF vars, Shown, ShownOrChanged, Fresh, Absent
<1>5. QED
  BY <1>1, <1>2, <1>3, <1>4 DEF Next

\* The published value follows the slot (ShownOrChanged).
THEOREM ValueFollows == Spec => []ShownOrChanged
<1>1. Init => Shown
  BY DEF Init, Shown, ShownOrChanged, Fresh, Absent
<1>2. Shown => ShownOrChanged
  BY DEF Shown
<1>3. QED
  BY <1>1, <1>2, TypeCorrect, ShownStep, PTL DEF Spec

\* At the check of a minute every counted device that was not heard in it is shown as not
\* available (GoneIsShown).
THEOREM SilenceIsShown == Spec => GoneIsShown
<1>1. Init => Shown
  BY DEF Init, Shown, ShownOrChanged, Fresh, Absent
<1>2. ASSUME TypeOK, Shown, NEW d \in Devices, NEW r \in Signals, Advert(d, r, TRUE),
             NEW x \in counted, ~is_alive[x]
      PROVE  shown'[x] = NotAvailable
  <2>1. x \in Devices /\ ~rssi_changed[x]
    BY <1>2 DEF TypeOK
  <2>2. shown'[x] = IF rssi[x] # NotAvailable THEN NotAvailable ELSE shown[x]
    BY <1>2, <2>1 DEF Advert, Published, AfterCheck
  <2>3. rssi[x] = NotAvailable => shown[x] = NotAvailable
    BY <1>2, <2>1 DEF Shown, ShownOrChanged, Absent
  <2>4. QED
    BY <2>2, <2>3
<1>3. TypeOK /\ Shown /\ [Next]_vars =>
        [\A d \in Devices, r \in Signals :
           Advert(d, r, TRUE) => \A x \in counted : ~is_alive[x] => shown'[x] = NotAvailable]_vars
  BY <1>2
<1>4. QED
  BY <1>1, <1>3, TypeCorrect, ShownStep, PTL DEF Spec, GoneIsShown

-----------------------------------------------------------------------------
(* The lock positions (LockSettings).                                      *)

Settings == [lock : Int, unlock : Int, auto_lock_second : Int]
Commands == [side : Sides, value : Positions]

LockType ==
  /\ mech \in Settings /\ settings \in Settings /\ wire \in Seq(Settings)
  /\ device_status \in {SSM_NOUSE, SSM_DISCONNECTED, SSM_LOGGIN}
  /\ pc \in {"idle", "ssm_mech"} /\ by \in {"app", "gateway"} /\ missed \in BOOLEAN
  /\ subscribed \subseteq Sides
  /\ retained \in [Sides -> Positions \cup {Unset}] /\ commands \in Seq(Commands)

\* A position that Home Assistant never set is the default wherever the gateway put it.
NeverSet ==
  \A side \in Sides : retained[side] = Unset =>
    /\ mech[side] = Default[side]
    /\ \A i \in 1 .. Len(wire) : wire[i][side] = Default[side]
    /\ by = "gateway" => settings[side] = Default[side]

\* Whatever the gateway sends turns the auto-lock off.
AutoLockOff ==
  /\ \A i \in 1 .. Len(wire) : wire[i].auto_lock_second = 0
  /\ by = "gateway" => settings.auto_lock_second = 0

\* Commands come for a subscribed position, and are retained.
FromTopics ==
  \A i \in 1 .. Len(commands) :
    commands[i].side \in subscribed /\ retained[commands[i].side] # Unset

Waiting(side) == \E i \in 1 .. Len(commands) : commands[i].side = side

\* The last command for a position has the retained value, and when none is left, the
\* copy in RAM has it.
LastCommand ==
  \A side \in subscribed : retained[side] # Unset =>
    /\ \A i \in 1 .. Len(commands) :
         commands[i].side = side /\ (\A j \in i + 1 .. Len(commands) : commands[j].side # side) =>
           commands[i].value = retained[side]
    /\ Waiting(side) \/ mech[side] \in Reads(retained[side])

\* What was sent last is the copy in RAM, but between its assignment and ssm_mech, and a
\* link that is down holds nothing.
SentIsMech ==
  /\ wire # <<>> /\ pc = "idle" => \A side \in Sides : wire[Len(wire)][side] = mech[side]
  /\ device_status < SSM_LOGGIN => wire = <<>>

\* What the lock received last is the copy in RAM, unless no command was handled since a reboot.
LockIsMech ==
  pc = "idle" /\ wire = <<>> /\ ~missed /\ by = "gateway" =>
    \/ \A side \in Sides : settings[side] = mech[side]
    \/ \A side \in subscribed : retained[side] # Unset => Waiting(side)

LockInv == LockType /\ NeverSet /\ AutoLockOff /\ FromTopics /\ LastCommand /\ SentIsMech /\ LockIsMech

-----------------------------------------------------------------------------
(* Lemmas about the operators.                                             *)

\* What is appended comes last and moves nothing.
LEMMA AppendLast ==
  ASSUME NEW S, NEW s \in Seq(S), NEW e \in S
  PROVE  /\ Append(s, e) \in Seq(S) /\ Append(s, e) # <<>> /\ Len(Append(s, e)) = Len(s) + 1
         /\ Append(s, e)[Len(s) + 1] = e
         /\ \A i \in 1 .. Len(s) : Append(s, e)[i] = s[i]
OBVIOUS

\* The rest of a sequence is the sequence one place earlier.
LEMMA TailShifts ==
  ASSUME NEW S, NEW s \in Seq(S), s # <<>>
  PROVE  /\ Tail(s) \in Seq(S) /\ Len(s) \in Nat /\ Len(s) > 0 /\ Len(Tail(s)) = Len(s) - 1
         /\ Head(s) = s[1] /\ Head(s) \in S
         /\ \A i \in 1 .. Len(s) - 1 : Tail(s)[i] = s[i + 1]
OBVIOUS

\* Setting a position changes that field only.
LEMMA PositionSet ==
  ASSUME NEW m \in Settings, NEW side \in Sides, NEW v \in Int
  PROVE  /\ [m EXCEPT ![side] = v] \in Settings
         /\ \A s \in Sides : [m EXCEPT ![side] = v][s] = IF s = side THEN v ELSE m[s]
BY DEF Settings, Sides

\* What is sent has the positions of the copy in RAM, and no auto-lock.
LEMMA SentSettings ==
  ASSUME NEW m \in Settings
  PROVE  /\ [m EXCEPT !.auto_lock_second = 0] \in Settings
         /\ \A s \in Sides : [m EXCEPT !.auto_lock_second = 0][s] = m[s]
         /\ [m EXCEPT !.auto_lock_second = 0].auto_lock_second = 0
BY DEF Settings, Sides

\* The defaults of ssm_init and what the app sets are settings.
LEMMA BothAreSettings == Default \in Settings /\ OfApp \in Settings
BY DEF Settings, Default, OfApp

\* get_json_value gives a number.
LEMMA ReadsNumbers == ASSUME NEW v \in Positions PROVE Reads(v) \subseteq Int
<1>1. v \in Int BY LockAssumption
<1>2. \A digit \in StrayDigits : digit \in Int /\ 10 * v + (IF v < 0 THEN -digit ELSE digit) \in Int
  BY <1>1, LockAssumption
<1>. QED BY <1>1, <1>2 DEF Reads

-----------------------------------------------------------------------------
(* The invariant holds at the start and with every step.                   *)

LEMMA LockStarts == LockInit => LockInv
<1>. SUFFICES ASSUME LockInit PROVE LockInv
  OBVIOUS
<1>1. LockType
  <2>1. mech \in Settings /\ settings \in Settings
    BY BothAreSettings DEF LockInit
  <2>2. wire \in Seq(Settings) /\ commands \in Seq(Commands)
    BY DEF LockInit
  <2>3. missed \in BOOLEAN
    BY DEF LockInit
  <2>4. device_status \in {SSM_NOUSE, SSM_DISCONNECTED, SSM_LOGGIN} /\ subscribed \subseteq Sides
    BY DEF LockInit
  <2>5. pc \in {"idle", "ssm_mech"} /\ by \in {"app", "gateway"} /\ retained \in [Sides -> Positions \cup {Unset}]
    BY DEF LockInit
  <2>. QED BY <2>1, <2>2, <2>3, <2>4, <2>5 DEF LockType
<1>2. Len(wire) = 0 /\ Len(commands) = 0 /\ wire = <<>> /\ by # "gateway" /\ mech = Default /\ subscribed = {}
  BY DEF LockInit
<1>. QED
  BY <1>1, <1>2 DEF LockInv, NeverSet, AutoLockOff, FromTopics, LastCommand, SentIsMech, LockIsMech

\* The link comes, or is lost: then what was on its way is gone, and the lock has missed it.
LEMMA LinkSteps == ASSUME LockInv, LoggedIn \/ LinkLost PROVE LockInv'
<1>1. CASE LoggedIn
  <2>1. LockType'
    BY <1>1 DEF LoggedIn, LockInv, LockType, lock, broker
  <2>. QED
    BY <1>1, <2>1 DEF LoggedIn, LockInv, LockType, NeverSet, AutoLockOff, FromTopics, LastCommand, Waiting,
      SentIsMech, LockIsMech, lock, broker, SSM_NOUSE, SSM_DISCONNECTED, SSM_LOGGIN
<1>2. CASE LinkLost
  <2>1. LockType'
    BY <1>2 DEF LinkLost, LockInv, LockType, lock, broker
  <2>2. Len(wire') = 0 /\ wire' = <<>> /\ (~missed' => wire = <<>>)
    BY <1>2 DEF LinkLost, LockInv, LockType
  <2>3. NeverSet' /\ AutoLockOff' /\ FromTopics' /\ LastCommand'
    BY <1>2, <2>2 DEF LinkLost, LockInv, NeverSet, AutoLockOff, FromTopics, LastCommand, Waiting, lock, broker
  <2>4. SentIsMech'
    BY <2>2 DEF SentIsMech
  <2>5. ~missed' => ~missed
    BY <1>2 DEF LinkLost
  <2>6. LockIsMech'
    BY <1>2, <2>2, <2>5 DEF LinkLost, LockInv, LockIsMech, Waiting, lock, broker
  <2>. QED BY <2>1, <2>3, <2>4, <2>6 DEF LockInv
<1>. QED BY <1>1, <1>2

\* A restart forgets what was set and what is subscribed; each retained command comes again.
LEMMA RestartStep == ASSUME LockInv, Restart PROVE LockInv'
<1>1. LockType'
  BY BothAreSettings DEF Restart, LockInv, LockType, lock, SSM_NOUSE, SSM_DISCONNECTED, SSM_LOGGIN
<1>2. Len(wire') = 0 /\ Len(commands') = 0 /\ wire' = <<>> /\ subscribed' = {} /\ mech' = Default
  BY DEF Restart
<1>. QED
  BY <1>1, <1>2 DEF Restart, LockInv, NeverSet, AutoLockOff, FromTopics, LastCommand, SentIsMech, LockIsMech, lock

\* A command comes, from the topic or as the retained one.
LEMMA CommandComes ==
  ASSUME LockType, FromTopics, LastCommand, NEW side \in Sides, NEW v \in Positions,
         commands' = Append(commands, [side |-> side, value |-> v]),
         side \in subscribed', subscribed \subseteq subscribed', subscribed' \subseteq subscribed \cup {side},
         retained' \in [Sides -> Positions \cup {Unset}], retained'[side] = v, v # Unset,
         \A s \in Sides : s # side => retained'[s] = retained[s],
         mech' = mech
  PROVE  /\ commands' \in Seq(Commands) /\ FromTopics' /\ LastCommand'
         /\ \A s \in Sides : Waiting(s)' <=> (s = side \/ Waiting(s))
<1>. DEFINE e == [side |-> side, value |-> v]
<1>1. e \in Commands /\ e.side = side /\ e.value = v
  BY DEF Commands
<1>2. commands \in Seq(Commands) /\ Len(commands) \in Nat
  BY DEF LockType
<1>3. /\ commands' \in Seq(Commands) /\ Len(commands') = Len(commands) + 1
      /\ commands'[Len(commands) + 1] = e
      /\ \A i \in 1 .. Len(commands) : commands'[i] = commands[i]
  BY <1>1, <1>2, AppendLast
<1>4. \A i \in 1 .. Len(commands) : commands[i].side \in Sides
  <2>1. \A i \in 1 .. Len(commands) : commands[i] \in Commands
    BY <1>2
  <2>. QED BY <2>1 DEF Commands
<1>5. FromTopics'
  <2>. SUFFICES ASSUME NEW i \in 1 .. Len(commands')
                PROVE  commands'[i].side \in subscribed' /\ retained'[commands'[i].side] # Unset
    BY DEF FromTopics
  <2>1. CASE i = Len(commands) + 1
    BY <2>1, <1>1, <1>3
  <2>2. CASE i \in 1 .. Len(commands)
    BY <2>2, <1>3, <1>4 DEF FromTopics
  <2>. QED BY <2>1, <2>2, <1>2, <1>3
<1>6. \A s \in Sides : Waiting(s)' <=> (s = side \/ Waiting(s))
  <2>. SUFFICES ASSUME NEW s \in Sides PROVE Waiting(s)' <=> (s = side \/ Waiting(s))
    OBVIOUS
  <2>1. Waiting(s)' <=> \E i \in 1 .. Len(commands') : commands'[i].side = s
    BY DEF Waiting
  <2>. QED BY <2>1, <1>1, <1>2, <1>3 DEF Waiting
<1>7. LastCommand'
  <2>. SUFFICES ASSUME NEW s \in subscribed', retained'[s] # Unset
                PROVE  /\ \A i \in 1 .. Len(commands') :
                            commands'[i].side = s /\ (\A j \in i + 1 .. Len(commands') : commands'[j].side # s) =>
                              commands'[i].value = retained'[s]
                       /\ Waiting(s)' \/ mech'[s] \in Reads(retained'[s])
    BY DEF LastCommand
  <2>0. s \in Sides
    BY DEF LockType
  <2>1. CASE s = side
    BY <2>1, <1>1, <1>2, <1>3, <1>6
  <2>2. CASE s # side
    <3>1. s \in subscribed /\ retained'[s] = retained[s] /\ retained[s] # Unset
      BY <2>0, <2>2
    <3>2. Waiting(s)' \/ mech'[s] \in Reads(retained'[s])
      BY <2>0, <2>2, <3>1, <1>6 DEF LastCommand
    <3>3. ASSUME NEW i \in 1 .. Len(commands'), commands'[i].side = s,
                 \A j \in i + 1 .. Len(commands') : commands'[j].side # s
          PROVE  commands'[i].value = retained'[s]
      <4>1. i \in 1 .. Len(commands)
        BY <3>3, <2>2, <1>1, <1>2, <1>3
      <4>2. \A j \in i + 1 .. Len(commands) : commands[j].side # s
        BY <3>3, <4>1, <1>2, <1>3
      <4>. QED BY <3>1, <3>3, <4>1, <4>2, <1>3 DEF LastCommand
    <3>. QED BY <3>2, <3>3
  <2>. QED BY <2>1, <2>2
<1>. QED BY <1>3, <1>5, <1>6, <1>7

\* mqtt_subscribe: the retained command of the topic comes, if there is one.
LEMMA SubscribeStep ==
  ASSUME LockInv, NEW side \in Sides, Subscribe(side)
  PROVE  LockInv'
<1>1. /\ side \notin subscribed /\ subscribed' = subscribed \cup {side} /\ retained' = retained /\ mech' = mech
      /\ wire' = wire /\ settings' = settings /\ by' = by /\ missed' = missed /\ pc' = pc
      /\ device_status' = device_status
  BY DEF Subscribe, lock
<1>2. NeverSet' /\ AutoLockOff' /\ SentIsMech'
  BY <1>1 DEF LockInv, NeverSet, AutoLockOff, SentIsMech
<1>3. commands' \in Seq(Commands) /\ FromTopics' /\ LastCommand'
      /\ \A s \in subscribed' : retained'[s] # Unset => (Waiting(s)' <=> (s = side \/ Waiting(s)))
  <2>1. CASE retained[side] = Unset
    <3>1. commands' = commands
      BY <2>1 DEF Subscribe
    <3>2. commands' \in Seq(Commands) /\ FromTopics' /\ LastCommand'
      BY <1>1, <2>1, <3>1 DEF LockInv, LockType, FromTopics, LastCommand, Waiting
    <3>. QED BY <1>1, <2>1, <3>1, <3>2 DEF Waiting
  <2>2. CASE retained[side] # Unset
    <3>1. commands' = Append(commands, [side |-> side, value |-> retained[side]])
      BY <2>2 DEF Subscribe
    <3>2. retained[side] \in Positions
      BY <2>2 DEF LockInv, LockType
    <3>3. subscribed' \subseteq Sides
      BY <1>1 DEF LockInv, LockType
    <3>. QED
      BY <1>1, <2>2, <3>1, <3>2, <3>3, CommandComes DEF LockInv, LockType
  <2>. QED BY <2>1, <2>2
<1>4. LockType'
  BY <1>1, <1>3 DEF LockInv, LockType
<1>5. LockIsMech'
  <2>. SUFFICES ASSUME pc' = "idle", wire' = <<>>, ~missed', by' = "gateway",
                       ~\A s \in Sides : settings'[s] = mech'[s]
                PROVE  \A s \in subscribed' : retained'[s] # Unset => Waiting(s)'
    BY DEF LockIsMech
  <2>1. \A s \in subscribed : retained[s] # Unset => Waiting(s)
    BY <1>1 DEF LockInv, LockIsMech
  <2>. QED BY <1>1, <1>3, <2>1
<1>. QED BY <1>2, <1>3, <1>4, <1>5 DEF LockInv

\* Home Assistant commands: the retained value changes, and the command comes to a subscriber.
LEMMA CommandedStep ==
  ASSUME LockInv, NEW side \in Sides, NEW v \in Positions, Commanded(side, v)
  PROVE  LockInv'
<1>1. /\ subscribed' = subscribed /\ mech' = mech /\ wire' = wire /\ settings' = settings /\ by' = by
      /\ missed' = missed /\ pc' = pc /\ device_status' = device_status
  BY DEF Commanded, host, lock
<1>2. /\ retained' \in [Sides -> Positions \cup {Unset}] /\ retained'[side] = v /\ v # Unset
      /\ \A s \in Sides : s # side => retained'[s] = retained[s]
  BY LockAssumption DEF Commanded, LockInv, LockType
<1>3. NeverSet' /\ AutoLockOff' /\ SentIsMech'
  BY <1>1, <1>2 DEF LockInv, NeverSet, AutoLockOff, SentIsMech
<1>4. commands' \in Seq(Commands) /\ FromTopics' /\ LastCommand'
      /\ \A s \in subscribed : Waiting(s)' <=> (s = side \/ Waiting(s))
  <2>1. CASE side \notin subscribed
    <3>1. commands' = commands
      BY <2>1 DEF Commanded
    <3>2. \A s \in subscribed : s # side /\ s \in Sides /\ retained'[s] = retained[s]
      BY <2>1, <1>2 DEF LockInv, LockType
    <3>3. commands' \in Seq(Commands)
      BY <3>1 DEF LockInv, LockType
    <3>. QED
      BY <1>1, <3>1, <3>2, <3>3 DEF LockInv, FromTopics, LastCommand, Waiting
  <2>2. CASE side \in subscribed
    <3>1. commands' = Append(commands, [side |-> side, value |-> v])
      BY <2>2 DEF Commanded
    <3>2. subscribed \subseteq Sides
      BY DEF LockInv, LockType
    <3>. QED
      BY <1>1, <1>2, <2>2, <3>1, <3>2, CommandComes DEF LockInv
  <2>. QED BY <2>1, <2>2
<1>5. LockType'
  BY <1>1, <1>2, <1>4 DEF LockInv, LockType
<1>6. LockIsMech'
  <2>. SUFFICES ASSUME pc' = "idle", wire' = <<>>, ~missed', by' = "gateway",
                       ~\A s \in Sides : settings'[s] = mech'[s]
                PROVE  \A s \in subscribed' : retained'[s] # Unset => Waiting(s)'
    BY DEF LockIsMech
  <2>1. \A s \in subscribed : retained[s] # Unset => Waiting(s)
    BY <1>1 DEF LockInv, LockIsMech
  <2>2. \A s \in subscribed : s \in Sides
    BY DEF LockInv, LockType
  <2>. QED BY <1>1, <1>2, <1>4, <2>1, <2>2
<1>. QED BY <1>3, <1>4, <1>5, <1>6 DEF LockInv

\* A command is handled: the copy in RAM has what was read from it.
LEMMA SetStep ==
  ASSUME LockInv, NEW v, commands # <<>>, v \in Reads(Head(commands).value), SetPosition(v)
  PROVE  LockInv'
<1>. DEFINE side == Head(commands).side
<1>1. /\ commands \in Seq(Commands) /\ commands' = Tail(commands) /\ mech' = [mech EXCEPT ![side] = v]
      /\ pc' = "ssm_mech" /\ subscribed' = subscribed /\ device_status' = device_status
      /\ retained' = retained /\ wire' = wire /\ settings' = settings /\ by' = by /\ missed' = missed
  BY DEF SetPosition, LockInv, LockType, host, lock
<1>2. /\ Tail(commands) \in Seq(Commands) /\ Len(commands) \in Nat /\ Len(commands) > 0
      /\ Len(Tail(commands)) = Len(commands) - 1 /\ Head(commands) = commands[1] /\ Head(commands) \in Commands
      /\ \A i \in 1 .. Len(commands) - 1 : Tail(commands)[i] = commands[i + 1]
  BY <1>1, TailShifts
<1>3. side \in Sides /\ Head(commands).value \in Positions
  BY <1>2 DEF Commands
<1>4. v \in Int /\ mech \in Settings
  BY <1>3, ReadsNumbers DEF LockInv, LockType
<1>5. mech' \in Settings /\ \A s \in Sides : mech'[s] = IF s = side THEN v ELSE mech[s]
  <2>. HIDE DEF side
  <2>1. \A m \in Settings, s \in Sides, w \in Int :
          /\ [m EXCEPT ![s] = w] \in Settings
          /\ \A t \in Sides : [m EXCEPT ![s] = w][t] = IF t = s THEN w ELSE m[t]
    BY PositionSet
  <2>2. /\ [mech EXCEPT ![side] = v] \in Settings
        /\ \A t \in Sides : [mech EXCEPT ![side] = v][t] = IF t = side THEN v ELSE mech[t]
    BY <1>3, <1>4, <2>1
  <2>. QED BY <1>1, <2>2
<1>6. side \in subscribed /\ retained[side] # Unset
  BY <1>2 DEF LockInv, FromTopics
<1>7. LockType'
  BY <1>1, <1>2, <1>5 DEF LockInv, LockType
<1>8. NeverSet' /\ AutoLockOff'
  BY <1>1, <1>5, <1>6 DEF LockInv, NeverSet, AutoLockOff
<1>9. FromTopics'
  BY <1>1, <1>2 DEF LockInv, FromTopics
<1>10. LastCommand'
  <2>. SUFFICES ASSUME NEW s \in subscribed, retained[s] # Unset
                PROVE  /\ \A i \in 1 .. Len(commands') :
                            commands'[i].side = s /\ (\A j \in i + 1 .. Len(commands') : commands'[j].side # s) =>
                              commands'[i].value = retained[s]
                       /\ Waiting(s)' \/ mech'[s] \in Reads(retained[s])
    BY <1>1 DEF LastCommand
  <2>1. s \in Sides
    BY DEF LockInv, LockType
  <2>2. ASSUME NEW i \in 1 .. Len(commands'), commands'[i].side = s,
               \A j \in i + 1 .. Len(commands') : commands'[j].side # s
        PROVE  commands'[i].value = retained[s]
    <3>1. i + 1 \in 1 .. Len(commands) /\ commands'[i] = commands[i + 1]
      BY <1>1, <1>2
    <3>2. \A j \in (i + 1) + 1 .. Len(commands) : commands[j].side # s
      <4>. SUFFICES ASSUME NEW j \in (i + 1) + 1 .. Len(commands) PROVE commands[j].side # s
        OBVIOUS
      <4>1. j - 1 \in i + 1 .. Len(commands') /\ commands'[j - 1] = commands[j]
        BY <1>1, <1>2, <3>1
      <4>. QED BY <2>2, <4>1
    <3>3. \A k \in 1 .. Len(commands) :
            commands[k].side = s /\ (\A j \in k + 1 .. Len(commands) : commands[j].side # s) =>
              commands[k].value = retained[s]
      BY DEF LockInv, LastCommand
    <3>. QED BY <2>2, <3>1, <3>2, <3>3
  <2>3. ASSUME ~Waiting(s)' PROVE mech'[s] \in Reads(retained[s])
    <3>1. \A i \in 2 .. Len(commands) : commands[i].side # s
      <4>. SUFFICES ASSUME NEW i \in 2 .. Len(commands) PROVE commands[i].side # s
        OBVIOUS
      <4>1. i - 1 \in 1 .. Len(commands') /\ commands'[i - 1] = commands[i]
        BY <1>1, <1>2
      <4>. QED BY <2>3, <4>1 DEF Waiting
    <3>2. CASE s = side
      <4>1. commands[1].value = retained[s]
        BY <1>2, <3>1, <3>2 DEF LockInv, LastCommand
      <4>. QED BY <1>2, <1>5, <2>1, <3>2, <4>1
    <3>3. CASE s # side
      <4>1. ~Waiting(s)
        BY <1>2, <3>1, <3>3 DEF Waiting
      <4>. QED BY <1>5, <2>1, <3>3, <4>1 DEF LockInv, LastCommand
    <3>. QED BY <3>2, <3>3
  <2>. QED BY <2>2, <2>3
<1>11. SentIsMech' /\ LockIsMech'
  BY <1>1 DEF LockInv, SentIsMech, LockIsMech
<1>. QED BY <1>7, <1>8, <1>9, <1>10, <1>11 DEF LockInv

\* ssm_mech: both positions are sent, or the lock misses the command.
LEMMA SendStep == ASSUME LockInv, ssm_mech PROVE LockInv'
<1>. DEFINE sent == [mech EXCEPT !.auto_lock_second = 0]
<1>1. /\ pc = "ssm_mech" /\ pc' = "idle" /\ subscribed' = subscribed /\ device_status' = device_status
      /\ retained' = retained /\ commands' = commands /\ settings' = settings /\ by' = by
  BY DEF ssm_mech, host, broker, lock
<1>2. mech \in Settings /\ wire \in Seq(Settings) /\ Len(wire) \in Nat
  BY DEF LockInv, LockType
<1>3. CASE device_status >= SSM_LOGGIN
  <2>1. mech' = sent /\ wire' = Append(wire, sent) /\ missed' = missed
    BY <1>3 DEF ssm_mech
  <2>2. sent \in Settings /\ sent.auto_lock_second = 0 /\ \A s \in Sides : sent[s] = mech[s]
    BY <1>2, SentSettings
  <2>. HIDE DEF sent
  <2>3. /\ wire' \in Seq(Settings) /\ wire' # <<>> /\ Len(wire') = Len(wire) + 1
        /\ wire'[Len(wire) + 1] = sent /\ \A i \in 1 .. Len(wire) : wire'[i] = wire[i]
    BY <1>2, <2>1, <2>2, AppendLast
  <2>4. LockType'
    BY <1>1, <2>1, <2>2, <2>3 DEF LockInv, LockType
  <2>5. \A i \in 1 .. Len(wire') : i \in 1 .. Len(wire) \/ wire'[i] = sent
    BY <1>2, <2>3
  <2>6. NeverSet' /\ AutoLockOff'
    BY <1>1, <2>1, <2>2, <2>3, <2>5 DEF LockInv, NeverSet, AutoLockOff
  <2>7. FromTopics'
    BY <1>1 DEF LockInv, FromTopics
  <2>8. LastCommand'
    <3>1. subscribed \subseteq Sides
      BY DEF LockInv, LockType
    <3>. QED BY <1>1, <2>1, <2>2, <3>1 DEF LockInv, LastCommand, Waiting
  <2>9. SentIsMech'
    <3>1. \A s \in Sides : wire'[Len(wire')][s] = mech'[s]
      BY <2>1, <2>3
    <3>2. ~(device_status' < SSM_LOGGIN)
      BY <1>1, <1>3 DEF LockInv, LockType, SSM_NOUSE, SSM_DISCONNECTED, SSM_LOGGIN
    <3>. QED BY <3>1, <3>2 DEF SentIsMech
  <2>10. LockIsMech'
    BY <2>3 DEF LockIsMech
  <2>. QED BY <2>4, <2>6, <2>7, <2>8, <2>9, <2>10 DEF LockInv
<1>4. CASE ~(device_status >= SSM_LOGGIN)
  <2>1. mech' = mech /\ wire' = wire /\ missed' = TRUE
    BY <1>4 DEF ssm_mech
  <2>2. wire = <<>>
    BY <1>4 DEF LockInv, LockType, SentIsMech, SSM_NOUSE, SSM_DISCONNECTED, SSM_LOGGIN
  <2>3. LockType'
    BY <1>1, <2>1 DEF LockInv, LockType
  <2>. QED
    BY <1>1, <2>1, <2>2, <2>3
    DEF LockInv, NeverSet, AutoLockOff, FromTopics, LastCommand, Waiting, SentIsMech, LockIsMech
<1>. QED BY <1>3, <1>4

\* The lock receives what was sent first; when nothing else is on its way, it was sent last.
LEMMA ReceivedStep == ASSUME LockInv, Received PROVE LockInv'
<1>1. /\ wire # <<>> /\ wire' = Tail(wire) /\ settings' = Head(wire) /\ by' = "gateway" /\ missed' = FALSE
      /\ mech' = mech /\ subscribed' = subscribed /\ device_status' = device_status /\ pc' = pc
      /\ retained' = retained /\ commands' = commands
  BY DEF Received, host, broker
<1>2. /\ wire' \in Seq(Settings) /\ Len(wire) \in Nat /\ Len(wire) > 0 /\ Len(wire') = Len(wire) - 1
      /\ settings' = wire[1] /\ settings' \in Settings
      /\ \A i \in 1 .. Len(wire) - 1 : wire'[i] = wire[i + 1]
  <2>1. wire \in Seq(Settings)
    BY DEF LockInv, LockType
  <2>. QED BY <1>1, <2>1, TailShifts
<1>3. LockType'
  BY <1>1, <1>2 DEF LockInv, LockType
<1>4. \A i \in 1 .. Len(wire') : i + 1 \in 1 .. Len(wire) /\ wire'[i] = wire[i + 1]
  BY <1>2
<1>5. 1 \in 1 .. Len(wire)
  BY <1>2
<1>6. NeverSet' /\ AutoLockOff'
  BY <1>1, <1>2, <1>4, <1>5 DEF LockInv, NeverSet, AutoLockOff
<1>7. FromTopics' /\ LastCommand'
  BY <1>1 DEF LockInv, FromTopics, LastCommand, Waiting
<1>8. SentIsMech'
  <2>1. ASSUME wire' # <<>> PROVE wire'[Len(wire')] = wire[Len(wire)]
    <3>1. Len(wire') # 0
      BY <1>2, <2>1
    <3>2. Len(wire) - 1 \in 1 .. Len(wire) - 1
      BY <1>2, <3>1
    <3>3. wire'[Len(wire) - 1] = wire[(Len(wire) - 1) + 1]
      BY <1>2, <3>2
    <3>4. (Len(wire) - 1) + 1 = Len(wire)
      BY <1>2
    <3>. QED BY <1>2, <3>3, <3>4
  <2>. QED BY <1>1, <2>1 DEF LockInv, SentIsMech
<1>9. LockIsMech'
  <2>1. ASSUME wire' = <<>> PROVE settings' = wire[Len(wire)]
    <3>1. Len(wire') = 0
      BY <2>1
    <3>2. Len(wire) = 1
      BY <1>2, <3>1
    <3>. QED BY <1>2, <3>2
  <2>. QED BY <1>1, <2>1 DEF LockInv, SentIsMech, LockIsMech
<1>. QED BY <1>3, <1>6, <1>7, <1>8, <1>9 DEF LockInv

\* The app sets the lock, which the gateway does not notice.
LEMMA SetByAppStep == ASSUME LockInv, SetByApp PROVE LockInv'
<1>1. /\ settings' = OfApp /\ by' = "app" /\ wire' = wire /\ missed' = missed /\ mech' = mech
      /\ subscribed' = subscribed /\ device_status' = device_status /\ pc' = pc
      /\ retained' = retained /\ commands' = commands
  BY DEF SetByApp, host, broker
<1>2. LockType'
  BY <1>1, BothAreSettings DEF LockInv, LockType
<1>. QED
  BY <1>1, <1>2 DEF LockInv, NeverSet, AutoLockOff, FromTopics, LastCommand, Waiting, SentIsMech, LockIsMech

-----------------------------------------------------------------------------
(* The theorems.                                                           *)

\* Every step of the gateway, the broker, the lock or its app keeps the invariant.
THEOREM LockInvariant == LockSpec => []LockInv
<1>1. LockInit => LockInv
  BY LockStarts
<1>2. LockInv /\ [LockNext]_lockVars => LockInv'
  <2>. SUFFICES ASSUME LockInv, [LockNext]_lockVars PROVE LockInv'
    OBVIOUS
  <2>1. CASE LoggedIn \/ LinkLost
    BY <2>1, LinkSteps
  <2>2. CASE Restart
    BY <2>2, RestartStep
  <2>3. CASE \E side \in Sides : Subscribe(side)
    BY <2>3, SubscribeStep
  <2>4. CASE \E side \in Sides, v \in Positions : Commanded(side, v)
    BY <2>4, CommandedStep
  <2>5. CASE commands # <<>> /\ \E v \in Reads(Head(commands).value) : SetPosition(v)
    BY <2>5, SetStep
  <2>6. CASE ssm_mech
    BY <2>6, SendStep
  <2>7. CASE Received
    BY <2>7, ReceivedStep
  <2>8. CASE SetByApp
    BY <2>8, SetByAppStep
  <2>9. CASE UNCHANGED lockVars
    BY <2>9 DEF lockVars, LockInv, LockType, NeverSet, AutoLockOff, FromTopics, LastCommand, Waiting,
      SentIsMech, LockIsMech
  <2>. QED BY <2>1, <2>2, <2>3, <2>4, <2>5, <2>6, <2>7, <2>8, <2>9 DEF LockNext
<1>. QED BY <1>1, <1>2, PTL DEF LockSpec

\* Once every command was handled and the lock has received something since, its positions
\* are those that Home Assistant set last and its auto-lock is off.
THEOREM LockAlwaysFollows == LockSpec => []LockFollowsCommands
<1>1. LockInv => LockFollowsCommands
  <2>. SUFFICES ASSUME LockInv, subscribed = Sides, commands = <<>>, pc = "idle", wire = <<>>, ~missed,
                       by = "gateway"
                PROVE  /\ \A side \in Sides : IF retained[side] = Unset THEN settings[side] = Default[side]
                                               ELSE settings[side] \in Reads(retained[side])
                       /\ settings.auto_lock_second = 0
    BY DEF LockFollowsCommands
  <2>1. settings.auto_lock_second = 0
    BY DEF LockInv, AutoLockOff
  <2>2. \A side \in Sides : ~Waiting(side)
    BY DEF Waiting
  <2>3. ASSUME NEW side \in Sides, retained[side] = Unset PROVE settings[side] = Default[side]
    BY <2>3 DEF LockInv, NeverSet
  <2>4. ASSUME NEW side \in Sides, retained[side] # Unset PROVE settings[side] \in Reads(retained[side])
    <3>1. mech[side] \in Reads(retained[side])
      BY <2>2, <2>4 DEF LockInv, LastCommand
    <3>2. settings[side] = mech[side]
      BY <2>2, <2>4 DEF LockInv, LockIsMech
    <3>. QED BY <3>1, <3>2
  <2>. QED BY <2>1, <2>3, <2>4
<1>. QED BY <1>1, LockInvariant, PTL
=============================================================================
