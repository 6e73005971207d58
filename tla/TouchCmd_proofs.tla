-------------------------- MODULE TouchCmd_proofs ---------------------------
(***************************************************************************)
(* What holds of the commands to a touch however the two tasks interleave, *)
(* links are lost and waits time out, for any set of commands and bounds.  *)
(***************************************************************************)
EXTENDS TouchCmd, TLAPS

\* The notifications of a link belong to the session it carries: without a link there are
\* none, and a touch that is dialled has no link; nothing is queued
\* before the device has been asked, and what follows the login needs the session.
SessionOrder ==
  /\ phase = "open" => up = <<"INITIAL">>
  /\ phase \in {"idle", "discovering"} => up = <<>>
  /\ ~link => phase = "discovering"
  /\ connecting = "touch" => ~link
  /\ \A i \in 1 .. Len(up) : up[i] = "INITIAL" => phase = "open"

\* From the moment wake_up has cleared update_status until the wait ends, only a
\* mech status of this wake-up sets it.
FreshStatus ==
  /\ pc \in {"branch", "cancel", "connect", "terminate", "wait"} =>
       (update_status => news)
  /\ WokenByNews

CmdInv == TypeOK /\ SessionOrder /\ StatusTracksLink /\ FreshStatus

\* The initial state satisfies the invariant, whatever update_status was left.
LEMMA InitCmd == Init => CmdInv
<1>. SUFFICES ASSUME Init  PROVE CmdInv
  OBVIOUS
<1>1. SlotType
  BY DEF Init, SlotType
<1>2. FlagType
  BY DEF Init, FlagType
<1>3. LinkType
  BY DEF Init, LinkType
<1>4. host \in {"ready", "delay", "publishing"} /\ pc \in Steps /\ cmd \in Commands \cup {"none"}
  BY DEF Init, Steps
<1>5. cmds \in 0 .. MaxCmd /\ faults \in 0 .. MaxFaults /\ others \in 0 .. MaxOther
  BY TouchAssumption DEF Init
<1>6. SessionOrder
  BY DEF Init, SessionOrder
<1>7. StatusTracksLink
  BY DEF Init, StatusTracksLink, SSM_DISCONNECTED, SSM_LOGGIN
<1>8. FreshStatus
  BY DEF Init, FreshStatus, WokenByNews
<1>. QED  BY <1>1, <1>2, <1>3, <1>4, <1>5, <1>6, <1>7, <1>8 DEF CmdInv, TypeOK, TaskType

\* The status and the handle stay well typed.
LEMMA SlotStep == SlotType /\ [Next]_vars => SlotType'
<1>. SUFFICES ASSUME SlotType, [Next]_vars  PROVE SlotType'
  OBVIOUS
<1>. USE DEF SlotType, slot, flags
<1>1. CASE MqttStep
  BY <1>1 DEF MqttStep, Clear, Branch, Cancel, Connect, Terminate, WaitSucceeds,
     WaitTimesOut, Check, Write, Pause, Test, Flag, Dismiss
<1>2. CASE HostStep
  BY <1>2 DEF HostStep, Connected, DiscoveryRefused, ConnectFailed, NotifyEnabled, Notified, Initial,
     LoginDone, MechStatus, Response, Disconnected, DelayOver
<1>3. CASE Other \/ OtherDone \/ (\E c \in Commands : Receive(c)) \/ UNCHANGED vars
  BY <1>3 DEF Other, OtherDone, Receive, vars
<1>. QED  BY <1>1, <1>2, <1>3 DEF Next

\* So do the flags.
LEMMA FlagStep == FlagType /\ [Next]_vars => FlagType'
<1>. SUFFICES ASSUME FlagType, [Next]_vars  PROVE FlagType'
  OBVIOUS
<1>. USE DEF FlagType, slot, flags, gap, conn, modes, mqtt
<1>1. CASE Clear \/ Branch \/ Cancel \/ Connect \/ Terminate
  BY <1>1 DEF Clear, Branch, Cancel, Connect, Terminate, HangUp
<1>2. CASE WaitSucceeds \/ WaitTimesOut \/ Check \/ Pause
  BY <1>2 DEF WaitSucceeds, WaitTimesOut, Check, Pause
<1>3. CASE Write
  BY <1>3 DEF Write
<1>4. CASE Test \/ Flag \/ Dismiss
  BY <1>4 DEF Test, Flag, Dismiss, HangUp
<1>5. CASE Connected \/ DiscoveryRefused \/ ConnectFailed \/ NotifyEnabled \/ DelayOver
  BY <1>5 DEF Connected, DiscoveryRefused, ConnectFailed, NotifyEnabled, DelayOver
<1>6. CASE Initial \/ LoginDone
  BY <1>6 DEF Notified, Initial, LoginDone
<1>7. CASE MechStatus \/ Response
  BY <1>7 DEF Notified, MechStatus, Response
<1>8. CASE Disconnected
  BY <1>8 DEF Disconnected, ClearFlag
<1>9. CASE Other \/ OtherDone \/ (\E c \in Commands : Receive(c)) \/ UNCHANGED vars
  BY ZenonT(40), <1>9 DEF Other, OtherDone, Receive, vars
<1>. QED  BY <1>1, <1>2, <1>3, <1>4, <1>5, <1>6, <1>7, <1>8, <1>9
          DEF Next, HostStep, MqttStep

\* So do the connection attempt, the progress and the notifications.
LEMMA LinkStep == LinkType /\ [Next]_vars => LinkType'
<1>. SUFFICES ASSUME LinkType, [Next]_vars  PROVE LinkType'
  OBVIOUS
<1>. USE DEF LinkType, gap, conn, modes, ConnectTouch
<1>1. CASE Clear \/ Branch \/ Cancel \/ Connect \/ Terminate
  BY <1>1 DEF Clear, Branch, Cancel, Connect, Terminate, HangUp
<1>2. CASE WaitSucceeds \/ WaitTimesOut \/ Check \/ Pause
  BY <1>2 DEF WaitSucceeds, WaitTimesOut, Check, Pause
<1>3. CASE Write
  <2>1. up' = up \/ up' = Append(up, "RESPONSE")
    BY <1>3 DEF Write
  <2>2. "RESPONSE" \in Notification
    BY DEF Notification
  <2>3. \A c \in OfFinger \cup OfCard : ModeByte(c) \in 0 .. 2
    BY DEF OfFinger, OfCard, ModeByte, Adding
  <2>4. finger_mode' \in 0 .. 2 /\ card_mode' \in 0 .. 2
    BY <1>3, <2>3 DEF Write
  <2>. QED  BY <1>3, <2>1, <2>2, <2>4 DEF Write
<1>4. CASE Test \/ Flag \/ Dismiss
  BY <1>4 DEF Test, Flag, Dismiss, HangUp
<1>5. CASE Connected \/ DiscoveryRefused \/ ConnectFailed \/ DelayOver
  BY <1>5 DEF Connected, DiscoveryRefused, ConnectFailed, DelayOver
<1>10. CASE Disconnected
  <2>1. /\ up' = <<>> /\ phase' = "discovering" /\ connecting' = connecting
        /\ finger_mode' = finger_mode /\ card_mode' = card_mode
    BY <1>10 DEF Disconnected
  <2>. QED  BY <2>1
<1>6. CASE NotifyEnabled
  BY <1>6 DEF NotifyEnabled, Notification
<1>7. CASE Initial
  <2>1. up # <<>> /\ up' = Tail(up) \o <<"LOGIN", "MECH_STATUS">>
    BY <1>7 DEF Initial, Notified
  <2>2. <<"LOGIN", "MECH_STATUS">> \in Seq(Notification)
    BY DEF Notification
  <2>. QED  BY <1>7, <2>1, <2>2 DEF Initial, Notified
<1>8. CASE LoginDone \/ MechStatus \/ Response
  BY <1>8 DEF Notified, LoginDone, MechStatus, Response
<1>9. CASE Other \/ OtherDone \/ (\E c \in Commands : Receive(c)) \/ UNCHANGED vars
  BY <1>9 DEF Other, OtherDone, Receive, vars
<1>. QED  BY <1>1, <1>2, <1>3, <1>4, <1>5, <1>6, <1>7, <1>8, <1>9, <1>10
          DEF Next, HostStep, MqttStep

\* So do the two tasks and the bounds.
LEMMA TaskStep == TaskType /\ [Next]_vars => TaskType'
<1>. SUFFICES ASSUME TaskType, [Next]_vars  PROVE TaskType'
  OBVIOUS
<1>. USE TouchAssumption DEF TaskType, mqtt, Steps
<1>1. CASE MqttStep
  BY <1>1 DEF MqttStep, Clear, Branch, Cancel, Connect, Terminate, WaitSucceeds, Dismissal,
     WaitTimesOut, Check, Write, Pause, Test, Flag, Dismiss
<1>2. CASE HostStep
  BY <1>2 DEF HostStep, Connected, DiscoveryRefused, ConnectFailed, NotifyEnabled, Notified, Initial,
     LoginDone, MechStatus, Response, Disconnected, DelayOver
<1>3. CASE Other \/ OtherDone \/ (\E c \in Commands : Receive(c)) \/ UNCHANGED vars
  BY <1>3 DEF Other, OtherDone, Receive, vars
<1>. QED  BY <1>1, <1>2, <1>3 DEF Next

\* Types are kept by every step of either task.
LEMMA TypeStep == TypeOK /\ [Next]_vars => TypeOK'
BY SlotStep, FlagStep, LinkStep, TaskStep DEF TypeOK

\* A notification other than INITIAL arrives only in a session.
LEMMA HeadIsInitial ==
  ASSUME TypeOK, SessionOrder, up # <<>>, Head(up) # "INITIAL"
  PROVE  phase = "auth"
BY DEF TypeOK, LinkType, SessionOrder

\* The rest of the invariant.  The MQTT task never writes the status, the handle or
\* the link, and only the write of a logged-in session queues an answer.
LEMMA CmdStep == CmdInv /\ [Next]_vars => CmdInv'
<1>. SUFFICES ASSUME CmdInv, [Next]_vars  PROVE CmdInv'
  OBVIOUS
<1>1. TypeOK'
  BY TypeStep DEF CmdInv
<1>. USE DEF CmdInv, slot, flags, gap, conn, modes, mqtt, SSM_DISCONNECTED, SSM_CONNECTED, SSM_LOGGIN,
       SSM_LOCKED
<1>2. StatusTracksLink'
  <2>. USE DEF StatusTracksLink, TypeOK, SlotType, FlagType
  <2>1. CASE MqttStep
    BY <2>1 DEF MqttStep, Clear, Branch, Cancel, Connect, Terminate, WaitSucceeds,
       WaitTimesOut, Check, Write, Pause, Test, Flag, Dismiss
  <2>2. CASE LoginDone \/ MechStatus \/ Response \/ Initial
    <3>1. link /\ up # <<>> /\ link' = link /\ conn_id' = conn_id
      BY <2>2 DEF LoginDone, MechStatus, Response, Initial, Notified
    <3>2. phase' = "auth"
      BY <2>2, <3>1, HeadIsInitial DEF LoginDone, MechStatus, Response, Initial, Notified
    <3>3. device_status' \in {device_status, SSM_LOGGIN, SSM_LOCKED}
      BY <2>2 DEF LoginDone, MechStatus, Response, Initial
    <3>. QED  BY <3>1, <3>2, <3>3
  <2>3. CASE Connected \/ DiscoveryRefused \/ ConnectFailed \/ NotifyEnabled \/ Disconnected \/ DelayOver
    BY <2>3 DEF Connected, DiscoveryRefused, ConnectFailed, NotifyEnabled, Disconnected, DelayOver
  <2>4. CASE Other \/ OtherDone \/ (\E c \in Commands : Receive(c)) \/ UNCHANGED vars
    BY <2>4 DEF Other, OtherDone, Receive, vars
  <2>. QED  BY <2>1, <2>2, <2>3, <2>4 DEF Next, HostStep
<1>3. FreshStatus'
  <2>. USE DEF FreshStatus, WokenByNews
  <2>1. CASE MqttStep
    BY <2>1 DEF MqttStep, Clear, Branch, Cancel, Connect, Terminate, WaitSucceeds,
       WaitTimesOut, Dismissal, Check, Write, Pause, Test, Flag, Dismiss
  <2>2. CASE Initial \/ LoginDone \/ Response
    BY <2>2 DEF Notified, Initial, LoginDone, Response
  <2>3. CASE MechStatus
    BY <2>3 DEF Notified, MechStatus
  <2>4. CASE Connected \/ DiscoveryRefused \/ ConnectFailed \/ NotifyEnabled \/ Disconnected \/ DelayOver
    BY <2>4 DEF Connected, DiscoveryRefused, ConnectFailed, NotifyEnabled, Disconnected, DelayOver
  <2>5. CASE Other \/ OtherDone \/ (\E c \in Commands : Receive(c)) \/ UNCHANGED vars
    BY <2>5 DEF Other, OtherDone, Receive, vars
  <2>. QED  BY <2>1, <2>2, <2>3, <2>4, <2>5 DEF Next, HostStep
<1>4. SessionOrder'
  <2>. USE DEF SessionOrder, TypeOK, LinkType, FlagType, ConnectTouch
  <2>1. CASE Write
    BY <2>1 DEF Write
  <2>2. CASE MqttStep /\ ~Write
    BY <2>2 DEF MqttStep, Clear, Branch, Cancel, Connect, Terminate, WaitSucceeds,
       WaitTimesOut, Check, Pause, Test, Flag, Dismiss
  <2>3. CASE Initial
    BY <2>3 DEF Initial, Notified
  <2>4. CASE LoginDone \/ MechStatus \/ Response
    BY <2>4 DEF LoginDone, MechStatus, Response, Notified
  <2>5. CASE Connected \/ DiscoveryRefused \/ ConnectFailed \/ NotifyEnabled \/ Disconnected \/ DelayOver
    BY <2>5 DEF Connected, DiscoveryRefused, ConnectFailed, NotifyEnabled, Disconnected, DelayOver
  <2>6. CASE Other \/ OtherDone \/ (\E c \in Commands : Receive(c)) \/ UNCHANGED vars
    BY <2>6 DEF Other, OtherDone, Receive, vars
  <2>. QED  BY <2>1, <2>2, <2>3, <2>4, <2>5, <2>6 DEF Next, HostStep
<1>. QED  BY <1>1, <1>2, <1>3, <1>4

\* The inductive invariant of the two tasks.
THEOREM CmdInvariant == Spec => []CmdInv
BY InitCmd, CmdStep, PTL DEF Spec, CmdInv

\* A status above DISCONNECTED and a valid handle mean a link, and a status of at
\* least LOGGIN a session, at every point between the steps of the two tasks.
THEOREM StatusIsTrue == Spec => []StatusTracksLink
BY CmdInvariant, PTL DEF CmdInv

\* A wake-up never succeeds on a mech status from before it began.
THEOREM WakeUpIsFresh == Spec => []WokenByNews
BY CmdInvariant, PTL DEF CmdInv, FreshStatus

\* Every state of the two tasks is well typed.
THEOREM CmdTypeCorrect == Spec => []TypeOK
BY CmdInvariant, PTL DEF CmdInv

-----------------------------------------------------------------------------
(* The modes: wake-ups that are in time, commands that wait for the end of *)
(* a terminated link, and links that hold.                                 *)

Reliable == ~Slow /\ ~Hurried /\ MaxFaults = 0

\* A session whose news has been read, or no link and none to come.
Settled ==
  IF link THEN device_status >= SSM_LOGGIN /\ \A i \in 1 .. Len(up) : up[i] = "RESPONSE"
          ELSE connecting # "touch" /\ host # "delay"

\* Behind a mech status only answers wait.
NewsOnce == \A i, j \in 1 .. Len(up) : up[i] = "MECH_STATUS" /\ i < j => up[j] = "RESPONSE"

\* Only a wait sees the link come and go: it begins without news, its end is a session
\* that nobody terminates.
Awaited ==
  /\ pc \in {"branch", "cancel", "connect", "terminate"} => ~update_status
  /\ pc = "wait" /\ update_status => link /\ ~closing /\ Settled
  /\ pc = "wait" /\ closing => ~update_status /\ Settled
  /\ connecting = "touch" \/ host = "delay" => pc = "wait" /\ ~link

\* Where the MQTT task counts on a link there is one, which only a dismissal ends.
Relied ==
  /\ closing => link
  /\ pc # "wait" => Settled
  /\ pc \in {"idle", "wait"} \/ ~closing
  /\ pc \in {"cancel", "connect"} => ~link
  /\ pc \in {"check", "write", "pause", "terminate", "flag", "hangup"} => link
  /\ disconnect_forever <=> pc = "hangup" \/ (pc = "idle" /\ closing)

Modes ==
  /\ add_finger <=> IF pc = "write" /\ cmd \in OfFinger THEN cmd = "add_finger"
                                                     ELSE finger_mode = 1
  /\ add_card <=> IF pc = "write" /\ cmd \in OfCard THEN cmd = "add_card" ELSE card_mode = 1
  /\ card_mode \in {0, 1}

ModeInv == NewsOnce /\ Awaited /\ Relied /\ Modes

\* The initial state: no link, no flag, no mode.
LEMMA InitMode == Init => ModeInv
<1>. SUFFICES ASSUME Init PROVE ModeInv
  OBVIOUS
<1>1. NewsOnce
  BY DEF Init, NewsOnce
<1>2. Modes
  BY DEF Init, Modes
<1>3. Settled
  BY DEF Init, Settled
<1>4. Awaited
  BY DEF Init, Awaited
<1>5. Relied
  BY <1>3 DEF Init, Relied
<1>. QED BY <1>1, <1>2, <1>4, <1>5 DEF ModeInv

\* A step of the MQTT task.
LEMMA MqttMode ==
  ASSUME Reliable, CmdInv, ModeInv, MqttStep
  PROVE  ModeInv'
<1>. USE DEF CmdInv, TypeOK, SlotType, FlagType, StatusTracksLink, ModeInv, slot, flags, gap, conn, modes, mqtt,
       SSM_DISCONNECTED, SSM_CONNECTED, SSM_LOGGIN, SSM_LOCKED
<1>1. CASE Write
  <2>. USE DEF Relied, Settled
  <2>1. phase = "auth" /\ link /\ conn_id = "handle"
    BY <1>1 DEF Write
  <2>2. /\ pc = "write" /\ pc' = "pause" /\ up' = Append(up, "RESPONSE")
        /\ UNCHANGED <<slot, gap, link, closing, phase, host, cmd>>
        /\ finger_mode' = IF cmd \in OfFinger THEN ModeByte(cmd) ELSE finger_mode
        /\ card_mode' = IF cmd \in OfCard THEN ModeByte(cmd) ELSE card_mode
    BY <1>1, <2>1 DEF Write
  <2>3. \A i \in 1 .. Len(up') : up'[i] = "RESPONSE"
    BY <2>1, <2>2 DEF LinkType
  <2>4. Modes'
    <3>1. cmd \in OfFinger => (ModeByte(cmd) = 1 <=> cmd = "add_finger")
      BY DEF OfFinger, ModeByte, Adding
    <3>2. cmd \in OfCard => /\ ModeByte(cmd) = 1 <=> cmd = "add_card"
                            /\ ModeByte(cmd) \in {0, 1}
      BY DEF OfCard, ModeByte, Adding
    <3>. QED BY <2>2, <3>1, <3>2 DEF Modes
  <2>. QED BY <2>1, <2>2, <2>3, <2>4 DEF NewsOnce, Awaited
<1>2. CASE Clear \/ Branch \/ Cancel \/ Connect
  BY <1>2 DEF Clear, Branch, Cancel, Connect, ConnectTouch, NewsOnce, Awaited, Relied, Modes, Settled
<1>3. CASE Terminate
  BY <1>3 DEF Terminate, HangUp, NewsOnce, Awaited, Relied, Modes, Settled
<1>4. CASE WaitSucceeds \/ WaitTimesOut
  BY <1>4 DEF Reliable, WaitSucceeds, WaitTimesOut, Dismissal, NewsOnce, Awaited, Relied, Modes, Settled
<1>5. CASE Check
  <2>1. /\ pc = "check" /\ pc' \in {"write", "pause"}
        /\ pc' = "pause" => cmd \in Pairing
        /\ add_finger' = IF cmd \in OfFinger THEN cmd = "add_finger" ELSE add_finger
        /\ add_card' = IF cmd \in OfCard THEN cmd = "add_card" ELSE add_card
        /\ UNCHANGED <<device_status, update_status, disconnect_forever, gap, conn,
                       modes, host, cmd>>
    BY <1>5 DEF Check, Relied, Settled
  <2>2. cmd \in Pairing => cmd \notin OfFinger \cup OfCard
    BY DEF Pairing, OfFinger, OfCard
  <2>3. Modes'
    BY <2>1, <2>2 DEF Modes
  <2>. QED BY <2>1, <2>3 DEF NewsOnce, Awaited, Relied, Settled
<1>6. CASE Pause \/ Test \/ Flag \/ Dismiss
  BY <1>6 DEF Pause, Test, Flag, Dismiss, HangUp, Dismissal, NewsOnce, Awaited, Relied, Modes, Settled
<1>. QED BY <1>1, <1>2, <1>3, <1>4, <1>5, <1>6 DEF MqttStep

\* A step of the host task.
LEMMA HostMode ==
  ASSUME Reliable, CmdInv, ModeInv, HostStep
  PROVE  ModeInv'
<1>. USE DEF CmdInv, TypeOK, SlotType, FlagType, StatusTracksLink, ModeInv, slot, flags, gap, conn, modes, mqtt,
       SSM_DISCONNECTED, SSM_CONNECTED, SSM_LOGGIN, SSM_LOCKED
<1>1. CASE Connected \/ DiscoveryRefused \/ ConnectFailed \/ DelayOver
  <2>1. ~ConnectFailed
    BY DEF Reliable, ConnectFailed, TaskType
  <2>2. ~DiscoveryRefused
    BY DEF Reliable, DiscoveryRefused, TaskType
  <2>. QED BY <1>1, <2>1, <2>2 DEF Connected, DelayOver, ConnectTouch, NewsOnce, Awaited, Relied, Modes, Settled
<1>2. CASE NotifyEnabled
  BY <1>2 DEF NotifyEnabled, NewsOnce, Awaited, Relied, Modes, Settled
<1>3. CASE Initial
  <2>1. up # <<>> /\ 1 \in 1 .. Len(up) /\ up[1] = "INITIAL" /\ link
    BY <1>3 DEF Initial, Notified, LinkType
  <2>2. up = <<"INITIAL">>
    BY <2>1 DEF SessionOrder
  <2>3. up' = <<"LOGIN", "MECH_STATUS">>
    BY <1>3, <2>2 DEF Initial
  <2>4. pc = "wait" /\ ~closing
    BY <2>1 DEF Relied, Awaited, Settled
  <2>5. NewsOnce'
    BY <2>3 DEF NewsOnce
  <2>6. Awaited' /\ Relied' /\ Modes'
    BY <1>3, <2>1, <2>4 DEF Initial, Notified, Awaited, Relied, Modes
  <2>. QED BY <2>5, <2>6
<1>4. CASE LoginDone \/ MechStatus \/ Response
  <2>1. up # <<>> /\ up' = Tail(up) /\ link /\ Len(up) \in Nat \ {0} /\ Len(up') = Len(up) - 1
        /\ \A i \in 1 .. Len(up') : up'[i] = up[i + 1]
    BY <1>4 DEF LoginDone, MechStatus, Response, Notified, LinkType
  <2>2. NewsOnce'
    BY <2>1 DEF NewsOnce
  <2>3. CASE MechStatus
    <3>1. up[1] = "MECH_STATUS"
      BY <2>3 DEF MechStatus, Notified
    <3>2. pc = "wait" /\ ~closing
      BY <2>1, <3>1 DEF Relied, Awaited, Settled
    <3>3. \A i \in 1 .. Len(up') : up'[i] = "RESPONSE"
      BY <2>1, <3>1 DEF NewsOnce
    <3>. QED BY <2>1, <2>2, <2>3, <3>2, <3>3 DEF MechStatus, Notified, Awaited, Relied, Modes, Settled
  <2>4. CASE LoginDone
    <3>1. up[1] = "LOGIN"
      BY <2>4 DEF LoginDone, Notified
    <3>2. pc = "wait" /\ ~closing
      BY <2>1, <3>1 DEF Relied, Awaited, Settled
    <3>. QED BY <2>1, <2>2, <2>4, <3>2 DEF LoginDone, Notified, Awaited, Relied, Modes
  <2>5. CASE Response
    <3>1. Settled => Settled'
      BY <2>1, <2>5 DEF Response, Notified, Settled
    <3>. QED BY <2>1, <2>2, <2>5, <3>1 DEF Response, Notified, Awaited, Relied, Modes
  <2>. QED BY <1>4, <2>3, <2>4, <2>5
<1>5. CASE Disconnected
  <2>1. closing
    BY <1>5 DEF Disconnected, Reliable, TaskType
  <2>. QED BY <1>5, <2>1 DEF Disconnected, ClearFlag, NewsOnce, Awaited, Relied, Modes, Settled
<1>. QED BY <1>1, <1>2, <1>3, <1>4, <1>5 DEF HostStep

\* A step of another device, and the arrival of a command.
LEMMA OtherMode ==
  ASSUME Reliable, CmdInv, ModeInv, Other \/ OtherDone \/ (\E c \in Commands : Receive(c)) \/ UNCHANGED vars
  PROVE  ModeInv'
<1>. USE DEF CmdInv, TypeOK, SlotType, FlagType, StatusTracksLink, ModeInv, slot, flags, gap, conn, modes, mqtt,
       SSM_DISCONNECTED, SSM_CONNECTED, SSM_LOGGIN, SSM_LOCKED
<1>1. CASE Other \/ OtherDone \/ UNCHANGED vars
  BY <1>1 DEF Other, OtherDone, vars, NewsOnce, Awaited, Relied, Modes, Settled
<1>2. CASE \E c \in Commands : Receive(c)
  BY <1>2 DEF Reliable, Receive, NewsOnce, Awaited, Relied, Modes, Settled
<1>. QED BY <1>1, <1>2

\* Between commands each of the two flags of the slot agrees with the mode that the touch
\* has, by the last mode byte of its own kind that the touch took, when no wake-up is
\* late, no command hurried and no link lost: then the write that follows the note of the
\* mode always finds a session.
THEOREM ModesStayAgreed == Reliable => (Spec => []ModesAgree)
<1>. SUFFICES ASSUME Reliable PROVE Spec => []ModesAgree
  OBVIOUS
<1>1. CmdInv /\ ModeInv /\ [Next]_vars => ModeInv'
  BY MqttMode, HostMode, OtherMode DEF Next
<1>2. ModeInv => ModesAgree
  BY DEF ModeInv, Modes, ModesAgree, ReadsAdd
<1>. QED BY InitMode, CmdInvariant, <1>1, <1>2, PTL DEF Spec
=============================================================================
