---------------------------- MODULE LockSettings ----------------------------
(***************************************************************************)
(* The lock and unlock positions of a SESAME 5: the copy in its slot       *)
(* (ssm->mech), the commands set_lock_position and set_unlock_position     *)
(* that Home Assistant retains at the broker, and the settings of the lock *)
(* itself, which ssm_mech replaces whole.  The lock was registered in an   *)
(* earlier boot and keeps its broker session while the ESP32 runs (Mqtt).  *)
(***************************************************************************)
EXTENDS Integers, Sequences

CONSTANTS
  Positions,      \* values that Home Assistant sets
  StrayDigits,    \* bound: digits that may lie behind the value in str[30]
  Unset,          \* no retained message
  MaxQueued,      \* bound: commands of Home Assistant waiting at the broker
  MaxWire         \* bound: settings on their way to the lock

\* Positions are numbers, and Unset is none of them.
ASSUME LockAssumption == Positions \subseteq Int /\ StrayDigits \subseteq Int /\ Unset \notin Positions

VARIABLES
  mech,           \* RAM: ssm->mech
  device_status,
  pc,             \* the MQTT task: "idle", or before ssm_mech
  subscribed,     \* the positions whose topic is subscribed
  retained,       \* the broker: retained commands
  commands,       \* the broker: commands on their way, oldest first
  wire,           \* settings written to the lock and not yet received
  settings, by,   \* the lock: its settings, and who set them last
  missed          \* history: a command came, and the lock has received nothing since

lockVars == <<mech, device_status, pc, subscribed, retained, commands, wire, settings, by, missed>>
host == <<device_status, subscribed>>
broker == <<retained, commands>>
lock == <<settings, by>>

Sides == {"lock", "unlock"}
OfApp == [lock |-> 90, unlock |-> 0, auto_lock_second |-> 30]
Default == [lock |-> 160, unlock |-> 20, auto_lock_second |-> 0]

SSM_NOUSE == 0
SSM_DISCONNECTED == 1
SSM_LOGGIN == 5

LockInit ==
  /\ mech = Default /\ device_status = SSM_NOUSE /\ pc = "idle" /\ subscribed = {}
  /\ retained \in [Sides -> Positions \cup {Unset}] /\ commands = <<>>
  /\ wire = <<>> /\ settings = OfApp /\ by = "app"
  /\ missed = FALSE

-----------------------------------------------------------------------------
(* The BLE host task.                                                      *)

LoggedIn ==
  /\ device_status < SSM_LOGGIN /\ device_status' = SSM_LOGGIN
  /\ UNCHANGED <<mech, pc, subscribed, broker, wire, lock, missed>>

\* What was written and not received is lost.
LinkLost ==
  /\ device_status >= SSM_LOGGIN /\ device_status' = SSM_DISCONNECTED
  /\ wire' = <<>> /\ missed' = (missed \/ wire # <<>>)
  /\ UNCHANGED <<mech, pc, subscribed, broker, lock>>

\* mqtt_subscribe, after the first mech status: one topic, then the other.  The broker
\* answers with what it retains.
Subscribe(side) ==
  /\ device_status >= SSM_LOGGIN
  /\ side \notin subscribed /\ (side = "unlock" => "lock" \in subscribed)
  /\ subscribed' = subscribed \cup {side}
  /\ commands' = IF retained[side] = Unset THEN commands
                 ELSE Append(commands, [side |-> side, value |-> retained[side]])
  /\ UNCHANGED <<mech, device_status, pc, retained, wire, lock, missed>>

\* ssm_init.  The session is clean; the retained messages stay.
Restart ==
  /\ mech' = Default /\ device_status' = SSM_NOUSE /\ pc' = "idle" /\ subscribed' = {}
  /\ commands' = <<>> /\ wire' = <<>> /\ missed' = (missed \/ wire # <<>>)
  /\ UNCHANGED <<retained, lock>>

-----------------------------------------------------------------------------
(* The MQTT task.                                                          *)

\* get_json_value: strncpy leaves str, which nothing initialised, without its end, so atof
\* may read on.
Reads(v) == {v} \cup {10 * v + (IF v < 0 THEN -digit ELSE digit) : digit \in StrayDigits}

\* Mutant: a command for a lock that is not connected is dropped whole.
SetWhenLoggedIn(v) ==
  /\ pc = "idle" /\ commands # <<>> /\ commands' = Tail(commands)
  /\ mech' = IF device_status >= SSM_LOGGIN THEN [mech EXCEPT ![Head(commands).side] = v] ELSE mech
  /\ pc' = "ssm_mech"
  /\ UNCHANGED <<host, retained, wire, lock, missed>>

\* The assignment of set_lock_position and of set_unlock_position, connected or not
SetPosition(v) ==
  /\ pc = "idle" /\ commands # <<>> /\ commands' = Tail(commands)
  /\ mech' = [mech EXCEPT ![Head(commands).side] = v]
  /\ pc' = "ssm_mech"
  /\ UNCHANGED <<host, retained, wire, lock, missed>>

\* The whole of mech is sent, or nothing; the host task may have run in between.
ssm_mech ==
  /\ pc = "ssm_mech" /\ pc' = "idle" /\ Len(wire) < MaxWire
  /\ IF device_status >= SSM_LOGGIN
     THEN LET sent == [mech EXCEPT !.auto_lock_second = 0]
          IN  mech' = sent /\ wire' = Append(wire, sent) /\ UNCHANGED missed
     ELSE missed' = TRUE /\ UNCHANGED <<mech, wire>>
  /\ UNCHANGED <<host, broker, lock>>

-----------------------------------------------------------------------------
(* External: the lock, its app, Home Assistant.                            *)

Received ==
  /\ wire # <<>> /\ wire' = Tail(wire)
  /\ settings' = Head(wire) /\ by' = "gateway" /\ missed' = FALSE
  /\ UNCHANGED <<mech, host, pc, broker>>

SetByApp ==
  /\ settings' = OfApp /\ by' = "app"
  /\ UNCHANGED <<mech, host, pc, broker, wire, missed>>

\* QoS 2, retained
Commanded(side, v) ==
  /\ Len(commands) < MaxQueued
  /\ retained' = [retained EXCEPT ![side] = v]
  /\ commands' = IF side \in subscribed THEN Append(commands, [side |-> side, value |-> v]) ELSE commands
  /\ UNCHANGED <<mech, host, pc, wire, lock, missed>>

LockNext ==
  \/ LoggedIn \/ LinkLost \/ Restart
  \/ \E side \in Sides : Subscribe(side) \/ \E v \in Positions : Commanded(side, v)
  \/ commands # <<>> /\ \E v \in Reads(Head(commands).value) : SetPosition(v)
  \/ ssm_mech \/ Received \/ SetByApp

LockSpec == LockInit /\ [][LockNext]_lockVars

-----------------------------------------------------------------------------
(* Properties.                                                             *)

\* Since ssm_mech always sends both positions, whichever was commanded: once every command
\* was handled and the lock has received something after the last one that it missed, a
\* lock that the gateway set last has both positions as Home Assistant set them last, or as
\* the defaults of ssm_init where it never did, and its auto-lock off; commands given while
\* the lock or the ESP32 was away, and restarts between the two, included.
LockFollowsCommands ==
  LET quiet == subscribed = Sides /\ commands = <<>> /\ pc = "idle" /\ wire = <<>>
  IN  quiet /\ ~missed /\ by = "gateway" =>
        /\ \A side \in Sides :
             IF retained[side] = Unset THEN settings[side] = Default[side]
                                       ELSE settings[side] \in Reads(retained[side])
        /\ settings.auto_lock_second = 0
=============================================================================
