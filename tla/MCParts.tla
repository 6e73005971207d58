------------------------------ MODULE MCParts ------------------------------
(***************************************************************************)
(* TLC's instance of three small parts that share no state: the signal     *)
(* strength, the Wi-Fi station and the lock positions.  One of them runs;  *)
(* the variables of the others rest.                                       *)
(***************************************************************************)
EXTENDS Rssi, LockSettings

MCSignals == {-70, -60, -50}

VARIABLES
  running,                                                    \* the part
  task, s_retry_num, s_wifi_event_group, wifi_connected_to_ap, sta, apUp      \* Wifi

WIFI == INSTANCE Wifi

ofWifi == <<task, s_retry_num, s_wifi_event_group, wifi_connected_to_ap, sta, apUp>>
partsVars == <<running, vars, ofWifi, lockVars>>

RssiRests == Init
WifiRests ==
  /\ task = "boot" /\ s_retry_num = 0 /\ s_wifi_event_group = {} /\ wifi_connected_to_ap = FALSE
  /\ sta = "off" /\ apUp = FALSE
LockRests ==
  /\ mech = <<>> /\ device_status = 0 /\ pc = "idle" /\ subscribed = {} /\ retained = <<>>
  /\ commands = <<>> /\ wire = <<>> /\ settings = <<>> /\ by = "app" /\ missed = FALSE

PartsInit ==
  \/ running = "rssi" /\ Init /\ WifiRests /\ LockRests
  \/ running = "wifi" /\ WIFI!Init /\ RssiRests /\ LockRests
  \/ running = "lock" /\ LockInit /\ RssiRests /\ WifiRests

PartsNext ==
  /\ UNCHANGED running
  /\ \/ running = "rssi" /\ Next /\ UNCHANGED <<ofWifi, lockVars>>
     \/ running = "wifi" /\ WIFI!Next /\ UNCHANGED <<vars, lockVars>>
     \/ running = "lock" /\ LockNext /\ UNCHANGED <<vars, ofWifi>>

PartsSpec == PartsInit /\ [][PartsNext]_partsVars /\ (running = "wifi" => WIFI!Fairness)

-----------------------------------------------------------------------------
(* The properties of the parts, for the one that runs.                     *)

\* The station comes back when the access point does, by a retry or by a restart.
StationRecovers == running = "wifi" => WIFI!StationRecovers
=============================================================================
