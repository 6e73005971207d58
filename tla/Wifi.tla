-------------------------------- MODULE Wifi --------------------------------
(***************************************************************************)
(* The Wi-Fi station (wifi_section.c): wifi_init_sta waits in the main     *)
(* task for the first address, wifi_event_handler connects, retries and,   *)
(* when it has retried in vain, restarts the ESP32.  The driver, the       *)
(* access point and the DHCP server are external; the application calls    *)
(* wifi_init_sta once, at boot.                                            *)
(***************************************************************************)
EXTENDS Naturals

EXAMPLE_ESP_MAXIMUM_RETRY == 5
WIFI_CONNECTED_BIT == "connected"
WIFI_FAIL_BIT == "fail"

VARIABLES
  task,                   \* the main task: "boot", "waiting", "running", "restart"
  s_retry_num,
  s_wifi_event_group,     \* the bits that are set
  wifi_connected_to_ap,
  sta,                    \* the driver: "off", "connecting", "associated", "online"
  apUp                    \* the access point and the DHCP server answer

vars == <<task, s_retry_num, s_wifi_event_group, wifi_connected_to_ap, sta, apUp>>

Init ==
  /\ task = "boot" /\ s_retry_num = 0 /\ s_wifi_event_group = {} /\ wifi_connected_to_ap = FALSE
  /\ sta = "off" /\ apUp \in BOOLEAN

\* wifi_init_sta up to xEventGroupWaitBits; WIFI_EVENT_STA_START, on which the handler connects
wifi_init_sta ==
  /\ task = "boot" /\ task' = "waiting"
  /\ wifi_connected_to_ap' = FALSE /\ s_wifi_event_group' = {}
  /\ sta' = "connecting"
  /\ UNCHANGED <<s_retry_num, apUp>>

\* The bits are not cleared on exit (pdFALSE).
WaitEnds ==
  /\ task = "waiting" /\ s_wifi_event_group # {}
  /\ IF WIFI_CONNECTED_BIT \in s_wifi_event_group
     THEN task' = "running" /\ wifi_connected_to_ap' = TRUE
     ELSE task' = "restart" /\ UNCHANGED wifi_connected_to_ap
  /\ UNCHANGED <<s_retry_num, s_wifi_event_group, sta, apUp>>

\* esp_restart: static variables start again
Restart ==
  /\ task = "restart" /\ task' = "boot"
  /\ s_retry_num' = 0 /\ s_wifi_event_group' = {} /\ wifi_connected_to_ap' = FALSE
  /\ sta' = "off" /\ UNCHANGED apUp

\* The driver is associated: no event of the handler
Associate ==
  /\ task # "restart" /\ sta = "connecting" /\ apUp /\ sta' = "associated"
  /\ UNCHANGED <<task, s_retry_num, s_wifi_event_group, wifi_connected_to_ap, apUp>>

\* IP_EVENT_STA_GOT_IP
GotIp ==
  /\ task # "restart" /\ sta = "associated" /\ apUp /\ sta' = "online"
  /\ s_retry_num' = 0
  /\ s_wifi_event_group' = s_wifi_event_group \cup {WIFI_CONNECTED_BIT}
  /\ UNCHANGED <<task, wifi_connected_to_ap, apUp>>

\* Mutant: the handler leaves the restart to wifi_init_sta.
OnlyFailBit ==
  /\ task # "restart" /\ sta # "off" /\ ~apUp
  /\ IF s_retry_num < EXAMPLE_ESP_MAXIMUM_RETRY
     THEN s_retry_num' = s_retry_num + 1 /\ sta' = "connecting" /\ UNCHANGED s_wifi_event_group
     ELSE s_wifi_event_group' = s_wifi_event_group \cup {WIFI_FAIL_BIT} /\ sta' = "off" /\ UNCHANGED s_retry_num
  /\ UNCHANGED <<task, wifi_connected_to_ap, apUp>>

\* WIFI_EVENT_STA_DISCONNECTED, of an attempt or of a connection: connect again at once, or
\* give up and restart.
Disconnected ==
  /\ task # "restart" /\ sta # "off" /\ ~apUp
  /\ IF s_retry_num < EXAMPLE_ESP_MAXIMUM_RETRY
     THEN s_retry_num' = s_retry_num + 1 /\ sta' = "connecting" /\ UNCHANGED <<task, s_wifi_event_group>>
     ELSE /\ s_wifi_event_group' = s_wifi_event_group \cup {WIFI_FAIL_BIT}
          /\ task' = "restart" /\ UNCHANGED <<s_retry_num, sta>>
  /\ UNCHANGED <<wifi_connected_to_ap, apUp>>

\* The access point fails, or comes back.
AccessPoint == apUp' = ~apUp /\ UNCHANGED <<task, s_retry_num, s_wifi_event_group, wifi_connected_to_ap, sta>>

Esp32 == wifi_init_sta \/ WaitEnds \/ Restart
Driver == Associate \/ GotIp \/ Disconnected
Next == Esp32 \/ Driver \/ AccessPoint

\* The tasks run, and the driver reports how every attempt goes on, and the end of a
\* connection whose access point stays away.
Fairness == WF_vars(Esp32) /\ WF_vars(Driver)

Spec == Init /\ [][Next]_vars /\ Fairness

-----------------------------------------------------------------------------
(* Properties.                                                             *)

\* wifi_init_sta never hangs, and if the access point stays up in the end, the ESP32 ends
\* online, however often it went away before, in the middle of an attempt or of a start:
\* every way to lose the connection retries or restarts (wifi_event_handler).
StationRecovers ==
  /\ task = "waiting" ~> task # "waiting"
  /\ <>[]apUp => <>[](sta = "online" /\ task = "running" /\ wifi_connected_to_ap)
=============================================================================
