-------------------------------- MODULE Rssi --------------------------------
(***************************************************************************)
(* The signal strength of every device, kept in its slot from each         *)
(* advertisement and published once a minute (ssm_scan_connect), and what  *)
(* Home Assistant shows of it.                                             *)
(***************************************************************************)
EXTENDS Integers

CONSTANTS Devices, Signals     \* values of the int8_t rssi that a receiver reports

\* -128 stands for "None" and is no signal.
NotAvailable == -128
Nothing == 1

ASSUME RssiAssumption == Signals \subseteq -127 .. 0

VARIABLES
  counted,                        \* the devices counted in cnt_ssms
  rssi, is_alive, rssi_changed,   \* fields of the slots
  shown,                          \* the retained message of state/rssi
  moved                           \* history: the rssi of the slot is not the first any more

vars == <<counted, rssi, is_alive, rssi_changed, shown, moved>>

Init ==
  /\ counted = {} /\ moved = [d \in Devices |-> FALSE]
  /\ rssi = [d \in Devices |-> 0]
  /\ is_alive = [d \in Devices |-> FALSE] /\ rssi_changed = [d \in Devices |-> FALSE]
  /\ shown = [d \in Devices |-> Nothing]

\* Power fails.  The broker keeps what it shows.
Reboot ==
  /\ counted' = {} /\ moved' = [d \in Devices |-> FALSE]
  /\ rssi' = [d \in Devices |-> 0]
  /\ is_alive' = [d \in Devices |-> FALSE] /\ rssi_changed' = [d \in Devices |-> FALSE]
  /\ UNCHANGED shown

\* The candidate's rssi is stored; the device logs in and is counted.
Found(d, r) ==
  /\ d \notin counted /\ counted' = counted \cup {d}
  /\ rssi' = [rssi EXCEPT ![d] = r]
  /\ UNCHANGED <<is_alive, rssi_changed, shown, moved>>

\* The check of a minute: the value of a slot after it, and whether it is published.
AfterCheck(d) == IF d \in counted /\ ~is_alive[d] THEN NotAvailable ELSE rssi[d]

\* Mutant: only a device that was heard is published.
PublishedAlive(d) == d \in counted /\ is_alive[d] /\ rssi_changed[d]

Published(d) == d \in counted /\ IF is_alive[d] THEN rssi_changed[d] ELSE rssi[d] # NotAvailable

\* Mutant: the flag tells of the last advertisement only.
AdvertForgets(d, r, minute) ==
  LET Now(x) == IF minute THEN AfterCheck(x) ELSE rssi[x]
      Heard(x) == x = d /\ d \in counted
  IN  /\ rssi' = [x \in Devices |-> IF Heard(x) THEN r ELSE Now(x)]
      /\ is_alive' = [x \in Devices |-> (~minute /\ is_alive[x]) \/ Heard(x)]
      /\ rssi_changed' = [x \in Devices |-> IF Heard(x) THEN r # Now(x) ELSE ~minute /\ rssi_changed[x]]
      /\ moved' = [x \in Devices |-> moved[x] \/ Now(x) # rssi[x] \/ (Heard(x) /\ r # Now(x))]
      /\ shown' = [x \in Devices |-> IF minute /\ Published(x) THEN AfterCheck(x) ELSE shown[x]]
      /\ UNCHANGED counted

\* An advertisement, of a counted device or of another; minute: 60 s after the last check.
Advert(d, r, minute) ==
  LET Now(x) == IF minute THEN AfterCheck(x) ELSE rssi[x]
      Heard(x) == x = d /\ d \in counted
  IN  /\ rssi' = [x \in Devices |-> IF Heard(x) THEN r ELSE Now(x)]
      /\ is_alive' = [x \in Devices |-> (~minute /\ is_alive[x]) \/ Heard(x)]
      /\ rssi_changed' = [x \in Devices |-> (~minute /\ rssi_changed[x]) \/ (Heard(x) /\ r # Now(x))]
      /\ moved' = [x \in Devices |-> moved[x] \/ Now(x) # rssi[x] \/ (Heard(x) /\ r # Now(x))]
      /\ shown' = [x \in Devices |-> IF minute /\ Published(x) THEN AfterCheck(x) ELSE shown[x]]
      /\ UNCHANGED counted

Next ==
  \/ Reboot
  \/ \E d \in Devices, r \in Signals : Found(d, r) \/ \E minute \in BOOLEAN : Advert(d, r, minute)

Spec == Init /\ [][Next]_vars

-----------------------------------------------------------------------------
(* Properties.                                                             *)

TypeOK ==
  /\ counted \subseteq Devices
  /\ rssi \in [Devices -> Signals \cup {0, NotAvailable}]
  /\ shown \in [Devices -> Signals \cup {0, Nothing, NotAvailable}]
  /\ is_alive \in [Devices -> BOOLEAN] /\ rssi_changed \in [Devices -> BOOLEAN] /\ moved \in [Devices -> BOOLEAN]
  /\ \A d \in Devices : rssi_changed[d] => is_alive[d] /\ d \in counted

\* What Home Assistant shows of a device is its last value, or the next check publishes
\* it; the exception is the value with which the device was found, which nothing
\* publishes (ssm_scan_connect, rssi_changed).
ShownOrChanged ==
  \A d \in counted : moved[d] => rssi_changed[d] \/ shown[d] = rssi[d]

\* A device that was not heard for a minute is shown as not available from the check on,
\* also when the check itself comes with an advertisement of it.
GoneIsShown ==
  [][\A d \in Devices, r \in Signals :
       Advert(d, r, TRUE) => \A x \in counted : ~is_alive[x] => shown'[x] = NotAvailable]_vars
=============================================================================
