--------------------------- MODULE SsmTable_proofs ---------------------------
(***************************************************************************)
(* Theorems about the slot table for every number of devices, slots and    *)
(* connections: the table stays disciplined and free of duplicates, it     *)
(* implements the list of known devices of module Registry, and the host   *)
(* task always has a scan, an attempt to connect or something due on a     *)
(* link that will resume one of them.                                      *)
(***************************************************************************)
EXTENDS SsmTable, SequenceTheorems, FiniteSetTheorems, TLAPS

\* The part of the state the argument is about, with the types it needs.
TableType ==
  /\ cnt_ssms \in 0 .. SSM_MAX_NUM + 1
  /\ addr \in [Slot -> Device \cup {None}]
  /\ id \in [Slot -> 0 .. SSM_MAX_NUM \cup {None}]
  /\ cnt_discovery \in [Slot -> 0 .. CntCap]
  /\ connecting \in [dev : Device, slot : Slot] \cup {None}
  /\ link \in [Device -> Slot \cup {None}]

\* Strengthens NoDuplicateSlots to the candidate slot cnt_ssms, whose address
\* becomes a counted one when its device logs in.
FreshCandidate ==
  \A m, n \in Slot :
    m <= cnt_ssms /\ n <= cnt_ssms /\ addr[m] = addr[n] /\ addr[m] # None => m = n

\* The slots behind the candidate have never been touched.
CountedHaveAddress ==
  \A n \in Slot : /\ n < cnt_ssms => addr[n] # None
                  /\ n > cnt_ssms => addr[n] = None

TableInv ==
  /\ TableType
  /\ SlotDiscipline
  /\ FreshCandidate
  /\ CountedHaveAddress
  /\ LinksInTable

-----------------------------------------------------------------------------
\* The table is fresh after a reboot: nothing is counted, connected or in use.
LEMMA RebootTable == Reboot => TableInv'
BY TableAssumption DEF Reboot, TableInv, TableType, SlotDiscipline, FreshCandidate,
   CountedHaveAddress, LinksInTable, InUse, Slot

\* The same holds of the initial state.
LEMMA InitTable == Init => TableInv
BY TableAssumption DEF Init, TableInv, TableType, SlotDiscipline, FreshCandidate,
   CountedHaveAddress, LinksInTable, InUse, Slot

\* A handler that leaves the table alone and uses no slot that was not in use or
\* counted before.
LEMMA QuietStep ==
  ASSUME TableInv, UNCHANGED <<cnt_ssms, addr, id, cnt_discovery>>,
         link' \in [Device -> Slot \cup {None}],
         connecting' \in [dev : Device, slot : Slot] \cup {None},
         \A n \in Slot : InUse(n)' => InUse(n) \/ n < cnt_ssms
  PROVE  TableInv'
<1>1. TableType'
  BY DEF TableInv, TableType
<1>2. SlotDiscipline'
  BY DEF TableInv, SlotDiscipline
<1>3. FreshCandidate' /\ CountedHaveAddress'
  BY DEF TableInv, FreshCandidate, CountedHaveAddress
<1>4. LinksInTable'
  BY TableAssumption DEF TableInv, TableType, LinksInTable, CountedHaveAddress, Slot
<1>. QED  BY <1>1, <1>2, <1>3, <1>4 DEF TableInv

\* An advertisement may move the candidate slot to another device that is not
\* counted, whether or not a device is already connecting through that slot.
LEMMA CandidateStep ==
  ASSUME TableInv, NEW d \in Device, Candidate(d),
         UNCHANGED <<cnt_ssms, id, cnt_discovery, link>>,
         connecting' \in {connecting, [dev |-> d, slot |-> cnt_ssms]}
  PROVE  TableInv'
<1>1. /\ cnt_ssms \in Slot /\ d # None
      /\ addr[cnt_ssms]' = d
      /\ \A n \in Slot : n # cnt_ssms => addr'[n] = addr[n]
  BY TableAssumption DEF TableInv, TableType, Candidate
<1>2. TableType'
  BY <1>1 DEF TableInv, TableType, Candidate
<1>3. SlotDiscipline'
  BY DEF TableInv, SlotDiscipline
<1>4. FreshCandidate'
  <2>1. \A m \in Slot : m < cnt_ssms => addr[m] # d
    BY <1>1 DEF TableInv, TableType, Candidate, IsKnown, Counted, Slot
  <2>. QED  BY <1>1, <2>1 DEF TableInv, TableType, FreshCandidate, Slot
<1>5. CountedHaveAddress'
  BY <1>1 DEF TableInv, CountedHaveAddress, TableType, Slot
<1>6. LinksInTable'
  <2>. SUFFICES ASSUME NEW n \in Slot, InUse(n)'
                PROVE  n <= cnt_ssms /\ addr'[n] # None
    BY DEF LinksInTable
  <2>1. InUse(n) \/ n = cnt_ssms
    BY DEF InUse
  <2>. QED  BY <1>1, <2>1 DEF TableInv, TableType, LinksInTable, Slot
<1>. QED  BY <1>2, <1>3, <1>4, <1>5, <1>6 DEF TableInv

\* Counting a slot in use either counts the candidate, or nothing: a slot that
\* has been counted is recognised by its cnt_discovery.
LEMMA CountStep ==
  ASSUME TableInv, NEW n \in Slot, InUse(n), CountSlot(n),
         UNCHANGED <<addr, link, connecting>>
  PROVE  TableInv'
<1>1. n <= cnt_ssms /\ addr[n] # None
  BY DEF TableInv, LinksInTable
<1>2. CASE cnt_discovery[n] # 0
  <2>1. UNCHANGED <<cnt_ssms, addr, id, cnt_discovery>>
    BY <1>2 DEF CountSlot
  <2>2. \A m \in Slot : InUse(m)' => InUse(m)
    BY DEF InUse
  <2>. QED  BY <2>1, <2>2, QuietStep DEF TableInv, TableType
<1>3. CASE cnt_discovery[n] = 0
  <2>1. n = cnt_ssms
    BY <1>1, <1>3 DEF TableInv, TableType, SlotDiscipline, Slot
  <2>2. /\ cnt_ssms' = n + 1 /\ id' = [id EXCEPT ![n] = n]
        /\ cnt_discovery' = [cnt_discovery EXCEPT ![n] = 1]
    BY <1>3, <2>1 DEF CountSlot
  <2>3. TableType'
    BY <2>1, <2>2, TableAssumption DEF TableInv, TableType, Slot
  <2>4. SlotDiscipline'
    BY <2>1, <2>2, TableAssumption DEF TableInv, TableType, SlotDiscipline, Slot
  <2>5. FreshCandidate' /\ CountedHaveAddress'
    BY <1>1, <2>1, <2>2 DEF TableInv, TableType, FreshCandidate, CountedHaveAddress, Slot
  <2>6. LinksInTable'
    <3>1. \A m \in Slot : InUse(m)' => InUse(m)
      BY DEF InUse
    <3>. QED  BY <2>1, <2>2, <3>1 DEF TableInv, LinksInTable, Slot
  <2>. QED  BY <2>3, <2>4, <2>5, <2>6 DEF TableInv
<1>. QED  BY <1>2, <1>3

-----------------------------------------------------------------------------
\* Advertisements.
LEMMA AdvertisesStep ==
  ASSUME TableInv, NEW d \in Device, Advertises(d)
  PROVE  TableInv'
<1>1. CASE SeenAgain(d)
  <2>1. PICK n \in Counted : cnt_discovery' = [cnt_discovery EXCEPT
                                  ![n] = IF @ < CntCap THEN @ + 1 ELSE CntCap]
    BY <1>1 DEF SeenAgain
  <2>2. UNCHANGED <<cnt_ssms, addr, id, link, connecting>>
    BY <1>1 DEF SeenAgain, gap, links
  <2>3. n \in Slot /\ n < cnt_ssms /\ cnt_discovery[n] \in 0 .. CntCap
    BY TableAssumption DEF TableInv, TableType, Counted, Slot
  <2>4. TableType'
    BY <2>1, <2>2, <2>3, TableAssumption DEF TableInv, TableType
  <2>5. SlotDiscipline'
    BY <2>1, <2>2, <2>3, TableAssumption DEF TableInv, TableType, SlotDiscipline, Slot
  <2>6. FreshCandidate' /\ CountedHaveAddress' /\ LinksInTable'
    BY <2>2 DEF TableInv, FreshCandidate, CountedHaveAddress, LinksInTable, InUse
  <2>. QED  BY <2>4, <2>5, <2>6 DEF TableInv
<1>2. CASE NewUnsupported(d)
  BY <1>2, CandidateStep DEF NewUnsupported, gap, links
<1>3. CASE NewUnregistered(d)
  BY <1>3, CandidateStep DEF NewUnregistered, StartConnect, gap, links
<1>4. CASE NewRegistered(d)
  BY <1>4, CandidateStep DEF NewRegistered, StartConnect, gap, links
<1>. QED  BY <1>1, <1>2, <1>3, <1>4 DEF Advertises

\* A link comes up, whatever becomes of its discovery.
LinkComes(d) == PeerRefused(d) \/ DiscoveryRefused(d) \/ Connected(d)

\* Links that come up or go down, and the connection attempt that follows.
LEMMA ConnectedStep ==
  ASSUME TableInv, NEW d \in Device, LinkComes(d)
  PROVE  TableInv'
<1>. PICK p \in Progress : LinkUp(d, p)
  BY DEF LinkComes, PeerRefused, DiscoveryRefused, Connected, Progress
<1>1. connecting.slot \in Slot /\ InUse(connecting.slot)
  BY TableAssumption DEF TableInv, TableType, LinkUp, InUse
<1>2. \A n \in Slot : InUse(n)' => InUse(n)
  BY <1>1, TableAssumption DEF TableInv, TableType, LinkUp, InUse
<1>3. link' \in [Device -> Slot \cup {None}]
  BY <1>1 DEF LinkUp, TableInv, TableType
<1>. QED  BY <1>2, <1>3, QuietStep DEF LinkUp, table

\* What ble_gap_connect leaves in `connecting' is a device and a slot, or nothing.
LEMMA ReconnectType ==
  ASSUME TableInv, NEW n \in Slot, addr[n] # None, NEW live \in SUBSET Device
  PROVE  /\ ReconnectTo(n, live) \in [dev : Device, slot : Slot] \cup {None}
         /\ ReconnectTo(n, live) # connecting => ReconnectTo(n, live).slot = n
BY DEF TableInv, TableType, ReconnectTo

\* A link that goes down keeps the table: the reconnect uses the address of a slot in use.
LEMMA DisconnectedStep ==
  ASSUME TableInv, NEW d \in Device, NEW n \in Slot,
         StayDisconnected(d, n) \/ ReconnectNow(d, n)
  PROVE  TableInv'
<1>1. /\ UNCHANGED <<cnt_ssms, addr, id, cnt_discovery>>
      /\ link[d] = n /\ link' = [link EXCEPT ![d] = None]
  BY DEF StayDisconnected, ReconnectNow, LinkDown, table
<1>2. InUse(n) /\ addr[n] # None
  BY <1>1 DEF InUse, TableInv, LinksInTable
<1>3. /\ connecting' \in [dev : Device, slot : Slot] \cup {None}
      /\ connecting' # connecting => connecting'.slot = n
  <2>1. CASE StayDisconnected(d, n)
    BY <2>1 DEF StayDisconnected, gap, TableInv, TableType
  <2>2. CASE ReconnectNow(d, n)
    BY <2>2, <1>2, ReconnectType DEF ReconnectNow, Linked
  <2>. QED  BY <2>1, <2>2
<1>4. \A m \in Slot : InUse(m)' => InUse(m)
  BY <1>1, <1>2, <1>3, TableAssumption DEF InUse, TableInv, TableType, Slot
<1>. QED  BY <1>1, <1>3, <1>4, QuietStep DEF TableInv, TableType

-----------------------------------------------------------------------------
\* Notifications: only a handler that sends a login counts a slot.
LEMMA NotifiedStep ==
  ASSUME TableInv, NEW d \in Device, NEW n \in Slot, Notified(d, n)
  PROVE  TableInv'
<1>1. \A item : Receives(d, n, item) => InUse(n)
  BY DEF Receives, InUse
<1>2. CASE InitialRegister(d, n)
  BY <1>2, QuietStep DEF InitialRegister, table, InUse, TableInv, TableType
<1>3. CASE InitialLogin(d, n)
  BY <1>1, <1>3, CountStep DEF InitialLogin, SendLogin
<1>4. CASE RegistrationDone(d, n)
  BY <1>1, <1>4, CountStep DEF RegistrationDone, SendLogin
<1>5. CASE WriteWithoutPeer(d, n)
  BY <1>5, RebootTable DEF WriteWithoutPeer, Panic
<1>6. CASE LoginDone(d, n)
  BY <1>6, QuietStep DEF LoginDone, table, InUse, TableInv, TableType
<1>7. CASE Garbled(d, n)
  BY <1>7, QuietStep DEF Garbled, table, InUse, TableInv, TableType
<1>8. CASE MechStatus(d, n)
  <2>1. UNCHANGED <<cnt_ssms, addr, id, cnt_discovery, link>>
    BY <1>8 DEF MechStatus, table
  <2>2. /\ connecting' \in [dev : Device, slot : Slot] \cup {None}
        /\ connecting' # connecting => connecting'.slot = 0 /\ 0 < cnt_ssms
    <3>1. CASE WakesTouch /\ device_status'[0] <= SSM_DISCONNECTED
      <4>1. cnt_ssms = 2 /\ 0 \in Slot /\ addr[0] # None
        BY <3>1, TableAssumption
        DEF WakesTouch, AutoAdd, TableInv, CountedHaveAddress, Slot
      <4>2. connecting' = ReconnectTo(0, Linked)
        BY <1>8, <3>1 DEF MechStatus
      <4>. QED  BY <4>1, <4>2, ReconnectType DEF Linked
    <3>2. CASE ~(WakesTouch /\ device_status'[0] <= SSM_DISCONNECTED)
      BY <1>8, <3>2 DEF MechStatus, TableInv, TableType
    <3>. QED  BY <3>1, <3>2
  <2>3. \A m \in Slot : InUse(m)' => InUse(m) \/ m < cnt_ssms
    BY <2>1, <2>2 DEF InUse
  <2>. QED  BY <2>1, <2>2, <2>3, QuietStep DEF TableInv, TableType
<1>. QED  BY <1>2, <1>3, <1>4, <1>5, <1>6, <1>7, <1>8 DEF Notified

\* Every step of the program and its environment.
LEMMA TableStep == TableInv /\ [Next]_vars => TableInv'
<1>. SUFFICES ASSUME TableInv, [Next]_vars  PROVE TableInv'
  OBVIOUS
<1>. USE DEF TableInv, TableType
<1>1. CASE ConnectFailed
  BY <1>1, QuietStep, TableAssumption DEF ConnectFailed, table, links, InUse
<1>2. CASE PowerCut
  BY <1>2, RebootTable DEF PowerCut
<1>3. ASSUME NEW d \in Device, DeviceStep(d)  PROVE TableInv'
  <2>1. CASE Advertises(d)
    BY <2>1, AdvertisesStep
  <2>2. CASE LinkComes(d)
    BY <2>2, ConnectedStep
  <2>3. CASE NotifyEnabled(d) \/ DiscoveryFailed(d) \/ Publish(d)
    BY <2>3, QuietStep DEF NotifyEnabled, DiscoveryFailed, Publish, table, gap, InUse
  <2>4. CASE DeviceReset(d)
    <3>1. CASE UNCHANGED <<table, slotVars, ram, nvs, gap, links>>
      BY <3>1, QuietStep DEF table, gap, links, InUse
    <3>2. CASE \E n \in Slot : StayDisconnected(d, n)
      BY <3>2, DisconnectedStep
    <3>3. CASE Reboot
      BY <3>3, RebootTable
    <3>. QED  BY <2>4, <3>1, <3>2, <3>3 DEF DeviceReset
  <2>5. ASSUME NEW n \in Slot, Notified(d, n)  PROVE TableInv'
    BY <2>5, NotifiedStep
  <2>6. ASSUME NEW n \in Slot, Disconnected(d, n)  PROVE TableInv'
    BY <2>6, DisconnectedStep DEF Disconnected
  <2>. QED  BY <1>3, <2>1, <2>2, <2>3, <2>4, <2>5, <2>6 DEF DeviceStep, LinkComes
<1>4. CASE UNCHANGED vars
  BY <1>4, QuietStep DEF vars, table, gap, links, InUse
<1>. QED  BY <1>1, <1>2, <1>3, <1>4 DEF Next

\* The inductive invariant of the table.
THEOREM TableInvariant == Spec => []TableInv
BY InitTable, TableStep, PTL DEF Spec

\* For any number of devices and slots: the counted slots, and only they, carry
\* their index and a discovery count, which is what keeps a reconnecting device
\* from being counted twice.
THEOREM SlotDisciplineHolds == Spec => []SlotDiscipline
<1>1. TableInv => SlotDiscipline
  BY DEF TableInv
<1>. QED  BY <1>1, TableInvariant, PTL

\* No device ever occupies two counted slots, even when several devices connect
\* through the same candidate slot.
THEOREM NoDuplicates == Spec => []NoDuplicateSlots
<1>1. TableInv => NoDuplicateSlots
  BY DEF TableInv, TableType, FreshCandidate, CountedHaveAddress, NoDuplicateSlots, Slot
<1>. QED  BY <1>1, TableInvariant, PTL

\* Connection attempts and links never refer behind the candidate slot, or to a
\* slot without an address.
THEOREM LinksStayInTable == Spec => []LinksInTable
<1>1. TableInv => LinksInTable
  BY DEF TableInv
<1>. QED  BY <1>1, TableInvariant, PTL

\* The table is an index of distinct devices and links lie in it, for any number of
\* devices, slots, links and faults.
THEOREM TableStaysSound == Spec => []TableSound
BY SlotDisciplineHolds, NoDuplicates, LinksStayInTable, PTL DEF TableSound

-----------------------------------------------------------------------------
(* Type correctness of the whole state.                                    *)

\* Taking a notification off a queue leaves queues of notifications.
LEMMA ConsumeType ==
  ASSUME TypeOK, NEW d \in Device, up[d] # <<>>
  PROVE  Consume(d) \in [Device -> Seq(Items)]
BY DEF TypeOK, Consume

\* A REGISTRATION command leaves the keys and queues of the devices well typed.
LEMMA DeviceRegistersType ==
  ASSUME TypeOK, NEW c \in Device, NEW g \in 0 .. MaxKey, NEW q \in [Device -> Seq(Items)],
         DeviceRegisters(c, g, q)
  PROVE  key' \in [Device -> Secret \cup {None}] /\ up' \in [Device -> Seq(Items)]
<1>1. [dev |-> c, gen |-> g] \in Secret
  BY TableAssumption DEF Secret
<1>2. Append(q[c], "REGISTRATION") \in Seq(Items)
  BY DEF Items
<1>3. key \in [Device -> Secret \cup {None}]
  BY DEF TypeOK
<1>4. CASE key[c] = None /\ phase[c] # "idle"
  <2>1. /\ key' = [key EXCEPT ![c] = [dev |-> c, gen |-> g]]
        /\ up' = [q EXCEPT ![c] = Append(q[c], "REGISTRATION")]
    BY <1>4 DEF DeviceRegisters
  <2>. QED  BY <1>1, <1>2, <1>3, <2>1
<1>5. CASE ~(key[c] = None /\ phase[c] # "idle")
  BY <1>3, <1>5 DEF DeviceRegisters
<1>. QED  BY <1>4, <1>5

\* So does a login, which also leaves a token.
LEMMA SendLoginType ==
  ASSUME TypeOK, TableInv, NEW n \in Slot, NEW s \in Secret, NEW r \in Device \cup {None},
         NEW q \in [Device -> Seq(Items)], InUse(n), PeerFound(n), SendLogin(n, s, r, q)
  PROVE  /\ token' \in [Slot -> Token \cup {None}]
         /\ phase' \in [Device -> Progress]
         /\ up' \in [Device -> Seq(Items)]
<1>1. [secret |-> s, rnd |-> r] \in Token
  BY DEF Token
<1>2. conn_id[n] \in Device
  BY DEF TypeOK, PeerFound
<1>3. q[conn_id[n]] \o <<"LOGIN", "MECH_STATUS">> \in Seq(Items)
  BY <1>2 DEF Items
<1>. QED  BY <1>1, <1>2, <1>3 DEF TypeOK, SendLogin, DeviceLogsIn, Progress

\* esp_restart leaves the memory well typed.
LEMMA RebootType ==
  ASSUME TypeOK, Reboot,
         nvs' \in [Device -> NvsEntry \cup {None}],
         key' \in [Device -> Secret \cup {None}],
         faults' \in 0 .. MaxFaults
  PROVE  TypeOK'
BY TableAssumption DEF TypeOK, Reboot, Status, SSM_NOUSE, Progress

\* A save, complete, partial or failed, leaves well-typed entries in flash.
LEMMA SaveNvsType ==
  ASSUME TypeOK, NEW a \in Device, NEW s \in Secret, NEW u \in Device \cup {None},
         SaveNvs(a, s, u)
  PROVE  nvs' \in [Device -> NvsEntry \cup {None}] /\ faults' \in 0 .. MaxFaults
<1>1. nvs \in [Device -> NvsEntry \cup {None}] /\ faults \in 0 .. MaxFaults
  BY DEF TypeOK
<1>2. [secret |-> s, uuid |-> u, cipher |-> TRUE] \in NvsEntry
  BY DEF NvsEntry
<1>3. CASE /\ nvs' = [nvs EXCEPT ![a] = [secret |-> s, uuid |-> u, cipher |-> TRUE]]
           /\ UNCHANGED faults
  BY <1>1, <1>2, <1>3
<1>4. CASE /\ faults < MaxFaults /\ faults' = faults + 1
           /\ \E e \in PartlySaved(a, s, u) : nvs' = [nvs EXCEPT ![a] = e]
  <2>1. nvs[a] \in NvsEntry \cup {None}
    BY <1>1
  <2>2. nvs[a] # None => /\ nvs[a].secret \in Secret \cup {None}
                          /\ nvs[a].uuid \in Device \cup {None}
                          /\ nvs[a].cipher \in BOOLEAN
    BY <2>1 DEF NvsEntry
  <2>3. PartlySaved(a, s, u) \subseteq NvsEntry \cup {None}
    <3>1. CASE nvs[a] = None
      BY <3>1 DEF PartlySaved, NvsEntry
    <3>2. CASE nvs[a] # None
      BY <2>1, <2>2, <3>2 DEF PartlySaved, NvsEntry
    <3>. QED  BY <3>1, <3>2
  <2>4. nvs' \in [Device -> NvsEntry \cup {None}]
    BY <1>1, <1>4, <2>3
  <2>. QED  BY <1>1, <1>4, <2>4, TableAssumption
<1>. QED  BY <1>3, <1>4 DEF SaveNvs

\* Counting a slot keeps cnt_ssms, id and cnt_discovery in range.
LEMMA CountType ==
  ASSUME TypeOK, TableInv'
  PROVE  /\ cnt_ssms' \in 0 .. SSM_MAX_NUM + 1
         /\ addr' \in [Slot -> Device \cup {None}]
         /\ id' \in [Slot -> 0 .. SSM_MAX_NUM \cup {None}]
         /\ cnt_discovery' \in [Slot -> 0 .. CntCap]
         /\ connecting' \in [dev : Device, slot : Slot] \cup {None}
         /\ link' \in [Device -> Slot \cup {None}]
BY DEF TableInv, TableType

\* Advertisements keep the types.
LEMMA AdvertisesType ==
  ASSUME TypeOK, TableInv, TableInv', NEW d \in Device, Advertises(d)
  PROVE  TypeOK'
<1>. USE CountType, TableAssumption DEF TypeOK, slotVars, ram, gap, links
<1>1. CASE SeenAgain(d)
  BY <1>1 DEF SeenAgain
<1>2. CASE NewUnsupported(d)
  BY <1>2 DEF NewUnsupported
<1>3. CASE NewUnregistered(d)
  BY <1>3 DEF NewUnregistered, StartConnect, Candidate, Status, SSM_DISCONNECTED
<1>4. CASE NewRegistered(d)
  <2>1. nvs[d] # None => nvs[d].secret \in Secret \cup {None} /\ nvs[d].uuid \in Device \cup {None}
    BY DEF NvsEntry
  <2>2. /\ device_uuid' \in [Slot -> Device \cup {None}]
        /\ device_secret' \in [Slot -> Secret \cup {None}]
        /\ random_code' \in [Slot -> Device \cup {None}]
        /\ token' \in [Slot -> Token \cup {None}]
        /\ conn_id' \in [Slot -> Device \cup {None}]
        /\ scanning' \in BOOLEAN
    <3>1. CASE nvs[d] = None
      BY <1>4, <3>1 DEF NewRegistered
    <3>2. CASE nvs[d] # None
      <4>1. scanning' \in BOOLEAN
        BY <1>4, <3>2 DEF NewRegistered, StartConnect
      <4>2. \E c \in Device \cup {None} : conn_id' = [conn_id EXCEPT ![cnt_ssms] = c]
        BY <1>4, <3>2 DEF NewRegistered, Linked
      <4>3. /\ device_uuid' = [device_uuid EXCEPT
                  ![cnt_ssms] = IF nvs[d].uuid = None THEN @ ELSE nvs[d].uuid]
            /\ device_secret' = [device_secret EXCEPT
                  ![cnt_ssms] = IF nvs[d].secret = None THEN @ ELSE nvs[d].secret]
            /\ random_code' \in {random_code, [random_code EXCEPT ![cnt_ssms] = None]}
            /\ token' \in {token, [token EXCEPT ![cnt_ssms] = None]}
        BY <1>4, <3>2 DEF NewRegistered
      <4>4. device_uuid' \in [Slot -> Device \cup {None}]
        BY <2>1, <3>2, <4>3
      <4>5. device_secret' \in [Slot -> Secret \cup {None}]
        BY <2>1, <3>2, <4>3
      <4>6. /\ token' \in [Slot -> Token \cup {None}]
            /\ random_code' \in [Slot -> Device \cup {None}]
        BY <4>3
      <4>7. conn_id' \in [Slot -> Device \cup {None}]
        BY <4>2
      <4>. QED  BY <4>1, <4>4, <4>5, <4>6, <4>7
    <3>. QED  BY <3>1, <3>2
  <2>. QED  BY <1>4, <2>2 DEF NewRegistered
<1>. QED  BY <1>1, <1>2, <1>3, <1>4 DEF Advertises

\* Notifications keep the types.
LEMMA NotifiedType ==
  ASSUME TypeOK, TableInv, TableInv', NEW d \in Device, NEW n \in Slot, Notified(d, n)
  PROVE  TypeOK'
<1>. USE CountType, TableAssumption DEF slotVars, ram, gap, links
<1>1. \A item : Receives(d, n, item) => Consume(d) \in [Device -> Seq(Items)] /\ InUse(n)
  BY ConsumeType DEF Receives, InUse
<1>2. InUse(n) => addr[n] \in Device
  BY DEF TableInv, TableType, LinksInTable
<1>3. SharedSecret(d, n) \in Secret
  BY DEF SharedSecret, Secret, TypeOK
<1>4. PeerFound(n) => conn_id[n] \in Device
  BY DEF PeerFound, TypeOK
<1>5. CASE InitialRegister(d, n)
  <2>1. ecc_private_esp32' \in 0 .. MaxKey /\ ecc_private_esp32 + 1 \in 0 .. MaxKey
    BY <1>5 DEF InitialRegister, SendRegistration, TypeOK
  <2>2. key' \in [Device -> Secret \cup {None}] /\ up' \in [Device -> Seq(Items)]
    BY <1>1, <1>4, <1>5, <2>1, DeviceRegistersType DEF InitialRegister, SendRegistration
  <2>. QED  BY <1>5, <2>1, <2>2 DEF InitialRegister, TypeOK, ScanUnless
<1>6. CASE InitialLogin(d, n)
  <2>1. device_secret[n] \in Secret
    BY <1>6 DEF InitialLogin, NoSecret, TypeOK
  <2>2. /\ token' \in [Slot -> Token \cup {None}]
        /\ phase' \in [Device -> Progress]
        /\ up' \in [Device -> Seq(Items)]
    BY <1>1, <1>6, <2>1, SendLoginType DEF InitialLogin
  <2>. QED  BY <1>6, <2>2 DEF InitialLogin, TypeOK, ScanUnless
<1>7. CASE RegistrationDone(d, n)
  <2>1. /\ token' \in [Slot -> Token \cup {None}]
        /\ phase' \in [Device -> Progress]
        /\ up' \in [Device -> Seq(Items)]
    BY <1>1, <1>3, <1>7, SendLoginType DEF RegistrationDone, TypeOK
  <2>2. nvs' \in [Device -> NvsEntry \cup {None}] /\ faults' \in 0 .. MaxFaults
    <3>1. addr[n] \in Device /\ device_uuid[n] \in Device \cup {None}
      BY <1>1, <1>2, <1>7 DEF RegistrationDone, TypeOK
    <3>2. SaveNvs(addr[n], SharedSecret(d, n), device_uuid[n])
      BY <1>7 DEF RegistrationDone
    <3>. QED  BY <1>3, <3>1, <3>2, SaveNvsType
  <2>3. /\ device_secret' \in [Slot -> Secret \cup {None}]
        /\ device_status' \in [Slot -> Status]
        /\ cnt_unregistered_ssms' \in Nat
        /\ scanning' \in BOOLEAN
    <3>1. SSM_LOGGIN \in Status /\ cnt_unregistered_ssms + 1 \in Nat
      BY DEF Status, SSM_LOGGIN, TypeOK
    <3>. QED  BY <1>3, <1>7, <3>1 DEF RegistrationDone, TypeOK, ScanUnless
  <2>. QED  BY <1>7, <2>1, <2>2, <2>3 DEF RegistrationDone, TypeOK
<1>8. CASE WriteWithoutPeer(d, n)
  <2>1. nvs' \in [Device -> NvsEntry \cup {None}] /\ faults' \in 0 .. MaxFaults
    <3>1. CASE Panic
      BY <3>1 DEF Panic, TypeOK
    <3>2. CASE Receives(d, n, "REGISTRATION") /\ SaveNvs(addr[n], SharedSecret(d, n), device_uuid[n])
      <4>1. addr[n] \in Device /\ device_uuid[n] \in Device \cup {None}
        BY <1>1, <1>2, <3>2 DEF TypeOK
      <4>. QED  BY <1>3, <3>2, <4>1, SaveNvsType
    <3>. QED  BY <1>8, <3>1, <3>2 DEF WriteWithoutPeer
  <2>2. Reboot /\ UNCHANGED key
    BY <1>8 DEF WriteWithoutPeer, Panic
  <2>. QED  BY <2>1, <2>2, RebootType DEF TypeOK
<1>9. CASE LoginDone(d, n)
  BY <1>1, <1>9 DEF LoginDone, TypeOK, ScanUnless, Status, SSM_LOGGIN
<1>10. CASE Garbled(d, n)
  BY <1>1, <1>10 DEF Garbled, TypeOK, ScanUnless
<1>11. CASE MechStatus(d, n)
  <2>1. scanning' \in BOOLEAN
    BY <1>11 DEF MechStatus
  <2>. QED  BY <1>1, <1>11, <2>1 DEF MechStatus, TypeOK, Status, SSM_LOCKED
<1>. QED  BY <1>5, <1>6, <1>7, <1>8, <1>9, <1>10, <1>11 DEF Notified

\* Links that go down keep the types.
LEMMA DisconnectedType ==
  ASSUME TypeOK, TableInv', NEW d \in Device, NEW n \in Slot,
         StayDisconnected(d, n) \/ ReconnectNow(d, n),
         key' \in [Device -> Secret \cup {None}], faults' \in 0 .. MaxFaults
  PROVE  TypeOK'
<1>1. /\ device_status' \in [Slot -> Status]
      /\ conn_id' \in [Slot -> Device \cup {None}]
      /\ phase' \in [Device -> Progress]
      /\ up' \in [Device -> Seq(Items)]
      /\ closing' \in [Device -> BOOLEAN]
      /\ disconnect_forever' \in [Slot -> BOOLEAN]
      /\ scanning' \in BOOLEAN
  <2>1. LinkDown(d, n) /\ SSM_DISCONNECTED \in Status /\ "discovering" \in Progress
    BY DEF StayDisconnected, ReconnectNow, Status, SSM_DISCONNECTED, Progress
  <2>2. disconnect_forever' \in [Slot -> BOOLEAN] /\ scanning' \in BOOLEAN
    BY DEF StayDisconnected, ReconnectNow, gap, TypeOK
  <2>3. up' \in [Device -> Seq(Items)]
    BY <2>1 DEF TypeOK, LinkDown
  <2>4. phase' \in [Device -> Progress] /\ closing' \in [Device -> BOOLEAN]
    BY <2>1 DEF TypeOK, LinkDown
  <2>5. device_status' \in [Slot -> Status] /\ conn_id' \in [Slot -> Device \cup {None}]
    BY <2>1 DEF TypeOK, LinkDown
  <2>. QED  BY <2>2, <2>3, <2>4, <2>5
<1>2. UNCHANGED <<product_type, device_uuid, device_secret, random_code, token,
                  mqtt_subscribe_done, ram, nvs>>
  BY DEF StayDisconnected, ReconnectNow, LinkDown
<1>. QED  BY <1>1, <1>2, CountType DEF TypeOK, ram

\* Links that come up keep the types.
LEMMA LinkUpType ==
  ASSUME TypeOK, TableInv', NEW d \in Device, LinkComes(d)
  PROVE  TypeOK'
<1>. USE CountType, TableAssumption DEF slotVars, ram, table
<1>1. PICK p \in Progress : LinkUp(d, p)
  BY DEF LinkComes, PeerRefused, DiscoveryRefused, Connected, Progress
<1>2. phase' \in [Device -> Progress] /\ SSM_CONNECTED \in Status
  BY <1>1 DEF LinkUp, TypeOK, Status, SSM_CONNECTED
<1>3. CASE PeerRefused(d)
  <2>1. /\ scanning' \in BOOLEAN /\ faults' \in 0 .. MaxFaults
        /\ device_status' = device_status /\ conn_id' = conn_id
    BY <1>3 DEF PeerRefused, TypeOK
  <2>. QED  BY <1>1, <1>2, <2>1 DEF LinkUp, TypeOK
<1>4. CASE DiscoveryRefused(d) \/ Connected(d)
  <2>1. /\ device_status' \in [Slot -> Status]
        /\ conn_id' \in [Slot -> Device \cup {None}]
        /\ scanning' \in BOOLEAN
    <3>1. /\ device_status \in [Slot -> Status] /\ conn_id \in [Slot -> Device \cup {None}]
          /\ scanning \in BOOLEAN
      BY DEF TypeOK
    <3>2. SlotConnected(d)
      BY <1>4 DEF DiscoveryRefused, Connected
    <3>. QED  BY <1>2, <3>1, <3>2 DEF SlotConnected
  <2>2. faults' \in 0 .. MaxFaults
    BY <1>4 DEF DiscoveryRefused, Connected, TypeOK
  <2>. QED  BY <1>1, <1>2, <2>1, <2>2 DEF LinkUp, TypeOK
<1>. QED  BY <1>3, <1>4 DEF LinkComes

\* Types are preserved by every step from a state that satisfies TableInv, whose
\* LinksInTable gives the address under which a registration is saved.
LEMMA TypeStep == TypeOK /\ TableInv /\ TableInv' /\ [Next]_vars => TypeOK'
<1>. SUFFICES ASSUME TypeOK, TableInv, TableInv', [Next]_vars  PROVE TypeOK'
  OBVIOUS
<1>. USE CountType, TableAssumption DEF slotVars, ram, gap, links, table
<1>1. CASE ConnectFailed
  BY <1>1 DEF ConnectFailed, TypeOK
<1>2. CASE PowerCut
  <2>1. Reboot /\ UNCHANGED <<nvs, key>> /\ faults < MaxFaults /\ faults' = faults + 1
    BY <1>2 DEF PowerCut
  <2>2. /\ nvs' \in [Device -> NvsEntry \cup {None}]
        /\ key' \in [Device -> Secret \cup {None}]
    BY <2>1 DEF TypeOK
  <2>3. faults' \in 0 .. MaxFaults
    BY <2>1 DEF TypeOK
  <2>. QED  BY <2>1, <2>2, <2>3, RebootType
<1>3. ASSUME NEW d \in Device, DeviceStep(d)  PROVE TypeOK'
  <2>1. CASE Advertises(d)
    BY <2>1, AdvertisesType
  <2>2. CASE LinkComes(d)
    BY <2>2, LinkUpType
  <2>3. CASE NotifyEnabled(d)
    BY <2>3 DEF NotifyEnabled, TypeOK, Items, Progress
  <2>4. CASE DiscoveryFailed(d)
    BY <2>4 DEF DiscoveryFailed, TypeOK
  <2>5. CASE Publish(d)
    BY <2>5 DEF Publish, TypeOK, Items
  <2>6. CASE DeviceReset(d)
    <3>1. key' \in [Device -> Secret \cup {None}] /\ faults' \in 0 .. MaxFaults
      BY <2>6 DEF DeviceReset, TypeOK
    <3>2. CASE UNCHANGED <<table, slotVars, ram, nvs, gap, links>>
      BY <3>1, <3>2 DEF TypeOK
    <3>3. CASE \E n \in Slot : StayDisconnected(d, n)
      BY <3>1, <3>3, DisconnectedType
    <3>4. CASE Reboot /\ UNCHANGED nvs
      BY <3>1, <3>4, RebootType DEF TypeOK
    <3>. QED  BY <2>6, <3>2, <3>3, <3>4 DEF DeviceReset
  <2>7. ASSUME NEW n \in Slot, Notified(d, n)  PROVE TypeOK'
    BY <2>7, NotifiedType
  <2>8. ASSUME NEW n \in Slot, Disconnected(d, n)  PROVE TypeOK'
    <3>1. key' \in [Device -> Secret \cup {None}] /\ faults' \in 0 .. MaxFaults
      BY <2>8 DEF Disconnected, TypeOK
    <3>. QED  BY <2>8, <3>1, DisconnectedType DEF Disconnected
  <2>. QED  BY <1>3, <2>1, <2>2, <2>3, <2>4, <2>5, <2>6, <2>7, <2>8 DEF DeviceStep, LinkComes
<1>4. CASE UNCHANGED vars
  BY <1>4 DEF vars, TypeOK
<1>. QED  BY <1>1, <1>2, <1>3, <1>4 DEF Next

\* The program boots well typed, whatever flash holds.
LEMMA InitType == Init => TypeOK
<1>. SUFFICES ASSUME Init  PROVE TypeOK
  OBVIOUS
<1>1. nvs \in [Device -> NvsEntry \cup {None}]
  <2>1. [dev : Device, gen : {0}] \subseteq Secret
    BY TableAssumption DEF Secret
  <2>2. [secret : [dev : Device, gen : {0}], uuid : Device, cipher : {TRUE}] \subseteq NvsEntry
    BY <2>1 DEF NvsEntry
  <2>. QED  BY <2>2 DEF Init
<1>2. key \in [Device -> Secret \cup {None}]
  BY TableAssumption DEF Init, Secret
<1>3. /\ "discovering" \in Progress /\ SSM_NOUSE \in Status
      /\ 0 \in 0 .. MaxKey /\ 0 \in 0 .. CntCap /\ 0 \in 0 .. MaxFaults
      /\ 0 \in 0 .. SSM_MAX_NUM + 1
  BY TableAssumption DEF Progress, Status, SSM_NOUSE
<1>. QED  BY <1>1, <1>2, <1>3 DEF Init, TypeOK

\* Every state of the host task, the GAP procedures, the flash and the devices
\* is well typed, for all values of the constants.
THEOREM TypeCorrect == Spec => []TypeOK
BY InitType, TypeStep, TableInvariant, PTL DEF Spec

-----------------------------------------------------------------------------
(* The refinement of Registry, and what no step may do to a counted slot.  *)

\* How one step changes the table: a reboot, a new candidate address, or the
\* candidate counted.
TableChange ==
  \/ cnt_ssms' = 0
  \/ /\ cnt_ssms' = cnt_ssms
     /\ \A n \in Counted : addr'[n] = addr[n] /\ id'[n] = id[n]
  \/ /\ cnt_ssms \in Slot /\ cnt_ssms' = cnt_ssms + 1 /\ addr' = addr
     /\ \A n \in Counted : id'[n] = id[n]

\* CountSlot appends one slot or leaves the counted ones alone.
LEMMA CountChange ==
  ASSUME TableInv, NEW n \in Slot, InUse(n), CountSlot(n), UNCHANGED addr
  PROVE  TableChange
<1>1. n <= cnt_ssms /\ (n < cnt_ssms => cnt_discovery[n] # 0)
  BY DEF TableInv, TableType, LinksInTable, SlotDiscipline, Slot
<1>. QED  BY SMTT(30), <1>1, TableAssumption DEF TableChange, CountSlot, TableInv, TableType, Slot, Counted

\* No step does more to the counted slots than forget them all or append one.
LEMMA StepChange == TableInv /\ [Next]_vars => TableChange
<1>. SUFFICES ASSUME TableInv, [Next]_vars  PROVE TableChange
  OBVIOUS
<1>1. CASE UNCHANGED table
  BY <1>1 DEF TableChange, table
<1>2. CASE Reboot
  BY <1>2 DEF TableChange, Reboot
<1>3. ASSUME NEW d \in Device, Advertises(d)  PROVE TableChange
  <2>1. CASE SeenAgain(d)
    BY <2>1 DEF SeenAgain, TableChange
  <2>2. CASE Candidate(d) /\ UNCHANGED <<cnt_ssms, id>>
    BY <2>2, TableAssumption DEF Candidate, TableChange, Counted, TableInv, TableType
  <2>. QED  BY <1>3, <2>1, <2>2 DEF Advertises, NewUnsupported, NewUnregistered, NewRegistered
<1>4. ASSUME NEW d \in Device, NEW n \in Slot, Notified(d, n)  PROVE TableChange
  <2>1. \A item : Receives(d, n, item) => InUse(n)
    BY DEF Receives, InUse
  <2>2. CASE InitialLogin(d, n) \/ RegistrationDone(d, n)
    BY <2>1, <2>2, CountChange DEF InitialLogin, RegistrationDone, SendLogin
  <2>3. CASE WriteWithoutPeer(d, n)
    BY <1>2, <2>3 DEF WriteWithoutPeer, Panic
  <2>. QED  BY <1>1, <1>4, <2>2, <2>3
       DEF Notified, InitialRegister, LoginDone, Garbled, MechStatus
<1>5. ASSUME NEW d \in Device, DeviceReset(d)  PROVE TableChange
  BY <1>1, <1>2, <1>5 DEF DeviceReset, StayDisconnected, LinkDown
<1>6. CASE UNCHANGED vars
  BY <1>1, <1>6 DEF vars
<1>7. CASE ConnectFailed \/ PowerCut
  BY <1>1, <1>2, <1>7 DEF ConnectFailed, PowerCut
<1>8. ASSUME NEW d \in Device,
             LinkComes(d) \/ NotifyEnabled(d) \/ DiscoveryFailed(d) \/ Publish(d)
      PROVE  TableChange
  BY <1>1, <1>8 DEF LinkComes, PeerRefused, DiscoveryRefused, Connected, LinkUp, NotifyEnabled, DiscoveryFailed, Publish
<1>9. ASSUME NEW d \in Device, NEW n \in Slot, Disconnected(d, n)  PROVE TableChange
  BY <1>1, <1>9 DEF Disconnected, StayDisconnected, ReconnectNow, LinkDown
<1>. QED  BY <1>3, <1>4, <1>5, <1>6, <1>7, <1>8, <1>9 DEF Next, DeviceStep, LinkComes

\* Only a reboot moves or drops a counted device, whatever advertisements,
\* connections and failures interleave.
THEOREM CountedSlotsStable == Spec => CountedSlotsAreStable
<1>1. TableInv /\ [Next]_vars =>
        [cnt_ssms' = 0 \/ \A n \in Counted :
            n < cnt_ssms' /\ addr'[n] = addr[n] /\ id'[n] = id[n]]_vars
  <2>. SUFFICES ASSUME TableInv, TableChange
                PROVE  cnt_ssms' = 0 \/ \A n \in Counted :
                         n < cnt_ssms' /\ addr'[n] = addr[n] /\ id'[n] = id[n]
    BY StepChange
  <2>. QED  BY TableAssumption DEF TableChange, Counted, TableInv, TableType
<1>. QED  BY <1>1, TableInvariant, PTL DEF Spec, CountedSlotsAreStable

\* The list in front of the candidate slot, as a sequence.
LEMMA KnownSeq ==
  ASSUME TableInv
  PROVE  /\ known \in Seq(Device) /\ Len(known) = cnt_ssms
         /\ \A i \in 1 .. cnt_ssms : known[i] = addr[i - 1]
<1>1. \A i \in 1 .. cnt_ssms : addr[i - 1] \in Device
  BY TableAssumption DEF TableInv, TableType, CountedHaveAddress, Slot
<1>2. cnt_ssms \in Nat
  BY TableAssumption DEF TableInv, TableType
<1>. QED  BY <1>1, <1>2 DEF known

\* The slot table implements the list of known devices: a device is appended
\* when it is counted, only if it is not yet in the list, and never leaves it but
\* by a reboot.
THEOREM ImplementsRegistry == Spec => RegistrySpec
<1>1. Init => R!Init
  BY DEF Init, R!Init, known
<1>2. TableInv /\ TableInv' /\ [Next]_vars => [R!Next]_known
  <2>. SUFFICES ASSUME TableInv, TableInv', TableChange
                PROVE  R!Next \/ UNCHANGED known
    BY StepChange
  <2>1. /\ known \in Seq(Device) /\ Len(known) = cnt_ssms
        /\ \A i \in 1 .. cnt_ssms : known[i] = addr[i - 1]
    BY KnownSeq
  <2>2. cnt_ssms \in Nat /\ cnt_ssms <= SSM_MAX_NUM + 1
    BY TableAssumption DEF TableInv, TableType
  <2>3. CASE cnt_ssms' = 0
    <3>1. known' = <<>>
      BY <2>3 DEF known
    <3>. QED  BY <3>1 DEF R!Next, R!Reboot
  <2>4. CASE cnt_ssms' = cnt_ssms /\ \A n \in Counted : addr'[n] = addr[n]
    <3>1. \A i \in 1 .. cnt_ssms : addr'[i - 1] = addr[i - 1]
      BY <2>2, <2>4 DEF Counted
    <3>. QED  BY <2>4, <3>1 DEF known
  <2>5. CASE cnt_ssms \in Slot /\ cnt_ssms' = cnt_ssms + 1 /\ addr' = addr
    <3>. DEFINE d == addr[cnt_ssms]
    <3>1. d \in Device
      <4>1. addr'[cnt_ssms] # None
        BY <2>2, <2>5 DEF TableInv, CountedHaveAddress
      <4>. QED  BY <2>5, <4>1 DEF TableInv, TableType
    <3>2. ~R!IsKnown(d)
      BY <2>1, <2>2, <2>5, <3>1, TableAssumption
      DEF R!IsKnown, TableInv, FreshCandidate, Slot
    <3>3. known' = Append(known, d)
      <4>1. known' = [i \in 1 .. cnt_ssms + 1 |-> addr[i - 1]]
        BY <2>5 DEF known
      <4>2. \A i \in 1 .. cnt_ssms + 1 : addr[i - 1] \in Device
        <5>1. \A n \in Slot : n < cnt_ssms => addr[n] \in Device
          BY DEF TableInv, TableType, CountedHaveAddress
        <5>. QED  BY <2>2, <2>5, <3>1, <5>1, TableAssumption DEF Slot
      <4>3. /\ known' \in Seq(Device) /\ Len(known') = cnt_ssms + 1
            /\ \A i \in 1 .. cnt_ssms + 1 : known'[i] = addr[i - 1]
        BY <2>2, <4>1, <4>2
      <4>4. /\ Append(known, d) \in Seq(Device) /\ Len(Append(known, d)) = cnt_ssms + 1
            /\ \A i \in 1 .. cnt_ssms + 1 : Append(known, d)[i] = addr[i - 1]
        BY <2>1, <2>2, <3>1, AppendProperties
      <4>5. Len(known') = Len(Append(known, d))
            /\ \A i \in 1 .. Len(known') : known'[i] = Append(known, d)[i]
        BY <2>2, <4>3, <4>4
      <4>. QED  BY <4>3, <4>4, <4>5, SeqEqual
    <3>. QED  BY <3>1, <3>2, <3>3 DEF R!Next, R!Add
  <2>. QED  BY <2>3, <2>4, <2>5 DEF TableChange
<1>. QED  BY <1>1, <1>2, TableInvariant, PTL DEF Spec, RegistrySpec, R!Spec

\* The array of ssm_init is never left, as long as no more devices are in range
\* than it has slots; the code itself has no check.
THEOREM EnoughSlots ==
  ASSUME IsFiniteSet(Device), Cardinality(Device) <= SSM_MAX_NUM
  PROVE  Spec => []InBounds
<1>1. TableInv => InBounds
  <2>. SUFFICES ASSUME TableInv, ~InBounds  PROVE FALSE
    OBVIOUS
  <2>1. \A n \in Slot : n <= cnt_ssms /\ addr[n] \in Device
    <3>1. SSM_MAX_NUM \in Slot /\ cnt_ssms \in Nat
      BY TableAssumption DEF Slot, TableInv, TableType
    <3>2. SSM_MAX_NUM <= cnt_ssms
      BY <3>1, TableAssumption DEF InBounds, TableInv, TableType, CountedHaveAddress
    <3>3. \A n \in Slot : addr[n] # None
      BY <3>1, <3>2, TableAssumption DEF InBounds, TableInv, TableType, CountedHaveAddress, Slot
    <3>4. \A n \in Slot : n <= cnt_ssms
      BY <3>1, <3>2, TableAssumption DEF Slot
    <3>5. \A n \in Slot : addr[n] \in Device
      BY <3>3 DEF TableInv, TableType
    <3>. QED  BY <3>4, <3>5
  <2>2. addr \in Injection(Slot, Device)
    <3>1. addr \in [Slot -> Device]
      BY <2>1 DEF TableInv, TableType
    <3>2. cnt_ssms \in Nat /\ \A n \in Slot : n \in Nat
      BY TableAssumption DEF TableInv, TableType, Slot
    <3>3. \A m, n \in Slot : addr[m] = addr[n] => m = n
      BY <2>1, <3>2, TableAssumption DEF TableInv, FreshCandidate
    <3>. QED  BY <3>1, <3>3 DEF Injection, IsInjective
  <2>3. Cardinality(Slot) <= Cardinality(Device)
    BY <2>2, FS_Injection
  <2>4. Cardinality(Slot) = SSM_MAX_NUM + 1
    BY FS_Interval, TableAssumption DEF Slot
  <2>5. Cardinality(Device) \in Nat
    BY FS_CardinalityType
  <2>. QED  BY <2>3, <2>4, <2>5, TableAssumption
<1>. QED  BY <1>1, TableInvariant, PTL

-----------------------------------------------------------------------------
(* The host task never goes deaf: why a step that leaves no scan and no    *)
(* attempt to connect always leaves a link on which something is due.      *)

\* The radio either scans or connects: ble_gap_connect is only called on a
\* cancelled scan.
OneProcedure == scanning => connecting = None

\* An attempt connects to the device whose address its slot holds.
Dialled == connecting # None => addr[connecting.slot] = connecting.dev

\* A linked device that has a slot is linked through it: a slot does not take the
\* address of another linked device.
OwnSlot == \A d \in Device, n \in Slot : link[d] # None /\ addr[n] = d => link[d] = n

\* Only a slot that counts as connected is dismissed, and such a slot has a link.
Dismissals ==
  \A n \in Slot :
    /\ disconnect_forever[n] => device_status[n] > SSM_DISCONNECTED
    /\ device_status[n] > SSM_DISCONNECTED => \E d \in Device : link[d] = n

\* The connections and the attempt at one more fit into the controller.
Pending == IF connecting = None THEN 0 ELSE 1
WithinController == IsFiniteSet(Linked) /\ Cardinality(Linked) + Pending <= MaxConn

\* The end of d's link will be followed by an attempt to reconnect, or by that of
\* another link through the same slot.
WillReconnect(d) ==
  /\ link[d] # None
  /\ ~disconnect_forever[link[d]] \/ \E e \in Device \ {d} : link[e] = link[d]

\* What NeverDeaf allows instead of a scan and an attempt to connect.
Expected(d) == Due(d) \/ Undiscovered(d) \/ Orphaned(d)

\* Strengthens NeverDeaf: the link that is left must be one that reconnects.
Awake ==
  scanning \/ connecting # None \/ \E d \in Device : Expected(d) /\ WillReconnect(d)

AwakeInv ==
  /\ OneProcedure
  /\ Dialled
  /\ OwnSlot
  /\ Dismissals
  /\ WithinController
  /\ Awake

\* The parts of the type invariant this argument needs.
LEMMA AwakeTypes ==
  ASSUME TypeOK
  PROVE  /\ scanning \in BOOLEAN
         /\ disconnect_forever \in [Slot -> BOOLEAN]
         /\ device_status \in [Slot -> Status]
         /\ link \in [Device -> Slot \cup {None}]
         /\ addr \in [Slot -> Device \cup {None}]
         /\ connecting \in [dev : Device, slot : Slot] \cup {None}
         /\ None \notin Slot
BY TableAssumption DEF TypeOK, Slot

\* A step that keeps the links, the addresses and the attempt to connect, raises the
\* status of linked slots only, and resumes the scan or keeps what is expected of links.
LEMMA QuietAwake ==
  ASSUME TypeOK, AwakeInv, UNCHANGED <<addr, link, connecting, disconnect_forever>>,
         \A n \in Slot : \/ device_status'[n] = device_status[n]
                         \/ /\ device_status'[n] > SSM_DISCONNECTED
                            /\ \E d \in Device : link[d] = n
                         \/ /\ ~(device_status[n] > SSM_DISCONNECTED)
                            /\ ~(device_status'[n] > SSM_DISCONNECTED),
         \/ scanning' = ScanUnless(connecting)
         \/ scanning' = scanning /\ \A w \in Device : Expected(w) => Expected(w)'
  PROVE  AwakeInv'
<1>1. /\ (scanning => scanning') /\ (scanning' /\ ~scanning => connecting = None)
      /\ \/ scanning' \/ connecting # None
         \/ \A w \in Device : Expected(w) => Expected(w)'
  <2>1. scanning \in BOOLEAN
    BY AwakeTypes
  <2>2. CASE scanning' = ScanUnless(connecting)
    BY <2>1, <2>2 DEF ScanUnless
  <2>3. CASE scanning' = scanning /\ \A w \in Device : Expected(w) => Expected(w)'
    BY <2>3
  <2>. QED  BY <2>2, <2>3
<1>2. OneProcedure' /\ Dialled' /\ OwnSlot' /\ WithinController'
  BY <1>1 DEF AwakeInv, OneProcedure, Dialled, OwnSlot, WithinController, Linked, Pending
<1>3. Dismissals'
  BY DEF AwakeInv, Dismissals
<1>4. Awake'
  <2>1. \A w \in Device : WillReconnect(w) => WillReconnect(w)'
    BY DEF WillReconnect
  <2>. QED  BY <1>1, <2>1 DEF AwakeInv, Awake
<1>. QED  BY <1>2, <1>3, <1>4 DEF AwakeInv

\* Nothing less is expected of a link when only what waits on links grows.
LEMMA ExpectedStays ==
  ASSUME UNCHANGED <<link, device_status>>, NEW w \in Device,
         closing[w] => closing'[w],
         up[w] # <<>> => up'[w] # <<>>,
         phase'[w] = phase[w] \/ closing'[w] \/ up'[w] # <<>>
  PROVE  Expected(w) => Expected(w)'
BY DEF Expected, Due, Undiscovered, Orphaned

\* After a reboot nothing is linked, dismissed or dialled, and the scan is on.
LEMMA RebootAwake == Reboot => AwakeInv'
<1>. SUFFICES ASSUME Reboot  PROVE AwakeInv'
  OBVIOUS
<1>1. Linked' = {}
  BY DEF Reboot, Linked
<1>2. WithinController'
  BY <1>1, FS_EmptySet, TableAssumption DEF Reboot, WithinController, Pending
<1>3. Dismissals'
  BY DEF Reboot, Dismissals, SSM_DISCONNECTED, SSM_NOUSE
<1>4. OneProcedure' /\ Dialled' /\ OwnSlot' /\ Awake'
  BY DEF Reboot, OneProcedure, Dialled, OwnSlot, Awake
<1>. QED  BY <1>2, <1>3, <1>4 DEF AwakeInv

\* So it is initially.
LEMMA InitAwake == Init => AwakeInv
<1>. SUFFICES ASSUME Init  PROVE AwakeInv
  OBVIOUS
<1>1. Linked = {}
  BY DEF Init, Linked
<1>2. WithinController
  BY <1>1, FS_EmptySet, TableAssumption DEF Init, WithinController, Pending
<1>3. Dismissals
  BY DEF Init, Dismissals, SSM_DISCONNECTED, SSM_NOUSE
<1>4. OneProcedure /\ Dialled /\ OwnSlot /\ Awake
  BY DEF Init, OneProcedure, Dialled, OwnSlot, Awake
<1>. QED  BY <1>2, <1>3, <1>4 DEF AwakeInv

\* An advertisement gives the candidate slot the address of a device without a link;
\* it is only reported while nothing is dialled.
LEMMA CandidateAwake ==
  ASSUME TypeOK, AwakeInv, NEW d \in Device, Candidate(d),
         UNCHANGED <<link, disconnect_forever>>,
         StartConnect(d, cnt_ssms) \/ UNCHANGED gap,
         \A n \in Slot : \/ device_status'[n] = device_status[n]
                         \/ /\ ~(device_status[n] > SSM_DISCONNECTED)
                            /\ ~(device_status'[n] > SSM_DISCONNECTED)
  PROVE  AwakeInv'
<1>. USE AwakeTypes
<1>1. /\ scanning /\ connecting = None /\ link[d] = None
      /\ addr' = [addr EXCEPT ![cnt_ssms] = d] /\ cnt_ssms \in Slot
  BY DEF Candidate, AwakeInv, OneProcedure
<1>2. \/ connecting' = None /\ scanning' = scanning
      \/ /\ Cardinality(Linked) < MaxConn /\ scanning' = FALSE
         /\ connecting' = [dev |-> d, slot |-> cnt_ssms]
  BY <1>1 DEF StartConnect, gap
<1>3. connecting' # None => connecting'.dev = d /\ connecting'.slot = cnt_ssms
  BY <1>2
<1>4. OneProcedure'
  BY <1>1, <1>2 DEF OneProcedure
<1>5. Dialled'
  BY <1>1, <1>3 DEF Dialled
<1>6. OwnSlot'
  BY <1>1 DEF AwakeInv, OwnSlot
<1>7. Dismissals'
  BY DEF AwakeInv, Dismissals
<1>8. WithinController'
  <2>1. Linked' = Linked /\ Cardinality(Linked) <= MaxConn /\ IsFiniteSet(Linked)
    BY <1>1, FS_CardinalityType, TableAssumption DEF AwakeInv, WithinController, Pending, Linked
  <2>2. Cardinality(Linked) \in Nat
    BY <2>1, FS_CardinalityType
  <2>3. \/ Pending' = 0
        \/ Pending' = 1 /\ Cardinality(Linked) < MaxConn
    BY <1>2 DEF Pending
  <2>4. Cardinality(Linked) + Pending' <= MaxConn
    BY <2>1, <2>2, <2>3, TableAssumption
  <2>. QED  BY <2>1, <2>4 DEF WithinController
<1>9. Awake'
  <2>1. [dev |-> d, slot |-> cnt_ssms] # None
    BY <1>1, NoneAssumption, TableAssumption DEF Slot
  <2>2. scanning' \/ connecting' # None
    BY <1>1, <1>2, <2>1
  <2>. QED  BY <2>2 DEF Awake
<1>. QED  BY <1>4, <1>5, <1>6, <1>7, <1>8, <1>9 DEF AwakeInv

\* Advertisements, of known devices and of candidates.
LEMMA AdvertisesAwake ==
  ASSUME TypeOK, AwakeInv, NEW d \in Device, Advertises(d)
  PROVE  AwakeInv'
<1>1. CASE SeenAgain(d)
  <2>1. \A w \in Device : Expected(w) => Expected(w)'
    BY <1>1, ExpectedStays DEF SeenAgain, slotVars, links
  <2>. QED  BY <1>1, <2>1, QuietAwake DEF SeenAgain, slotVars, gap, links
<1>2. CASE NewUnsupported(d)
  BY <1>2, CandidateAwake DEF NewUnsupported, slotVars, gap, links
<1>3. CASE NewUnregistered(d)
  <2>1. \A n \in Slot : \/ device_status'[n] = device_status[n]
                         \/ /\ ~(device_status[n] > SSM_DISCONNECTED)
                            /\ ~(device_status'[n] > SSM_DISCONNECTED)
    BY <1>3, AwakeTypes DEF NewUnregistered, SSM_NOUSE, SSM_DISCONNECTED
  <2>. QED  BY <1>3, <2>1, CandidateAwake DEF NewUnregistered, links
<1>4. CASE NewRegistered(d)
  BY <1>4, CandidateAwake DEF NewRegistered, slotVars, gap, links
<1>. QED  BY <1>1, <1>2, <1>3, <1>4 DEF Advertises

\* A new link goes through the slot with its device's address.  If that slot has been
\* dismissed, another link through it is still up.
LEMMA ConnectedAwake ==
  ASSUME TypeOK, TableInv, AwakeInv, NEW d \in Device, LinkComes(d)
  PROVE  AwakeInv'
<1>. USE AwakeTypes
<1>. DEFINE n == connecting.slot
<1>0. PICK p \in Progress : LinkUp(d, p)
  BY DEF LinkComes, PeerRefused, DiscoveryRefused, Connected, Progress
<1>1. /\ connecting # None /\ n \in Slot /\ addr[n] = d /\ link[d] = None
      /\ n # None /\ d # None /\ ~scanning
  BY <1>0, TableAssumption DEF LinkUp, AwakeInv, Dialled, OneProcedure
<1>2. /\ connecting' = None /\ addr' = addr
      /\ disconnect_forever' = disconnect_forever
      /\ link' = [link EXCEPT ![d] = n]
      /\ \/ scanning' /\ device_status' = device_status
         \/ /\ phase'[d] \in {"idle", "discovering"}
            /\ device_status' = [device_status EXCEPT ![n] = SSM_CONNECTED]
  <2>1. /\ connecting' = None /\ addr' = addr
        /\ disconnect_forever' = disconnect_forever
        /\ link' = [link EXCEPT ![d] = n]
    BY <1>0 DEF LinkUp, table
  <2>2. CASE PeerRefused(d)
    BY <2>1, <2>2 DEF PeerRefused
  <2>3. CASE DiscoveryRefused(d) \/ Connected(d)
    <3>1. phase'[d] \in {"idle", "discovering"}
      BY <2>3 DEF DiscoveryRefused, Connected, LinkUp, TypeOK
    <3>2. device_status' = [device_status EXCEPT ![n] = SSM_CONNECTED]
      BY <2>3 DEF DiscoveryRefused, Connected, SlotConnected
    <3>. QED  BY <2>1, <3>1, <3>2
  <2>. QED  BY <2>2, <2>3 DEF LinkComes
<1>. HIDE DEF n
<1>3. OneProcedure' /\ Dialled'
  BY <1>2 DEF OneProcedure, Dialled
<1>4. OwnSlot'
  <2>1. \A m \in Slot : addr[m] = d => m = n
    <3>1. \A m \in Slot : addr[m] # None => m <= cnt_ssms
      BY TableAssumption DEF TableInv, TableType, CountedHaveAddress, Slot
    <3>. QED  BY <1>1, <3>1 DEF TableInv, FreshCandidate
  <2>. QED  BY <1>1, <1>2, <2>1 DEF AwakeInv, OwnSlot
<1>5. Dismissals'
  <2>1. link'[d] = n
    BY <1>1, <1>2
  <2>2. \A m \in Slot : m # n => device_status'[m] = device_status[m]
    BY <1>1, <1>2
  <2>3. \A m \in Slot, e \in Device : link[e] = m => link'[e] = m
    BY <1>1, <1>2
  <2>4. device_status'[n] = device_status[n] \/ device_status'[n] > SSM_DISCONNECTED
    BY <1>1, <1>2 DEF SSM_CONNECTED, SSM_DISCONNECTED
  <2>. QED  BY <1>2, <2>1, <2>2, <2>3, <2>4 DEF AwakeInv, Dismissals
<1>6. WithinController'
  <2>1. Linked' = Linked \cup {d} /\ d \notin Linked
    BY <1>1, <1>2 DEF Linked
  <2>2. IsFiniteSet(Linked) /\ Cardinality(Linked) + 1 <= MaxConn
    BY <1>1 DEF AwakeInv, WithinController, Pending
  <2>3. IsFiniteSet(Linked') /\ Cardinality(Linked') = Cardinality(Linked) + 1
    BY <2>1, <2>2, FS_AddElement
  <2>4. Cardinality(Linked) \in Nat /\ Pending' = 0
    BY <1>2, <2>2, FS_CardinalityType DEF Pending
  <2>5. Cardinality(Linked') + Pending' <= MaxConn
    BY <2>2, <2>3, <2>4, TableAssumption
  <2>. QED  BY <2>3, <2>5 DEF WithinController
<1>7. Awake'
  <2>1. link'[d] = n /\ link'[d] # None
    BY <1>1, <1>2
  <2>2. CASE scanning'
    BY <2>2 DEF Awake
  <2>3. CASE ~scanning'
    <3>1. Expected(d)'
      BY <1>2, <2>1, <2>3 DEF Expected, Due, Undiscovered
    <3>2. CASE ~disconnect_forever[n]
      BY <1>2, <2>1, <3>1, <3>2 DEF Awake, WillReconnect
    <3>3. CASE disconnect_forever[n]
      <4>1. PICK e \in Device : link[e] = n
        BY <1>1, <3>3 DEF AwakeInv, Dismissals
      <4>2. e # d /\ link'[e] = n
        BY <1>1, <1>2, <4>1
      <4>. QED  BY <2>1, <3>1, <4>2 DEF Awake, WillReconnect
    <3>. QED  BY <3>2, <3>3
  <2>. QED  BY <2>2, <2>3
<1>. QED  BY <1>3, <1>4, <1>5, <1>6, <1>7 DEF AwakeInv

\* A link that ends: what LinkDown does to the parts of the invariant.
LEMMA LinkDownAwake ==
  ASSUME TypeOK, AwakeInv, NEW d \in Device, NEW n \in Slot, LinkDown(d, n)
  PROVE  /\ link[d] = n /\ addr' = addr
         /\ \A e \in Device : e # d => link'[e] = link[e]
         /\ link'[d] = None
         /\ OwnSlot'
         /\ Linked' = Linked \ {d} /\ IsFiniteSet(Linked')
         /\ Cardinality(Linked') \in Nat /\ Cardinality(Linked') + 1 = Cardinality(Linked)
         /\ \A e \in Device : link'[e] = n => Expected(e)'
         /\ \A e \in Device : e # d /\ link[e] # n /\ Expected(e) => Expected(e)'
         /\ \A m \in Slot : device_status'[m] > SSM_DISCONNECTED =>
              m # n /\ \E e \in Device : link'[e] = m
<1>. USE AwakeTypes
<1>1. /\ link[d] = n /\ addr' = addr
      /\ link' = [link EXCEPT ![d] = None]
      /\ device_status' = [device_status EXCEPT ![n] = SSM_DISCONNECTED]
  BY DEF LinkDown, table
<1>2. (\A e \in Device : e # d => link'[e] = link[e]) /\ link'[d] = None
  BY <1>1
<1>3. OwnSlot'
  BY <1>1, <1>2 DEF AwakeInv, OwnSlot
<1>7. \A e \in Device : link'[e] = n => Expected(e)'
  BY <1>1 DEF Expected, Orphaned
<1>8. \A e \in Device : e # d /\ link[e] # n /\ Expected(e) => Expected(e)'
  <2>. SUFFICES ASSUME NEW e \in Device, e # d, link[e] # n, Expected(e)  PROVE Expected(e)'
    OBVIOUS
  <2>1. closing'[e] = closing[e] /\ up'[e] = up[e] /\ phase'[e] = phase[e]
    BY DEF LinkDown, TypeOK
  <2>2. link[e] # None => device_status'[link[e]] = device_status[link[e]]
    BY <1>1
  <2>. QED  BY <1>2, <2>1, <2>2 DEF Expected, Due, Undiscovered, Orphaned
<1>4. Linked' = Linked \ {d} /\ d \in Linked
  BY <1>1, <1>2 DEF Linked
<1>5. /\ IsFiniteSet(Linked') /\ Cardinality(Linked') = Cardinality(Linked) - 1
      /\ Cardinality(Linked) \in Nat /\ Cardinality(Linked') \in Nat
  <2>1. IsFiniteSet(Linked)
    BY DEF AwakeInv, WithinController
  <2>2. IsFiniteSet(Linked \ {d}) /\ Cardinality(Linked \ {d}) = Cardinality(Linked) - 1
    BY <1>4, <2>1, FS_RemoveElement
  <2>3. IsFiniteSet(Linked') /\ Cardinality(Linked') = Cardinality(Linked) - 1
    BY <1>4, <2>2
  <2>. QED  BY <2>1, <2>3, FS_CardinalityType
<1>6. \A m \in Slot : device_status'[m] > SSM_DISCONNECTED =>
              m # n /\ \E e \in Device : link'[e] = m
  <2>. SUFFICES ASSUME NEW m \in Slot, device_status'[m] > SSM_DISCONNECTED
                PROVE  m # n /\ \E e \in Device : link'[e] = m
    OBVIOUS
  <2>1. m # n /\ device_status[m] > SSM_DISCONNECTED
    BY <1>1 DEF SSM_DISCONNECTED
  <2>2. PICK e \in Device : link[e] = m
    BY <2>1 DEF AwakeInv, Dismissals
  <2>. QED  BY <1>1, <1>2, <2>1, <2>2
<1>. QED  BY <1>1, <1>2, <1>3, <1>4, <1>5, <1>6, <1>7, <1>8

\* The end of a dismissed link is not followed by an attempt to connect; if it was the
\* only thing that would have resumed the scan, another link through the slot is left,
\* and the slot's dismissal is now forgotten.
LEMMA StayAwake ==
  ASSUME TypeOK, AwakeInv, NEW d \in Device, NEW n \in Slot, StayDisconnected(d, n)
  PROVE  AwakeInv'
<1>. USE AwakeTypes
<1>1. /\ link[d] = n /\ addr' = addr
      /\ \A e \in Device : e # d => link'[e] = link[e]
      /\ link'[d] = None
      /\ OwnSlot'
      /\ IsFiniteSet(Linked')
      /\ Cardinality(Linked') \in Nat /\ Cardinality(Linked') + 1 = Cardinality(Linked)
      /\ \A e \in Device : link'[e] = n => Expected(e)'
      /\ \A e \in Device : e # d /\ link[e] # n /\ Expected(e) => Expected(e)'
      /\ \A m \in Slot : device_status'[m] > SSM_DISCONNECTED =>
           m # n /\ \E e \in Device : link'[e] = m
  BY LinkDownAwake DEF StayDisconnected
<1>2. /\ scanning' = scanning /\ connecting' = connecting
      /\ disconnect_forever[n]
      /\ disconnect_forever' = [disconnect_forever EXCEPT ![n] = FALSE]
      /\ device_status' = [device_status EXCEPT ![n] = SSM_DISCONNECTED]
  BY DEF StayDisconnected, LinkDown, gap
<1>3. OneProcedure' /\ Dialled'
  BY <1>1, <1>2 DEF AwakeInv, OneProcedure, Dialled
<1>4. Dismissals'
  <2>1. \A m \in Slot : disconnect_forever'[m] => device_status'[m] > SSM_DISCONNECTED
    <3>. SUFFICES ASSUME NEW m \in Slot, disconnect_forever'[m]
                  PROVE  device_status'[m] > SSM_DISCONNECTED
      OBVIOUS
    <3>1. m # n /\ disconnect_forever[m]
      BY <1>2
    <3>2. device_status[m] > SSM_DISCONNECTED
      BY <3>1 DEF AwakeInv, Dismissals
    <3>. QED  BY <1>2, <3>1, <3>2
  <2>. QED  BY <1>1, <2>1 DEF Dismissals
<1>5. WithinController'
  <2>1. Pending' = Pending /\ Pending \in 0 .. 1
    BY <1>2 DEF Pending
  <2>2. Cardinality(Linked) + Pending <= MaxConn
    BY DEF AwakeInv, WithinController
  <2>3. Cardinality(Linked') + Pending' <= MaxConn
    BY <1>1, <2>1, <2>2, TableAssumption
  <2>. QED  BY <1>1, <2>3 DEF WithinController
<1>6. Awake'
  <2>1. CASE scanning \/ connecting # None
    BY <1>2, <2>1 DEF Awake
  <2>2. CASE ~(scanning \/ connecting # None)
    <3>1. PICK w \in Device : Expected(w) /\ WillReconnect(w)
      BY <2>2 DEF AwakeInv, Awake
    <3>2. CASE link[w] # n
      <4>1. w # d /\ link'[w] = link[w] /\ link[w] \in Slot
        BY <1>1, <3>1, <3>2 DEF WillReconnect
      <4>2. disconnect_forever'[link[w]] = disconnect_forever[link[w]]
        BY <1>2, <3>2, <4>1
      <4>3. \A e \in Device : link[e] = link[w] => link'[e] = link[w]
        BY <1>1, <3>2
      <4>4. WillReconnect(w)'
        BY <3>1, <4>1, <4>2, <4>3 DEF WillReconnect
      <4>5. Expected(w)'
        BY <1>1, <3>1, <3>2, <4>1
      <4>. QED  BY <4>4, <4>5 DEF Awake
    <3>3. CASE link[w] = n
      <4>1. PICK e \in Device \ {w} : link[e] = n
        BY <1>2, <3>1, <3>3 DEF WillReconnect
      <4>2. PICK v \in Device : v # d /\ link[v] = n
        BY <3>3, <4>1
      <4>3. link'[v] = n /\ ~disconnect_forever'[n] /\ n # None
        BY <1>1, <1>2, <4>2
      <4>4. Expected(v)' /\ WillReconnect(v)'
        BY <1>1, <4>3 DEF WillReconnect
      <4>. QED  BY <4>4 DEF Awake
    <3>. QED  BY <3>2, <3>3
  <2>. QED  BY <2>1, <2>2
<1>. QED  BY <1>1, <1>3, <1>4, <1>5, <1>6 DEF AwakeInv

\* The end of any other link stops the scan and dials.  ble_gap_connect refuses only
\* because the slot's device is linked, through that same slot: there is always room.
LEMMA ReconnectAwake ==
  ASSUME TypeOK, TableInv, AwakeInv, NEW d \in Device, NEW n \in Slot, ReconnectNow(d, n)
  PROVE  AwakeInv'
<1>. USE AwakeTypes
<1>1. /\ link[d] = n /\ addr' = addr
      /\ \A e \in Device : e # d => link'[e] = link[e]
      /\ link'[d] = None
      /\ OwnSlot'
      /\ Linked' = Linked \ {d} /\ IsFiniteSet(Linked')
      /\ Cardinality(Linked') \in Nat /\ Cardinality(Linked') + 1 = Cardinality(Linked)
      /\ \A e \in Device : link'[e] = n => Expected(e)'
      /\ \A e \in Device : e # d /\ link[e] # n /\ Expected(e) => Expected(e)'
      /\ \A m \in Slot : device_status'[m] > SSM_DISCONNECTED =>
           m # n /\ \E e \in Device : link'[e] = m
  BY LinkDownAwake DEF ReconnectNow
<1>2. /\ scanning' = FALSE /\ connecting' = ReconnectTo(n, Linked')
      /\ ~disconnect_forever[n]
      /\ disconnect_forever' = disconnect_forever
      /\ device_status' = [device_status EXCEPT ![n] = SSM_DISCONNECTED]
  BY <1>1 DEF ReconnectNow, LinkDown
<1>3. addr[n] \in Device
  <2>1. InUse(n)
    BY <1>1 DEF InUse
  <2>. QED  BY <2>1 DEF TableInv, LinksInTable
<1>4. Cardinality(Linked') < MaxConn
  <2>1. Cardinality(Linked) + Pending <= MaxConn /\ Pending \in 0 .. 1
    BY DEF AwakeInv, WithinController, Pending
  <2>. QED  BY <1>1, <2>1, TableAssumption
<1>5. \/ connecting' = connecting /\ connecting # None
      \/ connecting' = connecting /\ connecting = None /\ addr[n] \in Linked'
      \/ connecting' = [dev |-> addr[n], slot |-> n] /\ connecting = None
  BY <1>2, <1>4 DEF ReconnectTo
<1>6. OneProcedure'
  BY <1>2 DEF OneProcedure
<1>7. Dialled'
  <2>1. CASE connecting' = connecting
    BY <1>1, <2>1 DEF AwakeInv, Dialled
  <2>2. CASE connecting' = [dev |-> addr[n], slot |-> n]
    BY <1>1, <2>2 DEF Dialled
  <2>. QED  BY <1>5, <2>1, <2>2
<1>8. Dismissals'
  <2>1. \A m \in Slot : disconnect_forever'[m] => device_status'[m] > SSM_DISCONNECTED
    <3>. SUFFICES ASSUME NEW m \in Slot, disconnect_forever'[m]
                  PROVE  device_status'[m] > SSM_DISCONNECTED
      OBVIOUS
    <3>1. m # n /\ disconnect_forever[m]
      BY <1>2
    <3>2. device_status[m] > SSM_DISCONNECTED
      BY <3>1 DEF AwakeInv, Dismissals
    <3>. QED  BY <1>2, <3>1, <3>2
  <2>. QED  BY <1>1, <2>1 DEF Dismissals
<1>9. WithinController'
  <2>1. Cardinality(Linked) + Pending <= MaxConn /\ Pending' \in 0 .. 1
    BY DEF AwakeInv, WithinController, Pending
  <2>2. Cardinality(Linked') + Pending' <= MaxConn
    BY <1>1, <1>4, <2>1, TableAssumption
  <2>. QED  BY <1>1, <2>2 DEF WithinController
<1>10. Awake'
  <2>1. CASE connecting' # None
    BY <2>1 DEF Awake
  <2>2. CASE connecting' = None
    <3>1. [dev |-> addr[n], slot |-> n] # None
      BY <1>3, NoneAssumption, TableAssumption DEF Slot
    <3>2. PICK e \in Device : e = addr[n] /\ e \in Linked'
      BY <1>3, <1>5, <2>2, <3>1
    <3>3. link'[e] # None /\ addr'[n] = e
      BY <1>1, <3>2 DEF Linked
    <3>4. link'[e] = n
      BY <1>1, <3>3 DEF OwnSlot
    <3>5. Expected(e)' /\ WillReconnect(e)'
      BY <1>1, <1>2, <3>3, <3>4 DEF WillReconnect
    <3>. QED  BY <3>5 DEF Awake
  <2>. QED  BY <2>1, <2>2
<1>. QED  BY <1>1, <1>6, <1>7, <1>8, <1>9, <1>10 DEF AwakeInv

\* Notifications; only a mech status dismisses slots and dials, and it resumes the
\* scan unless something is dialled.
LEMMA NotifiedAwake ==
  ASSUME TypeOK, TableInv, AwakeInv, NEW d \in Device, NEW n \in Slot, Notified(d, n)
  PROVE  AwakeInv'
<1>. USE AwakeTypes
<1>1. \A item : Receives(d, n, item) => link[d] = n
  BY DEF Receives
<1>2. CASE InitialRegister(d, n)
  BY <1>2, QuietAwake DEF InitialRegister, table
<1>3. CASE InitialLogin(d, n)
  BY <1>3, QuietAwake DEF InitialLogin
<1>4. CASE RegistrationDone(d, n)
  <2>1. \A m \in Slot : \/ device_status'[m] = device_status[m]
                        \/ /\ device_status'[m] > SSM_DISCONNECTED
                           /\ \E e \in Device : link[e] = m
    BY <1>1, <1>4 DEF RegistrationDone, SSM_LOGGIN, SSM_DISCONNECTED
  <2>. QED  BY <1>4, <2>1, QuietAwake DEF RegistrationDone
<1>5. CASE WriteWithoutPeer(d, n)
  BY <1>5, RebootAwake DEF WriteWithoutPeer, Panic
<1>6. CASE LoginDone(d, n)
  <2>1. \A m \in Slot : \/ device_status'[m] = device_status[m]
                        \/ /\ device_status'[m] > SSM_DISCONNECTED
                           /\ \E e \in Device : link[e] = m
    BY <1>1, <1>6 DEF LoginDone, SSM_LOGGIN, SSM_DISCONNECTED
  <2>. QED  BY <1>6, <2>1, QuietAwake DEF LoginDone, table
<1>7. CASE Garbled(d, n)
  BY <1>7, QuietAwake DEF Garbled, table, slotVars
<1>8. CASE MechStatus(d, n)
  <2>1. /\ addr' = addr /\ link' = link /\ link[d] = n
        /\ device_status' = [device_status EXCEPT ![n] = SSM_LOCKED]
        /\ disconnect_forever' =
             [m \in Slot |-> disconnect_forever[m] \/ m \in Dismissed(device_status')]
        /\ scanning' = (connecting' = None \/ (scanning /\ connecting' = connecting))
    BY <1>1, <1>8 DEF MechStatus, table
  <2>2. \/ connecting' = connecting
        \/ /\ connecting' = [dev |-> addr[0], slot |-> 0] /\ connecting = None
           /\ Cardinality(Linked) < MaxConn
    BY <1>8 DEF MechStatus, ReconnectTo
  <2>3. OneProcedure'
    BY <2>1, <2>2 DEF AwakeInv, OneProcedure
  <2>4. Dialled'
    <3>1. CASE connecting' = connecting
      BY <2>1, <3>1 DEF AwakeInv, Dialled
    <3>2. CASE connecting' = [dev |-> addr[0], slot |-> 0]
      BY <2>1, <3>2 DEF Dialled
    <3>. QED  BY <2>2, <3>1, <3>2
  <2>5. OwnSlot'
    BY <2>1 DEF AwakeInv, OwnSlot
  <2>6. Dismissals'
    <3>. SUFFICES ASSUME NEW m \in Slot
                  PROVE  /\ disconnect_forever'[m] => device_status'[m] > SSM_DISCONNECTED
                         /\ device_status'[m] > SSM_DISCONNECTED => \E e \in Device : link'[e] = m
      BY DEF Dismissals
    <3>1. device_status'[m] = device_status[m] \/ (m = n /\ device_status'[m] > SSM_DISCONNECTED)
      BY <2>1 DEF SSM_LOCKED, SSM_DISCONNECTED
    <3>2. disconnect_forever'[m] <=> disconnect_forever[m] \/ m \in Dismissed(device_status')
      BY <2>1
    <3>3. m \in Dismissed(device_status') => device_status'[m] > SSM_DISCONNECTED
      BY DEF Dismissed
    <3>. QED  BY <2>1, <3>1, <3>2, <3>3 DEF AwakeInv, Dismissals
  <2>7. WithinController'
    <3>1. /\ IsFiniteSet(Linked) /\ Cardinality(Linked) + Pending <= MaxConn
          /\ Linked' = Linked
      BY <2>1 DEF AwakeInv, WithinController, Linked
    <3>2. Cardinality(Linked) \in Nat
      BY <3>1, FS_CardinalityType
    <3>3. Cardinality(Linked) + Pending' <= MaxConn
      <4>1. CASE connecting' = connecting
        BY <3>1, <4>1 DEF Pending
      <4>2. CASE Cardinality(Linked) < MaxConn
        BY <3>2, <4>2, TableAssumption DEF Pending
      <4>. QED  BY <2>2, <4>1, <4>2
    <3>. QED  BY <3>1, <3>3 DEF WithinController
  <2>8. Awake'
    BY <2>1 DEF Awake
  <2>. QED  BY <2>3, <2>4, <2>5, <2>6, <2>7, <2>8 DEF AwakeInv
<1>. QED  BY <1>2, <1>3, <1>4, <1>5, <1>6, <1>7, <1>8 DEF Notified

\* Every step of the program and its environment.
LEMMA AwakeStep == TypeOK /\ TableInv /\ AwakeInv /\ [Next]_vars => AwakeInv'
<1>. SUFFICES ASSUME TypeOK, TableInv, AwakeInv, [Next]_vars  PROVE AwakeInv'
  OBVIOUS
<1>. USE AwakeTypes
<1>1. CASE ConnectFailed
  <2>1. /\ connecting' = None /\ scanning' = TRUE /\ addr' = addr /\ link' = link
        /\ disconnect_forever' = disconnect_forever /\ device_status' = device_status
    BY <1>1 DEF ConnectFailed, table, slotVars, links
  <2>2. WithinController'
    <3>1. /\ IsFiniteSet(Linked) /\ Cardinality(Linked) + Pending <= MaxConn
          /\ Linked' = Linked /\ Pending \in 0 .. 1 /\ Pending' = 0
      BY <2>1 DEF AwakeInv, WithinController, Linked, Pending
    <3>2. Cardinality(Linked) \in Nat
      BY <3>1, FS_CardinalityType
    <3>3. Cardinality(Linked) + Pending' <= MaxConn
      BY <3>1, <3>2, TableAssumption
    <3>. QED  BY <3>1, <3>3 DEF WithinController
  <2>3. OneProcedure' /\ Dialled' /\ Awake'
    BY <2>1 DEF OneProcedure, Dialled, Awake
  <2>4. OwnSlot' /\ Dismissals'
    BY <2>1 DEF AwakeInv, OwnSlot, Dismissals
  <2>. QED  BY <2>2, <2>3, <2>4 DEF AwakeInv
<1>2. CASE PowerCut
  BY <1>2, RebootAwake DEF PowerCut
<1>3. ASSUME NEW d \in Device, DeviceStep(d)  PROVE AwakeInv'
  <2>1. CASE Advertises(d)
    BY <2>1, AdvertisesAwake
  <2>2. CASE LinkComes(d)
    BY <2>2, ConnectedAwake
  <2>3. CASE NotifyEnabled(d) \/ DiscoveryFailed(d) \/ Publish(d)
    <3>1. UNCHANGED <<addr, device_status, disconnect_forever, scanning, connecting, link>>
      BY <2>3 DEF NotifyEnabled, DiscoveryFailed, Publish, table, slotVars, gap
    <3>2. /\ closing \in [Device -> BOOLEAN] /\ up \in [Device -> Seq(Items)]
          /\ phase \in [Device -> Progress] /\ {"INITIAL", "MECH_STATUS"} \subseteq Items
      BY DEF TypeOK, Items
    <3>3. \A w \in Device : /\ closing[w] => closing'[w]
                            /\ up[w] # <<>> => up'[w] # <<>>
                            /\ phase'[w] = phase[w] \/ closing'[w] \/ up'[w] # <<>>
      <4>0. \A m \in Items : Append(up[d], m) # <<>>
        BY <3>2
      <4>1. CASE NotifyEnabled(d)
        <5>1. /\ closing' = closing /\ up' = [up EXCEPT ![d] = Append(up[d], "INITIAL")]
              /\ phase' = [phase EXCEPT ![d] = "open"]
          BY <4>1 DEF NotifyEnabled
        <5>2. up'[d] # <<>>
          BY <3>2, <4>0, <5>1
        <5>. QED  BY <3>2, <5>1, <5>2
      <4>2. CASE DiscoveryFailed(d)
        BY <3>2, <4>2 DEF DiscoveryFailed
      <4>3. CASE Publish(d)
        <5>1. /\ closing' = closing /\ up' = [up EXCEPT ![d] = Append(up[d], "MECH_STATUS")]
              /\ phase' = phase
          BY <4>3 DEF Publish
        <5>2. up'[d] # <<>>
          BY <3>2, <4>0, <5>1
        <5>. QED  BY <3>2, <5>1, <5>2
      <4>. QED  BY <2>3, <4>1, <4>2, <4>3
    <3>4. \A w \in Device : Expected(w) => Expected(w)'
      BY <3>1, <3>3, ExpectedStays
    <3>. QED  BY <3>1, <3>4, QuietAwake
  <2>4. CASE DeviceReset(d)
    <3>1. CASE UNCHANGED <<table, slotVars, ram, nvs, gap, links>>
      <4>1. \A w \in Device : Expected(w) => Expected(w)'
        BY <3>1, ExpectedStays DEF slotVars, links
      <4>. QED  BY <3>1, <4>1, QuietAwake DEF table, slotVars, gap, links
    <3>2. CASE \E n \in Slot : StayDisconnected(d, n)
      BY <3>2, StayAwake
    <3>3. CASE Reboot
      BY <3>3, RebootAwake
    <3>. QED  BY <2>4, <3>1, <3>2, <3>3 DEF DeviceReset
  <2>5. ASSUME NEW n \in Slot, Notified(d, n)  PROVE AwakeInv'
    BY <2>5, NotifiedAwake
  <2>6. ASSUME NEW n \in Slot, Disconnected(d, n)  PROVE AwakeInv'
    BY <2>6, StayAwake, ReconnectAwake DEF Disconnected
  <2>. QED  BY <1>3, <2>1, <2>2, <2>3, <2>4, <2>5, <2>6 DEF DeviceStep, LinkComes
<1>4. CASE UNCHANGED vars
  <2>1. \A w \in Device : Expected(w) => Expected(w)'
    BY <1>4, ExpectedStays DEF vars, slotVars, links
  <2>. QED  BY <1>4, <2>1, QuietAwake DEF vars, table, slotVars, gap, links
<1>. QED  BY <1>1, <1>2, <1>3, <1>4 DEF Next

\* The host task always scans, dials, or has a link on which something is due that will
\* resume the scan or dial, but for a discovery that could not be started and a link
\* whose slot was marked disconnected by the end of another one, for any number of
\* devices, slots and connections.
THEOREM NeverDeafHolds == Spec => []NeverDeaf
<1>1. Spec => []AwakeInv
  BY InitAwake, AwakeStep, TypeCorrect, TableInvariant, PTL DEF Spec
<1>2. AwakeInv => NeverDeaf
  BY DEF AwakeInv, Awake, Expected, NeverDeaf
<1>. QED  BY <1>1, <1>2, PTL
=============================================================================
