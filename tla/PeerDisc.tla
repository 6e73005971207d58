------------------------------ MODULE PeerDisc ------------------------------
(***************************************************************************)
(* peer.c: the GATT discovery that follows every connection.  For each     *)
(* peer it asks for all services, then for the characteristics of each,    *)
(* then for the descriptors of each, keeps what it is told in lists drawn  *)
(* from three pools that all peers share, and reports once, to             *)
(* service_disc_complete of blecent.c, which enables the notifications.    *)
(*                                                                         *)
(* The remote answers a request with the attributes of the range asked     *)
(* for, in ascending handle order, each in a callback, and then with       *)
(* BLE_HS_EDONE, or it fails the request.  NimBLE forgets a request when   *)
(* it has failed, when it is done and when a callback returns an error.    *)
(***************************************************************************)
EXTENDS Naturals, Sequences, FiniteSets, SequencesExt

CONSTANTS
  Conns,                          \* connection handles
  Databases,                      \* GATT databases a remote may have
  MaxPeers, MaxSvcs, MaxChrs, MaxDscs,    \* peer_init: sizes of the pools
  MaxLinks,                       \* bound: connections made
  MaxFaults                       \* bound: requests failed and links lost

\* A database: [svcs : set of [start, end, uuid], chrs : set of [def, val, uuid],
\* dscs : set of [handle, uuid]].  Handles have 16 bits, services do not overlap, and a
\* characteristic lies in a service, behind its declaration, its value behind it and
\* before the next one.
WellFormed(d) ==
  /\ \A s \in d.svcs : s.start \in Nat \ {0} /\ s.end \in Nat /\ s.start <= s.end /\ s.end <= 65535
  /\ \A s, t \in d.svcs : s = t \/ s.end < t.start \/ t.end < s.start
  /\ \A x \in d.chrs : /\ x.def \in Nat /\ x.val \in Nat /\ x.def < x.val
                       /\ \E s \in d.svcs : s.start < x.def /\ x.val <= s.end
                       /\ \A y \in d.chrs : x = y \/ x.val < y.def \/ y.val < x.def
  /\ \A e \in d.dscs : e.handle \in Nat

\* The characteristics and descriptors of a service s and of a characteristic x in it.
ChrsOf(d, s) == {x \in d.chrs : s.start <= x.def /\ x.def <= s.end}
DscsOf(d, s, x) ==
  {e \in d.dscs : /\ x.val < e.handle /\ e.handle <= s.end
                  /\ \A y \in d.chrs : x.def < y.def => e.handle < y.def}

\* A remote whose notifications can be enabled is a SESAME and can be written to.
Sesame(d) ==
  \A s \in d.svcs, x \in d.chrs :
    /\ s.uuid = "ssm" /\ x \in ChrsOf(d, s) /\ x.uuid = "notify"
    /\ \E e \in DscsOf(d, s, x) : e.uuid = "cccd"
    => \E w \in ChrsOf(d, s) : w.uuid = "write"

ASSUME PeerAssumption ==
  /\ {MaxPeers, MaxSvcs, MaxChrs, MaxDscs, MaxLinks, MaxFaults} \subseteq Nat
  /\ Databases # {} /\ \A d \in Databases : WellFormed(d)

ASSUME SesameAssumption == \A d \in Databases : Sesame(d)

NoPeer == [svcs |-> <<>>, prev |-> 0, cur |-> 0, used |-> FALSE]
NoProc == [kind |-> "none", key |-> 0, last |-> 0, end |-> 0, turn |-> 0]

VARIABLES
  peer,       \* struct peer of a connection: svcs, disc_prev_chr_val, cur_svc
  proc,       \* the GATT procedure NimBLE runs for a connection
  link,       \* "down", "up", "closing"
  db,         \* the database of the remote
  pool,       \* free blocks of peer_pool, peer_svc_pool, peer_chr_pool, peer_dsc_pool
  reports,    \* statuses given to disc_cb since the connection
  cccd,       \* handle written by ssm_enable_notify, 0 if none
  links, faults

vars == <<peer, proc, link, db, pool, reports, cccd, links, faults>>

Init ==
  /\ peer = [c \in Conns |-> NoPeer] /\ proc = [c \in Conns |-> NoProc]
  /\ link = [c \in Conns |-> "down"] /\ db = [c \in Conns |-> CHOOSE d \in Databases : TRUE]
  /\ pool = [peer |-> MaxPeers, svc |-> MaxSvcs, chr |-> MaxChrs, dsc |-> MaxDscs]
  /\ reports = [c \in Conns |-> <<>>] /\ cccd = [c \in Conns |-> 0]
  /\ links = 0 /\ faults = 0

-----------------------------------------------------------------------------
(* The sorted lists.                                                       *)

\* peer_svc_find_prev, peer_chr_find_prev, peer_dsc_find_prev: how many
\* elements precede the first whose key is not below h.
FindPrev(list, key, h) ==
  Max({n \in 0 .. Len(list) : \A i \in 1 .. n : list[i][key] < h})

\* peer_svc_find, peer_chr_find, peer_dsc_find: the index of key h, or 0.
Find(list, key, h) ==
  LET i == FindPrev(list, key, h) + 1
  IN  IF i <= Len(list) /\ list[i][key] = h THEN i ELSE 0

SvcKey == "start"
ChrKey == "val"
DscKey == "handle"

\* SLIST_INSERT_HEAD, SLIST_INSERT_AFTER
InsertAfter(list, n, x) == InsertAt(list, n + 1, x)

\* SLIST_INSERT_HEAD, or SLIST_NEXT(prev, next) = x, which ends the list there.
LinkAfter(list, n, x) ==
  IF n = 0 THEN <<x>> \o list ELSE Append(SubSeq(list, 1, n), x)

\* peer_svc_find_range
FindRange(svcs, h) ==
  SelectInSeq(svcs, LAMBDA s : s.start <= h /\ h <= s.end)

\* Mutant: a service of one handle is asked for its characteristics.
SvcIsEmptyStrictly(s) == s.end < s.start

SvcIsEmpty(s) == s.end <= s.start

\* Mutant: the descriptors of a characteristic reach the next declaration.
ChrEndAtNext(s, i) ==
  IF i < Len(s.chrs) THEN s.chrs[i + 1].def ELSE s.end

\* chr_end_handle of the i-th characteristic of s
ChrEndHandle(s, i) ==
  IF i < Len(s.chrs) THEN s.chrs[i + 1].def - 1 ELSE s.end

ChrIsEmpty(s, i) == ChrEndHandle(s, i) <= s.chrs[i].val

\* peer_svc_find_uuid, peer_chr_find_uuid, peer_dsc_find_uuid: the first of the
\* list, in a sequence of at most one.
WithUuid(list, uuid) ==
  LET i == SelectInSeq(list, LAMBDA x : x.uuid = uuid)
  IN  IF i = 0 THEN <<>> ELSE <<list[i]>>
ChrFindUuid(p, svc, chr) ==
  LET s == WithUuid(p.svcs, svc) IN IF s = <<>> THEN <<>> ELSE WithUuid(s[1].chrs, chr)
\* Mutant: the first service and its first characteristic are searched.
DscFindFirst(p, svc, chr, dsc) == WithUuid(p.svcs[1].chrs[1].dscs, dsc)

DscFindUuid(p, svc, chr, dsc) ==
  LET x == ChrFindUuid(p, svc, chr) IN IF x = <<>> THEN <<>> ELSE WithUuid(x[1].dscs, dsc)

\* The blocks that a peer holds, each by its place in the lists.
SvcBlocks(p) == DOMAIN p.svcs
ChrBlocks(p) == UNION {{i} \X DOMAIN p.svcs[i].chrs : i \in DOMAIN p.svcs}
DscBlocks(p) == UNION {{b} \X DOMAIN p.svcs[b[1]].chrs[b[2]].dscs : b \in ChrBlocks(p)}

-----------------------------------------------------------------------------
(* What a callback of peer.c leaves: the peer, NimBLE's procedure, the     *)
(* status given to disc_cb if any, and the blocks taken.  Starting a       *)
(* procedure may fail: the functions below return the set of outcomes.     *)

Nothing == [svc |-> 0, chr |-> 0, dsc |-> 0]

Outcome(p, q, rc, took) == [peer |-> p, proc |-> q, rc |-> rc, took |-> took]

\* peer_disc_complete
DiscComplete(p, rc) == Outcome([p EXCEPT !.prev = 0], NoProc, rc, Nothing)

Request(kind, key, last, end) == [NoProc EXCEPT !.kind = kind, !.key = key, !.last = last, !.end = end]

\* The characteristics of s whose descriptors peer_disc_dscs still has to ask for.
Undescribed(p, s) ==
  {j \in DOMAIN s.chrs :
     ~ChrIsEmpty(s, j) /\ s.chrs[j].dscs = <<>> /\ p.prev <= s.chrs[j].def}

\* peer_disc_dscs
DiscDscs(p) ==
  LET i == SelectInSeq(p.svcs, LAMBDA s : Undescribed(p, s) # {})
      s == p.svcs[i]
      j == Min(Undescribed(p, s))
      val == s.chrs[j].val
      after(o) == [o EXCEPT !.peer.prev = val]
  IN  IF i = 0 THEN {DiscComplete(p, "0")}
      ELSE {after(Outcome(p, Request("dscs", val, val, ChrEndHandle(s, j)), "none", Nothing)),
            after(DiscComplete(p, "not started"))}

\* peer_disc_chrs
DiscChrs(p) ==
  LET i == SelectInSeq(p.svcs, LAMBDA s : ~SvcIsEmpty(s) /\ s.chrs = <<>>)
      s == p.svcs[i]
      q == [p EXCEPT !.cur = s.start]
  IN  IF i = 0 THEN DiscDscs(p)
      ELSE {Outcome(q, Request("chrs", s.start, s.start - 1, s.end), "none", Nothing),
            DiscComplete(q, "not started")}

\* Mutant: an ENOMEM that is reported but not returned to NimBLE.
AddedOrReported(c, ok, p, took) ==
  IF ok THEN {Outcome(p, proc[c], "none", took)}
  ELSE {[DiscComplete(peer[c], "ENOMEM") EXCEPT !.proc = proc[c]]}

\* case 0 of the callbacks: keep what was found, or give up when a pool is empty.
Added(c, ok, p, took) ==
  IF ok THEN {Outcome(p, proc[c], "none", took)} ELSE {DiscComplete(peer[c], "ENOMEM")}

\* peer_svc_add
SvcAdd(c, s) ==
  LET p == peer[c]
      n == FindPrev(p.svcs, SvcKey, s.start)
      new == [start |-> s.start, end |-> s.end, uuid |-> s.uuid, chrs |-> <<>>]
  IN  IF Find(p.svcs, SvcKey, s.start) # 0 THEN Added(c, TRUE, p, Nothing)
      ELSE Added(c, pool.svc > 0, [p EXCEPT !.svcs = InsertAfter(@, n, new)],
                 [Nothing EXCEPT !.svc = 1])

\* peer_chr_add: the lists are keyed by val_handle, the lookup is by def_handle.
ChrAdd(c, x) ==
  LET p == peer[c]
      i == Find(p.svcs, SvcKey, p.cur)
      n == FindPrev(p.svcs[i].chrs, ChrKey, x.def)
      new == [def |-> x.def, val |-> x.val, uuid |-> x.uuid, dscs |-> <<>>]
  IN  IF Find(p.svcs[i].chrs, ChrKey, x.def) # 0 THEN Added(c, TRUE, p, Nothing)
      ELSE Added(c, pool.chr > 0, [p EXCEPT !.svcs[i].chrs = LinkAfter(@, n, new)],
                 [Nothing EXCEPT !.chr = 1])

\* peer_dsc_add; assert(0) when the service or the characteristic is unknown.
DscAdd(c, val, d) ==
  LET p == peer[c]
      i == FindRange(p.svcs, val)
      j == Find(p.svcs[i].chrs, ChrKey, val)
      n == FindPrev(p.svcs[i].chrs[j].dscs, DscKey, d.handle)
  IN  IF i = 0 \/ j = 0 THEN {Outcome(p, NoProc, "assert", Nothing)}
      ELSE IF Find(p.svcs[i].chrs[j].dscs, DscKey, d.handle) # 0 THEN Added(c, TRUE, p, Nothing)
      ELSE Added(c, pool.dsc > 0, [p EXCEPT !.svcs[i].chrs[j].dscs = LinkAfter(@, n, d)],
                 [Nothing EXCEPT !.dsc = 1])

-----------------------------------------------------------------------------
(* blecent.c on the report.                                                *)

\* ssm_enable_notify
EnableNotify(c, p) ==
  LET d == DscFindUuid(p, "ssm", "notify", "cccd")
  IN  \/ /\ d # <<>> /\ cccd' = [cccd EXCEPT ![c] = d[1].handle]
         /\ UNCHANGED <<link, faults>>
      \/ /\ d = <<>> \/ faults < MaxFaults
         /\ faults' = IF d = <<>> THEN faults ELSE faults + 1
         /\ link' = [link EXCEPT ![c] = "closing"] /\ UNCHANGED cccd

\* Mutant: a failed discovery is only logged.
FailureLogged(c, p, rc) ==
  /\ reports' = [reports EXCEPT ![c] = Append(@, rc)]
  /\ IF rc = "0" THEN EnableNotify(c, p) ELSE UNCHANGED <<link, cccd>>

\* service_disc_complete
ServiceDiscComplete(c, p, rc) ==
  /\ reports' = [reports EXCEPT ![c] = Append(@, rc)]
  /\ IF rc = "0" THEN EnableNotify(c, p)
     ELSE link' = [link EXCEPT ![c] = "closing"] /\ UNCHANGED cccd

\* The callback ends with one of the outcomes; a start that fails is a fault.
Return(c, outcomes) ==
  \E o \in outcomes :
    /\ peer' = [peer EXCEPT ![c] = o.peer] /\ proc' = [proc EXCEPT ![c] = o.proc]
    /\ pool' = [pool EXCEPT !.svc = @ - o.took.svc, !.chr = @ - o.took.chr, !.dsc = @ - o.took.dsc]
    /\ IF o.rc = "none" THEN UNCHANGED <<reports, link, cccd, faults>>
       ELSE ServiceDiscComplete(c, o.peer, o.rc)
    /\ IF o.rc = "not started" THEN faults < MaxFaults /\ faults' = faults + 1
       ELSE o.rc # "0" => UNCHANGED faults
    /\ UNCHANGED <<db, links>>

-----------------------------------------------------------------------------
(* Connections.                                                            *)

\* ble_gap_event_connect_handle: peer_add, which may find the pool empty, and
\* peer_disc_all, which may not be able to start.
Connect(c, d) ==
  /\ link[c] = "down" /\ links < MaxLinks
  /\ links' = links + 1 /\ link' = [link EXCEPT ![c] = "up"]
  /\ db' = [db EXCEPT ![c] = d]
  /\ reports' = [reports EXCEPT ![c] = <<>>] /\ cccd' = [cccd EXCEPT ![c] = 0]
  /\ \/ /\ pool.peer = 0 /\ UNCHANGED <<peer, proc, pool, faults>>
     \/ /\ pool.peer > 0 /\ pool' = [pool EXCEPT !.peer = @ - 1]
        /\ peer' = [peer EXCEPT ![c] = [NoPeer EXCEPT !.prev = 1, !.used = TRUE]]
        /\ \/ proc' = [proc EXCEPT ![c] = Request("svcs", 0, 0, 65535)] /\ UNCHANGED faults
           \/ faults < MaxFaults /\ faults' = faults + 1 /\ UNCHANGED proc

\* Mutant: peer_chr_delete that forgets the descriptors.
KeepDescriptors(c, p) ==
  [pool EXCEPT !.peer = @ + (IF p.used THEN 1 ELSE 0),
               !.svc = @ + Cardinality(SvcBlocks(p)), !.chr = @ + Cardinality(ChrBlocks(p))]

\* peer_delete, peer_svc_delete, peer_chr_delete: the blocks go back.
PeerDelete(c, p) ==
  [pool EXCEPT !.peer = @ + (IF p.used THEN 1 ELSE 0),
               !.svc = @ + Cardinality(SvcBlocks(p)), !.chr = @ + Cardinality(ChrBlocks(p)),
               !.dsc = @ + Cardinality(DscBlocks(p))]

\* The link ends: NimBLE fails the request that is running, whose callback
\* aborts the discovery, and then delivers BLE_GAP_EVENT_DISCONNECT.
Disconnect(c) ==
  /\ \/ link[c] = "up" /\ faults < MaxFaults /\ faults' = faults + 1
     \/ link[c] = "closing" /\ UNCHANGED faults
  /\ link' = [link EXCEPT ![c] = "down"] /\ proc' = [proc EXCEPT ![c] = NoProc]
  /\ reports' = IF proc[c] = NoProc THEN reports
                ELSE [reports EXCEPT ![c] = Append(@, "ENOTCONN")]
  /\ pool' = PeerDelete(c, peer[c]) /\ peer' = [peer EXCEPT ![c] = NoPeer]
  /\ UNCHANGED <<db, cccd, links>>

-----------------------------------------------------------------------------
(* Answers.                                                                *)

Running(c, kind) == link[c] # "down" /\ proc[c].kind = kind

\* The next of a set of attributes, with handle a[key], that the request is for.
Further(c, attrs, key) ==
  {a \in attrs : /\ proc[c].last < a[key] /\ a[key] <= proc[c].end
                 /\ \A b \in attrs : proc[c].last < b[key] => a[key] <= b[key]}

\* The request goes on after handle h, unless the callback has ended it.
GoesOn(outcomes, h) ==
  {IF o.proc = NoProc THEN o ELSE [o EXCEPT !.proc.last = h] : o \in outcomes}

\* default case of the three callbacks
Failed(c) ==
  /\ link[c] # "down" /\ proc[c] # NoProc
  /\ faults < MaxFaults
  /\ peer' = [peer EXCEPT ![c].prev = 0] /\ proc' = [proc EXCEPT ![c] = NoProc]
  /\ faults' = faults + 1
  /\ ServiceDiscComplete(c, peer[c], "ATT error")
  /\ UNCHANGED <<db, pool, links>>

\* A request is distinct from the one before it, even for the same range.
Renewed(c, outcomes) ==
  {IF o.proc = NoProc THEN o ELSE [o EXCEPT !.proc.turn = 1 - proc[c].turn] : o \in outcomes}

\* BLE_HS_EDONE in the three callbacks, when the discovery was not aborted.
Done(c, outcomes) ==
  Return(c, IF peer[c].prev > 0 THEN Renewed(c, outcomes)
            ELSE {Outcome(peer[c], NoProc, "none", Nothing)})

\* All attributes of a database, as Find Information reports them.
Attributes(d) ==
  d.dscs \cup {[handle |-> s.start, uuid |-> "service"] : s \in d.svcs}
         \cup {[handle |-> x.def, uuid |-> "declaration"] : x \in d.chrs}
         \cup {[handle |-> x.val, uuid |-> x.uuid] : x \in d.chrs}

\* peer_svc_disced
SvcDisced(c) ==
  /\ Running(c, "svcs")
  /\ LET next == Further(c, db[c].svcs, "start")
     IN  IF next = {} THEN Done(c, DiscChrs(peer[c]))
         ELSE \E s \in next : Return(c, GoesOn(SvcAdd(c, s), s.end))

\* peer_chr_disced
ChrDisced(c) ==
  /\ Running(c, "chrs")
  /\ LET next == Further(c, db[c].chrs, "def")
     IN  IF next = {} THEN Done(c, DiscChrs(peer[c]))
         ELSE \E x \in next : Return(c, GoesOn(ChrAdd(c, x), x.def))

\* peer_dsc_disced
DscDisced(c) ==
  /\ Running(c, "dscs")
  /\ LET next == Further(c, Attributes(db[c]), "handle")
     IN  IF next = {} THEN Done(c, DiscDscs(peer[c]))
         ELSE \E d \in next : Return(c, GoesOn(DscAdd(c, proc[c].key, d), d.handle))

Answer(c) == SvcDisced(c) \/ ChrDisced(c) \/ DscDisced(c)

Next ==
  \E c \in Conns : (\E d \in Databases : Connect(c, d)) \/ Disconnect(c) \/ Failed(c) \/ Answer(c)

Spec == Init /\ [][Next]_vars

\* The remote answers a request that runs, unless it fails or its link is lost; every
\* answer changes proc.  A terminated link ends.
FairSpec ==
  /\ Spec
  /\ \A c \in Conns : /\ []<>(proc[c] = NoProc) \/ []<><<proc[c]' # proc[c]>>_vars
                      /\ WF_vars(link[c] = "closing" /\ Disconnect(c))

-----------------------------------------------------------------------------
(* Properties.                                                             *)

TypeOK ==
  /\ \A c \in Conns :
       /\ peer[c].used \in BOOLEAN /\ peer[c].prev \in Nat /\ peer[c].cur \in Nat
       /\ proc[c].kind \in {"none", "svcs", "chrs", "dscs"}
       /\ link[c] \in {"down", "up", "closing"} /\ db[c] \in Databases
  /\ pool \in [peer : 0 .. MaxPeers, svc : 0 .. MaxSvcs, chr : 0 .. MaxChrs, dsc : 0 .. MaxDscs]
  /\ links \in 0 .. MaxLinks /\ faults \in 0 .. MaxFaults

\* Types, and no block is lost: at every moment, in the middle of a discovery that runs out
\* of blocks or whose link is lost, the free blocks of the shared pools and those
\* in the lists of the peers are the blocks peer_init made.
Allocated(Blocks(_)) == Cardinality(UNION {{c} \X Blocks(peer[c]) : c \in Conns})
PoolsConserved ==
  /\ TypeOK
  /\ pool.peer + Cardinality({c \in Conns : peer[c].used}) = MaxPeers
  /\ pool.svc + Allocated(SvcBlocks) = MaxSvcs
  /\ pool.chr + Allocated(ChrBlocks) = MaxChrs
  /\ pool.dsc + Allocated(DscBlocks) = MaxDscs

\* disc_cb is called at most once for a connection, however it fails, so the
\* notifications are not enabled, or the link terminated, twice; and no descriptor
\* arrives for a characteristic that is not in the lists (assert(0) of peer_dsc_add).
ReportedOnce == \A c \in Conns : Len(reports[c]) <= 1 /\ "assert" \notin ToSet(reports[c])

\* Discovery reported successful has found the whole database, each
\* characteristic in its service and each descriptor in its characteristic.
Found(p) ==
  UNION {UNION {{<<s.start, x.def, d.handle>> : d \in ToSet(x.dscs) \cup {[handle |-> 0]}} :
                x \in ToSet(s.chrs)} : s \in ToSet(p.svcs)}
Expected(d) ==
  UNION {UNION {{<<s.start, x.def, h>> : h \in {0} \cup {e.handle : e \in DscsOf(d, s, x)}} :
                x \in ChrsOf(d, s)} : s \in d.svcs}
WholeDatabase ==
  \A c \in Conns :
    reports[c] = <<"0">> /\ peer[c].used =>
      Found(peer[c]) = Expected(db[c]) /\ Len(peer[c].svcs) = Cardinality(db[c].svcs)

\* Notifications are enabled on the CCCD of the SESAME notification characteristic
\* and of no other, and the write characteristic is known by then.
NotifyReaches ==
  \A c \in Conns :
    cccd[c] # 0 /\ peer[c].used =>
      /\ \E s \in db[c].svcs, x \in db[c].chrs :
           /\ s.uuid = "ssm" /\ x.uuid = "notify" /\ s.start < x.def /\ x.def <= s.end
           /\ <<s.start, x.def, cccd[c]>> \in Expected(db[c])
      /\ ChrFindUuid(peer[c], "ssm", "write") # <<>>

\* A discovery that has begun is reported, or its link ends.
DiscoveryEnds ==
  \A c \in Conns : proc[c] # NoProc ~> reports[c] # <<>> \/ link[c] = "down"

\* A connection of which nothing is to be expected any more is terminated: after
\* a failed report the link ends.
FailureCloses ==
  \A c \in Conns : (reports[c] # <<>> /\ reports[c] # <<"0">>) ~> link[c] = "down"
=============================================================================
