-------------------------- MODULE PeerDisc_proofs ---------------------------
(***************************************************************************)
(* The discovery reports once, and no answer finds its service or its      *)
(* characteristic missing.  As far as the requests have come, the lists    *)
(* hold the database of the remote and nothing else, so a discovery        *)
(* reported successful has found all of it, and the notifications that are *)
(* enabled then are those of the SESAME; and every block of the pools is   *)
(* free or in a list.  For any number of links, any well-formed databases, *)
(* any sizes of the pools and whatever fails on the way.                   *)
(***************************************************************************)
EXTENDS PeerDisc, FiniteSetTheorems, WellFoundedInduction, TLAPS

Uuids == UNION {{s.uuid : s \in d.svcs} \cup {x.uuid : x \in d.chrs} : d \in Databases}
Attrs == UNION {Attributes(d) : d \in Databases}
ChrType == [def : Nat, val : Nat, uuid : Uuids, dscs : Seq(Attrs)]
SvcType == [start : Nat, end : Nat, uuid : Uuids, chrs : Seq(ChrType)]
PeerType == [svcs : Seq(SvcType), prev : Nat, cur : Nat, used : BOOLEAN]
ProcType == [kind : {"none", "svcs", "chrs", "dscs"}, key : Nat, last : Nat, end : Nat, turn : {0, 1}]

\* An element of a list is an attribute of the remote.
IsSvc(t, s) == t.start = s.start /\ t.end = s.end /\ t.uuid = s.uuid
IsChr(y, x) == y.def = x.def /\ y.val = x.val /\ y.uuid = x.uuid

\* The characteristics kept of a service of database d: its own, in order.
Characteristics(d, s) ==
  /\ \A j \in 1 .. Len(s.chrs) :
       /\ s.start <= s.chrs[j].def /\ s.chrs[j].def < s.chrs[j].val /\ s.chrs[j].val <= s.end
       /\ \E x \in d.chrs : IsChr(s.chrs[j], x)
  /\ \A j, k \in 1 .. Len(s.chrs) : j < k => s.chrs[j].val < s.chrs[k].val

\* The services kept of database d: its own, in order, apart from each other.
Services(d, svcs) ==
  /\ \A i \in 1 .. Len(svcs) :
       /\ svcs[i].start <= svcs[i].end /\ Characteristics(d, svcs[i])
       /\ \E s \in d.svcs : IsSvc(svcs[i], s)
  /\ \A i, j \in 1 .. Len(svcs) : i < j => svcs[i].end < svcs[j].start

\* What has arrived lies before what the procedure still asks for; the service whose
\* characteristics it asks for and the characteristic whose descriptors are in the lists.
Position(svcs, cur, q) ==
  /\ q.kind = "svcs" => \A i \in 1 .. Len(svcs) : svcs[i].end <= q.last
  /\ q.kind = "chrs" =>
       \E i \in 1 .. Len(svcs) :
         /\ svcs[i].start = cur /\ svcs[i].end = q.end /\ cur <= q.last + 1
         /\ \A j \in 1 .. Len(svcs[i].chrs) : svcs[i].chrs[j].def <= q.last
  /\ q.kind = "dscs" =>
       \E i \in 1 .. Len(svcs) : \E j \in 1 .. Len(svcs[i].chrs) : svcs[i].chrs[j].val = q.key

Fits(d, p, q) ==
  p \in PeerType /\ q \in ProcType /\ Services(d, p.svcs) /\ Position(p.svcs, p.cur, q)

\* What a callback may leave: who reports also ends the procedure, and nothing asserts.
Good(d, o) ==
  /\ o = Outcome(o.peer, o.proc, o.rc, o.took) /\ Fits(d, o.peer, o.proc)
  /\ o.rc = "none" \/ (o.proc = NoProc /\ o.rc \in {"0", "not started", "ENOMEM"})

Codes == {"0", "not started", "ENOMEM", "ENOTCONN", "ATT error"}

PeerInv ==
  /\ peer \in [Conns -> PeerType] /\ proc \in [Conns -> ProcType]
  /\ db \in [Conns -> Databases]
  /\ link \in [Conns -> {"down", "up", "closing"}]
  /\ reports \in [Conns -> {<<>>} \cup {<<r>> : r \in Codes}]
  /\ \A c \in Conns :
       /\ Services(db[c], peer[c].svcs) /\ Position(peer[c].svcs, peer[c].cur, proc[c])
       /\ link[c] = "down" => peer[c] = NoPeer /\ proc[c] = NoProc
       /\ proc[c] # NoProc => reports[c] = <<>>

-----------------------------------------------------------------------------
(* Sequences and their searches.                                           *)

\* The minimum of a set of numbers belongs to it.
LEMMA Least ==
  ASSUME NEW S \in SUBSET Nat, S # {}
  PROVE  Min(S) \in S
<1>1. PICK x \in S : \A y \in S : ~ (<<y, x>> \in OpToRel(<, Nat))
  BY NatLessThanWellFounded, WFMin
<1>2. OpToRel(<, Nat) = {ss \in Nat \X Nat : ss[1] < ss[2]}
  BY DEF OpToRel
<1>3. \A y \in S : x <= y
  <2>. SUFFICES ASSUME NEW y \in S, y < x PROVE FALSE
    OBVIOUS
  <2>1. <<y, x>> \in Nat \X Nat /\ <<y, x>>[1] < <<y, x>>[2]
    OBVIOUS
  <2>2. <<y, x>> \in OpToRel(<, Nat)
    BY <1>2, <2>1
  <2>. QED BY <1>1, <2>2
<1>. QED BY <1>3 DEF Min

\* A search that finds something has found it.
LEMMA SelectFinds ==
  ASSUME NEW n \in Nat, NEW I \in SUBSET (1 .. n), I # {}
  PROVE  Min(I) \in I /\ Min(I) \in 1 .. n
<1>1. I \in SUBSET Nat
  OBVIOUS
<1>. QED BY <1>1, Least

\* Behind the last element that is below h there is no other, and h is not found.
LEMMA FindPrevAll ==
  ASSUME NEW list, NEW key, NEW h, Len(list) \in Nat,
         \A i \in 1 .. Len(list) : list[i][key] \in Nat /\ list[i][key] < h
  PROVE  FindPrev(list, key, h) = Len(list) /\ Find(list, key, h) = 0
<1>. DEFINE S == {n \in 0 .. Len(list) : \A i \in 1 .. n : list[i][key] < h}
<1>1. Len(list) \in S /\ \A n \in S : n <= Len(list) /\ n \in Nat
  OBVIOUS
<1>. HIDE DEF S
<1>2. Max(S) = Len(list)
  BY <1>1 DEF Max
<1>3. FindPrev(list, key, h) = Len(list)
  BY <1>2 DEF FindPrev, S
<1>. QED BY <1>3 DEF Find

\* In an ascending list the element of key h is found at its place.
LEMMA FindAt ==
  ASSUME NEW list, NEW key, Len(list) \in Nat, NEW i \in 1 .. Len(list),
         \A k \in 1 .. Len(list) : list[k][key] \in Nat,
         \A k \in 1 .. Len(list) : k < i => list[k][key] < list[i][key]
  PROVE  Find(list, key, list[i][key]) = i
<1>. DEFINE h == list[i][key]
            S == {n \in 0 .. Len(list) : \A k \in 1 .. n : list[k][key] < h}
<1>1. i - 1 \in S
  OBVIOUS
<1>2. \A n \in S : n <= i - 1 /\ n \in Nat
  <2>. SUFFICES ASSUME NEW n \in S, n > i - 1 PROVE FALSE
    OBVIOUS
  <2>1. i \in 1 .. n
    OBVIOUS
  <2>2. list[i][key] < h
    BY <2>1
  <2>. QED BY <2>2
<1>3. FindPrev(list, key, h) = i - 1
  <2>. HIDE DEF S
  <2>1. Max(S) = i - 1
    BY <1>1, <1>2 DEF Max
  <2>. QED BY <2>1 DEF FindPrev, S
<1>. QED BY <1>3 DEF Find

\* Inserting at the end appends, whichever of the two ways the code links.
LEMMA AtTheEnd ==
  ASSUME NEW S, NEW list \in Seq(S), NEW x \in S
  PROVE  /\ InsertAfter(list, Len(list), x) = Append(list, x)
         /\ LinkAfter(list, Len(list), x) = Append(list, x)
         /\ Append(list, x) \in Seq(S) /\ Len(Append(list, x)) = Len(list) + 1
         /\ Append(list, x)[Len(list) + 1] = x /\ Len(list) \in Nat
         /\ \A i \in 1 .. Len(list) : Append(list, x)[i] = list[i]
<1>1. SubSeq(list, 1, Len(list)) = list
  OBVIOUS
<1>2. SubSeq(list, Len(list) + 1, Len(list)) = <<>>
  OBVIOUS
<1>3. InsertAfter(list, Len(list), x) = Append(list, x)
  <2>1. InsertAfter(list, Len(list), x) = SubSeq(list, 1, (Len(list) + 1) - 1) \o <<x>> \o SubSeq(list, Len(list) + 1, Len(list))
    BY DEF InsertAfter, InsertAt
  <2>2. (Len(list) + 1) - 1 = Len(list)
    OBVIOUS
  <2>3. InsertAfter(list, Len(list), x) = list \o <<x>> \o <<>>
    BY <1>1, <1>2, <2>1, <2>2
  <2>. QED BY <2>3
<1>4. LinkAfter(list, Len(list), x) = Append(list, x)
  <2>1. CASE Len(list) = 0
    <3>1. list = <<>>
      BY <2>1
    <3>. QED BY <2>1, <3>1 DEF LinkAfter
  <2>2. CASE Len(list) # 0
    BY <1>1, <2>2 DEF LinkAfter
  <2>. QED BY <2>1, <2>2
<1>. QED BY <1>3, <1>4

\* The maximum of a bounded set of numbers belongs to it.
LEMMA Greatest ==
  ASSUME NEW n \in Nat, NEW S \in SUBSET (0 .. n), S # {}
  PROVE  Max(S) \in S
<1>. DEFINE T == {m \in 0 .. n : n - m \in S}
<1>1. PICK s \in S : TRUE
  OBVIOUS
<1>2. n - s \in T /\ T \in SUBSET Nat
  OBVIOUS
<1>3. PICK x \in T : \A y \in T : ~ (<<y, x>> \in OpToRel(<, Nat))
  <2>. HIDE DEF T
  <2>. QED BY <1>2, NatLessThanWellFounded, WFMin
<1>4. OpToRel(<, Nat) = {ss \in Nat \X Nat : ss[1] < ss[2]}
  BY DEF OpToRel
<1>5. \A y \in T : x <= y
  <2>. SUFFICES ASSUME NEW y \in T, y < x PROVE FALSE
    OBVIOUS
  <2>1. <<y, x>> \in Nat \X Nat /\ <<y, x>>[1] < <<y, x>>[2]
    OBVIOUS
  <2>. QED BY <1>3, <1>4, <2>1
<1>6. n - x \in S /\ \A z \in S : n - x >= z
  <2>. SUFFICES ASSUME NEW z \in S PROVE n - x >= z
    OBVIOUS
  <2>1. n - z \in T
    OBVIOUS
  <2>2. x <= n - z /\ x \in 0 .. n /\ z \in 0 .. n
    BY <1>5, <2>1
  <2>. QED BY <2>2
<1>. QED BY <1>6 DEF Max

\* The place of an element is in its list or at the end of it.
LEMMA FindPrevRange ==
  ASSUME NEW list, NEW key, NEW h, Len(list) \in Nat
  PROVE  FindPrev(list, key, h) \in 0 .. Len(list)
<1>. DEFINE S == {n \in 0 .. Len(list) : \A i \in 1 .. n : list[i][key] < h}
<1>1. 0 \in S /\ S \in SUBSET (0 .. Len(list))
  OBVIOUS
<1>2. Max(S) \in 0 .. Len(list)
  <2>. HIDE DEF S
  <2>. QED BY <1>1, Greatest
<1>. QED BY <1>2 DEF FindPrev

\* However an element is linked, the list keeps its type.
LEMMA LinkTypes ==
  ASSUME NEW S, NEW list \in Seq(S), NEW n \in 0 .. Len(list), NEW x \in S
  PROVE  LinkAfter(list, n, x) \in Seq(S)
<1>1. CASE n = 0
  BY <1>1 DEF LinkAfter
<1>2. CASE n # 0
  <2>1. SubSeq(list, 1, n) \in Seq(S)
    BY <1>2
  <2>. QED BY <1>2, <2>1 DEF LinkAfter
<1>. QED BY <1>1, <1>2

-----------------------------------------------------------------------------
(* What the callbacks leave.                                               *)

\* after(o) of peer_disc_dscs changes the one field.
LEMMA OutcomePrev ==
  ASSUME NEW x, NEW q, NEW rc, NEW took, NEW val
  PROVE  [Outcome(x, q, rc, took) EXCEPT !.peer.prev = val] = Outcome([x EXCEPT !.prev = val], q, rc, took)
BY DEF Outcome

\* Nothing is asked for: any lists fit.
LEMMA IdleFits ==
  ASSUME NEW d, NEW p, NEW q, Fits(d, p, q), NEW prev \in Nat
  PROVE  Fits(d, [p EXCEPT !.prev = prev], NoProc)
<1>1. [p EXCEPT !.prev = prev] \in PeerType /\ [p EXCEPT !.prev = prev].svcs = p.svcs
  BY DEF Fits, PeerType
<1>2. NoProc \in ProcType /\ NoProc.kind = "none"
  BY DEF NoProc, ProcType
<1>. QED BY <1>1, <1>2 DEF Fits, Position

\* peer_disc_complete
LEMMA CompleteGood ==
  ASSUME NEW d, NEW p, NEW q, Fits(d, p, q), NEW rc \in {"0", "not started", "ENOMEM"}
  PROVE  Good(d, DiscComplete(p, rc))
BY IdleFits DEF Good, DiscComplete, Outcome

\* peer_disc_dscs asks for the descriptors of a characteristic that it has.
LEMMA DiscDscsGood ==
  ASSUME NEW d \in Databases, NEW p, NEW q, Fits(d, p, q), NEW o \in DiscDscs(p)
  PROVE  Good(d, o)
<1>. DEFINE I == {n \in 1 .. Len(p.svcs) : Undescribed(p, p.svcs[n]) # {}}
            i == SelectInSeq(p.svcs, LAMBDA s : Undescribed(p, s) # {})
            s == p.svcs[i]
            J == Undescribed(p, s)
            j == Min(J)
            val == s.chrs[j].val
            r == [p EXCEPT !.prev = val]
            q1 == Request("dscs", val, val, ChrEndHandle(s, j))
<1>1. i = IF I # {} THEN Min(I) ELSE 0
  BY DEF SelectInSeq
<1>2. CASE i = 0
  <2>1. o = DiscComplete(p, "0")
    BY <1>2 DEF DiscDscs
  <2>. QED BY <2>1, CompleteGood
<1>3. CASE i # 0
  <2>1. p.svcs \in Seq(SvcType) /\ Len(p.svcs) \in Nat
    BY DEF Fits, PeerType
  <2>2. i \in I /\ i \in 1 .. Len(p.svcs)
    <3>1. I # {} /\ I \in SUBSET (1 .. Len(p.svcs))
      BY <1>1, <1>3
    <3>. QED BY <1>1, <2>1, <3>1, SelectFinds
  <2>3. s \in SvcType
    BY <2>1, <2>2
  <2>4. J # {}
    BY <2>2
  <2>5. J \in SUBSET DOMAIN s.chrs
    BY DEF Undescribed
  <2>. HIDE DEF I, i
  <2>6. s.chrs \in Seq(ChrType) /\ Len(s.chrs) \in Nat
    BY <2>3 DEF SvcType
  <2>7. j \in 1 .. Len(s.chrs)
    <3>1. J # {} /\ J \in SUBSET (1 .. Len(s.chrs))
      BY <2>4, <2>5, <2>6
    <3>. HIDE DEF J
    <3>. QED BY <2>6, <3>1, SelectFinds
  <2>. HIDE DEF J, j
  <2>8. /\ \A k \in 1 .. Len(s.chrs) : s.chrs[k] \in ChrType /\ s.start <= s.chrs[k].def
        /\ \E t \in d.svcs : s.start = t.start
    BY <2>2, <2>6 DEF Fits, Services, Characteristics, IsSvc
  <2>9. ChrEndHandle(s, j) \in Nat /\ val \in Nat
    <3>1. s.start \in Nat \ {0}
      BY <2>8, PeerAssumption DEF WellFormed
    <3>2. \A k \in 1 .. Len(s.chrs) : s.chrs[k].def - 1 \in Nat
      BY <2>8, <3>1 DEF ChrType
    <3>3. s.end \in Nat
      BY <2>3 DEF SvcType
    <3>4. j < Len(s.chrs) => j + 1 \in 1 .. Len(s.chrs)
      BY <2>6, <2>7
    <3>5. ChrEndHandle(s, j) \in Nat
      <4>. HIDE DEF s
      <4>. QED BY <3>2, <3>3, <3>4 DEF ChrEndHandle
    <3>6. val \in Nat
      BY <2>7, <2>8 DEF ChrType
    <3>. QED BY <3>5, <3>6
  <2>10. r \in PeerType /\ r.svcs = p.svcs
    BY <2>9 DEF Fits, PeerType
  <2>11. q1 \in ProcType /\ q1.kind = "dscs" /\ q1.key = val
    BY <2>9 DEF Request, NoProc, ProcType
  <2>12. Fits(d, r, q1)
    BY <2>2, <2>7, <2>10, <2>11 DEF Fits, Position
  <2>13. o \in {Outcome(r, q1, "none", Nothing), Outcome([r EXCEPT !.prev = val], NoProc, "not started", Nothing)}
    <3>1. [Outcome(p, q1, "none", Nothing) EXCEPT !.peer.prev = val] = Outcome(r, q1, "none", Nothing)
      BY DEF Outcome
    <3>2. [DiscComplete(p, "not started") EXCEPT !.peer.prev = val]
            = Outcome([[p EXCEPT !.prev = 0] EXCEPT !.prev = val], NoProc, "not started", Nothing)
      <4>1. DiscComplete(p, "not started") = Outcome([p EXCEPT !.prev = 0], NoProc, "not started", Nothing)
        BY DEF DiscComplete
      <4>. HIDE DEF val
      <4>2. \A x, rc : [Outcome(x, NoProc, rc, Nothing) EXCEPT !.peer.prev = val] = Outcome([x EXCEPT !.prev = val], NoProc, rc, Nothing)
        BY OutcomePrev
      <4>. QED BY <4>1, <4>2
    <3>3. [[p EXCEPT !.prev = 0] EXCEPT !.prev = val] = [r EXCEPT !.prev = val]
      BY DEF Fits, PeerType
    <3>. QED BY <1>3, <3>1, <3>2, <3>3 DEF DiscDscs, i, j, J
  <2>14. Fits(d, [r EXCEPT !.prev = val], NoProc)
    BY <2>9, <2>12, IdleFits
  <2>. HIDE DEF r, q1
  <2>15. CASE o = Outcome(r, q1, "none", Nothing)
    BY <2>12, <2>15 DEF Good, Outcome
  <2>16. CASE o = Outcome([r EXCEPT !.prev = val], NoProc, "not started", Nothing)
    BY <2>14, <2>16 DEF Good, Outcome
  <2>. QED BY <2>13, <2>15, <2>16
<1>. QED BY <1>2, <1>3

\* peer_disc_chrs asks for the characteristics of a service that has none yet.
LEMMA DiscChrsGood ==
  ASSUME NEW d \in Databases, NEW p, NEW q, Fits(d, p, q), NEW o \in DiscChrs(p)
  PROVE  Good(d, o)
<1>. DEFINE I == {n \in 1 .. Len(p.svcs) : ~SvcIsEmpty(p.svcs[n]) /\ p.svcs[n].chrs = <<>>}
            i == SelectInSeq(p.svcs, LAMBDA s : ~SvcIsEmpty(s) /\ s.chrs = <<>>)
            s == p.svcs[i]
            r == [p EXCEPT !.cur = s.start]
            q1 == Request("chrs", s.start, s.start - 1, s.end)
<1>1. i = IF I # {} THEN Min(I) ELSE 0
  BY DEF SelectInSeq
<1>2. CASE i = 0
  <2>1. o \in DiscDscs(p)
    BY <1>2 DEF DiscChrs
  <2>. QED BY <2>1, DiscDscsGood
<1>3. CASE i # 0
  <2>1. p.svcs \in Seq(SvcType) /\ Len(p.svcs) \in Nat
    BY DEF Fits, PeerType
  <2>2. i \in I /\ i \in 1 .. Len(p.svcs)
    <3>1. I # {} /\ I \in SUBSET (1 .. Len(p.svcs))
      BY <1>1, <1>3
    <3>. QED BY <1>1, <2>1, <3>1, SelectFinds
  <2>3. o \in {Outcome(r, q1, "none", Nothing), DiscComplete(r, "not started")}
    BY <1>3 DEF DiscChrs
  <2>4. s.chrs = <<>> /\ s \in SvcType
    BY <2>1, <2>2
  <2>. HIDE DEF I, i
  <2>5. s.start \in Nat \ {0} /\ s.end \in Nat /\ s.start - 1 \in Nat /\ s.start <= (s.start - 1) + 1
    <3>1. \E t \in d.svcs : s.start = t.start
      BY <2>2 DEF Fits, Services, IsSvc
    <3>2. s.start \in Nat \ {0}
      BY <3>1, PeerAssumption DEF WellFormed
    <3>. QED BY <2>4, <3>2 DEF SvcType
  <2>6. r \in PeerType /\ r.svcs = p.svcs /\ r.cur = s.start
    BY <2>5 DEF Fits, PeerType
  <2>7. q1 \in ProcType /\ q1.kind = "chrs" /\ q1.last = s.start - 1 /\ q1.end = s.end
    BY <2>5 DEF Request, NoProc, ProcType
  <2>8. Position(r.svcs, r.cur, q1)
    <3>1. r.svcs[i] = s /\ i \in 1 .. Len(r.svcs) /\ Len(r.svcs[i].chrs) = 0
      BY <2>2, <2>4, <2>6
    <3>. HIDE DEF r, q1, s
    <3>2. r.svcs[i].start = r.cur /\ r.svcs[i].end = q1.end /\ r.cur <= q1.last + 1
      BY <2>5, <2>6, <2>7, <3>1
    <3>3. \A j \in 1 .. Len(r.svcs[i].chrs) : r.svcs[i].chrs[j].def <= q1.last
      BY <3>1
    <3>. QED BY <2>7, <3>1, <3>2, <3>3 DEF Position
  <2>9. Fits(d, r, q1)
    BY <2>6, <2>7, <2>8 DEF Fits
  <2>. HIDE DEF r, q1
  <2>10. CASE o = Outcome(r, q1, "none", Nothing)
    BY <2>9, <2>10 DEF Good, Outcome
  <2>11. CASE o = DiscComplete(r, "not started")
    BY <2>9, <2>11, CompleteGood
  <2>. QED BY <2>3, <2>10, <2>11
<1>. QED BY <1>2, <1>3

\* An answer is kept and the request goes on, or the discovery gives up.
LEMMA AddedGood ==
  ASSUME NEW c, NEW d, NEW ok, NEW p, NEW took, NEW h, proc[c] # NoProc,
         Fits(d, peer[c], proc[c]), Fits(d, p, [proc[c] EXCEPT !.last = h]),
         NEW o \in GoesOn(Added(c, ok, p, took), h)
  PROVE  Good(d, o)
<1>1. CASE ok
  <2>. DEFINE y == Outcome(p, proc[c], "none", took)
  <2>1. y.peer = p /\ y.proc = proc[c] /\ y.rc = "none"
    BY DEF Outcome
  <2>2. o = [y EXCEPT !.proc.last = h]
    BY <1>1, <2>1 DEF GoesOn, Added
  <2>3. [y EXCEPT !.proc.last = h] = Outcome(p, [proc[c] EXCEPT !.last = h], "none", took)
    BY DEF Outcome
  <2>4. /\ o = Outcome(o.peer, o.proc, o.rc, o.took)
        /\ o.peer = p /\ o.proc = [proc[c] EXCEPT !.last = h] /\ o.rc = "none"
    BY <2>2, <2>3 DEF Outcome
  <2>. QED BY <2>4 DEF Good
<1>2. CASE ~ok
  <2>1. DiscComplete(peer[c], "ENOMEM").proc = NoProc
    BY DEF DiscComplete, Outcome
  <2>2. o = DiscComplete(peer[c], "ENOMEM")
    BY <1>2, <2>1 DEF GoesOn, Added
  <2>. QED BY <2>2, CompleteGood
<1>. QED BY <1>1, <1>2

\* A service with other characteristics stays in its place.
LEMMA ServiceUpdate ==
  ASSUME NEW d, NEW svcs, Services(d, svcs), NEW i \in 1 .. Len(svcs),
         NEW new, Len(new) = Len(svcs), IsSvc(new[i], svcs[i]), Characteristics(d, new[i]),
         \A k \in 1 .. Len(svcs) : k # i => new[k] = svcs[k]
  PROVE  Services(d, new)
<1>1. \A k \in 1 .. Len(svcs) : IsSvc(new[k], svcs[k])
  BY DEF IsSvc
<1>2. \A k \in 1 .. Len(svcs) : Characteristics(d, new[k])
  BY DEF Services
<1>. QED BY <1>1, <1>2 DEF Services, IsSvc

\* What peer_svc_add, peer_chr_add and peer_dsc_add put into the lists, and where.
NewSvc(s) == [start |-> s.start, end |-> s.end, uuid |-> s.uuid, chrs |-> <<>>]
NewChr(x) == [def |-> x.def, val |-> x.val, uuid |-> x.uuid, dscs |-> <<>>]
WithSvc(p, s) == [p EXCEPT !.svcs = Append(p.svcs, NewSvc(s))]
WithChrs(p, i, chrs) == [p EXCEPT !.svcs = [p.svcs EXCEPT ![i] = [p.svcs[i] EXCEPT !.chrs = chrs]]]
WithChr(p, i, x) == WithChrs(p, i, Append(p.svcs[i].chrs, NewChr(x)))
WithDscs(p, i, j, dscs) ==
  WithChrs(p, i, [p.svcs[i].chrs EXCEPT ![j] = [p.svcs[i].chrs[j] EXCEPT !.dscs = dscs]])

\* p with a service s, or with a characteristic x of its i-th service, behind the others;
\* p with other descriptors of a characteristic.
Appended(d, p, s, w) ==
  /\ w \in PeerType /\ w.prev = p.prev /\ w.cur = p.cur /\ w.used = p.used
  /\ Len(p.svcs) \in Nat /\ Len(w.svcs) = Len(p.svcs) + 1
  /\ w.svcs[Len(p.svcs) + 1] = NewSvc(s) /\ NewSvc(s) \in SvcType
  /\ \A i \in 1 .. Len(p.svcs) : w.svcs[i] = p.svcs[i]
  /\ \A i \in 1 .. Len(w.svcs) : i \in 1 .. Len(p.svcs) \/ i = Len(p.svcs) + 1
SvcKept(p, i, w) ==
  /\ w \in PeerType /\ w.prev = p.prev /\ w.cur = p.cur /\ w.used = p.used
  /\ Len(w.svcs) = Len(p.svcs) /\ IsSvc(w.svcs[i], p.svcs[i]) /\ w.svcs[i] \in SvcType
  /\ \A k \in 1 .. Len(p.svcs) : k # i => w.svcs[k] = p.svcs[k]
Longer(chrs, x, chrs2) ==
  /\ Len(chrs) \in Nat /\ Len(chrs2) = Len(chrs) + 1
  /\ chrs2[Len(chrs) + 1] = NewChr(x) /\ NewChr(x) \in ChrType
  /\ \A j \in 1 .. Len(chrs) : chrs2[j] = chrs[j] /\ chrs[j] \in ChrType
  /\ \A j \in 1 .. Len(chrs2) : j \in 1 .. Len(chrs) \/ j = Len(chrs) + 1
Redescribed(chrs, j, dscs, chrs2) ==
  /\ Len(chrs) \in Nat /\ Len(chrs2) = Len(chrs)
  /\ chrs2[j].dscs = dscs /\ \A k \in 1 .. Len(chrs) : IsChr(chrs2[k], chrs[k])
  /\ \A k \in 1 .. Len(chrs) : k # j => chrs2[k] = chrs[k]

\* A service comes behind the others.
LEMMA SvcAppended ==
  ASSUME NEW d \in Databases, NEW s \in d.svcs, NEW p \in PeerType
  PROVE  Appended(d, p, s, WithSvc(p, s))
<1>1. NewSvc(s) \in SvcType
  BY PeerAssumption DEF WellFormed, NewSvc, SvcType, Uuids
<1>2. p.svcs \in Seq(SvcType)
  BY DEF PeerType
<1>. DEFINE svcs == Append(p.svcs, NewSvc(s))
<1>3. /\ svcs \in Seq(SvcType) /\ Len(svcs) = Len(p.svcs) + 1 /\ svcs[Len(p.svcs) + 1] = NewSvc(s)
      /\ Len(p.svcs) \in Nat /\ \A i \in 1 .. Len(p.svcs) : svcs[i] = p.svcs[i]
  BY <1>1, <1>2, AtTheEnd
<1>. DEFINE w == [p EXCEPT !.svcs = svcs]
<1>4. WithSvc(p, s) = w
  BY DEF WithSvc
<1>. HIDE DEF svcs
<1>5. w \in PeerType /\ w.svcs = svcs /\ w.prev = p.prev /\ w.cur = p.cur /\ w.used = p.used
  BY <1>3 DEF PeerType
<1>. HIDE DEF w
<1>6. \A i \in 1 .. Len(svcs) : i \in 1 .. Len(p.svcs) \/ i = Len(p.svcs) + 1
  BY <1>3
<1>. QED BY <1>1, <1>3, <1>4, <1>5, <1>6 DEF Appended

\* peer_svc_add appends.
LEMMA SvcAddIs ==
  ASSUME NEW c, NEW d \in Databases, Fits(d, peer[c], proc[c]), proc[c].kind = "svcs",
         NEW s \in d.svcs, proc[c].last < s.start
  PROVE  SvcAdd(c, s) = Added(c, pool.svc > 0, WithSvc(peer[c], s), [Nothing EXCEPT !.svc = 1])
<1>. DEFINE p == peer[c]
            svcs == peer[c].svcs
<1>1. svcs \in Seq(SvcType) /\ Len(svcs) \in Nat /\ p \in PeerType /\ proc[c] \in ProcType
      /\ \A i \in 1 .. Len(svcs) : svcs[i] \in SvcType
  BY DEF Fits, PeerType
<1>2. s.start \in Nat /\ s.end \in Nat /\ s.start <= s.end
  BY PeerAssumption DEF WellFormed
<1>3. \A i \in 1 .. Len(svcs) : svcs[i].end < s.start /\ svcs[i].start \in Nat /\ svcs[i].start < s.start
  <2>. SUFFICES ASSUME NEW i \in 1 .. Len(svcs)
                PROVE  svcs[i].end < s.start /\ svcs[i].start \in Nat /\ svcs[i].start < s.start
    OBVIOUS
  <2>1. svcs[i].start \in Nat /\ svcs[i].end \in Nat
    BY <1>1 DEF SvcType
  <2>2. svcs[i].start <= svcs[i].end /\ svcs[i].end <= proc[c].last /\ proc[c].last \in Nat
    BY <1>1 DEF Fits, Services, Position, ProcType
  <2>. QED BY SMTT(30), <1>2, <2>1, <2>2
<1>4. FindPrev(svcs, SvcKey, s.start) = Len(svcs) /\ Find(svcs, SvcKey, s.start) = 0
  BY <1>1, <1>3, FindPrevAll DEF SvcKey
<1>5. InsertAfter(svcs, Len(svcs), NewSvc(s)) = Append(svcs, NewSvc(s))
  <2>1. NewSvc(s) \in SvcType
    BY <1>1, SvcAppended DEF Appended
  <2>. QED BY <1>1, <2>1, AtTheEnd
<1>. QED BY <1>4, <1>5 DEF SvcAdd, WithSvc, NewSvc

\* peer_svc_add: the service comes behind the others.
LEMMA SvcAddGood ==
  ASSUME NEW c, NEW d \in Databases, Fits(d, peer[c], proc[c]), proc[c].kind = "svcs",
         NEW s \in d.svcs, proc[c].last < s.start, NEW o \in GoesOn(SvcAdd(c, s), s.end)
  PROVE  Good(d, o)
<1>. DEFINE svcs == peer[c].svcs
            w == WithSvc(peer[c], s)
            q == [proc[c] EXCEPT !.last = s.end]
<1>1. peer[c] \in PeerType /\ proc[c] \in ProcType /\ Services(d, svcs)
      /\ \A i \in 1 .. Len(svcs) : svcs[i].end <= proc[c].last
  BY DEF Fits, Position
<1>2. s.start \in Nat /\ s.end \in Nat /\ s.start <= s.end /\ proc[c].last \in Nat
  BY <1>1, PeerAssumption DEF WellFormed, ProcType
<1>3. /\ w \in PeerType /\ w.cur = peer[c].cur
      /\ Len(svcs) \in Nat /\ Len(w.svcs) = Len(svcs) + 1 /\ w.svcs[Len(svcs) + 1] = NewSvc(s)
      /\ \A i \in 1 .. Len(svcs) : w.svcs[i] = svcs[i]
      /\ \A i \in 1 .. Len(w.svcs) : i \in 1 .. Len(svcs) \/ i = Len(svcs) + 1
  BY <1>1, SvcAppended DEF Appended
<1>4. /\ NewSvc(s).start = s.start /\ NewSvc(s).end = s.end /\ IsSvc(NewSvc(s), s)
      /\ Characteristics(d, NewSvc(s))
  BY DEF NewSvc, IsSvc, Characteristics
<1>5. \A i \in 1 .. Len(svcs) : svcs[i].end \in Nat
  <2>1. svcs \in Seq(SvcType)
    BY <1>1 DEF PeerType
  <2>2. \A i \in 1 .. Len(svcs) : svcs[i] \in SvcType
    BY <2>1
  <2>. QED BY <2>2 DEF SvcType
<1>. HIDE DEF w, svcs
<1>6. Services(d, w.svcs)
  <2>1. \A i \in 1 .. Len(w.svcs) :
          /\ w.svcs[i].start <= w.svcs[i].end /\ Characteristics(d, w.svcs[i])
          /\ \E t \in d.svcs : IsSvc(w.svcs[i], t)
    <3>. SUFFICES ASSUME NEW i \in 1 .. Len(w.svcs)
                  PROVE  /\ w.svcs[i].start <= w.svcs[i].end /\ Characteristics(d, w.svcs[i])
                         /\ \E t \in d.svcs : IsSvc(w.svcs[i], t)
      OBVIOUS
    <3>1. CASE i \in 1 .. Len(svcs)
      BY <1>1, <1>3, <3>1 DEF Services
    <3>2. CASE i = Len(svcs) + 1
      BY <1>2, <1>3, <1>4, <3>2
    <3>. QED BY <1>3, <3>1, <3>2
  <2>2. \A i, j \in 1 .. Len(w.svcs) : i < j => w.svcs[i].end < w.svcs[j].start
    <3>. SUFFICES ASSUME NEW i \in 1 .. Len(w.svcs), NEW j \in 1 .. Len(w.svcs), i < j
                  PROVE  w.svcs[i].end < w.svcs[j].start
      OBVIOUS
    <3>1. i \in 1 .. Len(svcs)
      BY <1>3
    <3>2. CASE j \in 1 .. Len(svcs)
      BY <1>1, <1>3, <3>1, <3>2 DEF Services
    <3>3. CASE j = Len(svcs) + 1
      BY <1>1, <1>2, <1>3, <1>4, <1>5, <3>1, <3>3
    <3>. QED BY <1>3, <3>2, <3>3
  <2>. QED BY <2>1, <2>2 DEF Services
<1>7. \A i \in 1 .. Len(w.svcs) : w.svcs[i].end <= s.end
  BY SMTT(30), <1>1, <1>2, <1>3, <1>4, <1>5
<1>8. q \in ProcType /\ q.kind = "svcs" /\ q.last = s.end
  BY <1>1, <1>2 DEF ProcType
<1>9. Fits(d, w, q)
  <2>. HIDE DEF q
  <2>. QED BY <1>3, <1>6, <1>7, <1>8 DEF Fits, Position
<1>10. proc[c] # NoProc
  BY DEF NoProc
<1>11. o \in GoesOn(Added(c, pool.svc > 0, w, [Nothing EXCEPT !.svc = 1]), s.end)
  BY SvcAddIs DEF w
<1>. QED BY <1>9, <1>10, <1>11, AddedGood

\* The lists of a peer have their types, and its services are found by their start.
LEMMA ListTypes ==
  ASSUME NEW d \in Databases, NEW p, NEW q, Fits(d, p, q)
  PROVE  /\ p.svcs \in Seq(SvcType) /\ Len(p.svcs) \in Nat /\ Services(d, p.svcs)
         /\ \A i \in 1 .. Len(p.svcs) :
              /\ p.svcs[i] \in SvcType /\ Characteristics(d, p.svcs[i])
              /\ p.svcs[i].start \in Nat /\ p.svcs[i].end \in Nat /\ p.svcs[i].start <= p.svcs[i].end
              /\ p.svcs[i].chrs \in Seq(ChrType) /\ Len(p.svcs[i].chrs) \in Nat
              /\ Find(p.svcs, SvcKey, p.svcs[i].start) = i
<1>1. p.svcs \in Seq(SvcType) /\ Len(p.svcs) \in Nat /\ Services(d, p.svcs)
  BY DEF Fits, PeerType
<1>2. \A i \in 1 .. Len(p.svcs) :
        /\ p.svcs[i] \in SvcType /\ Characteristics(d, p.svcs[i])
        /\ p.svcs[i].start \in Nat /\ p.svcs[i].end \in Nat /\ p.svcs[i].start <= p.svcs[i].end
        /\ p.svcs[i].chrs \in Seq(ChrType) /\ Len(p.svcs[i].chrs) \in Nat
  <2>. SUFFICES ASSUME NEW i \in 1 .. Len(p.svcs)
                PROVE  /\ p.svcs[i] \in SvcType /\ Characteristics(d, p.svcs[i])
                       /\ p.svcs[i].start \in Nat /\ p.svcs[i].end \in Nat /\ p.svcs[i].start <= p.svcs[i].end
                       /\ p.svcs[i].chrs \in Seq(ChrType) /\ Len(p.svcs[i].chrs) \in Nat
    OBVIOUS
  <2>1. p.svcs[i] \in SvcType
    BY <1>1
  <2>2. p.svcs[i].start \in Nat /\ p.svcs[i].end \in Nat /\ p.svcs[i].chrs \in Seq(ChrType)
    BY <2>1 DEF SvcType
  <2>3. Characteristics(d, p.svcs[i]) /\ p.svcs[i].start <= p.svcs[i].end
    BY <1>1 DEF Services
  <2>. QED BY <2>1, <2>2, <2>3
<1>3. ASSUME NEW i \in 1 .. Len(p.svcs) PROVE Find(p.svcs, SvcKey, p.svcs[i].start) = i
  <2>1. \A k \in 1 .. Len(p.svcs) : k < i => p.svcs[k].start < p.svcs[i].start
    <3>1. \A k \in 1 .. Len(p.svcs) : k < i => p.svcs[k].end < p.svcs[i].start
      BY <1>1 DEF Services
    <3>. QED BY <1>2, <3>1
  <2>. QED BY <1>1, <1>2, <2>1, FindAt DEF SvcKey
<1>. QED BY <1>1, <1>2, <1>3

\* One service has other characteristics, and nothing else changes.
LEMMA ChrsChanged ==
  ASSUME NEW p \in PeerType, NEW i \in 1 .. Len(p.svcs), NEW chrs \in Seq(ChrType)
  PROVE  SvcKept(p, i, WithChrs(p, i, chrs)) /\ WithChrs(p, i, chrs).svcs[i].chrs = chrs
<1>. DEFINE s == [p.svcs[i] EXCEPT !.chrs = chrs]
            svcs == [p.svcs EXCEPT ![i] = s]
<1>1. p.svcs \in Seq(SvcType)
  BY DEF PeerType
<1>2. p.svcs[i] \in SvcType
  BY <1>1
<1>3. s \in SvcType /\ s.chrs = chrs /\ IsSvc(s, p.svcs[i])
  BY <1>2 DEF SvcType, IsSvc
<1>. HIDE DEF s
<1>4. svcs \in Seq(SvcType) /\ Len(svcs) = Len(p.svcs) /\ svcs[i] = s
      /\ \A k \in 1 .. Len(p.svcs) : k # i => svcs[k] = p.svcs[k]
  BY <1>1, <1>3
<1>. DEFINE w == [p EXCEPT !.svcs = svcs]
<1>5. WithChrs(p, i, chrs) = w
  BY DEF WithChrs, s
<1>. HIDE DEF svcs
<1>6. w \in PeerType /\ w.svcs = svcs /\ w.prev = p.prev /\ w.cur = p.cur /\ w.used = p.used
  BY <1>4 DEF PeerType
<1>. HIDE DEF w
<1>. QED BY <1>3, <1>4, <1>5, <1>6 DEF SvcKept

\* A characteristic comes behind the others of its service.
LEMMA ChrAppended ==
  ASSUME NEW d \in Databases, NEW x \in d.chrs, NEW p \in PeerType, NEW i \in 1 .. Len(p.svcs),
         NEW chrs, chrs = p.svcs[i].chrs
  PROVE  SvcKept(p, i, WithChr(p, i, x)) /\ Longer(chrs, x, WithChr(p, i, x).svcs[i].chrs)
<1>1. NewChr(x) \in ChrType
  BY PeerAssumption DEF WellFormed, NewChr, ChrType, Uuids
<1>2. p.svcs[i] \in SvcType
  BY DEF PeerType
<1>3. chrs \in Seq(ChrType)
  BY <1>2 DEF SvcType
<1>. DEFINE more == Append(chrs, NewChr(x))
<1>4. /\ more \in Seq(ChrType) /\ Len(more) = Len(chrs) + 1 /\ more[Len(chrs) + 1] = NewChr(x)
      /\ Len(chrs) \in Nat /\ \A j \in 1 .. Len(chrs) : more[j] = chrs[j]
  BY <1>1, <1>3, AtTheEnd
<1>5. WithChr(p, i, x) = WithChrs(p, i, more)
  BY DEF WithChr
<1>. HIDE DEF more
<1>6. SvcKept(p, i, WithChrs(p, i, more)) /\ WithChrs(p, i, more).svcs[i].chrs = more
  BY <1>4, ChrsChanged
<1>7. Longer(chrs, x, more)
  BY <1>1, <1>3, <1>4 DEF Longer
<1>. QED BY <1>5, <1>6, <1>7

\* What a database says of a characteristic: its value lies behind it and before the next.
LEMMA ChrFacts ==
  ASSUME NEW d \in Databases, NEW x \in d.chrs
  PROVE  /\ x.def \in Nat /\ x.val \in Nat /\ x.def < x.val
         /\ \A y \in d.chrs : y.def \in Nat /\ y.val \in Nat /\ (y.def < x.def => y.val < x.def)
         /\ \A y \in d.chrs : y.def = x.def => y = x
         /\ \A s \in d.svcs : s.start <= x.def /\ x.def <= s.end => s.start < x.def /\ x.val <= s.end
<1>1. WellFormed(d)
  BY PeerAssumption
<1>2. x.def \in Nat /\ x.val \in Nat /\ x.def < x.val
  BY <1>1 DEF WellFormed
<1>3. ASSUME NEW y \in d.chrs
      PROVE  /\ y.def \in Nat /\ y.val \in Nat /\ (y.def < x.def => y.val < x.def)
             /\ y.def = x.def => y = x
  <2>1. y.def \in Nat /\ y.val \in Nat /\ y.def < y.val /\ (x = y \/ x.val < y.def \/ y.val < x.def)
    BY <1>1 DEF WellFormed
  <2>. QED BY <1>2, <2>1
<1>4. ASSUME NEW s \in d.svcs, s.start <= x.def, x.def <= s.end PROVE s.start < x.def /\ x.val <= s.end
  <2>1. PICK t \in d.svcs : t.start < x.def /\ x.val <= t.end
    BY <1>1 DEF WellFormed
  <2>2. /\ s.start \in Nat /\ s.end \in Nat /\ t.start \in Nat /\ t.end \in Nat
        /\ s = t \/ s.end < t.start \/ t.end < s.start
    BY <1>1 DEF WellFormed
  <2>. QED BY <1>2, <1>4, <2>1, <2>2
<1>. QED BY <1>2, <1>3, <1>4

\* peer_chr_add finds the service asked about and appends to it.
LEMMA ChrAddIs ==
  ASSUME NEW c, NEW d \in Databases, Fits(d, peer[c], proc[c]), proc[c].kind = "chrs",
         NEW x \in d.chrs, proc[c].last < x.def,
         NEW i \in 1 .. Len(peer[c].svcs), peer[c].svcs[i].start = peer[c].cur
  PROVE  /\ ChrAdd(c, x) = Added(c, pool.chr > 0, WithChr(peer[c], i, x), [Nothing EXCEPT !.chr = 1])
         /\ peer[c].svcs[i].end = proc[c].end /\ peer[c].cur <= proc[c].last + 1
         /\ \A j \in 1 .. Len(peer[c].svcs[i].chrs) :
              peer[c].svcs[i].chrs[j].def <= proc[c].last /\ peer[c].svcs[i].chrs[j].val < x.def
<1>. DEFINE p == peer[c]
            svcs == peer[c].svcs
            chrs == svcs[i].chrs
<1>1. Find(svcs, SvcKey, p.cur) = i
  <2>1. Find(svcs, SvcKey, svcs[i].start) = i
    BY ListTypes
  <2>. QED BY <2>1
<1>2. /\ svcs[i].end = proc[c].end /\ p.cur <= proc[c].last + 1
      /\ \A j \in 1 .. Len(chrs) : chrs[j].def <= proc[c].last
  <2>1. PICK k \in 1 .. Len(svcs) :
          /\ svcs[k].start = p.cur /\ svcs[k].end = proc[c].end /\ p.cur <= proc[c].last + 1
          /\ \A j \in 1 .. Len(svcs[k].chrs) : svcs[k].chrs[j].def <= proc[c].last
    BY DEF Fits, Position
  <2>2. Find(svcs, SvcKey, svcs[k].start) = k
    BY ListTypes
  <2>3. k = i
    BY <1>1, <2>1, <2>2
  <2>. QED BY <2>1, <2>3
<1>3. chrs \in Seq(ChrType) /\ Len(chrs) \in Nat /\ Characteristics(d, svcs[i])
  BY ListTypes
<1>4. p \in PeerType /\ proc[c].last \in Nat
  BY DEF Fits, ProcType
<1>5. \A j \in 1 .. Len(chrs) : chrs[j].val \in Nat /\ chrs[j].val < x.def
  <2>. SUFFICES ASSUME NEW j \in 1 .. Len(chrs) PROVE chrs[j].val \in Nat /\ chrs[j].val < x.def
    OBVIOUS
  <2>1. PICK y \in d.chrs : chrs[j].def = y.def /\ chrs[j].val = y.val
    BY <1>3 DEF Characteristics, IsChr
  <2>2. chrs[j].def <= proc[c].last
    BY <1>2
  <2>3. x.def \in Nat /\ y.def \in Nat /\ y.val \in Nat /\ (y.def < x.def => y.val < x.def)
    BY ChrFacts
  <2>. QED BY <1>4, <2>1, <2>2, <2>3
<1>6. FindPrev(chrs, ChrKey, x.def) = Len(chrs) /\ Find(chrs, ChrKey, x.def) = 0
  <2>. HIDE DEF chrs
  <2>. QED BY <1>3, <1>5, FindPrevAll DEF ChrKey
<1>7. LinkAfter(chrs, Len(chrs), NewChr(x)) = Append(chrs, NewChr(x))
  <2>1. NewChr(x) \in ChrType
    BY <1>4, ChrAppended DEF Longer
  <2>. HIDE DEF chrs
  <2>. QED BY <1>3, <2>1, AtTheEnd
<1>8. ChrAdd(c, x) = Added(c, pool.chr > 0, [p EXCEPT !.svcs[i].chrs = LinkAfter(p.svcs[i].chrs, Len(chrs), NewChr(x))], [Nothing EXCEPT !.chr = 1])
  BY <1>1, <1>6 DEF ChrAdd, NewChr
<1>9. [p EXCEPT !.svcs[i].chrs = Append(chrs, NewChr(x))] = WithChr(p, i, x)
  BY DEF WithChr, WithChrs
<1>10. ChrAdd(c, x) = Added(c, pool.chr > 0, WithChr(p, i, x), [Nothing EXCEPT !.chr = 1])
  BY <1>7, <1>8, <1>9
<1>. QED BY <1>2, <1>5, <1>10

\* peer_chr_add: the characteristic comes behind the others of its service.
LEMMA ChrAddGood ==
  ASSUME NEW c, NEW d \in Databases, Fits(d, peer[c], proc[c]), proc[c].kind = "chrs",
         NEW x \in d.chrs, proc[c].last < x.def, x.def <= proc[c].end,
         NEW o \in GoesOn(ChrAdd(c, x), x.def)
  PROVE  Good(d, o)
<1>. DEFINE p == peer[c]
            svcs == peer[c].svcs
            q == [proc[c] EXCEPT !.last = x.def]
<1>1. PICK i \in 1 .. Len(svcs) : svcs[i].start = p.cur
  BY DEF Fits, Position
<1>. DEFINE chrs == svcs[i].chrs
            w == WithChr(p, i, x)
            chrs2 == w.svcs[i].chrs
<1>2. /\ ChrAdd(c, x) = Added(c, pool.chr > 0, w, [Nothing EXCEPT !.chr = 1])
      /\ svcs[i].end = proc[c].end /\ p.cur <= proc[c].last + 1
      /\ \A j \in 1 .. Len(chrs) : chrs[j].def <= proc[c].last /\ chrs[j].val < x.def
  BY <1>1, ChrAddIs
<1>a. \A j \in 1 .. Len(chrs) : chrs[j].def <= proc[c].last /\ chrs[j].val < x.def
  BY <1>2
<1>3. /\ p \in PeerType /\ proc[c] \in ProcType /\ proc[c].last \in Nat /\ p.cur \in Nat
      /\ svcs[i].start \in Nat /\ svcs[i].end \in Nat /\ Services(d, svcs) /\ Characteristics(d, svcs[i])
  <2>1. p \in PeerType /\ proc[c] \in ProcType
    BY DEF Fits
  <2>2. svcs[i].start \in Nat /\ svcs[i].end \in Nat /\ Services(d, svcs) /\ Characteristics(d, svcs[i])
    BY ListTypes
  <2>. QED BY <2>1, <2>2 DEF PeerType, ProcType
<1>4. w \in PeerType /\ w.cur = p.cur /\ SvcKept(p, i, w) /\ Longer(chrs, x, chrs2)
  <2>1. SvcKept(p, i, w) /\ Longer(chrs, x, chrs2)
    BY <1>3, ChrAppended
  <2>. QED BY <2>1 DEF SvcKept
<1>5. /\ IsChr(NewChr(x), x) /\ NewChr(x).def = x.def /\ NewChr(x).val = x.val
      /\ x.def \in Nat /\ x.val \in Nat /\ x.def < x.val
  BY ChrFacts DEF NewChr, IsChr
<1>6. svcs[i].start <= x.def /\ x.val <= svcs[i].end
  <2>1. PICK s \in d.svcs : svcs[i].start = s.start /\ svcs[i].end = s.end
    BY <1>3 DEF Services, IsSvc
  <2>2. s.start <= x.def /\ x.def <= s.end
    BY <1>1, <1>2, <1>3, <1>5, <2>1
  <2>. QED BY <2>1, <2>2, ChrFacts
<1>7. \A j \in 1 .. Len(chrs) : chrs[j].def \in Nat /\ chrs[j].val \in Nat
  BY <1>4 DEF ChrType, Longer
<1>8. /\ \A j \in 1 .. Len(chrs) : /\ svcs[i].start <= chrs[j].def /\ chrs[j].def < chrs[j].val
                                   /\ chrs[j].val <= svcs[i].end /\ \E y \in d.chrs : IsChr(chrs[j], y)
      /\ \A j, k \in 1 .. Len(chrs) : j < k => chrs[j].val < chrs[k].val
  BY <1>3 DEF Characteristics
<1>. HIDE DEF w, chrs
<1>9. Characteristics(d, w.svcs[i])
  <2>1. w.svcs[i].start = svcs[i].start /\ w.svcs[i].end = svcs[i].end
    BY <1>4 DEF SvcKept, IsSvc
  <2>. HIDE DEF chrs2
  <2>2. \A j \in 1 .. Len(chrs2) :
          /\ svcs[i].start <= chrs2[j].def /\ chrs2[j].def < chrs2[j].val /\ chrs2[j].val <= svcs[i].end
          /\ \E y \in d.chrs : IsChr(chrs2[j], y)
    <3>. SUFFICES ASSUME NEW j \in 1 .. Len(chrs2)
                  PROVE  /\ svcs[i].start <= chrs2[j].def /\ chrs2[j].def < chrs2[j].val
                         /\ chrs2[j].val <= svcs[i].end /\ \E y \in d.chrs : IsChr(chrs2[j], y)
      OBVIOUS
    <3>1. CASE j \in 1 .. Len(chrs)
      BY <1>4, <1>8, <3>1 DEF Longer
    <3>2. CASE j = Len(chrs) + 1
      BY <1>4, <1>5, <1>6, <3>2 DEF Longer
    <3>. QED BY <1>4, <3>1, <3>2 DEF Longer
  <2>3. \A j, k \in 1 .. Len(chrs2) : j < k => chrs2[j].val < chrs2[k].val
    <3>. SUFFICES ASSUME NEW j \in 1 .. Len(chrs2), NEW k \in 1 .. Len(chrs2), j < k
                  PROVE  chrs2[j].val < chrs2[k].val
      OBVIOUS
    <3>1. j \in 1 .. Len(chrs)
      BY <1>4 DEF Longer
    <3>2. CASE k \in 1 .. Len(chrs)
      BY <1>4, <1>8, <3>1, <3>2 DEF Longer
    <3>3. CASE k = Len(chrs) + 1
      <4>1. chrs2[j] = chrs[j] /\ chrs2[k] = NewChr(x)
        BY <1>4, <3>1, <3>3 DEF Longer
      <4>. QED BY <1>5, <1>7, <1>a, <3>1, <4>1
    <3>. QED BY <1>4, <3>2, <3>3 DEF Longer
  <2>4. chrs2 = w.svcs[i].chrs
    BY DEF chrs2
  <2>. QED BY <2>1, <2>2, <2>3, <2>4 DEF Characteristics
<1>10. Services(d, w.svcs)
  <2>1. w.svcs[i] \in SvcType /\ IsSvc(w.svcs[i], svcs[i]) /\ Characteristics(d, w.svcs[i])
    BY <1>4, <1>9 DEF SvcKept
  <2>2. svcs \in Seq(SvcType) /\ w.svcs \in Seq(SvcType)
    BY <1>3, <1>4 DEF PeerType
  <2>. QED BY <1>3, <1>4, <2>1, <2>2, ServiceUpdate DEF SvcKept
<1>11. q \in ProcType /\ q.kind = "chrs" /\ q.last = x.def /\ q.end = proc[c].end
  BY <1>3, <1>5 DEF ProcType
<1>12. \A j \in 1 .. Len(chrs2) : chrs2[j].def <= x.def
  <2>1. \A j \in 1 .. Len(chrs) : chrs[j].def <= x.def
    BY <1>3, <1>5, <1>7, <1>a
  <2>. HIDE DEF chrs2
  <2>. QED BY <1>4, <1>5, <2>1 DEF Longer
<1>13. Position(w.svcs, w.cur, q)
  <2>1. w.svcs[i].start = w.cur /\ w.svcs[i].end = q.end /\ w.cur <= q.last + 1
    BY SMTT(30), <1>1, <1>2, <1>3, <1>4, <1>5, <1>11 DEF SvcKept, IsSvc
  <2>. HIDE DEF q
  <2>. QED BY <1>4, <1>11, <1>12, <2>1 DEF Position, SvcKept
<1>14. Fits(d, w, q)
  BY <1>4, <1>10, <1>11, <1>13 DEF Fits
<1>15. proc[c] # NoProc
  BY DEF NoProc
<1>16. o \in GoesOn(Added(c, pool.chr > 0, w, [Nothing EXCEPT !.chr = 1]), x.def)
  BY <1>2
<1>. QED BY <1>14, <1>15, <1>16, AddedGood

\* Every attribute of a database has a handle.
LEMMA AttributeTypes ==
  ASSUME NEW d \in Databases, NEW e \in Attributes(d)
  PROVE  e \in Attrs /\ e.handle \in Nat
<1>1. CASE e \in d.dscs
  BY <1>1, PeerAssumption DEF Attrs, WellFormed
<1>2. CASE \E s \in d.svcs : e = [handle |-> s.start, uuid |-> "service"]
  BY <1>2, PeerAssumption DEF Attrs, WellFormed
<1>3. CASE \E x \in d.chrs : e = [handle |-> x.def, uuid |-> "declaration"]
  BY <1>3, PeerAssumption DEF Attrs, WellFormed
<1>4. CASE \E x \in d.chrs : e = [handle |-> x.val, uuid |-> x.uuid]
  BY <1>4, PeerAssumption DEF Attrs, WellFormed
<1>. QED BY <1>1, <1>2, <1>3, <1>4 DEF Attributes

\* Characteristics with other descriptors stay in their places.
LEMMA CharsKept ==
  ASSUME NEW d, NEW t, Characteristics(d, t), NEW s, s.start = t.start, s.end = t.end,
         Len(s.chrs) = Len(t.chrs),
         \A k \in 1 .. Len(t.chrs) : IsChr(s.chrs[k], t.chrs[k])
  PROVE  Characteristics(d, s)
BY DEF Characteristics, IsChr

\* The characteristic whose descriptors are asked for is found in its service.
LEMMA KeyFound ==
  ASSUME NEW d, NEW svcs \in Seq(SvcType), Services(d, svcs), NEW i \in 1 .. Len(svcs),
         NEW chrs, chrs = svcs[i].chrs, NEW j \in 1 .. Len(chrs), NEW val, val = chrs[j].val
  PROVE  FindRange(svcs, val) = i /\ Find(chrs, ChrKey, val) = j
<1>. DEFINE I == {n \in 1 .. Len(svcs) : svcs[n].start <= val /\ val <= svcs[n].end}
<1>1. /\ Len(svcs) \in Nat /\ Len(chrs) \in Nat /\ chrs \in Seq(ChrType) /\ Characteristics(d, svcs[i])
      /\ \A n \in 1 .. Len(svcs) : svcs[n].start \in Nat /\ svcs[n].end \in Nat
  <2>1. \A n \in 1 .. Len(svcs) : svcs[n] \in SvcType
    OBVIOUS
  <2>2. \A n \in 1 .. Len(svcs) : svcs[n].start \in Nat /\ svcs[n].end \in Nat /\ svcs[n].chrs \in Seq(ChrType)
    BY <2>1 DEF SvcType
  <2>3. chrs \in Seq(ChrType)
    BY <2>2
  <2>4. Characteristics(d, svcs[i])
    BY DEF Services
  <2>. QED BY <2>2, <2>3, <2>4
<1>2. /\ \A k \in 1 .. Len(chrs) :
           svcs[i].start <= chrs[k].def /\ chrs[k].def < chrs[k].val /\ chrs[k].val <= svcs[i].end
      /\ \A k, m \in 1 .. Len(chrs) : k < m => chrs[k].val < chrs[m].val
  BY <1>1 DEF Characteristics
<1>3. \A n, m \in 1 .. Len(svcs) : n < m => svcs[n].end < svcs[m].start
  BY DEF Services
<1>4. \A k \in 1 .. Len(chrs) : chrs[k].val \in Nat /\ chrs[k].def \in Nat
  <2>1. \A k \in 1 .. Len(chrs) : chrs[k] \in ChrType
    BY <1>1
  <2>. QED BY <2>1 DEF ChrType
<1>5. /\ j \in 1 .. Len(chrs) /\ i \in 1 .. Len(svcs)
      /\ svcs[i].start \in Nat /\ svcs[i].end \in Nat
  BY <1>1
<1>6. Find(chrs, ChrKey, val) = j
  <2>1. /\ \A k \in 1 .. Len(chrs) : chrs[k][ChrKey] \in Nat
        /\ \A k \in 1 .. Len(chrs) : k < j => chrs[k][ChrKey] < chrs[j][ChrKey]
    BY <1>2, <1>4, <1>5 DEF ChrKey
  <2>2. Find(chrs, ChrKey, chrs[j][ChrKey]) = j
    BY <1>1, <1>5, <2>1, FindAt
  <2>. QED BY <2>2 DEF ChrKey
<1>7. svcs[i].start <= val /\ val <= svcs[i].end /\ val \in Nat
  <2>1. svcs[i].start <= chrs[j].def /\ chrs[j].def < val /\ val <= svcs[i].end
    BY <1>2, <1>5
  <2>2. chrs[j].def \in Nat /\ val \in Nat
    BY <1>4, <1>5
  <2>. QED BY <1>5, <2>1, <2>2
<1>8. I = {i}
  <2>1. ASSUME NEW n \in I PROVE n = i
    <3>1. n \in 1 .. Len(svcs) /\ svcs[n].start <= val /\ val <= svcs[n].end
      OBVIOUS
    <3>2. svcs[n].start \in Nat /\ svcs[n].end \in Nat
      BY <1>1, <3>1
    <3>3. n < i => svcs[n].end < svcs[i].start
      BY <1>3, <1>5, <3>1
    <3>4. i < n => svcs[i].end < svcs[n].start
      BY <1>3, <1>5, <3>1
    <3>. QED BY SMTT(30), <1>5, <1>7, <3>1, <3>2, <3>3, <3>4
  <2>2. i \in I
    BY <1>5, <1>7
  <2>. QED BY <2>1, <2>2
<1>9. Min(I) \in I
  <2>1. I \in SUBSET (1 .. Len(svcs))
    OBVIOUS
  <2>. HIDE DEF I
  <2>. QED BY <1>1, <1>8, <2>1, SelectFinds
<1>10. FindRange(svcs, val) = i
  <2>1. SelectInSeq(svcs, LAMBDA s : s.start <= val /\ val <= s.end) = IF I # {} THEN Min(I) ELSE 0
    BY DEF SelectInSeq
  <2>. QED BY <1>8, <1>9, <2>1 DEF FindRange
<1>. QED BY <1>6, <1>10

\* One characteristic has other descriptors, and nothing else changes.
LEMMA DscsChanged ==
  ASSUME NEW p \in PeerType, NEW i \in 1 .. Len(p.svcs), NEW chrs, chrs = p.svcs[i].chrs,
         NEW j \in 1 .. Len(chrs), NEW dscs \in Seq(Attrs)
  PROVE  SvcKept(p, i, WithDscs(p, i, j, dscs)) /\ Redescribed(chrs, j, dscs, WithDscs(p, i, j, dscs).svcs[i].chrs)
<1>. DEFINE x == [chrs[j] EXCEPT !.dscs = dscs]
            new == [chrs EXCEPT ![j] = x]
<1>1. p.svcs[i] \in SvcType
  BY DEF PeerType
<1>2. chrs \in Seq(ChrType) /\ Len(chrs) \in Nat
  BY <1>1 DEF SvcType
<1>3. chrs[j] \in ChrType
  BY <1>2
<1>4. x \in ChrType /\ x.dscs = dscs /\ IsChr(x, chrs[j])
  BY <1>3 DEF ChrType, IsChr
<1>. HIDE DEF x
<1>5. new \in Seq(ChrType) /\ Len(new) = Len(chrs) /\ new[j] = x
      /\ \A k \in 1 .. Len(chrs) : k # j => new[k] = chrs[k]
  BY <1>2, <1>4
<1>6. WithDscs(p, i, j, dscs) = WithChrs(p, i, new)
  BY DEF WithDscs, x
<1>. HIDE DEF new
<1>7. SvcKept(p, i, WithChrs(p, i, new)) /\ WithChrs(p, i, new).svcs[i].chrs = new
  BY <1>5, ChrsChanged
<1>8. Redescribed(chrs, j, dscs, new)
  BY <1>2, <1>4, <1>5 DEF Redescribed, IsChr
<1>. QED BY <1>6, <1>7, <1>8

\* Three assignments deep: the descriptors of one characteristic change.
LEMMA DscsSet ==
  ASSUME NEW p, NEW i, NEW j, NEW dscs
  PROVE  [p EXCEPT !.svcs[i].chrs[j].dscs = dscs] = WithDscs(p, i, j, dscs)
BY DEF WithDscs, WithChrs

\* peer_dsc_add, once it has the characteristic with its descriptors.
DscKept(c, i, j, e, dscs) ==
  IF Find(dscs, DscKey, e.handle) # 0 THEN Added(c, TRUE, peer[c], Nothing)
  ELSE Added(c, pool.dsc > 0, WithDscs(peer[c], i, j, LinkAfter(dscs, FindPrev(dscs, DscKey, e.handle), e)),
             [Nothing EXCEPT !.dsc = 1])

\* peer_dsc_add finds the characteristic asked about.
LEMMA DscAddFinds ==
  ASSUME NEW c, NEW d \in Databases, Fits(d, peer[c], proc[c]),
         NEW i \in 1 .. Len(peer[c].svcs), NEW j \in 1 .. Len(peer[c].svcs[i].chrs),
         peer[c].svcs[i].chrs[j].val = proc[c].key, NEW e
  PROVE  DscAdd(c, proc[c].key, e) = DscKept(c, i, j, e, peer[c].svcs[i].chrs[j].dscs)
<1>. DEFINE svcs == peer[c].svcs
            chrs == svcs[i].chrs
            dscs == chrs[j].dscs
            n == FindPrev(dscs, DscKey, e.handle)
<1>1. FindRange(svcs, proc[c].key) = i /\ Find(chrs, ChrKey, proc[c].key) = j
  <2>1. svcs \in Seq(SvcType) /\ Services(d, svcs)
    BY DEF Fits, PeerType
  <2>2. chrs = svcs[i].chrs /\ proc[c].key = chrs[j].val /\ j \in 1 .. Len(chrs)
    OBVIOUS
  <2>. HIDE DEF chrs
  <2>. QED BY <2>1, <2>2, KeyFound
<1>2. i # 0 /\ j # 0
  OBVIOUS
<1>3. [peer[c] EXCEPT !.svcs[i].chrs[j].dscs = LinkAfter(dscs, n, e)] = WithDscs(peer[c], i, j, LinkAfter(dscs, n, e))
  BY DscsSet
<1>4. DscAdd(c, proc[c].key, e) =
        IF Find(dscs, DscKey, e.handle) # 0 THEN Added(c, TRUE, peer[c], Nothing)
        ELSE Added(c, pool.dsc > 0, [peer[c] EXCEPT !.svcs[i].chrs[j].dscs = LinkAfter(dscs, n, e)],
                   [Nothing EXCEPT !.dsc = 1])
  BY <1>1, <1>2 DEF DscAdd
<1>. QED BY <1>3, <1>4 DEF DscKept

\* peer_dsc_add keeps the descriptor.
LEMMA DscAddGood ==
  ASSUME NEW c, NEW d \in Databases, Fits(d, peer[c], proc[c]), proc[c].kind = "dscs",
         NEW e \in Attributes(d), NEW o \in GoesOn(DscAdd(c, proc[c].key, e), e.handle)
  PROVE  Good(d, o)
<1>. DEFINE p == peer[c]
            svcs == peer[c].svcs
            q == [proc[c] EXCEPT !.last = e.handle]
<1>1. PICK i \in 1 .. Len(svcs) : \E j \in 1 .. Len(svcs[i].chrs) : svcs[i].chrs[j].val = proc[c].key
  BY DEF Fits, Position
<1>2. PICK j \in 1 .. Len(svcs[i].chrs) : svcs[i].chrs[j].val = proc[c].key
  BY <1>1
<1>. DEFINE chrs == svcs[i].chrs
            dscs == chrs[j].dscs
            n == FindPrev(dscs, DscKey, e.handle)
            w == WithDscs(p, i, j, LinkAfter(dscs, n, e))
<1>3. DscAdd(c, proc[c].key, e) =
        IF Find(dscs, DscKey, e.handle) # 0 THEN Added(c, TRUE, p, Nothing)
        ELSE Added(c, pool.dsc > 0, w, [Nothing EXCEPT !.dsc = 1])
  <2>1. DscAdd(c, proc[c].key, e) = DscKept(c, i, j, e, peer[c].svcs[i].chrs[j].dscs)
    BY <1>2, DscAddFinds
  <2>. QED BY <2>1 DEF DscKept
<1>4. e \in Attrs /\ e.handle \in Nat
  BY AttributeTypes
<1>5. /\ Services(d, svcs) /\ chrs \in Seq(ChrType) /\ Characteristics(d, svcs[i])
  BY ListTypes
<1>6. p \in PeerType /\ proc[c] \in ProcType
  BY DEF Fits
<1>7. q \in ProcType /\ q.kind = "dscs" /\ q.key = proc[c].key
  BY <1>4, <1>6 DEF ProcType
<1>8. Fits(d, p, q)
  <2>. HIDE DEF q
  <2>. QED BY <1>1, <1>6, <1>7 DEF Fits, Position
<1>9. proc[c] # NoProc
  BY DEF NoProc
<1>10. CASE Find(dscs, DscKey, e.handle) # 0
  <2>1. DscAdd(c, proc[c].key, e) = Added(c, TRUE, p, Nothing)
    BY <1>3, <1>10
  <2>. QED BY <1>8, <1>9, <2>1, AddedGood
<1>11. CASE Find(dscs, DscKey, e.handle) = 0
  <2>1. chrs[j] \in ChrType
    BY <1>5
  <2>2. dscs \in Seq(Attrs) /\ Len(dscs) \in Nat
    BY SMTT(30), <2>1 DEF ChrType
  <2>3. n \in 0 .. Len(dscs)
    BY <2>2, FindPrevRange
  <2>4. LinkAfter(dscs, n, e) \in Seq(Attrs)
    <3>. HIDE DEF n, dscs
    <3>. QED BY <1>4, <2>2, <2>3, LinkTypes
  <2>. DEFINE chrs2 == w.svcs[i].chrs
  <2>a. SvcKept(p, i, w) /\ \E more \in Seq(Attrs) : Redescribed(chrs, j, more, chrs2)
    <3>. DEFINE more == LinkAfter(dscs, n, e)
    <3>. HIDE DEF more
    <3>1. more \in Seq(Attrs)
      BY <2>4 DEF more
    <3>2. SvcKept(p, i, WithDscs(p, i, j, more)) /\ Redescribed(chrs, j, more, WithDscs(p, i, j, more).svcs[i].chrs)
      BY <1>2, <1>6, <3>1, DscsChanged
    <3>. QED BY <3>1, <3>2 DEF more
  <2>. HIDE DEF w
  <2>5. /\ w \in PeerType /\ w.cur = p.cur
        /\ Len(w.svcs) = Len(svcs) /\ IsSvc(w.svcs[i], svcs[i])
        /\ \A k \in 1 .. Len(svcs) : k # i => w.svcs[k] = svcs[k]
        /\ Len(chrs2) = Len(chrs) /\ \A k \in 1 .. Len(chrs) : IsChr(chrs2[k], chrs[k])
    BY <2>a DEF SvcKept, Redescribed
  <2>6. Characteristics(d, w.svcs[i])
    <3>1. w.svcs[i].start = svcs[i].start /\ w.svcs[i].end = svcs[i].end
      BY <2>5 DEF IsSvc
    <3>. QED BY <1>5, <2>5, <3>1, CharsKept
  <2>7. Services(d, w.svcs)
    BY <1>5, <2>5, <2>6, ServiceUpdate
  <2>8. Position(w.svcs, w.cur, q)
    <3>1. j \in 1 .. Len(w.svcs[i].chrs) /\ w.svcs[i].chrs[j].val = proc[c].key
      BY <1>2, <2>5 DEF IsChr
    <3>. HIDE DEF q
    <3>. QED BY <1>7, <2>5, <3>1 DEF Position
  <2>9. Fits(d, w, q)
    BY <1>7, <2>5, <2>7, <2>8 DEF Fits
  <2>10. o \in GoesOn(Added(c, pool.dsc > 0, w, [Nothing EXCEPT !.dsc = 1]), e.handle)
    BY <1>3, <1>11
  <2>. HIDE DEF q
  <2>. QED BY <1>9, <2>9, <2>10, AddedGood DEF q
<1>. QED BY <1>10, <1>11

-----------------------------------------------------------------------------
(* The steps.                                                              *)

\* One connection moves on, and the others are not touched.
LEMMA Moved ==
  ASSUME PeerInv, NEW c \in Conns, NEW p, NEW q, Fits(db[c], p, q),
         peer' = [peer EXCEPT ![c] = p], proc' = [proc EXCEPT ![c] = q], db' = db,
         link[c] # "down", link' = link \/ link' = [link EXCEPT ![c] = "closing"],
         NEW r \in {<<>>} \cup {<<x>> : x \in Codes},
         reports' = [reports EXCEPT ![c] = r], q # NoProc => r = <<>>
  PROVE  PeerInv'
<1>1. /\ peer' \in [Conns -> PeerType] /\ proc' \in [Conns -> ProcType]
      /\ db' \in [Conns -> Databases]
      /\ link' \in [Conns -> {"down", "up", "closing"}]
  BY DEF PeerInv, Fits
<1>2. reports' \in [Conns -> {<<>>} \cup {<<x>> : x \in Codes}]
  BY DEF PeerInv
<1>3. ASSUME NEW b \in Conns
      PROVE  /\ Services(db[b], peer'[b].svcs) /\ Position(peer'[b].svcs, peer'[b].cur, proc'[b])
             /\ link'[b] = "down" => peer'[b] = NoPeer /\ proc'[b] = NoProc
             /\ proc'[b] # NoProc => reports'[b] = <<>>
  <2>1. CASE b = c
    <3>1. peer'[b] = p /\ proc'[b] = q /\ reports'[b] = r /\ link'[b] # "down"
      BY <2>1 DEF PeerInv
    <3>. QED BY <2>1, <3>1 DEF Fits
  <2>2. CASE b # c
    <3>1. peer'[b] = peer[b] /\ proc'[b] = proc[b] /\ reports'[b] = reports[b] /\ link'[b] = link[b]
      BY <2>2 DEF PeerInv
    <3>. QED BY <3>1 DEF PeerInv
  <2>. QED BY <2>1, <2>2
<1>. QED BY <1>1, <1>2, <1>3 DEF PeerInv

\* service_disc_complete adds one status and may terminate the link.
LEMMA ReportAdds ==
  ASSUME NEW c \in Conns, NEW p, NEW rc, ServiceDiscComplete(c, p, rc)
  PROVE  /\ reports' = [reports EXCEPT ![c] = Append(reports[c], rc)]
         /\ link' = link \/ link' = [link EXCEPT ![c] = "closing"]
BY DEF ServiceDiscComplete, EnableNotify

\* The invariant, read for one connection.
LEMMA InvFits ==
  ASSUME PeerInv, NEW c \in Conns
  PROVE  Fits(db[c], peer[c], proc[c]) /\ db[c] \in Databases
BY DEF PeerInv, Fits

\* A callback whose outcomes are good keeps the invariant.
LEMMA ReturnInv ==
  ASSUME PeerInv, NEW c \in Conns, proc[c] # NoProc, link[c] # "down", NEW outcomes,
         \A o \in outcomes : Good(db[c], o), Return(c, outcomes)
  PROVE  PeerInv'
<1>1. PICK o \in outcomes :
        /\ peer' = [peer EXCEPT ![c] = o.peer] /\ proc' = [proc EXCEPT ![c] = o.proc] /\ db' = db
        /\ IF o.rc = "none" THEN UNCHANGED <<reports, link, cccd, faults>>
           ELSE ServiceDiscComplete(c, o.peer, o.rc)
  BY DEF Return
<1>2. Fits(db[c], o.peer, o.proc)
      /\ (o.rc = "none" \/ (o.proc = NoProc /\ o.rc \in {"0", "not started", "ENOMEM"}))
  BY DEF Good
<1>3. reports[c] = <<>> /\ reports \in [Conns -> {<<>>} \cup {<<x>> : x \in Codes}]
  BY DEF PeerInv
<1>4. CASE o.rc = "none"
  <2>1. reports' = [reports EXCEPT ![c] = <<>>] /\ link' = link
    BY <1>1, <1>3, <1>4
  <2>. QED BY <1>1, <1>2, <2>1, Moved
<1>5. CASE o.rc # "none"
  <2>1. /\ reports' = [reports EXCEPT ![c] = Append(reports[c], o.rc)]
        /\ link' = link \/ link' = [link EXCEPT ![c] = "closing"]
    BY <1>1, <1>5, ReportAdds
  <2>2. o.rc \in Codes /\ o.proc = NoProc
    BY <1>2, <1>5 DEF Codes
  <2>3. reports' = [reports EXCEPT ![c] = <<o.rc>>]
    BY <1>3, <2>1
  <2>4. <<o.rc>> \in {<<>>} \cup {<<x>> : x \in Codes}
    BY <2>2
  <2>. QED BY <1>1, <1>2, <2>1, <2>2, <2>3, <2>4, Moved
<1>. QED BY <1>4, <1>5

\* A request told from the one before it fits as well.
LEMMA TurnFits ==
  ASSUME NEW d, NEW p, NEW q, Fits(d, p, q), NEW turn \in {0, 1}
  PROVE  Fits(d, p, [q EXCEPT !.turn = turn])
<1>. DEFINE q2 == [q EXCEPT !.turn = turn]
<1>1. q2 \in ProcType /\ q2.kind = q.kind /\ q2.key = q.key /\ q2.last = q.last /\ q2.end = q.end
  BY DEF Fits, ProcType
<1>. HIDE DEF q2
<1>2. Fits(d, p, q2)
  BY <1>1 DEF Fits, Position
<1>. QED BY <1>2 DEF q2

\* Renewed changes the one field.
LEMMA OutcomeTurn ==
  ASSUME NEW x, NEW q, NEW rc, NEW took, NEW turn
  PROVE  [Outcome(x, q, rc, took) EXCEPT !.proc.turn = turn] = Outcome(x, [q EXCEPT !.turn = turn], rc, took)
BY DEF Outcome

\* BLE_HS_EDONE: what follows a complete answer is good.
LEMMA DoneGood ==
  ASSUME NEW c, NEW d, Fits(d, peer[c], proc[c]), NEW outcomes, \A o \in outcomes : Good(d, o),
         NEW r \in Renewed(c, outcomes)
  PROVE  Good(d, r)
<1>1. PICK o \in outcomes : r = IF o.proc = NoProc THEN o ELSE [o EXCEPT !.proc.turn = 1 - proc[c].turn]
  BY DEF Renewed
<1>2. 1 - proc[c].turn \in {0, 1}
  BY DEF Fits, ProcType
<1>. DEFINE turn == 1 - proc[c].turn
<1>. HIDE DEF turn
<1>3. Good(d, o)
  OBVIOUS
<1>4. CASE o.proc # NoProc
  <2>1. o.rc = "none" /\ Fits(d, o.peer, o.proc)
    BY <1>3, <1>4 DEF Good
  <2>2. Fits(d, o.peer, [o.proc EXCEPT !.turn = turn])
    BY <1>2, <2>1, TurnFits DEF turn
  <2>3. o = Outcome(o.peer, o.proc, o.rc, o.took)
    BY <1>3 DEF Good
  <2>4. PICK x, q, rc, took : o = Outcome(x, q, rc, took)
    BY <2>3
  <2>5. o.peer = x /\ o.proc = q /\ o.rc = rc /\ o.took = took
    BY <2>4 DEF Outcome
  <2>6. [Outcome(x, q, rc, took) EXCEPT !.proc.turn = turn] = Outcome(x, [q EXCEPT !.turn = turn], rc, took)
    BY SMTT(30), OutcomeTurn
  <2>7. r = Outcome(x, [q EXCEPT !.turn = turn], rc, took)
    BY <1>1, <1>4, <2>4, <2>6 DEF turn
  <2>8. r.peer = x /\ r.proc = [q EXCEPT !.turn = turn] /\ r.rc = rc /\ r.took = took
    BY <2>7 DEF Outcome
  <2>. QED BY <2>1, <2>2, <2>5, <2>7, <2>8 DEF Good
<1>. QED BY <1>1, <1>3, <1>4

LEMMA DoneInv ==
  ASSUME PeerInv, NEW c \in Conns, proc[c] # NoProc, link[c] # "down", NEW outcomes,
         \A o \in outcomes : Good(db[c], o), Done(c, outcomes)
  PROVE  PeerInv'
<1>1. Fits(db[c], peer[c], proc[c])
  BY InvFits
<1>2. CASE peer[c].prev > 0
  <2>1. \A r \in Renewed(c, outcomes) : Good(db[c], r)
    BY <1>1, DoneGood
  <2>2. Return(c, Renewed(c, outcomes))
    BY <1>2 DEF Done
  <2>. QED BY <2>1, <2>2, ReturnInv
<1>3. CASE ~(peer[c].prev > 0)
  <2>. DEFINE o == Outcome(peer[c], NoProc, "none", Nothing)
  <2>1. Fits(db[c], peer[c], NoProc)
    <3>1. NoProc \in ProcType /\ NoProc.kind = "none"
      BY DEF NoProc, ProcType
    <3>. QED BY <1>1, <3>1 DEF Fits, Position
  <2>2. Good(db[c], o)
    BY <2>1 DEF Good, Outcome
  <2>3. Return(c, {o})
    BY <1>3 DEF Done
  <2>. HIDE DEF o
  <2>4. \A r \in {o} : Good(db[c], r)
    BY <2>2
  <2>. QED BY <2>3, <2>4, ReturnInv
<1>. QED BY <1>2, <1>3

LEMMA AnswerInv ==
  ASSUME PeerInv, NEW c \in Conns, Answer(c)
  PROVE  PeerInv'
<1>1. Fits(db[c], peer[c], proc[c]) /\ db[c] \in Databases
  BY InvFits
<1>2. link[c] # "down" /\ proc[c].kind \in {"svcs", "chrs", "dscs"}
  BY DEF Answer, SvcDisced, ChrDisced, DscDisced, Running
<1>3. proc[c] # NoProc
  BY <1>2 DEF NoProc
<1>4. \A o \in DiscChrs(peer[c]) : Good(db[c], o)
  BY <1>1, DiscChrsGood
<1>5. \A o \in DiscDscs(peer[c]) : Good(db[c], o)
  BY <1>1, DiscDscsGood
<1>6. CASE SvcDisced(c)
  <2>1. proc[c].kind = "svcs"
    BY <1>6 DEF SvcDisced, Running
  <2>2. CASE Done(c, DiscChrs(peer[c]))
    BY <1>2, <1>3, <1>4, <2>2, DoneInv
  <2>3. CASE \E s \in Further(c, db[c].svcs, "start") : Return(c, GoesOn(SvcAdd(c, s), s.end))
    <3>1. PICK s \in db[c].svcs : proc[c].last < s.start /\ Return(c, GoesOn(SvcAdd(c, s), s.end))
      BY <2>3 DEF Further
    <3>2. \A o \in GoesOn(SvcAdd(c, s), s.end) : Good(db[c], o)
      BY <1>1, <2>1, <3>1, SvcAddGood
    <3>. QED BY <1>2, <1>3, <3>1, <3>2, ReturnInv
  <2>. QED BY <1>6, <2>2, <2>3 DEF SvcDisced
<1>7. CASE ChrDisced(c)
  <2>1. proc[c].kind = "chrs"
    BY <1>7 DEF ChrDisced, Running
  <2>2. CASE Done(c, DiscChrs(peer[c]))
    BY <1>2, <1>3, <1>4, <2>2, DoneInv
  <2>3. CASE \E x \in Further(c, db[c].chrs, "def") : Return(c, GoesOn(ChrAdd(c, x), x.def))
    <3>1. PICK x \in db[c].chrs : proc[c].last < x.def /\ x.def <= proc[c].end
                                  /\ Return(c, GoesOn(ChrAdd(c, x), x.def))
      BY <2>3 DEF Further
    <3>2. \A o \in GoesOn(ChrAdd(c, x), x.def) : Good(db[c], o)
      BY <1>1, <2>1, <3>1, ChrAddGood
    <3>. QED BY <1>2, <1>3, <3>1, <3>2, ReturnInv
  <2>. QED BY <1>7, <2>2, <2>3 DEF ChrDisced
<1>8. CASE DscDisced(c)
  <2>1. proc[c].kind = "dscs"
    BY <1>8 DEF DscDisced, Running
  <2>2. CASE Done(c, DiscDscs(peer[c]))
    BY <1>2, <1>3, <1>5, <2>2, DoneInv
  <2>3. CASE \E e \in Further(c, Attributes(db[c]), "handle") :
               Return(c, GoesOn(DscAdd(c, proc[c].key, e), e.handle))
    <3>1. PICK e \in Attributes(db[c]) : Return(c, GoesOn(DscAdd(c, proc[c].key, e), e.handle))
      BY <2>3 DEF Further
    <3>2. \A o \in GoesOn(DscAdd(c, proc[c].key, e), e.handle) : Good(db[c], o)
      BY <1>1, <2>1, <3>1, DscAddGood
    <3>. QED BY <1>2, <1>3, <3>1, <3>2, ReturnInv
  <2>. QED BY <1>8, <2>2, <2>3 DEF DscDisced
<1>. QED BY <1>6, <1>7, <1>8 DEF Answer

\* Empty lists fit every database.
LEMMA EmptyListsFit ==
  ASSUME NEW d, NEW cur, NEW q, q.kind \in {"none", "svcs"}
  PROVE  Services(d, <<>>) /\ Position(<<>>, cur, q)
BY DEF Services, Position

\* What a request looks like.
LEMMA RequestType ==
  ASSUME NEW kind \in {"svcs", "chrs", "dscs"}, NEW key \in Nat, NEW last \in Nat, NEW end \in Nat
  PROVE  Request(kind, key, last, end) \in ProcType /\ Request(kind, key, last, end).kind = kind
BY DEF Request, NoProc, ProcType

\* What peer_delete and peer_add leave.
LEMMA PeerTypes ==
  /\ NoPeer \in PeerType /\ NoPeer.svcs = <<>> /\ NoProc \in ProcType /\ NoProc.kind = "none"
  /\ [NoPeer EXCEPT !.prev = 1, !.used = TRUE] \in PeerType
  /\ [NoPeer EXCEPT !.prev = 1, !.used = TRUE].svcs = <<>>
<1>1. NoPeer \in PeerType /\ NoPeer.svcs = <<>>
  BY DEF NoPeer, PeerType
<1>2. NoProc \in ProcType /\ NoProc.kind = "none"
  BY DEF NoProc, ProcType
<1>3. ASSUME NEW p \in PeerType
      PROVE  /\ [p EXCEPT !.prev = 1, !.used = TRUE] \in PeerType
             /\ [p EXCEPT !.prev = 1, !.used = TRUE].svcs = p.svcs
  BY DEF PeerType
<1>. QED BY <1>1, <1>2, <1>3

LEMMA ConnectInv ==
  ASSUME PeerInv, NEW c \in Conns, NEW d \in Databases, Connect(c, d)
  PROVE  PeerInv'
<1>. DEFINE fresh == [NoPeer EXCEPT !.prev = 1, !.used = TRUE]
            ask == Request("svcs", 0, 0, 65535)
<1>1. link[c] = "down" /\ peer[c] = NoPeer /\ proc[c] = NoProc
  BY DEF Connect, PeerInv
<1>2. /\ link' = [link EXCEPT ![c] = "up"] /\ db' = [db EXCEPT ![c] = d]
      /\ reports' = [reports EXCEPT ![c] = <<>>]
      /\ peer' = peer \/ peer' = [peer EXCEPT ![c] = fresh]
      /\ proc' = proc \/ proc' = [proc EXCEPT ![c] = ask]
  BY DEF Connect
<1>. HIDE DEF fresh, ask
<1>3. fresh \in PeerType /\ fresh.svcs = <<>> /\ ask \in ProcType /\ ask.kind = "svcs"
  <2>1. fresh \in PeerType /\ fresh.svcs = <<>>
    BY PeerTypes DEF fresh
  <2>2. 0 \in Nat /\ 65535 \in Nat /\ "svcs" \in {"svcs", "chrs", "dscs"}
    OBVIOUS
  <2>3. ask \in ProcType /\ ask.kind = "svcs"
    BY <2>2, RequestType DEF ask
  <2>. QED BY <2>1, <2>3
<1>4. /\ peer' \in [Conns -> PeerType] /\ proc' \in [Conns -> ProcType]
      /\ db' \in [Conns -> Databases]
      /\ link' \in [Conns -> {"down", "up", "closing"}]
      /\ reports' \in [Conns -> {<<>>} \cup {<<x>> : x \in Codes}]
  BY <1>2, <1>3 DEF PeerInv
<1>5. ASSUME NEW b \in Conns
      PROVE  /\ Services(db'[b], peer'[b].svcs) /\ Position(peer'[b].svcs, peer'[b].cur, proc'[b])
             /\ link'[b] = "down" => peer'[b] = NoPeer /\ proc'[b] = NoProc
             /\ proc'[b] # NoProc => reports'[b] = <<>>
  <2>1. CASE b = c
    <3>1. link'[b] = "up" /\ reports'[b] = <<>>
      BY <1>2, <2>1 DEF PeerInv
    <3>2. peer'[b] \in {NoPeer, fresh} /\ proc'[b] \in {NoProc, ask}
      BY <1>1, <1>2, <2>1 DEF PeerInv
    <3>3. peer'[b].svcs = <<>>
      BY <1>3, <3>2, PeerTypes
    <3>4. proc'[b].kind \in {"none", "svcs"}
      BY <1>3, <3>2, PeerTypes
    <3>5. Services(db'[b], <<>>) /\ Position(<<>>, peer'[b].cur, proc'[b])
      BY <3>4, EmptyListsFit
    <3>. QED BY <3>1, <3>3, <3>5
  <2>2. CASE b # c
    <3>1. peer'[b] = peer[b] /\ proc'[b] = proc[b] /\ reports'[b] = reports[b] /\ link'[b] = link[b]
          /\ db'[b] = db[b]
      BY <1>2, <2>2 DEF PeerInv
    <3>. QED BY <3>1 DEF PeerInv
  <2>. QED BY <2>1, <2>2
<1>. QED BY <1>4, <1>5 DEF PeerInv

LEMMA DisconnectInv ==
  ASSUME PeerInv, NEW c \in Conns, Disconnect(c)
  PROVE  PeerInv'
<1>1. /\ link' = [link EXCEPT ![c] = "down"] /\ proc' = [proc EXCEPT ![c] = NoProc] /\ db' = db
      /\ peer' = [peer EXCEPT ![c] = NoPeer]
      /\ reports' = IF proc[c] = NoProc THEN reports ELSE [reports EXCEPT ![c] = Append(@, "ENOTCONN")]
  BY DEF Disconnect
<1>2. reports' \in [Conns -> {<<>>} \cup {<<x>> : x \in Codes}]
      /\ \A b \in Conns : b # c => reports'[b] = reports[b]
  <2>1. CASE proc[c] = NoProc
    BY <1>1, <2>1 DEF PeerInv
  <2>2. CASE proc[c] # NoProc
    <3>1. reports[c] = <<>> /\ reports \in [Conns -> {<<>>} \cup {<<x>> : x \in Codes}]
      BY <2>2 DEF PeerInv
    <3>2. reports' = [reports EXCEPT ![c] = <<"ENOTCONN">>]
      BY <1>1, <2>2, <3>1
    <3>3. <<"ENOTCONN">> \in {<<x>> : x \in Codes}
      BY DEF Codes
    <3>. QED BY <3>1, <3>2, <3>3
  <2>. QED BY <2>1, <2>2
<1>3. /\ peer' \in [Conns -> PeerType] /\ proc' \in [Conns -> ProcType]
      /\ db' \in [Conns -> Databases]
      /\ link' \in [Conns -> {"down", "up", "closing"}]
  BY <1>1, PeerTypes DEF PeerInv
<1>4. ASSUME NEW b \in Conns
      PROVE  /\ Services(db'[b], peer'[b].svcs) /\ Position(peer'[b].svcs, peer'[b].cur, proc'[b])
             /\ link'[b] = "down" => peer'[b] = NoPeer /\ proc'[b] = NoProc
             /\ proc'[b] # NoProc => reports'[b] = <<>>
  <2>1. CASE b = c
    <3>1. peer'[b] = NoPeer /\ proc'[b] = NoProc
      BY <1>1, <2>1 DEF PeerInv
    <3>2. Services(db'[b], <<>>) /\ Position(<<>>, peer'[b].cur, proc'[b])
      BY <3>1, PeerTypes, EmptyListsFit
    <3>. QED BY <3>1, <3>2, PeerTypes
  <2>2. CASE b # c
    <3>1. peer'[b] = peer[b] /\ proc'[b] = proc[b] /\ reports'[b] = reports[b] /\ link'[b] = link[b]
          /\ db'[b] = db[b]
      BY <1>1, <1>2, <2>2 DEF PeerInv
    <3>. QED BY <3>1 DEF PeerInv
  <2>. QED BY <2>1, <2>2
<1>. QED BY <1>2, <1>3, <1>4 DEF PeerInv

LEMMA FailedInv ==
  ASSUME PeerInv, NEW c \in Conns, Failed(c)
  PROVE  PeerInv'
<1>. DEFINE p == [peer[c] EXCEPT !.prev = 0]
<1>1. /\ link[c] # "down" /\ proc[c] # NoProc /\ db' = db
      /\ peer' = [peer EXCEPT ![c] = p] /\ proc' = [proc EXCEPT ![c] = NoProc]
      /\ ServiceDiscComplete(c, peer[c], "ATT error")
  BY DEF Failed
<1>2. Fits(db[c], p, NoProc)
  <2>1. Fits(db[c], peer[c], proc[c])
    BY InvFits
  <2>. QED BY <2>1, IdleFits
<1>. HIDE DEF p
<1>3. /\ reports' = [reports EXCEPT ![c] = Append(reports[c], "ATT error")]
      /\ link' = link \/ link' = [link EXCEPT ![c] = "closing"]
  BY <1>1, ReportAdds
<1>4. reports[c] = <<>>
  BY <1>1 DEF PeerInv
<1>5. reports' = [reports EXCEPT ![c] = <<"ATT error">>]
  <2>1. \A x : Append(<<>>, x) = <<x>>
    OBVIOUS
  <2>. QED BY <1>3, <1>4, <2>1, Zenon
<1>6. <<"ATT error">> \in {<<>>} \cup {<<x>> : x \in Codes}
  BY DEF Codes
<1>. QED BY <1>1, <1>2, <1>3, <1>5, <1>6, Moved

-----------------------------------------------------------------------------

\* The invariant holds throughout: the lists are the remote's own and in order, what is
\* asked for lies behind them, and a discovery that runs has not reported.
THEOREM ListsInOrder == Spec => []PeerInv
<1>1. Init => PeerInv
  <2>. SUFFICES ASSUME Init PROVE PeerInv
    OBVIOUS
  <2>1. (CHOOSE d \in Databases : TRUE) \in Databases
    BY PeerAssumption
  <2>2. /\ peer \in [Conns -> PeerType] /\ proc \in [Conns -> ProcType]
        /\ db \in [Conns -> Databases]
        /\ link \in [Conns -> {"down", "up", "closing"}]
        /\ reports \in [Conns -> {<<>>} \cup {<<r>> : r \in Codes}]
    BY <2>1, PeerTypes DEF Init
  <2>3. ASSUME NEW c \in Conns
        PROVE  /\ Services(db[c], peer[c].svcs) /\ Position(peer[c].svcs, peer[c].cur, proc[c])
               /\ link[c] = "down" => peer[c] = NoPeer /\ proc[c] = NoProc
               /\ proc[c] # NoProc => reports[c] = <<>>
    <3>1. peer[c] = NoPeer /\ proc[c] = NoProc /\ reports[c] = <<>>
      BY DEF Init
    <3>2. Services(db[c], <<>>) /\ Position(<<>>, peer[c].cur, proc[c])
      BY <3>1, PeerTypes, EmptyListsFit
    <3>. QED BY <3>1, <3>2, PeerTypes
  <2>. QED BY <2>2, <2>3 DEF PeerInv
<1>2. PeerInv /\ [Next]_vars => PeerInv'
  <2>. SUFFICES ASSUME PeerInv, [Next]_vars PROVE PeerInv'
    OBVIOUS
  <2>1. CASE Next
    <3>1. PICK c \in Conns : (\E d \in Databases : Connect(c, d)) \/ Disconnect(c) \/ Failed(c) \/ Answer(c)
      BY <2>1 DEF Next
    <3>. QED BY <3>1, ConnectInv, DisconnectInv, FailedInv, AnswerInv
  <2>2. CASE UNCHANGED vars
    BY <2>2 DEF vars, PeerInv
  <2>. QED BY <2>1, <2>2
<1>. QED BY <1>1, <1>2, PTL DEF Spec

\* One discovery calls disc_cb once, however it fails, and peer_dsc_add never asserts.
THEOREM ReportsOnce == Spec => []ReportedOnce
<1>1. PeerInv => ReportedOnce
  <2>. SUFFICES ASSUME PeerInv, NEW c \in Conns
                PROVE  Len(reports[c]) <= 1 /\ "assert" \notin ToSet(reports[c])
    BY DEF ReportedOnce
  <2>1. reports[c] = <<>> \/ \E r \in Codes : reports[c] = <<r>>
    BY DEF PeerInv
  <2>2. "assert" \notin Codes
    BY DEF Codes
  <2>3. CASE reports[c] = <<>>
    BY <2>3 DEF ToSet
  <2>4. ASSUME NEW r \in Codes, reports[c] = <<r>>
        PROVE  Len(reports[c]) <= 1 /\ "assert" \notin ToSet(reports[c])
    <3>1. ToSet(<<r>>) = {r} /\ Len(<<r>>) = 1
      BY DEF ToSet
    <3>. QED BY <2>2, <2>4, <3>1
  <2>. QED BY <2>1, <2>3, <2>4
<1>. QED BY <1>1, ListsInOrder, PTL

-----------------------------------------------------------------------------
(* What the discovery has found.                                           *)

\* How far the lists are complete: the services, the characteristics of s and the
\* descriptors of its j-th characteristic, up to handle h.
HasSvcs(d, svcs, h) ==
  \A s \in d.svcs : s.start <= h => \E i \in 1 .. Len(svcs) : svcs[i].start = s.start
HasChrs(d, s, h) ==
  \A x \in d.chrs : s.start <= x.def /\ x.def <= s.end /\ x.def <= h =>
    \E j \in 1 .. Len(s.chrs) : s.chrs[j].def = x.def
InReach(s, j, h, a) == s.chrs[j].val < a.handle /\ a.handle <= ChrEndHandle(s, j) /\ a.handle <= h
HasDscs(d, s, j, h) ==
  /\ \A n \in 1 .. Len(s.chrs[j].dscs) :
       s.chrs[j].dscs[n] \in Attributes(d) /\ InReach(s, j, h, s.chrs[j].dscs[n])
  /\ \A a \in Attributes(d) : InReach(s, j, h, a) =>
       \E n \in 1 .. Len(s.chrs[j].dscs) : s.chrs[j].dscs[n].handle = a.handle

MaxHandle == 65535
NoDscs(s) == \A j \in 1 .. Len(s.chrs) : s.chrs[j].dscs = <<>>
AllChrs(d, svcs) ==
  /\ HasSvcs(d, svcs, MaxHandle)
  /\ \A i \in 1 .. Len(svcs) : HasChrs(d, svcs[i], svcs[i].end)

\* The lists are complete up to where the request stands, and nothing is in them that the
\* discovery asks for later.
Progress(d, p, q) ==
  /\ q.kind = "svcs" =>
       /\ p.prev <= 1 /\ q.end = MaxHandle /\ HasSvcs(d, p.svcs, q.last)
       /\ \A i \in 1 .. Len(p.svcs) : p.svcs[i].chrs = <<>>
  /\ q.kind = "chrs" =>
       /\ p.prev <= 1 /\ HasSvcs(d, p.svcs, MaxHandle)
       /\ \A i \in 1 .. Len(p.svcs) :
            /\ NoDscs(p.svcs[i])
            /\ p.svcs[i].start = p.cur => HasChrs(d, p.svcs[i], q.last)
            /\ p.svcs[i].start # p.cur /\ p.svcs[i].chrs # <<>> => HasChrs(d, p.svcs[i], p.svcs[i].end)
  /\ q.kind = "dscs" =>
       /\ p.prev = q.key /\ q.key <= q.last /\ q.last <= q.end /\ AllChrs(d, p.svcs)
       /\ \A i \in 1 .. Len(p.svcs) : \A j \in 1 .. Len(p.svcs[i].chrs) :
            /\ HasDscs(d, p.svcs[i], j, q.last)
            /\ p.svcs[i].chrs[j].val = q.key => ChrEndHandle(p.svcs[i], j) = q.end

\* Everything is in the lists.
Complete(d, p) ==
  /\ AllChrs(d, p.svcs)
  /\ \A i \in 1 .. Len(p.svcs) : \A j \in 1 .. Len(p.svcs[i].chrs) :
       HasDscs(d, p.svcs[i], j, MaxHandle)

\* ssm_enable_notify wrote to handle h.
Enabled(p, h) ==
  /\ DscFindUuid(p, "ssm", "notify", "cccd") # <<>>
  /\ h = DscFindUuid(p, "ssm", "notify", "cccd")[1].handle

\* One connection, with the database d of its remote, its peer p, its procedure q, the
\* reports r and the handle h that was written.
Whole(d, p, q, r, h) ==
  /\ Progress(d, p, q)
  /\ r = <<"0">> /\ p.used => Complete(d, p)
  /\ h # 0 /\ p.used => r = <<"0">> /\ Enabled(p, h)
  /\ q # NoProc => h = 0

WholeInv ==
  /\ DOMAIN cccd = Conns
  /\ \A c \in Conns : Whole(db[c], peer[c], proc[c], reports[c], cccd[c])

\* The chosen minimum is below the others.
LEMMA LeastOf ==
  ASSUME NEW n \in Nat, NEW I \in SUBSET (0 .. n), I # {}
  PROVE  Min(I) \in I /\ \A y \in I : Min(I) <= y
<1>1. PICK x \in I : \A y \in I : ~ (<<y, x>> \in OpToRel(<, Nat))
  <2>1. I \in SUBSET Nat
    OBVIOUS
  <2>. QED BY <2>1, NatLessThanWellFounded, WFMin
<1>2. OpToRel(<, Nat) = {ss \in Nat \X Nat : ss[1] < ss[2]}
  BY DEF OpToRel
<1>3. \A y \in I : x <= y
  <2>. SUFFICES ASSUME NEW y \in I, y < x PROVE FALSE
    OBVIOUS
  <2>1. <<y, x>> \in Nat \X Nat /\ <<y, x>>[1] < <<y, x>>[2]
    OBVIOUS
  <2>. QED BY <1>1, <1>2, <2>1
<1>. QED BY <1>3 DEF Min

\* An answer with nothing further: no attribute is left in the range asked for.
LEMMA NothingLeft ==
  ASSUME NEW c, NEW attrs, NEW key, \A a \in attrs : a[key] \in Nat, proc[c].end \in Nat,
         Further(c, attrs, key) = {}
  PROVE  \A a \in attrs : ~ (proc[c].last < a[key] /\ a[key] <= proc[c].end)
<1>. DEFINE I == {h \in 0 .. proc[c].end : \E a \in attrs : a[key] = h /\ proc[c].last < h}
<1>. SUFFICES ASSUME NEW z \in attrs, proc[c].last < z[key], z[key] <= proc[c].end PROVE FALSE
  OBVIOUS
<1>1. z[key] \in I
  OBVIOUS
<1>2. I \in SUBSET (0 .. proc[c].end)
  OBVIOUS
<1>3. Min(I) \in I /\ \A y \in I : Min(I) <= y
  <2>. HIDE DEF I
  <2>. QED BY <1>1, <1>2, LeastOf
<1>4. PICK a \in attrs : a[key] = Min(I) /\ proc[c].last < a[key]
  BY <1>3
<1>5. a[key] <= proc[c].end
  BY <1>3, <1>4
<1>6. \A b \in attrs : proc[c].last < b[key] => a[key] <= b[key]
  <2>. SUFFICES ASSUME NEW b \in attrs, proc[c].last < b[key] PROVE a[key] <= b[key]
    OBVIOUS
  <2>1. CASE b[key] <= proc[c].end
    <3>1. b[key] \in I
      BY <2>1
    <3>. QED BY <1>3, <1>4, <3>1
  <2>2. CASE ~ (b[key] <= proc[c].end)
    BY <1>5, <2>2
  <2>. QED BY <2>1, <2>2
<1>7. a \in Further(c, attrs, key)
  BY <1>4, <1>5, <1>6 DEF Further
<1>. QED BY <1>7

\* What a database says of a service.
LEMMA SvcFacts ==
  ASSUME NEW d \in Databases, NEW s \in d.svcs
  PROVE  /\ s.start \in Nat \ {0} /\ s.end \in Nat /\ s.start <= s.end /\ s.end <= MaxHandle
         /\ \A t \in d.svcs : /\ t.start \in Nat /\ t.end \in Nat /\ t.start <= t.end
                              /\ s = t \/ s.end < t.start \/ t.end < s.start
         /\ \A t \in d.svcs : t.start = s.start => t = s
<1>1. WellFormed(d)
  BY PeerAssumption
<1>2. /\ s.start \in Nat \ {0} /\ s.end \in Nat /\ s.start <= s.end /\ s.end <= MaxHandle
  BY <1>1 DEF WellFormed, MaxHandle
<1>3. ASSUME NEW t \in d.svcs
      PROVE  /\ t.start \in Nat /\ t.end \in Nat /\ t.start <= t.end
             /\ s = t \/ s.end < t.start \/ t.end < s.start
             /\ t.start = s.start => t = s
  <2>1. /\ t.start \in Nat /\ t.end \in Nat /\ t.start <= t.end
        /\ s = t \/ s.end < t.start \/ t.end < s.start
    BY <1>1 DEF WellFormed
  <2>. QED BY <1>2, <2>1
<1>. QED BY <1>2, <1>3

\* A service and a characteristic of the lists: what they stand for, and their handles.
LEMMA Places ==
  ASSUME NEW d \in Databases, NEW p, NEW q, Fits(d, p, q), NEW i \in 1 .. Len(p.svcs)
  PROVE  /\ \E s \in d.svcs : IsSvc(p.svcs[i], s)
         /\ p.svcs[i].start \in Nat \ {0} /\ p.svcs[i].end \in Nat /\ p.svcs[i].start <= p.svcs[i].end
         /\ p.svcs[i].end <= MaxHandle
         /\ Len(p.svcs) \in Nat /\ Len(p.svcs[i].chrs) \in Nat
         /\ \A n \in 1 .. Len(p.svcs) : n < i => p.svcs[n].end < p.svcs[i].start
         /\ \A n \in 1 .. Len(p.svcs) : p.svcs[n].start = p.svcs[i].start => n = i
<1>. DEFINE t == p.svcs[i]
<1>1. /\ Len(p.svcs) \in Nat /\ Services(d, p.svcs) /\ t \in SvcType /\ Characteristics(d, t)
      /\ t.start \in Nat /\ t.end \in Nat /\ t.start <= t.end
      /\ t.chrs \in Seq(ChrType) /\ Len(t.chrs) \in Nat
  BY ListTypes
<1>2. PICK s \in d.svcs : IsSvc(t, s)
  BY <1>1 DEF Services
<1>3. t.start \in Nat \ {0} /\ t.end <= MaxHandle
  <2>1. s.start \in Nat \ {0} /\ s.end <= MaxHandle
    BY SvcFacts
  <2>. QED BY <1>2, <2>1 DEF IsSvc
<1>4. \A n \in 1 .. Len(p.svcs) : n < i => p.svcs[n].end < p.svcs[i].start
  BY <1>1 DEF Services
<1>5. ASSUME NEW n \in 1 .. Len(p.svcs), p.svcs[n].start = p.svcs[i].start PROVE n = i
  <2>1. Find(p.svcs, SvcKey, p.svcs[i].start) = i /\ Find(p.svcs, SvcKey, p.svcs[n].start) = n
    BY ListTypes
  <2>. QED BY <1>5, <2>1
<1>. QED BY <1>1, <1>2, <1>3, <1>4, <1>5

\* A characteristic of the lists: what it stands for, and its handles.
LEMMA ChrPlaces ==
  ASSUME NEW d \in Databases, NEW p, NEW q, Fits(d, p, q), NEW i \in 1 .. Len(p.svcs),
         NEW j \in 1 .. Len(p.svcs[i].chrs)
  PROVE  /\ \E x \in d.chrs : IsChr(p.svcs[i].chrs[j], x)
         /\ p.svcs[i].chrs[j].dscs \in Seq(Attrs)
         /\ p.svcs[i].chrs[j].def \in Nat /\ p.svcs[i].chrs[j].val \in Nat
         /\ p.svcs[i].start <= p.svcs[i].chrs[j].def
         /\ p.svcs[i].chrs[j].def < p.svcs[i].chrs[j].val
         /\ p.svcs[i].chrs[j].val <= p.svcs[i].end
<1>. DEFINE t == p.svcs[i]
<1>1. Characteristics(d, t) /\ t.chrs \in Seq(ChrType)
  BY ListTypes
<1>. HIDE DEF t
<1>2. t.chrs[j] \in ChrType
  BY <1>1 DEF t
<1>3. t.chrs[j].dscs \in Seq(Attrs) /\ t.chrs[j].def \in Nat /\ t.chrs[j].val \in Nat
  BY <1>2 DEF ChrType
<1>4. /\ \E x \in d.chrs : IsChr(t.chrs[j], x)
      /\ t.start <= t.chrs[j].def /\ t.chrs[j].def < t.chrs[j].val /\ t.chrs[j].val <= t.end
  BY <1>1 DEF Characteristics, t
<1>. QED BY <1>3, <1>4 DEF t

\* In a service, where the descriptors of a characteristic end: before the next one.
LEMMA EndHandles ==
  ASSUME NEW d \in Databases, NEW p, NEW q, Fits(d, p, q), NEW i \in 1 .. Len(p.svcs),
         NEW j \in 1 .. Len(p.svcs[i].chrs)
  PROVE  /\ ChrEndHandle(p.svcs[i], j) \in Nat /\ p.svcs[i].chrs[j].val <= ChrEndHandle(p.svcs[i], j)
         /\ ChrEndHandle(p.svcs[i], j) <= p.svcs[i].end
         /\ \A k \in 1 .. Len(p.svcs[i].chrs) : j < k => ChrEndHandle(p.svcs[i], j) < p.svcs[i].chrs[k].def
<1>. DEFINE s == p.svcs[i]
            e == ChrEndHandle(s, j)
<1>1. s.end \in Nat /\ Len(s.chrs) \in Nat
  BY Places
<1>2. ASSUME NEW k \in 1 .. Len(s.chrs)
      PROVE  /\ s.chrs[k].def \in Nat /\ s.chrs[k].val \in Nat
             /\ s.chrs[k].def < s.chrs[k].val /\ s.chrs[k].val <= s.end
             /\ \E x \in d.chrs : IsChr(s.chrs[k], x)
  BY ChrPlaces
<1>3. ASSUME NEW k \in 1 .. Len(s.chrs), NEW m \in 1 .. Len(s.chrs), k < m
      PROVE  s.chrs[k].val < s.chrs[m].def
  <2>1. PICK x \in d.chrs : IsChr(s.chrs[k], x)
    BY <1>2
  <2>2. PICK y \in d.chrs : IsChr(s.chrs[m], y)
    BY <1>2
  <2>3. s.chrs[k].val < s.chrs[m].val
    <3>1. Characteristics(d, s)
      BY ListTypes
    <3>. QED BY <1>3, <3>1 DEF Characteristics
  <2>4. x.val < y.val
    BY <2>1, <2>2, <2>3 DEF IsChr
  <2>5. /\ x.def \in Nat /\ x.val \in Nat /\ y.def \in Nat /\ y.val \in Nat /\ x.def < x.val
        /\ x.def < y.def => x.val < y.def
        /\ y.def < x.def => y.val < x.def
        /\ y.def = x.def => y = x
    BY ChrFacts
  <2>6. x.val < y.def
    BY <2>4, <2>5
  <2>. QED BY <2>1, <2>2, <2>6 DEF IsChr
<1>4. CASE j < Len(s.chrs)
  <2>1. j + 1 \in 1 .. Len(s.chrs) /\ j < j + 1 /\ e = s.chrs[j + 1].def - 1
    BY <1>1, <1>4 DEF ChrEndHandle
  <2>2. s.chrs[j].val < s.chrs[j + 1].def
    BY <1>3, <2>1
  <2>3. /\ s.chrs[j + 1].def \in Nat /\ s.chrs[j + 1].val \in Nat /\ s.chrs[j].val \in Nat
        /\ s.chrs[j + 1].def < s.chrs[j + 1].val /\ s.chrs[j + 1].val <= s.end
    BY <1>2, <2>1
  <2>4. ASSUME NEW k \in 1 .. Len(s.chrs), j < k PROVE e < s.chrs[k].def
    <3>1. s.chrs[k].def \in Nat
      BY <1>2
    <3>2. k = j + 1 \/ j + 1 < k
      BY <1>1, <2>4
    <3>3. j + 1 < k => s.chrs[j + 1].val < s.chrs[k].def
      BY <1>3, <2>1
    <3>. HIDE DEF e, s
    <3>4. CASE k = j + 1
      BY <2>1, <2>3, <3>4
    <3>5. CASE j + 1 < k
      BY SMTT(30), <2>1, <2>3, <3>1, <3>3, <3>5
    <3>. QED BY <3>2, <3>4, <3>5
  <2>5. e \in Nat /\ s.chrs[j].val <= e /\ e <= s.end
    <3>1. PICK u \in Nat : u = s.chrs[j + 1].def
      BY <2>3
    <3>2. PICK v \in Nat : v = s.chrs[j].val
      BY <2>3
    <3>3. PICK w \in Nat : w = s.chrs[j + 1].val
      BY <2>3
    <3>4. v < u /\ u < w /\ w <= s.end /\ e = u - 1
      BY <2>1, <2>2, <2>3, <3>1, <3>2, <3>3
    <3>5. e \in Nat /\ v <= e /\ e <= s.end
      <4>. HIDE DEF e, s
      <4>. QED BY <1>1, <3>4
    <3>. QED BY <3>2, <3>5
  <2>. QED BY <2>4, <2>5
<1>5. CASE ~ (j < Len(s.chrs))
  <2>1. ChrEndHandle(s, j) = s.end
    BY <1>5 DEF ChrEndHandle
  <2>2. s.chrs[j].val <= s.end
    BY <1>2
  <2>3. ~ \E k \in 1 .. Len(s.chrs) : j < k
    BY <1>1, <1>5
  <2>. QED BY <1>1, <2>1, <2>2, <2>3
<1>. QED BY <1>4, <1>5

\* Of two characteristics of the lists, the descriptors of the first end before the other.
LEMMA Apart ==
  ASSUME NEW d \in Databases, NEW p, NEW q, Fits(d, p, q),
         NEW i \in 1 .. Len(p.svcs), NEW j \in 1 .. Len(p.svcs[i].chrs),
         NEW n \in 1 .. Len(p.svcs), NEW k \in 1 .. Len(p.svcs[n].chrs)
  PROVE  /\ p.svcs[n].chrs[k].val < p.svcs[i].chrs[j].val => ChrEndHandle(p.svcs[n], k) < p.svcs[i].chrs[j].def
         /\ p.svcs[n].chrs[k].val = p.svcs[i].chrs[j].val => n = i /\ k = j
         /\ n < i => p.svcs[n].chrs[k].val < p.svcs[i].chrs[j].val
         /\ n = i /\ k < j => p.svcs[n].chrs[k].val < p.svcs[i].chrs[j].val
<1>. DEFINE s == p.svcs[i]
            t == p.svcs[n]
            x == s.chrs[j]
            y == t.chrs[k]
<1>1. /\ s.start \in Nat /\ s.end \in Nat /\ x.def \in Nat /\ x.val \in Nat
      /\ s.start <= x.def /\ x.def < x.val /\ x.val <= s.end /\ Len(p.svcs) \in Nat /\ Len(s.chrs) \in Nat
      /\ n < i => t.end < s.start
  BY Places, ChrPlaces
<1>2. /\ t.start \in Nat /\ t.end \in Nat /\ y.def \in Nat /\ y.val \in Nat
      /\ t.start <= y.def /\ y.def < y.val /\ y.val <= t.end /\ Len(t.chrs) \in Nat
      /\ i < n => s.end < t.start
  BY Places, ChrPlaces
<1>3. /\ ChrEndHandle(t, k) \in Nat /\ y.val <= ChrEndHandle(t, k) /\ ChrEndHandle(t, k) <= t.end
      /\ \A m \in 1 .. Len(t.chrs) : k < m => ChrEndHandle(t, k) < t.chrs[m].def
  BY EndHandles
<1>4. /\ ChrEndHandle(s, j) \in Nat /\ x.val <= ChrEndHandle(s, j)
      /\ \A m \in 1 .. Len(s.chrs) : j < m => ChrEndHandle(s, j) < s.chrs[m].def
  BY EndHandles
<1>5. CASE n < i
  <2>. HIDE DEF s, t, x, y
  <2>1. t.end < s.start
    BY <1>1, <1>5
  <2>2. ChrEndHandle(t, k) < x.def /\ y.val < x.val
    <3>1. /\ ChrEndHandle(t, k) \in Nat /\ ChrEndHandle(t, k) <= t.end /\ t.end \in Nat
          /\ s.start \in Nat /\ s.start <= x.def /\ x.def < x.val /\ x.def \in Nat /\ x.val \in Nat
          /\ y.val \in Nat /\ y.val <= t.end
      BY <1>1, <1>2, <1>3
    <3>. QED BY SMTT(30), <2>1, <3>1
  <2>. QED BY SMTT(30), <1>1, <1>2, <1>5, <2>2 DEF s, t, x, y
<1>6. CASE i < n
  <2>. HIDE DEF s, t, x, y
  <2>1. s.end < t.start
    BY <1>2, <1>6
  <2>2. x.val < y.val
    <3>1. /\ s.end \in Nat /\ x.val <= s.end /\ x.val \in Nat
          /\ t.start \in Nat /\ t.start <= y.def /\ y.def < y.val /\ y.def \in Nat /\ y.val \in Nat
      BY <1>1, <1>2
    <3>. QED BY SMTT(30), <2>1, <3>1
  <2>3. ~ (y.val < x.val) /\ y.val # x.val
    <3>1. x.val \in Nat /\ y.val \in Nat
      BY <1>1, <1>2
    <3>. QED BY <2>2, <3>1
  <2>4. ~ (n < i) /\ n # i
    BY <1>6
  <2>. QED BY <2>3, <2>4 DEF s, t, x, y
<1>7. CASE n = i
  <2>1. t = s
    BY <1>7
  <2>2. CASE k < j
    <3>1. ChrEndHandle(t, k) < x.def
      BY <1>3, <2>1, <2>2
    <3>. HIDE DEF s, t, x, y
    <3>2. y.val < x.val
      BY <1>1, <1>2, <1>3, <3>1
    <3>. QED BY <1>1, <1>2, <1>7, <2>2, <3>1, <3>2 DEF s, t, x, y
  <2>3. CASE j < k
    <3>1. ChrEndHandle(s, j) < y.def
      BY <1>4, <2>1, <2>3
    <3>. HIDE DEF s, t, x, y
    <3>2. x.val < y.val
      BY <1>1, <1>2, <1>4, <3>1
    <3>. QED BY SMTT(30), <1>1, <1>2, <1>7, <2>3, <3>2 DEF s, t, x, y
  <2>4. CASE j = k
    BY <1>1, <1>7, <2>4
  <2>5. j \in Nat /\ k \in Nat
    BY <1>1, <1>2
  <2>. QED BY <2>2, <2>3, <2>4, <2>5
<1>8. i \in Nat /\ n \in Nat
  BY <1>1
<1>. QED BY <1>5, <1>6, <1>7, <1>8

\* A value handle tells the characteristics of the lists apart.
LEMMA OnePlace ==
  ASSUME NEW d \in Databases, NEW p, NEW q, Fits(d, p, q),
         NEW i \in 1 .. Len(p.svcs), NEW j \in 1 .. Len(p.svcs[i].chrs),
         NEW n \in 1 .. Len(p.svcs), NEW k \in 1 .. Len(p.svcs[n].chrs)
  PROVE  \/ n = i /\ k = j
         \/ p.svcs[n].chrs[k].val < p.svcs[i].chrs[j].val
         \/ p.svcs[i].chrs[j].val < p.svcs[n].chrs[k].val
<1>. DEFINE u == p.svcs[n].chrs[k].val
            v == p.svcs[i].chrs[j].val
<1>1. (n < i => u < v) /\ (n = i /\ k < j => u < v)
  BY Apart
<1>2. (i < n => v < u) /\ (i = n /\ j < k => v < u)
  BY Apart
<1>3. u \in Nat /\ v \in Nat
  BY ChrPlaces
<1>4. i \in Nat /\ n \in Nat
  BY Places
<1>5. n = i => j \in Nat /\ k \in Nat
  BY Places
<1>. HIDE DEF u, v
<1>6. (n = i /\ k = j) \/ u < v \/ v < u
  BY <1>1, <1>2, <1>3, <1>4, <1>5
<1>. QED BY <1>6 DEF u, v

-----------------------------------------------------------------------------
(* The answers.                                                            *)

\* What a callback may leave: lists as complete as the request is far, and all of the
\* database when it reports success.
Better(d, o) == Progress(d, o.peer, o.proc) /\ (o.rc = "0" => Complete(d, o.peer))

\* No request runs: there is nothing to be complete up to.
LEMMA IdleProgress ==
  ASSUME NEW d, NEW p, NEW q, q.kind = "none"
  PROVE  Progress(d, p, q)
BY DEF Progress

LEMMA EndedBetter ==
  ASSUME NEW d, NEW p, NEW rc, rc # "0"
  PROVE  Better(d, DiscComplete(p, rc))
<1>1. /\ DiscComplete(p, rc).proc = NoProc /\ NoProc.kind = "none" /\ DiscComplete(p, rc).rc = rc
  BY DEF DiscComplete, Outcome, NoProc
<1>. QED BY <1>1, IdleProgress DEF Better

LEMMA AddedBetter ==
  ASSUME NEW c, NEW d, NEW ok, NEW p, NEW took, NEW h, proc[c] # NoProc,
         Progress(d, p, [proc[c] EXCEPT !.last = h]),
         NEW o \in GoesOn(Added(c, ok, p, took), h)
  PROVE  Better(d, o)
<1>1. CASE ok
  <2>. DEFINE y == Outcome(p, proc[c], "none", took)
  <2>1. y.peer = p /\ y.proc = proc[c] /\ y.rc = "none"
    BY DEF Outcome
  <2>2. o = [y EXCEPT !.proc.last = h]
    BY <1>1, <2>1 DEF GoesOn, Added
  <2>3. [y EXCEPT !.proc.last = h] = Outcome(p, [proc[c] EXCEPT !.last = h], "none", took)
    BY DEF Outcome
  <2>4. o.peer = p /\ o.proc = [proc[c] EXCEPT !.last = h] /\ o.rc = "none"
    BY <2>2, <2>3 DEF Outcome
  <2>. QED BY <2>4 DEF Better
<1>2. CASE ~ok
  <2>1. DiscComplete(peer[c], "ENOMEM").proc = NoProc
    BY DEF DiscComplete, Outcome
  <2>2. o = DiscComplete(peer[c], "ENOMEM")
    BY <1>2, <2>1 DEF GoesOn, Added
  <2>. QED BY <2>2, EndedBetter
<1>. QED BY <1>1, <1>2

\* The next attribute of an answer: what comes before it had come already.
LEMMA NextOf ==
  ASSUME NEW c, NEW attrs, NEW key, \A a \in attrs : a[key] \in Nat, proc[c].last \in Nat,
         NEW a \in Further(c, attrs, key)
  PROVE  /\ a \in attrs /\ proc[c].last < a[key] /\ a[key] <= proc[c].end
         /\ \A b \in attrs : b[key] < a[key] => b[key] <= proc[c].last
BY DEF Further

\* A service comes: those before it had come.
LEMMA SvcAddBetter ==
  ASSUME NEW c, NEW d \in Databases, Fits(d, peer[c], proc[c]), proc[c].kind = "svcs",
         Progress(d, peer[c], proc[c]),
         NEW s \in Further(c, d.svcs, "start"), NEW o \in GoesOn(SvcAdd(c, s), s.end)
  PROVE  Better(d, o)
<1>. DEFINE p == peer[c]
            w == WithSvc(p, s)
            q == [proc[c] EXCEPT !.last = s.end]
<1>1. proc[c] \in ProcType /\ proc[c].last \in Nat /\ p \in PeerType
  BY DEF Fits, ProcType
<1>2. \A t \in d.svcs : t.start \in Nat
  BY SvcFacts
<1>3. /\ s \in d.svcs /\ proc[c].last < s.start
      /\ \A t \in d.svcs : t.start < s.start => t.start <= proc[c].last
  BY <1>1, <1>2, NextOf
<1>4. SvcAdd(c, s) = Added(c, pool.svc > 0, w, [Nothing EXCEPT !.svc = 1])
  BY <1>3, SvcAddIs
<1>5. Appended(d, p, s, w)
  BY <1>1, <1>3, SvcAppended
<1>6. /\ p.prev <= 1 /\ proc[c].end = MaxHandle /\ HasSvcs(d, p.svcs, proc[c].last)
      /\ \A i \in 1 .. Len(p.svcs) : p.svcs[i].chrs = <<>>
  BY DEF Progress
<1>7. q.kind = "svcs" /\ q.end = proc[c].end /\ q.last = s.end
  BY <1>1 DEF ProcType
<1>. HIDE DEF w, q
<1>8. HasSvcs(d, w.svcs, s.end)
  <2>. SUFFICES ASSUME NEW t \in d.svcs, t.start <= s.end
                PROVE  \E i \in 1 .. Len(w.svcs) : w.svcs[i].start = t.start
    BY DEF HasSvcs
  <2>1. /\ s.start \in Nat /\ s.end \in Nat /\ t.start \in Nat /\ t.end \in Nat /\ t.start <= t.end
        /\ s = t \/ s.end < t.start \/ t.end < s.start
    BY <1>3, SvcFacts
  <2>2. CASE t = s
    <3>1. Len(p.svcs) + 1 \in 1 .. Len(w.svcs) /\ w.svcs[Len(p.svcs) + 1].start = s.start
      BY <1>5 DEF Appended, NewSvc
    <3>. QED BY <2>2, <3>1
  <2>3. CASE t.end < s.start
    <3>1. t.start <= proc[c].last
      BY <1>3, <2>1, <2>3
    <3>2. PICK i \in 1 .. Len(p.svcs) : p.svcs[i].start = t.start
      BY <1>6, <3>1 DEF HasSvcs
    <3>3. i \in 1 .. Len(w.svcs) /\ w.svcs[i] = p.svcs[i]
      BY <1>5 DEF Appended
    <3>. QED BY <3>2, <3>3
  <2>. QED BY <2>1, <2>2, <2>3
<1>9. \A i \in 1 .. Len(w.svcs) : w.svcs[i].chrs = <<>>
  BY <1>5, <1>6 DEF Appended, NewSvc
<1>10. Progress(d, w, q)
  <2>1. w.prev = p.prev
    BY <1>5 DEF Appended
  <2>. QED BY <1>6, <1>7, <1>8, <1>9, <2>1 DEF Progress
<1>11. proc[c] # NoProc
  BY DEF NoProc
<1>12. o \in GoesOn(Added(c, pool.svc > 0, w, [Nothing EXCEPT !.svc = 1]), s.end)
  BY <1>4
<1>. QED BY <1>10, <1>11, <1>12, AddedBetter DEF q

\* A characteristic comes: those of the service before it had come.
LEMMA ChrAddBetter ==
  ASSUME NEW c, NEW d \in Databases, Fits(d, peer[c], proc[c]), proc[c].kind = "chrs",
         Progress(d, peer[c], proc[c]),
         NEW x \in Further(c, d.chrs, "def"), NEW o \in GoesOn(ChrAdd(c, x), x.def)
  PROVE  Better(d, o)
<1>. DEFINE p == peer[c]
            q == [proc[c] EXCEPT !.last = x.def]
<1>1. proc[c] \in ProcType /\ proc[c].last \in Nat /\ p \in PeerType
  BY DEF Fits, ProcType
<1>2. \A y \in d.chrs : y.def \in Nat
  BY ChrFacts
<1>3. /\ x \in d.chrs /\ proc[c].last < x.def
      /\ \A y \in d.chrs : y.def < x.def => y.def <= proc[c].last
  BY <1>1, <1>2, NextOf
<1>4. PICK i \in 1 .. Len(p.svcs) : p.svcs[i].start = p.cur
  BY DEF Fits, Position
<1>. DEFINE w == WithChr(p, i, x)
<1>5. ChrAdd(c, x) = Added(c, pool.chr > 0, w, [Nothing EXCEPT !.chr = 1])
  BY <1>3, <1>4, ChrAddIs
<1>6. SvcKept(p, i, w) /\ Longer(p.svcs[i].chrs, x, w.svcs[i].chrs)
  BY <1>1, <1>3, ChrAppended
<1>7. \A n \in 1 .. Len(p.svcs) : p.svcs[n].start = p.cur => n = i
  BY <1>4, Places
<1>8. /\ p.prev <= 1 /\ HasSvcs(d, p.svcs, MaxHandle)
      /\ \A n \in 1 .. Len(p.svcs) :
           /\ NoDscs(p.svcs[n])
           /\ p.svcs[n].start = p.cur => HasChrs(d, p.svcs[n], proc[c].last)
           /\ p.svcs[n].start # p.cur /\ p.svcs[n].chrs # <<>> => HasChrs(d, p.svcs[n], p.svcs[n].end)
  BY DEF Progress
<1>9. q.kind = "chrs" /\ q.end = proc[c].end /\ q.last = x.def
  BY <1>1 DEF ProcType
<1>. HIDE DEF w, q
<1>10. /\ w.prev = p.prev /\ w.cur = p.cur /\ Len(w.svcs) = Len(p.svcs)
       /\ w.svcs[i].start = p.svcs[i].start /\ w.svcs[i].end = p.svcs[i].end
       /\ \A n \in 1 .. Len(p.svcs) : n # i => w.svcs[n] = p.svcs[n]
  BY <1>6 DEF SvcKept, IsSvc
<1>11. NewChr(x).def = x.def /\ NewChr(x).dscs = <<>>
  BY DEF NewChr
<1>12. NoDscs(w.svcs[i])
  <2>1. NoDscs(p.svcs[i])
    BY <1>8
  <2>. QED BY <1>6, <1>11, <2>1 DEF NoDscs, Longer
<1>13. HasChrs(d, w.svcs[i], x.def)
  <2>. DEFINE chrs == p.svcs[i].chrs
              chrs2 == w.svcs[i].chrs
  <2>. SUFFICES ASSUME NEW y \in d.chrs, w.svcs[i].start <= y.def, y.def <= w.svcs[i].end, y.def <= x.def
                PROVE  \E j \in 1 .. Len(chrs2) : chrs2[j].def = y.def
    BY DEF HasChrs
  <2>1. y.def \in Nat /\ x.def \in Nat
    BY <1>2, <1>3
  <2>2. CASE y.def = x.def
    <3>1. /\ Len(chrs) \in Nat /\ Len(chrs2) = Len(chrs) + 1
          /\ chrs2[Len(chrs) + 1] = NewChr(x)
      BY <1>6 DEF Longer
    <3>2. Len(chrs) + 1 \in 1 .. Len(chrs2)
      BY SMTT(30), <3>1
    <3>. QED BY <1>11, <2>2, <3>1, <3>2
  <2>3. CASE y.def < x.def
    <3>1. y.def <= proc[c].last
      BY <1>3, <2>3
    <3>2. PICK j \in 1 .. Len(chrs) : chrs[j].def = y.def
      BY <1>4, <1>8, <1>10, <3>1 DEF HasChrs
    <3>3. j \in 1 .. Len(chrs2) /\ chrs2[j] = chrs[j]
      BY <1>6 DEF Longer
    <3>. QED BY <3>2, <3>3
  <2>. QED BY <2>1, <2>2, <2>3
<1>14. Progress(d, w, q)
  <2>1. HasSvcs(d, w.svcs, MaxHandle)
    <3>1. \A n \in 1 .. Len(p.svcs) : n \in 1 .. Len(w.svcs) /\ w.svcs[n].start = p.svcs[n].start
      BY <1>10
    <3>. QED BY <1>8, <3>1 DEF HasSvcs
  <2>2. ASSUME NEW n \in 1 .. Len(w.svcs)
        PROVE  /\ NoDscs(w.svcs[n])
               /\ w.svcs[n].start = w.cur => HasChrs(d, w.svcs[n], q.last)
               /\ w.svcs[n].start # w.cur /\ w.svcs[n].chrs # <<>> => HasChrs(d, w.svcs[n], w.svcs[n].end)
    <3>1. CASE n = i
      BY <1>4, <1>9, <1>10, <1>12, <1>13, <3>1
    <3>2. CASE n # i
      <4>1. n \in 1 .. Len(p.svcs) /\ w.svcs[n] = p.svcs[n] /\ p.svcs[n].start # w.cur
        BY <1>7, <1>10, <3>2
      <4>. QED BY <1>8, <1>10, <4>1
    <3>. QED BY <3>1, <3>2
  <2>. QED BY <1>8, <1>9, <1>10, <2>1, <2>2 DEF Progress
<1>15. proc[c] # NoProc
  BY DEF NoProc
<1>16. o \in GoesOn(Added(c, pool.chr > 0, w, [Nothing EXCEPT !.chr = 1]), x.def)
  BY <1>5
<1>. QED BY <1>14, <1>15, <1>16, AddedBetter DEF q

\* The same descriptors are complete up to another handle when no attribute lies between.
LEMMA SameReach ==
  ASSUME NEW d, NEW s, NEW t, NEW k, NEW h, NEW g, HasDscs(d, s, k, h),
         t.chrs[k] = s.chrs[k],
         \A a \in Attributes(d) : InReach(t, k, g, a) <=> InReach(s, k, h, a)
  PROVE  HasDscs(d, t, k, g)
BY DEF HasDscs

\* Where the request for the descriptors of a characteristic stands.
LEMMA Asked ==
  ASSUME NEW d \in Databases, NEW p, NEW q, Fits(d, p, q), q.kind = "dscs", Progress(d, p, q),
         NEW i \in 1 .. Len(p.svcs), NEW j \in 1 .. Len(p.svcs[i].chrs), p.svcs[i].chrs[j].val = q.key
  PROVE  /\ q.end = ChrEndHandle(p.svcs[i], j) /\ q.key <= q.last /\ q.last <= q.end
         /\ q.key \in Nat /\ q.last \in Nat /\ q.end \in Nat
<1>1. q.key \in Nat /\ q.last \in Nat /\ q.end \in Nat
  BY DEF Fits, ProcType
<1>2. q.key <= q.last /\ q.last <= q.end /\ q.end = ChrEndHandle(p.svcs[i], j)
  BY DEF Progress
<1>. QED BY <1>1, <1>2

\* While descriptors of one characteristic arrive, the others have all of theirs or none.
LEMMA Beside ==
  ASSUME NEW d \in Databases, NEW p, NEW q, Fits(d, p, q), q.kind = "dscs", Progress(d, p, q),
         NEW i \in 1 .. Len(p.svcs), NEW j \in 1 .. Len(p.svcs[i].chrs), p.svcs[i].chrs[j].val = q.key,
         NEW n \in 1 .. Len(p.svcs), NEW k \in 1 .. Len(p.svcs[n].chrs)
  PROVE  /\ p.svcs[n].chrs[k].val < q.key => ChrEndHandle(p.svcs[n], k) < q.last
         /\ q.key < p.svcs[n].chrs[k].val =>
              q.end < p.svcs[n].chrs[k].def /\ p.svcs[n].chrs[k].dscs = <<>>
<1>. DEFINE y == p.svcs[n].chrs[k]
            x == p.svcs[i].chrs[j]
            e == ChrEndHandle(p.svcs[n], k)
<1>1. q.key \in Nat /\ q.last \in Nat /\ q.end \in Nat
  BY Asked
<1>2. q.key <= q.last /\ q.last <= q.end /\ q.end = ChrEndHandle(p.svcs[i], j)
  BY DEF Progress
<1>3. /\ y.val < x.val => e < x.def
      /\ y.val = x.val => n = i /\ k = j
      /\ x.val < y.val => ChrEndHandle(p.svcs[i], j) < y.def
  <2>1. (y.val < x.val => e < x.def) /\ (y.val = x.val => n = i /\ k = j)
    BY SMTT(30), Apart
  <2>2. x.val < y.val => ChrEndHandle(p.svcs[i], j) < y.def
    BY Apart
  <2>. QED BY <2>1, <2>2
<1>4. /\ y.def \in Nat /\ y.val \in Nat /\ y.def < y.val /\ y.dscs \in Seq(Attrs)
      /\ x.def \in Nat /\ x.val \in Nat /\ x.def < x.val
  BY ChrPlaces
<1>5. e \in Nat
  BY EndHandles
<1>6. x.val = q.key
  OBVIOUS
<1>7. HasDscs(d, p.svcs[n], k, q.last)
  BY DEF Progress
<1>8. \A m \in 1 .. Len(y.dscs) :
        y.dscs[m] \in Attributes(d) /\ y.val < y.dscs[m].handle /\ y.dscs[m].handle <= q.last
  BY <1>7 DEF HasDscs, InReach
<1>. HIDE DEF x, y, e
<1>9. y.val < q.key => e < q.last
  BY <1>1, <1>2, <1>3, <1>4, <1>5, <1>6
<1>10. ASSUME q.key < y.val PROVE q.end < y.def /\ y.dscs = <<>>
  <2>1. q.end < y.def
    BY <1>2, <1>3, <1>6, <1>10
  <2>2. ASSUME NEW m \in 1 .. Len(y.dscs) PROVE FALSE
    <3>1. PICK h \in Nat : h = y.dscs[m].handle
      BY <1>8, AttributeTypes
    <3>2. y.val < h /\ h <= q.last
      BY <1>8, <3>1
    <3>3. y.def \in Nat /\ y.val \in Nat /\ y.def < y.val
      BY <1>4
    <3>4. q.last \in Nat /\ q.end \in Nat /\ q.last <= q.end
      BY <1>1, <1>2
    <3>5. y.val \in Nat /\ q.end < y.val
      BY <2>1, <3>3, <3>4
    <3>. QED BY <3>2, <3>4, <3>5
  <2>3. Len(y.dscs) \in Nat /\ (Len(y.dscs) = 0 => y.dscs = <<>>)
    BY <1>4
  <2>4. Len(y.dscs) = 0
    <3>1. CASE Len(y.dscs) # 0
      <4>1. 1 \in 1 .. Len(y.dscs)
        BY <2>3, <3>1
      <4>. QED BY <2>2, <4>1
    <3>. QED BY <3>1
  <2>. QED BY <2>1, <2>3, <2>4
<1>. QED BY <1>9, <1>10 DEF x, y, e

\* A characteristic with other descriptors: where it ends stays.
LEMMA EndsKept ==
  ASSUME NEW s, NEW t, NEW j, NEW dscs, IsSvc(t, s), Redescribed(s.chrs, j, dscs, t.chrs),
         NEW k \in 1 .. Len(s.chrs)
  PROVE  /\ k \in 1 .. Len(t.chrs) /\ t.chrs[k].def = s.chrs[k].def /\ t.chrs[k].val = s.chrs[k].val
         /\ ChrEndHandle(t, k) = ChrEndHandle(s, k)
<1>1. /\ Len(s.chrs) \in Nat /\ Len(t.chrs) = Len(s.chrs) /\ t.end = s.end
      /\ \A m \in 1 .. Len(s.chrs) : t.chrs[m].def = s.chrs[m].def /\ t.chrs[m].val = s.chrs[m].val
  BY DEF IsSvc, IsChr, Redescribed
<1>2. CASE k < Len(s.chrs)
  <2>1. k + 1 \in 1 .. Len(s.chrs)
    BY <1>1, <1>2
  <2>. QED BY <1>1, <1>2, <2>1 DEF ChrEndHandle
<1>3. CASE ~ (k < Len(s.chrs))
  BY <1>1, <1>3 DEF ChrEndHandle
<1>. QED BY <1>2, <1>3

\* The descriptor e behind the others of the j-th characteristic of the i-th service.
DscTaken(c, i, j, e) ==
  Added(c, pool.dsc > 0, WithDscs(peer[c], i, j, Append(peer[c].svcs[i].chrs[j].dscs, e)),
        [Nothing EXCEPT !.dsc = 1])

\* peer_dsc_add appends, for what has arrived lies before what arrives.
LEMMA DscAddIs ==
  ASSUME NEW c, NEW d \in Databases, Fits(d, peer[c], proc[c]), proc[c].kind = "dscs",
         Progress(d, peer[c], proc[c]),
         NEW i \in 1 .. Len(peer[c].svcs), NEW j \in 1 .. Len(peer[c].svcs[i].chrs),
         peer[c].svcs[i].chrs[j].val = proc[c].key,
         NEW e \in Attributes(d), proc[c].last < e.handle
  PROVE  DscAdd(c, proc[c].key, e) = DscTaken(c, i, j, e)
<1>. DEFINE dscs == peer[c].svcs[i].chrs[j].dscs
<1>1. DscAdd(c, proc[c].key, e) = DscKept(c, i, j, e, dscs)
  BY DscAddFinds
<1>2. dscs \in Seq(Attrs) /\ Len(dscs) \in Nat
  <2>1. dscs \in Seq(Attrs)
    BY ChrPlaces
  <2>. HIDE DEF dscs
  <2>. QED BY <2>1
<1>3. e \in Attrs /\ e.handle \in Nat
  BY AttributeTypes
<1>4. \A m \in 1 .. Len(dscs) : dscs[m] \in Attributes(d) /\ dscs[m].handle <= proc[c].last
  <2>1. HasDscs(d, peer[c].svcs[i], j, proc[c].last)
    BY DEF Progress
  <2>. QED BY <2>1 DEF HasDscs, InReach
<1>. HIDE DEF dscs
<1>5. \A m \in 1 .. Len(dscs) : dscs[m][DscKey] \in Nat /\ dscs[m][DscKey] < e.handle
  <2>. SUFFICES ASSUME NEW m \in 1 .. Len(dscs)
                PROVE  dscs[m][DscKey] \in Nat /\ dscs[m][DscKey] < e.handle
    OBVIOUS
  <2>1. PICK h \in Nat : h = dscs[m].handle
    BY <1>4, AttributeTypes
  <2>2. h <= proc[c].last /\ proc[c].last \in Nat
    BY <1>4, <2>1 DEF Fits, ProcType
  <2>3. h < e.handle
    BY <1>3, <2>2
  <2>4. dscs[m][DscKey] = dscs[m].handle
    BY DEF DscKey
  <2>. QED BY <2>1, <2>3, <2>4
<1>6. FindPrev(dscs, DscKey, e.handle) = Len(dscs) /\ Find(dscs, DscKey, e.handle) = 0
  BY <1>2, <1>5, FindPrevAll
<1>7. LinkAfter(dscs, Len(dscs), e) = Append(dscs, e)
  BY <1>2, <1>3, AtTheEnd
<1>. QED BY <1>1, <1>6, <1>7 DEF DscKept, DscTaken, dscs

\* A descriptor comes: those of the characteristic before it had come.
LEMMA DscAddBetter ==
  ASSUME NEW c, NEW d \in Databases, Fits(d, peer[c], proc[c]), proc[c].kind = "dscs",
         Progress(d, peer[c], proc[c]),
         NEW e \in Further(c, Attributes(d), "handle"),
         NEW o \in GoesOn(DscAdd(c, proc[c].key, e), e.handle)
  PROVE  Better(d, o)
<1>. DEFINE p == peer[c]
            q == [proc[c] EXCEPT !.last = e.handle]
<1>1. proc[c] \in ProcType /\ proc[c].last \in Nat /\ p \in PeerType
  BY DEF Fits, ProcType
<1>2. /\ e \in Attributes(d) /\ proc[c].last < e.handle /\ e.handle <= proc[c].end
      /\ \A a \in Attributes(d) : a.handle < e.handle => a.handle <= proc[c].last
  <2>1. \A a \in Attributes(d) : a.handle \in Nat
    BY AttributeTypes
  <2>. QED BY <1>1, <2>1, NextOf
<1>3. e \in Attrs /\ e.handle \in Nat
  BY <1>2, AttributeTypes
<1>4. PICK i \in 1 .. Len(p.svcs) : \E j \in 1 .. Len(p.svcs[i].chrs) : p.svcs[i].chrs[j].val = proc[c].key
  BY DEF Fits, Position
<1>5. PICK j \in 1 .. Len(p.svcs[i].chrs) : p.svcs[i].chrs[j].val = proc[c].key
  BY <1>4
<1>. DEFINE s == p.svcs[i]
            dscs == s.chrs[j].dscs
            w == WithDscs(p, i, j, Append(dscs, e))
            t == w.svcs[i]
<1>6. DscAdd(c, proc[c].key, e) = Added(c, pool.dsc > 0, w, [Nothing EXCEPT !.dsc = 1])
  <2>1. DscAdd(c, proc[c].key, e) = DscTaken(c, i, j, e)
    BY <1>2, <1>5, DscAddIs
  <2>. QED BY <2>1 DEF DscTaken
<1>7. /\ dscs \in Seq(Attrs) /\ Append(dscs, e) \in Seq(Attrs)
      /\ Len(dscs) \in Nat /\ Len(Append(dscs, e)) = Len(dscs) + 1
      /\ Append(dscs, e)[Len(dscs) + 1] = e
      /\ \A m \in 1 .. Len(dscs) : Append(dscs, e)[m] = dscs[m]
  <2>1. dscs \in Seq(Attrs)
    BY <1>5, ChrPlaces
  <2>. HIDE DEF dscs
  <2>. QED BY <1>3, <2>1, AtTheEnd
<1>8. SvcKept(p, i, w) /\ Redescribed(s.chrs, j, Append(dscs, e), t.chrs)
  <2>. DEFINE more == Append(dscs, e)
  <2>1. more \in Seq(Attrs)
    BY <1>7
  <2>. HIDE DEF more
  <2>2. /\ SvcKept(p, i, WithDscs(p, i, j, more))
        /\ Redescribed(s.chrs, j, more, WithDscs(p, i, j, more).svcs[i].chrs)
    BY <1>1, <1>5, <2>1, DscsChanged
  <2>. QED BY <2>2 DEF more
<1>9. q.kind = "dscs" /\ q.end = proc[c].end /\ q.last = e.handle /\ q.key = proc[c].key
  BY <1>1, <1>3 DEF ProcType
<1>10. /\ proc[c].end = ChrEndHandle(s, j) /\ proc[c].key <= proc[c].last
       /\ proc[c].key \in Nat /\ proc[c].last \in Nat /\ proc[c].end \in Nat
  <2>1. proc[c].key \in Nat /\ proc[c].end \in Nat
    BY <1>1 DEF ProcType
  <2>. HIDE DEF w, t, dscs
  <2>2. proc[c].key <= proc[c].last /\ proc[c].end = ChrEndHandle(s, j)
    BY <1>5 DEF Progress
  <2>. QED BY <1>1, <2>1, <2>2
<1>11. /\ p.prev = proc[c].key /\ AllChrs(d, p.svcs)
       /\ \A n \in 1 .. Len(p.svcs) : \A k \in 1 .. Len(p.svcs[n].chrs) :
            HasDscs(d, p.svcs[n], k, proc[c].last)
  BY DEF Progress
<1>. HIDE DEF w
<1>12. /\ w.prev = p.prev /\ Len(w.svcs) = Len(p.svcs) /\ IsSvc(t, s)
       /\ \A n \in 1 .. Len(p.svcs) : n # i => w.svcs[n] = p.svcs[n]
  BY <1>8 DEF SvcKept
<1>13. \A k \in 1 .. Len(s.chrs) : k # j => t.chrs[k] = s.chrs[k]
  BY <1>8 DEF Redescribed
<1>14. t.chrs[j].dscs = Append(dscs, e) /\ Len(t.chrs) = Len(s.chrs)
  BY <1>8 DEF Redescribed
<1>15. \A k \in 1 .. Len(s.chrs) :
         /\ k \in 1 .. Len(t.chrs) /\ t.chrs[k].def = s.chrs[k].def /\ t.chrs[k].val = s.chrs[k].val
         /\ ChrEndHandle(t, k) = ChrEndHandle(s, k)
  BY <1>8, <1>12, EndsKept
\* The characteristic the descriptor belongs to.
<1>16. HasDscs(d, t, j, e.handle)
  <2>1. \A h, a : InReach(t, j, h, a) <=> InReach(s, j, h, a)
    BY <1>5, <1>15 DEF InReach
  <2>2. HasDscs(d, s, j, proc[c].last)
    BY <1>5, <1>11
  <2>3. \A a \in Attributes(d) : InReach(s, j, proc[c].last, a) => InReach(s, j, e.handle, a)
    <3>. SUFFICES ASSUME NEW a \in Attributes(d), InReach(s, j, proc[c].last, a)
                  PROVE  a.handle <= e.handle
      BY DEF InReach
    <3>1. a.handle \in Nat /\ a.handle <= proc[c].last
      BY AttributeTypes DEF InReach
    <3>. QED BY <1>1, <1>2, <1>3, <3>1
  <2>4. InReach(s, j, e.handle, e)
    <3>1. proc[c].key < e.handle
      BY <1>1, <1>2, <1>3, <1>10
    <3>. QED BY <1>2, <1>3, <1>5, <1>10, <3>1 DEF InReach
  <2>5. \A a \in Attributes(d) : InReach(s, j, e.handle, a) =>
          a.handle = e.handle \/ InReach(s, j, proc[c].last, a)
    <3>. SUFFICES ASSUME NEW a \in Attributes(d), InReach(s, j, e.handle, a), a.handle # e.handle
                  PROVE  a.handle <= proc[c].last
      BY DEF InReach
    <3>1. a.handle \in Nat /\ a.handle <= e.handle
      BY AttributeTypes DEF InReach
    <3>2. a.handle < e.handle
      BY <1>3, <3>1
    <3>. QED BY <1>2, <3>2
  <2>. HIDE DEF t, s
  <2>6. ASSUME NEW m \in 1 .. Len(t.chrs[j].dscs)
        PROVE  t.chrs[j].dscs[m] \in Attributes(d) /\ InReach(t, j, e.handle, t.chrs[j].dscs[m])
    <3>1. CASE m \in 1 .. Len(dscs)
      <4>1. t.chrs[j].dscs[m] = dscs[m]
        BY <1>7, <1>14, <3>1
      <4>2. dscs[m] \in Attributes(d) /\ InReach(s, j, proc[c].last, dscs[m])
        BY <2>2, <3>1 DEF HasDscs
      <4>. QED BY <1>3, <2>1, <2>3, <4>1, <4>2
    <3>2. CASE m = Len(dscs) + 1
      <4>1. t.chrs[j].dscs[m] = e
        BY <1>7, <1>14, <3>2
      <4>. QED BY <1>2, <1>3, <2>1, <2>4, <4>1
    <3>3. m \in 1 .. (Len(dscs) + 1) /\ Len(dscs) \in Nat
      BY <1>7, <1>14
    <3>4. m \in 1 .. Len(dscs) \/ m = Len(dscs) + 1
      <4>. HIDE DEF dscs
      <4>. QED BY <3>3
    <3>. QED BY <3>1, <3>2, <3>4
  <2>7. ASSUME NEW a \in Attributes(d), InReach(t, j, e.handle, a)
        PROVE  \E m \in 1 .. Len(t.chrs[j].dscs) : t.chrs[j].dscs[m].handle = a.handle
    <3>1. InReach(s, j, e.handle, a)
      BY <1>3, <2>1, <2>7
    <3>2. CASE a.handle = e.handle
      <4>1. Len(dscs) + 1 \in 1 .. Len(t.chrs[j].dscs) /\ t.chrs[j].dscs[Len(dscs) + 1] = e
        BY <1>7, <1>14
      <4>. QED BY <3>2, <4>1
    <3>3. CASE InReach(s, j, proc[c].last, a)
      <4>1. PICK m \in 1 .. Len(dscs) : dscs[m].handle = a.handle
        BY <2>2, <3>3 DEF HasDscs
      <4>2. m \in 1 .. Len(t.chrs[j].dscs) /\ t.chrs[j].dscs[m] = dscs[m]
        BY <1>7, <1>14
      <4>. QED BY <4>1, <4>2
    <3>. QED BY <2>5, <3>1, <3>2, <3>3
  <2>. QED BY <2>6, <2>7 DEF HasDscs
\* The others.
<1>17. ASSUME NEW n \in 1 .. Len(p.svcs), NEW k \in 1 .. Len(p.svcs[n].chrs), n # i \/ k # j
       PROVE  HasDscs(d, p.svcs[n], k, e.handle)
  <2>. DEFINE y == p.svcs[n].chrs[k]
  <2>1. /\ y.val < proc[c].key \/ proc[c].key < y.val
        /\ y.val < proc[c].key => ChrEndHandle(p.svcs[n], k) < proc[c].last
        /\ proc[c].key < y.val => proc[c].end < y.def
    <3>1. (n = i /\ k = j) \/ y.val < proc[c].key \/ proc[c].key < y.val
      BY <1>5, OnePlace
    <3>2. /\ y.val < proc[c].key => ChrEndHandle(p.svcs[n], k) < proc[c].last
          /\ proc[c].key < y.val => proc[c].end < y.def
      BY <1>5, Beside
    <3>. QED BY <1>17, <3>1, <3>2
  <2>2. y.val \in Nat /\ y.def \in Nat /\ y.def < y.val /\ ChrEndHandle(p.svcs[n], k) \in Nat
    BY ChrPlaces, EndHandles
  <2>3. ASSUME NEW a \in Attributes(d)
        PROVE  InReach(p.svcs[n], k, e.handle, a) <=> InReach(p.svcs[n], k, proc[c].last, a)
    <3>. DEFINE ends == ChrEndHandle(p.svcs[n], k)
    <3>1. a.handle \in Nat
      BY AttributeTypes
    <3>. SUFFICES (y.val < a.handle /\ a.handle <= ends /\ a.handle <= e.handle)
                    <=> (y.val < a.handle /\ a.handle <= ends /\ a.handle <= proc[c].last)
      BY DEF InReach
    <3>2. ends \in Nat /\ y.val \in Nat /\ y.def \in Nat /\ y.def < y.val
      BY <2>2
    <3>. HIDE DEF y, ends
    <3>3. CASE y.val < proc[c].key
      <4>1. ends < proc[c].last
        BY <2>1, <3>3 DEF ends, y
      <4>. QED BY SMTT(30), <1>1, <1>2, <1>3, <3>1, <3>2, <4>1
    <3>4. CASE proc[c].key < y.val
      <4>1. proc[c].end < y.def
        BY <2>1, <3>4 DEF y
      <4>2. e.handle < y.val
        BY <1>2, <1>3, <1>10, <3>2, <4>1
      <4>. QED BY SMTT(30), <1>1, <1>2, <1>3, <3>1, <3>2, <4>2
    <3>5. y.val < proc[c].key \/ proc[c].key < y.val
      BY <2>1 DEF y
    <3>. QED BY <3>3, <3>4, <3>5
  <2>4. HasDscs(d, p.svcs[n], k, proc[c].last)
    BY <1>11
  <2>. QED BY <2>3, <2>4, SameReach
<1>18. Progress(d, w, q)
  <2>1. AllChrs(d, w.svcs)
    <3>1. \A n \in 1 .. Len(p.svcs) : n \in 1 .. Len(w.svcs) /\ w.svcs[n].start = p.svcs[n].start
      BY <1>12 DEF IsSvc
    <3>2. HasSvcs(d, w.svcs, MaxHandle)
      BY <1>11, <3>1 DEF AllChrs, HasSvcs
    <3>3. ASSUME NEW n \in 1 .. Len(w.svcs) PROVE HasChrs(d, w.svcs[n], w.svcs[n].end)
      <4>1. HasChrs(d, p.svcs[n], p.svcs[n].end)
        BY <1>11, <1>12 DEF AllChrs
      <4>2. CASE n # i
        BY <1>12, <4>1, <4>2
      <4>3. CASE n = i
        <5>1. t.start = s.start /\ t.end = s.end
          BY <1>12 DEF IsSvc
        <5>2. HasChrs(d, s, s.end)
          BY <4>1, <4>3
        <5>. HIDE DEF t, s
        <5>3. HasChrs(d, t, t.end)
          BY <1>15, <5>1, <5>2 DEF HasChrs
        <5>. QED BY <4>3, <5>3 DEF t
      <4>. QED BY <4>2, <4>3
    <3>. QED BY <3>2, <3>3 DEF AllChrs
  <2>2. ASSUME NEW n \in 1 .. Len(w.svcs), NEW k \in 1 .. Len(w.svcs[n].chrs)
        PROVE  /\ HasDscs(d, w.svcs[n], k, e.handle)
               /\ w.svcs[n].chrs[k].val = proc[c].key => ChrEndHandle(w.svcs[n], k) = proc[c].end
    <3>1. n \in 1 .. Len(p.svcs)
      BY <1>12
    <3>2. CASE n # i
      <4>1. w.svcs[n] = p.svcs[n]
        BY <1>12, <3>1, <3>2
      <4>2. HasDscs(d, p.svcs[n], k, e.handle)
        BY <1>17, <3>1, <3>2, <4>1
      <4>3. p.svcs[n].chrs[k].val < proc[c].key \/ proc[c].key < p.svcs[n].chrs[k].val
        BY <1>5, <3>1, <3>2, <4>1, OnePlace
      <4>4. p.svcs[n].chrs[k].val # proc[c].key
        BY <1>10, <4>3
      <4>. QED BY <4>1, <4>2, <4>4
    <3>3. CASE n = i /\ k # j
      <4>1. k \in 1 .. Len(s.chrs) /\ t.chrs[k] = s.chrs[k]
        BY <1>13, <1>14, <3>3
      <4>2. HasDscs(d, s, k, e.handle)
        BY <1>17, <3>3, <4>1
      <4>3. ChrEndHandle(t, k) = ChrEndHandle(s, k)
        BY <1>15, <4>1
      <4>4. s.chrs[k].val < proc[c].key \/ proc[c].key < s.chrs[k].val
        BY <1>5, <3>3, <4>1, OnePlace
      <4>5. HasDscs(d, t, k, e.handle)
        <5>1. \A a \in Attributes(d) : InReach(t, k, e.handle, a) <=> InReach(s, k, e.handle, a)
          BY <4>1, <4>3 DEF InReach
        <5>. HIDE DEF s, t
        <5>. QED BY <4>1, <4>2, <5>1, SameReach
      <4>6. t.chrs[k].val # proc[c].key
        BY <1>10, <3>3, <4>1, <4>4
      <4>. QED BY <3>3, <4>5, <4>6
    <3>4. CASE n = i /\ k = j
      <4>1. ChrEndHandle(t, j) = proc[c].end
        BY <1>5, <1>10, <1>15
      <4>. QED BY <1>16, <3>4, <4>1
    <3>. QED BY <3>2, <3>3, <3>4
  <2>3. proc[c].key <= e.handle
    BY <1>2, <1>3, <1>10
  <2>. HIDE DEF q
  <2>. QED BY <1>2, <1>9, <1>11, <1>12, <2>1, <2>2, <2>3 DEF Progress
<1>19. proc[c] # NoProc
  BY DEF NoProc
<1>20. o \in GoesOn(Added(c, pool.dsc > 0, w, [Nothing EXCEPT !.dsc = 1]), e.handle)
  BY <1>6
<1>. HIDE DEF q
<1>. QED BY <1>18, <1>19, <1>20, AddedBetter DEF q

-----------------------------------------------------------------------------
(* The next request.                                                       *)

\* Before peer_disc_chrs: the services are known, and of each all the characteristics or
\* none.  Before peer_disc_dscs: all characteristics are known, and of those up to the
\* last one asked about the descriptors.
Listed(d, p) ==
  /\ p.prev <= 1 /\ HasSvcs(d, p.svcs, MaxHandle)
  /\ \A i \in 1 .. Len(p.svcs) :
       NoDscs(p.svcs[i]) /\ (p.svcs[i].chrs # <<>> => HasChrs(d, p.svcs[i], p.svcs[i].end))
Ready(d, p) ==
  /\ AllChrs(d, p.svcs)
  /\ \A i \in 1 .. Len(p.svcs) : \A j \in 1 .. Len(p.svcs[i].chrs) :
       /\ p.svcs[i].chrs[j].val <= p.prev => HasDscs(d, p.svcs[i], j, MaxHandle)
       /\ p.prev < p.svcs[i].chrs[j].val =>
            p.svcs[i].chrs[j].dscs = <<>> /\ p.prev <= p.svcs[i].chrs[j].def

\* Nothing is in reach of a characteristic: it has no descriptors up to there.
LEMMA NoneInReach ==
  ASSUME NEW d, NEW s, NEW j, NEW h, s.chrs[j].dscs = <<>>,
         \A a \in Attributes(d) : ~InReach(s, j, h, a)
  PROVE  HasDscs(d, s, j, h)
<1>1. Len(s.chrs[j].dscs) = 0
  OBVIOUS
<1>. QED BY <1>1 DEF HasDscs

\* The descriptors of a characteristic end at a handle of 16 bits.
LEMMA ReachesAll ==
  ASSUME NEW d \in Databases, NEW p, NEW q, Fits(d, p, q), NEW i \in 1 .. Len(p.svcs),
         NEW j \in 1 .. Len(p.svcs[i].chrs), NEW a \in Attributes(d),
         InReach(p.svcs[i], j, MaxHandle, a) \/ \E h : InReach(p.svcs[i], j, h, a)
  PROVE  /\ a.handle \in Nat /\ a.handle <= MaxHandle /\ a.handle <= ChrEndHandle(p.svcs[i], j)
         /\ p.svcs[i].chrs[j].val < a.handle
<1>. DEFINE e == ChrEndHandle(p.svcs[i], j)
<1>1. a.handle \in Nat
  BY AttributeTypes
<1>2. e \in Nat /\ e <= p.svcs[i].end
  BY EndHandles
<1>3. p.svcs[i].end \in Nat /\ p.svcs[i].end <= MaxHandle
  BY Places
<1>4. p.svcs[i].chrs[j].val < a.handle /\ a.handle <= e
  BY DEF InReach
<1>. HIDE DEF e
<1>5. a.handle <= MaxHandle
  BY <1>1, <1>2, <1>3, <1>4 DEF MaxHandle
<1>. QED BY <1>1, <1>4, <1>5 DEF e

\* peer_disc_dscs has nothing left to ask for.
LEMMA AllDescribed ==
  ASSUME NEW d \in Databases, NEW p, NEW q, Fits(d, p, q), Ready(d, p),
         \A i \in 1 .. Len(p.svcs) : Undescribed(p, p.svcs[i]) = {}
  PROVE  Complete(d, p)
<1>. SUFFICES ASSUME NEW i \in 1 .. Len(p.svcs), NEW j \in 1 .. Len(p.svcs[i].chrs)
              PROVE  HasDscs(d, p.svcs[i], j, MaxHandle)
  BY DEF Complete, Ready
<1>. DEFINE x == p.svcs[i].chrs[j]
<1>1. x.val \in Nat /\ p.prev \in Nat
  BY ChrPlaces DEF Fits, PeerType
<1>2. CASE x.val <= p.prev
  BY <1>2 DEF Ready
<1>3. CASE p.prev < x.val
  <2>1. x.dscs = <<>> /\ p.prev <= x.def
    BY <1>3 DEF Ready
  <2>2. j \in DOMAIN p.svcs[i].chrs
    BY ListTypes
  <2>3. ChrIsEmpty(p.svcs[i], j)
    BY <2>1, <2>2 DEF Undescribed
  <2>4. \A a \in Attributes(d) : ~InReach(p.svcs[i], j, MaxHandle, a)
    <3>. SUFFICES ASSUME NEW a \in Attributes(d), InReach(p.svcs[i], j, MaxHandle, a) PROVE FALSE
      OBVIOUS
    <3>. DEFINE e == ChrEndHandle(p.svcs[i], j)
    <3>1. e <= x.val /\ e \in Nat
      BY <2>3, EndHandles DEF ChrIsEmpty
    <3>2. a.handle \in Nat /\ a.handle <= e /\ x.val < a.handle
      BY ReachesAll
    <3>. HIDE DEF e, x
    <3>. QED BY <1>1, <3>1, <3>2
  <2>. QED BY <2>1, <2>4, NoneInReach
<1>4. x.val <= p.prev \/ p.prev < x.val
  <2>. HIDE DEF x
  <2>. QED BY <1>1
<1>. QED BY <1>2, <1>3, <1>4

\* peer_disc_dscs asks for the descriptors of the first characteristic that has none yet
\* and may have some: those before it have all of theirs.
LEMMA NextDescribed ==
  ASSUME NEW d \in Databases, NEW p, NEW q, Fits(d, p, q), Ready(d, p),
         NEW i \in 1 .. Len(p.svcs), NEW j \in Undescribed(p, p.svcs[i]),
         \A n \in 1 .. Len(p.svcs) : n < i => Undescribed(p, p.svcs[n]) = {},
         \A k \in Undescribed(p, p.svcs[i]) : j <= k,
         NEW n \in 1 .. Len(p.svcs), NEW k \in 1 .. Len(p.svcs[n].chrs)
  PROVE  HasDscs(d, p.svcs[n], k, p.svcs[i].chrs[j].val)
<1>. DEFINE x == p.svcs[i].chrs[j]
            y == p.svcs[n].chrs[k]
            e == ChrEndHandle(p.svcs[n], k)
<1>1. /\ j \in 1 .. Len(p.svcs[i].chrs) /\ k \in DOMAIN p.svcs[n].chrs
      /\ x.dscs = <<>> /\ p.prev <= x.def
  <2>1. p.svcs[i].chrs \in Seq(ChrType) /\ p.svcs[n].chrs \in Seq(ChrType)
    BY ListTypes
  <2>2. j \in DOMAIN p.svcs[i].chrs /\ x.dscs = <<>> /\ p.prev <= x.def
    BY DEF Undescribed
  <2>3. DOMAIN p.svcs[i].chrs = 1 .. Len(p.svcs[i].chrs) /\ DOMAIN p.svcs[n].chrs = 1 .. Len(p.svcs[n].chrs)
    BY <2>1
  <2>. QED BY <2>2, <2>3
<1>2. p.prev \in Nat /\ x.def \in Nat /\ x.val \in Nat /\ x.def < x.val
  BY <1>1, ChrPlaces DEF Fits, PeerType
<1>3. y.def \in Nat /\ y.val \in Nat /\ y.def < y.val
  BY ChrPlaces
<1>4. e \in Nat
  BY EndHandles
<1>5. y.val < x.val => e < x.def
  BY <1>1, Apart
<1>6. i \in Nat /\ n \in Nat /\ j \in Nat /\ k \in Nat
  <2>1. i \in Nat /\ n \in Nat
    BY Places
  <2>2. Len(p.svcs[i].chrs) \in Nat /\ Len(p.svcs[n].chrs) \in Nat
    BY Places
  <2>. QED BY <1>1, <2>1, <2>2
<1>7. CASE y.val <= p.prev
  <2>1. HasDscs(d, p.svcs[n], k, MaxHandle)
    BY <1>7 DEF Ready
  <2>2. e < x.val
    <3>. HIDE DEF x, y, e
    <3>. QED BY <1>1, <1>2, <1>3, <1>4, <1>5, <1>7
  <2>3. ASSUME NEW a \in Attributes(d)
        PROVE  InReach(p.svcs[n], k, x.val, a) <=> InReach(p.svcs[n], k, MaxHandle, a)
    <3>1. InReach(p.svcs[n], k, x.val, a) => InReach(p.svcs[n], k, MaxHandle, a)
      BY ReachesAll DEF InReach
    <3>2. InReach(p.svcs[n], k, MaxHandle, a) => a.handle <= x.val
      <4>. SUFFICES ASSUME InReach(p.svcs[n], k, MaxHandle, a) PROVE a.handle <= x.val
        OBVIOUS
      <4>1. a.handle \in Nat /\ a.handle <= e
        BY ReachesAll
      <4>. HIDE DEF x, e
      <4>. QED BY <1>2, <1>4, <2>2, <4>1
    <3>. QED BY <3>1, <3>2 DEF InReach
  <2>. QED BY <2>1, <2>3, SameReach
<1>8. CASE p.prev < y.val
  <2>1. y.dscs = <<>> /\ p.prev <= y.def
    BY <1>8 DEF Ready
  <2>2. \A a \in Attributes(d) : ~InReach(p.svcs[n], k, x.val, a)
    <3>. SUFFICES ASSUME NEW a \in Attributes(d), InReach(p.svcs[n], k, x.val, a) PROVE FALSE
      OBVIOUS
    <3>1. PICK h \in Nat : h = a.handle
      BY AttributeTypes
    <3>2. y.val < h /\ h <= e /\ h <= x.val
      BY <3>1 DEF InReach
    <3>3. y.val < x.val
      <4>. HIDE DEF x, y, e
      <4>. QED BY <1>2, <1>3, <3>2
    <3>4. n < i \/ (n = i /\ k < j)
      <4>1. (i < n => x.val < y.val) /\ (n = i /\ j < k => x.val < y.val)
        BY <1>1, Apart
      <4>2. n = i /\ j = k => x.val = y.val
        OBVIOUS
      <4>. HIDE DEF x, y
      <4>. QED BY <1>2, <1>3, <1>6, <3>3, <4>1, <4>2
    <3>5. k \notin Undescribed(p, p.svcs[n])
      BY SMTT(30), <1>6, <3>4
    <3>6. e <= y.val
      BY <1>1, <2>1, <3>5 DEF Undescribed, ChrIsEmpty
    <3>. HIDE DEF x, y, e
    <3>. QED BY <1>3, <1>4, <3>2, <3>6
  <2>. QED BY <2>1, <2>2, NoneInReach
<1>9. y.val <= p.prev \/ p.prev < y.val
  <2>. HIDE DEF y
  <2>. QED BY <1>2, <1>3
<1>. QED BY <1>7, <1>8, <1>9

\* peer_disc_dscs: the next request, or everything is in the lists.
LEMMA DiscDscsBetter ==
  ASSUME NEW d \in Databases, NEW p, NEW q, Fits(d, p, q), Ready(d, p), NEW o \in DiscDscs(p)
  PROVE  Better(d, o)
<1>. DEFINE I == {n \in 1 .. Len(p.svcs) : Undescribed(p, p.svcs[n]) # {}}
            i == SelectInSeq(p.svcs, LAMBDA s : Undescribed(p, s) # {})
            s == p.svcs[i]
            J == Undescribed(p, s)
            j == Min(J)
            val == s.chrs[j].val
            r == [p EXCEPT !.prev = val]
            q1 == Request("dscs", val, val, ChrEndHandle(s, j))
<1>1. i = IF I # {} THEN Min(I) ELSE 0
  BY DEF SelectInSeq
<1>2. p.svcs \in Seq(SvcType) /\ Len(p.svcs) \in Nat
  BY DEF Fits, PeerType
<1>3. I # {} => i \in 1 .. Len(p.svcs) /\ J # {} /\ \A n \in 1 .. Len(p.svcs) : n < i => Undescribed(p, p.svcs[n]) = {}
  <2>. SUFFICES ASSUME I # {}
                PROVE  i \in 1 .. Len(p.svcs) /\ J # {} /\ \A n \in 1 .. Len(p.svcs) : n < i => Undescribed(p, p.svcs[n]) = {}
    OBVIOUS
  <2>1. I \in SUBSET (0 .. Len(p.svcs))
    BY <1>2
  <2>2. Min(I) \in I /\ \A y \in I : Min(I) <= y
    <3>. HIDE DEF I
    <3>. QED BY <1>2, <2>1, LeastOf
  <2>3. i \in I /\ \A y \in I : i <= y
    BY <1>1, <2>2
  <2>. HIDE DEF i
  <2>4. i \in 1 .. Len(p.svcs) /\ J # {}
    BY <2>3
  <2>5. ASSUME NEW n \in 1 .. Len(p.svcs), n < i, Undescribed(p, p.svcs[n]) # {} PROVE FALSE
    <3>1. i <= n
      BY <2>3, <2>5
    <3>2. i \in Nat /\ n \in Nat
      BY <1>2, <2>4
    <3>. QED BY <2>5, <3>1, <3>2
  <2>. QED BY <2>4, <2>5
<1>4. CASE i = 0
  <2>1. o = DiscComplete(p, "0")
    BY <1>4 DEF DiscDscs
  <2>2. I = {}
    <3>1. CASE I # {}
      <4>1. i \in 1 .. Len(p.svcs)
        BY <1>3, <3>1
      <4>. HIDE DEF i
      <4>. QED BY <1>2, <1>4, <4>1
    <3>. QED BY <3>1
  <2>3. Complete(d, p)
    BY <2>2, AllDescribed
  <2>4. o.rc = "0" /\ o.proc.kind = "none" /\ o.peer.svcs = p.svcs
    BY <2>1 DEF DiscComplete, Outcome, NoProc, Fits, PeerType
  <2>. QED BY <2>3, <2>4, IdleProgress DEF Better, Complete
<1>5. CASE i # 0
  <2>1. /\ i \in 1 .. Len(p.svcs) /\ J # {}
        /\ \A n \in 1 .. Len(p.svcs) : n < i => Undescribed(p, p.svcs[n]) = {}
    BY <1>1, <1>3, <1>5
  <2>. HIDE DEF I, i
  <2>2. s.chrs \in Seq(ChrType) /\ Len(s.chrs) \in Nat
    BY <2>1, ListTypes
  <2>3. J \in SUBSET (1 .. Len(s.chrs)) /\ J \in SUBSET (0 .. Len(s.chrs))
    BY <2>2 DEF Undescribed
  <2>4. j \in J /\ \A k \in J : j <= k
    <3>. HIDE DEF J
    <3>. QED BY <2>1, <2>2, <2>3, LeastOf
  <2>. HIDE DEF j
  <2>5. j \in 1 .. Len(s.chrs)
    BY <2>3, <2>4
  <2>6. \A n \in 1 .. Len(p.svcs) : \A k \in 1 .. Len(p.svcs[n].chrs) : HasDscs(d, p.svcs[n], k, val)
    BY <2>1, <2>4, NextDescribed
  <2>7. \A n \in 1 .. Len(p.svcs) : \A k \in 1 .. Len(p.svcs[n].chrs) :
          p.svcs[n].chrs[k].val = val => n = i /\ k = j
    <3>. SUFFICES ASSUME NEW n \in 1 .. Len(p.svcs), NEW k \in 1 .. Len(p.svcs[n].chrs), ~ (n = i /\ k = j)
                  PROVE  p.svcs[n].chrs[k].val # val
      OBVIOUS
    <3>1. p.svcs[n].chrs[k].val < val \/ val < p.svcs[n].chrs[k].val
      BY <2>1, <2>5, OnePlace
    <3>2. val \in Nat
      BY <2>1, <2>5, ChrPlaces
    <3>. HIDE DEF val
    <3>. QED BY <3>1, <3>2
  <2>8. val \in Nat /\ val <= ChrEndHandle(s, j) /\ ChrEndHandle(s, j) \in Nat
    BY <2>1, <2>5, ChrPlaces, EndHandles
  <2>9. r.prev = val /\ r.svcs = p.svcs
    BY DEF Fits, PeerType
  <2>10. q1.kind = "dscs" /\ q1.key = val /\ q1.last = val /\ q1.end = ChrEndHandle(s, j)
    BY DEF Request, NoProc
  <2>11. Progress(d, r, q1)
    <3>1. AllChrs(d, r.svcs)
      BY <2>9 DEF Ready
    <3>. HIDE DEF r, q1
    <3>2. q1.key <= q1.last /\ q1.last <= q1.end
      <4>. HIDE DEF val
      <4>. QED BY <2>8, <2>10
    <3>3. ASSUME NEW n \in 1 .. Len(r.svcs), NEW k \in 1 .. Len(r.svcs[n].chrs)
          PROVE  /\ HasDscs(d, r.svcs[n], k, q1.last)
                 /\ r.svcs[n].chrs[k].val = q1.key => ChrEndHandle(r.svcs[n], k) = q1.end
      BY <2>6, <2>7, <2>9, <2>10
    <3>. QED BY <2>9, <2>10, <3>1, <3>2, <3>3 DEF Progress
  <2>12. o \in {Outcome(r, q1, "none", Nothing), Outcome([r EXCEPT !.prev = val], NoProc, "not started", Nothing)}
    <3>1. [Outcome(p, q1, "none", Nothing) EXCEPT !.peer.prev = val] = Outcome(r, q1, "none", Nothing)
      BY DEF Outcome
    <3>2. [DiscComplete(p, "not started") EXCEPT !.peer.prev = val]
            = Outcome([[p EXCEPT !.prev = 0] EXCEPT !.prev = val], NoProc, "not started", Nothing)
      <4>1. DiscComplete(p, "not started") = Outcome([p EXCEPT !.prev = 0], NoProc, "not started", Nothing)
        BY DEF DiscComplete
      <4>. HIDE DEF val
      <4>2. \A x, rc : [Outcome(x, NoProc, rc, Nothing) EXCEPT !.peer.prev = val] = Outcome([x EXCEPT !.prev = val], NoProc, rc, Nothing)
        BY OutcomePrev
      <4>. QED BY <4>1, <4>2
    <3>3. [[p EXCEPT !.prev = 0] EXCEPT !.prev = val] = [r EXCEPT !.prev = val]
      BY DEF Fits, PeerType
    <3>. QED BY <1>5, <3>1, <3>2, <3>3 DEF DiscDscs, i, j, J
  <2>. HIDE DEF r, q1
  <2>13. CASE o = Outcome(r, q1, "none", Nothing)
    <3>1. o.peer = r /\ o.proc = q1 /\ o.rc = "none"
      BY <2>13 DEF Outcome
    <3>. QED BY <2>11, <3>1 DEF Better
  <2>14. CASE o = Outcome([r EXCEPT !.prev = val], NoProc, "not started", Nothing)
    <3>1. o.proc.kind = "none" /\ o.rc = "not started"
      BY <2>14 DEF Outcome, NoProc
    <3>. QED BY <3>1, IdleProgress DEF Better
  <2>. QED BY <2>12, <2>13, <2>14
<1>. QED BY <1>4, <1>5

\* All services have their characteristics: on to the descriptors.
LEMMA AllListed ==
  ASSUME NEW d \in Databases, NEW p, NEW q, Fits(d, p, q), Listed(d, p),
         \A i \in 1 .. Len(p.svcs) : SvcIsEmpty(p.svcs[i]) \/ p.svcs[i].chrs # <<>>
  PROVE  Ready(d, p)
<1>1. ASSUME NEW i \in 1 .. Len(p.svcs) PROVE HasChrs(d, p.svcs[i], p.svcs[i].end)
  <2>1. CASE p.svcs[i].chrs # <<>>
    BY <2>1 DEF Listed
  <2>2. CASE p.svcs[i].chrs = <<>>
    <3>1. p.svcs[i].end <= p.svcs[i].start
      BY <2>2 DEF SvcIsEmpty
    <3>2. PICK s \in d.svcs : IsSvc(p.svcs[i], s)
      BY Places
    <3>3. \A x \in d.chrs : ~ (s.start <= x.def /\ x.def <= s.end)
      <4>. SUFFICES ASSUME NEW x \in d.chrs, s.start <= x.def, x.def <= s.end PROVE FALSE
        OBVIOUS
      <4>1. s.start \in Nat /\ s.end \in Nat /\ s.end <= s.start
        BY <3>1, <3>2, SvcFacts DEF IsSvc
      <4>2. x.def \in Nat /\ s.start < x.def
        BY ChrFacts
      <4>. QED BY <4>1, <4>2
    <3>. QED BY <3>2, <3>3 DEF HasChrs, IsSvc
  <2>. QED BY <2>1, <2>2
<1>2. ASSUME NEW i \in 1 .. Len(p.svcs), NEW j \in 1 .. Len(p.svcs[i].chrs)
      PROVE  /\ ~ (p.svcs[i].chrs[j].val <= p.prev)
             /\ p.svcs[i].chrs[j].dscs = <<>> /\ p.prev <= p.svcs[i].chrs[j].def
  <2>. DEFINE x == p.svcs[i].chrs[j]
  <2>1. p.svcs[i].start \in Nat \ {0}
    BY Places
  <2>2. x.def \in Nat /\ x.val \in Nat /\ p.svcs[i].start <= x.def /\ x.def < x.val
    BY ChrPlaces
  <2>3. p.prev \in Nat /\ p.prev <= 1
    BY DEF Listed, Fits, PeerType
  <2>4. x.dscs = <<>>
    BY DEF Listed, NoDscs
  <2>5. p.prev <= x.def /\ p.prev < x.val
    <3>. HIDE DEF x
    <3>. QED BY <2>1, <2>2, <2>3
  <2>. QED BY <2>2, <2>3, <2>4, <2>5
<1>. QED BY <1>1, <1>2 DEF Ready, Listed, AllChrs

\* peer_disc_chrs: the next request for characteristics, or the first for descriptors.
LEMMA DiscChrsBetter ==
  ASSUME NEW d \in Databases, NEW p, NEW q, Fits(d, p, q), Listed(d, p), NEW o \in DiscChrs(p)
  PROVE  Better(d, o)
<1>. DEFINE I == {n \in 1 .. Len(p.svcs) : ~SvcIsEmpty(p.svcs[n]) /\ p.svcs[n].chrs = <<>>}
            i == SelectInSeq(p.svcs, LAMBDA s : ~SvcIsEmpty(s) /\ s.chrs = <<>>)
            s == p.svcs[i]
            r == [p EXCEPT !.cur = s.start]
            q1 == Request("chrs", s.start, s.start - 1, s.end)
<1>1. i = IF I # {} THEN Min(I) ELSE 0
  BY DEF SelectInSeq
<1>2. p.svcs \in Seq(SvcType) /\ Len(p.svcs) \in Nat
  BY DEF Fits, PeerType
<1>3. I # {} => i \in I /\ i \in 1 .. Len(p.svcs)
  <2>1. I \in SUBSET (1 .. Len(p.svcs))
    OBVIOUS
  <2>2. I # {} => Min(I) \in I /\ Min(I) \in 1 .. Len(p.svcs)
    <3>. HIDE DEF I
    <3>. QED BY <1>2, <2>1, SelectFinds
  <2>. HIDE DEF i
  <2>. QED BY <1>1, <2>2
<1>4. CASE i = 0
  <2>1. o \in DiscDscs(p)
    BY <1>4 DEF DiscChrs
  <2>2. I = {}
    BY <1>2, <1>3, <1>4
  <2>3. Ready(d, p)
    BY <2>2, AllListed
  <2>. QED BY <2>1, <2>3, DiscDscsBetter
<1>5. CASE i # 0
  <2>1. i \in 1 .. Len(p.svcs) /\ s.chrs = <<>>
    BY <1>1, <1>3, <1>5
  <2>2. o \in {Outcome(r, q1, "none", Nothing), DiscComplete(r, "not started")}
    BY <1>5 DEF DiscChrs
  <2>. HIDE DEF I, i
  <2>3. /\ r.svcs = p.svcs /\ r.cur = s.start /\ r.prev = p.prev
    BY DEF Fits, PeerType
  <2>4. q1.kind = "chrs" /\ q1.last = s.start - 1 /\ q1.end = s.end
    BY DEF Request, NoProc
  <2>5. Progress(d, r, q1)
    <3>. HIDE DEF r, q1
    <3>1. r.prev <= 1 /\ HasSvcs(d, r.svcs, MaxHandle)
      BY <2>3 DEF Listed
    <3>2. ASSUME NEW n \in 1 .. Len(r.svcs)
          PROVE  /\ NoDscs(r.svcs[n])
                 /\ r.svcs[n].start = r.cur => HasChrs(d, r.svcs[n], q1.last)
                 /\ r.svcs[n].start # r.cur /\ r.svcs[n].chrs # <<>> => HasChrs(d, r.svcs[n], r.svcs[n].end)
      <4>1. ASSUME p.svcs[n].start = s.start PROVE HasChrs(d, p.svcs[n], s.start - 1)
        <5>1. \A x \in d.chrs : ~ (s.start <= x.def /\ x.def <= s.start - 1)
          <6>. SUFFICES ASSUME NEW x \in d.chrs, s.start <= x.def, x.def <= s.start - 1 PROVE FALSE
            OBVIOUS
          <6>1. x.def \in Nat
            BY ChrFacts
          <6>2. s.start \in Nat
            BY <2>1, Places
          <6>. HIDE DEF s
          <6>. QED BY <6>1, <6>2
        <5>. QED BY <4>1, <5>1 DEF HasChrs
      <4>2. NoDscs(p.svcs[n]) /\ (p.svcs[n].chrs # <<>> => HasChrs(d, p.svcs[n], p.svcs[n].end))
        BY <2>3 DEF Listed
      <4>. QED BY <2>3, <2>4, <4>1, <4>2
    <3>. QED BY <2>4, <3>1, <3>2 DEF Progress
  <2>6. CASE o = Outcome(r, q1, "none", Nothing)
    <3>. HIDE DEF r, q1
    <3>1. o.peer = r /\ o.proc = q1 /\ o.rc = "none"
      BY <2>6 DEF Outcome
    <3>. QED BY <2>5, <3>1 DEF Better
  <2>7. CASE o = DiscComplete(r, "not started")
    BY <2>7, EndedBetter
  <2>. QED BY <2>2, <2>6, <2>7
<1>. QED BY <1>4, <1>5

-----------------------------------------------------------------------------
(* The last answer of a request.                                           *)

\* peer_svc_disced: no service is left.
LEMMA SvcsListed ==
  ASSUME NEW c, NEW d \in Databases, Fits(d, peer[c], proc[c]), proc[c].kind = "svcs",
         Progress(d, peer[c], proc[c]), Further(c, d.svcs, "start") = {}
  PROVE  Listed(d, peer[c])
<1>. DEFINE p == peer[c]
<1>1. proc[c].last \in Nat /\ proc[c].end \in Nat
  BY DEF Fits, ProcType
<1>2. /\ p.prev <= 1 /\ proc[c].end = MaxHandle /\ HasSvcs(d, p.svcs, proc[c].last)
      /\ \A i \in 1 .. Len(p.svcs) : p.svcs[i].chrs = <<>>
  BY DEF Progress
<1>3. \A s \in d.svcs : s.start \in Nat
  BY SvcFacts
<1>4. \A s \in d.svcs : ~ (proc[c].last < s.start /\ s.start <= MaxHandle)
  BY <1>1, <1>2, <1>3, NothingLeft
<1>5. HasSvcs(d, p.svcs, MaxHandle)
  <2>. SUFFICES ASSUME NEW s \in d.svcs, s.start <= MaxHandle PROVE s.start <= proc[c].last
    BY <1>2 DEF HasSvcs
  <2>. QED BY <1>1, <1>3, <1>4
<1>6. ASSUME NEW i \in 1 .. Len(p.svcs)
      PROVE  NoDscs(p.svcs[i]) /\ p.svcs[i].chrs = <<>>
  <2>1. p.svcs[i].chrs = <<>> /\ Len(p.svcs[i].chrs) = 0
    BY <1>2
  <2>. QED BY <2>1 DEF NoDscs
<1>. QED BY <1>2, <1>5, <1>6 DEF Listed

\* peer_chr_disced: no characteristic of the service is left.
LEMMA ChrsListed ==
  ASSUME NEW c, NEW d \in Databases, Fits(d, peer[c], proc[c]), proc[c].kind = "chrs",
         Progress(d, peer[c], proc[c]), Further(c, d.chrs, "def") = {}
  PROVE  Listed(d, peer[c])
<1>. DEFINE p == peer[c]
<1>1. proc[c].last \in Nat /\ proc[c].end \in Nat
  BY DEF Fits, ProcType
<1>2. /\ p.prev <= 1 /\ HasSvcs(d, p.svcs, MaxHandle)
      /\ \A i \in 1 .. Len(p.svcs) :
           /\ NoDscs(p.svcs[i])
           /\ p.svcs[i].start = p.cur => HasChrs(d, p.svcs[i], proc[c].last)
           /\ p.svcs[i].start # p.cur /\ p.svcs[i].chrs # <<>> => HasChrs(d, p.svcs[i], p.svcs[i].end)
  BY DEF Progress
<1>3. \A x \in d.chrs : x.def \in Nat
  BY ChrFacts
<1>4. \A x \in d.chrs : ~ (proc[c].last < x.def /\ x.def <= proc[c].end)
  BY <1>1, <1>3, NothingLeft
<1>5. PICK n \in 1 .. Len(p.svcs) : p.svcs[n].start = p.cur /\ p.svcs[n].end = proc[c].end
  BY DEF Fits, Position
<1>6. ASSUME NEW i \in 1 .. Len(p.svcs), p.svcs[i].start = p.cur
      PROVE  HasChrs(d, p.svcs[i], p.svcs[i].end)
  <2>1. i = n
    BY <1>5, <1>6, Places
  <2>2. HasChrs(d, p.svcs[i], proc[c].last) /\ p.svcs[i].end = proc[c].end
    BY <1>2, <1>5, <1>6, <2>1
  <2>3. \A x \in d.chrs : x.def <= proc[c].end => x.def <= proc[c].last
    BY <1>1, <1>3, <1>4
  <2>. QED BY <2>2, <2>3 DEF HasChrs
<1>. QED BY <1>2, <1>6 DEF Listed

\* peer_dsc_disced: no attribute of the characteristic is left.
LEMMA DscsReady ==
  ASSUME NEW c, NEW d \in Databases, Fits(d, peer[c], proc[c]), proc[c].kind = "dscs",
         Progress(d, peer[c], proc[c]), Further(c, Attributes(d), "handle") = {}
  PROVE  Ready(d, peer[c])
<1>. DEFINE p == peer[c]
            q == proc[c]
<1>1. PICK i \in 1 .. Len(p.svcs) : \E j \in 1 .. Len(p.svcs[i].chrs) : p.svcs[i].chrs[j].val = q.key
  BY DEF Fits, Position
<1>2. PICK j \in 1 .. Len(p.svcs[i].chrs) : p.svcs[i].chrs[j].val = q.key
  BY <1>1
<1>3. /\ q.end = ChrEndHandle(p.svcs[i], j) /\ q.key <= q.last /\ q.last <= q.end
      /\ q.key \in Nat /\ q.last \in Nat /\ q.end \in Nat
  BY <1>2, Asked
<1>4. /\ p.prev = q.key /\ AllChrs(d, p.svcs)
      /\ \A n \in 1 .. Len(p.svcs) : \A k \in 1 .. Len(p.svcs[n].chrs) : HasDscs(d, p.svcs[n], k, q.last)
  BY DEF Progress
<1>5. \A a \in Attributes(d) : a.handle \in Nat /\ ~ (q.last < a.handle /\ a.handle <= q.end)
  <2>1. \A a \in Attributes(d) : a.handle \in Nat
    BY AttributeTypes
  <2>. QED BY <1>3, <2>1, NothingLeft
<1>6. ASSUME NEW n \in 1 .. Len(p.svcs), NEW k \in 1 .. Len(p.svcs[n].chrs)
      PROVE  /\ p.svcs[n].chrs[k].val <= p.prev => HasDscs(d, p.svcs[n], k, MaxHandle)
             /\ p.prev < p.svcs[n].chrs[k].val =>
                  p.svcs[n].chrs[k].dscs = <<>> /\ p.prev <= p.svcs[n].chrs[k].def
  <2>. DEFINE y == p.svcs[n].chrs[k]
              e == ChrEndHandle(p.svcs[n], k)
  <2>1. y.def \in Nat /\ y.val \in Nat /\ e \in Nat
    BY ChrPlaces, EndHandles
  <2>2. y.val < q.key => e < q.last
    BY <1>2, Beside
  <2>3. q.key < y.val => q.end < y.def /\ y.dscs = <<>>
    BY <1>2, Beside
  <2>4. (n = i /\ k = j) \/ y.val < q.key \/ q.key < y.val
    BY <1>2, OnePlace
  <2>5. ASSUME y.val <= q.key PROVE HasDscs(d, p.svcs[n], k, MaxHandle)
    <3>1. \A a \in Attributes(d) : a.handle <= e => a.handle <= q.last
      <4>1. CASE n = i /\ k = j
        <5>1. e = q.end
          BY <1>3, <4>1
        <5>. HIDE DEF e, q
        <5>. QED BY <1>3, <1>5, <5>1
      <4>2. CASE y.val < q.key
        <5>1. e < q.last
          BY <2>2, <4>2
        <5>. HIDE DEF e, q
        <5>. QED BY <1>3, <1>5, <2>1, <5>1
      <4>3. ~ (q.key < y.val)
        <5>. HIDE DEF y, q
        <5>. QED BY <1>3, <2>1, <2>5
      <4>. QED BY <2>4, <4>1, <4>2, <4>3
    <3>2. HasDscs(d, p.svcs[n], k, q.last)
      BY <1>4
    <3>3. ASSUME NEW a \in Attributes(d)
          PROVE  InReach(p.svcs[n], k, MaxHandle, a) <=> InReach(p.svcs[n], k, q.last, a)
      <4>1. InReach(p.svcs[n], k, q.last, a) => InReach(p.svcs[n], k, MaxHandle, a)
        BY ReachesAll DEF InReach
      <4>2. InReach(p.svcs[n], k, MaxHandle, a) => InReach(p.svcs[n], k, q.last, a)
        BY <3>1 DEF InReach
      <4>. QED BY <4>1, <4>2
    <3>. QED BY <3>2, <3>3, SameReach
  <2>6. q.key < y.val => q.key <= y.def
    <3>1. q.key < y.val => q.end < y.def
      BY <2>3
    <3>. HIDE DEF y, q
    <3>. QED BY <1>3, <2>1, <3>1
  <2>. QED BY <1>4, <2>3, <2>5, <2>6
<1>. QED BY <1>4, <1>6 DEF Ready

\* The turn of a request does not matter.
LEMMA RenewedBetter ==
  ASSUME NEW c, NEW d, NEW outcomes, \A o \in outcomes : Good(d, o) /\ Better(d, o),
         NEW r \in Renewed(c, outcomes)
  PROVE  Better(d, r)
<1>. DEFINE turn == 1 - proc[c].turn
<1>1. PICK o \in outcomes : r = IF o.proc = NoProc THEN o ELSE [o EXCEPT !.proc.turn = turn]
  BY DEF Renewed
<1>. HIDE DEF turn
<1>2. Good(d, o) /\ Better(d, o)
  OBVIOUS
<1>3. CASE o.proc # NoProc
  <2>1. o.rc = "none" /\ o.proc \in ProcType
    BY <1>2, <1>3 DEF Good, Fits
  <2>2. o = Outcome(o.peer, o.proc, o.rc, o.took)
    BY <1>2 DEF Good
  <2>3. PICK x, q, rc, took : o = Outcome(x, q, rc, took)
    BY <2>2
  <2>4. o.peer = x /\ o.proc = q /\ o.rc = rc
    BY <2>3 DEF Outcome
  <2>5. [Outcome(x, q, rc, took) EXCEPT !.proc.turn = turn] = Outcome(x, [q EXCEPT !.turn = turn], rc, took)
    BY OutcomeTurn
  <2>6. r = Outcome(x, [q EXCEPT !.turn = turn], rc, took)
    BY <1>1, <1>3, <2>3, <2>5
  <2>. DEFINE q2 == [q EXCEPT !.turn = turn]
  <2>7. r.peer = x /\ r.proc = q2 /\ r.rc = rc
    BY <2>6 DEF Outcome
  <2>8. q2.kind = q.kind /\ q2.key = q.key /\ q2.last = q.last /\ q2.end = q.end
    BY <2>1, <2>4 DEF ProcType
  <2>. HIDE DEF q2
  <2>9. Progress(d, x, q)
    BY <1>2, <2>4 DEF Better
  <2>10. Progress(d, x, q2)
    BY <2>8, <2>9 DEF Progress
  <2>. QED BY <2>1, <2>4, <2>7, <2>10 DEF Better
<1>. QED BY <1>1, <1>2, <1>3

-----------------------------------------------------------------------------
(* The steps.                                                              *)

\* One connection moves on, and the others are not touched.
LEMMA OneMoves ==
  ASSUME WholeInv, NEW c \in Conns, DOMAIN cccd' = Conns,
         \A b \in Conns : b # c => /\ db'[b] = db[b] /\ peer'[b] = peer[b] /\ proc'[b] = proc[b]
                                   /\ reports'[b] = reports[b] /\ cccd'[b] = cccd[b],
         Whole(db'[c], peer'[c], proc'[c], reports'[c], cccd'[c])
  PROVE  WholeInv'
<1>1. ASSUME NEW b \in Conns
      PROVE  Whole(db'[b], peer'[b], proc'[b], reports'[b], cccd'[b])
  <2>1. CASE b = c
    BY <2>1
  <2>2. CASE b # c
    <3>1. Whole(db[b], peer[b], proc[b], reports[b], cccd[b])
      BY DEF WholeInv
    <3>. QED BY <2>2, <3>1
  <2>. QED BY <2>1, <2>2
<1>. QED BY <1>1 DEF WholeInv

\* ssm_enable_notify writes to the handle it has found, or leaves the handle alone.
LEMMA WrittenHandle ==
  ASSUME DOMAIN cccd = Conns, NEW c \in Conns, NEW p, NEW rc, ServiceDiscComplete(c, p, rc)
  PROVE  /\ DOMAIN cccd' = Conns /\ \A b \in Conns : b # c => cccd'[b] = cccd[b]
         /\ cccd'[c] = cccd[c] \/ (rc = "0" /\ Enabled(p, cccd'[c]))
BY DEF ServiceDiscComplete, EnableNotify, Enabled

\* What was reported before and what is reported now.
LEMMA ReportedNow ==
  ASSUME PeerInv, NEW c \in Conns, proc[c] # NoProc, NEW p, NEW rc, ServiceDiscComplete(c, p, rc)
  PROVE  reports'[c] = <<rc>> /\ \A b \in Conns : b # c => reports'[b] = reports[b]
<1>1. reports[c] = <<>> /\ DOMAIN reports = Conns
  BY DEF PeerInv
<1>2. reports' = [reports EXCEPT ![c] = Append(reports[c], rc)]
  BY ReportAdds
<1>. QED BY <1>1, <1>2

\* A callback whose outcomes are better keeps the invariant.
LEMMA ReturnWhole ==
  ASSUME PeerInv, WholeInv, NEW c \in Conns, proc[c] # NoProc, NEW outcomes,
         \A o \in outcomes : Good(db[c], o) /\ Better(db[c], o), Return(c, outcomes)
  PROVE  WholeInv'
<1>1. PICK o \in outcomes :
        /\ peer' = [peer EXCEPT ![c] = o.peer] /\ proc' = [proc EXCEPT ![c] = o.proc] /\ db' = db
        /\ IF o.rc = "none" THEN UNCHANGED <<reports, link, cccd, faults>>
           ELSE ServiceDiscComplete(c, o.peer, o.rc)
  BY DEF Return
<1>2. /\ Progress(db[c], o.peer, o.proc) /\ (o.rc = "0" => Complete(db[c], o.peer))
      /\ o.rc # "none" => o.proc = NoProc
  BY DEF Better, Good
<1>3. /\ peer'[c] = o.peer /\ proc'[c] = o.proc /\ db'[c] = db[c]
      /\ \A b \in Conns : b # c => db'[b] = db[b] /\ peer'[b] = peer[b] /\ proc'[b] = proc[b]
  BY <1>1 DEF PeerInv
<1>4. DOMAIN cccd = Conns /\ cccd[c] = 0 /\ reports[c] = <<>>
  BY DEF WholeInv, Whole, PeerInv
<1>5. CASE o.rc = "none"
  <2>1. reports' = reports /\ cccd' = cccd
    BY <1>1, <1>5
  <2>2. Whole(db'[c], peer'[c], proc'[c], reports'[c], cccd'[c])
    BY <1>2, <1>3, <1>4, <2>1 DEF Whole
  <2>. QED BY <1>3, <1>4, <2>1, <2>2, OneMoves
<1>6. CASE o.rc # "none"
  <2>1. ServiceDiscComplete(c, o.peer, o.rc)
    BY <1>1, <1>6
  <2>2. reports'[c] = <<o.rc>> /\ \A b \in Conns : b # c => reports'[b] = reports[b]
    BY <2>1, ReportedNow
  <2>3. /\ DOMAIN cccd' = Conns /\ \A b \in Conns : b # c => cccd'[b] = cccd[b]
        /\ cccd'[c] = 0 \/ (o.rc = "0" /\ Enabled(o.peer, cccd'[c]))
    BY <1>4, <2>1, WrittenHandle
  <2>4. <<o.rc>> = <<"0">> => o.rc = "0"
    OBVIOUS
  <2>5. Whole(db'[c], peer'[c], proc'[c], reports'[c], cccd'[c])
    BY <1>2, <1>3, <1>6, <2>2, <2>3, <2>4 DEF Whole
  <2>. QED BY <1>3, <2>2, <2>3, <2>5, OneMoves
<1>. QED BY <1>5, <1>6

\* BLE_HS_EDONE in a callback.
LEMMA DoneWhole ==
  ASSUME PeerInv, WholeInv, NEW c \in Conns, proc[c] # NoProc, NEW outcomes,
         \A o \in outcomes : Good(db[c], o) /\ Better(db[c], o), Done(c, outcomes)
  PROVE  WholeInv'
<1>1. Fits(db[c], peer[c], proc[c])
  BY InvFits
<1>2. CASE peer[c].prev > 0
  <2>1. \A r \in Renewed(c, outcomes) : Good(db[c], r) /\ Better(db[c], r)
    BY <1>1, DoneGood, RenewedBetter
  <2>2. Return(c, Renewed(c, outcomes))
    BY <1>2 DEF Done
  <2>. QED BY <2>1, <2>2, ReturnWhole
<1>3. CASE ~(peer[c].prev > 0)
  <2>. DEFINE o == Outcome(peer[c], NoProc, "none", Nothing)
  <2>1. Fits(db[c], peer[c], NoProc)
    <3>1. NoProc \in ProcType /\ NoProc.kind = "none"
      BY DEF NoProc, ProcType
    <3>. QED BY <1>1, <3>1 DEF Fits, Position
  <2>2. Good(db[c], o)
    BY <2>1 DEF Good, Outcome
  <2>3. o.proc.kind = "none" /\ o.rc = "none"
    BY DEF Outcome, NoProc
  <2>4. Return(c, {o})
    BY <1>3 DEF Done
  <2>. HIDE DEF o
  <2>5. \A r \in {o} : Good(db[c], r) /\ Better(db[c], r)
    BY <2>2, <2>3, IdleProgress DEF Better
  <2>. QED BY <2>4, <2>5, ReturnWhole
<1>. QED BY <1>2, <1>3

LEMMA AnswerWhole ==
  ASSUME PeerInv, WholeInv, NEW c \in Conns, Answer(c)
  PROVE  WholeInv'
<1>1. Fits(db[c], peer[c], proc[c]) /\ db[c] \in Databases
  BY InvFits
<1>2. Progress(db[c], peer[c], proc[c])
  BY DEF WholeInv, Whole
<1>3. proc[c].kind \in {"svcs", "chrs", "dscs"}
  BY DEF Answer, SvcDisced, ChrDisced, DscDisced, Running
<1>4. proc[c] # NoProc
  BY <1>3 DEF NoProc
<1>5. \A o \in DiscChrs(peer[c]) : Good(db[c], o)
  BY <1>1, DiscChrsGood
<1>6. \A o \in DiscDscs(peer[c]) : Good(db[c], o)
  BY <1>1, DiscDscsGood
<1>7. CASE SvcDisced(c)
  <2>1. proc[c].kind = "svcs"
    BY <1>7 DEF SvcDisced, Running
  <2>2. CASE Further(c, db[c].svcs, "start") = {}
    <3>1. Listed(db[c], peer[c])
      BY <1>1, <1>2, <2>1, <2>2, SvcsListed
    <3>2. \A o \in DiscChrs(peer[c]) : Better(db[c], o)
      BY <1>1, <3>1, DiscChrsBetter
    <3>3. Done(c, DiscChrs(peer[c]))
      BY <1>7, <2>2 DEF SvcDisced
    <3>. QED BY <1>4, <1>5, <3>2, <3>3, DoneWhole
  <2>3. CASE Further(c, db[c].svcs, "start") # {}
    <3>1. PICK s \in Further(c, db[c].svcs, "start") : Return(c, GoesOn(SvcAdd(c, s), s.end))
      BY <1>7, <2>3 DEF SvcDisced
    <3>2. s \in db[c].svcs /\ proc[c].last < s.start
      BY <3>1 DEF Further
    <3>3. \A o \in GoesOn(SvcAdd(c, s), s.end) : Good(db[c], o)
      BY <1>1, <2>1, <3>2, SvcAddGood
    <3>4. \A o \in GoesOn(SvcAdd(c, s), s.end) : Better(db[c], o)
      BY <1>1, <1>2, <2>1, <3>1, SvcAddBetter
    <3>. QED BY <1>4, <3>1, <3>3, <3>4, ReturnWhole
  <2>. QED BY <2>2, <2>3
<1>8. CASE ChrDisced(c)
  <2>1. proc[c].kind = "chrs"
    BY <1>8 DEF ChrDisced, Running
  <2>2. CASE Further(c, db[c].chrs, "def") = {}
    <3>1. Listed(db[c], peer[c])
      BY <1>1, <1>2, <2>1, <2>2, ChrsListed
    <3>2. \A o \in DiscChrs(peer[c]) : Better(db[c], o)
      BY <1>1, <3>1, DiscChrsBetter
    <3>3. Done(c, DiscChrs(peer[c]))
      BY <1>8, <2>2 DEF ChrDisced
    <3>. QED BY <1>4, <1>5, <3>2, <3>3, DoneWhole
  <2>3. CASE Further(c, db[c].chrs, "def") # {}
    <3>1. PICK x \in Further(c, db[c].chrs, "def") : Return(c, GoesOn(ChrAdd(c, x), x.def))
      BY <1>8, <2>3 DEF ChrDisced
    <3>2. x \in db[c].chrs /\ proc[c].last < x.def /\ x.def <= proc[c].end
      BY <3>1 DEF Further
    <3>3. \A o \in GoesOn(ChrAdd(c, x), x.def) : Good(db[c], o)
      BY <1>1, <2>1, <3>2, ChrAddGood
    <3>4. \A o \in GoesOn(ChrAdd(c, x), x.def) : Better(db[c], o)
      BY <1>1, <1>2, <2>1, <3>1, ChrAddBetter
    <3>. QED BY <1>4, <3>1, <3>3, <3>4, ReturnWhole
  <2>. QED BY <2>2, <2>3
<1>9. CASE DscDisced(c)
  <2>1. proc[c].kind = "dscs"
    BY <1>9 DEF DscDisced, Running
  <2>2. CASE Further(c, Attributes(db[c]), "handle") = {}
    <3>1. Ready(db[c], peer[c])
      BY <1>1, <1>2, <2>1, <2>2, DscsReady
    <3>2. \A o \in DiscDscs(peer[c]) : Better(db[c], o)
      BY <1>1, <3>1, DiscDscsBetter
    <3>3. Done(c, DiscDscs(peer[c]))
      BY <1>9, <2>2 DEF DscDisced
    <3>. QED BY <1>4, <1>6, <3>2, <3>3, DoneWhole
  <2>3. CASE Further(c, Attributes(db[c]), "handle") # {}
    <3>1. PICK e \in Further(c, Attributes(db[c]), "handle") :
            Return(c, GoesOn(DscAdd(c, proc[c].key, e), e.handle))
      BY <1>9, <2>3 DEF DscDisced
    <3>2. e \in Attributes(db[c])
      BY <3>1 DEF Further
    <3>3. \A o \in GoesOn(DscAdd(c, proc[c].key, e), e.handle) : Good(db[c], o)
      BY <1>1, <2>1, <3>2, DscAddGood
    <3>4. \A o \in GoesOn(DscAdd(c, proc[c].key, e), e.handle) : Better(db[c], o)
      BY <1>1, <1>2, <2>1, <3>1, DscAddBetter
    <3>. QED BY <1>4, <3>1, <3>3, <3>4, ReturnWhole
  <2>. QED BY <2>2, <2>3
<1>. QED BY <1>7, <1>8, <1>9 DEF Answer

LEMMA ConnectWhole ==
  ASSUME PeerInv, WholeInv, NEW c \in Conns, NEW d \in Databases, Connect(c, d)
  PROVE  WholeInv'
<1>. DEFINE fresh == [NoPeer EXCEPT !.prev = 1, !.used = TRUE]
            ask == Request("svcs", 0, 0, 65535)
<1>1. peer[c] = NoPeer /\ proc[c] = NoProc
  BY DEF Connect, PeerInv
<1>2. /\ db' = [db EXCEPT ![c] = d] /\ reports' = [reports EXCEPT ![c] = <<>>] /\ cccd' = [cccd EXCEPT ![c] = 0]
      /\ \/ peer' = peer /\ proc' = proc
         \/ /\ peer' = [peer EXCEPT ![c] = fresh]
            /\ proc' = [proc EXCEPT ![c] = ask] \/ proc' = proc
  BY DEF Connect
<1>3. fresh.svcs = <<>> /\ fresh.prev = 1
  BY DEF NoPeer
<1>4. ask.kind = "svcs" /\ ask.last = 0 /\ ask.end = MaxHandle
  BY DEF Request, NoProc, MaxHandle
<1>. HIDE DEF fresh, ask
<1>5. /\ peer'[c] \in {NoPeer, fresh} /\ proc'[c] \in {NoProc, ask}
      /\ proc'[c] = ask => peer'[c] = fresh \/ proc'[c] = NoProc
      /\ db'[c] = d /\ reports'[c] = <<>> /\ cccd'[c] = 0 /\ DOMAIN cccd' = Conns
      /\ \A b \in Conns : b # c => /\ db'[b] = db[b] /\ peer'[b] = peer[b] /\ proc'[b] = proc[b]
                                   /\ reports'[b] = reports[b] /\ cccd'[b] = cccd[b]
  BY <1>1, <1>2 DEF PeerInv, WholeInv
<1>6. Progress(d, fresh, ask)
  <2>1. \A s \in d.svcs : ~ (s.start <= 0)
    BY SvcFacts
  <2>2. HasSvcs(d, <<>>, 0)
    BY <2>1 DEF HasSvcs
  <2>3. \A i \in 1 .. Len(fresh.svcs) : fresh.svcs[i].chrs = <<>>
    BY <1>3
  <2>. QED BY <1>3, <1>4, <2>2, <2>3 DEF Progress
<1>7. Progress(d, peer'[c], proc'[c])
  <2>1. CASE proc'[c] = NoProc
    <3>1. NoProc.kind = "none"
      BY DEF NoProc
    <3>. QED BY <2>1, <3>1, IdleProgress
  <2>2. CASE proc'[c] # NoProc
    BY <1>5, <1>6, <2>2
  <2>. QED BY <2>1, <2>2
<1>8. Whole(db'[c], peer'[c], proc'[c], reports'[c], cccd'[c])
  BY <1>5, <1>7 DEF Whole
<1>. QED BY <1>5, <1>8, OneMoves

LEMMA DisconnectWhole ==
  ASSUME PeerInv, WholeInv, NEW c \in Conns, Disconnect(c)
  PROVE  WholeInv'
<1>1. /\ proc' = [proc EXCEPT ![c] = NoProc] /\ db' = db /\ peer' = [peer EXCEPT ![c] = NoPeer]
      /\ cccd' = cccd
      /\ reports' = IF proc[c] = NoProc THEN reports ELSE [reports EXCEPT ![c] = Append(@, "ENOTCONN")]
  BY DEF Disconnect
<1>2. \A b \in Conns : b # c => reports'[b] = reports[b]
  BY <1>1 DEF PeerInv
<1>3. NoProc.kind = "none" /\ NoPeer.used = FALSE
  BY DEF NoProc, NoPeer
<1>4. peer'[c] = NoPeer /\ proc'[c] = NoProc /\ DOMAIN cccd' = Conns
      /\ \A b \in Conns : b # c => db'[b] = db[b] /\ peer'[b] = peer[b] /\ proc'[b] = proc[b] /\ cccd'[b] = cccd[b]
  BY <1>1 DEF PeerInv, WholeInv
<1>5. Whole(db'[c], peer'[c], proc'[c], reports'[c], cccd'[c])
  <2>1. Progress(db'[c], NoPeer, NoProc)
    BY <1>3, IdleProgress
  <2>. QED BY <1>3, <1>4, <2>1 DEF Whole
<1>. QED BY <1>2, <1>4, <1>5, OneMoves

LEMMA FailedWhole ==
  ASSUME PeerInv, WholeInv, NEW c \in Conns, Failed(c)
  PROVE  WholeInv'
<1>. DEFINE p == [peer[c] EXCEPT !.prev = 0]
<1>1. /\ proc[c] # NoProc /\ db' = db
      /\ peer' = [peer EXCEPT ![c] = p] /\ proc' = [proc EXCEPT ![c] = NoProc]
      /\ ServiceDiscComplete(c, peer[c], "ATT error")
  BY DEF Failed
<1>. HIDE DEF p
<1>2. DOMAIN cccd = Conns /\ cccd[c] = 0
  BY <1>1 DEF WholeInv, Whole
<1>3. reports'[c] = <<"ATT error">> /\ \A b \in Conns : b # c => reports'[b] = reports[b]
  BY <1>1, ReportedNow
<1>4. DOMAIN cccd' = Conns /\ cccd'[c] = 0 /\ \A b \in Conns : b # c => cccd'[b] = cccd[b]
  <2>1. /\ DOMAIN cccd' = Conns /\ \A b \in Conns : b # c => cccd'[b] = cccd[b]
        /\ cccd'[c] = cccd[c] \/ ("ATT error" = "0" /\ Enabled(peer[c], cccd'[c]))
    BY <1>1, <1>2, WrittenHandle
  <2>. QED BY <1>2, <2>1
<1>5. peer'[c] = p /\ proc'[c] = NoProc
      /\ \A b \in Conns : b # c => db'[b] = db[b] /\ peer'[b] = peer[b] /\ proc'[b] = proc[b]
  BY <1>1 DEF PeerInv
<1>6. Whole(db'[c], peer'[c], proc'[c], reports'[c], cccd'[c])
  <2>1. NoProc.kind = "none"
    BY DEF NoProc
  <2>2. Progress(db'[c], p, NoProc)
    BY <2>1, IdleProgress
  <2>3. <<"ATT error">> # <<"0">>
    OBVIOUS
  <2>. QED BY <1>3, <1>4, <1>5, <2>2, <2>3 DEF Whole
<1>. QED BY ZenonT(40), <1>3, <1>4, <1>5, <1>6, OneMoves

-----------------------------------------------------------------------------

\* At every moment the lists hold what the answers so far have told, and after a discovery
\* reported successful all of the database; a handle is written only then, and it is the
\* one the lists give for the notifications.
THEOREM FoundSoFar == Spec => [](PeerInv /\ WholeInv)
<1>1. Init => WholeInv
  <2>. SUFFICES ASSUME Init PROVE WholeInv
    OBVIOUS
  <2>1. NoProc.kind = "none"
    BY DEF NoProc
  <2>2. ASSUME NEW c \in Conns PROVE Whole(db[c], peer[c], proc[c], reports[c], cccd[c])
    <3>1. proc[c] = NoProc /\ reports[c] = <<>> /\ cccd[c] = 0
      BY DEF Init
    <3>2. Progress(db[c], peer[c], proc[c])
      BY <2>1, <3>1, IdleProgress
    <3>. QED BY <3>1, <3>2 DEF Whole
  <2>3. DOMAIN cccd = Conns
    BY DEF Init
  <2>. QED BY <2>2, <2>3 DEF WholeInv
<1>2. PeerInv /\ WholeInv /\ [Next]_vars => WholeInv'
  <2>. SUFFICES ASSUME PeerInv, WholeInv, [Next]_vars PROVE WholeInv'
    OBVIOUS
  <2>1. CASE Next
    <3>1. PICK c \in Conns : (\E d \in Databases : Connect(c, d)) \/ Disconnect(c) \/ Failed(c) \/ Answer(c)
      BY <2>1 DEF Next
    <3>. QED BY <3>1, ConnectWhole, DisconnectWhole, FailedWhole, AnswerWhole
  <2>2. CASE UNCHANGED vars
    BY <2>2 DEF vars, WholeInv
  <2>. QED BY <2>1, <2>2
<1>. QED BY <1>1, <1>2, ListsInOrder, PTL DEF Spec

-----------------------------------------------------------------------------
(* The lists and the database.                                             *)

\* A characteristic behind another one begins behind its descriptors.
LEMMA NextInService ==
  ASSUME NEW d \in Databases, NEW p, NEW q, Fits(d, p, q), AllChrs(d, p.svcs),
         NEW i \in 1 .. Len(p.svcs), NEW j \in 1 .. Len(p.svcs[i].chrs),
         NEW y \in d.chrs, p.svcs[i].chrs[j].def < y.def
  PROVE  ChrEndHandle(p.svcs[i], j) < y.def
<1>. DEFINE s == p.svcs[i]
            x == s.chrs[j]
            e == ChrEndHandle(s, j)
<1>1. s.start \in Nat /\ s.end \in Nat /\ Len(s.chrs) \in Nat
  BY Places
<1>2. x.def \in Nat /\ x.val \in Nat /\ s.start <= x.def /\ x.def < x.val
  BY ChrPlaces
<1>3. e \in Nat /\ e <= s.end /\ \A k \in 1 .. Len(s.chrs) : j < k => e < s.chrs[k].def
  BY EndHandles
<1>4. y.def \in Nat
  BY ChrFacts
<1>5. CASE s.end < y.def
  <2>1. e < y.def
    <3>. HIDE DEF s, e
    <3>. QED BY <1>1, <1>3, <1>4, <1>5
  <2>. QED BY <2>1
<1>6. CASE y.def <= s.end
  <2>1. s.start <= y.def
    <3>1. x.def < y.def
      OBVIOUS
    <3>. HIDE DEF s, x
    <3>. QED BY <1>1, <1>2, <1>4, <3>1
  <2>2. HasChrs(d, s, s.end)
    BY DEF AllChrs
  <2>3. PICK k \in 1 .. Len(s.chrs) : s.chrs[k].def = y.def
    BY <1>6, <2>1, <2>2 DEF HasChrs
  <2>4. j < k
    <3>1. CASE k < j
      <4>1. s.chrs[k].val < x.val
        BY <3>1, Apart
      <4>2. s.chrs[k].val < x.val => ChrEndHandle(s, k) < x.def
        BY Apart
      <4>3. /\ s.chrs[k].val <= ChrEndHandle(s, k) /\ ChrEndHandle(s, k) \in Nat
            /\ s.chrs[k].def < s.chrs[k].val /\ s.chrs[k].val \in Nat
        BY ChrPlaces, EndHandles
      <4>4. PICK v \in Nat : v = s.chrs[k].val
        BY <4>3
      <4>5. PICK u \in Nat : u = ChrEndHandle(s, k)
        BY <4>3
      <4>6. u < x.def /\ v <= u /\ y.def < v
        BY <2>3, <4>1, <4>2, <4>3, <4>4, <4>5
      <4>7. x.def < y.def
        OBVIOUS
      <4>. HIDE DEF x
      <4>. QED BY <1>2, <1>4, <4>6, <4>7
    <3>2. CASE k = j
      BY <1>2, <2>3, <3>2
    <3>. QED BY <1>1, <3>1, <3>2
  <2>. QED BY <1>3, <2>3, <2>4
<1>7. s.end < y.def \/ y.def <= s.end
  <2>. HIDE DEF s
  <2>. QED BY <1>1, <1>4
<1>. QED BY <1>5, <1>6, <1>7

\* What Find Information reports in the reach of a characteristic are its descriptors.
LEMMA ReachIsDscs ==
  ASSUME NEW d \in Databases, NEW p, NEW q, Fits(d, p, q), AllChrs(d, p.svcs),
         NEW i \in 1 .. Len(p.svcs), NEW j \in 1 .. Len(p.svcs[i].chrs),
         NEW s \in d.svcs, IsSvc(p.svcs[i], s), NEW x \in d.chrs, IsChr(p.svcs[i].chrs[j], x),
         NEW a \in Attributes(d)
  PROVE  InReach(p.svcs[i], j, MaxHandle, a) <=> a \in DscsOf(d, s, x)
<1>. DEFINE e == ChrEndHandle(p.svcs[i], j)
<1>1. /\ p.svcs[i].chrs[j].def = x.def /\ p.svcs[i].chrs[j].val = x.val
      /\ p.svcs[i].start = s.start /\ p.svcs[i].end = s.end
  BY DEF IsSvc, IsChr
<1>2. /\ s.start \in Nat /\ s.end \in Nat /\ s.end <= MaxHandle
      /\ x.def \in Nat /\ x.val \in Nat /\ s.start <= x.def /\ x.def < x.val
  <2>1. s.start \in Nat /\ s.end \in Nat /\ s.end <= MaxHandle
    BY SvcFacts
  <2>2. x.def \in Nat /\ x.val \in Nat /\ s.start <= x.def /\ x.def < x.val
    BY <1>1, ChrPlaces
  <2>. QED BY <2>1, <2>2
<1>3. e \in Nat /\ e <= s.end
  BY <1>1, EndHandles
<1>4. \A y \in d.chrs : x.def < y.def => e < y.def
  BY <1>1, NextInService
<1>5. a.handle \in Nat
  BY AttributeTypes
<1>6. InReach(p.svcs[i], j, MaxHandle, a) <=> x.val < a.handle /\ a.handle <= e /\ a.handle <= MaxHandle
  BY <1>1 DEF InReach
<1>7. ASSUME x.val < a.handle, a.handle <= e PROVE a \in DscsOf(d, s, x)
  <2>1. a.handle <= s.end /\ \A y \in d.chrs : x.def < y.def => a.handle < y.def
    <3>1. a.handle <= s.end
      <4>. HIDE DEF e
      <4>. QED BY <1>2, <1>3, <1>5, <1>7
    <3>2. ASSUME NEW y \in d.chrs, x.def < y.def PROVE a.handle < y.def
      <4>1. e < y.def /\ y.def \in Nat
        BY <1>4, <3>2, ChrFacts
      <4>. HIDE DEF e
      <4>. QED BY <1>3, <1>5, <1>7, <4>1
    <3>. QED BY <3>1, <3>2
  <2>2. ASSUME NEW t \in d.svcs, a.handle = t.start PROVE FALSE
    <3>1. /\ t.start \in Nat /\ t.end \in Nat /\ t.start <= t.end
          /\ s = t \/ s.end < t.start \/ t.end < s.start
      BY SvcFacts
    <3>2. x.val < t.start /\ t.start <= s.end
      BY <1>7, <2>1, <2>2
    <3>. QED BY <1>2, <3>1, <3>2
  <2>3. ASSUME NEW y \in d.chrs, a.handle = y.def \/ a.handle = y.val PROVE FALSE
    <3>1. /\ y.def \in Nat /\ y.val \in Nat /\ y.def < y.val
          /\ y.def < x.def => y.val < x.def
          /\ y.def = x.def => y = x
      <4>1. y.def \in Nat /\ y.val \in Nat /\ y.def < y.val
        BY ChrFacts
      <4>2. (y.def < x.def => y.val < x.def) /\ (y.def = x.def => y = x)
        BY ChrFacts
      <4>. QED BY <4>1, <4>2
    <3>2. x.def < y.def => a.handle < y.def
      BY <2>1
    <3>3. x.val < a.handle
      BY <1>7
    <3>. QED BY <1>2, <1>5, <2>3, <3>1, <3>2, <3>3
  <2>4. a \in d.dscs
    <3>1. \/ a \in d.dscs
          \/ \E t \in d.svcs : a.handle = t.start
          \/ \E y \in d.chrs : a.handle = y.def \/ a.handle = y.val
      BY DEF Attributes
    <3>. QED BY <2>2, <2>3, <3>1
  <2>. QED BY <1>7, <2>1, <2>4 DEF DscsOf
<1>8. ASSUME a \in DscsOf(d, s, x) PROVE x.val < a.handle /\ a.handle <= e /\ a.handle <= MaxHandle
  <2>1. /\ x.val < a.handle /\ a.handle <= s.end
        /\ \A y \in d.chrs : x.def < y.def => a.handle < y.def
    BY <1>8 DEF DscsOf
  <2>2. a.handle <= MaxHandle
    BY <1>2, <1>5, <2>1 DEF MaxHandle
  <2>3. a.handle <= e
    <3>. DEFINE t == p.svcs[i]
    <3>1. Len(t.chrs) \in Nat
      BY Places
    <3>2. CASE j < Len(t.chrs)
      <4>1. j + 1 \in 1 .. Len(t.chrs) /\ j < j + 1 /\ e = t.chrs[j + 1].def - 1
        BY <3>1, <3>2 DEF ChrEndHandle
      <4>2. PICK y \in d.chrs : IsChr(t.chrs[j + 1], y)
        BY <4>1, ChrPlaces
      <4>3. e < y.def /\ y.def \in Nat /\ e = y.def - 1 /\ x.val <= e
        <5>1. e < t.chrs[j + 1].def
          BY <4>1, EndHandles
        <5>2. x.val <= e
          BY <1>1, EndHandles
        <5>3. y.def \in Nat
          BY ChrFacts
        <5>. QED BY <4>1, <4>2, <5>1, <5>2, <5>3 DEF IsChr
      <4>4. x.def < y.def
        <5>. HIDE DEF e
        <5>. QED BY <1>2, <1>3, <4>3
      <4>5. a.handle < y.def
        BY <2>1, <4>4
      <4>. HIDE DEF e
      <4>. QED BY <1>3, <1>5, <4>3, <4>5
    <3>3. CASE ~ (j < Len(t.chrs))
      BY <1>1, <2>1, <3>3 DEF ChrEndHandle
    <3>. QED BY <3>2, <3>3
  <2>. QED BY <2>1, <2>2, <2>3
<1>9. x.val < a.handle /\ a.handle <= e /\ a.handle <= MaxHandle => a \in DscsOf(d, s, x)
  BY <1>7
<1>10. a \in DscsOf(d, s, x) => x.val < a.handle /\ a.handle <= e /\ a.handle <= MaxHandle
  BY <1>8
<1>. HIDE DEF e
<1>. QED BY <1>6, <1>9, <1>10

\* A service of the lists stands for one of the database.
LEMMA SvcStands ==
  ASSUME NEW d \in Databases, NEW p, NEW q, Fits(d, p, q), NEW i \in 1 .. Len(p.svcs)
  PROVE  \E s \in d.svcs : IsSvc(p.svcs[i], s)
BY ZenonT(40), Places

\* A service of the database, and a characteristic of it, are in the lists.
LEMMA InLists ==
  ASSUME NEW d \in Databases, NEW p, NEW q, Fits(d, p, q), AllChrs(d, p.svcs), NEW s \in d.svcs
  PROVE  \E i \in 1 .. Len(p.svcs) :
           /\ IsSvc(p.svcs[i], s)
           /\ \A x \in ChrsOf(d, s) : \E j \in 1 .. Len(p.svcs[i].chrs) : IsChr(p.svcs[i].chrs[j], x)
<1>1. s.start <= MaxHandle
  BY SvcFacts DEF MaxHandle
<1>2. PICK i \in 1 .. Len(p.svcs) : p.svcs[i].start = s.start
  BY <1>1 DEF AllChrs, HasSvcs
<1>3. IsSvc(p.svcs[i], s)
  <2>1. PICK t \in d.svcs : IsSvc(p.svcs[i], t)
    BY SvcStands
  <2>2. t.start = s.start
    BY <1>2, <2>1 DEF IsSvc
  <2>3. t = s
    BY <2>2, SvcFacts
  <2>. QED BY <2>1, <2>3
<1>4. ASSUME NEW x \in ChrsOf(d, s)
      PROVE  \E j \in 1 .. Len(p.svcs[i].chrs) : IsChr(p.svcs[i].chrs[j], x)
  <2>1. x \in d.chrs /\ s.start <= x.def /\ x.def <= s.end
    BY DEF ChrsOf
  <2>2. HasChrs(d, p.svcs[i], p.svcs[i].end)
    BY DEF AllChrs
  <2>3. PICK j \in 1 .. Len(p.svcs[i].chrs) : p.svcs[i].chrs[j].def = x.def
    BY <1>3, <2>1, <2>2 DEF HasChrs, IsSvc
  <2>4. PICK y \in d.chrs : IsChr(p.svcs[i].chrs[j], y)
    BY ChrPlaces
  <2>5. y.def = x.def
    BY <2>3, <2>4 DEF IsChr
  <2>6. y = x
    BY <2>1, <2>5, ChrFacts
  <2>. QED BY <2>4, <2>6
<1>. QED BY <1>3, <1>4

\* What a characteristic of the lists stands for lies in its service.
LEMMA InDatabase ==
  ASSUME NEW d \in Databases, NEW p, NEW q, Fits(d, p, q),
         NEW i \in 1 .. Len(p.svcs), NEW j \in 1 .. Len(p.svcs[i].chrs)
  PROVE  \E s \in d.svcs, x \in d.chrs :
           IsSvc(p.svcs[i], s) /\ IsChr(p.svcs[i].chrs[j], x) /\ x \in ChrsOf(d, s)
<1>1. PICK s \in d.svcs : IsSvc(p.svcs[i], s)
  BY SvcStands
<1>2. PICK x \in d.chrs : IsChr(p.svcs[i].chrs[j], x)
  BY ChrPlaces
<1>3. s.start <= x.def /\ x.def < x.val /\ x.val <= s.end
  <2>1. /\ p.svcs[i].start <= p.svcs[i].chrs[j].def
        /\ p.svcs[i].chrs[j].def < p.svcs[i].chrs[j].val
        /\ p.svcs[i].chrs[j].val <= p.svcs[i].end
    BY ChrPlaces
  <2>. QED BY <1>1, <1>2, <2>1 DEF IsSvc, IsChr
<1>4. x.def \in Nat /\ x.val \in Nat /\ s.end \in Nat
  BY ChrFacts, SvcFacts
<1>5. x \in ChrsOf(d, s)
  BY <1>3, <1>4 DEF ChrsOf
<1>. QED BY <1>1, <1>2, <1>5

\* What Found and Expected hold.
LEMMA FoundHolds ==
  ASSUME NEW p, NEW a
  PROVE  a \in Found(p) <=>
           \E s \in ToSet(p.svcs) : \E x \in ToSet(s.chrs) :
             \E e \in ToSet(x.dscs) \cup {[handle |-> 0]} : a = <<s.start, x.def, e.handle>>
BY DEF Found

LEMMA ExpectedHolds ==
  ASSUME NEW d, NEW a
  PROVE  a \in Expected(d) <=>
           \E s \in d.svcs : \E x \in ChrsOf(d, s) :
             \E h \in {0} \cup {e.handle : e \in DscsOf(d, s, x)} : a = <<s.start, x.def, h>>
BY DEF Expected

\* Complete lists are those of the database.
LEMMA FoundIsExpected ==
  ASSUME NEW d \in Databases, NEW p, NEW q, Fits(d, p, q), Complete(d, p)
  PROVE  Found(p) = Expected(d)
<1>1. AllChrs(d, p.svcs) /\ p.svcs \in Seq(SvcType)
  BY ListTypes DEF Complete
<1>2. ASSUME NEW a \in Found(p) PROVE a \in Expected(d)
  <2>1. PICK t \in ToSet(p.svcs) : \E y \in ToSet(t.chrs) :
               \E e \in ToSet(y.dscs) \cup {[handle |-> 0]} : a = <<t.start, y.def, e.handle>>
    BY FoundHolds
  <2>2. PICK i \in 1 .. Len(p.svcs) : t = p.svcs[i]
    BY <1>1 DEF ToSet
  <2>3. PICK y \in ToSet(t.chrs) : \E e \in ToSet(y.dscs) \cup {[handle |-> 0]} : a = <<t.start, y.def, e.handle>>
    BY <2>1
  <2>4. t.chrs \in Seq(ChrType)
    BY <2>2, ListTypes
  <2>5. PICK j \in 1 .. Len(t.chrs) : y = t.chrs[j]
    BY <2>4 DEF ToSet
  <2>6. PICK s \in d.svcs, x \in d.chrs : IsSvc(t, s) /\ IsChr(y, x) /\ x \in ChrsOf(d, s)
    BY <2>2, <2>5, InDatabase
  <2>7. PICK e \in ToSet(y.dscs) \cup {[handle |-> 0]} : a = <<t.start, y.def, e.handle>>
    BY <2>3
  <2>8. a = <<s.start, x.def, e.handle>>
    BY <2>6, <2>7 DEF IsSvc, IsChr
  <2>9. e.handle \in {0} \cup {b.handle : b \in DscsOf(d, s, x)}
    <3>1. CASE e \in ToSet(y.dscs)
      <4>1. y.dscs \in Seq(Attrs)
        BY <2>2, <2>5, ChrPlaces
      <4>2. PICK n \in 1 .. Len(y.dscs) : e = y.dscs[n]
        BY <3>1, <4>1 DEF ToSet
      <4>3. HasDscs(d, p.svcs[i], j, MaxHandle)
        BY <2>2, <2>5 DEF Complete
      <4>4. e \in Attributes(d) /\ InReach(p.svcs[i], j, MaxHandle, e)
        BY <2>2, <2>5, <4>2, <4>3 DEF HasDscs
      <4>5. e \in DscsOf(d, s, x)
        BY <1>1, <2>2, <2>5, <2>6, <4>4, ReachIsDscs
      <4>. QED BY <4>5
    <3>2. CASE e \in {[handle |-> 0]}
      BY <3>2
    <3>. QED BY <3>1, <3>2
  <2>. QED BY <2>6, <2>8, <2>9, ExpectedHolds
<1>3. ASSUME NEW a \in Expected(d) PROVE a \in Found(p)
  <2>1. PICK s \in d.svcs : \E x \in ChrsOf(d, s) :
               \E h \in {0} \cup {e.handle : e \in DscsOf(d, s, x)} : a = <<s.start, x.def, h>>
    BY ExpectedHolds
  <2>2. PICK x \in ChrsOf(d, s) : \E h \in {0} \cup {e.handle : e \in DscsOf(d, s, x)} : a = <<s.start, x.def, h>>
    BY <2>1
  <2>3. PICK h \in {0} \cup {e.handle : e \in DscsOf(d, s, x)} : a = <<s.start, x.def, h>>
    BY <2>2
  <2>4. PICK i \in 1 .. Len(p.svcs) :
          /\ IsSvc(p.svcs[i], s)
          /\ \A y \in ChrsOf(d, s) : \E j \in 1 .. Len(p.svcs[i].chrs) : IsChr(p.svcs[i].chrs[j], y)
    BY <1>1, InLists
  <2>5. PICK j \in 1 .. Len(p.svcs[i].chrs) : IsChr(p.svcs[i].chrs[j], x)
    BY <2>4
  <2>. DEFINE t == p.svcs[i]
              y == t.chrs[j]
  <2>6. t \in ToSet(p.svcs) /\ y \in ToSet(t.chrs)
    <3>1. t.chrs \in Seq(ChrType)
      BY ListTypes
    <3>. QED BY <1>1, <3>1 DEF ToSet
  <2>7. \E e \in ToSet(y.dscs) \cup {[handle |-> 0]} : e.handle = h
    <3>1. CASE h = 0
      <4>1. [handle |-> 0].handle = h
        BY <3>1
      <4>. QED BY <4>1
    <3>2. CASE h # 0
      <4>1. PICK e \in DscsOf(d, s, x) : e.handle = h
        BY <2>3, <3>2
      <4>2. x \in d.chrs /\ e \in Attributes(d)
        BY DEF ChrsOf, DscsOf, Attributes
      <4>3. InReach(t, j, MaxHandle, e)
        BY <1>1, <2>4, <2>5, <4>2, ReachIsDscs
      <4>4. HasDscs(d, t, j, MaxHandle)
        BY DEF Complete
      <4>5. PICK n \in 1 .. Len(y.dscs) : y.dscs[n].handle = e.handle
        BY <4>2, <4>3, <4>4 DEF HasDscs
      <4>6. y.dscs \in Seq(Attrs)
        BY ChrPlaces
      <4>. HIDE DEF y
      <4>7. y.dscs[n] \in ToSet(y.dscs)
        BY <4>5, <4>6 DEF ToSet
      <4>. QED BY <4>1, <4>5, <4>7
    <3>. QED BY <3>1, <3>2
  <2>8. PICK e \in ToSet(y.dscs) \cup {[handle |-> 0]} : e.handle = h
    BY <2>7
  <2>9. a = <<t.start, y.def, e.handle>>
    BY <2>3, <2>4, <2>5, <2>8 DEF IsSvc, IsChr
  <2>. HIDE DEF t, y
  <2>. QED BY <2>6, <2>8, <2>9, FoundHolds
<1>. QED BY <1>2, <1>3

\* There are as many services in the lists as in the database.
LEMMA AllServices ==
  ASSUME NEW d \in Databases, NEW p, NEW q, Fits(d, p, q), AllChrs(d, p.svcs)
  PROVE  Len(p.svcs) = Cardinality(d.svcs)
<1>. DEFINE f == [i \in 1 .. Len(p.svcs) |-> CHOOSE s \in d.svcs : IsSvc(p.svcs[i], s)]
<1>1. Len(p.svcs) \in Nat
  BY ListTypes
<1>2. ASSUME NEW i \in 1 .. Len(p.svcs) PROVE f[i] \in d.svcs /\ IsSvc(p.svcs[i], f[i])
  <2>1. \E s \in d.svcs : IsSvc(p.svcs[i], s)
    BY SvcStands
  <2>. QED BY <2>1
<1>3. f \in [1 .. Len(p.svcs) -> d.svcs]
  BY <1>2
<1>. HIDE DEF f
<1>4. ASSUME NEW i \in 1 .. Len(p.svcs), NEW j \in 1 .. Len(p.svcs), f[i] = f[j] PROVE i = j
  <2>1. p.svcs[i].start = p.svcs[j].start
    BY <1>2, <1>4 DEF IsSvc
  <2>. QED BY <2>1, Places
<1>5. ASSUME NEW s \in d.svcs PROVE \E i \in 1 .. Len(p.svcs) : f[i] = s
  <2>1. PICK i \in 1 .. Len(p.svcs) : IsSvc(p.svcs[i], s)
    BY InLists
  <2>2. f[i].start = s.start
    BY <1>2, <2>1 DEF IsSvc
  <2>3. f[i] = s
    BY <1>2, <2>2, SvcFacts
  <2>. QED BY <2>3
<1>6. f \in Bijection(1 .. Len(p.svcs), d.svcs)
  <2>1. IsInjective(f)
    BY <1>3, <1>4 DEF IsInjective
  <2>. QED BY <1>3, <1>5, <2>1 DEF Bijection, Injection, Surjection
<1>7. ExistsBijection(1 .. Len(p.svcs), d.svcs)
  BY <1>6 DEF ExistsBijection
<1>. QED BY <1>1, <1>7, FS_CountingElements

\* A discovery reported successful has found the whole database, each characteristic in
\* its service and each descriptor in its characteristic, and nothing else.
THEOREM WholeDatabaseFound == Spec => []WholeDatabase
<1>1. PeerInv /\ WholeInv => WholeDatabase
  <2>. SUFFICES ASSUME PeerInv, WholeInv, NEW c \in Conns, reports[c] = <<"0">>, peer[c].used
                PROVE  Found(peer[c]) = Expected(db[c]) /\ Len(peer[c].svcs) = Cardinality(db[c].svcs)
    BY DEF WholeDatabase
  <2>1. Fits(db[c], peer[c], proc[c]) /\ db[c] \in Databases
    BY InvFits
  <2>2. Complete(db[c], peer[c])
    BY DEF WholeInv, Whole
  <2>3. AllChrs(db[c], peer[c].svcs)
    BY <2>2 DEF Complete
  <2>. QED BY <2>1, <2>2, <2>3, FoundIsExpected, AllServices
<1>. QED BY <1>1, FoundSoFar, PTL

\* peer_svc_find_uuid and the others find an element with the name, if there is one.
LEMMA UuidFound ==
  ASSUME NEW list, NEW uuid, Len(list) \in Nat
  PROVE  /\ WithUuid(list, uuid) # <<>> =>
              \E i \in 1 .. Len(list) : list[i].uuid = uuid /\ WithUuid(list, uuid) = <<list[i]>>
         /\ (\E i \in 1 .. Len(list) : list[i].uuid = uuid) => WithUuid(list, uuid) # <<>>
<1>. DEFINE I == {i \in 1 .. Len(list) : list[i].uuid = uuid}
            i == SelectInSeq(list, LAMBDA x : x.uuid = uuid)
<1>1. i = IF I # {} THEN Min(I) ELSE 0
  BY DEF SelectInSeq
<1>2. WithUuid(list, uuid) = IF i = 0 THEN <<>> ELSE <<list[i]>>
  BY DEF WithUuid
<1>3. I \in SUBSET (1 .. Len(list))
  OBVIOUS
<1>4. I # {} => i \in I /\ i \in 1 .. Len(list)
  <2>1. I # {} => Min(I) \in I /\ Min(I) \in 1 .. Len(list)
    <3>. HIDE DEF I
    <3>. QED BY <1>3, SelectFinds
  <2>. HIDE DEF I, i
  <2>. QED BY <1>1, <2>1
<1>. HIDE DEF i
<1>5. WithUuid(list, uuid) # <<>> => I # {}
  BY <1>1, <1>2
<1>6. I # {} => WithUuid(list, uuid) = <<list[i]>> /\ list[i].uuid = uuid /\ i \in 1 .. Len(list)
  <2>1. I # {} => i # 0
    BY <1>4
  <2>. QED BY <1>2, <1>4, <2>1
<1>7. \A x : <<x>> # <<>>
  OBVIOUS
<1>. QED BY <1>5, <1>6, <1>7

\* The handle written is that of a CCCD of the notification characteristic of the SESAME,
\* and the characteristic that is written to is in the lists.
LEMMA EnabledReaches ==
  ASSUME NEW d \in Databases, NEW p, NEW q, Fits(d, p, q), Complete(d, p), NEW h, Enabled(p, h)
  PROVE  /\ \E s \in d.svcs, x \in d.chrs :
              /\ s.uuid = "ssm" /\ x.uuid = "notify" /\ s.start < x.def /\ x.def <= s.end
              /\ <<s.start, x.def, h>> \in Expected(d)
         /\ ChrFindUuid(p, "ssm", "write") # <<>>
<1>. DEFINE svc == WithUuid(p.svcs, "ssm")
            chr == ChrFindUuid(p, "ssm", "notify")
            dsc == DscFindUuid(p, "ssm", "notify", "cccd")
<1>1. dsc # <<>> /\ h = dsc[1].handle
  BY DEF Enabled
<1>2. chr # <<>> /\ dsc = WithUuid(chr[1].dscs, "cccd")
  BY <1>1 DEF DscFindUuid
<1>3. svc # <<>> /\ chr = WithUuid(svc[1].chrs, "notify")
  BY <1>2 DEF ChrFindUuid
<1>4. AllChrs(d, p.svcs) /\ Len(p.svcs) \in Nat
  BY ListTypes DEF Complete
<1>5. PICK i \in 1 .. Len(p.svcs) : p.svcs[i].uuid = "ssm" /\ svc = <<p.svcs[i]>>
  BY <1>3, <1>4, UuidFound
<1>6. svc[1] = p.svcs[i] /\ Len(p.svcs[i].chrs) \in Nat
  BY <1>5, ListTypes
<1>7. PICK j \in 1 .. Len(p.svcs[i].chrs) :
        p.svcs[i].chrs[j].uuid = "notify" /\ chr = <<p.svcs[i].chrs[j]>>
  BY <1>2, <1>3, <1>6, UuidFound
<1>8. chr[1] = p.svcs[i].chrs[j] /\ p.svcs[i].chrs[j].dscs \in Seq(Attrs)
  <2>1. chr[1] = p.svcs[i].chrs[j]
    BY <1>7
  <2>2. p.svcs[i].chrs[j].dscs \in Seq(Attrs)
    <3>. HIDE DEF svc, chr, dsc
    <3>. QED BY ChrPlaces
  <2>. QED BY <2>1, <2>2
<1>. DEFINE dscs == p.svcs[i].chrs[j].dscs
<1>9. Len(dscs) \in Nat
  <2>. HIDE DEF dscs
  <2>. QED BY SMTT(30), <1>8 DEF dscs
<1>10. PICK n \in 1 .. Len(dscs) : dscs[n].uuid = "cccd" /\ dsc = <<dscs[n]>>
  BY SMTT(30), <1>1, <1>2, <1>8, <1>9, UuidFound
<1>11. h = dscs[n].handle
  BY <1>1, <1>10
<1>12. PICK s \in d.svcs, x \in d.chrs :
         IsSvc(p.svcs[i], s) /\ IsChr(p.svcs[i].chrs[j], x) /\ x \in ChrsOf(d, s)
  BY InDatabase
<1>13. s.uuid = "ssm" /\ x.uuid = "notify" /\ s.start < x.def /\ x.def <= s.end
  <2>1. s.uuid = "ssm" /\ x.uuid = "notify"
    BY <1>5, <1>7, <1>12 DEF IsSvc, IsChr
  <2>2. s.start <= x.def /\ x.def <= s.end
    BY <1>12 DEF ChrsOf
  <2>. QED BY <2>1, <2>2, ChrFacts
<1>14. dscs[n] \in DscsOf(d, s, x)
  <2>1. HasDscs(d, p.svcs[i], j, MaxHandle)
    BY DEF Complete
  <2>2. dscs[n] \in Attributes(d) /\ InReach(p.svcs[i], j, MaxHandle, dscs[n])
    BY <2>1 DEF HasDscs
  <2>. HIDE DEF dscs
  <2>. QED BY <1>4, <1>12, <2>2, ReachIsDscs
<1>15. <<s.start, x.def, h>> \in Expected(d)
  <2>. DEFINE a == <<s.start, x.def, h>>
  <2>. HIDE DEF dscs
  <2>1. h \in {0} \cup {e.handle : e \in DscsOf(d, s, x)}
    BY <1>11, <1>14
  <2>2. \E t \in d.svcs : \E y \in ChrsOf(d, t) :
          \E g \in {0} \cup {e.handle : e \in DscsOf(d, t, y)} : a = <<t.start, y.def, g>>
    BY <1>12, <2>1
  <2>. HIDE DEF a
  <2>3. a \in Expected(d)
    BY <2>2, ExpectedHolds
  <2>. QED BY <2>3 DEF a
<1>16. ChrFindUuid(p, "ssm", "write") # <<>>
  <2>1. PICK w \in ChrsOf(d, s) : w.uuid = "write"
    <3>1. \E e \in DscsOf(d, s, x) : e.uuid = "cccd"
      BY <1>10, <1>14
    <3>2. Sesame(d)
      BY SesameAssumption
    <3>. QED BY <1>12, <1>13, <3>1, <3>2 DEF Sesame
  <2>2. PICK m \in 1 .. Len(p.svcs) :
          /\ IsSvc(p.svcs[m], s)
          /\ \A y \in ChrsOf(d, s) : \E k \in 1 .. Len(p.svcs[m].chrs) : IsChr(p.svcs[m].chrs[k], y)
    BY <1>4, InLists
  <2>3. m = i
    <3>1. p.svcs[m].start = p.svcs[i].start
      BY <1>12, <2>2 DEF IsSvc
    <3>. QED BY <3>1, Places
  <2>4. PICK k \in 1 .. Len(p.svcs[i].chrs) : p.svcs[i].chrs[k].uuid = "write"
    BY <2>1, <2>2, <2>3 DEF IsChr
  <2>5. WithUuid(p.svcs[i].chrs, "write") # <<>>
    BY <1>6, <2>4, UuidFound
  <2>. QED BY <1>3, <1>6, <2>5 DEF ChrFindUuid
<1>. QED BY <1>12, <1>13, <1>15, <1>16

\* Notifications are enabled on the CCCD of the SESAME notification characteristic and of
\* no other, and the write characteristic is known by then.
THEOREM NotificationsReach == Spec => []NotifyReaches
<1>1. PeerInv /\ WholeInv => NotifyReaches
  <2>. SUFFICES ASSUME PeerInv, WholeInv, NEW c \in Conns, cccd[c] # 0, peer[c].used
                PROVE  /\ \E s \in db[c].svcs, x \in db[c].chrs :
                            /\ s.uuid = "ssm" /\ x.uuid = "notify" /\ s.start < x.def /\ x.def <= s.end
                            /\ <<s.start, x.def, cccd[c]>> \in Expected(db[c])
                       /\ ChrFindUuid(peer[c], "ssm", "write") # <<>>
    BY DEF NotifyReaches
  <2>1. Fits(db[c], peer[c], proc[c]) /\ db[c] \in Databases
    BY InvFits
  <2>2. Complete(db[c], peer[c]) /\ Enabled(peer[c], cccd[c])
    BY DEF WholeInv, Whole
  <2>. QED BY <2>1, <2>2, EnabledReaches
<1>. QED BY <1>1, FoundSoFar, PTL

-----------------------------------------------------------------------------
(* The pools.                                                              *)

\* The blocks of all connections, those of c being B[c]; the books of one pool, and the
\* blocks of a peer after n of them were taken.
Held(B) == UNION {{c} \X B[c] : c \in Conns}
Balance(free, B, max) ==
  free \in Nat /\ IsFiniteSet(Held(B)) /\ free + Cardinality(Held(B)) = max
Grown(B, C, n) == (n = 0 /\ C = B) \/ (n = 1 /\ \E x : x \notin B /\ C = B \cup {x})

Users == {c \in Conns : peer[c].used}
SvcHeld == [c \in Conns |-> SvcBlocks(peer[c])]
ChrHeld == [c \in Conns |-> ChrBlocks(peer[c])]
DscHeld == [c \in Conns |-> DscBlocks(peer[c])]

PoolsInv ==
  /\ links \in 0 .. MaxLinks /\ faults \in 0 .. MaxFaults
  /\ pool \in [peer : Nat, svc : Nat, chr : Nat, dsc : Nat]
  /\ IsFiniteSet(Users) /\ pool.peer + Cardinality(Users) = MaxPeers
  /\ Balance(pool.svc, SvcHeld, MaxSvcs)
  /\ Balance(pool.chr, ChrHeld, MaxChrs)
  /\ Balance(pool.dsc, DscHeld, MaxDscs)

\* A callback has taken from the pools what it has put into the lists: p before, w after.
Paid(p, w, took) ==
  /\ w.used = p.used
  /\ took.svc \in {0, 1} /\ took.chr \in {0, 1} /\ took.dsc \in {0, 1}
  /\ took.svc <= pool.svc /\ took.chr <= pool.chr /\ took.dsc <= pool.dsc
  /\ Grown(SvcBlocks(p), SvcBlocks(w), took.svc)
  /\ Grown(ChrBlocks(p), ChrBlocks(w), took.chr)
  /\ Grown(DscBlocks(p), DscBlocks(w), took.dsc)

\* Peers with the same lists hold the same blocks.
LEMMA SameBlocks ==
  ASSUME NEW p, NEW w, w.svcs = p.svcs
  PROVE  SvcBlocks(w) = SvcBlocks(p) /\ ChrBlocks(w) = ChrBlocks(p) /\ DscBlocks(w) = DscBlocks(p)
<1>1. SvcBlocks(w) = SvcBlocks(p) /\ ChrBlocks(w) = ChrBlocks(p)
  BY DEF SvcBlocks, ChrBlocks
<1>. QED BY <1>1 DEF DscBlocks

LEMMA HeldBy ==
  ASSUME NEW B, NEW b
  PROVE  b \in Held(B) <=> \E c \in Conns : \E x \in B[c] : b = <<c, x>>
BY DEF Held

\* Blocks are taken: the pool has so many less.
LEMMA BalanceTaken ==
  ASSUME NEW free, NEW max, NEW B, NEW C, Balance(free, B, max), NEW c \in Conns,
         \A b \in Conns : b # c => C[b] = B[b], NEW n, Grown(B[c], C[c], n), n <= free
  PROVE  Balance(free - n, C, max)
<1>1. free \in Nat /\ IsFiniteSet(Held(B)) /\ free + Cardinality(Held(B)) = max
  BY DEF Balance
<1>2. CASE n = 0 /\ C[c] = B[c]
  <2>1. \A b : b \in Held(C) <=> b \in Held(B)
    BY <1>2, HeldBy
  <2>2. Held(C) = Held(B)
    BY <2>1
  <2>. QED BY <1>1, <1>2, <2>2 DEF Balance
<1>3. CASE n = 1 /\ \E x : x \notin B[c] /\ C[c] = B[c] \cup {x}
  <2>1. PICK x : x \notin B[c] /\ C[c] = B[c] \cup {x}
    BY <1>3
  <2>2. \A b : b \in Held(C) <=> b \in Held(B) \/ b = <<c, x>>
    BY <2>1, HeldBy
  <2>3. Held(C) = Held(B) \cup {<<c, x>>}
    BY <2>2
  <2>4. <<c, x>> \notin Held(B)
    BY <2>1, HeldBy
  <2>5. IsFiniteSet(Held(C)) /\ Cardinality(Held(C)) = Cardinality(Held(B)) + 1
    BY <1>1, <2>3, <2>4, FS_AddElement
  <2>6. Cardinality(Held(B)) \in Nat
    BY <1>1, FS_CardinalityType
  <2>7. n = 1
    BY <1>3
  <2>. QED BY <1>1, <2>5, <2>6, <2>7 DEF Balance
<1>. QED BY <1>2, <1>3 DEF Grown

\* All blocks of a peer go back.
LEMMA BalanceFreed ==
  ASSUME NEW free, NEW max, NEW B, NEW C, Balance(free, B, max), NEW c \in Conns,
         \A b \in Conns : b # c => C[b] = B[b], C[c] = {}
  PROVE  Balance(free + Cardinality(B[c]), C, max)
<1>. DEFINE T == {c} \X B[c]
            f == [t \in T |-> t[2]]
<1>1. free \in Nat /\ IsFiniteSet(Held(B)) /\ free + Cardinality(Held(B)) = max
  BY DEF Balance
<1>2. T \subseteq Held(B) /\ Held(B) \cap T = T
  BY DEF Held
<1>3. IsFiniteSet(T)
  BY <1>1, <1>2, FS_Subset
<1>4. Held(C) = Held(B) \ T
  <2>1. \A b : b \in Held(C) <=> b \in Held(B) /\ b \notin T
    BY HeldBy
  <2>. QED BY <2>1
<1>5. IsFiniteSet(Held(C)) /\ Cardinality(Held(C)) = Cardinality(Held(B)) - Cardinality(T)
  <2>. HIDE DEF T
  <2>. QED BY <1>1, <1>2, <1>4, FS_Difference
<1>6. Cardinality(B[c]) = Cardinality(T)
  <2>1. f \in Bijection(T, B[c])
    <3>1. f \in [T -> B[c]]
      OBVIOUS
    <3>2. \A s, t \in T : f[s] = f[t] => s = t
      OBVIOUS
    <3>3. \A y \in B[c] : \E t \in T : f[t] = y
      <4>. SUFFICES ASSUME NEW y \in B[c] PROVE \E t \in T : f[t] = y
        OBVIOUS
      <4>1. <<c, y>> \in T /\ f[<<c, y>>] = y
        OBVIOUS
      <4>. QED BY <4>1
    <3>. HIDE DEF T, f
    <3>. QED BY <3>1, <3>2, <3>3 DEF Bijection, Injection, Surjection, IsInjective
  <2>2. ExistsBijection(T, B[c])
    BY <2>1 DEF ExistsBijection
  <2>. HIDE DEF T
  <2>. QED BY <1>3, <2>2, FS_Bijection
<1>7. Cardinality(T) \in Nat /\ Cardinality(Held(B)) \in Nat
  BY <1>1, <1>3, FS_CardinalityType
<1>. HIDE DEF T
<1>. QED BY <1>1, <1>5, <1>6, <1>7 DEF Balance

\* Where the blocks of a peer are.
LEMMA BlocksOf ==
  ASSUME NEW p \in PeerType
  PROVE  /\ Len(p.svcs) \in Nat /\ SvcBlocks(p) = 1 .. Len(p.svcs)
         /\ \A b : b \in ChrBlocks(p) <=>
              \E i \in 1 .. Len(p.svcs) : \E j \in 1 .. Len(p.svcs[i].chrs) : b = <<i, j>>
         /\ \A b : b \in DscBlocks(p) <=>
              \E i \in 1 .. Len(p.svcs) : \E j \in 1 .. Len(p.svcs[i].chrs) :
                \E n \in 1 .. Len(p.svcs[i].chrs[j].dscs) : b = <<<<i, j>>, n>>
<1>1. p.svcs \in Seq(SvcType)
  BY DEF PeerType
<1>2. Len(p.svcs) \in Nat /\ DOMAIN p.svcs = 1 .. Len(p.svcs)
  BY <1>1
<1>3. \A i \in 1 .. Len(p.svcs) : p.svcs[i].chrs \in Seq(ChrType)
  <2>1. \A i \in 1 .. Len(p.svcs) : p.svcs[i] \in SvcType
    BY <1>1
  <2>. QED BY <2>1 DEF SvcType
<1>4. \A i \in 1 .. Len(p.svcs) : DOMAIN p.svcs[i].chrs = 1 .. Len(p.svcs[i].chrs)
  BY <1>3
<1>5. \A i \in 1 .. Len(p.svcs) : \A j \in 1 .. Len(p.svcs[i].chrs) :
        DOMAIN p.svcs[i].chrs[j].dscs = 1 .. Len(p.svcs[i].chrs[j].dscs)
  <2>. SUFFICES ASSUME NEW i \in 1 .. Len(p.svcs), NEW j \in 1 .. Len(p.svcs[i].chrs)
                PROVE  DOMAIN p.svcs[i].chrs[j].dscs = 1 .. Len(p.svcs[i].chrs[j].dscs)
    OBVIOUS
  <2>1. p.svcs[i].chrs[j] \in ChrType
    BY <1>3
  <2>2. p.svcs[i].chrs[j].dscs \in Seq(Attrs)
    BY <2>1 DEF ChrType
  <2>. QED BY <2>2
<1>6. \A b : b \in ChrBlocks(p) <=>
        \E i \in 1 .. Len(p.svcs) : \E j \in 1 .. Len(p.svcs[i].chrs) : b = <<i, j>>
  BY <1>2, <1>4 DEF ChrBlocks
<1>7. \A b : b \in DscBlocks(p) <=>
        \E a \in ChrBlocks(p) : \E n \in DOMAIN p.svcs[a[1]].chrs[a[2]].dscs : b = <<a, n>>
  BY DEF DscBlocks
<1>8. \A b : b \in DscBlocks(p) <=>
        \E i \in 1 .. Len(p.svcs) : \E j \in 1 .. Len(p.svcs[i].chrs) :
          \E n \in 1 .. Len(p.svcs[i].chrs[j].dscs) : b = <<<<i, j>>, n>>
  <2>. SUFFICES ASSUME NEW b
                PROVE  b \in DscBlocks(p) <=>
                         \E i \in 1 .. Len(p.svcs) : \E j \in 1 .. Len(p.svcs[i].chrs) :
                           \E n \in 1 .. Len(p.svcs[i].chrs[j].dscs) : b = <<<<i, j>>, n>>
    OBVIOUS
  <2>1. ASSUME b \in DscBlocks(p)
        PROVE  \E i \in 1 .. Len(p.svcs) : \E j \in 1 .. Len(p.svcs[i].chrs) :
                 \E n \in 1 .. Len(p.svcs[i].chrs[j].dscs) : b = <<<<i, j>>, n>>
    <3>1. PICK a \in ChrBlocks(p) : \E n \in DOMAIN p.svcs[a[1]].chrs[a[2]].dscs : b = <<a, n>>
      BY <1>7, <2>1
    <3>2. PICK i \in 1 .. Len(p.svcs) : \E j \in 1 .. Len(p.svcs[i].chrs) : a = <<i, j>>
      BY <1>6
    <3>3. PICK j \in 1 .. Len(p.svcs[i].chrs) : a = <<i, j>>
      BY <3>2
    <3>4. a[1] = i /\ a[2] = j
      BY <3>3
    <3>5. PICK n \in DOMAIN p.svcs[i].chrs[j].dscs : b = <<<<i, j>>, n>>
      BY <3>1, <3>3, <3>4
    <3>6. n \in 1 .. Len(p.svcs[i].chrs[j].dscs)
      BY <1>5
    <3>. QED BY <3>5, <3>6
  <2>2. ASSUME NEW i \in 1 .. Len(p.svcs), NEW j \in 1 .. Len(p.svcs[i].chrs),
               NEW n \in 1 .. Len(p.svcs[i].chrs[j].dscs), b = <<<<i, j>>, n>>
        PROVE  b \in DscBlocks(p)
    <3>. DEFINE a == <<i, j>>
    <3>1. a \in ChrBlocks(p)
      BY <1>6
    <3>2. a[1] = i /\ a[2] = j
      OBVIOUS
    <3>3. n \in DOMAIN p.svcs[i].chrs[j].dscs
      BY <1>5
    <3>. HIDE DEF a
    <3>4. n \in DOMAIN p.svcs[a[1]].chrs[a[2]].dscs
      BY <3>2, <3>3
    <3>. QED BY <1>7, <2>2, <3>1, <3>4 DEF a
  <2>. QED BY <2>1, <2>2
<1>. QED BY <1>2, <1>6, <1>8 DEF SvcBlocks

\* The lists are left alone, and nothing is taken.
LEMMA NothingPaid ==
  ASSUME PoolsInv, NEW p, NEW w, w.svcs = p.svcs, w.used = p.used
  PROVE  Paid(p, w, Nothing)
<1>1. Nothing.svc = 0 /\ Nothing.chr = 0 /\ Nothing.dsc = 0
  BY DEF Nothing
<1>2. pool.svc \in Nat /\ pool.chr \in Nat /\ pool.dsc \in Nat
  BY DEF PoolsInv
<1>3. SvcBlocks(w) = SvcBlocks(p) /\ ChrBlocks(w) = ChrBlocks(p) /\ DscBlocks(w) = DscBlocks(p)
  BY DEF SvcBlocks, ChrBlocks, DscBlocks
<1>. QED BY <1>1, <1>2, <1>3 DEF Paid, Grown

\* peer_disc_complete, peer_disc_dscs and peer_disc_chrs take no blocks.
LEMMA CompleteKeeps ==
  ASSUME NEW p \in PeerType, NEW rc
  PROVE  LET o == DiscComplete(p, rc)
         IN  o.peer.svcs = p.svcs /\ o.peer.used = p.used /\ o.took = Nothing
BY DEF DiscComplete, Outcome, PeerType

LEMMA DiscDscsKeeps ==
  ASSUME NEW p \in PeerType, NEW o \in DiscDscs(p)
  PROVE  o.peer.svcs = p.svcs /\ o.peer.used = p.used /\ o.took = Nothing
<1>. DEFINE i == SelectInSeq(p.svcs, LAMBDA s : Undescribed(p, s) # {})
            s == p.svcs[i]
            j == Min(Undescribed(p, s))
            val == s.chrs[j].val
            q1 == Request("dscs", val, val, ChrEndHandle(s, j))
<1>1. CASE i = 0
  <2>1. o = DiscComplete(p, "0")
    BY <1>1 DEF DiscDscs
  <2>. QED BY <2>1, CompleteKeeps
<1>2. CASE i # 0
  <2>1. o \in {[Outcome(p, q1, "none", Nothing) EXCEPT !.peer.prev = val],
               [DiscComplete(p, "not started") EXCEPT !.peer.prev = val]}
    BY <1>2 DEF DiscDscs
  <2>2. DiscComplete(p, "not started") = Outcome([p EXCEPT !.prev = 0], NoProc, "not started", Nothing)
    BY DEF DiscComplete
  <2>. HIDE DEF val, q1
  <2>3. [p EXCEPT !.prev = val].svcs = p.svcs /\ [p EXCEPT !.prev = val].used = p.used
    BY DEF PeerType
  <2>4. CASE o = [Outcome(p, q1, "none", Nothing) EXCEPT !.peer.prev = val]
    <3>1. o = Outcome([p EXCEPT !.prev = val], q1, "none", Nothing)
      BY <2>4 DEF Outcome
    <3>2. o.peer = [p EXCEPT !.prev = val] /\ o.took = Nothing
      BY <3>1 DEF Outcome
    <3>. QED BY <2>3, <3>2
  <2>5. CASE o = [DiscComplete(p, "not started") EXCEPT !.peer.prev = val]
    <3>. DEFINE z == [p EXCEPT !.prev = 0]
    <3>1. z.svcs = p.svcs /\ z.used = p.used /\ [z EXCEPT !.prev = val].svcs = z.svcs
          /\ [z EXCEPT !.prev = val].used = z.used
      BY DEF PeerType
    <3>2. o = [Outcome(z, NoProc, "not started", Nothing) EXCEPT !.peer.prev = val]
      BY <2>2, <2>5
    <3>. HIDE DEF z
    <3>3. o = Outcome([z EXCEPT !.prev = val], NoProc, "not started", Nothing)
      BY <3>2 DEF Outcome
    <3>4. o.peer = [z EXCEPT !.prev = val] /\ o.took = Nothing
      BY <3>3 DEF Outcome
    <3>. QED BY <3>1, <3>4
  <2>. QED BY <2>1, <2>4, <2>5
<1>. QED BY <1>1, <1>2

LEMMA DiscChrsKeeps ==
  ASSUME NEW p \in PeerType, NEW o \in DiscChrs(p)
  PROVE  o.peer.svcs = p.svcs /\ o.peer.used = p.used /\ o.took = Nothing
<1>. DEFINE i == SelectInSeq(p.svcs, LAMBDA s : ~SvcIsEmpty(s) /\ s.chrs = <<>>)
            s == p.svcs[i]
            r == [p EXCEPT !.cur = s.start]
            q1 == Request("chrs", s.start, s.start - 1, s.end)
<1>1. CASE i = 0
  <2>1. o \in DiscDscs(p)
    BY <1>1 DEF DiscChrs
  <2>. QED BY <2>1, DiscDscsKeeps
<1>2. CASE i # 0
  <2>1. o \in {Outcome(r, q1, "none", Nothing), DiscComplete(r, "not started")}
    BY <1>2 DEF DiscChrs
  <2>. HIDE DEF q1, i
  <2>2. r.svcs = p.svcs /\ r.used = p.used /\ [r EXCEPT !.prev = 0].svcs = r.svcs /\ [r EXCEPT !.prev = 0].used = r.used
    BY DEF PeerType
  <2>. HIDE DEF r
  <2>3. CASE o = Outcome(r, q1, "none", Nothing)
    BY <2>2, <2>3 DEF Outcome
  <2>4. CASE o = DiscComplete(r, "not started")
    BY <2>2, <2>4 DEF DiscComplete, Outcome
  <2>. QED BY <2>1, <2>3, <2>4
<1>. QED BY <1>1, <1>2

\* An answer is kept and paid for, or the discovery gives up.
LEMMA AddedPaid ==
  ASSUME PoolsInv, NEW c, peer[c] \in PeerType, NEW ok, NEW w, NEW took, ok => Paid(peer[c], w, took),
         NEW h, NEW o \in GoesOn(Added(c, ok, w, took), h)
  PROVE  Paid(peer[c], o.peer, o.took)
<1>1. PICK y \in Added(c, ok, w, took) : o.peer = y.peer /\ o.took = y.took
  <2>1. PICK y \in Added(c, ok, w, took) : o = IF y.proc = NoProc THEN y ELSE [y EXCEPT !.proc.last = h]
    BY DEF GoesOn
  <2>2. \E x, q, rc, k : y = Outcome(x, q, rc, k)
    BY DEF Added, DiscComplete
  <2>3. [y EXCEPT !.proc.last = h].peer = y.peer /\ [y EXCEPT !.proc.last = h].took = y.took
    BY <2>2 DEF Outcome
  <2>. QED BY <2>1, <2>3
<1>2. CASE ok
  <2>1. y.peer = w /\ y.took = took
    BY <1>2 DEF Added, Outcome
  <2>. QED BY <1>1, <1>2, <2>1
<1>3. CASE ~ok
  <2>1. y = DiscComplete(peer[c], "ENOMEM")
    BY <1>3 DEF Added
  <2>2. y.peer.svcs = peer[c].svcs /\ y.peer.used = peer[c].used /\ y.took = Nothing
    BY <2>1, CompleteKeeps
  <2>3. Paid(peer[c], y.peer, Nothing)
    BY <2>2, NothingPaid
  <2>. QED BY <1>1, <2>2, <2>3
<1>. QED BY <1>2, <1>3

\* peer_svc_add takes the block of the service it links.
LEMMA SvcAddPaid ==
  ASSUME PoolsInv, NEW c, NEW d \in Databases, Fits(d, peer[c], proc[c]), proc[c].kind = "svcs",
         NEW s \in d.svcs, proc[c].last < s.start, NEW o \in GoesOn(SvcAdd(c, s), s.end)
  PROVE  Paid(peer[c], o.peer, o.took)
<1>. DEFINE p == peer[c]
            w == WithSvc(p, s)
            took == [Nothing EXCEPT !.svc = 1]
            n == Len(p.svcs)
<1>1. SvcAdd(c, s) = Added(c, pool.svc > 0, w, took)
  BY SvcAddIs
<1>2. p \in PeerType /\ Appended(d, p, s, w)
  BY SvcAppended DEF Fits
<1>3. took.svc = 1 /\ took.chr = 0 /\ took.dsc = 0
  BY DEF Nothing
<1>4. pool.svc \in Nat /\ pool.chr \in Nat /\ pool.dsc \in Nat
  BY DEF PoolsInv
<1>. HIDE DEF w, took
<1>5. /\ w \in PeerType /\ w.used = p.used /\ n \in Nat /\ Len(w.svcs) = n + 1
      /\ w.svcs[n + 1].chrs = <<>> /\ \A i \in 1 .. n : w.svcs[i] = p.svcs[i]
  BY <1>2 DEF Appended, NewSvc
<1>6. Grown(SvcBlocks(p), SvcBlocks(w), 1)
  <2>1. SvcBlocks(p) = 1 .. n /\ SvcBlocks(w) = 1 .. Len(w.svcs)
    BY <1>2, <1>5, BlocksOf
  <2>2. n + 1 \notin 1 .. n /\ 1 .. (n + 1) = (1 .. n) \cup {n + 1}
    BY <1>5
  <2>. QED BY <1>5, <2>1, <2>2 DEF Grown
<1>7. \A i \in 1 .. Len(w.svcs) : i \in 1 .. n \/ (i = n + 1 /\ Len(w.svcs[i].chrs) = 0)
  BY <1>5
<1>8. ChrBlocks(w) = ChrBlocks(p)
  <2>1. \A b : b \in ChrBlocks(w) <=> b \in ChrBlocks(p)
    <3>1. \A b : b \in ChrBlocks(w) <=>
            \E i \in 1 .. Len(w.svcs) : \E j \in 1 .. Len(w.svcs[i].chrs) : b = <<i, j>>
      BY <1>5, BlocksOf
    <3>2. \A b : b \in ChrBlocks(p) <=> \E i \in 1 .. n : \E j \in 1 .. Len(p.svcs[i].chrs) : b = <<i, j>>
      BY <1>2, BlocksOf
    <3>. HIDE DEF n
    <3>. QED BY SMTT(30), <1>5, <1>7, <3>1, <3>2
  <2>. QED BY <2>1
<1>9. DscBlocks(w) = DscBlocks(p)
  <2>1. \A b \in ChrBlocks(p) : w.svcs[b[1]] = p.svcs[b[1]]
    <3>1. \A b \in ChrBlocks(p) : b[1] \in 1 .. n
      BY <1>2, BlocksOf
    <3>. QED BY <1>5, <3>1
  <2>. QED BY <1>8, <2>1 DEF DscBlocks
<1>10. pool.svc > 0 => Paid(p, w, took)
  BY <1>3, <1>4, <1>5, <1>6, <1>8, <1>9 DEF Paid, Grown
<1>. QED BY <1>1, <1>2, <1>10, AddedPaid

\* peer_chr_add takes the block of the characteristic it links.
LEMMA ChrAddPaid ==
  ASSUME PoolsInv, NEW c, NEW d \in Databases, Fits(d, peer[c], proc[c]), proc[c].kind = "chrs",
         NEW x \in d.chrs, proc[c].last < x.def, NEW o \in GoesOn(ChrAdd(c, x), x.def)
  PROVE  Paid(peer[c], o.peer, o.took)
<1>. DEFINE p == peer[c]
            took == [Nothing EXCEPT !.chr = 1]
<1>1. PICK i \in 1 .. Len(p.svcs) : p.svcs[i].start = p.cur
  BY DEF Fits, Position
<1>. DEFINE w == WithChr(p, i, x)
            chrs == p.svcs[i].chrs
            more == w.svcs[i].chrs
            n == Len(chrs)
<1>2. ChrAdd(c, x) = Added(c, pool.chr > 0, w, took)
  BY <1>1, ChrAddIs
<1>3. p \in PeerType
  BY DEF Fits
<1>4. SvcKept(p, i, w) /\ Longer(chrs, x, more)
  BY <1>3, ChrAppended
<1>5. took.svc = 0 /\ took.chr = 1 /\ took.dsc = 0
  BY DEF Nothing
<1>6. pool.svc \in Nat /\ pool.chr \in Nat /\ pool.dsc \in Nat
  BY DEF PoolsInv
<1>. HIDE DEF w, took
<1>7. /\ w \in PeerType /\ w.used = p.used /\ Len(w.svcs) = Len(p.svcs)
      /\ \A k \in 1 .. Len(p.svcs) : k # i => w.svcs[k] = p.svcs[k]
  BY <1>4 DEF SvcKept
<1>8. /\ n \in Nat /\ Len(more) = n + 1 /\ more[n + 1].dscs = <<>>
      /\ \A j \in 1 .. n : more[j] = chrs[j]
  <2>1. NewChr(x).dscs = <<>>
    BY DEF NewChr
  <2>. HIDE DEF more, chrs
  <2>2. /\ Len(chrs) \in Nat /\ Len(more) = Len(chrs) + 1 /\ more[Len(chrs) + 1] = NewChr(x)
        /\ \A j \in 1 .. Len(chrs) : more[j] = chrs[j]
    BY <1>4 DEF Longer
  <2>. QED BY <2>1, <2>2
<1>. HIDE DEF n, more, chrs
<1>9. SvcBlocks(w) = SvcBlocks(p)
  BY <1>3, <1>7, BlocksOf
<1>10. \A b : b \in ChrBlocks(w) <=>
         \E k \in 1 .. Len(p.svcs) : \E j \in 1 .. Len(w.svcs[k].chrs) : b = <<k, j>>
  <2>1. \A b : b \in ChrBlocks(w) <=>
          \E k \in 1 .. Len(w.svcs) : \E j \in 1 .. Len(w.svcs[k].chrs) : b = <<k, j>>
    BY <1>7, BlocksOf
  <2>. QED BY <1>7, <2>1
<1>11. \A b : b \in ChrBlocks(p) <=>
         \E k \in 1 .. Len(p.svcs) : \E j \in 1 .. Len(p.svcs[k].chrs) : b = <<k, j>>
  BY <1>3, BlocksOf
<1>12. 1 .. (n + 1) = (1 .. n) \cup {n + 1} /\ n + 1 \notin 1 .. n
  BY <1>8
<1>13. Grown(ChrBlocks(p), ChrBlocks(w), 1)
  <2>1. \A b : b \in ChrBlocks(w) <=> b \in ChrBlocks(p) \/ b = <<i, n + 1>>
    <3>1. Len(w.svcs[i].chrs) = n + 1 /\ Len(p.svcs[i].chrs) = n
      BY <1>8 DEF more, chrs, n
    <3>2. ASSUME NEW k \in 1 .. Len(p.svcs), NEW j
          PROVE  j \in 1 .. Len(w.svcs[k].chrs) <=>
                   j \in 1 .. Len(p.svcs[k].chrs) \/ (k = i /\ j = n + 1)
      <4>1. CASE k = i
        BY <1>12, <3>1, <4>1
      <4>2. CASE k # i
        BY <1>7, <4>2
      <4>. QED BY <4>1, <4>2
    <3>. QED BY <1>10, <1>11, <3>2
  <2>2. <<i, n + 1>> \notin ChrBlocks(p)
    <3>1. Len(p.svcs[i].chrs) = n
      BY DEF chrs, n
    <3>. QED BY <1>11, <1>12, <3>1
  <2>. QED BY <2>1, <2>2 DEF Grown
<1>14. DscBlocks(w) = DscBlocks(p)
  <2>1. ASSUME NEW k \in 1 .. Len(p.svcs), NEW j \in 1 .. Len(p.svcs[k].chrs)
        PROVE  j \in 1 .. Len(w.svcs[k].chrs) /\ w.svcs[k].chrs[j] = p.svcs[k].chrs[j]
    <3>1. CASE k = i
      BY <1>8, <1>12, <3>1 DEF more, chrs, n
    <3>2. CASE k # i
      BY <1>7, <3>2
    <3>. QED BY <3>1, <3>2
  <2>2. ASSUME NEW k \in 1 .. Len(p.svcs), NEW j \in 1 .. Len(w.svcs[k].chrs), NEW m \in 1 .. Len(w.svcs[k].chrs[j].dscs)
        PROVE  j \in 1 .. Len(p.svcs[k].chrs)
    <3>1. CASE k = i
      <4>1. j \in 1 .. n \/ j = n + 1
        BY <1>8, <1>12, <3>1 DEF more
      <4>2. j # n + 1
        <5>1. SUFFICES ASSUME j = n + 1 PROVE FALSE
          OBVIOUS
        <5>2. Len(w.svcs[k].chrs[j].dscs) = 0
          BY <1>8, <3>1, <5>1 DEF more
        <5>. QED BY <5>2
      <4>. QED BY <3>1, <4>1, <4>2 DEF n, chrs
    <3>2. CASE k # i
      BY <1>7, <3>2
    <3>. QED BY <3>1, <3>2
  <2>3. \A b : b \in DscBlocks(w) <=>
          \E k \in 1 .. Len(w.svcs) : \E j \in 1 .. Len(w.svcs[k].chrs) :
            \E m \in 1 .. Len(w.svcs[k].chrs[j].dscs) : b = <<<<k, j>>, m>>
    BY <1>7, BlocksOf
  <2>4. \A b : b \in DscBlocks(p) <=>
          \E k \in 1 .. Len(p.svcs) : \E j \in 1 .. Len(p.svcs[k].chrs) :
            \E m \in 1 .. Len(p.svcs[k].chrs[j].dscs) : b = <<<<k, j>>, m>>
    BY <1>3, BlocksOf
  <2>5. ASSUME NEW b \in DscBlocks(w) PROVE b \in DscBlocks(p)
    <3>6. PICK k \in 1 .. Len(w.svcs) : \E j \in 1 .. Len(w.svcs[k].chrs) :
            \E m \in 1 .. Len(w.svcs[k].chrs[j].dscs) : b = <<<<k, j>>, m>>
      BY <2>3
    <3>7. k \in 1 .. Len(p.svcs)
      BY <1>7
    <3>1. PICK j \in 1 .. Len(w.svcs[k].chrs) :
            \E m \in 1 .. Len(w.svcs[k].chrs[j].dscs) : b = <<<<k, j>>, m>>
      BY <3>6
    <3>2. PICK m \in 1 .. Len(w.svcs[k].chrs[j].dscs) : b = <<<<k, j>>, m>>
      BY <3>1
    <3>3. j \in 1 .. Len(p.svcs[k].chrs)
      BY <2>2, <3>7
    <3>4. w.svcs[k].chrs[j] = p.svcs[k].chrs[j]
      BY <2>1, <3>7, <3>3
    <3>5. m \in 1 .. Len(p.svcs[k].chrs[j].dscs)
      BY <3>4
    <3>. QED BY <2>4, <3>7, <3>2, <3>3, <3>5
  <2>6. ASSUME NEW b \in DscBlocks(p) PROVE b \in DscBlocks(w)
    <3>1. PICK k \in 1 .. Len(p.svcs) : \E j \in 1 .. Len(p.svcs[k].chrs) :
            \E m \in 1 .. Len(p.svcs[k].chrs[j].dscs) : b = <<<<k, j>>, m>>
      BY <2>4
    <3>2. PICK j \in 1 .. Len(p.svcs[k].chrs) :
            \E m \in 1 .. Len(p.svcs[k].chrs[j].dscs) : b = <<<<k, j>>, m>>
      BY <3>1
    <3>3. PICK m \in 1 .. Len(p.svcs[k].chrs[j].dscs) : b = <<<<k, j>>, m>>
      BY <3>2
    <3>4. j \in 1 .. Len(w.svcs[k].chrs) /\ w.svcs[k].chrs[j] = p.svcs[k].chrs[j]
      BY <2>1
    <3>5. m \in 1 .. Len(w.svcs[k].chrs[j].dscs) /\ k \in 1 .. Len(w.svcs)
      BY <1>7, <3>4
    <3>. QED BY <2>3, <3>3, <3>4, <3>5
  <2>. QED BY <2>5, <2>6
<1>15. pool.chr > 0 => Paid(p, w, took)
  BY <1>5, <1>6, <1>7, <1>9, <1>13, <1>14 DEF Paid, Grown
<1>. QED BY <1>2, <1>3, <1>15, AddedPaid

\* peer_dsc_add takes the block of the descriptor it links, which is the last of its list:
\* one linked in the middle would lose those behind it.
LEMMA DscAddPaid ==
  ASSUME PoolsInv, NEW c, NEW d \in Databases, Fits(d, peer[c], proc[c]), proc[c].kind = "dscs",
         Progress(d, peer[c], proc[c]), NEW e \in Attributes(d), proc[c].last < e.handle,
         NEW o \in GoesOn(DscAdd(c, proc[c].key, e), e.handle)
  PROVE  Paid(peer[c], o.peer, o.took)
<1>. DEFINE p == peer[c]
            took == [Nothing EXCEPT !.dsc = 1]
<1>1. PICK i \in 1 .. Len(p.svcs) : \E j \in 1 .. Len(p.svcs[i].chrs) : p.svcs[i].chrs[j].val = proc[c].key
  BY DEF Fits, Position
<1>2. PICK j \in 1 .. Len(p.svcs[i].chrs) : p.svcs[i].chrs[j].val = proc[c].key
  BY <1>1
<1>. DEFINE chrs == p.svcs[i].chrs
            dscs == chrs[j].dscs
            n == Len(dscs)
            more == Append(dscs, e)
            w == WithDscs(p, i, j, more)
<1>3. DscAdd(c, proc[c].key, e) = Added(c, pool.dsc > 0, w, took)
  <2>1. DscAdd(c, proc[c].key, e) = DscTaken(c, i, j, e)
    BY <1>2, DscAddIs
  <2>. QED BY <2>1 DEF DscTaken
<1>4. p \in PeerType
  BY DEF Fits
<1>5. more \in Seq(Attrs) /\ n \in Nat /\ Len(more) = n + 1
  <2>1. dscs \in Seq(Attrs) /\ e \in Attrs
    BY <1>2, ChrPlaces, AttributeTypes
  <2>. HIDE DEF dscs
  <2>. QED BY <2>1, AtTheEnd
<1>. HIDE DEF more
<1>6. SvcKept(p, i, w) /\ Redescribed(chrs, j, more, w.svcs[i].chrs)
  BY <1>4, <1>5, DscsChanged
<1>7. took.svc = 0 /\ took.chr = 0 /\ took.dsc = 1
  BY DEF Nothing
<1>8. pool.svc \in Nat /\ pool.chr \in Nat /\ pool.dsc \in Nat
  BY DEF PoolsInv
<1>. HIDE DEF w, took
<1>9. /\ w \in PeerType /\ w.used = p.used /\ Len(w.svcs) = Len(p.svcs)
      /\ \A k \in 1 .. Len(p.svcs) : k # i => w.svcs[k] = p.svcs[k]
  BY <1>6 DEF SvcKept
<1>10. /\ Len(w.svcs[i].chrs) = Len(p.svcs[i].chrs) /\ w.svcs[i].chrs[j].dscs = more
       /\ \A k \in 1 .. Len(p.svcs[i].chrs) : k # j => w.svcs[i].chrs[k] = p.svcs[i].chrs[k]
  BY <1>6 DEF Redescribed
<1>11. 1 .. (n + 1) = (1 .. n) \cup {n + 1} /\ n + 1 \notin 1 .. n
  <2>. HIDE DEF n
  <2>. QED BY <1>5
<1>12. ASSUME NEW k \in 1 .. Len(p.svcs), NEW l \in 1 .. Len(p.svcs[k].chrs), NEW m
       PROVE  m \in 1 .. Len(w.svcs[k].chrs[l].dscs) <=>
                m \in 1 .. Len(p.svcs[k].chrs[l].dscs) \/ (k = i /\ l = j /\ m = n + 1)
  <2>1. CASE k = i /\ l = j
    <3>1. Len(w.svcs[k].chrs[l].dscs) = n + 1 /\ Len(p.svcs[k].chrs[l].dscs) = n
      BY <1>5, <1>10, <2>1
    <3>. HIDE DEF n
    <3>. QED BY <1>11, <2>1, <3>1
  <2>2. CASE k = i /\ l # j
    BY <1>10, <2>2
  <2>3. CASE k # i
    BY <1>9, <2>3
  <2>. QED BY <2>1, <2>2, <2>3
<1>13. n = Len(p.svcs[i].chrs[j].dscs)
  OBVIOUS
<1>. HIDE DEF n, dscs, chrs
<1>14. \A k \in 1 .. Len(p.svcs) : Len(w.svcs[k].chrs) = Len(p.svcs[k].chrs)
  BY <1>9, <1>10
<1>15. SvcBlocks(w) = SvcBlocks(p)
  BY <1>4, <1>9, BlocksOf
<1>16. ChrBlocks(w) = ChrBlocks(p)
  <2>1. \A b : b \in ChrBlocks(w) <=>
          \E k \in 1 .. Len(w.svcs) : \E l \in 1 .. Len(w.svcs[k].chrs) : b = <<k, l>>
    BY <1>9, BlocksOf
  <2>2. \A b : b \in ChrBlocks(p) <=>
          \E k \in 1 .. Len(p.svcs) : \E l \in 1 .. Len(p.svcs[k].chrs) : b = <<k, l>>
    BY <1>4, BlocksOf
  <2>3. ASSUME NEW b \in ChrBlocks(w) PROVE b \in ChrBlocks(p)
    <3>1. PICK k \in 1 .. Len(w.svcs) : \E l \in 1 .. Len(w.svcs[k].chrs) : b = <<k, l>>
      BY <2>1
    <3>. QED BY <1>9, <1>14, <2>2, <3>1
  <2>4. ASSUME NEW b \in ChrBlocks(p) PROVE b \in ChrBlocks(w)
    <3>1. PICK k \in 1 .. Len(p.svcs) : \E l \in 1 .. Len(p.svcs[k].chrs) : b = <<k, l>>
      BY <2>2
    <3>. QED BY <1>9, <1>14, <2>1, <3>1
  <2>. QED BY <2>3, <2>4
<1>17. \A b : b \in DscBlocks(w) <=>
         \E k \in 1 .. Len(w.svcs) : \E l \in 1 .. Len(w.svcs[k].chrs) :
           \E m \in 1 .. Len(w.svcs[k].chrs[l].dscs) : b = <<<<k, l>>, m>>
  BY <1>9, BlocksOf
<1>18. \A b : b \in DscBlocks(p) <=>
         \E k \in 1 .. Len(p.svcs) : \E l \in 1 .. Len(p.svcs[k].chrs) :
           \E m \in 1 .. Len(p.svcs[k].chrs[l].dscs) : b = <<<<k, l>>, m>>
  BY <1>4, BlocksOf
<1>. DEFINE new == <<<<i, j>>, n + 1>>
<1>19. Grown(DscBlocks(p), DscBlocks(w), 1)
  <2>1. new \notin DscBlocks(p)
    <3>. SUFFICES ASSUME new \in DscBlocks(p) PROVE FALSE
      OBVIOUS
    <3>1. PICK k \in 1 .. Len(p.svcs) : \E l \in 1 .. Len(p.svcs[k].chrs) :
            \E m \in 1 .. Len(p.svcs[k].chrs[l].dscs) : new = <<<<k, l>>, m>>
      BY <1>18
    <3>2. PICK l \in 1 .. Len(p.svcs[k].chrs) :
            \E m \in 1 .. Len(p.svcs[k].chrs[l].dscs) : new = <<<<k, l>>, m>>
      BY <3>1
    <3>3. PICK m \in 1 .. Len(p.svcs[k].chrs[l].dscs) : new = <<<<k, l>>, m>>
      BY <3>2
    <3>4. k = i /\ l = j /\ m = n + 1
      BY <3>3
    <3>. QED BY <1>11, <1>13, <3>4
  <2>2. ASSUME NEW b \in DscBlocks(w) PROVE b \in DscBlocks(p) \cup {new}
    <3>1. PICK k \in 1 .. Len(w.svcs) : \E l \in 1 .. Len(w.svcs[k].chrs) :
            \E m \in 1 .. Len(w.svcs[k].chrs[l].dscs) : b = <<<<k, l>>, m>>
      BY <1>17
    <3>2. PICK l \in 1 .. Len(w.svcs[k].chrs) :
            \E m \in 1 .. Len(w.svcs[k].chrs[l].dscs) : b = <<<<k, l>>, m>>
      BY <3>1
    <3>3. PICK m \in 1 .. Len(w.svcs[k].chrs[l].dscs) : b = <<<<k, l>>, m>>
      BY <3>2
    <3>4. k \in 1 .. Len(p.svcs) /\ l \in 1 .. Len(p.svcs[k].chrs)
      BY <1>9, <1>14
    <3>5. m \in 1 .. Len(p.svcs[k].chrs[l].dscs) \/ (k = i /\ l = j /\ m = n + 1)
      BY <1>12, <3>4
    <3>. QED BY <1>18, <3>3, <3>4, <3>5
  <2>3. ASSUME NEW k \in 1 .. Len(p.svcs), NEW l \in 1 .. Len(p.svcs[k].chrs),
               NEW m, m \in 1 .. Len(p.svcs[k].chrs[l].dscs) \/ (k = i /\ l = j /\ m = n + 1)
        PROVE  <<<<k, l>>, m>> \in DscBlocks(w)
    <3>1. m \in 1 .. Len(w.svcs[k].chrs[l].dscs)
      BY <1>12, <2>3
    <3>2. k \in 1 .. Len(w.svcs) /\ l \in 1 .. Len(w.svcs[k].chrs)
      BY <1>9, <1>14
    <3>. QED BY <1>17, <3>1, <3>2
  <2>4. new \in DscBlocks(w)
    BY <2>3
  <2>5. ASSUME NEW b \in DscBlocks(p) PROVE b \in DscBlocks(w)
    <3>1. PICK k \in 1 .. Len(p.svcs) : \E l \in 1 .. Len(p.svcs[k].chrs) :
            \E m \in 1 .. Len(p.svcs[k].chrs[l].dscs) : b = <<<<k, l>>, m>>
      BY <1>18
    <3>. QED BY <2>3, <3>1
  <2>. HIDE DEF new
  <2>6. DscBlocks(w) = DscBlocks(p) \cup {new}
    BY <2>2, <2>4, <2>5
  <2>. QED BY <2>1, <2>6 DEF Grown
<1>20. pool.dsc > 0 => Paid(p, w, took)
  BY <1>7, <1>8, <1>9, <1>15, <1>16, <1>19 DEF Paid, Grown
<1>. QED BY <1>3, <1>4, <1>20, AddedPaid

\* A callback that has paid for what it leaves keeps the books.
LEMMA ReturnPools ==
  ASSUME PeerInv, PoolsInv, NEW c \in Conns, NEW outcomes,
         \A o \in outcomes : Paid(peer[c], o.peer, o.took), Return(c, outcomes)
  PROVE  PoolsInv'
<1>1. PICK o \in outcomes :
        /\ peer' = [peer EXCEPT ![c] = o.peer] /\ links' = links
        /\ pool' = [pool EXCEPT !.svc = @ - o.took.svc, !.chr = @ - o.took.chr, !.dsc = @ - o.took.dsc]
        /\ IF o.rc = "none" THEN UNCHANGED <<reports, link, cccd, faults>>
           ELSE ServiceDiscComplete(c, o.peer, o.rc)
        /\ IF o.rc = "not started" THEN faults < MaxFaults /\ faults' = faults + 1
           ELSE o.rc # "0" => UNCHANGED faults
  BY DEF Return
<1>2. /\ links \in 0 .. MaxLinks /\ faults \in 0 .. MaxFaults /\ MaxFaults \in Nat
      /\ pool \in [peer : Nat, svc : Nat, chr : Nat, dsc : Nat]
      /\ IsFiniteSet(Users) /\ pool.peer + Cardinality(Users) = MaxPeers
  BY PeerAssumption DEF PoolsInv
<1>3. /\ Balance(pool.svc, SvcHeld, MaxSvcs) /\ Balance(pool.chr, ChrHeld, MaxChrs)
      /\ Balance(pool.dsc, DscHeld, MaxDscs)
  BY DEF PoolsInv
<1>4. faults' \in 0 .. MaxFaults
  <2>1. CASE o.rc = "0"
    <3>1. faults' = faults \/ (faults < MaxFaults /\ faults' = faults + 1)
      BY <1>1, <2>1 DEF ServiceDiscComplete, EnableNotify
    <3>. QED BY <1>2, <3>1
  <2>2. CASE o.rc = "not started"
    <3>1. faults < MaxFaults /\ faults' = faults + 1
      BY <1>1, <2>2
    <3>. QED BY <1>2, <3>1
  <2>3. CASE o.rc \notin {"0", "not started"}
    <3>1. faults' = faults
      BY <1>1, <2>3
    <3>. QED BY <1>2, <3>1
  <2>. QED BY <2>1, <2>2, <2>3
<1>5. Paid(peer[c], o.peer, o.took)
  OBVIOUS
<1>6. peer'[c] = o.peer /\ \A b \in Conns : b # c => peer'[b] = peer[b]
  BY <1>1 DEF PeerInv
<1>7. Users' = Users
  <2>1. o.peer.used = peer[c].used
    BY <1>5 DEF Paid
  <2>. QED BY <1>6, <2>1 DEF Users
<1>8. /\ o.took.svc \in {0, 1} /\ o.took.chr \in {0, 1} /\ o.took.dsc \in {0, 1}
      /\ o.took.svc <= pool.svc /\ o.took.chr <= pool.chr /\ o.took.dsc <= pool.dsc
  BY <1>5 DEF Paid
<1>9. /\ pool' \in [peer : Nat, svc : Nat, chr : Nat, dsc : Nat] /\ pool'.peer = pool.peer
      /\ pool'.svc = pool.svc - o.took.svc /\ pool'.chr = pool.chr - o.took.chr
      /\ pool'.dsc = pool.dsc - o.took.dsc
  <2>1. pool.svc \in Nat /\ pool.chr \in Nat /\ pool.dsc \in Nat
    BY <1>2
  <2>2. /\ pool.svc - o.took.svc \in Nat /\ pool.chr - o.took.chr \in Nat
        /\ pool.dsc - o.took.dsc \in Nat
    BY <1>8, <2>1
  <2>3. pool' = [pool EXCEPT !.svc = pool.svc - o.took.svc, !.chr = pool.chr - o.took.chr,
                             !.dsc = pool.dsc - o.took.dsc]
    BY <1>1
  <2>. QED BY <1>2, <2>2, <2>3
<1>10. Balance(pool'.svc, SvcHeld', MaxSvcs)
  <2>1. /\ Grown(SvcHeld[c], SvcHeld'[c], o.took.svc)
        /\ \A b \in Conns : b # c => SvcHeld'[b] = SvcHeld[b]
    BY <1>5, <1>6 DEF Paid, SvcHeld
  <2>2. Balance(pool.svc - o.took.svc, SvcHeld', MaxSvcs)
    BY <1>3, <1>8, <2>1, BalanceTaken
  <2>. QED BY <1>9, <2>2
<1>11. Balance(pool'.chr, ChrHeld', MaxChrs)
  <2>1. /\ Grown(ChrHeld[c], ChrHeld'[c], o.took.chr)
        /\ \A b \in Conns : b # c => ChrHeld'[b] = ChrHeld[b]
    BY <1>5, <1>6 DEF Paid, ChrHeld
  <2>2. Balance(pool.chr - o.took.chr, ChrHeld', MaxChrs)
    BY <1>3, <1>8, <2>1, BalanceTaken
  <2>. QED BY <1>9, <2>2
<1>12. Balance(pool'.dsc, DscHeld', MaxDscs)
  <2>1. /\ Grown(DscHeld[c], DscHeld'[c], o.took.dsc)
        /\ \A b \in Conns : b # c => DscHeld'[b] = DscHeld[b]
    BY <1>5, <1>6 DEF Paid, DscHeld
  <2>2. Balance(pool.dsc - o.took.dsc, DscHeld', MaxDscs)
    BY <1>3, <1>8, <2>1, BalanceTaken
  <2>. QED BY <1>9, <2>2
<1>13. Balance(pool.svc, SvcHeld, MaxSvcs)'
  BY <1>10 DEF Balance, Held
<1>14. Balance(pool.chr, ChrHeld, MaxChrs)'
  BY <1>11 DEF Balance, Held
<1>15. Balance(pool.dsc, DscHeld, MaxDscs)'
  BY <1>12 DEF Balance, Held
<1>. QED BY <1>1, <1>2, <1>4, <1>7, <1>9, <1>13, <1>14, <1>15 DEF PoolsInv

\* BLE_HS_EDONE takes nothing.
LEMMA DonePools ==
  ASSUME PeerInv, PoolsInv, NEW c \in Conns, NEW outcomes, Done(c, outcomes),
         \A o \in outcomes : /\ Good(db[c], o) /\ o.peer.svcs = peer[c].svcs
                             /\ o.peer.used = peer[c].used /\ o.took = Nothing
  PROVE  PoolsInv'
<1>1. CASE peer[c].prev > 0
  <2>1. ASSUME NEW r \in Renewed(c, outcomes) PROVE Paid(peer[c], r.peer, r.took)
    <3>1. PICK o \in outcomes : r = IF o.proc = NoProc THEN o ELSE [o EXCEPT !.proc.turn = 1 - proc[c].turn]
      BY DEF Renewed
    <3>2. o = Outcome(o.peer, o.proc, o.rc, o.took)
      BY DEF Good
    <3>3. PICK x, q, rc, k : o = Outcome(x, q, rc, k)
      BY <3>2
    <3>4. r.peer = o.peer /\ r.took = o.took
      BY <3>1, <3>3 DEF Outcome
    <3>5. Paid(peer[c], o.peer, Nothing)
      BY NothingPaid
    <3>. QED BY <3>4, <3>5
  <2>2. Return(c, Renewed(c, outcomes))
    BY <1>1 DEF Done
  <2>. QED BY <2>1, <2>2, ReturnPools
<1>2. CASE ~ (peer[c].prev > 0)
  <2>. DEFINE o == Outcome(peer[c], NoProc, "none", Nothing)
  <2>1. Return(c, {o})
    BY <1>2 DEF Done
  <2>2. Paid(peer[c], o.peer, o.took)
    <3>1. Paid(peer[c], peer[c], Nothing)
      BY NothingPaid
    <3>. QED BY <3>1 DEF Outcome
  <2>. HIDE DEF o
  <2>. QED BY <2>1, <2>2, ReturnPools
<1>. QED BY <1>1, <1>2

LEMMA AnswerPools ==
  ASSUME PeerInv, WholeInv, PoolsInv, NEW c \in Conns, Answer(c)
  PROVE  PoolsInv'
<1>1. Fits(db[c], peer[c], proc[c]) /\ db[c] \in Databases /\ peer[c] \in PeerType
  BY InvFits DEF Fits
<1>2. Progress(db[c], peer[c], proc[c])
  BY DEF WholeInv, Whole
<1>3. \A o \in DiscChrs(peer[c]) : /\ Good(db[c], o) /\ o.peer.svcs = peer[c].svcs
                                   /\ o.peer.used = peer[c].used /\ o.took = Nothing
  BY <1>1, DiscChrsGood, DiscChrsKeeps
<1>4. \A o \in DiscDscs(peer[c]) : /\ Good(db[c], o) /\ o.peer.svcs = peer[c].svcs
                                   /\ o.peer.used = peer[c].used /\ o.took = Nothing
  BY <1>1, DiscDscsGood, DiscDscsKeeps
<1>5. CASE SvcDisced(c)
  <2>1. proc[c].kind = "svcs"
    BY <1>5 DEF SvcDisced, Running
  <2>2. CASE Done(c, DiscChrs(peer[c]))
    BY <1>3, <2>2, DonePools
  <2>3. CASE \E s \in Further(c, db[c].svcs, "start") : Return(c, GoesOn(SvcAdd(c, s), s.end))
    <3>1. PICK s \in db[c].svcs : proc[c].last < s.start /\ Return(c, GoesOn(SvcAdd(c, s), s.end))
      BY <2>3 DEF Further
    <3>2. \A o \in GoesOn(SvcAdd(c, s), s.end) : Paid(peer[c], o.peer, o.took)
      BY <1>1, <2>1, <3>1, SvcAddPaid
    <3>. QED BY <3>1, <3>2, ReturnPools
  <2>. QED BY <1>5, <2>2, <2>3 DEF SvcDisced
<1>6. CASE ChrDisced(c)
  <2>1. proc[c].kind = "chrs"
    BY <1>6 DEF ChrDisced, Running
  <2>2. CASE Done(c, DiscChrs(peer[c]))
    BY <1>3, <2>2, DonePools
  <2>3. CASE \E x \in Further(c, db[c].chrs, "def") : Return(c, GoesOn(ChrAdd(c, x), x.def))
    <3>1. PICK x \in db[c].chrs : proc[c].last < x.def /\ Return(c, GoesOn(ChrAdd(c, x), x.def))
      BY <2>3 DEF Further
    <3>2. \A o \in GoesOn(ChrAdd(c, x), x.def) : Paid(peer[c], o.peer, o.took)
      BY <1>1, <2>1, <3>1, ChrAddPaid
    <3>. QED BY <3>1, <3>2, ReturnPools
  <2>. QED BY <1>6, <2>2, <2>3 DEF ChrDisced
<1>7. CASE DscDisced(c)
  <2>1. proc[c].kind = "dscs"
    BY <1>7 DEF DscDisced, Running
  <2>2. CASE Done(c, DiscDscs(peer[c]))
    BY <1>4, <2>2, DonePools
  <2>3. CASE \E e \in Further(c, Attributes(db[c]), "handle") :
               Return(c, GoesOn(DscAdd(c, proc[c].key, e), e.handle))
    <3>1. PICK e \in Attributes(db[c]) :
            proc[c].last < e.handle /\ Return(c, GoesOn(DscAdd(c, proc[c].key, e), e.handle))
      BY <2>3 DEF Further
    <3>2. \A o \in GoesOn(DscAdd(c, proc[c].key, e), e.handle) : Paid(peer[c], o.peer, o.took)
      BY <1>1, <1>2, <2>1, <3>1, DscAddPaid
    <3>. QED BY <3>1, <3>2, ReturnPools
  <2>. QED BY <1>7, <2>2, <2>3 DEF DscDisced
<1>. QED BY <1>5, <1>6, <1>7 DEF Answer

\* peer_add takes the block of the peer.
LEMMA ConnectPools ==
  ASSUME PeerInv, PoolsInv, NEW c \in Conns, NEW d \in Databases, Connect(c, d)
  PROVE  PoolsInv'
<1>. DEFINE fresh == [NoPeer EXCEPT !.prev = 1, !.used = TRUE]
<1>1. peer[c] = NoPeer /\ NoPeer.used = FALSE /\ fresh.svcs = NoPeer.svcs /\ fresh.used = TRUE
  BY DEF Connect, PeerInv, NoPeer
<1>2. /\ links < MaxLinks /\ links' = links + 1
      /\ faults' = faults \/ (faults < MaxFaults /\ faults' = faults + 1)
      /\ \/ peer' = peer /\ pool' = pool
         \/ /\ pool.peer > 0 /\ pool' = [pool EXCEPT !.peer = @ - 1]
            /\ peer' = [peer EXCEPT ![c] = fresh]
  BY DEF Connect
<1>. HIDE DEF fresh
<1>3. /\ links \in 0 .. MaxLinks /\ faults \in 0 .. MaxFaults /\ MaxFaults \in Nat /\ MaxLinks \in Nat
      /\ pool \in [peer : Nat, svc : Nat, chr : Nat, dsc : Nat] /\ pool.peer \in Nat
      /\ IsFiniteSet(Users) /\ pool.peer + Cardinality(Users) = MaxPeers
      /\ Balance(pool.svc, SvcHeld, MaxSvcs) /\ Balance(pool.chr, ChrHeld, MaxChrs)
      /\ Balance(pool.dsc, DscHeld, MaxDscs)
  BY PeerAssumption DEF PoolsInv
<1>4. links' \in 0 .. MaxLinks /\ faults' \in 0 .. MaxFaults
  BY <1>2, <1>3
<1>5. CASE peer' = peer /\ pool' = pool
  <2>1. Users' = Users /\ SvcHeld' = SvcHeld /\ ChrHeld' = ChrHeld /\ DscHeld' = DscHeld
    BY <1>5 DEF Users, SvcHeld, ChrHeld, DscHeld
  <2>. QED BY <1>3, <1>4, <1>5, <2>1 DEF PoolsInv, Balance, Held
<1>6. CASE /\ pool.peer > 0 /\ pool' = [pool EXCEPT !.peer = @ - 1]
           /\ peer' = [peer EXCEPT ![c] = fresh]
  <2>1. peer'[c] = fresh /\ \A b \in Conns : b # c => peer'[b] = peer[b]
    BY <1>6 DEF PeerInv
  <2>2. Users' = Users \cup {c} /\ c \notin Users
    BY <1>1, <2>1 DEF Users
  <2>3. \A b \in Conns : peer'[b].svcs = peer[b].svcs
    BY <1>1, <2>1
  <2>4. SvcHeld' = SvcHeld /\ ChrHeld' = ChrHeld /\ DscHeld' = DscHeld
    <3>1. \A b \in Conns : /\ SvcBlocks(peer[b])' = SvcBlocks(peer[b])
                           /\ ChrBlocks(peer[b])' = ChrBlocks(peer[b])
                           /\ DscBlocks(peer[b])' = DscBlocks(peer[b])
      BY <2>3, SameBlocks
    <3>. QED BY <3>1 DEF SvcHeld, ChrHeld, DscHeld
  <2>5. IsFiniteSet(Users') /\ Cardinality(Users') = Cardinality(Users) + 1 /\ Cardinality(Users) \in Nat
    BY <1>3, <2>2, FS_AddElement, FS_CardinalityType
  <2>6. pool.peer - 1 \in Nat
    BY <1>3, <1>6
  <2>7. /\ pool' \in [peer : Nat, svc : Nat, chr : Nat, dsc : Nat] /\ pool'.peer = pool.peer - 1
        /\ pool'.svc = pool.svc /\ pool'.chr = pool.chr /\ pool'.dsc = pool.dsc
    BY <1>3, <1>6, <2>6
  <2>8. pool'.peer + Cardinality(Users') = MaxPeers
    BY <1>3, <2>5, <2>7
  <2>9. /\ Balance(pool.svc, SvcHeld, MaxSvcs)' /\ Balance(pool.chr, ChrHeld, MaxChrs)'
        /\ Balance(pool.dsc, DscHeld, MaxDscs)'
    BY <1>3, <2>4, <2>7 DEF Balance, Held
  <2>. QED BY <1>4, <2>5, <2>7, <2>8, <2>9 DEF PoolsInv
<1>. QED BY <1>2, <1>5, <1>6

\* peer_delete gives back all that the peer held.
LEMMA DisconnectPools ==
  ASSUME PeerInv, PoolsInv, NEW c \in Conns, Disconnect(c)
  PROVE  PoolsInv'
<1>. DEFINE p == peer[c]
            svc == pool.svc + Cardinality(SvcBlocks(p))
            chr == pool.chr + Cardinality(ChrBlocks(p))
            dsc == pool.dsc + Cardinality(DscBlocks(p))
            free == pool.peer + (IF p.used THEN 1 ELSE 0)
<1>1. /\ faults' = faults \/ (faults < MaxFaults /\ faults' = faults + 1)
      /\ links' = links /\ peer' = [peer EXCEPT ![c] = NoPeer]
      /\ pool' = [pool EXCEPT !.peer = free, !.svc = svc, !.chr = chr, !.dsc = dsc]
  BY DEF Disconnect, PeerDelete
<1>2. /\ links \in 0 .. MaxLinks /\ faults \in 0 .. MaxFaults /\ MaxFaults \in Nat
      /\ pool \in [peer : Nat, svc : Nat, chr : Nat, dsc : Nat] /\ pool.peer \in Nat
      /\ IsFiniteSet(Users) /\ pool.peer + Cardinality(Users) = MaxPeers
      /\ Balance(pool.svc, SvcHeld, MaxSvcs) /\ Balance(pool.chr, ChrHeld, MaxChrs)
      /\ Balance(pool.dsc, DscHeld, MaxDscs)
  BY PeerAssumption DEF PoolsInv
<1>3. faults' \in 0 .. MaxFaults
  BY <1>1, <1>2
<1>4. peer'[c] = NoPeer /\ \A b \in Conns : b # c => peer'[b] = peer[b]
  BY <1>1 DEF PeerInv
<1>5. SvcBlocks(NoPeer) = {} /\ ChrBlocks(NoPeer) = {} /\ DscBlocks(NoPeer) = {}
  <2>1. NoPeer.svcs = <<>> /\ DOMAIN <<>> = {}
    BY DEF NoPeer
  <2>2. SvcBlocks(NoPeer) = {} /\ ChrBlocks(NoPeer) = {}
    BY <2>1 DEF SvcBlocks, ChrBlocks
  <2>. QED BY <2>2 DEF DscBlocks
<1>6. /\ SvcHeld'[c] = {} /\ SvcHeld[c] = SvcBlocks(p) /\ \A b \in Conns : b # c => SvcHeld'[b] = SvcHeld[b]
      /\ ChrHeld'[c] = {} /\ ChrHeld[c] = ChrBlocks(p) /\ \A b \in Conns : b # c => ChrHeld'[b] = ChrHeld[b]
      /\ DscHeld'[c] = {} /\ DscHeld[c] = DscBlocks(p) /\ \A b \in Conns : b # c => DscHeld'[b] = DscHeld[b]
  BY <1>4, <1>5 DEF SvcHeld, ChrHeld, DscHeld
<1>7. Balance(svc, SvcHeld', MaxSvcs)
  BY <1>2, <1>6, BalanceFreed
<1>8. Balance(chr, ChrHeld', MaxChrs)
  BY <1>2, <1>6, BalanceFreed
<1>9. Balance(dsc, DscHeld', MaxDscs)
  BY SMTT(30), <1>2, <1>6, BalanceFreed
<1>10. IsFiniteSet(Users') /\ free \in Nat /\ free + Cardinality(Users') = MaxPeers
  <2>1. NoPeer.used = FALSE /\ p.used \in BOOLEAN
    BY DEF NoPeer, PeerInv, PeerType
  <2>2. Users' = Users \ {c} /\ (c \in Users <=> p.used)
    BY <1>4, <2>1 DEF Users
  <2>3. /\ IsFiniteSet(Users \ {c}) /\ Cardinality(Users) \in Nat
        /\ Cardinality(Users \ {c}) = IF c \in Users THEN Cardinality(Users) - 1 ELSE Cardinality(Users)
    BY <1>2, FS_RemoveElement, FS_CardinalityType
  <2>. QED BY <1>2, <2>1, <2>2, <2>3
<1>11. svc \in Nat /\ chr \in Nat /\ dsc \in Nat
  BY <1>7, <1>8, <1>9 DEF Balance
<1>. HIDE DEF svc, chr, dsc, free
<1>12. /\ pool' \in [peer : Nat, svc : Nat, chr : Nat, dsc : Nat]
       /\ pool'.peer = free /\ pool'.svc = svc /\ pool'.chr = chr /\ pool'.dsc = dsc
  BY <1>1, <1>2, <1>10, <1>11
<1>13. /\ Balance(pool.svc, SvcHeld, MaxSvcs)' /\ Balance(pool.chr, ChrHeld, MaxChrs)'
       /\ Balance(pool.dsc, DscHeld, MaxDscs)'
  BY <1>7, <1>8, <1>9, <1>12 DEF Balance, Held
<1>. QED BY <1>1, <1>2, <1>3, <1>10, <1>12, <1>13 DEF PoolsInv

LEMMA FailedPools ==
  ASSUME PeerInv, PoolsInv, NEW c \in Conns, Failed(c)
  PROVE  PoolsInv'
<1>1. /\ faults < MaxFaults /\ faults' = faults + 1 /\ pool' = pool /\ links' = links
      /\ peer' = [peer EXCEPT ![c] = [peer[c] EXCEPT !.prev = 0]]
  BY DEF Failed
<1>2. peer[c] \in PeerType
  BY DEF PeerInv
<1>3. \A b \in Conns : peer'[b].svcs = peer[b].svcs /\ peer'[b].used = peer[b].used
  BY <1>1, <1>2 DEF PeerInv, PeerType
<1>4. Users' = Users
  BY <1>3 DEF Users
<1>5. SvcHeld' = SvcHeld /\ ChrHeld' = ChrHeld /\ DscHeld' = DscHeld
  <2>1. \A b \in Conns : /\ SvcBlocks(peer[b])' = SvcBlocks(peer[b])
                         /\ ChrBlocks(peer[b])' = ChrBlocks(peer[b])
                         /\ DscBlocks(peer[b])' = DscBlocks(peer[b])
    BY <1>3, SameBlocks
  <2>. QED BY <2>1 DEF SvcHeld, ChrHeld, DscHeld
<1>6. faults' \in 0 .. MaxFaults
  BY <1>1, PeerAssumption DEF PoolsInv
<1>. QED BY <1>1, <1>4, <1>5, <1>6 DEF PoolsInv, Balance, Held

\* The free blocks of the pools and those in the lists are at every moment the blocks that
\* peer_init made: a block linked into a list is never dropped from it.
THEOREM NoBlockLost == Spec => []PoolsConserved
<1>1. Init => PoolsInv
  <2>. SUFFICES ASSUME Init PROVE PoolsInv
    OBVIOUS
  <2>1. /\ pool = [peer |-> MaxPeers, svc |-> MaxSvcs, chr |-> MaxChrs, dsc |-> MaxDscs]
        /\ links = 0 /\ faults = 0 /\ \A c \in Conns : peer[c] = NoPeer
    BY DEF Init
  <2>2. {MaxPeers, MaxSvcs, MaxChrs, MaxDscs, MaxLinks, MaxFaults} \subseteq Nat
    BY PeerAssumption
  <2>3. NoPeer.svcs = <<>> /\ NoPeer.used = FALSE
    BY DEF NoPeer
  <2>4. \A c \in Conns : SvcBlocks(peer[c]) = {} /\ ChrBlocks(peer[c]) = {} /\ DscBlocks(peer[c]) = {}
    BY <2>1, <2>3 DEF SvcBlocks, ChrBlocks, DscBlocks
  <2>5. Held(SvcHeld) = {} /\ Held(ChrHeld) = {} /\ Held(DscHeld) = {} /\ Users = {}
    BY <2>1, <2>3, <2>4 DEF Held, SvcHeld, ChrHeld, DscHeld, Users
  <2>6. IsFiniteSet({}) /\ Cardinality({}) = 0
    BY FS_EmptySet
  <2>. QED BY <2>1, <2>2, <2>5, <2>6 DEF PoolsInv, Balance
<1>2. PeerInv /\ WholeInv /\ PoolsInv /\ [Next]_vars => PoolsInv'
  <2>. SUFFICES ASSUME PeerInv, WholeInv, PoolsInv, [Next]_vars PROVE PoolsInv'
    OBVIOUS
  <2>1. CASE Next
    <3>1. PICK c \in Conns : (\E d \in Databases : Connect(c, d)) \/ Disconnect(c) \/ Failed(c) \/ Answer(c)
      BY <2>1 DEF Next
    <3>. QED BY <3>1, ConnectPools, DisconnectPools, FailedPools, AnswerPools
  <2>2. CASE UNCHANGED vars
    <3>1. peer' = peer /\ pool' = pool /\ links' = links /\ faults' = faults
      BY <2>2 DEF vars
    <3>2. Users' = Users /\ SvcHeld' = SvcHeld /\ ChrHeld' = ChrHeld /\ DscHeld' = DscHeld
      BY <3>1 DEF Users, SvcHeld, ChrHeld, DscHeld
    <3>. QED BY <3>1, <3>2 DEF PoolsInv, Balance, Held
  <2>. QED BY <2>1, <2>2
<1>3. PeerInv /\ PoolsInv => PoolsConserved
  <2>. SUFFICES ASSUME PeerInv, PoolsInv PROVE PoolsConserved
    OBVIOUS
  <2>1. /\ pool \in [peer : Nat, svc : Nat, chr : Nat, dsc : Nat]
        /\ IsFiniteSet(Users) /\ pool.peer + Cardinality(Users) = MaxPeers
        /\ Balance(pool.svc, SvcHeld, MaxSvcs) /\ Balance(pool.chr, ChrHeld, MaxChrs)
        /\ Balance(pool.dsc, DscHeld, MaxDscs)
    BY DEF PoolsInv
  <2>2. /\ Held(SvcHeld) = UNION {{c} \X SvcBlocks(peer[c]) : c \in Conns}
        /\ Held(ChrHeld) = UNION {{c} \X ChrBlocks(peer[c]) : c \in Conns}
        /\ Held(DscHeld) = UNION {{c} \X DscBlocks(peer[c]) : c \in Conns}
    BY DEF Held, SvcHeld, ChrHeld, DscHeld
  <2>3. /\ pool.peer + Cardinality({c \in Conns : peer[c].used}) = MaxPeers
        /\ pool.svc + Allocated(SvcBlocks) = MaxSvcs
        /\ pool.chr + Allocated(ChrBlocks) = MaxChrs
        /\ pool.dsc + Allocated(DscBlocks) = MaxDscs
    BY <2>1, <2>2 DEF Balance, Allocated, Users
  <2>4. /\ Cardinality(Users) \in Nat /\ Cardinality(Held(SvcHeld)) \in Nat
        /\ Cardinality(Held(ChrHeld)) \in Nat /\ Cardinality(Held(DscHeld)) \in Nat
    BY <2>1, FS_CardinalityType DEF Balance
  <2>5. /\ pool.peer \in 0 .. MaxPeers /\ pool.svc \in 0 .. MaxSvcs
        /\ pool.chr \in 0 .. MaxChrs /\ pool.dsc \in 0 .. MaxDscs
    <3>1. pool.peer \in Nat /\ pool.svc \in Nat /\ pool.chr \in Nat /\ pool.dsc \in Nat
      BY <2>1
    <3>2. {MaxPeers, MaxSvcs, MaxChrs, MaxDscs} \subseteq Nat
      BY PeerAssumption
    <3>. QED BY <2>1, <2>4, <3>1, <3>2 DEF Balance
  <2>6. pool \in [peer : 0 .. MaxPeers, svc : 0 .. MaxSvcs, chr : 0 .. MaxChrs, dsc : 0 .. MaxDscs]
    BY <2>1, <2>5
  <2>7. TypeOK
    BY <2>6 DEF TypeOK, PeerInv, PoolsInv, PeerType, ProcType
  <2>. QED BY <2>3, <2>7 DEF PoolsConserved
<1>. QED BY <1>1, <1>2, <1>3, FoundSoFar, PTL DEF Spec

=============================================================================
