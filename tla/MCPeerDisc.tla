----------------------------- MODULE MCPeerDisc -----------------------------
(* Databases for TLC's instances of PeerDisc.                              *)
EXTENDS PeerDisc

Chr(def, uuid) == [def |-> def, val |-> def + 1, uuid |-> uuid]
Svc(start, end, uuid) == [start |-> start, end |-> end, uuid |-> uuid]
Dsc(handle, uuid) == [handle |-> handle, uuid |-> uuid]

\* Another CCCD before the one looked for; the write characteristic first.
WriteFirst ==
  [svcs |-> {Svc(1, 4, "attribute"), Svc(5, 10, "ssm")},
   chrs |-> {Chr(2, "changed"), Chr(6, "write"), Chr(8, "notify")},
   dscs |-> {Dsc(4, "cccd"), Dsc(10, "cccd")}]

\* The notification characteristic first, with two descriptors, and an empty service.
NotifyFirst ==
  [svcs |-> {Svc(1, 7, "ssm"), Svc(8, 8, "empty")},
   chrs |-> {Chr(2, "notify"), Chr(6, "write")},
   dscs |-> {Dsc(4, "description"), Dsc(5, "cccd")}]

\* No CCCD, and two services without characteristics.
Silent ==
  [svcs |-> {Svc(1, 3, "ssm"), Svc(4, 4, "empty"), Svc(5, 5, "empty")}, chrs |-> {Chr(2, "notify")}, dscs |-> {}]

\* A service that holds an include declaration and no characteristic.
Including ==
  [svcs |-> {Svc(1, 2, "including"), Svc(3, 8, "ssm")},
   chrs |-> {Chr(4, "write"), Chr(6, "notify")}, dscs |-> {Dsc(8, "cccd")}]

Regular == {WriteFirst, NotifyFirst, Silent}
Extended == {WriteFirst, Including}
=============================================================================
