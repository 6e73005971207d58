------------------------------ MODULE Registry ------------------------------
(***************************************************************************)
(* What the slot table of the gateway promises to the rest of the program: *)
(* a list of the controllable devices in the order they were found.  A     *)
(* device is appended once, keeps its position, and only a reboot of the   *)
(* ESP32 empties the list.                                                 *)
(***************************************************************************)
EXTENDS Sequences, Naturals

CONSTANT Device

VARIABLE known      \* the addresses in slots 0, 1, ..., cnt_ssms - 1

IsKnown(d) == \E i \in 1 .. Len(known) : known[i] = d

Init == known = <<>>

Add(d) == ~IsKnown(d) /\ known' = Append(known, d)

Reboot == known' = <<>>

Next == Reboot \/ \E d \in Device : Add(d)

Spec == Init /\ [][Next]_known
=============================================================================
