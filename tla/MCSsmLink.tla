----------------------------- MODULE MCSsmLink ------------------------------
(* Commands and publications for TLC's instances of SsmLink.               *)
EXTENDS SsmLink

\* Sizes are scaled down, and what is exact in the program is exact here: the answer to
\* a registration fills b_buf (2 + 14 + 64 = 80 bytes, here 2 + 2 + 8 = 12), a command
\* with its tag is one full segment or spills into a second one, and the shortest has one
\* byte.
Lock == <<Item("LOCK"), <<"length", 1>>, <<"tag", 1>>>>
LockCommand == [head |-> SubSeq(Lock, 1, 2), rest |-> SubSeq(Lock, 3, 3)]
Magnet == [head |-> <<Item("MAGNET")>>, rest |-> <<>>]
Scaled == {LockCommand, Magnet}
Added == <<Item("ADD_SESAME"), <<"uuid", 1>>, <<"uuid", 2>>, <<"secret", 1>>, <<"secret", 2>>>>

Status == <<Op("PUBLISH"), Item("MECH_STATUS"), Unlocked>>
List == <<Op("PUBLISH"), Item("SSM2_LIST"), <<"entry", 1>>, <<"entry", 2>>>>
History == <<Op("RESPONSE"), Item("HISTORY"), <<"entry", 1>>>>
ScaledNews == {Status, List, History}
=============================================================================
