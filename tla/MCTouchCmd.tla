----------------------------- MODULE MCTouchCmd -----------------------------
(* The commands for TLC's instances of TouchCmd: all of them, and one of   *)
(* each kind where the two tasks meet every fault.                         *)
EXTENDS TouchCmd

MCCommands == Writing \cup {"disconnect_touch", "reconnect_touch", "battery_update"}

MCOneOfEach == {"add_sesame", "add_finger", "verify_finger", "disconnect_touch",
                "reconnect_touch", "battery_update"}
=============================================================================
