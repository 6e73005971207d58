----------------------------- MODULE MCSsmTable -----------------------------
(* A lock, a touch and an unsupported product for TLC's instances of SsmTable.      *)
EXTENDS SsmTable

CONSTANTS lockA, touch, camera

MCProductType ==
  [d \in Device |-> CASE d = touch -> "SESAME_TOUCH" [] d = camera -> "unsupported"
                      [] OTHER -> "SESAME_5"]
=============================================================================
