--------------------------- MODULE MCMessageQueue ---------------------------
(* A queue of two slots that can grow to eight. *)
EXTENDS MessageQueue, TLC

CONSTANTS m1, m2

=============================================================================
