-------------------------- MODULE MCSkynetDispatch --------------------------
(* Small instances of SkynetDispatch for TLC. *)
EXTENDS SkynetDispatch, TLC

CONSTANTS w1, w2, o1, s1, s2, s3

\* the first worker has weight -1 (one message a turn), the others weight 0
\* (the whole queue), as at both ends of the table in skynet_start.c
ShareDef == [w \in Worker |-> IF w = w1 THEN 0 ELSE 1]

BootOne == <<s1>>
BootTwo == <<s1, s2>>

=============================================================================
