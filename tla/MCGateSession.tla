---------------------------- MODULE MCGateSession ----------------------------
(* The clients but one have opened their websockets when the instance begins, so   *)
(* that the bounds are spent on logins, clean-up and closes; the newcomer comes,    *)
(* or is refused, while they go on.                                               *)
EXTENDS GateSession

CONSTANT Newcomer

\* A state the gate is in after the others have come and shaken hands
OthersConnected ==
    LET here == Clients \ {Newcomer} IN
    /\ socket = [c \in Clients |-> IF c \in here THEN "open" ELSE "new"]
    /\ closing = {} /\ sends = 0 /\ events = [c \in Clients |-> <<>>]
    /\ connection = [c \in Clients |-> IF c \in here THEN "ready" ELSE "none"]
    /\ clientNumber = Cardinality(here)
    /\ session = here /\ roleId = [c \in Clients |-> None] /\ idle = [c \in Clients |-> 0]
    /\ login = [l \in Logins |-> NoLogin] /\ crossed = {}
    /\ cleaner = "asleep" /\ kickplayer = {}

MCSpec == OthersConnected /\ [][Next]_vars /\ Fairness
=============================================================================
