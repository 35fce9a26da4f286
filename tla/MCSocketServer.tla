--------------------------- MODULE MCSocketServer ---------------------------
(* A server that listens for a third service in one of two slots, and has a      *)
(* connection in the other: that slot is used for one connection after another.  *)
EXTENDS SocketServer

Listening ==
    /\ slot = [x \in Slots |->
         [type |-> IF x = 1 THEN "LISTEN" ELSE "CONNECTED", id |-> IF x = 1 THEN 1 ELSE 2, tcp |-> TRUE,
          high |-> <<>>, low |-> <<>>, wbSize |-> 0, tag |-> IF x = 1 THEN Tag(1) ELSE Tag(2),
          sending |-> 0, dw |-> <<>>, lock |-> None, write |-> FALSE]]
    /\ allocId = 2 /\ pipe = <<>> /\ thread = Polling /\ events = {} /\ checkctrl = "yes"
    /\ user = [u \in Users |-> Idle]
    /\ wire = [id \in Ids |-> <<>>] /\ inbox = {} /\ gone = {}
    /\ told = [id \in Ids |-> IF id \in {1, 2} THEN "open" ELSE "none"]
    /\ known = [u \in Users |-> {2}]
    /\ sends = 0 /\ calls = 0 /\ aborted = FALSE /\ clobbered = FALSE

MCSpec == Listening /\ [][Next]_vars /\ Fairness
=============================================================================
