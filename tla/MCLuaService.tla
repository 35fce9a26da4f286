---------------------------- MODULE MCLuaService ----------------------------
(* A client with tasks that sleep, wake each other and call inside a critical     *)
(* section, and a server that answers, forks, fails and exits; the same client    *)
(* with a server that answers with closures and forks, and with one that sleeps   *)
(* and exits.                                                                    *)
EXTENDS LuaService
CONSTANTS A, B
ClientAndServer ==
    [s \in Services |-> IF s = A THEN {"call", "sleep", "wakeup", "fork", "section"}
                        ELSE {"ret", "response", "raise", "exit", "fork"}]
ClientAndForks ==
    [s \in Services |-> IF s = A THEN {"call", "fork"} ELSE {"ret", "response", "sleep", "fork"}]
ClientAndExit ==
    [s \in Services |-> IF s = A THEN {"call", "fork"} ELSE {"ret", "sleep", "exit"}]
ClientCalls == [s \in Services |-> IF s = A THEN {B} ELSE {}]
FewOps == [s \in Services |-> IF s = A THEN 6 ELSE 1]
FewForks == [s \in Services |-> IF s = A THEN 3 ELSE 2]
ManyCalls == [s \in Services |-> IF s = A THEN 5 ELSE 1]
FewCalls == [s \in Services |-> IF s = A THEN 3 ELSE 0]
Missing(ops, calls) == [s \in Services |-> IF s = A THEN [ops |-> ops, calls |-> calls] ELSE [ops |-> 0, calls |-> 0]]
Nothing == {Missing(0, 0)}
\* The client makes four operations with any of them calls, or six without calls
CallsOrOps == {Missing(2, 0), Missing(0, 3)}
=============================================================================
