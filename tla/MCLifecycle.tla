---------------------------- MODULE MCLifecycle -----------------------------
(***************************************************************************)
(* ProcessLifecycle with what its clients send: for the run of every       *)
(* program, one client that stops the arms and one that starts a recovery  *)
(* or shuts the program down; for the run about SIGINT, one client that    *)
(* may send every command that calls the safety managers.                  *)
(***************************************************************************)
EXTENDS ProcessLifecycle

CONSTANTS c1, c2

StopAndRecover ==
    [c \in Clients |-> IF c = c1 THEN {"estop"} ELSE {"recover_estop", "shutdown"}]

StopAndReset == [c \in Clients |-> {"estop", "reset_safety", "shutdown"}]
=============================================================================
