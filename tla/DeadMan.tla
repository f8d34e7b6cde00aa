------------------------------ MODULE DeadMan ------------------------------
(***************************************************************************)
(* What the safety layer of a follower promises, without its mechanism:    *)
(* each arm is at rest, live, faulted or stopped.  An arm becomes live     *)
(* only from rest.  A fault or a stop can come at any time and is left     *)
(* only to rest (or to the other of the two), never straight back to live. *)
(* One step changes one arm.                                               *)
(***************************************************************************)
EXTENDS Naturals

CONSTANT Arms

VARIABLE mode

Modes == {"rest", "live", "fault", "stopped"}

Engage(a) == /\ mode[a] = "rest"
             /\ mode' = [mode EXCEPT ![a] = "live"]

Release(a) == mode' = [mode EXCEPT ![a] = "rest"]

Trip(a) == mode' = [mode EXCEPT ![a] = "fault"]

Stop(a) == mode' = [mode EXCEPT ![a] = "stopped"]

Init == mode = [a \in Arms |-> "rest"]

Next == \E a \in Arms : Engage(a) \/ Release(a) \/ Trip(a) \/ Stop(a)

Spec == Init /\ [][Next]_mode
=============================================================================
