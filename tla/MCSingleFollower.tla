-------------------------- MODULE MCSingleFollower --------------------------
(***************************************************************************)
(* Instances of the one-arm follower for TLC.                              *)
(***************************************************************************)
EXTENDS SingleFollower

EnablePacket == [enable |-> TRUE, estop |-> FALSE]
DisablePacket == [enable |-> FALSE, estop |-> FALSE]
EstopPacket == [enable |-> FALSE, estop |-> TRUE]

AllPackets == {EnablePacket, DisablePacket, EstopPacket}

\* The ends of the joint's range, from a leader with the same joints and
\* from one with other joints.
AllGoals == [pos : {0, 3}, fits : {TRUE}] \cup [pos : {3}, fits : {FALSE}]

AllPositions == 0 .. 3
=============================================================================
