------------------------- MODULE MCBimanualFollower -------------------------
(***************************************************************************)
(* Instances of the follower for TLC.                                      *)
(***************************************************************************)
EXTENDS BimanualFollower

\* What the code distinguishes: estop wins over enable, so a packet with
\* both set behaves like one with estop alone.
EnablePacket == [enable |-> TRUE, estop |-> FALSE]
DisablePacket == [enable |-> FALSE, estop |-> FALSE]
EstopPacket == [enable |-> FALSE, estop |-> TRUE]

AllPackets == {EnablePacket, DisablePacket, EstopPacket}

\* A leader that keeps its deadman pressed.
EnablePackets == {EnablePacket}
=============================================================================
