-------------------------- MODULE MCBimanualLeader --------------------------
(***************************************************************************)
(* Instances of the leader for TLC.                                        *)
(***************************************************************************)
EXTENDS BimanualLeader

\* Everything the operator may ask for.
AllCommands == {"bilateral_enable", "bilateral_disable", "enable", "disable",
                "estop", "shutdown", "init_position", "goto_pose"}
=============================================================================
