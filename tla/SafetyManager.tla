--------------------------- MODULE SafetyManager ---------------------------
(***************************************************************************)
(* The per-arm safety state machine of the followers (SafetyManager and    *)
(* the Watchdog it builds on every update), as operators on one manager    *)
(* object.  Every method of the class runs under its mutex, so a method is *)
(* one step of whichever thread calls it; the threads are in the modules   *)
(* that use this one.                                                      *)
(*                                                                         *)
(* A packet is what update() reads of a TeleopPacket: its enable and estop *)
(* bytes.  Time is counted in abstract ticks; a gap of DisableAge or more  *)
(* is represented by DisableAge, because check() tells no two such gaps    *)
(* apart.                                                                  *)
(***************************************************************************)
EXTENDS Naturals

CONSTANTS
    RequireEnable,   \* SafetyConfig::require_enable
    WarningAge,      \* watchdog_warning_ms, in ticks
    HoldAge,         \* watchdog_hold_ms, in ticks
    DisableAge       \* watchdog_disable_ms, in ticks

(***************************************************************************)
(* Nothing in the code orders the three thresholds (the command line sets  *)
(* two of them freely), so nothing is assumed of their order.  DisableAge  *)
(* is positive: a zero threshold would disable on every packet.            *)
(***************************************************************************)
ASSUME SafetyAssumption ==
    /\ RequireEnable \in BOOLEAN
    /\ WarningAge \in Nat
    /\ HoldAge \in Nat
    /\ DisableAge \in Nat \ {0}

Packet == [enable : BOOLEAN, estop : BOOLEAN]

\* An uninitialised local TeleopPacket: its fields are zero and never read.
NoPacket == [enable |-> FALSE, estop |-> FALSE]

Age == 0 .. DisableAge

SafetyState == {"DISABLED", "WAITING_FOR_ENABLE", "READY", "ACTIVE",
                "WARNING_TIMEOUT", "HOLD", "FAULT", "ESTOP"}

\* state_ and estop_triggered_.
Manager == [state : SafetyState, estop : BOOLEAN]

----------------------------------------------------------------------------
\* Mutant: the hold threshold is compared as if it were the disable threshold.
WatchdogCheck_NoDisable(gap) ==
    IF gap >= HoldAge THEN "HOLD"
    ELSE IF gap >= WarningAge THEN "WARNING"
    ELSE "OK"

\* Watchdog::check
WatchdogCheck(gap) ==
    IF gap >= DisableAge THEN "DISABLE"
    ELSE IF gap >= HoldAge THEN "HOLD"
    ELSE IF gap >= WarningAge THEN "WARNING"
    ELSE "OK"

\* The state a watchdog status leads to once the arm may move.
LiveState(wd) ==
    CASE wd = "HOLD"    -> "HOLD"
      [] wd = "WARNING" -> "WARNING_TIMEOUT"
      [] OTHER          -> "ACTIVE"

\* The states the last block of update() moves between.
LiveStates == {"READY", "ACTIVE", "WARNING_TIMEOUT", "HOLD"}

RestState == IF RequireEnable THEN "WAITING_FOR_ENABLE" ELSE "READY"

\* SafetyManager::SafetyManager
NewManager == [state |-> RestState, estop |-> FALSE]

\* Mutant: a software stop is noticed only while the packet repeats it.
SafetyUpdate_EstopNotLatched(m, pkt, gap) ==
    [m EXCEPT !.state =
        IF pkt.estop THEN "ESTOP"
        ELSE IF RequireEnable /\ ~pkt.enable THEN "WAITING_FOR_ENABLE"
        ELSE IF WatchdogCheck(gap) = "DISABLE" THEN "FAULT"
        ELSE LiveState(WatchdogCheck(gap))]

\* Mutant: a faulted arm goes live again as soon as packets are fresh.
SafetyUpdate_FaultNotLatched(m, pkt, gap) ==
    [m EXCEPT !.state =
        IF m.estop \/ pkt.estop THEN "ESTOP"
        ELSE IF RequireEnable /\ ~pkt.enable THEN "WAITING_FOR_ENABLE"
        ELSE IF WatchdogCheck(gap) = "DISABLE" THEN "FAULT"
        ELSE LiveState(WatchdogCheck(gap))]

\* Mutant: the enable byte is looked at only when the arm is first enabled.
SafetyUpdate_EnableOnce(m, pkt, gap) ==
    [m EXCEPT !.state =
        IF m.estop \/ pkt.estop THEN "ESTOP"
        ELSE IF WatchdogCheck(gap) = "DISABLE" THEN "FAULT"
        ELSE IF m.state \in LiveStates \/ pkt.enable
             THEN LiveState(WatchdogCheck(gap))
        ELSE m.state]

(***************************************************************************)
(* SafetyManager::update.  The order of the tests is the code's: a stop    *)
(* wins over everything, DISABLED is absorbing, a cleared enable byte      *)
(* returns to WAITING_FOR_ENABLE (from FAULT, and from an ESTOP that only  *)
(* a packet caused, as well), and WAITING_FOR_ENABLE passes through READY  *)
(* within one call.                                                        *)
(***************************************************************************)
SafetyUpdate(m, pkt, gap) ==
    LET wd == WatchdogCheck(gap)
        enabled == m.state = "WAITING_FOR_ENABLE" /\ pkt.enable
    IN  [m EXCEPT !.state =
            IF m.estop \/ pkt.estop THEN "ESTOP"
            ELSE IF m.state = "DISABLED" THEN "DISABLED"
            ELSE IF RequireEnable /\ ~pkt.enable THEN "WAITING_FOR_ENABLE"
            ELSE IF wd = "DISABLE" THEN "FAULT"
            ELSE IF enabled \/ m.state \in LiveStates THEN LiveState(wd)
            ELSE m.state]

\* SafetyManager::trigger_estop
TriggerEstop(m) == [state |-> "ESTOP", estop |-> TRUE]

\* SafetyManager::reset
ResetSafety(m) == NewManager

\* What a state means for the arm, in the terms of DeadMan.
ModeOf(state) ==
    CASE state \in {"WAITING_FOR_ENABLE", "READY"} -> "rest"
      [] state \in {"ACTIVE", "WARNING_TIMEOUT", "HOLD"} -> "live"
      [] state = "ESTOP" -> "stopped"
      [] OTHER -> "fault"
=============================================================================
