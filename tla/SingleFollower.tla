--------------------------- MODULE SingleFollower ---------------------------
(***************************************************************************)
(* The one-arm follower (wifi_single_follower): a UDP receiver thread, the *)
(* main loop and the SIGINT handler.  It has no runtime control and no     *)
(* moves, but it reads the clock and the time of the last packet in two    *)
(* steps and subtracts them as unsigned integers, so this module keeps     *)
(* both times.  It also keeps the reference of one joint, which the rate   *)
(* limiter leads to the position the packets ask for.                      *)
(***************************************************************************)
EXTENDS SafetyManager, Integers

CONSTANTS
    Packets,    \* the packets a sender may send
    Goals,      \* what they may ask of the joint
    MaxDelta,   \* max_target_delta_rad_per_cycle
    MaxStep,    \* max_joint_velocity_rad_s times the control period
    Positions,  \* the positions of the joint
    TimeSpace,  \* number of values of the uint64_t clock
    MaxTime     \* bound: ticks in a behaviour

ASSUME SingleAssumption ==
    /\ Packets \subseteq Packet
    /\ Positions \subseteq Int
    /\ Goals \subseteq [pos : Positions, fits : BOOLEAN]
    /\ MaxDelta \in Nat /\ MaxStep \in Nat
    /\ MaxTime \in Nat
    /\ TimeSpace \in Nat /\ TimeSpace > MaxTime + DisableAge

\* A joint can be in any position between two others.
ASSUME RangeAssumption == \A p, q \in Positions : p .. q \subseteq Positions

VARIABLES
    clock,    \* utils::now_ns()
    buf,      \* state_buffer: has_data_, latest_packet_, last_receive_time_ns_
    safety,   \* safety_mgr
    motors,   \* are the motors enabled?
    running,  \* keep_running
    phase,    \* where the main thread is
    target,   \* locals has_target and target_packet
    now,      \* local now_ns
    gap,      \* local gap_ms
    st,       \* local current_state
    ref,      \* the joint's reference in follower_state
    signal,   \* progress of the signal handler
    silence,  \* history: the longest time without a packet so far
    raced     \* history: did a packet arrive between the reads of the times?

vars == <<clock, buf, safety, motors, running, phase, target, now, gap, st,
          ref, signal, silence, raced>>

Time == 0 .. MaxTime

Phases == {"head", "get", "now", "gap", "state", "motor", "stop", "disable",
           "done"}

TrackStates == {"ACTIVE", "READY", "WARNING_TIMEOUT"}
CommandStates == TrackStates \cup {"HOLD"}
StopStates == {"ESTOP", "FAULT", "DISABLED"}

\* What a packet asks of the joint, and whether it has as many joints as the
\* follower.
Goal == [pos : Positions, fits : BOOLEAN]

NoGoal == CHOOSE g \in Goal : TRUE
NoTarget == [has |-> FALSE, pkt |-> NoPacket, goal |-> NoGoal]

TypeOK ==
    /\ clock \in Time
    /\ buf \in [has : BOOLEAN, pkt : Packet, goal : Goal, at : Time]
    /\ safety \in Manager
    /\ motors \in BOOLEAN
    /\ running \in BOOLEAN
    /\ phase \in Phases
    /\ target \in [has : BOOLEAN, pkt : Packet, goal : Goal]
    /\ now \in Time
    /\ gap \in 0 .. TimeSpace - 1
    /\ st \in SafetyState
    /\ ref \in Positions
    /\ signal \in 0 .. 2
    /\ silence \in Time
    /\ raced \in BOOLEAN

Init ==
    /\ clock = 0
    /\ buf = [has |-> FALSE, pkt |-> NoPacket, goal |-> NoGoal, at |-> 0]
    /\ safety = NewManager
    /\ motors = TRUE
    /\ running = TRUE
    /\ phase = "head"
    /\ target = NoTarget
    /\ now = 0
    /\ gap = 0
    /\ st = RestState
    /\ ref \in Positions
    /\ signal = 0
    /\ silence = 0
    /\ raced = FALSE

----------------------------------------------------------------------------
(* The clock, the receiver thread and the signal handler.                  *)

Tick ==
    /\ clock < MaxTime
    /\ phase # "done"
    /\ clock' = clock + 1
    /\ silence' = IF buf.has /\ clock' - buf.at > silence
                  THEN clock' - buf.at ELSE silence
    /\ UNCHANGED <<buf, safety, motors, running, phase, target, now, gap,
                   st, ref, signal, raced>>

\* packet_callback: TeleopStateBuffer::update
Receive ==
    /\ phase \notin {"disable", "done"}
    /\ \E pkt \in Packets, goal \in Goals :
           buf' = [has |-> TRUE, pkt |-> pkt, goal |-> goal, at |-> clock]
    /\ UNCHANGED <<clock, safety, motors, running, phase, target, now, gap,
                   st, ref, signal, silence, raced>>

\* signal_handler: trigger_estop(), then keep_running = false.
SignalEstop ==
    /\ phase # "done"
    /\ signal = 0
    /\ signal' = 1
    /\ safety' = TriggerEstop(safety)
    /\ UNCHANGED <<clock, buf, motors, running, phase, target, now, gap, st,
                   ref, silence, raced>>

SignalEnds ==
    /\ phase # "done"
    /\ signal = 1
    /\ signal' = 2
    /\ running' = FALSE
    /\ UNCHANGED <<clock, buf, safety, motors, phase, target, now, gap, st,
                   ref, silence, raced>>

----------------------------------------------------------------------------
(* The main loop.                                                          *)

LoopHead ==
    /\ phase = "head"
    /\ phase' = IF running THEN "get" ELSE "stop"
    /\ UNCHANGED <<clock, buf, safety, motors, running, target, now, gap,
                   st, ref, signal, silence, raced>>

\* state_buffer.get_latest(target_packet)
GetLatest ==
    /\ phase = "get"
    /\ target' = IF buf.has
                 THEN [has |-> TRUE, pkt |-> buf.pkt, goal |-> buf.goal]
                 ELSE NoTarget
    /\ phase' = IF buf.has THEN "now" ELSE "state"
    /\ UNCHANGED <<clock, buf, safety, motors, running, now, gap, st, ref,
                   signal, silence, raced>>

\* now_ns = utils::now_ns()
ReadClock ==
    /\ phase = "now"
    /\ now' = clock
    /\ phase' = "gap"
    /\ UNCHANGED <<clock, buf, safety, motors, running, target, gap, st,
                   ref, signal, silence, raced>>

\* Mutant: the difference is signed.
Gap_Signed == now - buf.at

\* Mutant: the operands are swapped.
Gap_Swapped == (buf.at - now) % TimeSpace

\* Mutant: the difference is kept in too narrow an integer.
Gap_Narrow == (now - buf.at) % (DisableAge + 1)

\* now_ns - last_rx on uint64_t
Gap == (now - buf.at) % TimeSpace

\* The gap and SafetyManager::update.
UpdateSafety ==
    /\ phase = "gap"
    /\ gap' = Gap
    /\ safety' = SafetyUpdate(safety, target.pkt, gap')
    /\ raced' = (raced \/ buf.at > now)
    /\ phase' = "state"
    /\ UNCHANGED <<clock, buf, motors, running, target, now, st, ref,
                   signal, silence>>

\* SafetyManager::get_state
ReadState ==
    /\ phase = "state"
    /\ st' = safety.state
    /\ phase' = "motor"
    /\ UNCHANGED <<clock, buf, safety, motors, running, target, now, gap,
                   ref, signal, silence, raced>>

\* Mutant: the looser of the two limits applies.
EffectiveMaxDelta_Looser == IF MaxDelta > MaxStep THEN MaxDelta ELSE MaxStep

EffectiveMaxDelta == IF MaxDelta < MaxStep THEN MaxDelta ELSE MaxStep

\* RateLimiter::limit, which leaves a target with another number of joints
\* alone.
Limit(current, goal) ==
    LET delta == goal.pos - current
    IN  IF ~goal.fits THEN goal.pos
        ELSE IF delta > EffectiveMaxDelta THEN current + EffectiveMaxDelta
        ELSE IF delta < -EffectiveMaxDelta THEN current - EffectiveMaxDelta
        ELSE goal.pos

\* A tracking state moves the reference towards the target; unilateral_step
\* follows in the commanding states, disable_all in the stop states.  Then
\* the locals of the cycle go out of scope.
MotorStep ==
    /\ phase = "motor"
    /\ ref' = IF st \in TrackStates /\ target.has THEN Limit(ref, target.goal) ELSE ref
    /\ motors' = (motors /\ st \notin StopStates)
    /\ target' = NoTarget /\ now' = 0 /\ gap' = 0 /\ st' = RestState
    /\ phase' = "head"
    /\ UNCHANGED <<clock, buf, safety, running, signal, silence, raced>>

\* receiver.stop()
StopReceiver ==
    /\ phase = "stop"
    /\ phase' = "disable"
    /\ UNCHANGED <<clock, buf, safety, motors, running, target, now, gap,
                   st, ref, signal, silence, raced>>

DisableAll ==
    /\ phase = "disable"
    /\ motors' = FALSE
    /\ phase' = "done"
    /\ UNCHANGED <<clock, buf, safety, running, target, now, gap, st, ref,
                   signal, silence, raced>>

MainLoop ==
    \/ LoopHead
    \/ GetLatest
    \/ ReadClock
    \/ UpdateSafety
    \/ ReadState
    \/ MotorStep
    \/ StopReceiver
    \/ DisableAll

Terminated == phase = "done" /\ UNCHANGED vars

Next == Tick \/ Receive \/ SignalEstop \/ SignalEnds \/ MainLoop \/ Terminated

Spec == Init /\ [][Next]_vars

----------------------------------------------------------------------------
(* Properties.                                                             *)

(***************************************************************************)
(* A command goes out only on an enabling packet of this cycle, and only   *)
(* if at the time the loop took as its now a packet younger than the       *)
(* disable threshold had been received: the unsigned subtraction of two    *)
(* times read in two steps errs on the side of a fault, never of a command *)
(* (lines 121-136 of the follower).                                        *)
(***************************************************************************)
CommandsAreFresh ==
    RequireEnable /\ phase = "motor" /\ st \in CommandStates =>
        /\ target.has
        /\ target.pkt.enable
        /\ ~target.pkt.estop
        /\ now < buf.at + DisableAge

(***************************************************************************)
(* FAULT needs a link that was silent for the disable threshold, or a      *)
(* packet that arrived between the reads of the clock and of its receive   *)
(* time: then the unsigned difference wraps (lines 127-129).  The second   *)
(* case contradicts docs/testing.md, which expects no FAULT while packets  *)
(* arrive; nothing else leads to it.                                       *)
(***************************************************************************)
FaultNeedsSilenceOrRace ==
    safety.state = "FAULT" => raced \/ silence >= DisableAge

(***************************************************************************)
(* The reference moves by no more than either limit in a cycle and never   *)
(* past the target, whatever states, timeouts and targets came in between, *)
(* as long as packets have the follower's number of joints: a pause in the *)
(* packets does not store up a jump (lines 137-164).                       *)
(***************************************************************************)
ReferenceNeverJumps ==
    [][ref' # ref /\ target.goal.fits =>
           /\ ref' - ref \in -MaxDelta .. MaxDelta
           /\ ref' - ref \in -MaxStep .. MaxStep
           /\ IF ref' > ref THEN ref' <= target.goal.pos
              ELSE ref' >= target.goal.pos]_vars

(***************************************************************************)
(* The abstract dead-man switch, with one arm.                             *)
(***************************************************************************)
DM == INSTANCE DeadMan
          WITH Arms <- {1}, mode <- [a \in {1} |-> ModeOf(safety.state)]

----------------------------------------------------------------------------
(* The inductive invariant.                                                *)

\* The times do not run ahead of the clock, and the history of the silence
\* covers the silence under way.
TimeInv ==
    /\ buf.at <= clock
    /\ now <= clock
    /\ buf.has => clock - buf.at <= silence

\* What the commanding state rests on: a packet, then the target taken from
\* it, then an update() that found that target enabling and the link fresh.
AuthorityInv ==
    /\ target.has => buf.has
    /\ phase \in {"now", "gap"} => target.has
    /\ RequireEnable /\ safety.state \in CommandStates => buf.has
    /\ RequireEnable /\ phase = "state" /\ safety.state \in CommandStates =>
           /\ target.has /\ target.pkt.enable /\ ~target.pkt.estop
           /\ now < buf.at + DisableAge

IInv ==
    /\ TypeOK
    /\ TimeInv
    /\ AuthorityInv
    /\ CommandsAreFresh
    /\ FaultNeedsSilenceOrRace
=============================================================================
