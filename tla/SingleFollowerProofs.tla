------------------------ MODULE SingleFollowerProofs ------------------------
(***************************************************************************)
(* Proofs about the one-arm follower, for every watchdog setting, every    *)
(* set of packets and goals, every joint range and both limits.            *)
(***************************************************************************)
EXTENDS SingleFollower, TLAPS

USE SafetyAssumption, SingleAssumption DEF SafetyAssumption, SingleAssumption

----------------------------------------------------------------------------
(* Facts about the operators.                                              *)

\* The methods of SafetyManager return a manager in a declared state.
LEMMA ManagerTypes ==
    ASSUME NEW m \in Manager, NEW p \in Packet, NEW g \in Nat
    PROVE  /\ NewManager \in Manager
           /\ TriggerEstop(m) \in Manager
           /\ SafetyUpdate(m, p, g) \in Manager
    BY DEF Manager, SafetyState, NewManager, RestState, TriggerEstop,
           SafetyUpdate, LiveState, LiveStates

(***************************************************************************)
(* SafetyManager::update under require_enable reaches a commanding state   *)
(* only on an enabling packet, no stop, and a gap below the disable        *)
(* threshold; it faults only from a gap at the threshold.                  *)
(***************************************************************************)
LEMMA UpdateAuthority ==
    ASSUME NEW m \in Manager, NEW p \in Packet, NEW g \in Nat
    PROVE  /\ RequireEnable /\ SafetyUpdate(m, p, g).state \in CommandStates =>
                  p.enable /\ ~p.estop /\ g < DisableAge
           /\ SafetyUpdate(m, p, g).state = "FAULT" =>
                  m.state = "FAULT" \/ g >= DisableAge
    BY DEF Manager, SafetyState, Packet, SafetyUpdate, LiveState, LiveStates,
           CommandStates, TrackStates, WatchdogCheck

(***************************************************************************)
(* The unsigned difference of two times is a time of the clock's width,    *)
(* and the true difference unless the packet came after the clock was      *)
(* read.                                                                   *)
(***************************************************************************)
LEMMA GapFacts ==
    ASSUME TypeOK
    PROVE  /\ Gap \in 0 .. TimeSpace - 1
           /\ buf.at <= now => Gap = now - buf.at
<1>1. now \in 0 .. MaxTime /\ buf.at \in 0 .. MaxTime
    BY DEF TypeOK, Time
<1>2. now - buf.at \in Int /\ TimeSpace \in Nat /\ TimeSpace > 0
    BY <1>1
<1>3. (now - buf.at) % TimeSpace \in 0 .. TimeSpace - 1
    BY <1>2
<1>4. buf.at <= now => (now - buf.at) % TimeSpace = now - buf.at
    BY <1>1, <1>2
<1> QED
    BY <1>3, <1>4 DEF Gap

(***************************************************************************)
(* RateLimiter::limit: a target that fits is approached by no more than    *)
(* either limit and not passed; the result is a position of the joint.     *)
(***************************************************************************)
LEMMA LimitFacts ==
    ASSUME NEW c \in Positions, NEW g \in Goal
    PROVE  /\ Limit(c, g) \in Positions
           /\ g.fits =>
                 /\ Limit(c, g) - c \in -MaxDelta .. MaxDelta
                 /\ Limit(c, g) - c \in -MaxStep .. MaxStep
                 /\ Limit(c, g) > c => Limit(c, g) <= g.pos
                 /\ Limit(c, g) < c => Limit(c, g) >= g.pos
<1> DEFINE e == EffectiveMaxDelta
           l == Limit(c, g)
<1>p. g.pos \in Positions
    BY DEF Goal
<1>i. c \in Int /\ g.pos \in Int
    BY <1>p
<1>e. /\ MaxDelta \in Nat /\ MaxStep \in Nat
      /\ e \in Nat /\ e <= MaxDelta /\ e <= MaxStep
    BY DEF EffectiveMaxDelta
<1>1. /\ e \in Nat /\ e <= MaxDelta /\ e <= MaxStep
      /\ c \in Int /\ g.pos \in Positions /\ g.pos \in Int
      /\ MaxDelta \in Nat /\ MaxStep \in Nat
    BY <1>p, <1>i, <1>e
<1> HIDE DEF e
<1>2. CASE ~g.fits
    BY <1>1, <1>2 DEF Limit
<1>3. CASE g.fits /\ g.pos - c > e
    <2>1. l = c + e
        BY <1>3 DEF Limit, e
    <2>2. l \in c .. g.pos
        BY <1>1, <1>3, <2>1
    <2>3. c .. g.pos \subseteq Positions
        BY <1>1, RangeAssumption
    <2>4. l \in Positions
        BY <2>2, <2>3
    <2> HIDE DEF l
    <2>5. l > c => l <= g.pos
        BY <1>1, <1>3, <2>1
    <2>6. l < c => l >= g.pos
        BY <1>1, <1>3, <2>1
    <2>7. l - c \in -MaxDelta .. MaxDelta /\ l - c \in -MaxStep .. MaxStep
        BY <1>1, <2>1
    <2> QED
        BY <2>4, <2>5, <2>6, <2>7 DEF l
<1>4. CASE g.fits /\ g.pos - c < -e
    <2>1. l = c - e
        BY <1>1, <1>4 DEF Limit, e
    <2>2. l \in g.pos .. c
        BY <1>1, <1>4, <2>1
    <2>3. g.pos .. c \subseteq Positions
        BY <1>1, RangeAssumption
    <2> QED
        BY <1>1, <1>4, <2>1, <2>2, <2>3
<1>5. CASE g.fits /\ ~(g.pos - c > e) /\ ~(g.pos - c < -e)
    <2>1. l = g.pos
        BY <1>5 DEF Limit, e
    <2> QED
        BY <1>1, <1>5, <2>1
<1> QED
    BY <1>2, <1>3, <1>4, <1>5

----------------------------------------------------------------------------
(* Typing.                                                                 *)

\* Every step of every thread preserves the types.
LEMMA TypeStep == TypeOK /\ [Next]_vars => TypeOK'
<1> SUFFICES ASSUME TypeOK, [Next]_vars
             PROVE  TypeOK'
    OBVIOUS
<1>g. NoGoal \in Goal /\ NoPacket \in Packet
    <2>1. [pos |-> ref, fits |-> TRUE] \in Goal
        BY DEF TypeOK, Goal
    <2> QED
        BY <2>1 DEF NoGoal, NoPacket, Packet
<1>n. NoTarget \in [has : BOOLEAN, pkt : Packet, goal : Goal]
    BY <1>g DEF NoTarget
<1>1. CASE Tick
    <2>1. clock' \in Time /\ silence' \in Time
        BY <1>1 DEF Tick, TypeOK, Time
    <2> QED
        BY <1>1, <2>1 DEF Tick, TypeOK
<1>2. CASE Receive
    <2>1. buf' \in [has : BOOLEAN, pkt : Packet, goal : Goal, at : Time]
        BY <1>2 DEF Receive, TypeOK, Goal
    <2> QED
        BY <1>2, <2>1 DEF Receive, TypeOK
<1>3. CASE SignalEstop
    <2>1. safety' \in Manager
        BY <1>3 DEF SignalEstop, TriggerEstop, Manager, SafetyState
    <2> QED
        BY <1>3, <2>1 DEF SignalEstop, TypeOK
<1>4. CASE SignalEnds
    <2>1. running' = FALSE /\ signal' = 2
        BY <1>4 DEF SignalEnds
    <2>2. signal' \in 0 .. 2
        BY <2>1
    <2>3. running' \in BOOLEAN
        BY <2>1, Zenon
    <2> QED
        BY <1>4, <2>2, <2>3 DEF SignalEnds, TypeOK
<1>5. CASE LoopHead
    BY <1>5 DEF LoopHead, TypeOK, Phases
<1>6. CASE GetLatest
    <2>1. target' \in [has : BOOLEAN, pkt : Packet, goal : Goal]
        BY <1>6, <1>n DEF GetLatest, TypeOK
    <2> QED
        BY <1>6, <2>1 DEF GetLatest, TypeOK, Phases
<1>7. CASE ReadClock
    BY <1>7 DEF ReadClock, TypeOK, Phases
<1>8. CASE UpdateSafety
    <2>1. gap' \in 0 .. TimeSpace - 1 /\ gap' \in Nat
        BY <1>8, GapFacts DEF UpdateSafety
    <2>2. safety' \in Manager
        BY <1>8, <2>1, ManagerTypes DEF UpdateSafety, TypeOK
    <2>3. raced' \in BOOLEAN
        BY <1>8 DEF UpdateSafety
    <2> QED
        BY <1>8, <2>1, <2>2, <2>3 DEF UpdateSafety, TypeOK, Phases
<1>9. CASE ReadState
    BY <1>9 DEF ReadState, TypeOK, Phases, Manager
<1>10. CASE MotorStep
    <2>1. ref' \in Positions
        BY <1>10, LimitFacts DEF MotorStep, TypeOK
    <2>2. st' \in SafetyState
        BY <1>10 DEF MotorStep, RestState, SafetyState
    <2>3. now' \in Time /\ gap' \in 0 .. TimeSpace - 1
        BY <1>10 DEF MotorStep, Time
    <2>4. motors' \in BOOLEAN
        BY <1>10 DEF MotorStep
    <2> QED
        BY <1>10, <1>n, <2>1, <2>2, <2>3, <2>4 DEF MotorStep, TypeOK, Phases
<1>11. CASE StopReceiver
    BY <1>11 DEF StopReceiver, TypeOK, Phases
<1>12. CASE DisableAll
    BY <1>12 DEF DisableAll, TypeOK, Phases
<1>13. CASE UNCHANGED vars
    BY <1>13 DEF TypeOK, vars
<1> QED
    BY <1>1, <1>2, <1>3, <1>4, <1>5, <1>6, <1>7, <1>8, <1>9, <1>10, <1>11, <1>12, <1>13
    DEF Next, MainLoop, Terminated

----------------------------------------------------------------------------
(* The invariant.                                                          *)

\* Every step keeps the rest of the invariant.
LEMMA SafetyStep ==
    ASSUME IInv, TypeOK', [Next]_vars
    PROVE  TimeInv' /\ AuthorityInv' /\ CommandsAreFresh' /\ FaultNeedsSilenceOrRace'
<1> USE DEF IInv
<1>t. /\ clock \in Nat /\ buf.at \in Nat /\ now \in Nat /\ silence \in Nat
      /\ DisableAge \in Nat /\ DisableAge > 0
    BY DEF TypeOK, Time
<1>m. safety \in Manager /\ target.pkt \in Packet
    BY DEF TypeOK
<1>1. CASE Tick
    <2>1. TimeInv'
        BY <1>1, <1>t DEF Tick, TimeInv
    <2>2. silence' >= silence /\ silence' \in Nat
        BY <1>1, <1>t DEF Tick
    <2> QED
        BY <1>1, <1>t, <2>1, <2>2
        DEF Tick, AuthorityInv, CommandsAreFresh, FaultNeedsSilenceOrRace
<1>2. CASE Receive
    <2>1. buf'.has /\ buf'.at = clock /\ buf.at <= clock
        BY <1>2 DEF Receive, TimeInv
    <2>2. UNCHANGED <<clock, safety, phase, target, now, st, silence, raced>>
        BY <1>2 DEF Receive
    <2> QED
        BY <1>t, <2>1, <2>2
        DEF TimeInv, AuthorityInv, CommandsAreFresh, FaultNeedsSilenceOrRace
<1>3. CASE SignalEstop
    <2>1. safety'.state = "ESTOP" /\ UNCHANGED <<clock, buf, phase, target, now, st, silence, raced>>
        BY <1>3 DEF SignalEstop, TriggerEstop
    <2> QED
        BY <2>1 DEF TimeInv, AuthorityInv, CommandsAreFresh,
                    FaultNeedsSilenceOrRace, CommandStates, TrackStates
<1>4. CASE SignalEnds \/ LoopHead \/ StopReceiver \/ DisableAll \/ UNCHANGED vars
    <2>1. /\ UNCHANGED <<clock, buf, safety, target, now, st, silence, raced>>
          /\ phase' \notin {"now", "gap", "state", "motor"} \/ phase' = phase
        BY <1>4 DEF SignalEnds, LoopHead, StopReceiver, DisableAll, vars
    <2> QED
        BY <2>1 DEF TimeInv, AuthorityInv, CommandsAreFresh, FaultNeedsSilenceOrRace
<1>5. CASE GetLatest
    <2>1. /\ UNCHANGED <<clock, buf, safety, now, st, silence, raced>>
          /\ target'.has = buf.has
          /\ phase' = IF buf.has THEN "now" ELSE "state"
        BY <1>5 DEF GetLatest, NoTarget, TypeOK
    <2> QED
        BY <2>1 DEF TimeInv, AuthorityInv, CommandsAreFresh, FaultNeedsSilenceOrRace
<1>6. CASE ReadClock
    <2>1. /\ UNCHANGED <<clock, buf, safety, target, st, silence, raced>>
          /\ now' = clock /\ phase = "now" /\ phase' = "gap"
        BY <1>6 DEF ReadClock
    <2> QED
        BY <1>t, <2>1 DEF TimeInv, AuthorityInv, CommandsAreFresh, FaultNeedsSilenceOrRace
<1>7. CASE UpdateSafety
    <2>1. /\ UNCHANGED <<clock, buf, target, now, st, silence>>
          /\ phase = "gap" /\ phase' = "state"
          /\ target.has /\ buf.has
          /\ safety' = SafetyUpdate(safety, target.pkt, Gap)
          /\ raced' = (raced \/ buf.at > now)
        BY <1>7 DEF UpdateSafety, AuthorityInv
    <2>2. Gap \in Nat /\ (buf.at <= now => Gap = now - buf.at)
        BY GapFacts
    <2>3. ASSUME RequireEnable, safety'.state \in CommandStates
          PROVE  target.pkt.enable /\ ~target.pkt.estop /\ now < buf.at + DisableAge
        <3>1. target.pkt.enable /\ ~target.pkt.estop /\ Gap < DisableAge
            BY <1>m, <2>1, <2>2, <2>3, UpdateAuthority
        <3> QED
            BY <1>t, <2>2, <3>1
    <2>4. FaultNeedsSilenceOrRace'
        <3>1. SUFFICES ASSUME safety'.state = "FAULT", ~raced'
                       PROVE  silence >= DisableAge
            BY <2>1 DEF FaultNeedsSilenceOrRace
        <3>2. ~raced /\ ~(buf.at > now)
            BY <2>1, <3>1, Zenon
        <3>5. buf.at <= now
            BY <1>t, <3>2
        <3>3. CASE safety.state = "FAULT"
            BY <3>2, <3>3 DEF FaultNeedsSilenceOrRace
        <3>4. CASE Gap >= DisableAge
            BY <1>t, <2>1, <2>2, <3>5, <3>4 DEF TimeInv
        <3> QED
            BY <1>m, <2>1, <2>2, <3>1, <3>3, <3>4, UpdateAuthority
    <2> QED
        BY <2>1, <2>3, <2>4 DEF TimeInv, AuthorityInv, CommandsAreFresh
<1>8. CASE ReadState
    <2>1. /\ UNCHANGED <<clock, buf, safety, target, now, silence, raced>>
          /\ phase = "state" /\ phase' = "motor" /\ st' = safety.state
        BY <1>8 DEF ReadState
    <2> QED
        BY <2>1 DEF TimeInv, AuthorityInv, CommandsAreFresh, FaultNeedsSilenceOrRace
<1>9. CASE MotorStep
    <2>1. /\ UNCHANGED <<clock, buf, safety, silence, raced>>
          /\ now' = 0 /\ phase' = "head" /\ ~target'.has
        BY <1>9 DEF MotorStep, NoTarget
    <2> QED
        BY <1>t, <2>1 DEF TimeInv, AuthorityInv, CommandsAreFresh, FaultNeedsSilenceOrRace
<1> QED
    BY <1>1, <1>2, <1>3, <1>4, <1>5, <1>6, <1>7, <1>8, <1>9 DEF Next, MainLoop, Terminated

\* The initial state satisfies the invariant.
LEMMA InitInv == Init => IInv
<1> SUFFICES ASSUME Init
             PROVE  IInv
    OBVIOUS
<1>1. [pos |-> ref, fits |-> TRUE] \in Goal
    BY DEF Init, Goal
<1>2. NoGoal \in Goal /\ NoPacket \in Packet
    BY <1>1 DEF NoGoal, NoPacket, Packet
<1>3. safety \in Manager /\ st \in SafetyState
    BY DEF Init, NewManager, RestState, Manager, SafetyState
<1>4. /\ buf \in [has : BOOLEAN, pkt : Packet, goal : Goal, at : Time]
      /\ target \in [has : BOOLEAN, pkt : Packet, goal : Goal]
    BY <1>2 DEF Init, NoTarget, Time
<1>5. TypeOK
    <2>1. /\ clock \in Time /\ now \in Time /\ silence \in Time
          /\ gap \in 0 .. TimeSpace - 1 /\ signal \in 0 .. 2
        BY DEF Init, Time
    <2>2. /\ motors \in BOOLEAN /\ running \in BOOLEAN /\ raced \in BOOLEAN
          /\ phase \in Phases /\ ref \in Positions
        BY DEF Init, Phases
    <2> QED
        BY <1>3, <1>4, <2>1, <2>2 DEF TypeOK
<1>6. TimeInv /\ AuthorityInv /\ CommandsAreFresh /\ FaultNeedsSilenceOrRace
    BY DEF Init, TimeInv, AuthorityInv, CommandsAreFresh, FaultNeedsSilenceOrRace,
           NoTarget, NewManager, RestState, CommandStates, TrackStates
<1> QED
    BY <1>5, <1>6 DEF IInv

----------------------------------------------------------------------------
(* The theorems.                                                           *)

(***************************************************************************)
(* The types, the times, the authority of commands and the cause of a      *)
(* fault are an inductive invariant of the one-arm follower.               *)
(***************************************************************************)
THEOREM InductiveInvariant == Spec => []IInv
<1>1. IInv /\ [Next]_vars => IInv'
    BY TypeStep, SafetyStep DEF IInv
<1> QED
    BY <1>1, InitInv, PTL DEF Spec

(***************************************************************************)
(* The unsigned subtraction of two times read in two steps never lets a    *)
(* command through on a link that was silent for the disable threshold,    *)
(* and every command has an enabling packet of its cycle.                  *)
(***************************************************************************)
THEOREM CommandsAreFreshThm == Spec => []CommandsAreFresh
<1>1. IInv => CommandsAreFresh
    BY DEF IInv
<1> QED
    BY <1>1, InductiveInvariant, PTL

\* A fault comes from silence or from a packet between the two reads.
THEOREM FaultNeedsSilenceOrRaceThm == Spec => []FaultNeedsSilenceOrRace
<1>1. IInv => FaultNeedsSilenceOrRace
    BY DEF IInv
<1> QED
    BY <1>1, InductiveInvariant, PTL

(***************************************************************************)
(* The rate limiter keeps the reference from jumping in every cycle, for   *)
(* every pair of limits and every range of the joint.                      *)
(***************************************************************************)
THEOREM ReferenceNeverJumpsThm == Spec => ReferenceNeverJumps
<1> DEFINE Step ==
        ref' # ref /\ target.goal.fits =>
           /\ ref' - ref \in -MaxDelta .. MaxDelta
           /\ ref' - ref \in -MaxStep .. MaxStep
           /\ IF ref' > ref THEN ref' <= target.goal.pos
              ELSE ref' >= target.goal.pos
<1>1. IInv /\ [Next]_vars => [Step]_vars
    <2> SUFFICES ASSUME IInv, Next, ref' # ref, target.goal.fits
                 PROVE  Step
        OBVIOUS
    <2>1. ref \in Positions /\ target.goal \in Goal
        BY DEF IInv, TypeOK
    <2>2. ref' = Limit(ref, target.goal)
        BY DEF Next, MainLoop, Tick, Receive, SignalEstop, SignalEnds, LoopHead,
               GetLatest, ReadClock, UpdateSafety, ReadState, MotorStep,
               StopReceiver, DisableAll, Terminated, vars
    <2>3. /\ ref' - ref \in -MaxDelta .. MaxDelta
          /\ ref' - ref \in -MaxStep .. MaxStep
          /\ ref' > ref => ref' <= target.goal.pos
          /\ ref' < ref => ref' >= target.goal.pos
        BY <2>1, <2>2, LimitFacts
    <2>4. ref \in Int /\ ref' \in Int
        <3>1. ref' \in Positions
            BY <2>1, <2>2, LimitFacts
        <3> QED
            BY <2>1, <3>1
    <2>5. IF ref' > ref THEN ref' <= target.goal.pos
          ELSE ref' >= target.goal.pos
        <3>1. CASE ref' > ref
            BY <2>3, <3>1
        <3>2. CASE ~(ref' > ref)
            <4>1. ref' < ref
                BY <2>4, <3>2
            <4> QED
                BY <2>3, <3>2, <4>1
        <3> QED
            BY <3>1, <3>2
    <2> QED
        BY <2>3, <2>5, Zenon
<1> QED
    BY <1>1, InductiveInvariant, PTL DEF Spec, ReferenceNeverJumps

----------------------------------------------------------------------------
(* The refinement of the abstract dead-man switch.                         *)

\* The abstract mode of the arm.
ArmMode == [a \in {1} |-> ModeOf(safety.state)]

\* update() makes an arm live only from rest or from live, whatever the gap.
LEMMA UpdateMode ==
    ASSUME NEW m \in Manager, NEW p \in Packet, NEW g,
           ModeOf(SafetyUpdate(m, p, g).state) = "live"
    PROVE  ModeOf(m.state) \in {"rest", "live"}
    BY DEF Manager, SafetyState, SafetyUpdate, LiveState, LiveStates, ModeOf

\* A step that makes the arm live only from rest or from live is a step of
\* the abstract machine or no step of it.
LEMMA ModeStep ==
    ASSUME ModeOf(safety'.state) = "live" =>
               ModeOf(safety.state) \in {"rest", "live"}
    PROVE  [DM!Next]_ArmMode
<1>1. ArmMode' = [ArmMode EXCEPT ![1] = ModeOf(safety'.state)]
    BY DEF ArmMode
<1>2. ArmMode[1] = ModeOf(safety.state)
    BY DEF ArmMode
<1>3. CASE ModeOf(safety'.state) = "rest"
    BY <1>1, <1>3 DEF DM!Next, DM!Release, ArmMode
<1>4. CASE ModeOf(safety'.state) = "fault"
    BY <1>1, <1>4 DEF DM!Next, DM!Trip, ArmMode
<1>5. CASE ModeOf(safety'.state) = "stopped"
    BY <1>1, <1>5 DEF DM!Next, DM!Stop, ArmMode
<1>6. CASE ModeOf(safety'.state) = "live" /\ ArmMode[1] = "rest"
    BY <1>1, <1>6 DEF DM!Next, DM!Engage, ArmMode
<1>7. CASE ModeOf(safety'.state) = "live" /\ ArmMode[1] = "live"
    BY <1>2, <1>7 DEF ArmMode
<1>8. ModeOf(safety'.state) \in {"rest", "live", "fault", "stopped"}
    BY DEF ModeOf
<1> QED
    BY <1>2, <1>3, <1>4, <1>5, <1>6, <1>7, <1>8

(***************************************************************************)
(* The one-arm follower implements the dead-man switch too: neither the    *)
(* signal handler nor a gap that wrapped takes the arm from a fault or a   *)
(* stop straight back to live.                                             *)
(***************************************************************************)
THEOREM Refinement == Spec => DM!Spec
<1>1. Init => DM!Init
    BY DEF Init, DM!Init, NewManager, RestState, ModeOf
<1>2. ASSUME IInv, [Next]_vars
      PROVE  [DM!Next]_ArmMode
    <2>1. safety \in Manager /\ target.pkt \in Packet
        BY <1>2 DEF IInv, TypeOK
    <2>2. CASE UNCHANGED safety
        BY <2>2 DEF ArmMode
    <2>3. CASE SignalEstop
        <3>1. ModeOf(safety'.state) # "live"
            BY <2>3 DEF SignalEstop, TriggerEstop, ModeOf
        <3> QED
            BY <3>1, ModeStep
    <2>4. CASE UpdateSafety
        <3>1. safety' = SafetyUpdate(safety, target.pkt, gap')
            BY <2>4 DEF UpdateSafety
        <3> QED
            BY <2>1, <3>1, UpdateMode, ModeStep
    <2>5. UNCHANGED safety \/ SignalEstop \/ UpdateSafety
        BY <1>2
        DEF Next, MainLoop, Tick, Receive, SignalEnds, LoopHead, GetLatest,
            ReadClock, ReadState, MotorStep, StopReceiver, DisableAll,
            Terminated, vars
    <2> QED
        BY <2>2, <2>3, <2>4, <2>5
<1> QED
    BY <1>1, <1>2, InductiveInvariant, PTL DEF Spec, DM!Spec, ArmMode
=============================================================================
