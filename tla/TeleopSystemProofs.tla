------------------------- MODULE TeleopSystemProofs -------------------------
(***************************************************************************)
(* Proofs about leader, network and follower together, for every network   *)
(* delay, every watchdog setting and every number of crashes, restarts and *)
(* lost packets; and about the engager of the leader by itself.            *)
(***************************************************************************)
EXTENDS TeleopSystem, BilateralEngager, SequenceTheorems, TLAPS

USE SafetyAssumption, EngagerAssumption, SystemAssumption
    DEF SafetyAssumption, EngagerAssumption, SystemAssumption

\* The packets of the two directions.
CommandPacket == [enable : BOOLEAN, age : 0 .. MaxDelay]
FeedbackPacket == [live : BOOLEAN, estop : BOOLEAN, age : 0 .. MaxDelay]

\* The states of the leader.
LeaderSet == [up : BOOLEAN, busy : BOOLEAN, behind : 0 .. MaxMove,
              enabled : BOOLEAN, requested : BOOLEAN, eng : Engager]

----------------------------------------------------------------------------
(* Facts about the helpers.                                                *)

\* The limits of the histories are natural numbers.
LEMMA Limits == QuietLimit \in Nat /\ IdleLimit \in Nat
<1>1. (Full + DownStep - 1) \div DownStep \in Nat
    OBVIOUS
<1> QED
    BY <1>1 DEF QuietLimit, IdleLimit, ReleaseTime

\* The methods of SafetyManager return a manager in a declared state.
LEMMA ManagerTypes ==
    ASSUME NEW m \in Manager, NEW p \in Packet, NEW g \in Age
    PROVE  /\ NewManager \in Manager
           /\ TriggerEstop(m) \in Manager
           /\ ResetSafety(m) \in Manager
           /\ SafetyUpdate(m, p, g) \in Manager
    BY DEF Manager, SafetyState, NewManager, RestState, TriggerEstop,
           ResetSafety, SafetyUpdate, LiveState, LiveStates

(***************************************************************************)
(* SafetyManager::update under require_enable reaches a commanding state   *)
(* only on an enabling packet and a gap below the disable threshold.       *)
(***************************************************************************)
LEMMA UpdateAuthority ==
    ASSUME NEW m \in Manager, NEW p \in Packet, NEW g \in Age, RequireEnable,
           SafetyUpdate(m, p, g).state \in CommandStates
    PROVE  p.enable /\ g < DisableAge
    BY DEF Manager, SafetyState, Packet, Age, SafetyUpdate, LiveState,
           LiveStates, CommandStates, WatchdogCheck

\* update() faults only at the disable threshold.
LEMMA UpdateFaults ==
    ASSUME NEW m \in Manager, NEW p \in Packet, NEW g \in Age,
           m.state # "FAULT", g < DisableAge
    PROVE  SafetyUpdate(m, p, g).state # "FAULT"
    BY DEF Manager, SafetyState, Packet, Age, SafetyUpdate, LiveState,
           LiveStates, WatchdogCheck

\* A stop or a reset leaves the manager neither faulted nor, under
\* require_enable, in a commanding state.
LEMMA StopAndReset ==
    ASSUME NEW m \in {TriggerEstop(manager), ResetSafety(manager)}
    PROVE  /\ m.state # "FAULT"
           /\ RequireEnable => m.state \notin CommandStates
    BY DEF TriggerEstop, ResetSafety, NewManager, RestState, CommandStates

\* The ramp helpers stay within the scale and move by at most one increment.
LEMMA RampBounds ==
    ASSUME NEW s \in 0 .. Full
    PROVE  /\ RaisedScale(s) \in 0 .. Full
           /\ s <= RaisedScale(s)
           /\ RaisedScale(s) <= s + UpStep
           /\ LoweredScale(s) \in 0 .. Full
           /\ LoweredScale(s) <= s
           /\ s <= LoweredScale(s) + DownStep
    BY DEF RaisedScale, LoweredScale

(***************************************************************************)
(* BilateralEngager::update keeps the engager well formed, whatever its    *)
(* inputs, and changes the scale by at most one increment.                 *)
(***************************************************************************)
LEMMA UpdatePreserves ==
    ASSUME NEW e, WellFormed(e), NEW w \in BOOLEAN, NEW al \in BOOLEAN
    PROVE  /\ WellFormed(Update(e, w, al))
           /\ Update(e, w, al).scale <= e.scale + UpStep
           /\ e.scale <= Update(e, w, al).scale + DownStep
<1> DEFINE u == Update(e, w, al)
<1>1. e \in Engager /\ e.scale \in 0 .. Full
    BY DEF WellFormed, Engager
<1>2. CASE e.state = "off"
    <2>1. u = FromOff(e, w)
        BY <1>2 DEF Update
    <2> QED
        BY <1>1, <1>2, <2>1 DEF WellFormed, Engager, EngagerState, FromOff
<1>3. CASE e.state = "wait_align"
    <2>1. u = FromWaitAlign(e, w, al)
        BY <1>3 DEF Update
    <2> QED
        BY <1>1, <1>3, <2>1
        DEF WellFormed, Engager, EngagerState, FromWaitAlign
<1>4. CASE e.state = "ramp_up"
    <2>1. u = FromRampUp(e, w)
        BY <1>4 DEF Update
    <2>2. CASE w
        BY <1>1, <1>4, <2>1, <2>2, RampBounds
        DEF WellFormed, Engager, EngagerState, FromRampUp
    <2>3. CASE ~w
        <3>1. u = [state |-> "ramp_down", scale |-> e.scale]
            BY <1>1, <2>1, <2>3 DEF FromRampUp, Engager
        <3> QED
            BY <1>1, <3>1 DEF WellFormed, Engager, EngagerState
    <2> QED
        BY <2>2, <2>3
<1>5. CASE e.state = "engaged"
    <2>1. u = FromEngaged(e, w)
        BY <1>5 DEF Update
    <2> QED
        BY <1>1, <1>5, <2>1 DEF WellFormed, Engager, EngagerState, FromEngaged
<1>6. CASE e.state = "ramp_down"
    <2>1. u = FromRampDown(e, w)
        BY <1>6 DEF Update
    <2>2. LoweredScale(e.scale) \in 0 .. Full
        BY <1>1, RampBounds
    <2> QED
        BY <1>1, <1>6, <2>1, <2>2, RampBounds
        DEF WellFormed, Engager, EngagerState, FromRampDown
<1> QED
    BY <1>1, <1>2, <1>3, <1>4, <1>5, <1>6 DEF Engager, EngagerState

\* BilateralEngager::update returns an engager.
LEMMA EngagerTypes ==
    ASSUME NEW e \in Engager, NEW w \in BOOLEAN, NEW al \in BOOLEAN
    PROVE  Update(e, w, al) \in Engager
<1> DEFINE u == Update(e, w, al)
<1>1. e.scale \in 0 .. Full /\ e.state \in EngagerState
    BY DEF Engager
<1>2. RaisedScale(e.scale) \in 0 .. Full /\ LoweredScale(e.scale) \in 0 .. Full
    BY <1>1 DEF RaisedScale, LoweredScale
<1>3. CASE e.state = "off"
    <2>1. u = FromOff(e, w)
        BY <1>3 DEF Update
    <2> QED
        BY <2>1 DEF FromOff, Engager, EngagerState
<1>4. CASE e.state = "wait_align"
    <2>1. u = FromWaitAlign(e, w, al)
        BY <1>4 DEF Update
    <2> QED
        BY <2>1 DEF FromWaitAlign, Engager, EngagerState
<1>5. CASE e.state = "ramp_up"
    <2>1. u = FromRampUp(e, w)
        BY <1>5 DEF Update
    <2> QED
        BY <1>2, <2>1 DEF FromRampUp, Engager, EngagerState
<1>6. CASE e.state = "engaged"
    <2>1. u = FromEngaged(e, w)
        BY <1>6 DEF Update
    <2> QED
        BY <2>1 DEF FromEngaged, Engager, EngagerState
<1>7. CASE e.state = "ramp_down"
    <2>1. u = FromRampDown(e, w)
        BY <1>7 DEF Update
    <2> QED
        BY <1>2, <2>1 DEF FromRampDown, Engager, EngagerState
<1> QED
    BY <1>1, <1>3, <1>4, <1>5, <1>6, <1>7 DEF EngagerState

\* A sequence whose elements are replaced one by one stays a sequence.
LEMMA Replaced ==
    ASSUME NEW S, NEW s \in Seq(S), NEW f, f = [i \in DOMAIN s |-> f[i]],
           \A i \in DOMAIN s : f[i] \in S
    PROVE  /\ f \in Seq(S)
           /\ Len(f) = Len(s)
           /\ DOMAIN f = DOMAIN s
<1>1. Len(s) \in Nat /\ DOMAIN s = 1 .. Len(s)
    BY LenProperties
<1>2. f \in [1 .. Len(s) -> S]
    BY <1>1
<1>3. f \in Seq(S)
    BY <1>1, <1>2
<1>4. Len(f) \in Nat /\ DOMAIN f = 1 .. Len(f)
    BY <1>3, LenProperties
<1>5. 1 .. Len(f) = 1 .. Len(s)
    BY <1>1, <1>2, <1>4
<1>6. Len(f) = Len(s)
    BY <1>1, <1>4, <1>5
<1> QED
    BY <1>1, <1>3, <1>4, <1>6

----------------------------------------------------------------------------
(* Typing.                                                                 *)

\* A packet in flight that is not overdue may grow older by one period.
LEMMA OlderPackets ==
    ASSUME TypeOK, Tick
    PROVE  /\ commands' \in Seq(CommandPacket)
           /\ Len(commands') = Len(commands)
           /\ \A i \in 1 .. Len(commands) :
                 /\ commands'[i].enable = commands[i].enable
                 /\ commands'[i].age = commands[i].age + 1
           /\ feedback' \in Seq(FeedbackPacket)
           /\ Len(feedback') = Len(feedback)
           /\ \A i \in 1 .. Len(feedback) :
                 /\ feedback'[i].live = feedback[i].live
                 /\ feedback'[i].age = feedback[i].age + 1
<1>0. commands \in Seq(CommandPacket) /\ feedback \in Seq(FeedbackPacket)
    BY DEF TypeOK, CommandPacket, FeedbackPacket
<1>1. DOMAIN commands = 1 .. Len(commands)
    BY <1>0, LenProperties
<1>2. commands' = [i \in DOMAIN commands |-> [commands[i] EXCEPT !.age = @ + 1]]
    BY DEF Tick
<1>3. ASSUME NEW i \in DOMAIN commands
      PROVE  /\ commands'[i] \in CommandPacket
             /\ commands'[i].enable = commands[i].enable
             /\ commands'[i].age = commands[i].age + 1
    <2>1. commands[i].age < MaxDelay
        BY DEF Tick
    <2>2. commands'[i] = [commands[i] EXCEPT !.age = @ + 1]
        BY <1>2
    <2>3. commands[i] \in CommandPacket
        BY <1>0, <1>1, ElementOfSeq
    <2> QED
        BY <2>1, <2>2, <2>3 DEF CommandPacket
<1>4. commands' = [i \in DOMAIN commands |-> commands'[i]]
    BY <1>2
<1>5. commands' \in Seq(CommandPacket) /\ Len(commands') = Len(commands)
    BY <1>0, <1>3, <1>4, Replaced
<1>6. DOMAIN feedback = 1 .. Len(feedback)
    BY <1>0, LenProperties
<1>7. feedback' = [i \in DOMAIN feedback |-> [feedback[i] EXCEPT !.age = @ + 1]]
    BY DEF Tick
<1>8. ASSUME NEW i \in DOMAIN feedback
      PROVE  /\ feedback'[i] \in FeedbackPacket
             /\ feedback'[i].live = feedback[i].live
             /\ feedback'[i].age = feedback[i].age + 1
    <2>1. feedback[i].age < MaxDelay
        BY DEF Tick
    <2>2. feedback'[i] = [feedback[i] EXCEPT !.age = @ + 1]
        BY <1>7
    <2>3. feedback[i] \in FeedbackPacket
        BY <1>0, <1>6, ElementOfSeq
    <2> QED
        BY <2>1, <2>2, <2>3 DEF FeedbackPacket
<1>9. feedback' = [i \in DOMAIN feedback |-> feedback'[i]]
    BY <1>7
<1>10. feedback' \in Seq(FeedbackPacket) /\ Len(feedback') = Len(feedback)
    BY <1>0, <1>8, <1>9, Replaced
<1> QED
    BY <1>1, <1>3, <1>5, <1>6, <1>8, <1>10

\* Every step of a process, the network or the clock preserves the types.
LEMMA TypeStep == TypeOK /\ [Next]_vars => TypeOK'
<1> SUFFICES ASSUME TypeOK, [Next]_vars
             PROVE  TypeOK'
    OBVIOUS
<1> USE DEF CommandPacket, FeedbackPacket
<1>l. leader \in LeaderSet
    BY DEF TypeOK, LeaderSet
<1>f. fb \in [has : BOOLEAN, live : BOOLEAN, estop : BOOLEAN, age : 0 .. MaxAge + 1]
    BY DEF TypeOK
<1>w. follower \in [up : BOOLEAN, commands : BOOLEAN]
    BY DEF TypeOK
<1>b. buf \in [has : BOOLEAN, pkt : Packet, age : Age]
    BY DEF TypeOK
<1>n. nextGate \in 0 .. GatePeriod
    BY DEF TypeOK
<1>h. /\ heard \in 0 .. QuietLimit + 1 /\ quiet \in 0 .. QuietLimit + 1
      /\ overdue \in 0 .. 2 /\ idle \in 0 .. IdleLimit + 1
    BY DEF TypeOK
<1>s. NotSeen \in [taken : BOOLEAN, live : BOOLEAN]
    BY DEF NotSeen
<1>p. NoTarget \in [taken : BOOLEAN, has : BOOLEAN, pkt : Packet]
    BY DEF NoTarget, NoPacket, Packet
<1>1. CASE LeaderCycle
    <2>1. PICK al \in BOOLEAN :
              leader' = [leader EXCEPT !.eng = Update(@, Want, al),
                                       !.requested = @ /\ (nextGate = 0 => GateOk),
                                       !.behind = leader.behind - Done("leader")]
        BY <1>1, Zenon DEF LeaderCycle
    <2>2. Want \in BOOLEAN /\ GateOk \in BOOLEAN
        BY DEF Want, GateOk, Fresh, TypeOK
    <2>3. Update(leader.eng, Want, al) \in Engager
        BY <1>l, <2>2, EngagerTypes DEF LeaderSet
    <2>a. leader.behind - Done("leader") \in 0 .. MaxMove
        BY <1>1, <1>l DEF LeaderCycle, LeaderDue, LeaderSet, Done
    <2>b. (leader.requested /\ (nextGate = 0 => GateOk)) \in BOOLEAN
        BY <1>l, <2>2 DEF LeaderSet
    <2>4. leader' \in LeaderSet
        BY <1>l, <2>1, <2>3, <2>a, <2>b DEF LeaderSet
    <2>5. [enable |-> leader.enabled, age |-> 0] \in CommandPacket
        BY <1>l DEF LeaderSet
    <2>6. commands' \in Seq(CommandPacket)
        BY <1>1, <2>5, AppendProperties DEF LeaderCycle, TypeOK
    <2>7. /\ nextGate' \in 0 .. GatePeriod /\ quiet' \in 0 .. QuietLimit + 1
          /\ heard' \in 0 .. QuietLimit + 1 /\ overdue' \in 0 .. 2
        <3>1. /\ nextGate' \in {GatePeriod, nextGate} /\ quiet' \in {0, quiet}
              /\ heard' = 0 /\ overdue' \in {0, overdue}
            BY <1>1, Zenon DEF LeaderCycle
        <3>2. GatePeriod \in 0 .. GatePeriod /\ 0 \in 0 .. QuietLimit + 1 /\ 0 \in 0 .. 2
            BY Limits
        <3> QED
            BY <1>n, <1>h, <3>1, <3>2, Zenon
    <2>8. ran' \in [{"leader", "follower"} -> BOOLEAN]
        BY <1>1 DEF LeaderCycle, TypeOK
    <2>9. seen' \in [taken : BOOLEAN, live : BOOLEAN]
        BY <1>1, <1>s DEF LeaderCycle
    <2> QED
        BY <1>1, <2>4, <2>6, <2>7, <2>8, <2>9 DEF LeaderCycle, TypeOK, LeaderSet
<1>9. CASE LeaderGet
    <2>1. (fb.has /\ fb.live /\ ~fb.estop) \in BOOLEAN
        BY <1>f
    <2>2. seen' \in [taken : BOOLEAN, live : BOOLEAN]
        BY <1>9, <2>1 DEF LeaderGet
    <2> QED
        BY <1>9, <2>2 DEF LeaderGet, TypeOK
<1>10. CASE LeaderMoveEnds
    <2>1. leader' \in LeaderSet
        BY <1>10, <1>l DEF LeaderMoveEnds, LeaderSet
    <2> QED
        BY <1>10, <2>1 DEF LeaderMoveEnds, TypeOK, LeaderSet
<1>11. CASE FollowerGet
    <2>1. target' \in [taken : BOOLEAN, has : BOOLEAN, pkt : Packet]
        BY <1>11, <1>b DEF FollowerGet
    <2> QED
        BY <1>11, <2>1 DEF FollowerGet, TypeOK
<1>2. CASE FollowerCycle
    <2>1. manager' \in Manager
        BY <1>2, ManagerTypes DEF FollowerCycle, TypeOK
    <2>2. follower' \in [up : BOOLEAN, commands : BOOLEAN]
        <3>1. follower' = [follower EXCEPT !.commands = manager'.state \in CommandStates]
            BY <1>2 DEF FollowerCycle
        <3>2. (manager'.state \in CommandStates) \in BOOLEAN
            OBVIOUS
        <3> QED
            BY <1>w, <3>1, <3>2
    <2>3. /\ [live |-> manager'.state = "ACTIVE",
              estop |-> manager'.state = "ESTOP", age |-> 0] \in FeedbackPacket
        OBVIOUS
    <2>4. feedback' \in Seq(FeedbackPacket)
        BY <1>2, <2>3, AppendProperties DEF FollowerCycle, TypeOK
    <2>5. idle' \in 0 .. IdleLimit + 1
        <3>1. idle' \in {0, idle}
            BY <1>2, Zenon DEF FollowerCycle
        <3>2. 0 \in 0 .. IdleLimit + 1
            BY Limits
        <3> QED
            BY <1>h, <3>1, <3>2, Zenon
    <2>6. ran' \in [{"leader", "follower"} -> BOOLEAN]
        BY <1>2 DEF FollowerCycle, TypeOK
    <2>7. overdue' \in 0 .. 2
        <3>1. overdue' = overdue \/ (overdue < 2 /\ overdue' = overdue + 1)
            BY <1>2, Zenon DEF FollowerCycle
        <3> QED
            BY <1>h, <3>1
    <2>8. target' \in [taken : BOOLEAN, has : BOOLEAN, pkt : Packet]
        BY <1>2, <1>p DEF FollowerCycle
    <2> QED
        BY <1>2, <2>1, <2>2, <2>4, <2>5, <2>6, <2>7, <2>8 DEF FollowerCycle, TypeOK
<1>3. CASE DeliverCommand
    <2>1. commands' \in Seq(CommandPacket) /\ Head(commands) \in CommandPacket
        BY <1>3, HeadTailProperties DEF DeliverCommand, TypeOK
    <2>2. buf' \in [has : BOOLEAN, pkt : Packet, age : Age]
        BY <1>3, <2>1 DEF DeliverCommand, TypeOK, Packet, Age
    <2> QED
        BY <1>3, <2>1, <2>2 DEF DeliverCommand, TypeOK
<1>4. CASE DeliverFeedback
    <2>1. feedback' \in Seq(FeedbackPacket) /\ Head(feedback) \in FeedbackPacket
        BY <1>4, HeadTailProperties DEF DeliverFeedback, TypeOK
    <2>2. fb' \in [has : BOOLEAN, live : BOOLEAN, estop : BOOLEAN, age : 0 .. MaxAge + 1]
        BY <1>4, <2>1 DEF DeliverFeedback, TypeOK
    <2> QED
        BY <1>4, <2>1, <2>2 DEF DeliverFeedback, TypeOK
<1>5. CASE Lose
    <2>1. commands' \in Seq(CommandPacket) /\ feedback' \in Seq(FeedbackPacket)
        <3>1. commands \in Seq(CommandPacket) /\ feedback \in Seq(FeedbackPacket)
            BY DEF TypeOK
        <3>2. CASE commands # <<>> /\ commands' = Tail(commands) /\ UNCHANGED feedback
            BY <3>1, <3>2, HeadTailProperties
        <3>3. CASE feedback # <<>> /\ feedback' = Tail(feedback) /\ UNCHANGED commands
            BY <3>1, <3>3, HeadTailProperties
        <3> QED
            BY <1>5, <3>2, <3>3 DEF Lose
    <2> QED
        BY <1>5, <2>1 DEF Lose, TypeOK
<1>6. CASE Tick
    <2>1. commands' \in Seq(CommandPacket) /\ feedback' \in Seq(FeedbackPacket)
        BY <1>6, OlderPackets
    <2>2. fb' \in [has : BOOLEAN, live : BOOLEAN, estop : BOOLEAN, age : 0 .. MaxAge + 1]
        BY <1>6, <1>f DEF Tick
    <2>3. buf' \in [has : BOOLEAN, pkt : Packet, age : Age]
        BY <1>6, <1>b DEF Tick, Age
    <2>4. nextGate' \in 0 .. GatePeriod
        <3>1. nextGate' = IF nextGate = 0 THEN 0 ELSE nextGate - 1
            BY <1>6 DEF Tick
        <3> QED
            BY <1>n, <3>1
    <2>5. /\ heard' \in 0 .. QuietLimit + 1 /\ quiet' \in 0 .. QuietLimit + 1
          /\ idle' \in 0 .. IdleLimit + 1
        BY <1>6, <1>h, Limits DEF Tick
    <2>7. leader' \in LeaderSet
        <3>1. CASE Missed
            <4>1. leader' = [leader EXCEPT !.behind = leader.behind + 1]
                  /\ leader.behind < MaxMove
                BY <1>6, <3>1 DEF Tick
            <4> QED
                BY <1>l, <4>1 DEF LeaderSet
        <3>2. CASE ~Missed
            BY <1>6, <1>l, <3>2 DEF Tick
        <3> QED
            BY <3>1, <3>2
    <2>6. ran' \in [{"leader", "follower"} -> BOOLEAN]
        BY <1>6 DEF Tick, TypeOK
    <2> QED
        BY <1>6, <2>1, <2>2, <2>3, <2>4, <2>5, <2>6, <2>7 DEF Tick, TypeOK, LeaderSet
<1>7. CASE Event
    <2>1. events' \in 0 .. MaxEvents
        BY <1>7 DEF Event, TypeOK
    <2>2. CASE LeaderCommand
        <3>1. GateOk \in BOOLEAN
            BY DEF GateOk, Fresh, TypeOK
        <3>2. leader' \in LeaderSet
            <4>1. CASE leader' = [leader EXCEPT !.enabled = TRUE]
                BY <1>l, <4>1 DEF LeaderSet
            <4>2. CASE leader' = [leader EXCEPT !.enabled = FALSE, !.requested = FALSE]
                BY <1>l, <4>2 DEF LeaderSet
            <4>3. CASE leader' = [leader EXCEPT !.requested = @ \/ (leader.enabled /\ GateOk)]
                <5>1. (leader.requested \/ (leader.enabled /\ GateOk)) \in BOOLEAN
                    OBVIOUS
                <5> QED
                    BY <1>l, <4>3, <5>1 DEF LeaderSet
            <4>4. CASE leader' = [leader EXCEPT !.requested = FALSE]
                BY <1>l, <4>4 DEF LeaderSet
            <4> QED
                BY <2>2, <4>1, <4>2, <4>3, <4>4 DEF LeaderCommand
        <3> QED
            BY <2>1, <2>2, <3>2 DEF LeaderCommand, TypeOK, LeaderSet
    <2>9. CASE LeaderMoves
        <3>1. leader' \in LeaderSet
            BY <1>l, <2>9 DEF LeaderMoves, LeaderSet
        <3> QED
            BY <2>1, <2>9, <3>1 DEF LeaderMoves, TypeOK, LeaderSet
    <2>3. NewEngager \in Engager
        BY DEF NewEngager, Engager, EngagerState
    <2>4. CASE LeaderEnds
        <3>1. leader' \in LeaderSet
            <4>1. NewLeader(FALSE) \in LeaderSet
                BY <2>3 DEF NewLeader, LeaderSet
            <4> QED
                BY <2>4, <4>1 DEF LeaderEnds, LeaderSet
        <3>2. fb' \in [has : BOOLEAN, live : BOOLEAN, estop : BOOLEAN, age : 0 .. MaxAge + 1]
            BY <2>4 DEF LeaderEnds, NoFeedback
        <3> QED
            BY <1>s, <2>1, <2>4, <3>1, <3>2 DEF LeaderEnds, TypeOK, LeaderSet
    <2>5. CASE LeaderStarts
        <3>1. leader' \in LeaderSet
            BY <2>3, <2>5 DEF LeaderStarts, NewLeader, LeaderSet
        <3> QED
            BY <2>1, <2>5, <3>1 DEF LeaderStarts, TypeOK, LeaderSet
    <2>6. CASE FollowerCommand
        BY <2>1, <2>6, ManagerTypes DEF FollowerCommand, TypeOK
    <2>7. CASE FollowerEnds
        <3>1. buf' \in [has : BOOLEAN, pkt : Packet, age : Age]
            BY <2>7 DEF FollowerEnds, NoCommand, NoPacket, Packet, Age
        <3>2. manager' \in Manager
            BY <2>7, ManagerTypes DEF FollowerEnds, TypeOK
        <3> QED
            BY <1>p, <2>1, <2>7, <3>1, <3>2 DEF FollowerEnds, TypeOK
    <2>8. CASE FollowerStarts
        BY <2>1, <2>8 DEF FollowerStarts, NewFollower, TypeOK
    <2> QED
        BY <1>7, <2>2, <2>4, <2>5, <2>6, <2>7, <2>8, <2>9 DEF Event
<1>8. CASE UNCHANGED vars
    BY <1>8 DEF TypeOK, vars
<1> QED
    BY <1>1, <1>2, <1>3, <1>4, <1>5, <1>6, <1>7, <1>8, <1>9, <1>10, <1>11 DEF Next

----------------------------------------------------------------------------
(* The commands in flight.                                                 *)

\* The sequence of packets and its elements.
LEMMA InFlight ==
    ASSUME TypeOK
    PROVE  /\ commands \in Seq(CommandPacket)
           /\ Len(commands) \in Nat
           /\ DOMAIN commands = 1 .. Len(commands)
           /\ commands = <<>> <=> Len(commands) = 0
           /\ \A i \in 1 .. Len(commands) :
                 commands[i].enable \in BOOLEAN /\ commands[i].age \in 0 .. MaxDelay
<1>1. commands \in Seq(CommandPacket)
    BY DEF TypeOK, CommandPacket
<1>2. Len(commands) \in Nat /\ DOMAIN commands = 1 .. Len(commands)
    BY <1>1, LenProperties
<1>3. commands = <<>> <=> Len(commands) = 0
    BY <1>1, EmptySeq
<1>4. \A i \in 1 .. Len(commands) : commands[i] \in CommandPacket
    BY <1>1, ElementOfSeq
<1>5. \A i \in 1 .. Len(commands) :
          commands[i].enable \in BOOLEAN /\ commands[i].age \in 0 .. MaxDelay
    BY <1>4 DEF CommandPacket
<1> QED
    BY <1>1, <1>2, <1>3, <1>5

\* The first packet arrives or is lost.
LEMMA OneLess ==
    ASSUME TypeOK, commands # <<>>, commands' = Tail(commands)
    PROVE  /\ Len(commands') = Len(commands) - 1
           /\ \A i \in 1 .. Len(commands) - 1 : commands'[i] = commands[i + 1]
           /\ Head(commands) = commands[1]
           /\ 1 \in 1 .. Len(commands)
    BY InFlight, HeadTailProperties

\* The leader sends a packet.
LEMMA OneMore ==
    ASSUME TypeOK, LeaderCycle
    PROVE  /\ Len(commands') = Len(commands) + 1
           /\ \A i \in 1 .. Len(commands) : commands'[i] = commands[i]
           /\ commands'[Len(commands) + 1].enable = leader.enabled
           /\ commands'[Len(commands) + 1].age = 0
<1> DEFINE p == [enable |-> leader.enabled, age |-> 0]
<1>1. p \in CommandPacket
    BY DEF TypeOK, CommandPacket
<1>2. commands' = Append(commands, p)
    BY DEF LeaderCycle
<1>3. commands \in Seq(CommandPacket)
    BY InFlight
<1>4. commands'[Len(commands) + 1] = p
    BY <1>1, <1>2, <1>3, AppendProperties
<1> QED
    BY <1>1, <1>2, <1>3, <1>4, AppendProperties

----------------------------------------------------------------------------
(* The age of the enabling packets.                                        *)

\* In every step the ages of the packets keep up with the time since the
\* leader last sent one, and last sent an enabling one.
LEMMA EnableStep ==
    ASSUME TypeOK, TypeOK', EnableAge, [Next]_vars
    PROVE  EnableAge'
<1>q. /\ quiet \in Nat /\ heard \in Nat
      /\ buf.age \in Nat /\ buf.age <= DisableAge
    BY Limits DEF TypeOK, Age
<1>d. DOMAIN commands = 1 .. Len(commands) /\ DOMAIN commands' = 1 .. Len(commands')
    <2>1. ASSUME TypeOK'
          PROVE  DOMAIN commands' = 1 .. Len(commands')
        <3>1. commands' \in Seq(CommandPacket)
            BY <2>1 DEF TypeOK, CommandPacket
        <3> QED
            BY <3>1, LenProperties
    <2> QED
        BY <2>1, InFlight
<1>1. CASE LeaderCycle
    <2>1. /\ quiet' = IF leader.enabled THEN 0 ELSE quiet
          /\ heard' = 0
          /\ buf' = buf
        BY <1>1 DEF LeaderCycle
    <2>2. ASSUME NEW i \in 1 .. Len(commands')
          PROVE  /\ heard' <= commands'[i].age
                 /\ commands'[i].enable => quiet' <= commands'[i].age
        <3>1. CASE i \in 1 .. Len(commands)
            BY <1>1, <1>d, <1>q, <2>1, <2>2, <3>1, InFlight, OneMore DEF EnableAge
        <3>2. CASE i = Len(commands) + 1
            BY <1>1, <2>1, <2>2, <3>2, OneMore
        <3> QED
            BY <1>1, <3>1, <3>2, InFlight, OneMore
    <2> QED
        BY <1>d, <1>q, <2>1, <2>2 DEF EnableAge
<1>2. CASE DeliverCommand
    <2>1. commands # <<>> /\ commands' = Tail(commands) /\ UNCHANGED <<quiet, heard>>
        BY <1>2 DEF DeliverCommand
    <2>2. ASSUME NEW i \in 1 .. Len(commands')
          PROVE  /\ heard' <= commands'[i].age
                 /\ commands'[i].enable => quiet' <= commands'[i].age
        BY <1>d, <2>1, <2>2, InFlight, OneLess DEF EnableAge
    <2>3. CASE follower.up
        <3>1. /\ buf'.age = 0
              /\ buf'.pkt.enable = commands[1].enable
            BY <1>2, <2>1, <2>3, OneLess DEF DeliverCommand
        <3>2. heard <= MaxDelay /\ (commands[1].enable => quiet <= MaxDelay)
            BY <1>d, <1>q, <2>1, InFlight, OneLess DEF EnableAge
        <3> QED
            BY <1>d, <2>1, <2>2, <3>1, <3>2 DEF EnableAge
    <2>4. CASE ~follower.up
        BY <1>2, <1>d, <2>1, <2>2, <2>4 DEF EnableAge, DeliverCommand
    <2> QED
        BY <2>3, <2>4
<1>3. CASE Lose
    <2>1. UNCHANGED <<quiet, heard, buf>>
        BY <1>3 DEF Lose
    <2>2. CASE UNCHANGED commands
        BY <2>1, <2>2 DEF EnableAge
    <2>3. CASE commands # <<>> /\ commands' = Tail(commands)
        <3>1. ASSUME NEW i \in 1 .. Len(commands')
              PROVE  /\ heard' <= commands'[i].age
                     /\ commands'[i].enable => quiet' <= commands'[i].age
            BY <1>d, <2>1, <2>3, <3>1, InFlight, OneLess DEF EnableAge
        <3> QED
            BY <1>d, <2>1, <3>1 DEF EnableAge
    <2> QED
        BY <1>3, <2>2, <2>3 DEF Lose
<1>4. CASE Tick
    <2>1. /\ quiet' \in Nat /\ quiet' <= quiet + 1
          /\ heard' \in Nat /\ heard' <= heard + 1
        BY <1>4, <1>q, Limits DEF Tick
    <2>2. ASSUME NEW i \in 1 .. Len(commands')
          PROVE  /\ heard' <= commands'[i].age
                 /\ commands'[i].enable => quiet' <= commands'[i].age
        <3>1. /\ i \in 1 .. Len(commands)
              /\ commands'[i].enable = commands[i].enable
              /\ commands'[i].age = commands[i].age + 1
            BY <1>4, OlderPackets
        <3>2. /\ heard <= commands[i].age /\ commands[i].age \in Nat
              /\ commands[i].enable => quiet <= commands[i].age
            BY <1>d, <3>1, InFlight DEF EnableAge
        <3>3. heard' <= commands'[i].age
            BY <1>q, <2>1, <3>1, <3>2, SMTT(30)
        <3>4. commands'[i].enable => quiet' <= commands'[i].age
            BY <1>q, <2>1, <3>1, <3>2, SMTT(30)
        <3> QED
            BY <3>3, <3>4
    <2>3. ASSUME buf'.has, buf'.age < DisableAge
          PROVE  /\ heard' <= MaxDelay + buf'.age
                 /\ buf'.pkt.enable => quiet' <= MaxDelay + buf'.age
        <3>1. buf.has
            BY <1>4, <2>3 DEF Tick
        <3>2. buf' = [buf EXCEPT !.age = IF buf.age < DisableAge THEN buf.age + 1 ELSE DisableAge]
            BY <1>4, <3>1 DEF Tick
        <3>3. /\ buf'.pkt = buf.pkt
              /\ buf'.age = IF buf.age < DisableAge THEN buf.age + 1 ELSE DisableAge
            BY <3>2 DEF TypeOK
        <3>4. buf.age < DisableAge /\ buf'.age = buf.age + 1
            BY <2>3, <3>3
        <3>5. /\ heard <= MaxDelay + buf.age
              /\ buf.pkt.enable => quiet <= MaxDelay + buf.age
            BY <3>1, <3>4 DEF EnableAge
        <3> QED
            BY <1>q, <2>1, <3>3, <3>4, <3>5
    <2> QED
        BY <1>d, <2>2, <2>3 DEF EnableAge
<1>5. CASE Event
    <2>1. UNCHANGED <<commands, quiet, heard>> /\ (UNCHANGED buf \/ buf' = NoCommand)
        BY <1>5 DEF Event, LeaderCommand, LeaderMoves, LeaderEnds, LeaderStarts,
                    FollowerCommand, FollowerEnds, FollowerStarts
    <2> QED
        BY <2>1 DEF EnableAge, NoCommand
<1>6. CASE \/ LeaderGet \/ LeaderMoveEnds \/ FollowerGet \/ FollowerCycle
           \/ DeliverFeedback \/ UNCHANGED vars
    <2>1. UNCHANGED <<commands, quiet, heard, buf>>
        BY <1>6 DEF LeaderGet, LeaderMoveEnds, FollowerGet, FollowerCycle,
                    DeliverFeedback, vars
    <2> QED
        BY <2>1 DEF EnableAge
<1> QED
    BY <1>1, <1>2, <1>3, <1>4, <1>5, <1>6 DEF Next

(***************************************************************************)
(* Under require_enable a cycle that ends in a commanding state has taken  *)
(* an enabling packet, and one has arrived within the disable threshold.   *)
(***************************************************************************)
LEMMA Commanding ==
    ASSUME TypeOK, CommandAge, FollowerCycle, RequireEnable,
           manager'.state \in CommandStates
    PROVE  /\ target.has /\ target.pkt.enable
           /\ buf.has /\ buf.age < DisableAge
<1>1. /\ target.taken
      /\ manager' = IF target.has THEN SafetyUpdate(manager, target.pkt, buf.age)
                    ELSE manager
    BY DEF FollowerCycle
<1>2. target.has
    BY <1>1 DEF CommandAge
<1>3. SafetyUpdate(manager, target.pkt, buf.age).state \in CommandStates
    BY <1>1, <1>2
<1>4. manager \in Manager /\ target.pkt \in Packet /\ buf.age \in Age
    BY DEF TypeOK
<1>5. target.pkt.enable /\ buf.age < DisableAge
    BY <1>3, <1>4, UpdateAuthority
<1> QED
    BY <1>2, <1>5 DEF CommandAge

\* Every step keeps a commanding follower within the limit.
LEMMA CommandStep ==
    ASSUME TypeOK, TypeOK', EnableAge, CommandAge, [Next]_vars
    PROVE  CommandAge'
<1>q. heard \in Nat /\ heard' \in Nat /\ QuietLimit \in Nat /\ buf.age \in Age
    BY Limits DEF TypeOK
<1>r. Done("follower") \in 0 .. 1 /\ Done("follower")' \in 0 .. 1
    BY DEF Done
<1>k. ASSUME UNCHANGED <<manager, follower, heard, ran, target>>, buf.has => buf'.has
      PROVE  CommandAge'
    BY <1>k DEF CommandAge, Done
<1>1. CASE LeaderCycle
    <2>1. /\ UNCHANGED <<manager, follower, buf, target>>
          /\ heard' = 0
          /\ Done("follower")' = Done("follower")
        BY <1>1, <1>q DEF LeaderCycle, Done, TypeOK
    <2> QED
        BY <1>q, <1>r, <2>1 DEF CommandAge
<1>2. CASE FollowerCycle
    <2>1. /\ UNCHANGED <<heard, buf>>
          /\ follower.up
          /\ target' = NoTarget
          /\ follower' = [follower EXCEPT !.commands = manager'.state \in CommandStates]
        BY <1>2 DEF FollowerCycle
    <2>2. follower'.up /\ (follower'.commands => manager'.state \in CommandStates)
        BY <2>1 DEF TypeOK
    <2>3. ~target'.taken /\ ~target'.has
        BY <2>1 DEF NoTarget
    <2>4. ASSUME RequireEnable, manager'.state \in CommandStates
          PROVE  buf.has /\ heard + 1 <= QuietLimit
        <3>1. buf.has /\ buf.age < DisableAge
            BY <1>2, <2>4, Commanding
        <3>2. heard <= MaxDelay + buf.age
            BY <3>1 DEF EnableAge
        <3> QED
            BY <1>q, <3>1, <3>2 DEF QuietLimit, Age
    <2> QED
        BY <1>q, <1>r, <2>1, <2>2, <2>3, <2>4 DEF CommandAge
<1>3. CASE FollowerGet
    <2>1. /\ UNCHANGED <<manager, follower, heard, ran, buf>>
          /\ target'.has = buf.has
        BY <1>3 DEF FollowerGet
    <2> QED
        BY <2>1 DEF CommandAge, Done
<1>4. CASE Tick
    <2>1. /\ UNCHANGED <<manager, follower, target>>
          /\ follower.up => Done("follower") = 1
        BY <1>4 DEF Tick, Done
    <2>2. heard' <= heard + 1
        BY <1>4, <1>q DEF Tick
    <2>3. Done("follower")' = 0
        BY <1>4 DEF Tick, Done, TypeOK
    <2>4. buf.has => buf'.has
        BY <1>4 DEF Tick, TypeOK
    <2> QED
        BY <1>q, <2>1, <2>2, <2>3, <2>4 DEF CommandAge
<1>5. CASE Event
    <2>1. CASE LeaderCommand \/ LeaderMoves \/ LeaderEnds \/ LeaderStarts
        BY <1>k, <2>1 DEF LeaderCommand, LeaderMoves, LeaderEnds, LeaderStarts
    <2>2. CASE FollowerCommand
        <3>1. RequireEnable => manager'.state \notin CommandStates
            BY <2>2, StopAndReset DEF FollowerCommand
        <3> QED
            BY <2>2, <3>1 DEF FollowerCommand, CommandAge, Done
    <2>3. CASE FollowerEnds
        <3>1. RequireEnable => manager'.state \notin CommandStates
            BY <2>3 DEF FollowerEnds, NewManager, RestState, CommandStates
        <3>2. ~target'.has /\ ~follower'.commands
            BY <2>3 DEF FollowerEnds, NoTarget
        <3> QED
            BY <3>1, <3>2 DEF CommandAge
    <2>4. CASE FollowerStarts
        <3>1. UNCHANGED <<manager, buf, target>> /\ follower'.up /\ ~follower'.commands
            BY <2>4 DEF FollowerStarts, NewFollower
        <3> QED
            BY <3>1 DEF CommandAge
    <2> QED
        BY <1>5, <2>1, <2>2, <2>3, <2>4 DEF Event
<1>6. CASE \/ LeaderGet \/ LeaderMoveEnds \/ DeliverCommand \/ DeliverFeedback \/ Lose
           \/ UNCHANGED vars
    <2>1. UNCHANGED <<manager, follower, heard, ran, target>> /\ (buf.has => buf'.has)
        BY <1>6, SMTT(30) DEF LeaderGet, LeaderMoveEnds, DeliverCommand, DeliverFeedback,
                              Lose, vars
    <2> QED
        BY <1>k, <2>1
<1> QED
    BY <1>1, <1>2, <1>3, <1>4, <1>5, <1>6 DEF Next

(***************************************************************************)
(* A motor command comes too late at most once after the leader's last     *)
(* enabling packet: the packet in the buffer that made it look recent does *)
(* not enable, and no other is left.                                       *)
(***************************************************************************)
LEMMA OverdueStep ==
    ASSUME TypeOK, TypeOK', EnableAge, CommandAge, OverdueOnce, RequireEnable, [Next]_vars
    PROVE  OverdueOnce'
<1>q. /\ quiet \in 0 .. QuietLimit + 1 /\ overdue \in 0 .. 2
      /\ QuietLimit \in Nat /\ buf.age \in Age
    BY Limits DEF TypeOK
<1>k. ASSUME UNCHANGED <<overdue, quiet>>,
             buf' = buf \/ buf' = NoCommand, target' = target \/ target' = NoTarget
      PROVE  OverdueOnce'
    <2>1. (buf'.has => buf' = buf) /\ (target'.has => target' = target)
        BY <1>k DEF NoCommand, NoTarget
    <2> QED
        BY <1>k, <2>1 DEF OverdueOnce
<1>1. CASE LeaderCycle
    <2>1. CASE leader.enabled
        BY <1>1, <2>1 DEF LeaderCycle, OverdueOnce
    <2>2. CASE ~leader.enabled
        BY <1>1, <1>k, <2>2 DEF LeaderCycle
    <2> QED
        BY <2>1, <2>2
<1>2. CASE FollowerCycle
    <2>1. UNCHANGED <<quiet, buf>> /\ target' = NoTarget
        BY <1>2 DEF FollowerCycle
    <2>2. CASE overdue' = overdue
        BY <1>k, <2>1, <2>2
    <2>3. CASE overdue' # overdue
        <3>1. /\ manager'.state \in CommandStates /\ quiet > QuietLimit
              /\ overdue' = overdue + 1
            BY <1>2, <2>3, Zenon DEF FollowerCycle
        <3>2. target.has /\ target.pkt.enable /\ buf.has /\ buf.age < DisableAge
            BY <1>2, <3>1, Commanding
        <3>3. overdue' = 1
            BY <1>q, <3>1, <3>2 DEF OverdueOnce
        <3>4. ~buf.pkt.enable
            BY <1>q, <3>1, <3>2 DEF EnableAge, QuietLimit, Age
        <3>5. ~target'.has
            BY <2>1 DEF NoTarget
        <3> QED
            BY <2>1, <3>1, <3>3, <3>4, <3>5 DEF OverdueOnce
    <2> QED
        BY <2>2, <2>3
<1>3. CASE FollowerGet
    <2>1. /\ UNCHANGED <<overdue, quiet, buf>>
          /\ target'.has = buf.has /\ target'.pkt = buf.pkt
        BY <1>3 DEF FollowerGet
    <2> QED
        BY <2>1 DEF OverdueOnce
<1>4. CASE DeliverCommand
    <2>1. UNCHANGED <<overdue, quiet, target>> /\ commands # <<>> /\ commands' = Tail(commands)
        BY <1>4 DEF DeliverCommand
    <2>2. CASE ~follower.up
        BY <1>4, <1>k, <2>2 DEF DeliverCommand
    <2>3. CASE follower.up
        <3>1. buf'.pkt.enable = commands[1].enable
            BY <1>4, <2>1, <2>3, OneLess DEF DeliverCommand
        <3>2. commands[1].enable => quiet <= MaxDelay
            BY <1>q, <2>1, InFlight, OneLess DEF EnableAge
        <3>3. quiet > QuietLimit => ~buf'.pkt.enable
            BY <1>q, <3>1, <3>2 DEF QuietLimit
        <3> QED
            BY <2>1, <3>3 DEF OverdueOnce
    <2> QED
        BY <2>2, <2>3
<1>5. CASE Tick
    <2>1. UNCHANGED <<overdue, target>>
        BY <1>5 DEF Tick
    <2>2. quiet > QuietLimit => quiet' > QuietLimit
        BY <1>5, <1>q DEF Tick
    <2>3. buf'.has => buf.has /\ buf'.pkt = buf.pkt
        BY <1>5 DEF Tick, TypeOK
    <2> QED
        BY <2>1, <2>2, <2>3 DEF OverdueOnce
<1>6. CASE Event
    BY <1>6, <1>k DEF Event, LeaderCommand, LeaderMoves, LeaderEnds, LeaderStarts,
                      FollowerCommand, FollowerEnds, FollowerStarts
<1>7. CASE \/ LeaderGet \/ LeaderMoveEnds \/ DeliverFeedback \/ Lose \/ UNCHANGED vars
    BY <1>7, <1>k DEF LeaderGet, LeaderMoveEnds, DeliverFeedback, Lose, vars
<1> QED
    BY <1>1, <1>2, <1>3, <1>4, <1>5, <1>6, <1>7 DEF Next

----------------------------------------------------------------------------
(* The healthy link.                                                       *)

\* Without trouble every step keeps the packets in order and the manager
\* out of FAULT; trouble does not go away.
LEMMA HealthStep ==
    ASSUME TypeOK, TypeOK', CommandAge, ~trouble => Healthy, [Next]_vars, ~trouble'
    PROVE  Healthy'
<1>d. /\ DOMAIN commands = 1 .. Len(commands) /\ Len(commands) \in Nat
      /\ DOMAIN commands' = 1 .. Len(commands') /\ Len(commands') \in Nat
      /\ commands' = <<>> <=> Len(commands') = 0
    <2>1. commands' \in Seq(CommandPacket)
        BY DEF TypeOK, CommandPacket
    <2> QED
        BY <2>1, InFlight, LenProperties, EmptySeq
<1>a. buf.age \in Age /\ target.pkt \in Packet /\ manager \in Manager
    BY DEF TypeOK
<1>l. leader \in LeaderSet
    BY DEF TypeOK, LeaderSet
<1>t. ~trouble
    <2>1. CASE LeaderGet \/ LeaderCycle \/ LeaderMoveEnds \/ FollowerGet \/ FollowerCycle
        <3>1. UNCHANGED trouble
            BY <2>1, Zenon DEF LeaderGet, LeaderCycle, LeaderMoveEnds, FollowerGet,
                               FollowerCycle
        <3> QED
            BY <3>1
    <2>2. CASE DeliverCommand \/ DeliverFeedback \/ Lose \/ Tick
        BY <2>2 DEF DeliverCommand, DeliverFeedback, Lose, Tick
    <2>3. CASE Event
        BY <2>3 DEF Event, LeaderCommand, LeaderMoves, LeaderEnds, LeaderStarts,
                    FollowerCommand, FollowerEnds, FollowerStarts
    <2>4. CASE UNCHANGED vars
        BY <2>4 DEF vars
    <2> QED
        BY <2>1, <2>2, <2>3, <2>4 DEF Next
<1>h. Healthy
    BY <1>t
<1>r. Done("leader") \in 0 .. 1 /\ Done("leader")' \in 0 .. 1
    BY DEF Done
<1>1. CASE LeaderCycle
    <2>a. PICK al \in BOOLEAN :
              leader' = [leader EXCEPT !.eng = Update(@, Want, al),
                                       !.requested = @ /\ (nextGate = 0 => GateOk),
                                       !.behind = leader.behind - Done("leader")]
        BY <1>1, Zenon DEF LeaderCycle
    <2>b. /\ leader.up /\ follower.up /\ ~leader.busy /\ leader.behind = 0
          /\ UNCHANGED <<buf, manager, follower>>
          /\ Done("leader") = 0 /\ Done("leader")' = 1
        BY <1>1, <1>h DEF LeaderCycle, LeaderDue, Healthy, Done, TypeOK
    <2>c. leader'.up = leader.up /\ leader'.busy = leader.busy /\ leader'.behind = 0
        <3>1. leader.behind - Done("leader") = 0
            BY <2>b
        <3>2. leader' = [leader EXCEPT !.eng = Update(leader.eng, Want, al),
                             !.requested = leader.requested /\ (nextGate = 0 => GateOk),
                             !.behind = 0]
            BY <2>a, <3>1, Zenon
        <3> HIDE DEF Update, Want, GateOk
        <3> QED
            BY <1>l, <3>2 DEF LeaderSet
    <2>1. /\ leader'.up /\ follower'.up /\ ~leader'.busy /\ leader'.behind = 0
          /\ buf' = buf /\ manager' = manager
          /\ Done("leader") = 0 /\ Done("leader")' = 1
        BY <2>b, <2>c
    <2>2. ASSUME NEW i \in 1 .. Len(commands'), i + 1 \in 1 .. Len(commands')
          PROVE  commands'[i].age <= commands'[i + 1].age + 1
        <3>1. i \in 1 .. Len(commands) /\ commands'[i] = commands[i]
            BY <1>1, <1>d, <2>2, OneMore
        <3>2. CASE i + 1 \in 1 .. Len(commands)
            BY <1>1, <1>d, <1>h, <3>1, <3>2, OneMore DEF Healthy
        <3>3. CASE i = Len(commands)
            BY <1>1, <1>d, <1>h, <2>1, <3>1, <3>3, OneMore, InFlight DEF Healthy
        <3>4. i = Len(commands) \/ i + 1 \in 1 .. Len(commands)
            <4>1. Len(commands) \in Nat /\ i \in Nat /\ 1 <= i /\ i <= Len(commands)
                BY <1>d, <3>1
            <4> QED
                BY <4>1
        <3> QED
            BY <3>2, <3>3, <3>4
    <2>3. commands' # <<>> /\ commands'[Len(commands')].age = 0
        BY <1>1, <1>d, OneMore
    <2>4. buf'.has => buf'.age <= commands'[1].age + 1
        <3>1. CASE commands = <<>>
            BY <1>1, <1>a, <1>d, <1>h, <2>1, <3>1, OneMore, InFlight DEF Healthy, Age
        <3>2. CASE commands # <<>>
            BY <1>1, <1>d, <1>h, <2>1, <3>2, OneMore, InFlight DEF Healthy
        <3> QED
            BY <3>1, <3>2
    <2> QED
        BY <1>d, <1>h, <2>1, <2>2, <2>3, <2>4 DEF Healthy
<1>2. CASE FollowerCycle
    <2>1. /\ UNCHANGED <<leader, commands, buf>>
          /\ Done("leader")' = Done("leader")
          /\ follower'.up
          /\ manager' = IF target.has THEN SafetyUpdate(manager, target.pkt, buf.age)
                        ELSE manager
        BY <1>2, <1>h DEF FollowerCycle, Healthy, Done, TypeOK
    <2>a. target.has => buf.has
        BY DEF CommandAge
    <2>2. buf.has => buf.age <= MaxDelay + 1
        <3>1. CASE commands = <<>>
            BY <1>a, <1>h, <1>r, <3>1 DEF Healthy, Age
        <3>2. CASE commands # <<>>
            BY <1>a, <1>d, <1>h, <3>2, InFlight DEF Healthy, Age
        <3> QED
            BY <3>1, <3>2
    <2>3. DisableAge > MaxDelay + 1 => manager'.state # "FAULT"
        BY <1>a, <1>h, <2>1, <2>2, <2>a, UpdateFaults DEF Healthy, Age
    <2> QED
        BY <1>h, <2>1, <2>3 DEF Healthy
<1>3. CASE DeliverCommand
    <2>1. /\ commands # <<>> /\ commands' = Tail(commands)
          /\ UNCHANGED <<leader, follower, manager, ran>>
          /\ buf'.age = 0
        BY <1>3, <1>h DEF DeliverCommand, Healthy
    <2>2. ASSUME NEW i \in 1 .. Len(commands'), i + 1 \in 1 .. Len(commands')
          PROVE  commands'[i].age <= commands'[i + 1].age + 1
        <3>1. /\ i + 1 \in 1 .. Len(commands)
              /\ (i + 1) + 1 \in 1 .. Len(commands)
              /\ commands'[i] = commands[i + 1]
              /\ commands'[i + 1] = commands[(i + 1) + 1]
            BY <1>d, <2>1, <2>2, OneLess
        <3> QED
            BY <1>d, <1>h, <3>1 DEF Healthy
    <2>3. ASSUME commands' # <<>>
          PROVE  /\ commands'[Len(commands')].age + Done("leader")' <= 1
                 /\ buf'.age <= commands'[1].age + 1
        <3>1. /\ commands'[Len(commands')] = commands[Len(commands)]
              /\ commands'[1] = commands[2] /\ 2 \in 1 .. Len(commands)
            BY <1>d, <2>1, <2>3, OneLess
        <3>2. Done("leader")' = Done("leader")
            BY <2>1 DEF Done
        <3> QED
            BY <1>h, <2>1, <3>1, <3>2, InFlight DEF Healthy
    <2> QED
        BY <1>d, <1>h, <1>r, <2>1, <2>2, <2>3 DEF Healthy
<1>4. CASE Tick
    <2>1. /\ UNCHANGED <<leader, follower, manager>>
          /\ Done("leader") = 1 /\ Done("leader")' = 0
          /\ commands' = <<>> <=> commands = <<>>
        BY <1>4, <1>d, <1>h, InFlight, OlderPackets DEF Tick, Missed, Healthy, Done, TypeOK
    <2>2. buf'.has => buf.has /\ buf'.age <= buf.age + 1 /\ buf'.age \in Nat
        <3>1. buf' = IF buf.has
                     THEN [buf EXCEPT !.age = IF buf.age < DisableAge
                                              THEN buf.age + 1 ELSE DisableAge]
                     ELSE buf
            BY <1>4 DEF Tick
        <3>2. buf \in [has : BOOLEAN, pkt : Packet, age : Age]
            BY DEF TypeOK
        <3> QED
            BY <3>1, <3>2 DEF Age
    <2>3. ASSUME NEW i \in 1 .. Len(commands'), i + 1 \in 1 .. Len(commands')
          PROVE  commands'[i].age <= commands'[i + 1].age + 1
        <3>1. /\ i \in 1 .. Len(commands) /\ i + 1 \in 1 .. Len(commands)
              /\ commands'[i].age = commands[i].age + 1
              /\ commands'[i + 1].age = commands[i + 1].age + 1
            BY <1>4, <2>3, OlderPackets
        <3>2. commands[i].age \in Nat /\ commands[i + 1].age \in Nat
            BY <3>1, InFlight
        <3>3. commands[i].age <= commands[i + 1].age + 1
            BY <1>d, <1>h, <3>1 DEF Healthy
        <3> QED
            BY <3>1, <3>2, <3>3, SMTT(30)
    <2>4. commands' # <<>> => commands'[Len(commands')].age + Done("leader")' <= 1
        BY <1>4, <1>d, <1>h, <2>1, InFlight, OlderPackets DEF Healthy
    <2>5. buf'.has => /\ commands' = <<>> => buf'.age + Done("leader")' <= 1
                      /\ commands' # <<>> => buf'.age <= commands'[1].age + 1
        BY <1>4, <1>a, <1>d, <1>h, <2>1, <2>2, InFlight, OlderPackets DEF Healthy, Age
    <2> QED
        BY <1>d, <1>h, <2>1, <2>3, <2>4, <2>5 DEF Healthy
<1>5. CASE Event
    <2>1. CASE LeaderCommand
        <3>1. /\ leader'.up = leader.up /\ leader'.busy = leader.busy
              /\ leader'.behind = leader.behind
            BY <1>l, <2>1 DEF LeaderCommand, LeaderSet
        <3> QED
            BY <1>h, <2>1, <3>1 DEF LeaderCommand, Healthy, Done
    <2>2. CASE FollowerCommand
        <3>1. manager'.state # "FAULT"
            BY <2>2, StopAndReset DEF FollowerCommand
        <3> QED
            BY <1>h, <2>2, <3>1 DEF FollowerCommand, Healthy, Done
    <2>3. ~(LeaderMoves \/ LeaderEnds \/ LeaderStarts \/ FollowerEnds \/ FollowerStarts)
        BY <1>h DEF LeaderMoves, LeaderEnds, LeaderStarts, FollowerEnds, FollowerStarts,
                    Healthy
    <2> QED
        BY <1>5, <2>1, <2>2, <2>3 DEF Event
<1>6. CASE LeaderGet \/ FollowerGet \/ DeliverFeedback \/ UNCHANGED vars
    <2>1. UNCHANGED <<leader, follower, manager, commands, buf, ran>>
        BY <1>6 DEF LeaderGet, FollowerGet, DeliverFeedback, vars
    <2> QED
        BY <1>h, <2>1 DEF Healthy, Done
<1>7. ~Lose /\ ~LeaderMoveEnds
    BY <1>h DEF Lose, LeaderMoveEnds, Healthy
<1> QED
    BY <1>1, <1>2, <1>3, <1>4, <1>5, <1>6, <1>7 DEF Next

----------------------------------------------------------------------------
(* The feedback in flight.                                                 *)

LEMMA FeedbackInFlight ==
    ASSUME TypeOK
    PROVE  /\ feedback \in Seq(FeedbackPacket)
           /\ Len(feedback) \in Nat
           /\ DOMAIN feedback = 1 .. Len(feedback)
           /\ feedback = <<>> <=> Len(feedback) = 0
           /\ \A i \in 1 .. Len(feedback) :
                 feedback[i].live \in BOOLEAN /\ feedback[i].age \in 0 .. MaxDelay
<1>1. feedback \in Seq(FeedbackPacket)
    BY DEF TypeOK, FeedbackPacket
<1>2. Len(feedback) \in Nat /\ DOMAIN feedback = 1 .. Len(feedback)
    BY <1>1, LenProperties
<1>3. feedback = <<>> <=> Len(feedback) = 0
    BY <1>1, EmptySeq
<1>4. \A i \in 1 .. Len(feedback) : feedback[i] \in FeedbackPacket
    BY <1>1, ElementOfSeq
<1>5. \A i \in 1 .. Len(feedback) :
          feedback[i].live \in BOOLEAN /\ feedback[i].age \in 0 .. MaxDelay
    BY <1>4 DEF FeedbackPacket
<1> QED
    BY <1>1, <1>2, <1>3, <1>5

\* The first feedback packet arrives or is lost.
LEMMA FeedbackLess ==
    ASSUME TypeOK, feedback # <<>>, feedback' = Tail(feedback)
    PROVE  /\ Len(feedback') = Len(feedback) - 1
           /\ \A i \in 1 .. Len(feedback) - 1 : feedback'[i] = feedback[i + 1]
           /\ Head(feedback) = feedback[1]
           /\ 1 \in 1 .. Len(feedback)
    BY FeedbackInFlight, HeadTailProperties

\* The follower reports its state.
LEMMA FeedbackMore ==
    ASSUME TypeOK, FollowerCycle
    PROVE  /\ Len(feedback') = Len(feedback) + 1
           /\ \A i \in 1 .. Len(feedback) : feedback'[i] = feedback[i]
           /\ feedback'[Len(feedback) + 1].live => manager'.state = "ACTIVE"
           /\ feedback'[Len(feedback) + 1].age = 0
<1> DEFINE p == [live |-> manager'.state = "ACTIVE", estop |-> manager'.state = "ESTOP",
                 age |-> 0]
<1>1. p \in FeedbackPacket
    BY DEF FeedbackPacket
<1>2. feedback' = Append(feedback, p)
    BY DEF FollowerCycle
<1>3. feedback \in Seq(FeedbackPacket)
    BY FeedbackInFlight
<1>4. feedback'[Len(feedback) + 1] = p
    BY <1>1, <1>2, <1>3, AppendProperties
<1>5. p.live => manager'.state = "ACTIVE"
    OBVIOUS
<1>6. p.age = 0
    OBVIOUS
<1> HIDE DEF p
<1> QED
    BY <1>1, <1>2, <1>3, <1>4, <1>5, <1>6, AppendProperties

\* In every step the ages of the feedback that reports an ACTIVE follower
\* keep up with the time since it last was.
LEMMA LiveStep ==
    ASSUME TypeOK, TypeOK', LiveAge, [Next]_vars
    PROVE  LiveAge'
<1>q. idle \in Nat /\ fb.age \in Nat /\ fb.age <= MaxAge + 1
    BY Limits DEF TypeOK
<1>d. DOMAIN feedback = 1 .. Len(feedback) /\ DOMAIN feedback' = 1 .. Len(feedback')
    <2>1. ASSUME TypeOK'
          PROVE  DOMAIN feedback' = 1 .. Len(feedback')
        <3>1. feedback' \in Seq(FeedbackPacket)
            BY <2>1 DEF TypeOK, FeedbackPacket
        <3> QED
            BY <3>1, LenProperties
    <2> QED
        BY <2>1, FeedbackInFlight
<1>1. CASE FollowerCycle
    <2>1. /\ idle' = IF manager'.state = "ACTIVE" THEN 0 ELSE idle
          /\ fb' = fb
        BY <1>1 DEF FollowerCycle
    <2>2. ASSUME NEW i \in 1 .. Len(feedback'), feedback'[i].live
          PROVE  idle' <= feedback'[i].age
        <3>1. CASE i \in 1 .. Len(feedback)
            BY <1>1, <1>d, <1>q, <2>1, <2>2, <3>1, FeedbackInFlight, FeedbackMore DEF LiveAge
        <3>2. CASE i = Len(feedback) + 1
            BY <1>1, <2>1, <2>2, <3>2, FeedbackMore
        <3> QED
            BY <1>1, <3>1, <3>2, FeedbackInFlight, FeedbackMore
    <2> QED
        BY <1>d, <1>q, <2>1, <2>2 DEF LiveAge
<1>2. CASE DeliverFeedback
    <2>1. feedback # <<>> /\ feedback' = Tail(feedback) /\ idle' = idle
        BY <1>2 DEF DeliverFeedback
    <2>2. ASSUME NEW i \in 1 .. Len(feedback'), feedback'[i].live
          PROVE  idle' <= feedback'[i].age
        BY <1>d, <2>1, <2>2, FeedbackInFlight, FeedbackLess DEF LiveAge
    <2>3. CASE leader.up
        <3>1. fb'.age = 0 /\ fb'.live = feedback[1].live
            BY <1>2, <2>1, <2>3, FeedbackLess DEF DeliverFeedback
        <3>2. feedback[1].live => idle <= MaxDelay
            BY <1>d, <1>q, <2>1, FeedbackInFlight, FeedbackLess DEF LiveAge
        <3> QED
            BY <1>d, <2>1, <2>2, <3>1, <3>2 DEF LiveAge
    <2>4. CASE ~leader.up
        BY <1>2, <1>d, <2>1, <2>2, <2>4 DEF LiveAge, DeliverFeedback
    <2> QED
        BY <2>3, <2>4
<1>3. CASE Lose
    <2>1. UNCHANGED <<idle, fb>>
        BY <1>3 DEF Lose
    <2>2. CASE UNCHANGED feedback
        BY <2>1, <2>2 DEF LiveAge
    <2>3. CASE feedback # <<>> /\ feedback' = Tail(feedback)
        <3>1. ASSUME NEW i \in 1 .. Len(feedback'), feedback'[i].live
              PROVE  idle' <= feedback'[i].age
            BY <1>d, <2>1, <2>3, <3>1, FeedbackInFlight, FeedbackLess DEF LiveAge
        <3> QED
            BY <1>d, <2>1, <3>1 DEF LiveAge
    <2> QED
        BY <1>3, <2>2, <2>3 DEF Lose
<1>4. CASE Tick
    <2>1. idle' \in Nat /\ idle' <= idle + 1
        BY <1>4, <1>q, Limits DEF Tick
    <2>2. ASSUME NEW i \in 1 .. Len(feedback'), feedback'[i].live
          PROVE  idle' <= feedback'[i].age
        <3>1. /\ i \in 1 .. Len(feedback)
              /\ feedback'[i].live = feedback[i].live
              /\ feedback'[i].age = feedback[i].age + 1
            BY <1>4, OlderPackets
        <3>2. idle <= feedback[i].age /\ feedback[i].age \in Nat
            BY <1>d, <2>2, <3>1, FeedbackInFlight DEF LiveAge
        <3> QED
            BY <1>q, <2>1, <3>1, <3>2, SMTT(30)
    <2>3. ASSUME fb'.has, fb'.live, fb'.age <= MaxAge
          PROVE  idle' <= MaxDelay + fb'.age
        <3>1. fb.has
            BY <1>4, <2>3 DEF Tick
        <3>2. fb' = [fb EXCEPT !.age = IF fb.age < MaxAge + 1 THEN fb.age + 1 ELSE MaxAge + 1]
            BY <1>4, <3>1 DEF Tick
        <3>3. /\ fb'.live = fb.live
              /\ fb'.age = IF fb.age < MaxAge + 1 THEN fb.age + 1 ELSE MaxAge + 1
            BY <3>2 DEF TypeOK
        <3>4. fb.age <= MaxAge /\ fb'.age = fb.age + 1
            BY <1>q, <2>3, <3>3
        <3>5. idle <= MaxDelay + fb.age
            BY <2>3, <3>1, <3>3, <3>4 DEF LiveAge
        <3> QED
            BY <1>q, <2>1, <3>4, <3>5
    <2> QED
        BY <1>d, <2>2, <2>3 DEF LiveAge
<1>5. CASE Event
    <2>1. UNCHANGED <<feedback, idle>> /\ (UNCHANGED fb \/ fb' = NoFeedback)
        BY <1>5 DEF Event, LeaderCommand, LeaderMoves, LeaderEnds, LeaderStarts,
                    FollowerCommand, FollowerEnds, FollowerStarts
    <2> QED
        BY <2>1 DEF LiveAge, NoFeedback
<1>6. CASE \/ LeaderGet \/ LeaderCycle \/ LeaderMoveEnds \/ FollowerGet
           \/ DeliverCommand \/ UNCHANGED vars
    <2>1. UNCHANGED <<feedback, idle, fb>>
        BY <1>6, Zenon DEF LeaderGet, LeaderCycle, LeaderMoveEnds, FollowerGet,
                           DeliverCommand, vars
    <2> QED
        BY <2>1 DEF LiveAge
<1> QED
    BY <1>1, <1>2, <1>3, <1>4, <1>5, <1>6 DEF Next

----------------------------------------------------------------------------
(* The force of the engager.                                               *)

\* Periods, counted in units of force.
LEMMA Product ==
    /\ \A a, b \in Nat : a <= b => a * DownStep <= b * DownStep
    /\ \A a, b \in Nat : a * DownStep < b * DownStep => a < b
    /\ \A a \in Nat : a * DownStep \in Nat /\ (a + 1) * DownStep = a * DownStep + DownStep
<1>1. ASSUME NEW a \in Nat, NEW b \in Nat, a <= b PROVE a * DownStep <= b * DownStep
    BY <1>1
<1>2. \A a \in Nat : a * DownStep \in Nat /\ (a + 1) * DownStep = a * DownStep + DownStep
    OBVIOUS
<1>3. ASSUME NEW a \in Nat, NEW b \in Nat, a * DownStep < b * DownStep PROVE a < b
    BY <1>1, <1>2, <1>3
<1> QED
    BY <1>1, <1>2, <1>3

(***************************************************************************)
(* What update() does with the force: only a request keeps or starts it,   *)
(* after a wait for the alignment, and in the release each call takes      *)
(* DownStep units.                                                         *)
(***************************************************************************)
LEMMA UpdateForce ==
    ASSUME NEW e \in Engager, NEW w \in BOOLEAN, NEW al \in BOOLEAN
    PROVE  LET u == Update(e, w, al)
           IN  /\ u.state \in {"off", "wait_align"} => u.scale = 0
               /\ u.state = "wait_align" => w
               /\ u.state \in {"ramp_up", "engaged"} =>
                      w /\ e.state \in {"wait_align", "ramp_up", "engaged"}
               /\ u.state = "ramp_down" =>
                      \/ e.state \in {"ramp_up", "engaged"}
                      \/ e.state = "ramp_down" /\ u.scale + DownStep = e.scale
<1> DEFINE u == Update(e, w, al)
<1>1. e.scale \in 0 .. Full /\ e.state \in EngagerState
    BY DEF Engager
<1>3. CASE e.state = "off"
    <2>1. u = FromOff(e, w)
        BY <1>3 DEF Update
    <2> QED
        BY <2>1 DEF FromOff
<1>4. CASE e.state = "wait_align"
    <2>1. u = FromWaitAlign(e, w, al)
        BY <1>4 DEF Update
    <2>2. CASE ~w
        BY <2>1, <2>2 DEF FromWaitAlign
    <2>3. CASE w
        BY <1>4, <2>1, <2>3 DEF FromWaitAlign
    <2> QED
        BY <2>2, <2>3
<1>5. CASE e.state = "ramp_up"
    <2>1. u = FromRampUp(e, w)
        BY <1>5 DEF Update
    <2>2. u.state \in {"ramp_up", "engaged", "ramp_down"} /\ (u.state # "ramp_down" => w)
        BY <2>1 DEF FromRampUp, Engager
    <2> QED
        BY <1>5, <2>2
<1>6. CASE e.state = "engaged"
    <2>1. u = FromEngaged(e, w)
        BY <1>6 DEF Update
    <2> QED
        BY <1>6, <2>1 DEF FromEngaged
<1>7. CASE e.state = "ramp_down"
    <2>1. u = FromRampDown(e, w)
        BY <1>7 DEF Update
    <2>2. LoweredScale(e.scale) > 0 => LoweredScale(e.scale) + DownStep = e.scale
        BY <1>1 DEF LoweredScale
    <2>3. LoweredScale(e.scale) \in Nat
        BY <1>1 DEF LoweredScale
    <2> QED
        BY <1>7, <2>1, <2>2, <2>3 DEF FromRampDown
<1> QED
    BY <1>1, <1>3, <1>4, <1>5, <1>6, <1>7 DEF EngagerState

\* The invariant outlasts a step that leaves the engager alone and does not
\* put the follower's activity further back.
LEMMA ForceKeeps ==
    ASSUME TypeOK, TypeOK', ForceAge, leader'.up = leader.up, leader'.eng = leader.eng,
           ~leader'.up => ~leader'.busy,
           idle' + Done("leader")' <= idle + Done("leader"),
           NothingLive => NothingLive' \/ idle' + Done("leader")' <= MaxDelay + MaxAge + 1
    PROVE  ForceAge'
<1>1. /\ idle + Done("leader") \in Nat
      /\ leader.eng.scale \in Nat /\ MaxDelay + MaxAge + 3 \in Nat
    BY Limits DEF TypeOK, Engager, Done
<1>2. idle' + Done("leader")' \in Nat
    <2>1. idle' \in Nat /\ Done("leader")' \in {0, 1}
        BY Limits DEF TypeOK, Done
    <2> QED
        BY <2>1
<1>3. (idle' + Done("leader")') * DownStep <= (idle + Done("leader")) * DownStep
    BY <1>1, <1>2, Product
<1>4. /\ (idle' + Done("leader")') * DownStep \in Nat
      /\ (idle + Done("leader")) * DownStep \in Nat
      /\ (MaxDelay + MaxAge + 3) * DownStep \in Nat
    BY <1>1, <1>2, Product
<1>5. leader.eng.state = "ramp_down" =>
          (idle' + Done("leader")') * DownStep + leader.eng.scale
              <= (MaxDelay + MaxAge + 3) * DownStep + Full
    <2> DEFINE x == (idle' + Done("leader")') * DownStep
               y == (idle + Done("leader")) * DownStep
               z == (MaxDelay + MaxAge + 3) * DownStep
    <2>1. leader.eng.state = "ramp_down" => y + leader.eng.scale <= z + Full
        BY DEF ForceAge
    <2>2. x <= y /\ x \in Nat /\ y \in Nat /\ z \in Nat
        BY <1>3, <1>4
    <2> HIDE DEF x, y, z
    <2>3. leader.eng.state = "ramp_down" => x + leader.eng.scale <= z + Full
        BY <1>1, <2>1, <2>2
    <2> QED
        BY <2>3 DEF x, z
<1>6. leader.eng.state \in {"ramp_up", "engaged"} =>
          idle' + Done("leader")' <= MaxDelay + MaxAge + 2
    BY <1>1, <1>2 DEF ForceAge
<1>7. leader.eng.state \in {"wait_align", "ramp_up", "engaged"} =>
          idle' + Done("leader")' <= MaxDelay + MaxAge + 1 \/ NothingLive'
    <2> DEFINE a == idle + Done("leader")
               b == idle' + Done("leader")'
    <2>1. a \in Nat /\ b \in Nat /\ b <= a
        BY <1>1, <1>2
    <2>2. leader.eng.state \in {"wait_align", "ramp_up", "engaged"} =>
              a <= MaxDelay + MaxAge + 1 \/ NothingLive
        BY DEF ForceAge
    <2>3. NothingLive => NothingLive' \/ b <= MaxDelay + MaxAge + 1
        OBVIOUS
    <2> HIDE DEF a, b
    <2>4. leader.eng.state \in {"wait_align", "ramp_up", "engaged"} =>
              b <= MaxDelay + MaxAge + 1 \/ NothingLive'
        BY <2>1, <2>2, <2>3
    <2> QED
        BY <2>4 DEF b
<1>8. leader.eng.state \in {"off", "wait_align"} => leader.eng.scale = 0
    BY DEF ForceAge
<1>9. ~leader.up => leader.eng.state = "off"
    BY DEF ForceAge
<1> QED
    BY <1>5, <1>6, <1>7, <1>8, <1>9 DEF ForceAge

\* A cycle of the leader keeps the engager within the limit.
LEMMA ForceCycle ==
    ASSUME TypeOK, LiveAge, ForceAge, LeaderCycle
    PROVE  ForceAge'
<1>q. idle \in Nat /\ fb.age \in Nat
    BY Limits DEF TypeOK
<1>l. leader \in LeaderSet
    BY DEF TypeOK, LeaderSet
<1>1. PICK al \in BOOLEAN :
          leader' = [leader EXCEPT !.eng = Update(@, Want, al),
                                   !.requested = @ /\ (nextGate = 0 => GateOk),
                                   !.behind = leader.behind - Done("leader")]
    BY Zenon DEF LeaderCycle
<1> DEFINE e == leader.eng
           u == Update(e, Want, al)
           m == MaxDelay + MaxAge
           d == Done("leader")
<1>2. Want \in BOOLEAN /\ e \in Engager
    BY <1>l DEF Want, Fresh, TypeOK, LeaderSet
<1>3. leader'.eng = u /\ leader'.up = leader.up /\ leader.up
    <2>1. leader' = [leader EXCEPT !.eng = u,
                         !.requested = leader.requested /\ (nextGate = 0 => GateOk),
                         !.behind = leader.behind - Done("leader")]
        BY <1>1, Zenon
    <2>2. leader.up
        BY DEF LeaderCycle, LeaderDue
    <2> HIDE DEF u
    <2> QED
        BY <1>l, <2>1, <2>2 DEF LeaderSet
<1>4. d \in {0, 1} /\ Done("leader")' = 1 /\ idle' = idle
    BY DEF LeaderCycle, Done, TypeOK
<1>5. /\ u.state \in {"off", "wait_align"} => u.scale = 0
      /\ u.state = "wait_align" => Want
      /\ u.state \in {"ramp_up", "engaged"} =>
             Want /\ e.state \in {"wait_align", "ramp_up", "engaged"}
      /\ u.state = "ramp_down" =>
             \/ e.state \in {"ramp_up", "engaged"}
             \/ e.state = "ramp_down" /\ u.scale + DownStep = e.scale
    BY <1>2, UpdateForce
<1>6. u \in Engager
    BY <1>2, EngagerTypes
<1>7. u.scale \in Nat /\ u.scale <= Full
    BY <1>6 DEF Engager
<1>8. Want => idle + 1 <= m + 1 \/ NothingLive'
    <2>1. CASE fb.has /\ fb.live /\ fb.age <= MaxAge
        <3>1. idle <= MaxDelay + fb.age
            BY <2>1 DEF LiveAge
        <3> QED
            BY <1>q, <2>1, <3>1
    <2>2. CASE ~(fb.has /\ fb.live) \/ ~(fb.has /\ fb.age <= MaxAge)
        <3>1. Want => ~(fb.has /\ fb.live)
            BY <2>2 DEF Want, Fresh
        <3>2. fb' = fb /\ ~seen'.live
            BY DEF LeaderCycle, NotSeen
        <3> QED
            BY <3>1, <3>2 DEF NothingLive
    <2> QED
        BY <2>1, <2>2
<1>9. Want => ~NothingLive
    BY DEF Want, NothingLive
<1>10. /\ e.state \in {"wait_align", "ramp_up", "engaged"} => idle + d <= m + 1 \/ NothingLive
       /\ e.state \in {"ramp_up", "engaged"} => idle + d <= m + 2
       /\ e.state = "ramp_down" =>
              (idle + d) * DownStep + e.scale <= (m + 3) * DownStep + Full
    BY DEF ForceAge
<1>a. m \in Nat /\ d \in Nat /\ e.scale \in Nat
    BY <1>2, <1>4 DEF Engager
<1> HIDE DEF u, e, m, d
<1>11. u.state \in {"wait_align", "ramp_up", "engaged"} => idle + 1 <= m + 1 \/ NothingLive'
    BY <1>5, <1>8
<1>12. u.state \in {"ramp_up", "engaged"} => idle + 1 <= m + 2
    BY <1>q, <1>a, <1>5, <1>9, <1>10
<1>13. ASSUME u.state = "ramp_down"
       PROVE  (idle + 1) * DownStep + u.scale <= (m + 3) * DownStep + Full
    <2> DEFINE x == (idle + 1) * DownStep
               y == idle * DownStep
               w == (idle + d) * DownStep
               z == (m + 3) * DownStep
    <2>1. x = y + DownStep /\ y \in Nat /\ z \in Nat
        BY <1>q, <1>a, Product
    <2>2. y <= w /\ w \in Nat
        BY <1>q, <1>a, Product
    <2>3. CASE e.state \in {"ramp_up", "engaged"}
        <3>1. idle + 1 \in Nat /\ m + 3 \in Nat /\ idle + 1 <= m + 3
            BY <1>q, <1>a, <1>10, <2>3
        <3>2. x <= z
            BY <3>1, Product
        <3> HIDE DEF x, y, z
        <3>3. x + u.scale <= z + Full
            BY <1>7, <2>1, <3>2
        <3> QED
            BY <3>3 DEF x, z
    <2>4. CASE e.state = "ramp_down" /\ u.scale + DownStep = e.scale
        <3>1. w + e.scale <= z + Full
            BY <1>10, <2>4
        <3> HIDE DEF x, y, z, w
        <3>2. x + u.scale <= z + Full
            BY <1>7, <1>a, <2>1, <2>2, <2>4, <3>1
        <3> QED
            BY <3>2 DEF x, z
    <2> QED
        BY <1>5, <1>13, <2>3, <2>4
<1> QED
    BY <1>3, <1>4, <1>5, <1>11, <1>12, <1>13 DEF ForceAge, m

\* Every step keeps the engager within the limit.
LEMMA ForceStep ==
    ASSUME TypeOK, TypeOK', LiveAge, LiveAge', ForceAge, [Next]_vars
    PROVE  ForceAge'
<1>q. idle \in Nat /\ Done("leader") \in {0, 1} /\ Done("leader")' \in {0, 1}
    BY Limits DEF TypeOK, Done
<1>l. leader \in LeaderSet
    BY DEF TypeOK, LeaderSet
<1>r. ran \in [{"leader", "follower"} -> BOOLEAN]
    BY DEF TypeOK
<1>k. ASSUME leader'.up = leader.up, leader'.eng = leader.eng,
             ~leader'.up => ~leader'.busy,
             UNCHANGED <<idle, ran>>, NothingLive => NothingLive'
      PROVE  ForceAge'
    <2>1. idle' + Done("leader")' = idle + Done("leader")
        BY <1>k DEF Done
    <2>2. idle + Done("leader") \in Nat
        BY <1>q
    <2> QED
        BY <1>k, <2>1, <2>2, ForceKeeps
<1>b. ~leader.up => ~leader.busy
    BY DEF ForceAge
<1>1. CASE LeaderCycle
    BY <1>1, ForceCycle
<1>2. CASE Tick
    <2>1. leader'.up = leader.up /\ leader'.eng = leader.eng /\ leader'.busy = leader.busy
        <3>1. leader' = leader \/ leader' = [leader EXCEPT !.behind = leader.behind + 1]
            BY <1>2 DEF Tick
        <3> QED
            BY <1>l, <3>1 DEF LeaderSet
    <2>2. NothingLive => NothingLive'
        <3>1. seen' = seen /\ (fb'.has => fb.has) /\ fb'.live = fb.live
            BY <1>2 DEF Tick, TypeOK
        <3> QED
            BY <3>1 DEF NothingLive
    <2>3. Done("leader")' = 0
        BY <1>2, <1>r DEF Tick, Done
    <2>4. CASE leader.up
        <3>1. CASE leader.busy
            <4>1. idle' = idle
                BY <1>2, <3>1 DEF Tick
            <4>2. idle' + Done("leader")' <= idle + Done("leader")
                BY <1>q, <2>3, <4>1
            <4> QED
                BY <1>b, <2>1, <2>2, <4>2, ForceKeeps
        <3>2. CASE ~leader.busy
            <4>1. idle' \in Nat /\ idle' <= idle + 1
                BY <1>2, <1>q, Limits DEF Tick
            <4>2. Done("leader") = 1
                BY <1>2, <2>4, <3>2 DEF Tick, Done
            <4>3. idle' + Done("leader")' <= idle + Done("leader")
                BY <1>q, <2>3, <4>1, <4>2
            <4> QED
                BY <1>b, <2>1, <2>2, <4>3, ForceKeeps
        <3> QED
            BY <3>1, <3>2
    <2>5. CASE ~leader.up
        <3>1. leader'.eng.state = "off" /\ leader'.eng.scale = 0 /\ ~leader'.busy
            BY <2>1, <2>5 DEF ForceAge
        <3> QED
            BY <3>1 DEF ForceAge
    <2> QED
        BY <2>4, <2>5
<1>3. CASE FollowerCycle
    <2>1. leader' = leader /\ ran'["leader"] = ran["leader"] /\ UNCHANGED <<fb, seen>>
        BY <1>3, <1>r DEF FollowerCycle
    <2>2. idle' \in Nat /\ idle' <= idle
        <3>1. idle' \in {0, idle}
            BY <1>3, Zenon DEF FollowerCycle
        <3> QED
            BY <1>q, <3>1
    <2>3. Done("leader")' = Done("leader")
        BY <2>1 DEF Done
    <2>4. idle' + Done("leader")' <= idle + Done("leader")
        BY <1>q, <2>2, <2>3
    <2>5. NothingLive => NothingLive'
        BY <2>1 DEF NothingLive
    <2> QED
        BY <1>b, <2>1, <2>4, <2>5, ForceKeeps
<1>4. CASE LeaderGet
    <2>a. UNCHANGED <<leader, fb, idle, ran>>
        BY <1>4 DEF LeaderGet
    <2>b. seen' = [taken |-> TRUE, live |-> fb.has /\ fb.live /\ ~fb.estop]
        BY <1>4 DEF LeaderGet
    <2>c. seen'.live = (fb.has /\ fb.live /\ ~fb.estop)
        BY <2>b
    <2>1. UNCHANGED <<leader, fb, idle, ran>> /\ (seen'.live => fb.has /\ fb.live)
        BY <2>a, <2>c
    <2>2. NothingLive => NothingLive'
        BY <2>1 DEF NothingLive
    <2> QED
        BY <1>b, <1>k, <2>1, <2>2
<1>5. CASE DeliverFeedback
    <2>1. UNCHANGED <<leader, seen, idle, ran>>
        BY <1>5 DEF DeliverFeedback
    <2>2. idle' + Done("leader")' = idle + Done("leader") /\ idle + Done("leader") \in Nat
        BY <1>q, <2>1 DEF Done
    <2>3. NothingLive => NothingLive' \/ idle' + Done("leader")' <= MaxDelay + MaxAge + 1
        <3>1. CASE fb'.has /\ fb'.live /\ fb' # fb
            <4>1. fb'.age = 0
                BY <1>5, <3>1 DEF DeliverFeedback
            <4>2. idle <= MaxDelay
                BY <2>1, <3>1, <4>1 DEF LiveAge
            <4> QED
                BY <1>q, <2>1, <2>2, <4>2
        <3>2. CASE ~(fb'.has /\ fb'.live) \/ fb' = fb
            BY <2>1, <3>2 DEF NothingLive
        <3> QED
            BY <3>1, <3>2
    <2> QED
        BY <1>b, <2>1, <2>2, <2>3, ForceKeeps
<1>6. CASE LeaderMoveEnds \/ LeaderMoves \/ LeaderCommand
    <2>1. leader'.up = leader.up /\ leader'.eng = leader.eng
        BY <1>6, <1>l DEF LeaderMoveEnds, LeaderMoves, LeaderCommand, LeaderSet
    <2>2. ~leader'.up => ~leader'.busy
        BY <1>6, <1>b, <1>l
        DEF LeaderMoveEnds, LeaderMoves, LeaderDue, LeaderCommand, LeaderSet
    <2>3. UNCHANGED <<fb, seen, idle, ran>>
        BY <1>6 DEF LeaderMoveEnds, LeaderMoves, LeaderCommand
    <2>4. NothingLive => NothingLive'
        BY <2>3 DEF NothingLive
    <2> QED
        BY <1>k, <2>1, <2>2, <2>3, <2>4
<1>7. CASE LeaderEnds \/ LeaderStarts
    <2>1. leader'.eng = NewEngager /\ ~leader'.busy
        BY <1>7 DEF LeaderEnds, LeaderStarts, NewLeader
    <2> QED
        BY <2>1 DEF ForceAge, NewEngager
<1>8. CASE UNCHANGED <<leader, fb, seen, idle, ran>>
    <2>1. NothingLive => NothingLive'
        BY <1>8 DEF NothingLive
    <2> QED
        BY <1>8, <1>b, <1>k, <2>1
<1> QED
    BY <1>1, <1>2, <1>3, <1>4, <1>5, <1>6, <1>7, <1>8, Zenon
    DEF Next, Event, FollowerGet, DeliverCommand, Lose, FollowerCommand, FollowerEnds,
        FollowerStarts, vars

----------------------------------------------------------------------------
(* The theorems.                                                           *)

\* The inductive invariant holds throughout.
THEOREM SystemInvariant == Spec => []SystemInv
<1>1. Init => SystemInv
    <2> SUFFICES ASSUME Init
                 PROVE  SystemInv
        OBVIOUS
    <2>1. NewEngager \in Engager
        BY DEF NewEngager, Engager, EngagerState
    <2>2. leader \in LeaderSet
        BY <2>1 DEF Init, NewLeader, LeaderSet
    <2>3. manager \in Manager
        BY DEF Init, NewManager, RestState, Manager, SafetyState
    <2>4. buf \in [has : BOOLEAN, pkt : Packet, age : Age]
        BY DEF Init, NoCommand, NoPacket, Packet, Age
    <2>5. /\ commands \in Seq([enable : BOOLEAN, age : 0 .. MaxDelay])
          /\ feedback \in Seq([live : BOOLEAN, estop : BOOLEAN, age : 0 .. MaxDelay])
          /\ DOMAIN commands = {} /\ DOMAIN feedback = {}
        BY EmptySeq DEF Init
    <2>a. /\ nextGate \in 0 .. GatePeriod /\ events \in 0 .. MaxEvents
          /\ heard \in 0 .. QuietLimit + 1 /\ quiet \in 0 .. QuietLimit + 1
          /\ overdue \in 0 .. 2 /\ idle \in 0 .. IdleLimit + 1
        BY Limits DEF Init
    <2>b. ran \in [{"leader", "follower"} -> BOOLEAN] /\ trouble \in BOOLEAN
        BY DEF Init
    <2>c. fb \in [has : BOOLEAN, live : BOOLEAN, estop : BOOLEAN, age : 0 .. MaxAge + 1]
        BY DEF Init, NoFeedback
    <2>d. follower \in [up : BOOLEAN, commands : BOOLEAN]
        BY DEF Init, NewFollower
    <2>e. /\ seen \in [taken : BOOLEAN, live : BOOLEAN]
          /\ target \in [taken : BOOLEAN, has : BOOLEAN, pkt : Packet]
        BY DEF Init, NotSeen, NoTarget, NoPacket, Packet
    <2>6. TypeOK
        BY <2>2, <2>3, <2>4, <2>5, <2>a, <2>b, <2>c, <2>d, <2>e DEF TypeOK, LeaderSet
    <2>7. EnableAge
        BY <2>5 DEF Init, EnableAge, NoCommand
    <2>8. CommandAge /\ OverdueOnce
        BY DEF Init, CommandAge, OverdueOnce, NewFollower, NewManager, RestState,
               CommandStates, NoTarget
    <2>9. Healthy
        BY <2>5 DEF Init, Healthy, NoCommand, NewLeader, NewFollower, NewManager, RestState
    <2>10. LiveAge /\ ForceAge
        BY <2>5 DEF Init, LiveAge, ForceAge, NoFeedback, NewLeader, NewEngager
    <2> QED
        BY <2>6, <2>7, <2>8, <2>9, <2>10 DEF SystemInv
<1>2. SystemInv /\ [Next]_vars => SystemInv'
    <2> SUFFICES ASSUME SystemInv, [Next]_vars
                 PROVE  SystemInv'
        OBVIOUS
    <2>1. /\ TypeOK /\ EnableAge /\ CommandAge /\ OverdueOnce /\ LiveAge /\ ForceAge
          /\ ~trouble => Healthy
        BY DEF SystemInv
    <2>2. TypeOK'
        BY <2>1, TypeStep
    <2>3. EnableAge' /\ CommandAge'
        BY <2>1, <2>2, EnableStep, CommandStep
    <2>6. OverdueOnce'
        <3>1. CASE RequireEnable
            BY <2>1, <2>2, <3>1, OverdueStep
        <3>2. CASE ~RequireEnable
            BY <3>2 DEF OverdueOnce
        <3> QED
            BY <3>1, <3>2
    <2>4. ~trouble' => Healthy'
        BY <2>1, <2>2, HealthStep
    <2>5. LiveAge' /\ ForceAge'
        BY <2>1, <2>2, LiveStep, ForceStep
    <2> QED
        BY <2>2, <2>3, <2>4, <2>5, <2>6 DEF SystemInv
<1> QED
    BY <1>1, <1>2, PTL DEF Spec

(***************************************************************************)
(* For every network delay and every watchdog setting, whatever is lost,   *)
(* whichever process ends or restarts and however long the leader is in a  *)
(* move, the follower commands its motors only within MaxDelay plus the    *)
(* disable threshold of a packet of the leader, and, but for one cycle, of *)
(* an enabling packet.                                                     *)
(***************************************************************************)
THEOREM CommandsNeedALeaderThm == Spec => []CommandsNeedALeader
<1>1. SystemInv => CommandsNeedALeader
    BY Limits DEF SystemInv, TypeOK, CommandAge, OverdueOnce, Done, CommandsNeedALeader
<1> QED
    BY <1>1, SystemInvariant, PTL

(***************************************************************************)
(* For every network delay, the watchdog of the follower does not fault    *)
(* while both processes run, the leader makes no move and nothing is lost, *)
(* if its threshold exceeds the delay by more than one period.             *)
(***************************************************************************)
THEOREM HealthyLinkNeverFaultsThm == Spec => []HealthyLinkNeverFaults
<1>1. SystemInv => HealthyLinkNeverFaults
    BY DEF SystemInv, Healthy, HealthyLinkNeverFaults
<1> QED
    BY <1>1, SystemInvariant, PTL

(***************************************************************************)
(* For every network delay, feedback age limit and pair of ramps, the      *)
(* operator feels a force only while the follower is ACTIVE, and after     *)
(* that for no longer than MaxDelay, MaxAge and the release ramp together, *)
(* the periods that the leader spends in a move not counted, whichever     *)
(* process stopped, faulted, ended or restarted meanwhile.                 *)
(***************************************************************************)
THEOREM ForceNeedsALiveFollowerThm == Spec => []ForceNeedsALiveFollower
<1>1. ASSUME SystemInv, Active(leader.eng)
      PROVE  idle <= IdleLimit
    <2> DEFINE q == (Full + DownStep - 1) \div DownStep
               m == MaxDelay + MaxAge
    <2>1. q \in Nat /\ q * DownStep >= Full
        OBVIOUS
    <2>2. IdleLimit = m + 2 + q /\ m \in Nat
        BY <2>1 DEF IdleLimit, ReleaseTime
    <2>3. idle \in Nat /\ Done("leader") \in {0, 1} /\ leader.eng \in Engager
        BY <1>1, Limits DEF SystemInv, TypeOK, Done
    <2>4. leader.eng.scale \in Nat /\ leader.eng.scale > 0 /\ leader.eng.state \in EngagerState
        BY <1>1, <2>3 DEF Active, Engager
    <2> HIDE DEF q, m
    <2>5. CASE leader.eng.state \in {"ramp_up", "engaged"}
        <3>1. idle + Done("leader") <= m + 2
            BY <1>1, <2>5 DEF SystemInv, ForceAge, m
        <3> QED
            BY <2>1, <2>2, <2>3, <3>1
    <2>6. CASE leader.eng.state = "ramp_down"
        <3> DEFINE d == idle + Done("leader")
        <3>1. d * DownStep + leader.eng.scale <= (m + 3) * DownStep + Full
            BY <1>1, <2>6 DEF SystemInv, ForceAge, m
        <3>2. d \in Nat /\ idle <= d
            BY <2>3
        <3>3. (m + 3 + q) * DownStep = (m + 3) * DownStep + q * DownStep
            BY <2>1, <2>2
        <3> DEFINE x == d * DownStep
                   y == (m + 3) * DownStep
                   z == q * DownStep
        <3> HIDE DEF d
        <3>4. x \in Nat /\ y \in Nat /\ z \in Nat
            BY <2>1, <2>2, <3>2, Product
        <3>5. x + leader.eng.scale <= y + Full /\ z >= Full
            BY <2>1, <3>1
        <3> HIDE DEF x, y, z
        <3>6. x < y + z
            BY <2>4, <3>4, <3>5
        <3>7. d * DownStep < (m + 3 + q) * DownStep
            BY <3>3, <3>6 DEF x, y, z
        <3>8. d < m + 3 + q
            BY <2>1, <2>2, <3>2, <3>7, Product
        <3> QED
            BY <2>1, <2>2, <2>3, <3>2, <3>8
    <2>7. leader.eng.state \notin {"off", "wait_align"}
        BY <1>1, <2>4 DEF SystemInv, ForceAge
    <2> QED
        BY <2>4, <2>5, <2>6, <2>7 DEF EngagerState
<1>2. SystemInv => ForceNeedsALiveFollower
    BY <1>1 DEF ForceNeedsALiveFollower
<1> QED
    BY <1>2, SystemInvariant, PTL

----------------------------------------------------------------------------
(* The engager by itself, under every sequence of requests and alignments. *)

(***************************************************************************)
(* The inductive invariant: the scale belongs to the state, and in a state *)
(* that can carry force the engagement began with an aligned update.  The  *)
(* states ramp_up and ramp_down need the second part even at scale zero,   *)
(* because the next update may raise it.                                   *)
(***************************************************************************)
EngagerInv ==
    /\ EngagerTypeOK
    /\ ScaleMatchesState
    /\ eng.state \in {"ramp_up", "engaged", "ramp_down"} => ~released

\* A step of the engager preserves its inductive invariant.
LEMMA EngagerStep == EngagerInv /\ [EngagerNext]_engagerVars => EngagerInv'
<1> SUFFICES ASSUME EngagerInv, [EngagerNext]_engagerVars
             PROVE  EngagerInv'
    OBVIOUS
<1>1. CASE EngagerInputs
    BY <1>1 DEF EngagerInv, EngagerTypeOK, ScaleMatchesState, EngagerInputs
<1>2. CASE EngagerCycle
    <2>1. WellFormed(eng')
        BY <1>2, UpdatePreserves
        DEF EngagerInv, EngagerTypeOK, ScaleMatchesState, EngagerCycle
    <2>2. EngagerTypeOK'
        BY <1>2, <2>1 DEF EngagerInv, EngagerTypeOK, EngagerCycle, WellFormed
    <2>3. ASSUME eng'.state \in {"ramp_up", "engaged", "ramp_down"}
          PROVE  ~released'
        <3>1. \/ eng.state \in {"ramp_up", "engaged", "ramp_down"}
              \/ eng.state = "wait_align" /\ want /\ aligned
            <4>1. CASE eng.state = "off"
                <5>1. eng' = FromOff(eng, want)
                    BY <1>2, <4>1 DEF EngagerCycle, Update
                <5> QED BY <5>1, <2>3 DEF FromOff
            <4>2. CASE eng.state = "wait_align"
                <5>1. eng' = FromWaitAlign(eng, want, aligned)
                    BY <1>2, <4>2 DEF EngagerCycle, Update
                <5> QED BY <4>2, <5>1, <2>3
                        DEF FromWaitAlign, EngagerInv, EngagerTypeOK
            <4> QED
                BY <4>1, <4>2 DEF EngagerInv, EngagerTypeOK, Engager, EngagerState
        <3> QED
            BY <1>2, <2>3, <3>1 DEF EngagerCycle, EngagerInv, EngagerTypeOK
    <2> QED
        BY <2>1, <2>2, <2>3 DEF EngagerInv, ScaleMatchesState
<1>3. CASE UNCHANGED engagerVars
    BY <1>3 DEF EngagerInv, EngagerTypeOK, ScaleMatchesState, engagerVars
<1> QED
    BY <1>1, <1>2, <1>3 DEF EngagerNext

\* The inductive invariant holds throughout.
LEMMA EngagerInvariant == EngagerSpec => []EngagerInv
<1>1. EngagerInit => EngagerInv
    <2> SUFFICES ASSUME EngagerInit
                 PROVE  EngagerInv
        OBVIOUS
    <2>1. eng \in Engager /\ eng.state = "off" /\ eng.scale = 0
        BY DEF EngagerInit, NewEngager, Engager, EngagerState
    <2>2. EngagerTypeOK
        BY <2>1 DEF EngagerInit, EngagerTypeOK
    <2> QED
        BY <2>1, <2>2 DEF EngagerInv, ScaleMatchesState, WellFormed
<1> QED
    BY <1>1, EngagerStep, PTL DEF EngagerSpec

(***************************************************************************)
(* The scale of BilateralEngager always belongs to its state: zero when    *)
(* off or waiting, one when engaged.                                       *)
(***************************************************************************)
THEOREM ScaleMatchesStateThm == EngagerSpec => []ScaleMatchesState
<1>1. EngagerInv => ScaleMatchesState
    BY DEF EngagerInv
<1> QED
    BY <1>1, EngagerInvariant, PTL

(***************************************************************************)
(* The leader renders force only in an engagement that began aligned.      *)
(***************************************************************************)
THEOREM ForceNeedsAlignmentThm == EngagerSpec => []ForceNeedsAlignment
<1>1. EngagerInv => ForceNeedsAlignment
    BY DEF EngagerInv, ForceNeedsAlignment, ScaleMatchesState, WellFormed,
           Engager, EngagerState, Active
<1> QED
    BY <1>1, EngagerInvariant, PTL

(***************************************************************************)
(* The force scale never steps: every update moves it by at most one ramp  *)
(* increment up and one down.                                              *)
(***************************************************************************)
THEOREM NeverStepsThm == EngagerSpec => NeverSteps
<1>1. EngagerInv /\ [EngagerNext]_engagerVars =>
          [ /\ eng'.scale <= eng.scale + UpStep
            /\ eng.scale <= eng'.scale + DownStep ]_engagerVars
    <2> SUFFICES ASSUME EngagerInv, EngagerNext
                 PROVE  /\ eng'.scale <= eng.scale + UpStep
                        /\ eng.scale <= eng'.scale + DownStep
        OBVIOUS
    <2>1. CASE EngagerInputs
        BY <2>1 DEF EngagerInv, EngagerTypeOK, Engager, EngagerInputs
    <2>2. CASE EngagerCycle
        BY <2>2, UpdatePreserves
        DEF EngagerInv, EngagerTypeOK, ScaleMatchesState, EngagerCycle
    <2> QED
        BY <2>1, <2>2 DEF EngagerNext
<1> QED
    BY <1>1, EngagerInvariant, PTL DEF EngagerSpec, NeverSteps
=============================================================================
