----------------------- MODULE BimanualFollowerProofs -----------------------
(***************************************************************************)
(* Proofs about the follower process, for every number of arms, every      *)
(* watchdog setting, every set of packets and every number of operator     *)
(* events.                                                                 *)
(***************************************************************************)
EXTENDS BimanualFollower, TLAPS

USE SafetyAssumption, FollowerAssumption
    DEF SafetyAssumption, FollowerAssumption

----------------------------------------------------------------------------
(* Facts about one safety manager.                                         *)

\* The methods of SafetyManager return a manager in a declared state.
LEMMA ManagerTypes ==
    ASSUME NEW m \in Manager, NEW p \in Packet, NEW g \in Age
    PROVE  /\ NewManager \in Manager
           /\ TriggerEstop(m) \in Manager
           /\ ResetSafety(m) \in Manager
           /\ SafetyUpdate(m, p, g) \in Manager
           /\ SafetyUpdate(m, p, g).estop = m.estop
    BY DEF Manager, SafetyState, NewManager, RestState, TriggerEstop,
           ResetSafety, SafetyUpdate, LiveState, LiveStates

(***************************************************************************)
(* SafetyManager::update under require_enable reaches a commanding state   *)
(* only on an enabling packet, no stop, and a gap below the disable        *)
(* threshold.                                                              *)
(***************************************************************************)
LEMMA UpdateAuthority ==
    ASSUME NEW m \in Manager, NEW p \in Packet, NEW g \in Age, RequireEnable,
           SafetyUpdate(m, p, g).state \in CommandStates
    PROVE  p.enable /\ ~p.estop /\ g < DisableAge
    BY DEF Manager, SafetyState, Packet, Age, SafetyUpdate, LiveState,
           LiveStates, CommandStates, TrackStates, WatchdogCheck

\* A latched stop survives update().
LEMMA UpdateKeepsEstop ==
    ASSUME NEW m \in Manager, NEW p \in Packet, NEW g \in Age, m.estop
    PROVE  SafetyUpdate(m, p, g).state = "ESTOP"
    BY DEF Manager, SafetyUpdate

\* update() makes an arm live only from rest or from live.
LEMMA UpdateMode ==
    ASSUME NEW m \in Manager, NEW p \in Packet, NEW g \in Age,
           ModeOf(SafetyUpdate(m, p, g).state) = "live"
    PROVE  ModeOf(m.state) \in {"rest", "live"}
    BY DEF Manager, SafetyState, SafetyUpdate, LiveState, LiveStates, ModeOf

----------------------------------------------------------------------------
(* Typing.                                                                 *)

\* The program counter of the main loop moves within its type.
LEMMA MainTypes ==
    ASSUME NEW p \in Phases, main \in [phase : Phases, arm : Arms]
    PROVE  /\ Continue(p) => main' \in [phase : Phases, arm : Arms]
           /\ NextArm(p) => main' \in [phase : Phases, arm : Arms]
    BY DEF Continue, NextArm, Arms

\* Every step of every thread preserves the types of the shared state.
LEMMA TypeStep == TypeOK /\ [Next]_vars => TypeOK'
<1> SUFFICES ASSUME TypeOK, [Next]_vars
             PROVE  TypeOK'
    OBVIOUS
<1>m. main \in [phase : Phases, arm : Arms]
    BY DEF TypeOK
<1>1. CASE LoopHead
    BY <1>1, <1>m, MainTypes DEF LoopHead, TypeOK, Phases
<1>2. ASSUME NEW k \in MoveKinds, TakeRequest(k)
      PROVE  TypeOK'
    <2>1. AfterRequest(k) \in Phases
        BY DEF AfterRequest, MoveKinds, Phases
    <2>2. main' \in [phase : Phases, arm : Arms]
        BY <1>2, <1>m, <2>1, MainTypes DEF TakeRequest
    <2>3. 0 \in Stages
        BY DEF Stages
    <2>4. CASE StartMove(k)
        <3>1. movers' \in [MoveKinds -> [Stages -> Nat]]
            BY <2>3, <2>4 DEF StartMove, TypeOK
        <3>2. motors' \in [Arms -> BOOLEAN]
            BY <2>4 DEF StartMove, TypeOK
        <3>3. overlapped' \in BOOLEAN
            BY <2>4 DEF StartMove, TypeOK
        <3>4. /\ requested' \in [MoveKinds -> BOOLEAN]
              /\ busy' \in [MoveKinds -> BOOLEAN]
            BY <2>4 DEF StartMove, TypeOK
        <3> QED
            BY <1>2, <2>2, <3>1, <3>2, <3>3, <3>4 DEF TakeRequest, TypeOK
    <2>5. CASE NoMove(k)
        BY <1>2, <2>2, <2>5 DEF TakeRequest, NoMove, TypeOK
    <2> QED
        BY <1>2, <2>4, <2>5 DEF TakeRequest
<1>3. CASE GetLatest
    <2>1. main' \in [phase : Phases, arm : Arms]
        BY <1>3, <1>m, MainTypes DEF GetLatest, Phases
    <2>2. target' \in [Arms -> [has : BOOLEAN, pkt : Packet, gap : Age]]
        BY <1>3 DEF GetLatest, TypeOK, NoTarget, NoPacket, Packet, Age
    <2> QED
        BY <1>3, <2>1, <2>2 DEF GetLatest, TypeOK
<1>4. CASE UpdateSafety
    <2>1. main' \in [phase : Phases, arm : Arms]
        BY <1>4, <1>m, MainTypes DEF UpdateSafety, Phases
    <2>2. SafetyUpdate(safety[main.arm], target[main.arm].pkt, buf[main.arm].age)
              \in Manager
        BY <1>m, ManagerTypes DEF TypeOK
    <2>3. safety' \in [Arms -> Manager]
        BY <1>4, <2>2 DEF UpdateSafety, TypeOK
    <2>4. target' \in [Arms -> [has : BOOLEAN, pkt : Packet, gap : Age]]
        <3>1. CASE target[main.arm].has
            <4>1. target' = [target EXCEPT ![main.arm] =
                                [@ EXCEPT !.gap = buf[main.arm].age]]
                BY <1>4, <3>1 DEF UpdateSafety
            <4>2. [target[main.arm] EXCEPT !.gap = buf[main.arm].age]
                      \in [has : BOOLEAN, pkt : Packet, gap : Age]
                BY <1>m DEF TypeOK
            <4> QED
                BY <4>1, <4>2 DEF TypeOK
        <3>2. CASE ~target[main.arm].has
            BY <1>4, <3>2 DEF UpdateSafety, TypeOK
        <3> QED
            BY <3>1, <3>2
    <2> QED
        BY <1>4, <2>1, <2>3, <2>4 DEF UpdateSafety, TypeOK
<1>5. CASE ReadState
    <2>1. main' \in [phase : Phases, arm : Arms]
        BY <1>5, <1>m, MainTypes DEF ReadState, Phases
    <2>2. st' \in [Arms -> SafetyState]
        BY <1>5, <1>m DEF ReadState, TypeOK, Manager
    <2> QED
        BY <1>5, <2>1, <2>2 DEF ReadState, TypeOK
<1>6. CASE CheckBusy
    BY <1>6, <1>m, MainTypes DEF CheckBusy, TypeOK, Phases
<1>7. CASE MotorStep
    <2>1. main' \in [phase : Phases, arm : Arms]
        BY <1>7, <1>m, MainTypes DEF MotorStep, Phases
    <2>2. motors' \in [Arms -> BOOLEAN] /\ late' \in [Arms -> Nat]
        BY <1>7, <1>m DEF MotorStep, TypeOK
    <2> QED
        BY <1>7, <2>1, <2>2 DEF MotorStep, TypeOK
<1>8. CASE Report
    <2>1. main' \in [phase : Phases, arm : Arms]
        BY <1>8, <1>m, MainTypes DEF Report, Phases
    <2>2. /\ target' \in [Arms -> [has : BOOLEAN, pkt : Packet, gap : Age]]
          /\ st' \in [Arms -> SafetyState]
        BY <1>8 DEF Report, NoTarget, NoPacket, Packet, Age, RestState, SafetyState
    <2> QED
        BY <1>8, <2>1, <2>2 DEF Report, TypeOK
<1>9. CASE StopReceivers
    BY <1>9, <1>m, MainTypes DEF StopReceivers, TypeOK, Phases
<1>10. CASE DisableAll
    BY <1>10, <1>m, MainTypes DEF DisableAll, TypeOK, Phases
<1>11. CASE ReturnFromMain
    BY <1>11, <1>m, MainTypes DEF ReturnFromMain, TypeOK, Phases
<1>12. ASSUME NEW a \in Arms, Receive(a)
       PROVE  TypeOK'
    BY <1>12 DEF Receive, TypeOK, Age
<1>13. CASE Tick
    <2>1. buf' \in [Arms -> [has : BOOLEAN, pkt : Packet, age : Age]]
        <3>1. \A a \in Arms : buf[a].age < DisableAge => buf[a].age + 1 \in Age
            BY DEF TypeOK, Age
        <3> QED
            BY <1>13, <3>1 DEF Tick, TypeOK
    <2> QED
        BY <1>13, <2>1 DEF Tick, TypeOK
<1>14. ASSUME NEW k \in MoveKinds, Mover(k)
       PROVE  TypeOK'
    <2>1. ASSUME NEW s \in Stages, s < NArms + 1, Advance(k, s)
          PROVE  movers' \in [MoveKinds -> [Stages -> Nat]]
        <3> DEFINE less == [movers[k] EXCEPT ![s] = @ - 1]
        <3>1. movers[k] \in [Stages -> Nat] /\ movers[k][s] > 0
            BY <2>1 DEF TypeOK, Advance
        <3>2. less \in [Stages -> Nat]
            BY <3>1
        <3>3. s + 1 \in Stages
            BY <2>1 DEF Stages
        <3>4. [movers[k] EXCEPT ![s] = @ - 1, ![s + 1] = @ + 1] \in [Stages -> Nat]
            BY <3>1, <3>2, <3>3
        <3> QED
            BY <2>1, <3>4 DEF Advance, TypeOK
    <2>2. CASE MoverMoves(k)
        BY <1>14, <2>1, <2>2 DEF MoverMoves, TypeOK, Stages
    <2>3. CASE MoverResets(k)
        <3>1. PICK a \in Arms : Advance(k, a) /\ Reset(a)
            BY <2>3 DEF MoverResets
        <3>2. a \in Stages /\ a < NArms + 1
            BY DEF Arms, Stages
        <3>3. movers' \in [MoveKinds -> [Stages -> Nat]]
            BY <2>1, <3>1, <3>2
        <3>4. safety' \in [Arms -> Manager] /\ late' \in [Arms -> Nat]
            BY <3>1, ManagerTypes
            DEF Reset, TypeOK, ResetSafety, NewManager, Manager, RestState,
                SafetyState
        <3> QED
            BY <2>3, <3>3, <3>4 DEF MoverResets, TypeOK
    <2>4. CASE MoverEnds(k)
        BY <1>14, <2>4 DEF MoverEnds, TypeOK, Stages
    <2> QED
        BY <1>14, <2>2, <2>3, <2>4 DEF Mover
<1>15. ASSUME NEW cmd \in Commands, ServerAccepts(cmd)
       PROVE  TypeOK'
    <2>1. server' \in [cmd : PerArmCommands \cup {"none"}, arm : Arms]
        BY <1>15 DEF ServerAccepts, TypeOK, Arms
    <2>2. requested' \in [MoveKinds -> BOOLEAN]
        <3>1. CASE cmd \in MoveKinds
            <4>1. requested' = [requested EXCEPT ![cmd] = TRUE]
                BY <1>15, <3>1 DEF ServerAccepts
            <4> QED
                BY <4>1 DEF TypeOK
        <3>2. CASE cmd \notin MoveKinds
            <4>1. requested' = requested
                BY <1>15, <3>2 DEF ServerAccepts
            <4> QED
                BY <4>1 DEF TypeOK
        <3> QED
            BY <3>1, <3>2
    <2>3. running' \in BOOLEAN
        BY <1>15 DEF ServerAccepts, TypeOK
    <2>4. events' \in 0 .. MaxEvents
        BY <1>15 DEF ServerAccepts, TypeOK
    <2>5. UNCHANGED <<buf, safety, motors, busy, movers, main, target, st, go,
                      signal, late, overlapped>>
        BY <1>15 DEF ServerAccepts
    <2> QED
        BY <2>1, <2>2, <2>3, <2>4, <2>5 DEF TypeOK
<1>16. CASE ServerArm
    <2>1. server.arm \in Arms
        BY DEF TypeOK
    <2>2. server' \in [cmd : PerArmCommands \cup {"none"}, arm : Arms]
        <3>1. CASE server.arm < NArms
            <4>1. server' = [server EXCEPT !.arm = @ + 1]
                BY <1>16, <3>1 DEF ServerArm
            <4>2. server.arm + 1 \in Arms
                BY <2>1, <3>1 DEF Arms
            <4> QED
                BY <4>1, <4>2 DEF TypeOK
        <3>2. CASE ~(server.arm < NArms)
            <4>1. server' = [cmd |-> "none", arm |-> 1]
                BY <1>16, <3>2 DEF ServerArm
            <4> QED
                BY <4>1 DEF Arms
        <3> QED
            BY <3>1, <3>2
    <2>3. safety' \in [Arms -> Manager] /\ late' \in [Arms -> Nat]
        <3>1. CASE Trigger(server.arm)
            BY <2>1, <3>1 DEF TypeOK, Trigger, TriggerEstop, Manager, SafetyState
        <3>2. CASE Reset(server.arm)
            BY <2>1, <3>2 DEF TypeOK, Reset, ResetSafety, NewManager, Manager,
                              RestState, SafetyState
        <3> QED
            BY <1>16, <3>1, <3>2 DEF ServerArm
    <2> QED
        BY <1>16, <2>2, <2>3 DEF ServerArm, TypeOK
<1>17. CASE SignalArrives
    BY <1>17 DEF SignalArrives, TypeOK
<1>18. CASE SignalArm
    <2>1. safety' \in [Arms -> Manager] /\ late' \in [Arms -> Nat]
        BY <1>18 DEF SignalArm, TypeOK, Trigger, TriggerEstop, Manager,
                     SafetyState
    <2>2. signal' \in 0 .. NArms + 2
        BY <1>18 DEF SignalArm, Arms
    <2> QED
        BY <1>18, <2>1, <2>2 DEF SignalArm, TypeOK
<1>19. CASE SignalEnds
    <2>1. signal' \in 0 .. NArms + 2
        BY <1>19 DEF SignalEnds
    <2>2. running' \in BOOLEAN
        BY <1>19 DEF SignalEnds
    <2> QED
        BY <1>19, <2>1, <2>2 DEF SignalEnds, TypeOK
<1>20. CASE UNCHANGED vars
    BY <1>20 DEF vars, TypeOK
<1> QED
    BY <1>1, <1>2, <1>3, <1>4, <1>5, <1>6, <1>7, <1>8, <1>9, <1>10, <1>11,
       <1>12, <1>13, <1>14, <1>15, <1>16, <1>17, <1>18, <1>19, <1>20
    DEF Next, MainLoop, Handler, Terminated

----------------------------------------------------------------------------
(* How the main loop moves from arm to arm and from phase to phase.        *)

\* Continue goes to the first arm of a phase.
LEMMA ContinueMoves ==
    ASSUME NEW p, Continue(p)
    PROVE  main'.phase = p /\ main'.arm = 1
    BY DEF Continue

\* NextArm stays in the phase until the last arm is done.
LEMMA NextArmMoves ==
    ASSUME NEW p, NextArm(p), TypeOK
    PROVE  \/ main'.phase = main.phase /\ main'.arm = main.arm + 1
           \/ main'.phase = p /\ main'.arm = 1 /\ main.arm = NArms
    BY DEF NextArm, TypeOK, Arms

----------------------------------------------------------------------------
(* Commands are authorised.                                                *)

\* Every step preserves the authority invariant.
LEMMA AuthorityStep ==
    TypeOK /\ AuthorityInv /\ [Next]_vars => AuthorityInv'
<1> SUFFICES ASSUME TypeOK, AuthorityInv, [Next]_vars, RequireEnable,
                    NEW a \in Arms
             PROVE  (/\ target[a].has => buf[a].has
                     /\ safety[a].state \in CommandStates =>
                           /\ buf[a].has
                           /\ Got(a) => target[a].has
                           /\ Updated(a) => Authorised(a)
                     /\ Read(a) /\ st[a] \in CommandStates => Authorised(a))'
    BY DEF AuthorityInv
<1> DEFINE Auth == /\ target[a].has => buf[a].has
                   /\ safety[a].state \in CommandStates =>
                          /\ buf[a].has
                          /\ Got(a) => target[a].has
                          /\ Updated(a) => Authorised(a)
                   /\ Read(a) /\ st[a] \in CommandStates => Authorised(a)
<1>a. Auth
    BY DEF AuthorityInv
<1>t. /\ main.arm \in 1 .. NArms
      /\ a \in 1 .. NArms
      /\ safety[a] \in Manager
    BY DEF TypeOK, Arms
<1>0. ASSUME UNCHANGED <<buf, safety, target, st, main>>
      PROVE  Auth'
    BY <1>0, <1>a DEF Got, Updated, Read, Authorised, At
\* A step that only leaves the part of the cycle in which locals are live.
<1>1. ASSUME UNCHANGED <<buf, safety, target, st>>,
             main'.phase \in {"head", "recover", "init", "goto", "stop",
                              "disable", "freed", "done"}
                 \/ (main'.phase = "get" /\ main'.arm = 1)
      PROVE  Auth'
    BY <1>1, <1>a, <1>t DEF Got, Updated, Read, Authorised, At
<1>2. CASE LoopHead
    BY <1>1, <1>2, ContinueMoves DEF LoopHead
<1>3. ASSUME NEW k \in MoveKinds, TakeRequest(k)
      PROVE  Auth'
    BY <1>1, <1>3, ContinueMoves DEF TakeRequest, AfterRequest, MoveKinds
<1>4. CASE GetLatest
    <2>1. \/ main'.phase = "get" /\ main'.arm = main.arm + 1
          \/ main'.phase = "update" /\ main'.arm = 1 /\ main.arm = NArms
        BY <1>4, NextArmMoves DEF GetLatest, At
    <2>2. ~Updated(a)' /\ ~Read(a)' /\ UNCHANGED <<buf, safety>>
        BY <1>4, <1>t, <2>1 DEF GetLatest, Updated, Read, At
    <2>3. CASE a = main.arm
        <3>1. target'[a].has = buf[a].has
            BY <1>4, <2>3 DEF GetLatest, TypeOK, NoTarget
        <3> QED
            BY <1>a, <2>2, <3>1
    <2>4. CASE a # main.arm
        <3>1. target'[a] = target[a]
            BY <1>4, <2>4 DEF GetLatest, TypeOK
        <3>2. Got(a)' => a < main.arm
            BY <1>t, <2>1, <2>4 DEF Got, At
        <3>3. a < main.arm => Got(a)
            BY <1>4 DEF GetLatest, Got, At
        <3> QED
            BY <1>a, <2>2, <3>1, <3>2, <3>3
    <2> QED
        BY <2>3, <2>4
<1>5. CASE UpdateSafety
    <2>1. \/ main'.phase = "update" /\ main'.arm = main.arm + 1
          \/ main'.phase = "state" /\ main'.arm = 1 /\ main.arm = NArms
        BY <1>5, NextArmMoves DEF UpdateSafety, At
    <2>2. ~Read(a)' /\ Got(a) /\ UNCHANGED <<buf, st>>
        BY <1>5, <1>t, <2>1 DEF UpdateSafety, Got, Read, At
    <2>3. CASE a = main.arm /\ target[a].has
        <3>1. /\ safety'[a] = SafetyUpdate(safety[a], target[a].pkt, buf[a].age)
              /\ target'[a].gap = buf[a].age
              /\ target'[a].has
              /\ target'[a].pkt = target[a].pkt
            BY <1>5, <2>3 DEF UpdateSafety, TypeOK
        <3>2. target[a].pkt \in Packet /\ buf[a].age \in Age
            BY DEF TypeOK
        <3>3. safety'[a].state \in CommandStates => Authorised(a)'
            BY <1>t, <3>1, <3>2, UpdateAuthority DEF Authorised
        <3> QED
            BY <1>a, <2>2, <2>3, <3>1, <3>3
    <2>4. CASE a = main.arm /\ ~target[a].has
        <3>1. UNCHANGED <<safety, target>>
            BY <1>5, <2>4 DEF UpdateSafety
        <3> QED
            BY <1>a, <2>2, <2>4, <3>1
    <2>5. CASE a # main.arm
        <3>1. safety'[a] = safety[a] /\ target'[a] = target[a]
            BY <1>5, <2>5 DEF UpdateSafety, TypeOK
        <3>2. Updated(a)' => a < main.arm
            BY <1>t, <2>1, <2>5 DEF Updated, At
        <3>3. a < main.arm => Updated(a)
            BY <1>5 DEF UpdateSafety, Updated, At
        <3> QED
            BY <1>a, <2>2, <3>1, <3>2, <3>3 DEF Authorised
    <2> QED
        BY <2>3, <2>4, <2>5
<1>6. CASE ReadState
    <2>1. \/ main'.phase = "state" /\ main'.arm = main.arm + 1
          \/ main'.phase = "guard" /\ main'.arm = 1 /\ main.arm = NArms
        BY <1>6, NextArmMoves DEF ReadState, At
    <2>2. /\ Got(a) /\ Updated(a) /\ UNCHANGED <<buf, safety, target>>
          /\ Authorised(a)' = Authorised(a)
        BY <1>6 DEF ReadState, Got, Updated, At, Authorised
    <2>3. CASE a = main.arm
        <3>1. st'[a] = safety[a].state
            BY <1>6, <2>3 DEF ReadState, TypeOK
        <3> QED
            BY <1>a, <2>2, <3>1
    <2>4. CASE a # main.arm
        <3>1. st'[a] = st[a]
            BY <1>6, <2>4 DEF ReadState, TypeOK
        <3>2. Read(a)' => a < main.arm
            BY <1>t, <2>1, <2>4 DEF Read, At
        <3>3. a < main.arm => Read(a)
            BY <1>6 DEF ReadState, Read, At
        <3> QED
            BY <1>a, <2>2, <3>1, <3>2, <3>3
    <2> QED
        BY <2>3, <2>4
<1>7. CASE CheckBusy
    <2>1. /\ Got(a) /\ Updated(a) /\ Read(a)
          /\ UNCHANGED <<buf, safety, target, st>>
        BY <1>7 DEF CheckBusy, Got, Updated, Read, At
    <2> QED
        BY <1>a, <2>1 DEF Authorised
<1>8. CASE MotorStep
    <2>1. /\ Got(a) /\ Updated(a) /\ Read(a)
          /\ UNCHANGED <<buf, safety, target, st>>
        BY <1>8 DEF MotorStep, Got, Updated, Read, At
    <2> QED
        BY <1>a, <2>1 DEF Authorised
<1>9. CASE Report
    <2>1. main'.phase = "head" /\ UNCHANGED <<buf, safety>>
        BY <1>9, ContinueMoves DEF Report
    <2>2. ~Got(a)' /\ ~Updated(a)' /\ ~Read(a)'
        BY <2>1 DEF Got, Updated, Read, At
    <2>3. ~target'[a].has
        BY <1>9 DEF Report, NoTarget
    <2> QED
        BY <1>a, <2>1, <2>2, <2>3
<1>10. CASE StopReceivers \/ DisableAll \/ ReturnFromMain
    <2>1. UNCHANGED <<buf, safety, target, st>>
        BY <1>10 DEF StopReceivers, DisableAll, ReturnFromMain
    <2>2. main'.phase \in {"disable", "freed", "done"}
        BY <1>10, ContinueMoves, NextArmMoves
        DEF StopReceivers, DisableAll, ReturnFromMain, At
    <2> QED
        BY <1>1, <2>1, <2>2
<1>11. ASSUME NEW b \in Arms, Receive(b)
       PROVE  Auth'
    <2>1. buf[a].has => buf'[a].has
        BY <1>11 DEF Receive, TypeOK
    <2> QED
        BY <1>11, <1>a, <2>1 DEF Receive, Got, Updated, Read, Authorised, At
<1>12. CASE Tick
    <2>1. buf'[a].has = buf[a].has
        BY <1>12 DEF Tick, TypeOK
    <2> QED
        BY <1>12, <1>a, <2>1 DEF Tick, Got, Updated, Read, Authorised, At
\* Another thread puts a manager into a state in which nothing is sent.
<1>13. ASSUME UNCHANGED <<buf, target, st, main>>,
              \/ safety'[a] = safety[a]
              \/ safety'[a].state \notin CommandStates
       PROVE  Auth'
    BY <1>13, <1>a DEF Got, Updated, Read, Authorised, At
<1>14. \A m : /\ ResetSafety(m).state \notin CommandStates
              /\ TriggerEstop(m).state \notin CommandStates
    BY DEF ResetSafety, NewManager, RestState, TriggerEstop, CommandStates,
           TrackStates
<1>15. \A b \in Arms : Reset(b) \/ Trigger(b) =>
           \/ safety'[a] = safety[a]
           \/ safety'[a].state \notin CommandStates
    BY <1>14 DEF Reset, Trigger, TypeOK
<1>16. ASSUME NEW k \in MoveKinds, Mover(k)
       PROVE  Auth'
    BY <1>0, <1>13, <1>15, <1>16 DEF Mover, MoverMoves, MoverResets, MoverEnds
<1>17. ASSUME NEW cmd \in Commands, ServerAccepts(cmd)
       PROVE  Auth'
    BY <1>0, <1>17 DEF ServerAccepts
<1>18. CASE ServerArm
    BY <1>13, <1>15, <1>18 DEF ServerArm, TypeOK
<1>19. CASE SignalArrives \/ SignalEnds
    BY <1>0, <1>19 DEF SignalArrives, SignalEnds
<1>20. CASE SignalArm
    BY <1>13, <1>15, <1>20 DEF SignalArm
<1>21. CASE UNCHANGED vars
    BY <1>0, <1>21 DEF vars
<1> QED
    BY <1>2, <1>3, <1>4, <1>5, <1>6, <1>7, <1>8, <1>9, <1>10, <1>11, <1>12,
       <1>16, <1>17, <1>18, <1>19, <1>20, <1>21
    DEF Next, MainLoop, Handler, Terminated

----------------------------------------------------------------------------
(* A stop is latched, and the main loop notices it within one command.     *)

\* Every step preserves the latch invariant.
LEMMA LatchStep == TypeOK /\ LatchInv /\ [Next]_vars => LatchInv'
<1> SUFFICES ASSUME TypeOK, LatchInv, [Next]_vars, NEW a \in Arms
             PROVE  (/\ safety[a].estop => safety[a].state = "ESTOP"
                     /\ ~safety[a].estop => late[a] = 0
                     /\ late[a] <= 1
                     /\ late[a] = 1 /\ Pending(a) => st[a] \notin CommandStates)'
    BY DEF LatchInv
<1> DEFINE Latch == /\ safety[a].estop => safety[a].state = "ESTOP"
                    /\ ~safety[a].estop => late[a] = 0
                    /\ late[a] <= 1
                    /\ late[a] = 1 /\ Pending(a) => st[a] \notin CommandStates
<1>a. Latch
    BY DEF LatchInv
<1>t. /\ main.arm \in 1 .. NArms
      /\ a \in 1 .. NArms
      /\ safety[a] \in Manager
      /\ late[a] \in Nat
    BY DEF TypeOK, Arms
<1>0. ASSUME UNCHANGED <<safety, late, st, main>>
      PROVE  Latch'
    BY <1>0, <1>a DEF Pending, Read, At
\* A step outside the part of the cycle in which a command is pending.
<1>1. ASSUME UNCHANGED <<safety, late>>, ~Pending(a)'
      PROVE  Latch'
    BY <1>1, <1>a
<1>2. CASE LoopHead
    <2>1. main'.phase \in {"recover", "stop"}
        BY <1>2, ContinueMoves DEF LoopHead
    <2> QED
        BY <1>1, <1>2, <2>1 DEF LoopHead, Pending, Read, At
<1>3. ASSUME NEW k \in MoveKinds, TakeRequest(k)
      PROVE  Latch'
    <2>1. main'.phase \in {"init", "goto", "get"}
        BY <1>3, ContinueMoves DEF TakeRequest, AfterRequest, MoveKinds
    <2> QED
        BY <1>1, <1>3, <2>1 DEF TakeRequest, Pending, Read, At
<1>4. CASE GetLatest
    <2>1. main'.phase \in {"get", "update"}
        BY <1>4, NextArmMoves DEF GetLatest, At
    <2> QED
        BY <1>1, <1>4, <2>1 DEF GetLatest, Pending, Read, At
<1>5. CASE UpdateSafety
    <2>1. \/ main'.phase = "update"
          \/ main'.phase = "state" /\ main'.arm = 1
        BY <1>5, NextArmMoves DEF UpdateSafety, At
    <2>2. ~Pending(a)' /\ UNCHANGED late
        BY <1>5, <1>t, <2>1 DEF UpdateSafety, Pending, Read, At
    <2>3. CASE safety'[a] = safety[a]
        BY <1>a, <2>2, <2>3
    <2>4. CASE safety'[a] = SafetyUpdate(safety[a], target[a].pkt, buf[a].age)
        <3>1. target[a].pkt \in Packet /\ buf[a].age \in Age
            BY DEF TypeOK
        <3>2. safety'[a].estop = safety[a].estop
            BY <1>t, <2>4, <3>1, ManagerTypes
        <3>3. safety[a].estop => safety'[a].state = "ESTOP"
            BY <1>t, <2>4, <3>1, UpdateKeepsEstop
        <3> QED
            BY <1>a, <2>2, <3>2, <3>3
    <2> QED
        BY <1>5, <2>3, <2>4 DEF UpdateSafety, TypeOK
<1>6. CASE ReadState
    <2>1. \/ main'.phase = "state" /\ main'.arm = main.arm + 1
          \/ main'.phase = "guard" /\ main'.arm = 1 /\ main.arm = NArms
        BY <1>6, NextArmMoves DEF ReadState, At
    <2>2. UNCHANGED <<safety, late>>
        BY <1>6 DEF ReadState
    <2>3. CASE a = main.arm
        <3>1. st'[a] = safety[a].state
            BY <1>6, <2>3 DEF ReadState, TypeOK
        <3>2. late[a] = 1 => safety[a].state = "ESTOP"
            BY <1>a
        <3> QED
            BY <1>a, <2>2, <3>1, <3>2 DEF CommandStates, TrackStates
    <2>4. CASE a # main.arm
        <3>1. st'[a] = st[a]
            BY <1>6, <2>4 DEF ReadState, TypeOK
        <3>2. Pending(a)' => a < main.arm
            BY <1>t, <2>1, <2>4 DEF Pending, Read, At
        <3>3. a < main.arm => Pending(a)
            BY <1>6 DEF ReadState, Pending, Read, At
        <3> QED
            BY <1>a, <2>2, <3>1, <3>2, <3>3
    <2> QED
        BY <2>3, <2>4
<1>7. CASE CheckBusy
    <2>1. Pending(a) /\ UNCHANGED <<safety, late, st>>
        BY <1>7 DEF CheckBusy, Pending, Read, At
    <2> QED
        BY <1>a, <2>1
<1>8. CASE MotorStep
    <2>1. \/ main'.phase = "motor" /\ main'.arm = main.arm + 1
          \/ main'.phase = "report" /\ main'.arm = 1 /\ main.arm = NArms
        BY <1>8, NextArmMoves DEF MotorStep, At
    <2>2. UNCHANGED <<safety, st>>
        BY <1>8 DEF MotorStep
    <2>3. CASE a = main.arm
        <3>1. ~Pending(a)' /\ Pending(a)
            BY <1>8, <1>t, <2>1, <2>3 DEF MotorStep, Pending, Read, At
        <3>2. \/ late'[a] = late[a]
              \/ /\ late'[a] = late[a] + 1
                 /\ st[a] \in CommandStates
                 /\ safety[a].estop
            BY <1>8, <2>3 DEF MotorStep, TypeOK
        <3> QED
            BY <1>a, <1>t, <2>2, <3>1, <3>2
    <2>4. CASE a # main.arm
        <3>1. late'[a] = late[a]
            BY <1>8, <2>4 DEF MotorStep, TypeOK
        <3>2. Pending(a)' => main.arm <= a
            BY <1>t, <2>1, <2>4 DEF Pending, Read, At
        <3>3. main.arm <= a => Pending(a)
            BY <1>8 DEF MotorStep, Pending, Read, At
        <3> QED
            BY <1>a, <2>2, <3>1, <3>2, <3>3
    <2> QED
        BY <2>3, <2>4
<1>9. CASE Report
    <2>1. main'.phase = "head"
        BY <1>9, ContinueMoves DEF Report
    <2> QED
        BY <1>1, <1>9, <2>1 DEF Report, Pending, Read, At
<1>10. CASE StopReceivers \/ DisableAll \/ ReturnFromMain
    <2>1. main'.phase \in {"disable", "freed", "done"}
        BY <1>10, ContinueMoves, NextArmMoves
        DEF StopReceivers, DisableAll, ReturnFromMain, At
    <2>2. UNCHANGED <<safety, late>>
        BY <1>10 DEF StopReceivers, DisableAll, ReturnFromMain
    <2> QED
        BY <1>1, <2>1, <2>2 DEF Pending, Read, At
<1>11. ASSUME NEW b \in Arms, Receive(b)
       PROVE  Latch'
    BY <1>0, <1>11 DEF Receive
<1>12. CASE Tick
    BY <1>0, <1>12 DEF Tick
\* Another thread resets or stops an arm.
<1>13. ASSUME NEW b \in Arms, Reset(b) \/ Trigger(b), UNCHANGED <<st, main>>
       PROVE  Latch'
    <2>1. Pending(a)' = Pending(a)
        BY <1>13 DEF Pending, Read, At
    <2>2. CASE b # a
        <3>1. safety'[a] = safety[a] /\ late'[a] = late[a]
            BY <1>13, <2>2 DEF Reset, Trigger, TypeOK
        <3> QED
            BY <1>13, <1>a, <2>1, <3>1
    <2>3. CASE b = a /\ Reset(b)
        <3>1. ~safety'[a].estop /\ late'[a] = 0
            BY <2>3 DEF Reset, ResetSafety, NewManager, TypeOK
        <3> QED
            BY <3>1
    <2>4. CASE b = a /\ Trigger(b)
        <3>1. /\ safety'[a].estop /\ safety'[a].state = "ESTOP"
              /\ late' = late
            BY <2>4 DEF Trigger, TriggerEstop, TypeOK
        <3> QED
            BY <1>13, <1>a, <2>1, <3>1
    <2> QED
        BY <1>13, <2>2, <2>3, <2>4
<1>14. ASSUME NEW k \in MoveKinds, Mover(k)
       PROVE  Latch'
    BY <1>0, <1>13, <1>14 DEF Mover, MoverMoves, MoverResets, MoverEnds
<1>15. ASSUME NEW cmd \in Commands, ServerAccepts(cmd)
       PROVE  Latch'
    BY <1>0, <1>15 DEF ServerAccepts
<1>16. CASE ServerArm
    BY <1>13, <1>16 DEF ServerArm, TypeOK
<1>17. CASE SignalArrives \/ SignalEnds
    BY <1>0, <1>17 DEF SignalArrives, SignalEnds
<1>18. CASE SignalArm
    BY <1>13, <1>18 DEF SignalArm
<1>19. CASE UNCHANGED vars
    BY <1>0, <1>19 DEF vars
<1> QED
    BY <1>2, <1>3, <1>4, <1>5, <1>6, <1>7, <1>8, <1>9, <1>10, <1>11, <1>12,
       <1>14, <1>15, <1>16, <1>17, <1>18, <1>19
    DEF Next, MainLoop, Handler, Terminated

----------------------------------------------------------------------------
(* Moves and the main loop exclude each other.                             *)

\* What MoverInv says of one kind of move.
Kind(k) ==
    /\ \A s \in Stages : movers[k][s] <= 1
    /\ \A s, t \in Stages : movers[k][s] > 0 /\ movers[k][t] > 0 => s = t
    /\ \A s \in Stages : movers[k][s] > 0 => busy[k]
    /\ At("motor") /\ go /\ k # "goto" => \A s \in Stages : movers[k][s] = 0

\* A thread that goes on to its next stage is still the only one.
LEMMA AdvanceKeepsOne ==
    ASSUME TypeOK, NEW k \in MoveKinds, NEW s \in Stages, s + 1 \in Stages,
           Advance(k, s), UNCHANGED <<busy, go, main>>, Kind(k)
    PROVE  /\ Kind(k)'
           /\ \A j \in MoveKinds : j # k => movers'[j] = movers[j]
<1> DEFINE stage == [movers[k] EXCEPT ![s] = @ - 1, ![s + 1] = @ + 1]
<1>1. movers[k] \in [Stages -> Nat] /\ movers[k][s] > 0
    BY DEF TypeOK, Advance
<1>2. movers'[k] = stage /\ \A j \in MoveKinds : j # k => movers'[j] = movers[j]
    BY DEF Advance, TypeOK
<1>3. movers[k][s] = 1 /\ \A t \in Stages : t # s => movers[k][t] = 0
    BY <1>1 DEF Kind
<1>4. s # s + 1 /\ s \in Nat
    BY DEF Stages
<1>5. \A t \in Stages : stage[t] = IF t = s + 1 THEN 1 ELSE 0
    BY <1>1, <1>3, <1>4
<1>6. busy[k] /\ ~(At("motor") /\ go /\ k # "goto")
    BY <1>1 DEF Kind
<1> QED
    BY <1>2, <1>5, <1>6 DEF Kind, At

\* Every step preserves the invariant of the detached threads.
LEMMA MoverStep == TypeOK /\ MoverInv /\ [Next]_vars => MoverInv'
<1> SUFFICES ASSUME TypeOK, MoverInv, [Next]_vars, ~overlapped',
                    NEW j \in MoveKinds
             PROVE  Kind(j)'
    BY DEF MoverInv, Kind
<1>1. overlapped' = overlapped \/ \E k \in MoveKinds : TakeRequest(k)
    BY DEF Next, MainLoop, Handler, Terminated, vars, LoopHead, GetLatest,
           UpdateSafety, ReadState, CheckBusy, MotorStep, Report,
           StopReceivers, DisableAll, ReturnFromMain, Receive, Tick, Mover,
           MoverMoves, MoverResets, MoverEnds, ServerAccepts, ServerArm,
           SignalArrives, SignalArm, SignalEnds
<1>2. ~overlapped
    BY <1>1 DEF TakeRequest, StartMove, NoMove
<1>3. \A k \in MoveKinds : Kind(k)
    BY <1>2 DEF MoverInv, Kind
<1>0. ASSUME UNCHANGED <<movers, busy>>,
             At("motor")' => At("motor") /\ UNCHANGED go
      PROVE  Kind(j)'
    BY <1>0, <1>3 DEF Kind
<1>4. CASE LoopHead \/ GetLatest \/ UpdateSafety \/ ReadState
    <2>1. ~At("motor")'
        BY <1>4, ContinueMoves, NextArmMoves
        DEF LoopHead, GetLatest, UpdateSafety, ReadState, At
    <2> QED
        BY <1>0, <1>4, <2>1 DEF LoopHead, GetLatest, UpdateSafety, ReadState
<1>5. ASSUME NEW k \in MoveKinds, TakeRequest(k)
      PROVE  Kind(j)'
    <2>1. ~At("motor")'
        BY <1>5, ContinueMoves DEF TakeRequest, AfterRequest, MoveKinds, At
    <2>2. CASE NoMove(k)
        BY <1>0, <2>1, <2>2 DEF NoMove
    <2>3. CASE StartMove(k) /\ j # k
        <3>1. movers'[j] = movers[j] /\ busy'[j] = busy[j]
            BY <2>3 DEF StartMove, TypeOK
        <3> QED
            BY <1>3, <2>1, <3>1 DEF Kind
    <2>4. CASE StartMove(k) /\ j = k
        <3>1. 0 \in Stages /\ movers[j] \in [Stages -> Nat]
            BY DEF Stages, TypeOK
        <3>5. ~LiveMovers(j)
            BY <2>4 DEF StartMove
        <3>2. \A s \in Stages : movers[j][s] = 0
            BY <3>1, <3>5 DEF LiveMovers
        <3>3. movers'[j] = [movers[j] EXCEPT ![0] = @ + 1] /\ busy'[j]
            BY <2>4 DEF StartMove, TypeOK
        <3>4. \A s \in Stages : movers'[j][s] = IF s = 0 THEN 1 ELSE 0
            BY <3>1, <3>2, <3>3
        <3> QED
            BY <2>1, <3>3, <3>4 DEF Kind
    <2> QED
        BY <1>5, <2>2, <2>3, <2>4 DEF TakeRequest
<1>6. CASE CheckBusy
    <2>1. UNCHANGED <<movers, busy>>
        BY <1>6 DEF CheckBusy
    <2>2. go' => j = "goto" \/ ~busy[j]
        BY <1>6 DEF CheckBusy, MoveKinds
    <2>3. \A s \in Stages : movers[j][s] \in Nat
        BY DEF TypeOK
    <2>4. ~busy[j] => \A s \in Stages : movers[j][s] = 0
        BY <1>3, <2>3 DEF Kind
    <2> QED
        BY <1>3, <2>1, <2>2, <2>4 DEF Kind
<1>7. CASE MotorStep
    BY <1>0, <1>7 DEF MotorStep, At
<1>8. CASE Report \/ StopReceivers \/ DisableAll \/ ReturnFromMain
    <2>1. ~At("motor")'
        BY <1>8, ContinueMoves, NextArmMoves
        DEF Report, StopReceivers, DisableAll, ReturnFromMain, At
    <2> QED
        BY <1>0, <1>8, <2>1 DEF Report, StopReceivers, DisableAll, ReturnFromMain
<1>9. ASSUME NEW k \in MoveKinds, NEW s \in Stages, s + 1 \in Stages,
             Advance(k, s), UNCHANGED <<busy, go, main>>
      PROVE  Kind(j)'
    <2>1. CASE j = k
        BY <1>3, <1>9, <2>1, AdvanceKeepsOne
    <2>2. CASE j # k
        <3>1. movers'[j] = movers[j]
            BY <1>3, <1>9, <2>2, AdvanceKeepsOne
        <3> QED
            BY <1>3, <1>9, <3>1 DEF Kind, At
    <2> QED
        BY <2>1, <2>2
<1>10. ASSUME NEW k \in MoveKinds, Mover(k)
       PROVE  Kind(j)'
    <2>1. CASE MoverMoves(k)
        <3>1. 0 \in Stages /\ 0 + 1 \in Stages
            BY DEF Stages
        <3> QED
            BY <1>9, <2>1, <3>1 DEF MoverMoves
    <2>2. CASE MoverResets(k)
        <3>1. \A a \in Arms : a \in Stages /\ a + 1 \in Stages
            BY DEF Arms, Stages
        <3> QED
            BY <1>9, <2>2, <3>1 DEF MoverResets
    <2>3. CASE MoverEnds(k) /\ j # k
        <3>1. /\ movers'[j] = movers[j] /\ busy'[j] = busy[j]
              /\ UNCHANGED <<go, main>>
            BY <2>3 DEF MoverEnds, TypeOK
        <3> QED
            BY <1>3, <3>1 DEF Kind, At
    <2>4. CASE MoverEnds(k) /\ j = k
        <3>1. NArms + 1 \in Stages /\ movers[j] \in [Stages -> Nat]
            BY DEF Stages, TypeOK
        <3>2. /\ movers[j][NArms + 1] > 0
              /\ movers'[j] = [movers[j] EXCEPT ![NArms + 1] = @ - 1]
            BY <2>4 DEF MoverEnds, TypeOK
        <3>3. /\ movers[j][NArms + 1] = 1
              /\ \A s \in Stages : s # NArms + 1 => movers[j][s] = 0
            BY <1>3, <3>1, <3>2 DEF Kind
        <3>4. \A s \in Stages : movers'[j][s] = 0
            BY <3>1, <3>2, <3>3
        <3> QED
            BY <3>4 DEF Kind
    <2> QED
        BY <1>10, <2>1, <2>2, <2>3, <2>4 DEF Mover
<1>11. ASSUME NEW a \in Arms, Receive(a)
       PROVE  Kind(j)'
    BY <1>0, <1>11 DEF Receive, At
<1>12. CASE Tick
    BY <1>0, <1>12 DEF Tick, At
<1>13. ASSUME NEW cmd \in Commands, ServerAccepts(cmd)
       PROVE  Kind(j)'
    BY <1>0, <1>13 DEF ServerAccepts, At
<1>14. CASE ServerArm \/ SignalArrives \/ SignalArm \/ SignalEnds
    BY <1>0, <1>14 DEF ServerArm, SignalArrives, SignalArm, SignalEnds, At
<1>15. CASE UNCHANGED vars
    BY <1>0, <1>15 DEF vars, At
<1> QED
    BY <1>4, <1>5, <1>6, <1>7, <1>8, <1>10, <1>11, <1>12, <1>13, <1>14, <1>15
    DEF Next, MainLoop, Handler, Terminated

----------------------------------------------------------------------------
(* The theorems.                                                           *)

\* The initial state of the process satisfies the inductive invariant.
LEMMA InitIInv == Init => IInv
<1> SUFFICES ASSUME Init
             PROVE  IInv
    OBVIOUS
<1>1. TypeOK
    <2>1. 1 \in Arms /\ 0 \in Age /\ NoPacket \in Packet
        BY DEF Arms, Age, NoPacket, Packet
    <2>2. NewManager \in Manager /\ RestState \in SafetyState
        BY DEF NewManager, RestState, Manager, SafetyState
    <2>3. /\ buf \in [Arms -> [has : BOOLEAN, pkt : Packet, age : Age]]
          /\ target \in [Arms -> [has : BOOLEAN, pkt : Packet, gap : Age]]
        BY <2>1 DEF Init, NoTarget
    <2>4. movers \in [MoveKinds -> [Stages -> Nat]]
        BY DEF Init
    <2>5. /\ main \in [phase : Phases, arm : Arms]
          /\ server \in [cmd : PerArmCommands \cup {"none"}, arm : Arms]
        BY <2>1 DEF Init, Phases
    <2>6. /\ signal \in 0 .. NArms + 2
          /\ events \in 0 .. MaxEvents
        BY DEF Init
    <2> QED
        BY <2>2, <2>3, <2>4, <2>5, <2>6 DEF Init, TypeOK
<1>2. AuthorityInv
    BY DEF Init, AuthorityInv, NoTarget, NewManager, RestState, Read, At,
           CommandStates, TrackStates
<1>3. LatchInv
    BY DEF Init, LatchInv, NewManager
<1>4. MoverInv
    BY DEF Init, MoverInv
<1> QED
    BY <1>1, <1>2, <1>3, <1>4 DEF IInv

(***************************************************************************)
(* The conjunction of types, command authority, stop latching and mover    *)
(* exclusion is an invariant of the follower process.                      *)
(***************************************************************************)
THEOREM InductiveInvariant == Spec => []IInv
<1>1. IInv /\ [Next]_vars => IInv'
    BY TypeStep, AuthorityStep, LatchStep, MoverStep DEF IInv
<1> QED
    BY <1>1, InitIInv, PTL DEF Spec

\* The shared state of the follower's threads always has its type.
THEOREM TypeCorrect == Spec => []TypeOK
<1>1. IInv => TypeOK
    BY DEF IInv
<1> QED
    BY <1>1, InductiveInvariant, PTL

(***************************************************************************)
(* Whatever the other threads do between update() and the motor section,   *)
(* the main loop commands an arm only on an enabling, fresh packet of the  *)
(* same cycle.                                                             *)
(***************************************************************************)
THEOREM CommandsAreAuthorisedThm == Spec => []CommandsAreAuthorised
<1>1. IInv => CommandsAreAuthorised
    BY DEF IInv, AuthorityInv, CommandsAreAuthorised, Read, At
<1> QED
    BY <1>1, InductiveInvariant, PTL

\* After trigger_estop() an arm gets at most one more main-loop command.
THEOREM EstopLatencyThm == Spec => []EstopLatency
<1>1. IInv => EstopLatency
    BY DEF IInv, LatchInv, EstopLatency
<1> QED
    BY <1>1, InductiveInvariant, PTL

\* The motor section and an init_position or recover_estop thread never
\* drive the arms at once, unless such requests overlapped.
THEOREM ExclusiveMotionThm == Spec => []ExclusiveMotion
<1>1. ASSUME IInv
      PROVE  ExclusiveMotion
    <2>1. 0 \in Stages
        BY DEF Stages
    <2>2. "init" \in MoveKinds /\ "recover" \in MoveKinds
        BY DEF MoveKinds
    <2> QED
        BY <1>1, <2>1, <2>2 DEF IInv, MoverInv, ExclusiveMotion
<1> QED
    BY <1>1, InductiveInvariant, PTL

----------------------------------------------------------------------------
(* The refinement of the abstract dead-man switch.                         *)

\* The abstract mode of every arm.
ArmModes == [a \in Arms |-> ModeOf(safety[a].state)]

\* A step that changes one manager, and makes it live only from rest or
\* from live, is a step of the abstract machine or no step of it.
LEMMA OneArmStep ==
    ASSUME TypeOK, NEW b \in Arms, NEW m \in Manager,
           safety' = [safety EXCEPT ![b] = m],
           ModeOf(m.state) = "live" =>
               ModeOf(safety[b].state) \in {"rest", "live"}
    PROVE  [DM!Next]_ArmModes
<1>1. ArmModes' = [ArmModes EXCEPT ![b] = ModeOf(m.state)]
    BY DEF ArmModes, TypeOK
<1>2. ArmModes[b] = ModeOf(safety[b].state)
    BY DEF ArmModes
<1>3. CASE ModeOf(m.state) = "rest"
    <2>1. DM!Release(b)
        BY <1>1, <1>3 DEF DM!Release, ArmModes
    <2> QED
        BY <2>1 DEF DM!Next
<1>4. CASE ModeOf(m.state) = "fault"
    <2>1. DM!Trip(b)
        BY <1>1, <1>4 DEF DM!Trip, ArmModes
    <2> QED
        BY <2>1 DEF DM!Next
<1>5. CASE ModeOf(m.state) = "stopped"
    <2>1. DM!Stop(b)
        BY <1>1, <1>5 DEF DM!Stop, ArmModes
    <2> QED
        BY <2>1 DEF DM!Next
<1>6. CASE ModeOf(m.state) = "live" /\ ArmModes[b] = "rest"
    <2>1. DM!Engage(b)
        BY <1>1, <1>6 DEF DM!Engage, ArmModes
    <2> QED
        BY <2>1 DEF DM!Next
<1>7. CASE ModeOf(m.state) = "live" /\ ArmModes[b] = "live"
    <2>1. ArmModes' = ArmModes
        BY <1>1, <1>7 DEF ArmModes
    <2> QED
        BY <2>1
<1>8. ModeOf(m.state) \in {"rest", "live", "fault", "stopped"}
    BY DEF ModeOf
<1> QED
    BY <1>2, <1>3, <1>4, <1>5, <1>6, <1>7, <1>8

(***************************************************************************)
(* The follower process implements the dead-man switch: no interleaving of *)
(* its threads takes an arm from a fault or a stop straight back to live.  *)
(***************************************************************************)
THEOREM Refinement == Spec => RefinesDeadMan
<1>1. Init => DM!Init
    BY DEF Init, DM!Init, NewManager, RestState, ModeOf
<1>2. ASSUME TypeOK, [Next]_vars
      PROVE  [DM!Next]_ArmModes
    <2>0. ASSUME UNCHANGED safety
          PROVE  [DM!Next]_ArmModes
        BY <2>0 DEF ArmModes
    <2>1. ASSUME NEW a \in Arms, Trigger(a)
          PROVE  [DM!Next]_ArmModes
        <3>1. TriggerEstop(safety[a]) \in Manager
            BY DEF TriggerEstop, Manager, SafetyState
        <3>2. ModeOf(TriggerEstop(safety[a]).state) # "live"
            BY DEF TriggerEstop, ModeOf
        <3> QED
            BY <1>2, <2>1, <3>1, <3>2, OneArmStep DEF Trigger
    <2>2. ASSUME NEW a \in Arms, Reset(a)
          PROVE  [DM!Next]_ArmModes
        <3>1. ResetSafety(safety[a]) \in Manager
            BY DEF ResetSafety, NewManager, RestState, Manager, SafetyState
        <3>2. ModeOf(ResetSafety(safety[a]).state) # "live"
            BY DEF ResetSafety, NewManager, RestState, ModeOf
        <3> QED
            BY <1>2, <2>2, <3>1, <3>2, OneArmStep DEF Reset
    <2>3. CASE UpdateSafety
        <3> DEFINE a == main.arm
                   m == SafetyUpdate(safety[a], target[a].pkt, buf[a].age)
        <3>1. /\ a \in Arms /\ safety[a] \in Manager
              /\ target[a].pkt \in Packet /\ buf[a].age \in Age
            BY <1>2 DEF TypeOK
        <3>2. m \in Manager
            BY <3>1, ManagerTypes
        <3>3. ModeOf(m.state) = "live" =>
                  ModeOf(safety[a].state) \in {"rest", "live"}
            BY <3>1, UpdateMode
        <3>4. UNCHANGED safety \/ safety' = [safety EXCEPT ![a] = m]
            BY <2>3 DEF UpdateSafety
        <3> HIDE DEF a, m
        <3> QED
            BY <1>2, <2>0, <3>1, <3>2, <3>3, <3>4, OneArmStep
    <2>4. \/ UNCHANGED safety
          \/ UpdateSafety
          \/ \E a \in Arms : Trigger(a) \/ Reset(a)
        BY <1>2
        DEF Next, MainLoop, Handler, Terminated, vars, LoopHead, TakeRequest,
            GetLatest, ReadState, CheckBusy, MotorStep, Report, StopReceivers,
            DisableAll, ReturnFromMain, Receive, Tick, Mover, MoverMoves,
            MoverResets, MoverEnds, ServerAccepts, ServerArm, SignalArrives,
            SignalArm, SignalEnds, TypeOK
    <2> QED
        BY <2>0, <2>1, <2>2, <2>3, <2>4
<1> QED
    BY <1>1, <1>2, TypeCorrect, PTL DEF Spec, RefinesDeadMan, DM!Spec, ArmModes
=============================================================================
