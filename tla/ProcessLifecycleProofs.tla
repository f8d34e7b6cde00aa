----------------------- MODULE ProcessLifecycleProofs -----------------------
(***************************************************************************)
(* Proofs about the life of the programs, for every set of programs, any   *)
(* number of clients and every set of commands, and wherever SIGINT        *)
(* strikes.                                                                *)
(***************************************************************************)
EXTENDS ProcessLifecycle, SequenceTheorems, TLAPS

----------------------------------------------------------------------------
(* The start-up lists.                                                     *)

StepName == {"managers", "server", "receivers", "telemetry", "dynamics",
             "initialise", "verify", "adjust"}

StepOf(arms) == [do : StepName, arm : arms]

\* Two lists of steps make a list of steps.
LEMMA Joined ==
    ASSUME NEW s \in Seq(StepOf(Arms)), NEW t \in Seq(StepOf(Arms))
    PROVE  s \o t \in Seq(StepOf(Arms)) /\ Len(s \o t) = Len(s) + Len(t)
    BY ConcatProperties

\* The steps of one arm are steps of that arm.
LEMMA ArmStepsType ==
    ASSUME NEW a \in Arms
    PROVE  ArmSteps(a) \in Seq(StepOf(Arms)) /\ Len(ArmSteps(a)) = 3
    BY DEF ArmSteps, StepOf, StepName, Arms

(***************************************************************************)
(* Every program's start-up is a list of steps, no longer than the         *)
(* follower's; the single programs initialise arm 1 only.                  *)
(***************************************************************************)
LEMMA StartUpType ==
    ASSUME NEW r \in Programs
    PROVE  /\ StartUp(r) \in Seq(StepOf(IF r \in {"follower", "leader"} THEN Arms ELSE {1}))
           /\ Len(StartUp(r)) \in 1 .. LongestStartUp
           /\ LongestStartUp = 11
<1> DEFINE S == Seq(StepOf(Arms))
           a1 == ArmSteps(1)
           a2 == ArmSteps(2)
           before == <<Step("managers"), Step("server"), Step("receivers"), Step("telemetry")>>
           adjust == <<Step("adjust")>>
           after == <<Step("adjust"), Step("telemetry"), Step("receivers"), Step("server")>>
<1>1. a1 \in S /\ a2 \in S /\ Len(a1) = 3 /\ Len(a2) = 3
    BY ArmStepsType DEF Arms
<1>2. /\ before \in S /\ Len(before) = 4
      /\ adjust \in S /\ Len(adjust) = 1
      /\ after \in S /\ Len(after) = 4
    BY DEF Step, StepOf, StepName, Arms
<1>j. ASSUME NEW s \in S, NEW t \in S
      PROVE  s \o t \in S /\ Len(s \o t) = Len(s) + Len(t)
    BY Joined
<1>f. StartUp("follower") = ((before \o a1) \o a2) \o adjust
    BY DEF StartUp
<1>l. StartUp("leader") = (a1 \o a2) \o after
    BY DEF StartUp
<1> HIDE DEF S, a1, a2, before, adjust, after
<1>3. a1 \o a2 \in S /\ Len(a1 \o a2) = Len(a1) + Len(a2)
    BY <1>1, <1>j, Zenon
<1>4. before \o a1 \in S /\ Len(before \o a1) = Len(before) + Len(a1)
    BY <1>1, <1>2, <1>j, Zenon
<1>5. /\ (before \o a1) \o a2 \in S
      /\ Len((before \o a1) \o a2) = Len(before \o a1) + Len(a2)
    BY <1>1, <1>4, <1>j, Zenon
<1>6. StartUp("follower") \in S /\ Len(StartUp("follower")) = Len((before \o a1) \o a2) + Len(adjust)
    BY <1>2, <1>5, <1>f, <1>j, Zenon
<1>7. StartUp("leader") \in S /\ Len(StartUp("leader")) = Len(a1 \o a2) + Len(after)
    BY <1>2, <1>3, <1>l, <1>j, Zenon
<1>8. Len(StartUp("follower")) = 11 /\ Len(StartUp("leader")) = 10
    BY <1>1, <1>2, <1>3, <1>4, <1>5, <1>6, <1>7
<1>10. LongestStartUp = 11
    BY <1>8 DEF LongestStartUp
<1>11. CASE r = "follower"
    <2>1. StartUp(r) \in Seq(StepOf(IF r \in {"follower", "leader"} THEN Arms ELSE {1}))
        BY <1>6, <1>11 DEF S
    <2> QED
        BY <1>8, <1>10, <1>11, <2>1
<1>12. CASE r = "leader"
    <2>1. StartUp(r) \in Seq(StepOf(IF r \in {"follower", "leader"} THEN Arms ELSE {1}))
        BY <1>7, <1>12 DEF S
    <2> QED
        BY <1>8, <1>10, <1>12, <2>1
<1>13. CASE r = "single_follower"
    <2>1. StartUp(r) = <<Step("managers"), Step("receivers"), Step("initialise"), Step("adjust")>>
        BY <1>13 DEF StartUp
    <2>2. StartUp(r) \in Seq(StepOf({1})) /\ Len(StartUp(r)) = 4
        BY <2>1 DEF Step, StepOf, StepName
    <2> QED
        BY <1>10, <1>13, <2>2
<1>14. CASE r = "single_leader"
    <2>1. StartUp(r) = <<Step("initialise"), Step("adjust")>>
        BY <1>14 DEF StartUp
    <2>2. StartUp(r) \in Seq(StepOf({1})) /\ Len(StartUp(r)) = 2
        BY <2>1 DEF Step, StepOf, StepName
    <2> QED
        BY <1>10, <1>14, <2>2
<1> QED
    BY <1>11, <1>12, <1>13, <1>14 DEF Programs

(***************************************************************************)
(* The step under way is one of the program's own arms.                    *)
(***************************************************************************)
LEMMA CurrentType ==
    ASSUME TypeOK, ExitInv, At("startup")
    PROVE  /\ Len(StartUp(role)) \in 1 .. LongestStartUp
           /\ Current.do \in StepName
           /\ Current.arm \in Arms /\ Current.arm <= LastArm
<1>1. role \in Programs
    BY LifecycleAssumption DEF LifecycleAssumption, TypeOK
<1> DEFINE A == IF role \in {"follower", "leader"} THEN Arms ELSE {1}
<1>2. StartUp(role) \in Seq(StepOf(A)) /\ Len(StartUp(role)) \in 1 .. LongestStartUp
      /\ LongestStartUp = 11
    BY <1>1, StartUpType
<1>3. main.at \in 1 .. Len(StartUp(role))
    <2>1. main.at \in 1 .. 11 /\ main.at <= Len(StartUp(role))
        BY <1>2 DEF TypeOK, ExitInv
    <2> QED
        BY <1>2, <2>1
<1>4. Current \in StepOf(A)
    BY <1>2, <1>3, ElementOfSeq DEF Current
<1> QED
    BY <1>2, <1>4 DEF StepOf, LastArm, Arms

----------------------------------------------------------------------------
(* Typing.                                                                 *)

\* Continue and NextArm leave main in the phase they name or at an arm.
LEMMA MainType ==
    ASSUME TypeOK, NEW ph \in Phases
    PROVE  /\ Continue(ph) => main' \in [phase : Phases, at : 1 .. LongestStartUp]
           /\ NextArm(ph) => main' \in [phase : Phases, at : 1 .. LongestStartUp]
<1>1. LongestStartUp = 11
    BY StartUpType DEF Programs
<1>2. main \in [phase : Phases, at : 1 .. 11]
    BY <1>1 DEF TypeOK
<1>3. LastArm \in 1 .. 2
    BY DEF LastArm
<1> QED
    BY <1>1, <1>2, <1>3 DEF Continue, NextArm

\* Taking or giving back mutexes leaves a holder for each.
LEMMA HolderType ==
    ASSUME TypeOK, NEW t \in Threads
    PROVE  /\ \A m : Lock(t, m) => holder' \in [Mutexes -> Threads \cup {"none"}]
           /\ Unlock(t) => holder' \in [Mutexes -> Threads \cup {"none"}]
<1>1. holder \in [Mutexes -> Threads \cup {"none"}]
    BY DEF TypeOK
<1>2. \A m : Lock(t, m) => holder' \in [Mutexes -> Threads \cup {"none"}]
    BY <1>1 DEF Lock
<1>3. Unlock(t) => holder' \in [Mutexes -> Threads \cup {"none"}]
    BY <1>1 DEF Unlock
<1> QED
    BY <1>2, <1>3

\* The request the loop looks at is one of the moves.
LEMMA AskedType ==
    ASSUME TypeOK, ExitInv, main.phase = "take"
    PROVE  /\ main.at \in 1 .. 3 /\ Len(MoveOrder) = 3 /\ LongestStartUp = 11
           /\ Asked \in Moves /\ role = "follower"
<1>1. LongestStartUp = 11 /\ Len(MoveOrder) = 3
    BY StartUpType DEF Programs, MoveOrder
<1>2. main \in [phase : Phases, at : 1 .. 11] /\ main.at <= 3
    BY <1>1 DEF TypeOK, ExitInv, At
<1>3. main.at \in 1 .. 3
    BY <1>2
<1>4. Asked \in Moves
    BY <1>3 DEF Asked, MoveOrder, Moves
<1>5. role = "follower"
    BY DEF ExitInv, At
<1> QED
    BY <1>1, <1>3, <1>4, <1>5

LEMMA NextMoveType ==
    ASSUME TypeOK, ExitInv, main.phase = "take", NextMove
    PROVE  /\ main' \in [phase : Phases, at : 1 .. LongestStartUp]
           /\ main'.phase = "take" => main'.at <= Len(MoveOrder)
           /\ main'.phase \in {"take", "update"}
<1>1. main.at \in 1 .. 3 /\ Len(MoveOrder) = 3 /\ LongestStartUp = 11
    BY AskedType
<1>2. main \in [phase : Phases, at : 1 .. 11]
    BY <1>1 DEF TypeOK
<1> QED
    BY <1>1, <1>2 DEF NextMove, Phases

MoverSet == [at : {"none", "starts", "moves", "resets", "clears", "logs"},
             kind : Moves, arm : Arms]

\* The types of the variables the moves use.
MoveTypeOK ==
    /\ pending \in [Moves -> Clients \cup {NoClient}]
    /\ busy \subseteq Moves
    /\ mover \in [Clients -> MoverSet]
    /\ undone \subseteq Arms

\* Every step preserves the types of the moves.
LEMMA MoveTypes ==
    ASSUME TypeOK, ExitInv, EstopInv, [Next]_vars
    PROVE  MoveTypeOK'
<1>m. MoveTypeOK /\ server.arm \in Arms /\ server.client \in Clients \cup {NoClient}
    BY DEF TypeOK, MoveTypeOK, MoverSet
<1>l. LastArm \in 1 .. 2
    BY DEF LastArm
<1>1. CASE TakeRequest
    <2>1. Asked \in Moves /\ pending[Asked] \in Clients
        BY <1>1, AskedType DEF TakeRequest, At
    <2>2. [at |-> "starts", kind |-> Asked, arm |-> 1] \in MoverSet
        BY <2>1 DEF MoverSet, Arms
    <2>3. mover' \in [Clients -> MoverSet]
        BY <1>1, <1>m, <2>2 DEF TakeRequest, MoveTypeOK
    <2>4. pending' \in [Moves -> Clients \cup {NoClient}]
        BY <1>1, <1>m DEF TakeRequest, MoveTypeOK
    <2> QED
        BY <1>1, <1>m, <2>1, <2>3, <2>4 DEF TakeRequest, MoveTypeOK
<1>2. CASE StartMove
    <2>1. mover' \in [Clients -> MoverSet]
        BY <1>2, <1>m DEF StartMove, MoveTypeOK, MoverSet
    <2> QED
        BY <1>2, <1>m, <2>1 DEF StartMove, MoveTypeOK
<1>3. CASE HandleFlags
    <2>1. server.client \in Clients
        BY <1>3 DEF HandleFlags, ServerAt, EstopInv
    <2>2. pending' \in [Moves -> Clients \cup {NoClient}]
        BY <1>3, <1>m, <2>1 DEF HandleFlags, MoveTypeOK
    <2> QED
        BY <1>3, <1>m, <2>2 DEF HandleFlags, MoveTypeOK
<1>4. CASE HandlerEnters
    BY <1>4, <1>m DEF HandlerEnters, MoveTypeOK
<1>5. CASE Reply
    BY <1>5, <1>m DEF Reply, MoveTypeOK
<1>6. ASSUME NEW c \in Clients, Mover(c)
      PROVE  MoveTypeOK'
    <2>m. mover[c] \in MoverSet /\ mover[c].arm \in Arms /\ NoMover \in MoverSet
        BY <1>m DEF MoveTypeOK, MoverSet, NoMover, Moves, Arms
    <2>1. CASE MoverMoves(c)
        <3>1. [mover[c] EXCEPT !.at = "resets"] \in MoverSet
            BY <2>m DEF MoverSet
        <3>2. mover' \in [Clients -> MoverSet]
            BY <1>m, <2>1, <3>1 DEF MoverMoves, MoveTypeOK
        <3> QED
            BY <1>m, <2>1, <3>2 DEF MoverMoves, MoveTypeOK
    <2>2. CASE MoverEnters(c)
        BY <1>m, <2>2, <2>m DEF MoverEnters, MoveTypeOK
    <2>3. CASE MoverLogs(c)
        BY <1>m, <2>3 DEF MoverLogs, MoveTypeOK, moveVars
    <2>4. CASE MoverLeaves(c)
        <3>0. 1 \in Arms /\ 2 \in Arms
            BY DEF Arms
        <3>a. [mover[c] EXCEPT !.arm = 2] \in MoverSet
            BY <2>m, <3>0 DEF MoverSet
        <3>1. [mover[c] EXCEPT !.at = "clears", !.arm = 1] \in MoverSet
            BY <2>m, <3>0 DEF MoverSet
        <3>2. \/ mover' = [mover EXCEPT ![c].arm = 2]
              \/ mover' = [mover EXCEPT ![c].at = "clears", ![c].arm = 1]
            BY <2>4 DEF MoverLeaves
        <3>3. mover' \in [Clients -> MoverSet]
            BY <1>m, <3>a, <3>1, <3>2 DEF MoveTypeOK
        <3> QED
            BY <1>m, <2>4, <3>3 DEF MoverLeaves, MoveTypeOK
    <2>5. CASE MoverClears(c)
        <3>1. [mover[c] EXCEPT !.at = "logs"] \in MoverSet
            BY <2>m DEF MoverSet
        <3>2. mover' \in [Clients -> MoverSet]
            BY <1>m, <2>5, <3>1 DEF MoverClears, MoveTypeOK
        <3> QED
            BY <1>m, <2>5, <3>2 DEF MoverClears, MoveTypeOK
    <2>6. CASE MoverEnds(c)
        <3>1. mover' \in [Clients -> MoverSet]
            BY <1>m, <2>6, <2>m DEF MoverEnds, MoveTypeOK
        <3> QED
            BY <1>m, <2>6, <3>1 DEF MoverEnds, MoveTypeOK
    <2> QED
        BY <1>6, <2>1, <2>2, <2>3, <2>4, <2>5, <2>6 DEF Mover
<1>7. ASSUME UNCHANGED moveVars
      PROVE  MoveTypeOK'
    BY <1>7, <1>m DEF moveVars, MoveTypeOK
<1>8. CASE Main
    <2>1. TakeRequest \/ StartMove \/ UNCHANGED moveVars
        BY <1>8 DEF Main, StartUpLogs, StartUpStep, StartUpFails, LoopHead, NoRequest,
            EnterManager, ManagerLogs, LeaveManager, CheckBusy, MotorStep, Report,
            JoinReceivers, StopReceivers, DisableAll, CloseServer, JoinServer
    <2> QED
        BY <1>1, <1>2, <1>7, <2>1
<1>9. CASE Server
    <2>1. HandleFlags \/ HandlerEnters \/ Reply \/ UNCHANGED moveVars
        BY <1>9 DEF Server, Accept, Recv, HandlerLogs, HandlerLeaves
    <2> QED
        BY <1>3, <1>4, <1>5, <1>7, <2>1
<1>10. CASE ~Main /\ ~Server /\ ~\E c \in Clients : Mover(c)
    <2>1. UNCHANGED moveVars
        BY <1>10 DEF Next, Connect, ClientSends, SignalArrives, Handler, Terminated, Stuck,
            vars, moveVars
    <2> QED
        BY <1>7, <2>1
<1> QED
    BY <1>6, <1>8, <1>9, <1>10

\* Every step of main preserves the types.
LEMMA MainTypes ==
    ASSUME TypeOK, ExitInv, MoveTypeOK', Main
    PROVE  TypeOK'
<1> DEFINE MainSet == [phase : Phases, at : 1 .. LongestStartUp]
<1>m. main \in MainSet
    BY DEF TypeOK
<1>t. "main" \in Threads
    BY DEF Threads, OwnThreads
<1>b. motors \in [Arms -> BOOLEAN] /\ seen \in [Arms -> BOOLEAN] /\ estop \in [Arms -> BOOLEAN]
    BY DEF TypeOK
<1>1. CASE StartUpLogs
    <2>1. holder' \in [Mutexes -> Threads \cup {"none"}]
        BY <1>1, <1>t, HolderType DEF StartUpLogs
    <2> QED
        BY <1>1, <2>1 DEF StartUpLogs, TypeOK, MoveTypeOK, MoverSet
<1>2. CASE StartUpStep
    <2>1. holder' \in [Mutexes -> Threads \cup {"none"}]
        BY <1>2, <1>t, HolderType DEF StartUpStep
    <2>2. main' \in MainSet
        <3>1. CASE main.at < Len(StartUp(role))
            <4>1. Len(StartUp(role)) \in 1 .. LongestStartUp /\ LongestStartUp = 11
                BY <1>2, CurrentType, StartUpType DEF StartUpStep, Programs
            <4>4. main.at \in 1 .. 11
                BY <1>m, <4>1
            <4>5. \A n \in 1 .. 11 : \A i \in 1 .. 11 : i < n => i + 1 \in 1 .. 11
                OBVIOUS
            <4>6. Len(StartUp(role)) \in 1 .. 11
                BY <4>1
            <4>2. main.at + 1 \in 1 .. LongestStartUp
                BY <3>1, <4>1, <4>4, <4>5, <4>6
            <4>3. main' = [main EXCEPT !.at = main.at + 1]
                BY <1>2, <3>1 DEF StartUpStep, StepDone
            <4> QED
                BY <1>m, <4>2, <4>3
        <3>2. CASE ~(main.at < Len(StartUp(role)))
            <4>1. Continue("head")
                BY <1>2, <3>2 DEF StartUpStep, StepDone
            <4> QED
                BY <4>1, MainType DEF Phases
        <3> QED
            BY <3>1, <3>2
    <2>3. motors' \in [Arms -> BOOLEAN]
        BY <1>2, <1>b DEF StartUpStep
    <2>4. serving' \in BOOLEAN
        BY <1>2 DEF StartUpStep
    <2>5. server' \in [at : {"none", "accept", "recv", "handle", "reply", "ended"},
                       client : Clients \cup {NoClient}, arm : Arms]
        BY <1>2 DEF StartUpStep, TypeOK
    <2> QED
        BY <1>2, <2>1, <2>2, <2>3, <2>4, <2>5 DEF StartUpStep, TypeOK, MoveTypeOK, MoverSet
<1>3. CASE StartUpFails
    <2>1. holder' \in [Mutexes -> Threads \cup {"none"}]
        BY <1>3, <1>t, HolderType DEF StartUpFails
    <2>2. main' \in MainSet
        BY <1>3, MainType DEF StartUpFails, Phases
    <2>3. motors' \in [Arms -> BOOLEAN]
        BY <1>3, <1>b DEF StartUpFails
    <2>4. failed' \in MayFail \cup {"none"}
        BY <1>3 DEF StartUpFails
    <2> QED
        BY <1>3, <2>1, <2>2, <2>3, <2>4 DEF StartUpFails, TypeOK, MoveTypeOK, MoverSet
<1>4. CASE LoopHead
    <2>1. main' \in MainSet
        BY <1>4, MainType DEF LoopHead, Phases
    <2> QED
        BY <1>4, <2>1 DEF LoopHead, TypeOK, MoveTypeOK, MoverSet
<1>12. CASE TakeRequest
    BY <1>12 DEF TakeRequest, TypeOK, MoveTypeOK, MoverSet
<1>13. CASE NoRequest
    <2>a. main.phase = "take" /\ NextMove
        BY <1>13 DEF NoRequest, At
    <2>1. main' \in MainSet
        BY <2>a, NextMoveType
    <2> QED
        BY <1>13, <2>1 DEF NoRequest, TypeOK, MoveTypeOK, MoverSet
<1>14. CASE StartMove
    <2>1. holder' \in [Mutexes -> Threads \cup {"none"}]
        BY <1>14, <1>t, HolderType DEF StartMove
    <2>a. main.phase = "take" /\ (main' = main \/ NextMove)
        BY <1>14 DEF StartMove, At
    <2>2. main' \in MainSet
        BY <1>m, <2>a, NextMoveType
    <2>3. motors' \in [Arms -> BOOLEAN]
        BY <1>14, <1>b DEF StartMove
    <2> QED
        BY <1>14, <2>1, <2>2, <2>3 DEF StartMove, TypeOK, MoveTypeOK, MoverSet
<1>15. CASE CheckBusy
    <2>1. main' \in MainSet
        BY <1>15, MainType DEF CheckBusy, Phases
    <2>2. seen' \in [Arms -> BOOLEAN]
        BY <1>15, <1>b DEF CheckBusy
    <2> QED
        BY <1>15, <2>1, <2>2 DEF CheckBusy, TypeOK, MoveTypeOK, MoverSet
<1>16. CASE JoinReceivers
    <2>1. main' \in MainSet
        BY <1>16, MainType DEF JoinReceivers, Phases
    <2> QED
        BY <1>16, <2>1 DEF JoinReceivers, TypeOK, MoveTypeOK, MoverSet
<1>5. CASE EnterManager \/ ManagerLogs
    <2>1. holder' \in [Mutexes -> Threads \cup {"none"}]
        BY <1>5, <1>t, HolderType DEF EnterManager, ManagerLogs
    <2> QED
        BY <1>5, <2>1 DEF EnterManager, ManagerLogs, TypeOK, MoveTypeOK, MoverSet
<1>6. CASE LeaveManager
    <2>1. holder' \in [Mutexes -> Threads \cup {"none"}]
        BY <1>6, <1>t, HolderType DEF LeaveManager
    <2>2. main' \in MainSet
        BY <1>6, MainType DEF LeaveManager, Phases
    <2>3. seen' \in [Arms -> BOOLEAN]
        <3>1. main.at \in Arms => estop[main.at] \in BOOLEAN
            BY <1>b
        <3>2. seen' = seen \/ seen' = [seen EXCEPT ![main.at] = estop[main.at]]
            BY <1>6 DEF LeaveManager
        <3> QED
            BY <1>b, <3>1, <3>2
    <2> QED
        BY <1>6, <2>1, <2>2, <2>3 DEF LeaveManager, TypeOK, MoveTypeOK, MoverSet
<1>7. CASE MotorStep
    <2>1. main' \in MainSet
        BY <1>7, MainType DEF MotorStep, Phases
    <2>2. motors' \in [Arms -> BOOLEAN] /\ seen' \in [Arms -> BOOLEAN]
        BY <1>7, <1>b DEF MotorStep
    <2> QED
        BY <1>7, <2>1, <2>2 DEF MotorStep, TypeOK, MoveTypeOK, MoverSet
<1>8. CASE Report \/ StopReceivers
    <2>1. holder' \in [Mutexes -> Threads \cup {"none"}]
        BY <1>8, <1>t, HolderType DEF Report, StopReceivers
    <2>2. main' \in MainSet
        BY <1>8, <1>m, MainType DEF Report, StopReceivers, Phases
    <2> QED
        BY <1>8, <2>1, <2>2 DEF Report, StopReceivers, TypeOK, MoveTypeOK, MoverSet
<1>9. CASE DisableAll
    <2>1. main' \in MainSet
        BY <1>9, MainType DEF DisableAll, Phases
    <2>2. motors' \in [Arms -> BOOLEAN]
        BY <1>9, <1>b DEF DisableAll
    <2> QED
        BY <1>9, <2>1, <2>2 DEF DisableAll, TypeOK, MoveTypeOK, MoverSet
<1>10. CASE CloseServer
    <2>1. main' \in MainSet
        BY <1>10, MainType DEF CloseServer, Phases
    <2>2. conn' \in [Clients -> [at : {"away", "queued", "served", "answered", "reset"},
                                 sent : Commands \cup {"nothing", "closed"}]]
        BY <1>10 DEF CloseServer, TypeOK
    <2>3. serving' \in BOOLEAN
        BY <1>10 DEF CloseServer
    <2> QED
        BY <1>10, <2>1, <2>2, <2>3 DEF CloseServer, TypeOK, MoveTypeOK, MoverSet
<1>11. CASE JoinServer
    <2>1. main' \in MainSet
        BY <1>11, MainType DEF JoinServer, Phases
    <2> QED
        BY <1>11, <2>1 DEF JoinServer, TypeOK, MoveTypeOK, MoverSet
<1> QED
    BY <1>1, <1>2, <1>3, <1>4, <1>5, <1>6, <1>7, <1>8, <1>9, <1>10, <1>11,
        <1>12, <1>13, <1>14, <1>15, <1>16 DEF Main

\* The server thread, the clients and the signal preserve the types.
LEMMA OtherTypes ==
    ASSUME TypeOK, MoveTypeOK', Next, ~Main
    PROVE  TypeOK'
<1> DEFINE ServerSet == [at : {"none", "accept", "recv", "handle", "reply", "ended"},
                         client : Clients \cup {NoClient}, arm : Arms]
           ConnSet == [Clients -> [at : {"away", "queued", "served", "answered", "reset"},
                                   sent : Commands \cup {"nothing", "closed"}]]
<1>s. server \in ServerSet /\ conn \in ConnSet /\ LastArm \in 1 .. 2
    BY DEF TypeOK, LastArm
<1>t. "server" \in Threads /\ Clients \subseteq Threads
    BY DEF Threads, OwnThreads
<1>b. estop \in [Arms -> BOOLEAN] /\ running \in BOOLEAN
    BY DEF TypeOK
<1>g. signal \in [on : Threads \cup {"none"}, at : 0 .. 4]
    BY DEF TypeOK
<1>1. CASE Accept
    <2>1. ASSUME NEW c \in Clients, conn' = [conn EXCEPT ![c].at = "served"],
                 server' = [server EXCEPT !.at = "recv", !.client = c]
          PROVE  server' \in ServerSet /\ conn' \in ConnSet
        BY <1>s, <2>1
    <2>2. ASSUME server' = [server EXCEPT !.at = "ended"], conn' = conn
          PROVE  server' \in ServerSet /\ conn' \in ConnSet
        BY <1>s, <2>2
    <2>3. server' \in ServerSet /\ conn' \in ConnSet
        BY <1>1, <2>1, <2>2 DEF Accept
    <2> QED
        BY <1>1, <2>3 DEF Accept, TypeOK, MoveTypeOK, MoverSet
<1>2. CASE Recv
    <2>1. server' \in ServerSet
        BY <1>2, <1>s DEF Recv
    <2> QED
        BY <1>2, <2>1 DEF Recv, TypeOK, MoveTypeOK, MoverSet
<1>3. CASE HandleFlags
    <2>1. server' \in ServerSet
        BY <1>3, <1>s DEF HandleFlags
    <2>2. running' \in BOOLEAN
        BY <1>3 DEF HandleFlags
    <2> QED
        BY <1>3, <2>1, <2>2 DEF HandleFlags, TypeOK, MoveTypeOK, MoverSet
<1>4. CASE HandlerEnters
    <2>1. holder' \in [Mutexes -> Threads \cup {"none"}]
        BY <1>4, <1>t, HolderType DEF HandlerEnters
    <2>2. estop' \in [Arms -> BOOLEAN]
        BY <1>4, <1>b DEF HandlerEnters
    <2> QED
        BY <1>4, <2>1, <2>2 DEF HandlerEnters, TypeOK, MoveTypeOK, MoverSet
<1>5. CASE HandlerLogs
    <2>1. holder' \in [Mutexes -> Threads \cup {"none"}]
        BY <1>5, <1>t, HolderType DEF HandlerLogs
    <2> QED
        BY <1>5, <2>1 DEF HandlerLogs, TypeOK, MoveTypeOK, MoverSet
<1>6. CASE HandlerLeaves
    <2>1. holder' \in [Mutexes -> Threads \cup {"none"}]
        BY <1>6, <1>t, HolderType DEF HandlerLeaves
    <2>3. 1 \in Arms /\ (server.arm < LastArm => server.arm + 1 \in Arms)
        BY <1>s DEF Arms
    <2>2. server' \in ServerSet
        BY <1>6, <1>s, <2>3 DEF HandlerLeaves
    <2> QED
        BY <1>6, <2>1, <2>2 DEF HandlerLeaves, TypeOK, MoveTypeOK, MoverSet
<1>7. CASE Reply
    <2>1. server' \in ServerSet /\ conn' \in ConnSet
        BY <1>7, <1>s DEF Reply
    <2> QED
        BY <1>7, <2>1 DEF Reply, TypeOK, MoveTypeOK, MoverSet
<1>8. ASSUME NEW c \in Clients, Connect(c) \/ ClientSends(c)
      PROVE  TypeOK'
    <2>1. conn' \in ConnSet
        BY <1>8, <1>s, LifecycleAssumption DEF Connect, ClientSends, LifecycleAssumption
    <2> QED
        BY <1>8, <2>1 DEF Connect, ClientSends, TypeOK, MoveTypeOK, MoverSet
<1>9. CASE SignalArrives
    <2>1. signal' \in [on : Threads \cup {"none"}, at : 0 .. 4]
        BY <1>9, <1>g DEF SignalArrives
    <2>2. holder' \in [Mutexes -> Threads \cup {"none"}]
        <3>1. PICK t \in Threads : UNCHANGED holder \/ Lock(t, Log)
            BY <1>9 DEF SignalArrives, StrikesThread, StrikesMessage
        <3> QED
            BY <3>1, HolderType DEF TypeOK
    <2> QED
        BY <1>9, <2>1, <2>2 DEF SignalArrives, TypeOK, MoveTypeOK, MoverSet
<1>10. CASE Handler
    <2>1. signal' \in [on : Threads \cup {"none"}, at : 0 .. 4]
        BY <1>10, <1>g, <1>s DEF Handler, AfterStep
    <2>2. estop' \in [Arms -> BOOLEAN]
        BY <1>10 DEF Handler
    <2>3. running' \in BOOLEAN
        BY <1>10 DEF Handler
    <2> QED
        BY <1>10, <2>1, <2>2, <2>3 DEF Handler, TypeOK, MoveTypeOK, MoverSet
<1>11. CASE Terminated \/ Stuck
    BY <1>11 DEF Terminated, Stuck, vars, TypeOK
<1>12. ASSUME NEW c \in Clients, Mover(c)
       PROVE  TypeOK'
    <2>1. CASE MoverMoves(c) \/ MoverClears(c) \/ MoverEnds(c)
        BY <2>1 DEF MoverMoves, MoverClears, MoverEnds, TypeOK, MoveTypeOK, MoverSet
    <2>2. CASE MoverEnters(c) \/ MoverLogs(c) \/ MoverLeaves(c)
        <3>1. holder' \in [Mutexes -> Threads \cup {"none"}]
            BY <1>t, <2>2, HolderType DEF MoverEnters, MoverLogs, MoverLeaves
        <3>2. estop' \in [Arms -> BOOLEAN]
            BY <1>b, <2>2 DEF MoverEnters, MoverLogs, MoverLeaves
        <3> QED
            BY <2>2, <3>1, <3>2 DEF MoverEnters, MoverLogs, MoverLeaves, TypeOK, MoveTypeOK,
                MoverSet
    <2> QED
        BY <1>12, <2>1, <2>2 DEF Mover
<1> QED
    BY <1>1, <1>2, <1>3, <1>4, <1>5, <1>6, <1>7, <1>8, <1>9, <1>10, <1>11, <1>12
    DEF Next, Server

\* Every step preserves the types.
LEMMA TypeStep == IInv /\ [Next]_vars => TypeOK'
<1>1. TypeOK /\ UNCHANGED vars => TypeOK'
    BY DEF TypeOK, vars
<1> QED
    BY <1>1, MoveTypes, MainTypes, OtherTypes DEF IInv

----------------------------------------------------------------------------
(* The end of the process.                                                 *)

\* Every step of main keeps the motors on the way to off.
LEMMA MainExits ==
    ASSUME TypeOK, ExitInv, TypeOK', Main
    PROVE  ExitInv'
<1>b. motors \in [Arms -> BOOLEAN] /\ \A a \in Arms : a \in Nat /\ a >= 1
    BY DEF TypeOK, Arms
<1>l. LastArm \in Nat /\ main.at \in Nat
    <2>1. LongestStartUp = 11
        BY StartUpType DEF Programs
    <2> QED
        BY <2>1 DEF LastArm, TypeOK
<1>r. role' = role
    BY DEF Main, StartUpLogs, StartUpStep, StartUpFails, LoopHead, TakeRequest,
        NoRequest, StartMove, EnterManager, ManagerLogs, LeaveManager, CheckBusy,
        MotorStep, Report, JoinReceivers, StopReceivers, DisableAll, CloseServer,
        JoinServer
<1> USE DEF At, Alive
<1>1. CASE StartUpLogs \/ EnterManager \/ ManagerLogs
    BY <1>1 DEF StartUpLogs, EnterManager, ManagerLogs, ExitInv, AllOff, LastArm
<1>2. CASE StartUpStep
    <2>1. /\ main.phase = "startup" /\ failed = "none" /\ failed' = "none"
        BY <1>2 DEF StartUpStep, ExitInv
    <2>2. /\ main'.phase \in {"startup", "head"}
          /\ main'.phase = "startup" => main'.at <= Len(StartUp(role))
        <3>1. CASE main.at < Len(StartUp(role))
            <4>1. Len(StartUp(role)) \in 1 .. LongestStartUp /\ LongestStartUp = 11
                BY <2>1, CurrentType, StartUpType DEF Programs
            <4>2. Len(StartUp(role)) \in Nat
                BY <4>1
            <4>3. main'.phase = "startup" /\ main'.at = main.at + 1
                BY <1>2, <2>1, <3>1 DEF StartUpStep, StepDone, TypeOK
            <4> QED
                BY <1>l, <3>1, <4>2, <4>3
        <3>2. CASE ~(main.at < Len(StartUp(role)))
            BY <1>2, <3>2 DEF StartUpStep, StepDone, Continue
        <3> QED
            BY <3>1, <3>2
    <2>3. \A a \in Arms : motors'[a] => a <= LastArm
        <3>1. Current.arm <= LastArm
            BY <2>1, CurrentType
        <3>2. motors' = motors \/ motors' = [motors EXCEPT ![Current.arm] = TRUE]
            BY <1>2 DEF StartUpStep
        <3>3. \A a \in Arms : motors[a] => a <= LastArm
            BY DEF ExitInv
        <3> QED
            BY <1>b, <3>1, <3>2, <3>3
    <2>4. server'.at # "none" => serving'
        BY <1>2, <2>1 DEF StartUpStep, ExitInv, TypeOK
    <2> QED
        BY <1>r, <2>1, <2>2, <2>3, <2>4 DEF ExitInv, LastArm
<1>3. CASE StartUpFails
    <2>1. /\ main.phase = "startup" /\ failed = "none" /\ main'.phase = "stop"
          /\ failed' \in MayFail
          /\ UNCHANGED <<server, serving>>
        BY <1>3 DEF StartUpFails, ExitInv, Continue
    <2>2. failed' = "verify" => AllOff'
        BY <1>3 DEF StartUpFails, AllOff
    <2>3. \A a \in Arms : motors'[a] => motors[a]
        BY <1>3 DEF StartUpFails
    <2> QED
        BY <1>r, <2>1, <2>2, <2>3 DEF ExitInv, LastArm
<1>4. CASE LoopHead
    <2>1. /\ main.phase = "head" /\ main'.phase \in {"stop", "take", "update", "report"}
          /\ main'.phase = "take" => role = "follower" /\ main'.at = 1
          /\ UNCHANGED <<failed, motors, serving, server>>
        BY <1>4 DEF LoopHead, Continue
    <2>2. 1 <= Len(MoveOrder)
        BY DEF MoveOrder
    <2> QED
        BY <1>r, <2>1, <2>2 DEF ExitInv, AllOff, LastArm
<1>5. CASE LeaveManager
    <2>1. /\ main.phase \in {"update", "state"} /\ main'.phase \in {"update", "state", "guard"}
          /\ UNCHANGED <<failed, motors, serving, server>>
        BY <1>5 DEF LeaveManager, NextArm, TypeOK
    <2> QED
        BY <1>r, <2>1 DEF ExitInv, AllOff, LastArm
<1>6. CASE MotorStep
    <2>1. /\ main.phase = "motor" /\ main'.phase \in {"motor", "report"}
          /\ UNCHANGED <<failed, serving, server>>
        BY <1>6 DEF MotorStep, NextArm, TypeOK
    <2>2. \A a \in Arms : motors'[a] => motors[a]
        BY <1>6, <1>b DEF MotorStep
    <2> QED
        BY <1>r, <2>1, <2>2 DEF ExitInv, AllOff, LastArm
<1>7. CASE Report
    <2>1. /\ main.phase = "report" /\ main'.phase \in {"report", "head"}
          /\ UNCHANGED <<failed, motors, serving, server>>
        BY <1>7 DEF Report, Continue
    <2> QED
        BY <1>r, <2>1 DEF ExitInv, AllOff, LastArm
<1>12. CASE TakeRequest
    BY <1>12 DEF TakeRequest, ExitInv, AllOff, LastArm
<1>13. CASE NoRequest \/ StartMove
    <2>a. /\ main.phase = "take" /\ (main' = main \/ NextMove)
          /\ UNCHANGED <<failed, serving, server>>
        BY <1>13 DEF NoRequest, StartMove
    <2>1. /\ main.phase = "take" /\ role = "follower"
          /\ UNCHANGED <<failed, serving, server>>
        BY <2>a DEF ExitInv
    <2>2. \/ main' = main
          \/ /\ main'.phase \in {"take", "update"}
             /\ main'.phase = "take" => main'.at <= Len(MoveOrder)
        BY <2>a, NextMoveType
    <2>3. \A a \in Arms : a <= LastArm'
        BY <1>r, <2>1 DEF LastArm, Arms
    <2>4. /\ main'.phase \in {"take", "update"}
          /\ main'.phase = "take" => main'.at <= Len(MoveOrder)
          /\ failed = "none" /\ failed' = "none"
        BY <2>1, <2>2 DEF ExitInv
    <2>5. server'.at # "none" => serving'
        BY <2>1 DEF ExitInv
    <2> QED
        BY <1>r, <2>1, <2>3, <2>4, <2>5 DEF ExitInv, AllOff
<1>14. CASE CheckBusy
    <2>1. /\ main.phase = "guard" /\ main'.phase \in {"motor", "report"}
          /\ UNCHANGED <<failed, motors, serving, server>>
        BY <1>14 DEF CheckBusy, Continue
    <2> QED
        BY <1>r, <2>1 DEF ExitInv, AllOff, LastArm
<1>15. CASE JoinReceivers
    <2>1. /\ main.phase = "stop" /\ main'.phase = "stopped"
          /\ UNCHANGED <<failed, motors, serving, server>>
        BY <1>15 DEF JoinReceivers, Continue
    <2> QED
        BY <1>r, <2>1 DEF ExitInv, AllOff, LastArm
<1>8. CASE StopReceivers
    <2>1. /\ main.phase = "stopped" /\ UNCHANGED <<failed, motors, serving, server>>
          /\ \/ main' = main
             \/ main'.phase = "disable" /\ main'.at = 1 /\ failed = "none"
             \/ main'.phase = "close" /\ failed # "none"
        BY <1>8 DEF StopReceivers, Continue
    <2> QED
        BY <1>b, <1>r, <2>1 DEF ExitInv, AllOff, LastArm
<1>9. CASE DisableAll
    <2>1. /\ main.phase = "disable" /\ failed = "none"
          /\ UNCHANGED <<failed, serving, server>>
          /\ motors' = [motors EXCEPT ![main.at] = FALSE]
        BY <1>9 DEF DisableAll, ExitInv
    <2>2. /\ \A a \in Arms : motors'[a] => motors[a] /\ a # main.at
        BY <1>b, <2>1
    <2>3. \A a \in Arms : motors'[a] => a <= LastArm /\ a > main.at
        BY <1>b, <1>l, <2>1, <2>2 DEF ExitInv
    <2>4. CASE main.at < LastArm
        <3>1. main'.phase = "disable" /\ main'.at = main.at + 1
            BY <1>9, <2>1, <2>4 DEF DisableAll, NextArm, TypeOK
        <3> QED
            BY <1>b, <1>l, <1>r, <2>1, <2>3, <3>1 DEF ExitInv, AllOff, LastArm
    <2>5. CASE ~(main.at < LastArm)
        <3>1. main'.phase = "close"
            BY <1>9, <2>5 DEF DisableAll, NextArm
        <3>2. AllOff'
            BY <1>b, <1>l, <2>3, <2>5 DEF AllOff
        <3> QED
            BY <1>r, <2>1, <2>3, <3>1, <3>2 DEF ExitInv, LastArm
    <2> QED
        BY <2>4, <2>5
<1>10. CASE CloseServer
    <2>1. /\ main.phase = "close" /\ UNCHANGED <<failed, motors, server>>
          /\ main'.phase = IF serving THEN "join" ELSE "exited"
        BY <1>10 DEF CloseServer, Continue
    <2> QED
        BY <1>r, <2>1 DEF ExitInv, AllOff, LastArm
<1>11. CASE JoinServer
    <2>1. /\ main.phase = "join" /\ UNCHANGED <<failed, motors, server, serving>>
          /\ main'.phase = "exited" /\ server.at = "ended"
        BY <1>11 DEF JoinServer, Continue
    <2> QED
        BY <1>r, <2>1 DEF ExitInv, AllOff, LastArm
<1> QED
    BY <1>1, <1>2, <1>3, <1>4, <1>5, <1>6, <1>7, <1>8, <1>9, <1>10, <1>11,
        <1>12, <1>13, <1>14, <1>15 DEF Main

\* The other threads do not bring the server thread back to life.
LEMMA OthersExit ==
    ASSUME TypeOK, ExitInv, Next, ~Main
    PROVE  ExitInv'
<1> USE DEF At, Alive
<1>1. CASE Server
    <2>1. /\ UNCHANGED <<role, main, failed, motors, serving>>
          /\ main.phase # "exited" /\ server.at # "none"
        BY <1>1 DEF Server, Accept, Recv, HandleFlags, HandlerEnters, HandlerLogs,
            HandlerLeaves, Reply, ServerAt
    <2> QED
        BY <2>1 DEF ExitInv, AllOff, LastArm
<1>2. ASSUME ~Server
      PROVE  UNCHANGED <<role, main, failed, motors, serving, server>>
    BY <1>2 DEF Next, Mover, MoverMoves, MoverEnters, MoverLogs, MoverLeaves, MoverClears,
        MoverEnds, Connect, ClientSends, SignalArrives, Handler, Terminated, Stuck, vars
<1> QED
    BY <1>1, <1>2 DEF ExitInv, AllOff, LastArm

----------------------------------------------------------------------------
(* The server is started once.                                             *)

\* No step of the list but step k, if any, starts the server.
ServerOnlyAt(s, k) == \A i \in 1 .. Len(s) : s[i].do = "server" => i = k

\* The index at which a longer list starts the server.
LEMMA JoinedServer ==
    ASSUME NEW s \in Seq(StepOf(Arms)), NEW t \in Seq(StepOf(Arms)),
           NEW k \in Nat, NEW l \in Nat, ServerOnlyAt(s, k), ServerOnlyAt(t, l),
           k = 0 \/ l = 0, k <= Len(s)
    PROVE  ServerOnlyAt(s \o t, IF l = 0 THEN k ELSE Len(s) + l)
<1>1. /\ Len(s \o t) = Len(s) + Len(t) /\ Len(s) \in Nat /\ Len(t) \in Nat
      /\ \A i \in 1 .. Len(s) + Len(t) : (s \o t)[i] =
                 IF i <= Len(s) THEN s[i] ELSE t[i - Len(s)]
    BY ConcatProperties
<1>2. SUFFICES ASSUME NEW i \in 1 .. Len(s) + Len(t), (s \o t)[i].do = "server"
               PROVE  i = IF l = 0 THEN k ELSE Len(s) + l
    BY <1>1 DEF ServerOnlyAt
<1>3. CASE i <= Len(s)
    <2>1. i \in 1 .. Len(s) /\ s[i].do = "server"
        BY <1>1, <1>2, <1>3
    <2>2. i = k
        BY <2>1 DEF ServerOnlyAt
    <2> QED
        BY <2>1, <2>2
<1>4. CASE ~(i <= Len(s))
    <2>1. i - Len(s) \in 1 .. Len(t) /\ t[i - Len(s)].do = "server"
        BY <1>1, <1>2, <1>4
    <2>2. i - Len(s) = l
        BY <2>1 DEF ServerOnlyAt
    <2> QED
        BY <1>1, <2>1, <2>2
<1> QED
    BY <1>3, <1>4

\* Every program starts the server in one step at most.
LEMMA ServerStartsOnce ==
    ASSUME NEW r \in Programs
    PROVE  \E k \in Nat : ServerOnlyAt(StartUp(r), k)
<1> DEFINE S == Seq(StepOf(Arms))
           a1 == ArmSteps(1)
           a2 == ArmSteps(2)
           before == <<Step("managers"), Step("server"), Step("receivers"), Step("telemetry")>>
           adjust == <<Step("adjust")>>
           after == <<Step("adjust"), Step("telemetry"), Step("receivers"), Step("server")>>
<1>1. a1 \in S /\ a2 \in S /\ Len(a1) = 3 /\ Len(a2) = 3
    BY ArmStepsType DEF Arms
<1>2. /\ before \in S /\ Len(before) = 4
      /\ adjust \in S /\ Len(adjust) = 1
      /\ after \in S /\ Len(after) = 4
    BY DEF Step, StepOf, StepName, Arms
<1>3. /\ ServerOnlyAt(a1, 0) /\ ServerOnlyAt(a2, 0)
      /\ ServerOnlyAt(adjust, 0) /\ ServerOnlyAt(before, 2) /\ ServerOnlyAt(after, 4)
    BY DEF ServerOnlyAt, ArmSteps, Step
<1>j. ASSUME NEW s \in S, NEW t \in S
      PROVE  s \o t \in S /\ Len(s \o t) = Len(s) + Len(t)
    BY Joined
<1>f. StartUp("follower") = ((before \o a1) \o a2) \o adjust
    BY DEF StartUp
<1>l. StartUp("leader") = (a1 \o a2) \o after
    BY DEF StartUp
<1>n. ASSUME NEW s \in S, NEW t \in S, NEW k \in Nat, ServerOnlyAt(s, k),
             ServerOnlyAt(t, 0), k <= Len(s)
      PROVE  ServerOnlyAt(s \o t, k)
    BY <1>n, JoinedServer
<1>m. ASSUME NEW s \in S, NEW t \in S, NEW l \in Nat, ServerOnlyAt(s, 0),
             ServerOnlyAt(t, l), l # 0
      PROVE  ServerOnlyAt(s \o t, Len(s) + l)
    <2>1. 0 <= Len(s)
        BY LenProperties
    <2> QED
        BY <1>m, <2>1, JoinedServer
<1> HIDE DEF S, a1, a2, before, adjust, after
<1>4. CASE r = "follower"
    <2>1. before \o a1 \in S /\ Len(before \o a1) = Len(before) + Len(a1)
        BY <1>1, <1>2, <1>j, Zenon
    <2>2. /\ (before \o a1) \o a2 \in S
          /\ Len((before \o a1) \o a2) = Len(before \o a1) + Len(a2)
        BY <1>1, <1>j, <2>1, Zenon
    <2>3. /\ 2 \in Nat /\ 2 <= Len(before) /\ 2 <= Len(before \o a1)
          /\ 2 <= Len((before \o a1) \o a2)
        BY <1>1, <1>2, <2>1, <2>2
    <2>4. ServerOnlyAt(before \o a1, 2)
        BY <1>1, <1>2, <1>3, <1>n, <2>3, Zenon
    <2>5. ServerOnlyAt((before \o a1) \o a2, 2)
        BY <1>1, <1>3, <1>n, <2>1, <2>3, <2>4, Zenon
    <2>6. ServerOnlyAt(((before \o a1) \o a2) \o adjust, 2)
        BY <1>2, <1>3, <1>n, <2>2, <2>3, <2>5, Zenon
    <2> QED
        BY <1>4, <1>f, <2>3, <2>6, Zenon
<1>5. CASE r = "leader"
    <2>1. a1 \o a2 \in S /\ Len(a1 \o a2) = Len(a1) + Len(a2)
        BY <1>1, <1>j, Zenon
    <2>2. /\ 0 \in Nat /\ 0 <= Len(a1) /\ 4 \in Nat /\ 4 # 0
          /\ Len(a1 \o a2) + 4 \in Nat
        BY <1>1, <2>1
    <2>3. ServerOnlyAt(a1 \o a2, 0)
        BY <1>1, <1>3, <1>n, <2>2, Zenon
    <2>4. ServerOnlyAt((a1 \o a2) \o after, Len(a1 \o a2) + 4)
        BY <1>2, <1>3, <1>m, <2>1, <2>2, <2>3, Zenon
    <2> QED
        BY <1>5, <1>l, <2>2, <2>4, Zenon
<1>6. CASE r \in {"single_follower", "single_leader"}
    <2>1. ServerOnlyAt(StartUp(r), 0)
        BY <1>6 DEF StartUp, Step, ServerOnlyAt
    <2> QED
        BY <2>1
<1> QED
    BY <1>4, <1>5, <1>6 DEF Programs

----------------------------------------------------------------------------
(* The answer to an estop.                                                 *)

\* A step that leaves the server thread, its connection and its mutexes
\* alone, and clears no latch but for a mover's reset, keeps what the server
\* has established.
LEMMA EstopFrame ==
    ASSUME TypeOK, EstopInv, UNCHANGED <<role, server>>,
           At("startup")' => At("startup") /\ main.at <= main'.at,
           main.at \in Nat, main'.at \in Nat,
           \A m \in Mutexes : Holds("server", m)' <=> Holds("server", m),
           server.at \in {"handle", "reply"} =>
               \A a \in Arms : StopHolds(a) => StopHolds(a)',
           server.at \in {"recv", "handle", "reply"} =>
               conn'[server.client].at = conn[server.client].at,
           server.at \in {"handle", "reply"} =>
               conn'[server.client].sent = conn[server.client].sent
    PROVE  EstopInv'
<1>1. server.arm \in Arms /\ Arms \subseteq Mutexes /\ Log \in Mutexes
    BY DEF TypeOK, Mutexes
<1>2. server.at \in {"handle", "reply"} => Sent' = Sent /\ PerArm' = PerArm
    BY DEF Sent, PerArm
<1>3. (At("startup") /\ server.at # "none" =>
           \A i \in DOMAIN StartUp(role) : i >= main.at => StartUp(role)[i].do # "server")'
    <2>1. SUFFICES ASSUME At("startup")', server.at # "none",
                          NEW i \in DOMAIN StartUp(role), i >= main'.at
                   PROVE  StartUp(role)[i].do # "server"
        OBVIOUS
    <2>2. role \in Programs
        BY LifecycleAssumption DEF LifecycleAssumption, TypeOK
    <2>3. i \in Nat
        BY <2>2, StartUpType
    <2>4. i >= main.at
        BY <2>1, <2>3
    <2> QED
        BY <2>1, <2>4 DEF EstopInv
<1>4. (server.at \in {"recv", "handle", "reply"} =>
           server.client \in Clients /\ conn[server.client].at = "served")'
    BY DEF EstopInv
<1>5. (server.at \in {"handle", "reply"} => Sent # "nothing")'
    BY <1>2 DEF EstopInv
<1>6. (server.arm > 1 => server.at = "handle" /\ PerArm)'
    BY <1>2 DEF EstopInv
<1>7. (\A m \in Mutexes :
           Holds("server", m) => server.at = "handle" /\ PerArm /\ m \in {Log, server.arm})'
    BY <1>2 DEF EstopInv
<1>8. (Holds("server", Log) => Holds("server", server.arm))'
    <2>1. Holds("server", server.arm)' <=> holder'[server.arm] = "server"
        BY DEF Holds
    <2>2. Holds("server", Log)' => holder[Log] = "server"
        BY <1>1 DEF Holds
    <2>3. holder[server.arm] = "server" => holder'[server.arm] = "server"
        BY <1>1 DEF Holds
    <2> QED
        BY <2>1, <2>2, <2>3 DEF EstopInv, Holds
<1>9. (server.at = "handle" /\ PerArm /\ Sent = "estop" =>
           \A a \in Arms : a < server.arm \/ Holds("server", a) => StopHolds(a))'
    BY <1>1, <1>2 DEF EstopInv
<1>10. AnsweredEstopHolds'
    BY <1>2 DEF EstopInv, AnsweredEstopHolds
<1> QED
    BY <1>3, <1>4, <1>5, <1>6, <1>7, <1>8, <1>9, <1>10 DEF EstopInv

\* The other threads take and return their own mutexes only.
LEMMA OwnMutexes ==
    ASSUME TypeOK, NEW t, t # "server", t # "none",
           UNCHANGED holder \/ Unlock(t) \/ \E m : Lock(t, m)
    PROVE  \A m \in Mutexes : Holds("server", m)' <=> Holds("server", m)
<1>1. holder \in [Mutexes -> Threads \cup {"none"}]
    BY DEF TypeOK
<1>2. CASE UNCHANGED holder
    BY <1>2 DEF Holds
<1>3. CASE Unlock(t)
    BY <1>1, <1>3 DEF Holds, Unlock
<1>4. ASSUME NEW m, Lock(t, m)
      PROVE  \A n \in Mutexes : Holds("server", n)' <=> Holds("server", n)
    BY <1>1, <1>4 DEF Holds, Lock
<1> QED
    BY <1>2, <1>3, <1>4

\* Every step of main keeps what the server has established.
LEMMA MainEstop ==
    ASSUME TypeOK, TypeOK', ExitInv, EstopInv, Main
    PROVE  EstopInv'
<1>l. main.at \in Nat /\ main'.at \in Nat
    <2>1. LongestStartUp = 11
        BY StartUpType DEF Programs
    <2> QED
        BY <2>1 DEF TypeOK
<1>h. \A m \in Mutexes : Holds("server", m)' <=> Holds("server", m)
    <2>1. UNCHANGED holder \/ Unlock("main") \/ \E m : Lock("main", m)
        BY DEF Main, StartUpLogs, StartUpStep, StartUpFails, LoopHead, TakeRequest,
            NoRequest, StartMove, EnterManager, ManagerLogs, LeaveManager, CheckBusy,
            MotorStep, Report, JoinReceivers, StopReceivers, DisableAll, CloseServer,
            JoinServer
    <2> QED
        BY <2>1, OwnMutexes
<1>e. UNCHANGED <<role, estop, undone>>
    BY DEF moveVars, Main, StartUpLogs, StartUpStep, StartUpFails, LoopHead, TakeRequest,
        NoRequest, StartMove, EnterManager, ManagerLogs, LeaveManager, CheckBusy,
        MotorStep, Report, JoinReceivers, StopReceivers, DisableAll, CloseServer,
        JoinServer
<1>g. \A a \in Arms : StopHolds(a) => StopHolds(a)'
    BY <1>e DEF StopHolds
<1>p. ASSUME ~StartUpStep
      PROVE  At("startup")' => UNCHANGED main
    BY <1>p DEF Main, StartUpLogs, StartUpFails, LoopHead, TakeRequest, NoRequest,
        StartMove, NextMove, EnterManager, ManagerLogs, LeaveManager, CheckBusy, MotorStep,
        Report, JoinReceivers, StopReceivers, DisableAll, CloseServer, JoinServer,
        Continue, NextArm, At, TypeOK
<1>1. CASE StartUpStep /\ Current.do = "server"
    <2>1. At("startup") /\ role \in Programs
        BY <1>1, LifecycleAssumption DEF StartUpStep, TypeOK, LifecycleAssumption
    <2>2. PICK k \in Nat : ServerOnlyAt(StartUp(role), k)
        BY <2>1, ServerStartsOnce
    <2>3. /\ Len(StartUp(role)) \in Nat /\ DOMAIN StartUp(role) = 1 .. Len(StartUp(role))
          /\ main.at \in 1 .. Len(StartUp(role))
        <3>1. StartUp(role) \in Seq(StepOf(IF role \in {"follower", "leader"} THEN Arms ELSE {1}))
            BY <2>1, StartUpType
        <3>2. Len(StartUp(role)) \in Nat /\ DOMAIN StartUp(role) = 1 .. Len(StartUp(role))
            BY <3>1, LenProperties
        <3>3. main.at \in 1 .. LongestStartUp /\ LongestStartUp = 11
            BY StartUpType DEF Programs, TypeOK
        <3>4. main.at >= 1 /\ main.at <= Len(StartUp(role))
            BY <2>1, <3>3 DEF ExitInv
        <3> QED
            BY <1>l, <3>2, <3>4
    <2>4. main.at = k
        BY <1>1, <2>2, <2>3 DEF ServerOnlyAt, Current
    <2>5. server.at = "none"
        BY <1>1, <1>l, <2>1, <2>3 DEF EstopInv, Current
    <2>6. /\ server'.at = "accept" /\ server'.arm = server.arm
          /\ UNCHANGED conn
        BY <1>1 DEF StartUpStep, TypeOK
    <2>7. At("startup")' => main'.at = main.at + 1
        BY <1>1, <2>1 DEF StartUpStep, StepDone, Continue, At, TypeOK
    <2>8. (At("startup") /\ server.at # "none" =>
               \A i \in DOMAIN StartUp(role) : i >= main.at => StartUp(role)[i].do # "server")'
        <3>1. SUFFICES ASSUME main'.at = main.at + 1, NEW i \in DOMAIN StartUp(role),
                              i >= main'.at
                       PROVE  StartUp(role)[i].do # "server"
            BY <1>e, <2>7
        <3>2. i \in 1 .. Len(StartUp(role)) /\ i # k
            BY <1>l, <2>3, <2>4, <3>1
        <3> QED
            BY <2>2, <3>2 DEF ServerOnlyAt
    <2>9. ~(server'.arm > 1) /\ \A m \in Mutexes : ~Holds("server", m)'
        BY <1>h, <2>5, <2>6 DEF EstopInv
    <2>10. ~Holds("server", Log)'
        BY <2>9 DEF Mutexes
    <2> QED
        BY <2>6, <2>8, <2>9, <2>10 DEF EstopInv, AnsweredEstopHolds
<1>2. CASE StartUpStep /\ Current.do # "server"
    <2>1. UNCHANGED <<server, conn>> /\ At("startup")
        BY <1>2 DEF StartUpStep
    <2>2. At("startup")' => main'.at = main.at + 1
        BY <1>2, <2>1 DEF StartUpStep, StepDone, Continue, At, TypeOK
    <2>3. At("startup")' => At("startup") /\ main.at <= main'.at
        BY <1>l, <2>1, <2>2
    <2> QED
        BY <1>e, <1>g, <1>h, <1>l, <2>1, <2>3, EstopFrame
<1>3. CASE CloseServer
    <2>1. UNCHANGED server /\ server.at \in {"recv", "handle", "reply"} =>
              conn'[server.client] = conn[server.client]
        <3>1. SUFFICES ASSUME server.at \in {"recv", "handle", "reply"}
                       PROVE  conn'[server.client] = conn[server.client]
            OBVIOUS
        <3>2. server.client \in Clients /\ conn[server.client].at = "served"
            BY <3>1 DEF EstopInv
        <3> QED
            BY <1>3, <3>2 DEF CloseServer
    <2>2. UNCHANGED server
        BY <1>3 DEF CloseServer
    <2>3. At("startup")' => At("startup") /\ main.at <= main'.at
        BY <1>3, <1>l, <1>p DEF CloseServer, StartUpStep, At
    <2> QED
        BY <1>e, <1>g, <1>h, <1>l, <2>1, <2>2, <2>3, EstopFrame
<1>4. CASE ~StartUpStep /\ ~CloseServer
    <2>1. UNCHANGED <<server, conn>>
        BY <1>4 DEF Main, StartUpLogs, StartUpFails, LoopHead, TakeRequest,
            NoRequest, StartMove, EnterManager, ManagerLogs, LeaveManager, CheckBusy,
            MotorStep, Report, JoinReceivers, StopReceivers, DisableAll, JoinServer
    <2>2. At("startup")' => At("startup") /\ main.at <= main'.at
        BY <1>4, <1>l, <1>p DEF At
    <2> QED
        BY <1>e, <1>g, <1>h, <1>l, <2>1, <2>2, EstopFrame
<1> QED
    BY <1>1, <1>2, <1>3, <1>4

\* The movers, the clients and the signal keep what the server has
\* established.
LEMMA OthersEstop ==
    ASSUME TypeOK, EstopInv, [Next]_vars, ~Main, ~Server
    PROVE  EstopInv'
<1>l. main.at \in Nat
    <2>1. LongestStartUp = 11
        BY StartUpType DEF Programs
    <2> QED
        BY <2>1 DEF TypeOK
<1>o. ASSUME NEW c \in Clients
      PROVE  c # "server" /\ c # "none"
    BY LifecycleAssumption DEF LifecycleAssumption, OwnThreads
<1>1. UNCHANGED <<role, server, main>>
    BY DEF Next, Mover, MoverMoves, MoverEnters, MoverLogs, MoverLeaves, MoverClears,
        MoverEnds, Connect, ClientSends, SignalArrives, Handler, Terminated, Stuck, vars
<1>h. \A m \in Mutexes : Holds("server", m)' <=> Holds("server", m)
    <2>1. ASSUME NEW c \in Clients, Mover(c)
          PROVE  \A m \in Mutexes : Holds("server", m)' <=> Holds("server", m)
        <3>1. UNCHANGED holder \/ Unlock(c) \/ \E m : Lock(c, m)
            BY <2>1 DEF Mover, MoverMoves, MoverEnters, MoverLogs, MoverLeaves,
                MoverClears, MoverEnds
        <3> QED
            BY <1>o, <3>1, OwnMutexes
    <2>2. CASE SignalArrives
        <3>1. PICK t \in Threads : StrikesThread(t) \/ StrikesMessage(t)
            BY <2>2 DEF SignalArrives
        <3>2. CASE StrikesThread(t)
            BY <3>2 DEF StrikesThread, Holds
        <3>3. CASE StrikesMessage(t)
            <4>1. t # "server" /\ t # "none" /\ \E m : Lock(t, m)
                BY <1>o, <3>3 DEF StrikesMessage
            <4> QED
                BY <4>1, OwnMutexes
        <3> QED
            BY <3>1, <3>2, <3>3
    <2>3. ASSUME ~SignalArrives, ~\E c \in Clients : Mover(c)
          PROVE  UNCHANGED holder
        BY <2>3 DEF Next, Connect, ClientSends, Handler, Terminated, Stuck, vars
    <2> QED
        BY <2>1, <2>2, <2>3 DEF Holds
<1>p. (At("startup")' => At("startup") /\ main.at <= main'.at) /\ main'.at \in Nat
    BY <1>1, <1>l DEF At
<1>2. server.at \in {"handle", "reply"} => \A a \in Arms : StopHolds(a) => StopHolds(a)'
    <2>b. estop \in [Arms -> BOOLEAN] /\ mover \in [Clients -> MoverSet]
        BY DEF TypeOK, MoverSet
    <2>1. Handler => \A a \in Arms : StopHolds(a) => StopHolds(a)'
        BY DEF Handler, StopHolds, moveVars
    <2>2. ASSUME server.at \in {"handle", "reply"}, NEW c \in Clients, MoverEnters(c)
          PROVE  \A a \in Arms : StopHolds(a) => StopHolds(a)'
        <3>1. /\ estop' = [estop EXCEPT ![mover[c].arm] = FALSE]
              /\ undone' = undone \cup {mover[c].arm}
            BY <2>2 DEF MoverEnters
        <3> QED
            BY <2>b, <3>1 DEF StopHolds
    <2>3. ASSUME ~Handler, ~\E c \in Clients : MoverEnters(c)
          PROVE  UNCHANGED <<estop, undone>>
        BY <2>3 DEF Next, Mover, MoverMoves, MoverLogs, MoverLeaves, MoverClears, MoverEnds,
            Connect, ClientSends, SignalArrives, Terminated, Stuck, vars, moveVars
    <2> QED
        BY <2>1, <2>2, <2>3 DEF StopHolds
<1>3. server.at \in {"recv", "handle", "reply"} =>
          server.client \in Clients /\ conn[server.client].at = "served"
    BY DEF EstopInv
<1>c. conn \in [Clients -> [at : {"away", "queued", "served", "answered", "reset"},
                             sent : Commands \cup {"nothing", "closed"}]]
    BY DEF TypeOK
<1>4. ASSUME NEW c \in Clients, Connect(c)
      PROVE  server.at \in {"recv", "handle", "reply"} =>
                 conn'[server.client] = conn[server.client]
    BY <1>3, <1>4, <1>c DEF Connect
<1>5. ASSUME NEW c \in Clients, ClientSends(c)
      PROVE  /\ server.at \in {"recv", "handle", "reply"} =>
                     conn'[server.client].at = conn[server.client].at
             /\ server.at \in {"handle", "reply"} =>
                     conn'[server.client].sent = conn[server.client].sent
    <2>1. PICK what \in Requests[c] \cup {"closed"} : conn' = [conn EXCEPT ![c].sent = what]
        BY <1>5 DEF ClientSends
    <2>2. conn[c].sent = "nothing"
        BY <1>5 DEF ClientSends
    <2>3. server.at \in {"handle", "reply"} => conn[server.client].sent # "nothing"
        BY DEF EstopInv, Sent
    <2> QED
        BY <1>3, <1>c, <2>1, <2>2, <2>3
<1>6. CASE UNCHANGED conn
    BY <1>1, <1>2, <1>6, <1>h, <1>l, <1>p, EstopFrame
<1>7. ASSUME NEW c \in Clients, Connect(c)
      PROVE  EstopInv'
    BY <1>1, <1>2, <1>4, <1>7, <1>h, <1>l, <1>p, EstopFrame
<1>8. ASSUME NEW c \in Clients, ClientSends(c)
      PROVE  EstopInv'
    BY <1>1, <1>2, <1>5, <1>8, <1>h, <1>l, <1>p, EstopFrame
<1>9. UNCHANGED conn \/ \E c \in Clients : Connect(c) \/ ClientSends(c)
    BY DEF Next, Mover, MoverMoves, MoverEnters, MoverLogs, MoverLeaves, MoverClears,
        MoverEnds, SignalArrives, Handler, Terminated, Stuck, vars
<1> QED
    BY <1>6, <1>7, <1>8, <1>9

\* Every step of the server thread keeps what it has established.
LEMMA ServerEstop ==
    ASSUME TypeOK, EstopInv, Server
    PROVE  EstopInv'
<1>a. /\ server.arm \in Arms /\ server.arm \in Nat /\ server.arm >= 1 /\ server.arm <= 2
      /\ Arms \subseteq Mutexes /\ Log \in Mutexes /\ Log \notin Arms
      /\ \A a \in Arms : a \in Nat /\ a >= 1 /\ a <= 2
    BY DEF TypeOK, Mutexes, Arms, Log
<1>h. holder \in [Mutexes -> Threads \cup {"none"}] /\ estop \in [Arms -> BOOLEAN]
    BY DEF TypeOK
<1>s. /\ server \in [at : {"none", "accept", "recv", "handle", "reply", "ended"},
                      client : Clients \cup {NoClient}, arm : Arms]
      /\ conn \in [Clients -> [at : {"away", "queued", "served", "answered", "reset"},
                               sent : Commands \cup {"nothing", "closed"}]]
    BY DEF TypeOK
<1>1. UNCHANGED <<role, main>> /\ server.at # "none"
    BY DEF Server, Accept, Recv, HandleFlags, HandlerEnters, HandlerLogs, HandlerLeaves,
        Reply, ServerAt
<1>2. (At("startup") /\ server.at # "none" =>
           \A i \in DOMAIN StartUp(role) : i >= main.at => StartUp(role)[i].do # "server")'
    BY <1>1 DEF EstopInv, At
<1>3. ASSUME server.at # "handle"
      PROVE  server.arm = 1 /\ \A m \in Mutexes : ~Holds("server", m)
    BY <1>3, <1>a DEF EstopInv
<1>4. ASSUME UNCHANGED holder, \A m \in Mutexes : ~Holds("server", m)
      PROVE  (\A m \in Mutexes : ~Holds("server", m))' /\ ~Holds("server", Log)'
    BY <1>4, <1>a DEF Holds
<1>5. CASE Accept
    <2>1. /\ server.at = "accept" /\ UNCHANGED holder
          /\ server'.at \in {"recv", "ended"} /\ server'.arm = server.arm
        BY <1>5, <1>s DEF Accept, ServerAt
    <2>2. server'.at = "recv" => server'.client \in Clients /\ conn'[server'.client].at = "served"
        <3>1. ASSUME NEW c \in Clients, conn' = [conn EXCEPT ![c].at = "served"],
                     server' = [server EXCEPT !.at = "recv", !.client = c]
              PROVE  server'.client \in Clients /\ conn'[server'.client].at = "served"
            BY <1>s, <3>1
        <3>2. server' = [server EXCEPT !.at = "ended"] => server'.at = "ended"
            BY <1>s
        <3> QED
            BY <1>5, <3>1, <3>2 DEF Accept
    <2> QED
        BY <1>2, <1>3, <1>4, <2>1, <2>2 DEF EstopInv, AnsweredEstopHolds
<1>6. CASE Recv
    <2>1. /\ server.at = "recv" /\ UNCHANGED <<holder, conn>>
          /\ server'.at = (IF Sent = "closed" THEN "reply" ELSE "handle")
          /\ server'.arm = server.arm /\ server'.client = server.client
          /\ Sent # "nothing"
        BY <1>6, <1>s DEF Recv, ServerAt
    <2>2. Sent' = Sent /\ server.client \in Clients /\ conn[server.client].at = "served"
        BY <2>1 DEF Sent, EstopInv
    <2>3. (\A m \in Mutexes : ~Holds("server", m))' /\ ~Holds("server", Log)' /\ server'.arm = 1
        BY <1>3, <1>4, <2>1
    <2>4. \A a \in Arms : ~(a < server'.arm) /\ ~Holds("server", a)'
        BY <1>a, <2>3
    <2> QED
        BY <1>2, <2>1, <2>2, <2>3, <2>4 DEF EstopInv, AnsweredEstopHolds
<1>7. CASE HandleFlags
    <2>1. /\ server.at = "handle" /\ UNCHANGED <<holder, conn, role>> /\ ~PerArm
          /\ server'.at = "reply" /\ server'.arm = server.arm /\ server'.client = server.client
        BY <1>7, <1>s DEF HandleFlags, ServerAt
    <2>2. Sent' = Sent /\ Sent # "nothing" /\ server.client \in Clients
              /\ conn[server.client].at = "served"
        BY <2>1 DEF Sent, EstopInv
    <2>3. server.arm = 1 /\ \A m \in Mutexes : ~Holds("server", m)
        BY <1>a, <2>1 DEF EstopInv
    <2>4. (\A m \in Mutexes : ~Holds("server", m))' /\ ~Holds("server", Log)'
        BY <1>4, <2>1, <2>3
    <2>5. AnsweredEstopHolds'
        BY <2>1, <2>2 DEF AnsweredEstopHolds, PerArm
    <2> QED
        BY <1>2, <2>1, <2>2, <2>3, <2>4, <2>5 DEF EstopInv
<1>8. CASE HandlerEnters \/ HandlerLogs
    <2>1. /\ server.at = "handle" /\ UNCHANGED <<server, conn, role>> /\ PerArm
          /\ Sent # "nothing" /\ server.client \in Clients /\ conn[server.client].at = "served"
        BY <1>8 DEF HandlerEnters, HandlerLogs, ServerAt, EstopInv
    <2>2. Sent' = Sent /\ PerArm' = PerArm
        BY <2>1 DEF Sent, PerArm
    <2>3. AnsweredEstopHolds'
        BY <2>1 DEF AnsweredEstopHolds
    <2>4. /\ holder'[server.arm] = "server"
          /\ \A m \in Mutexes : holder'[m] = "server" =>
                 m \in {Log, server.arm}
        <3>1. \A m \in Mutexes : holder[m] = "server" => m \in {Log, server.arm}
            BY DEF EstopInv, Holds
        <3>2. CASE HandlerEnters
            <4>1. holder' = [holder EXCEPT ![server.arm] = "server"]
                BY <3>2 DEF HandlerEnters, Lock
            <4> QED
                BY <1>a, <1>h, <3>1, <4>1
        <3>3. CASE HandlerLogs
            <4>1. holder' = [holder EXCEPT ![Log] = "server"] /\ holder[server.arm] = "server"
                BY <3>3 DEF HandlerLogs, Lock, Holds
            <4> QED
                BY <1>a, <1>h, <3>1, <4>1
        <3> QED
            BY <1>8, <3>2, <3>3
    <2>5. ASSUME Sent = "estop", NEW a \in Arms, a < server.arm \/ holder'[a] = "server"
          PROVE  StopHolds(a)'
        <3>1. a < server.arm \/ a = server.arm
            BY <1>a, <2>4, <2>5
        <3>2. \A b \in Arms : b < server.arm \/ holder[b] = "server" => StopHolds(b)
            BY <2>1, <2>5 DEF EstopInv, Holds
        <3>3. CASE HandlerEnters
            <4>1. estop' = [estop EXCEPT ![server.arm] = (Sent = "estop")]
                BY <3>3 DEF HandlerEnters
            <4>2. estop' = [estop EXCEPT ![server.arm] = TRUE]
                BY <2>5, <4>1
            <4>3. undone' = undone \ {server.arm}
                BY <3>3 DEF HandlerEnters
            <4> QED
                BY <1>h, <3>1, <3>2, <4>2, <4>3 DEF StopHolds
        <3>4. CASE HandlerLogs
            <4>1. UNCHANGED <<estop, undone>> /\ holder[server.arm] = "server"
                BY <3>4 DEF HandlerLogs, Holds, moveVars
            <4> QED
                BY <3>1, <3>2, <4>1 DEF StopHolds
        <3> QED
            BY <1>8, <3>3, <3>4
    <2>6. (\A m \in Mutexes :
               Holds("server", m) => server.at = "handle" /\ PerArm /\ m \in {Log, server.arm})'
        BY <2>1, <2>2, <2>4 DEF Holds
    <2>7. (Holds("server", Log) => Holds("server", server.arm))'
        BY <2>1, <2>4 DEF Holds
    <2>8. (server.at = "handle" /\ PerArm /\ Sent = "estop" =>
               \A a \in Arms : a < server.arm \/ Holds("server", a) => StopHolds(a))'
        BY <2>1, <2>2, <2>5 DEF Holds
    <2> QED
        BY <1>2, <2>1, <2>2, <2>3, <2>6, <2>7, <2>8 DEF EstopInv
<1>9. CASE HandlerLeaves
    <2>1. /\ server.at = "handle" /\ UNCHANGED <<conn, role, estop, undone>> /\ PerArm
          /\ Sent # "nothing" /\ server.client \in Clients /\ conn[server.client].at = "served"
          /\ server'.client = server.client
        BY <1>9, <1>s DEF HandlerLeaves, ServerAt, EstopInv, moveVars
    <2>2. Sent' = Sent /\ PerArm' = PerArm /\ role = "follower" /\ LastArm = 2
        BY <2>1 DEF Sent, PerArm, LastArm
    <2>3. \A m \in Mutexes : holder'[m] # "server"
        BY <1>9, <1>h DEF HandlerLeaves, Unlock
    <2>4. (\A m \in Mutexes : ~Holds("server", m))' /\ ~Holds("server", Log)'
        BY <1>a, <2>3 DEF Holds
    <2>5. ASSUME Sent = "estop", NEW a \in Arms, a <= server.arm
          PROVE  StopHolds(a)
        <3>1. holder[server.arm] = "server"
            BY <1>9 DEF HandlerLeaves, EstopInv, Holds
        <3>2. \A b \in Arms : b < server.arm \/ holder[b] = "server" => StopHolds(b)
            BY <2>1, <2>5 DEF EstopInv, Holds
        <3> QED
            BY <1>a, <2>5, <3>1, <3>2
    <2>6. CASE server.arm < LastArm
        <3>1. server'.at = "handle" /\ server'.arm = server.arm + 1
            BY <1>9, <1>s, <2>1, <2>6 DEF HandlerLeaves
        <3>2. ASSUME Sent = "estop", NEW a \in Arms, a < server'.arm
              PROVE  StopHolds(a)'
            BY <1>a, <2>1, <2>5, <3>1, <3>2 DEF StopHolds
        <3>3. (server.at = "handle" /\ PerArm /\ Sent = "estop" =>
                  \A a \in Arms : a < server.arm \/ Holds("server", a) => StopHolds(a))'
            BY <1>a, <2>2, <2>4, <3>2
        <3> QED
            BY <1>2, <2>1, <2>2, <2>4, <3>1, <3>3 DEF EstopInv, AnsweredEstopHolds
    <2>7. CASE ~(server.arm < LastArm)
        <3>1. server'.at = "reply" /\ server'.arm = 1
            BY <1>9, <1>s, <2>7 DEF HandlerLeaves
        <3>2. server.arm = 2
            BY <1>a, <2>2, <2>7
        <3>3. Sent = "estop" => \A a \in Arms : StopHolds(a)'
            BY <1>a, <2>1, <2>5, <3>2 DEF StopHolds
        <3>4. AnsweredEstopHolds'
            BY <2>2, <3>3 DEF AnsweredEstopHolds
        <3> QED
            BY <1>2, <2>1, <2>2, <2>4, <3>1, <3>4 DEF EstopInv
    <2> QED
        BY <2>6, <2>7
<1>10. CASE Reply
    <2>1. /\ server.at = "reply" /\ UNCHANGED holder
          /\ server'.at = "accept" /\ server'.arm = server.arm
        BY <1>10, <1>s DEF Reply, ServerAt
    <2> QED
        BY <1>2, <1>3, <1>4, <2>1 DEF EstopInv, AnsweredEstopHolds
<1> QED
    BY <1>5, <1>6, <1>7, <1>8, <1>9, <1>10 DEF Server

----------------------------------------------------------------------------
(* The theorems.                                                           *)

\* The initial states satisfy the invariant.
LEMMA InitInv == Init => IInv
<1> SUFFICES ASSUME Init
             PROVE  IInv
    OBVIOUS
<1>1. role \in Programs /\ role \in Roles
    BY LifecycleAssumption DEF Init, LifecycleAssumption
<1>2. Len(StartUp(role)) \in 1 .. LongestStartUp /\ LongestStartUp = 11
    BY <1>1, StartUpType
<1>3. main \in [phase : Phases, at : 1 .. LongestStartUp]
    BY <1>2 DEF Init, Phases
<1>4. holder \in [Mutexes -> Threads \cup {"none"}]
    BY DEF Init
<1>5. server \in [at : {"none", "accept", "recv", "handle", "reply", "ended"},
                  client : Clients \cup {NoClient}, arm : Arms]
    BY DEF Init, Arms
<1>6. conn \in [Clients -> [at : {"away", "queued", "served", "answered", "reset"},
                            sent : Commands \cup {"nothing", "closed"}]]
    BY DEF Init
<1>7. signal \in [on : Threads \cup {"none"}, at : 0 .. 4]
    BY DEF Init
<1>8. /\ motors \in [Arms -> BOOLEAN] /\ estop \in [Arms -> BOOLEAN]
      /\ seen \in [Arms -> BOOLEAN] /\ running \in BOOLEAN /\ serving \in BOOLEAN
      /\ failed \in MayFail \cup {"none"}
    BY DEF Init
<1>m. MoveTypeOK
    BY DEF Init, MoveTypeOK, MoverSet, NoMover, Moves, Arms
<1>9. TypeOK
    BY <1>m, <1>1, <1>3, <1>4, <1>5, <1>6, <1>7, <1>8
    DEF TypeOK, MoveTypeOK, MoverSet
<1>10. ExitInv
    <2>1. main.at = 1 /\ Len(StartUp(role)) \in 1 .. 11
        BY <1>2 DEF Init
    <2>3. \A n \in 1 .. 11 : 1 <= n
        OBVIOUS
    <2>2. main.at <= Len(StartUp(role))
        BY <2>1, <2>3
    <2> QED
        BY <2>2 DEF Init, ExitInv, At, Alive
<1>11. EstopInv
    BY DEF Init, EstopInv, AnsweredEstopHolds, Holds, Mutexes, Log
<1> QED
    BY <1>9, <1>10, <1>11 DEF IInv

(***************************************************************************)
(* The types, the way to the end of the process and the state of the       *)
(* server thread are an inductive invariant.                               *)
(***************************************************************************)
THEOREM InductiveInvariant == Spec => []IInv
<1>1. IInv /\ [Next]_vars => IInv'
    <2> SUFFICES ASSUME IInv, [Next]_vars
                 PROVE  IInv'
        OBVIOUS
    <2>1. TypeOK'
        BY TypeStep
    <2>2. ExitInv'
        <3>1. CASE UNCHANGED vars
            BY <3>1 DEF IInv, ExitInv, vars, At, Alive, AllOff, LastArm
        <3> QED
            BY <2>1, <3>1, MainExits, OthersExit DEF IInv
    <2>3. EstopInv'
        BY <2>1, MainEstop, ServerEstop, OthersEstop DEF IInv
    <2> QED
        BY <2>1, <2>2, <2>3 DEF IInv
<1> QED
    BY <1>1, InitInv, PTL DEF Spec

(***************************************************************************)
(* A program that ends, after its loop or after a failed verification, has *)
(* the motors off and no server thread left.                               *)
(***************************************************************************)
THEOREM CleanExitThm == Spec => []CleanExit
<1>1. IInv => CleanExit
    BY DEF IInv, ExitInv, CleanExit, Alive, At
<1> QED
    BY <1>1, InductiveInvariant, PTL

(***************************************************************************)
(* When the follower answers an estop each arm is stopped, or a detached   *)
(* mover has reset it since the handler stopped it, with any number of     *)
(* clients, every mix of commands and a signal at any moment.              *)
(***************************************************************************)
THEOREM AnsweredEstopHoldsThm == Spec => []AnsweredEstopHolds
<1>1. IInv => AnsweredEstopHolds
    BY DEF IInv, EstopInv
<1> QED
    BY <1>1, InductiveInvariant, PTL
=============================================================================
