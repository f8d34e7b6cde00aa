------------------------ MODULE BimanualLeaderProofs ------------------------
(***************************************************************************)
(* Proofs about the leader, for any number of arms, every setting of the   *)
(* gate and of the moves, and any number of commands, signals and changes  *)
(* of the link.                                                            *)
(***************************************************************************)
EXTENDS BimanualLeader, TLAPS

----------------------------------------------------------------------------
(* Facts about the constants and the operators.                            *)

\* The constants, one by one.
LEMMA Constants ==
    /\ NArms \in Nat /\ NArms > 0
    /\ MaxAge \in Nat /\ MaxEvents \in Nat
    /\ GatePeriod \in Nat /\ GatePeriod > 0
    /\ LinkPeriod \in Nat /\ LinkPeriod > 0
    /\ MoveTicks \in Nat /\ MoveTicks > 0
    /\ BadLimit \in Nat /\ BadLimit = GatePeriod + 2 * MoveTicks + 1
    BY LeaderAssumption DEF LeaderAssumption, BadLimit

\* BilateralEngager::update returns an engager.
LEMMA UpdateType ==
    ASSUME NEW e \in Engager, NEW want \in BOOLEAN, NEW aligned \in BOOLEAN
    PROVE  Update(e, want, aligned) \in Engager
<1> USE EngagerAssumption DEF EngagerAssumption, Engager, EngagerState
<1>1. CASE e.state = "off"
    BY <1>1 DEF Update, FromOff
<1>2. CASE e.state = "wait_align"
    BY <1>2 DEF Update, FromWaitAlign
<1>3. CASE e.state = "ramp_up"
    BY <1>3 DEF Update, FromRampUp, RaisedScale
<1>4. CASE e.state = "engaged"
    BY <1>4 DEF Update, FromEngaged
<1>5. CASE e.state = "ramp_down"
    BY <1>5 DEF Update, FromRampDown, LoweredScale
<1> QED
    BY <1>1, <1>2, <1>3, <1>4, <1>5

(***************************************************************************)
(* The handlers that clear flags: command_enabled first, where they clear  *)
(* it at all, and at the end the request or keep_running, so that no       *)
(* request is left behind.                                                 *)
(***************************************************************************)
LEMMA ClearsFacts ==
    ASSUME NEW cmd, NEW i \in DOMAIN Clears(cmd)
    PROVE  /\ Len(Clears(cmd)) \in 1 .. 3
           /\ i \in 1 .. Len(Clears(cmd))
           /\ Clears(cmd)[i] \in {"enabled", "requested", "running"}
           /\ cmd # "bilateral_enable"
           /\ Clears(cmd)[i] = "enabled" =>
                  cmd \in {"disable", "estop", "shutdown"} /\ i < Len(Clears(cmd))
           /\ cmd \in {"disable", "estop", "shutdown"} /\ i = Len(Clears(cmd)) =>
                  Clears(cmd)[i] \in {"requested", "running"}
<1>1. CASE cmd = "bilateral_disable"
    BY <1>1 DEF Clears
<1>2. CASE cmd = "disable"
    BY <1>2 DEF Clears
<1>3. CASE cmd = "estop"
    BY <1>3 DEF Clears
<1>4. CASE cmd = "shutdown"
    BY <1>4 DEF Clears
<1>5. CASE cmd \notin {"bilateral_disable", "disable", "estop", "shutdown"}
    BY <1>5 DEF Clears
<1> QED
    BY <1>1, <1>2, <1>3, <1>4, <1>5

BadType == [Arms -> [pkt : 0 .. BadLimit, stats : 0 .. BadLimit]]
FbType == [Arms -> [has : BOOLEAN, age : 0 .. MaxAge + 1, live : BOOLEAN,
                    clear : BOOLEAN, quality : BOOLEAN]]

\* After a step that ends with Recovered a count is what it was, and its
\* condition still fails under a standing request, or it is zero.
LEMMA RecoveredFacts ==
    ASSUME bad \in BadType, Recovered
    PROVE  /\ bad' \in BadType
           /\ \A a \in Arms :
                 /\ bad'[a].pkt = 0 \/ bad'[a].pkt = bad[a].pkt
                 /\ bad'[a].stats = 0 \/ bad'[a].stats = bad[a].stats
                 /\ bad'[a].pkt > 0 => ~PacketOk(a)' /\ flag'["requested"]
                 /\ bad'[a].stats > 0 => ~StatsOk(a)' /\ flag'["requested"]
<1>0. BadLimit \in Nat
    BY Constants
<1>1. bad' \in BadType
    BY <1>0 DEF Recovered, BadType
<1>2. ASSUME NEW a \in Arms
      PROVE  /\ bad'[a].pkt = 0 \/ bad'[a].pkt = bad[a].pkt
             /\ bad'[a].stats = 0 \/ bad'[a].stats = bad[a].stats
             /\ bad'[a].pkt > 0 => ~PacketOk(a)' /\ flag'["requested"]
             /\ bad'[a].stats > 0 => ~StatsOk(a)' /\ flag'["requested"]
    <2>1. /\ bad'[a].pkt = IF PacketOk(a)' \/ ~flag'["requested"] THEN 0 ELSE bad[a].pkt
          /\ bad'[a].stats = IF StatsOk(a)' \/ ~flag'["requested"] THEN 0 ELSE bad[a].stats
        BY DEF Recovered
    <2> QED
        BY <2>1
<1> QED
    BY <1>1, <1>2

\* A cycle of time adds at most one to a count, and only to that of a
\* condition that fails under a standing request.
LEMMA ElapseFacts ==
    ASSUME bad \in BadType, fb \in FbType, nextGate \in 0 .. GatePeriod,
           nextLink \in 0 .. LinkPeriod, Elapse
    PROVE  /\ bad' \in BadType
           /\ fb' \in FbType
           /\ nextGate' \in 0 .. GatePeriod
           /\ nextGate' = IF nextGate = 0 THEN 0 ELSE nextGate - 1
           /\ nextLink' \in 0 .. LinkPeriod
           /\ \A a \in Arms :
                 /\ bad'[a].pkt <= bad[a].pkt + 1
                 /\ bad'[a].stats <= bad[a].stats + 1
                 /\ bad'[a].pkt > 0 => ~PacketOk(a)' /\ flag["requested"]
                 /\ bad'[a].stats > 0 => ~StatsOk(a)' /\ flag["requested"]
<1>0. /\ BadLimit \in Nat /\ MaxAge \in Nat
      /\ GatePeriod \in Nat /\ LinkPeriod \in Nat
    BY Constants
<1>1. /\ nextGate' = IF nextGate = 0 THEN 0 ELSE nextGate - 1
      /\ nextLink' = IF nextLink = 0 THEN 0 ELSE nextLink - 1
    BY DEF Elapse
<1>2. nextGate' \in 0 .. GatePeriod /\ nextLink' \in 0 .. LinkPeriod
    BY <1>0, <1>1
<1>3. fb' \in FbType
    <2>1. fb' = [a \in Arms |-> [fb[a] EXCEPT !.age =
                    IF fb[a].has /\ @ <= MaxAge THEN @ + 1 ELSE @]]
        BY DEF Elapse
    <2>2. ASSUME NEW a \in Arms
          PROVE  [fb[a] EXCEPT !.age = IF fb[a].has /\ @ <= MaxAge THEN @ + 1 ELSE @]
                     \in [has : BOOLEAN, age : 0 .. MaxAge + 1, live : BOOLEAN,
                          clear : BOOLEAN, quality : BOOLEAN]
        BY <1>0 DEF FbType
    <2> QED
        BY <2>1, <2>2 DEF FbType
<1>4. ASSUME NEW a \in Arms
      PROVE  /\ bad'[a].pkt = IF PacketOk(a) \/ ~flag["requested"] THEN 0
                              ELSE IF bad[a].pkt < BadLimit THEN bad[a].pkt + 1
                              ELSE bad[a].pkt
             /\ bad'[a].stats = IF StatsOk(a) \/ ~flag["requested"] THEN 0
                                ELSE IF bad[a].stats < BadLimit THEN bad[a].stats + 1
                                ELSE bad[a].stats
    BY DEF Elapse
<1>5. bad' \in BadType
    BY <1>0 DEF Elapse, BadType
<1>6. ASSUME NEW a \in Arms
      PROVE  /\ bad'[a].pkt <= bad[a].pkt + 1
             /\ bad'[a].stats <= bad[a].stats + 1
             /\ bad'[a].pkt > 0 => ~PacketOk(a)' /\ flag["requested"]
             /\ bad'[a].stats > 0 => ~StatsOk(a)' /\ flag["requested"]
    <2>1. bad[a].pkt \in Nat /\ bad[a].stats \in Nat
        BY <1>0 DEF BadType
    <2>2. /\ fb'[a].has = fb[a].has /\ fb'[a].clear = fb[a].clear
          /\ fb'[a].quality = fb[a].quality
          /\ fb'[a].age \in Nat /\ fb[a].age \in Nat /\ fb[a].age <= fb'[a].age
        BY <1>0 DEF Elapse, FbType
    <2>3. PacketOk(a)' => PacketOk(a)
        BY <2>2 DEF PacketOk
    <2>4. StatsOk(a)' => StatsOk(a)
        BY <1>0, <2>2 DEF StatsOk
    <2> QED
        BY <1>4, <2>1, <2>3, <2>4
<1> QED
    BY <1>1, <1>2, <1>3, <1>5, <1>6

----------------------------------------------------------------------------
(* Typing.                                                                 *)

\* Continue and NextArm leave main at an arm, in the phase they name.
LEMMA MainType ==
    ASSUME NEW ph \in Phases, main \in [phase : Phases, arm : Arms]
    PROVE  /\ Continue(ph) => main' \in [phase : Phases, arm : Arms]
           /\ NextArm(ph) => main' \in [phase : Phases, arm : Arms]
<1>1. NArms \in Nat /\ NArms > 0
    BY Constants
<1>2. 1 \in Arms /\ main.arm \in Nat /\ (main.arm < NArms => main.arm + 1 \in Arms)
    BY <1>1 DEF Arms
<1> QED
    BY <1>2 DEF Continue, NextArm

\* A read that is not the last one leaves an evaluation with a next read.
LEMMA EvaluateType ==
    ASSUME NEW e \in Evaluation, ~Evaluated(e)
    PROVE  Evaluate(e) \in Evaluation
<1>1. LastRead \in Nat
    BY Constants DEF LastRead
<1>2. e.read \in 0 .. LastRead /\ e.read # LastRead
    BY DEF Evaluation, Evaluated
<1>3. e.read + 1 \in 0 .. LastRead
    BY <1>1, <1>2
<1>4. (Reads(e) /\ (e.read > 0 => e.ok)) \in BOOLEAN
    OBVIOUS
<1>5. CASE FeedbackEnabled
    BY <1>3, <1>4, <1>5 DEF Evaluate, Evaluation
<1>6. CASE ~FeedbackEnabled
    BY <1>1, <1>6 DEF Evaluate, Evaluation
<1> QED
    BY <1>5, <1>6

\* Every step of the loop preserves the types.
LEMMA LoopTypes == TypeOK /\ Loop => TypeOK'
<1> SUFFICES ASSUME TypeOK, Loop
             PROVE  TypeOK'
    OBVIOUS
<1>b. bad \in BadType /\ fb \in FbType /\ nextGate \in 0 .. GatePeriod /\ nextLink \in 0 .. LinkPeriod
    BY DEF TypeOK, BadType, FbType
<1>m. main \in [phase : Phases, arm : Arms] /\ main.arm \in Arms
    BY DEF TypeOK
<1>c. /\ GatePeriod \in Nat /\ LinkPeriod \in Nat /\ MoveTicks \in Nat
      /\ move \in 0 .. MoveTicks
    BY Constants DEF TypeOK
<1>e. NewEvaluation \in Evaluation
    BY Constants DEF NewEvaluation, Evaluation, LastRead
<1>1. CASE LoopHead
    <2>1. main' \in [phase : Phases, arm : Arms]
        BY <1>1, <1>m, MainType DEF LoopHead, Phases
    <2> QED
        BY <1>1, <2>1 DEF LoopHead, TypeOK
<1>2. ASSUME NEW m \in Moves, TakeMove(m)
      PROVE  TypeOK'
    <2>1. AfterMove(m) \in Phases
        BY DEF AfterMove, Phases
    <2>2. main' \in [phase : Phases, arm : Arms]
        BY <1>2, <1>m, <2>1, MainType DEF TakeMove
    <2>3. move' \in 0 .. MoveTicks
        BY <1>2, <1>c DEF TakeMove
    <2>4. pending' \in [Moves -> BOOLEAN]
        BY <1>2 DEF TakeMove, TypeOK
    <2> QED
        BY <1>2, <2>2, <2>3, <2>4 DEF TakeMove, TypeOK
<1>3. ASSUME NEW m \in Moves, MoveTick(m)
      PROVE  TypeOK'
    <2>1. AfterMove(m) \in Phases
        BY DEF AfterMove, Phases
    <2>2. main' \in [phase : Phases, arm : Arms]
        BY <1>3, <1>m, <2>1, MainType DEF MoveTick
    <2>3. move' \in 0 .. MoveTicks
        BY <1>3, <1>c DEF MoveTick
    <2>4. /\ bad' \in BadType /\ fb' \in FbType
          /\ nextGate' \in 0 .. GatePeriod /\ nextLink' \in 0 .. LinkPeriod
        BY <1>3, <1>b, ElapseFacts DEF MoveTick
    <2> QED
        BY <1>3, <2>2, <2>3, <2>4 DEF MoveTick, TypeOK, BadType, FbType
<1>s. CASE GetLatest \/ Snapshot
    <2>1. fb[main.arm].live \in BOOLEAN /\ fb[main.arm].has \in BOOLEAN
          /\ (seen.fresh /\ fb[main.arm].age <= MaxAge) \in BOOLEAN
        BY <1>m DEF TypeOK
    <2>2. seen' \in [reads : 0 .. 2, live : BOOLEAN, fresh : BOOLEAN]
        <3>1. CASE GetLatest
            BY <2>1, <3>1 DEF GetLatest
        <3>2. CASE Snapshot
            <4>1. seen.live \in BOOLEAN
                BY DEF TypeOK
            <4> QED
                BY <2>1, <3>2, <4>1 DEF Snapshot
        <3> QED
            BY <1>s, <3>1, <3>2
    <2> QED
        BY <1>s, <2>2 DEF GetLatest, Snapshot, TypeOK
<1>4. CASE StepSide
    <2>1. main' \in [phase : Phases, arm : Arms]
        BY <1>4, <1>m, MainType DEF StepSide, Phases
    <2>2. PICK aligned \in BOOLEAN :
              eng' = [eng EXCEPT ![main.arm] = Update(@, Want, aligned)]
        BY <1>4 DEF StepSide
    <2>3. eng \in [Arms -> Engager] /\ Want \in BOOLEAN
        BY DEF TypeOK, Want
    <2>4. Update(eng[main.arm], Want, aligned) \in Engager
        BY <1>m, <2>3, UpdateType
    <2>5. eng' \in [Arms -> Engager]
        BY <2>2, <2>3, <2>4
    <2> QED
        BY <1>4, <2>1, <2>5 DEF StepSide, NotSeen, TypeOK
<1>5. CASE GateHead
    <2>1. main' \in [phase : Phases, arm : Arms]
        BY <1>5, <1>m, MainType DEF GateHead, Phases
    <2> QED
        BY <1>5, <2>1 DEF GateHead, TypeOK
<1>6. CASE LoopRefresh
    <2>1. main' \in [phase : Phases, arm : Arms]
        BY <1>6, <1>m, MainType DEF LoopRefresh, Phases
    <2>2. nextLink' \in 0 .. LinkPeriod
        BY <1>6, <1>c DEF LoopRefresh
    <2>3. linkOk' \in BOOLEAN
        BY <1>6 DEF LoopRefresh, RefreshLink, TypeOK
    <2> QED
        BY <1>6, <2>1, <2>2, <2>3 DEF LoopRefresh, TypeOK
<1>7. CASE LoopEvaluates
    <2>1. gate' \in Evaluation
        BY <1>7, EvaluateType DEF LoopEvaluates, TypeOK
    <2> QED
        BY <1>7, <2>1 DEF LoopEvaluates, TypeOK
<1>8. CASE Drop
    <2>1. main' \in [phase : Phases, arm : Arms]
        BY <1>8, <1>m, MainType DEF Drop, Phases
    <2>2. nextGate' \in 0 .. GatePeriod
        BY <1>8, <1>c DEF Drop
    <2>3. bad' \in BadType
        BY <1>8, <1>b, RecoveredFacts DEF Drop
    <2>4. flag' \in [{"enabled", "requested", "running"} -> BOOLEAN]
        BY <1>8 DEF Drop, TypeOK
    <2>5. gate' \in Evaluation
        BY <1>8, <1>e DEF Drop
    <2> QED
        BY <1>8, <2>1, <2>2, <2>3, <2>4, <2>5 DEF Drop, TypeOK, BadType
<1>9. CASE ReadMode
    <2>1. main' \in [phase : Phases, arm : Arms]
        BY <1>9, <1>m, MainType DEF ReadMode, Phases
    <2>2. mode' \in BOOLEAN
        BY <1>9 DEF ReadMode, TypeOK
    <2> QED
        BY <1>9, <2>1, <2>2 DEF ReadMode, TypeOK
<1>10. CASE FillPacket
    <2>1. main' \in [phase : Phases, arm : Arms]
        BY <1>10, <1>m, MainType DEF FillPacket, Phases
    <2>2. pkt' \in [Arms -> BOOLEAN]
        BY <1>10 DEF FillPacket, TypeOK
    <2> QED
        BY <1>10, <2>1, <2>2 DEF FillPacket, TypeOK
<1>11. CASE SendPacket
    <2>1. main' \in [phase : Phases, arm : Arms]
        BY <1>11, <1>m, MainType DEF SendPacket, Phases
    <2>2. late' \in [Arms -> Nat]
        BY <1>11 DEF SendPacket, TypeOK
    <2> QED
        BY <1>11, <2>1, <2>2 DEF SendPacket, TypeOK
<1>12. CASE Sleep
    <2>1. main' \in [phase : Phases, arm : Arms]
        BY <1>12, <1>m, MainType DEF Sleep, Phases
    <2>2. /\ bad' \in BadType /\ fb' \in FbType
          /\ nextGate' \in 0 .. GatePeriod /\ nextLink' \in 0 .. LinkPeriod
        BY <1>12, <1>b, ElapseFacts DEF Sleep
    <2>3. mode' \in BOOLEAN /\ pkt' \in [Arms -> BOOLEAN]
        BY <1>12 DEF Sleep
    <2> QED
        BY <1>12, <2>1, <2>2, <2>3 DEF Sleep, TypeOK, BadType, FbType
<1>13. CASE ReturnFromMain
    <2>1. main' \in [phase : Phases, arm : Arms]
        BY <1>13, <1>m, MainType DEF ReturnFromMain, Phases
    <2> QED
        BY <1>13, <2>1 DEF ReturnFromMain, TypeOK
<1> QED
    BY <1>1, <1>2, <1>3, <1>s, <1>4, <1>5, <1>6, <1>7, <1>8, <1>9, <1>10, <1>11, <1>12, <1>13
    DEF Loop

\* The other threads, the network and the signal preserve the types.
LEMMA OtherTypes ==
    ASSUME TypeOK, Next, ~Loop
    PROVE  TypeOK'
<1>b. bad \in BadType /\ fb \in FbType
    BY DEF TypeOK, BadType, FbType
<1>s. server \in [cmd : Operator \cup {"none"}, at : 1 .. 3]
    BY DEF TypeOK
<1>v. MaxEvents \in Nat /\ events \in 0 .. MaxEvents /\ MaxAge \in Nat
    BY Constants DEF TypeOK
<1>n. NoCommand \in [cmd : Operator \cup {"none"}, at : 1 .. 3]
    BY DEF NoCommand
<1>e. NewEvaluation \in Evaluation
    BY Constants DEF NewEvaluation, Evaluation, LastRead
<1>1. ASSUME NEW a \in Arms, Feedback(a)
      PROVE  TypeOK'
    <2>1. PICK live \in BOOLEAN, clear \in BOOLEAN, quality \in BOOLEAN :
              fb' = [fb EXCEPT ![a] = [has |-> TRUE, age |-> 0, live |-> live,
                                       clear |-> clear, quality |-> quality]]
        BY <1>1 DEF Feedback
    <2>2. fb' \in FbType
        BY <1>b, <1>v, <2>1 DEF FbType
    <2>3. bad' \in BadType
        BY <1>1, <1>b, RecoveredFacts DEF Feedback
    <2> QED
        BY <1>1, <2>2, <2>3 DEF Feedback, TypeOK, BadType, FbType
<1>2. ASSUME NEW a \in Arms, WindowMoves(a)
      PROVE  TypeOK'
    <2>1. fb' \in FbType
        BY <1>2, <1>b DEF WindowMoves, FbType
    <2>2. bad' \in BadType
        BY <1>2, <1>b, RecoveredFacts DEF WindowMoves
    <2> QED
        BY <1>2, <2>1, <2>2 DEF WindowMoves, TypeOK, BadType, FbType
<1>3. CASE LinkChanges
    <2>1. events' \in 0 .. MaxEvents
        BY <1>3, <1>v DEF LinkChanges
    <2>2. link' \in BOOLEAN
        BY <1>3 DEF LinkChanges
    <2> QED
        BY <1>3, <2>1, <2>2 DEF LinkChanges, TypeOK
<1>4. ASSUME NEW cmd \in Operator, ServerAccepts(cmd)
      PROVE  TypeOK'
    <2>1. events' \in 0 .. MaxEvents
        BY <1>4, <1>v DEF ServerAccepts
    <2>2. server' \in [cmd : Operator \cup {"none"}, at : 1 .. 3]
        BY <1>4 DEF ServerAccepts
    <2> QED
        BY <1>4, <2>1, <2>2 DEF ServerAccepts, TypeOK
<1>5. CASE ServerClears
    <2>1. /\ server.at \in 1 .. Len(Clears(server.cmd))
          /\ Len(Clears(server.cmd)) \in 1 .. 3
          /\ Clears(server.cmd)[server.at] \in {"enabled", "requested", "running"}
        BY <1>5, ClearsFacts DEF ServerClears
    <2>2. flag' \in [{"enabled", "requested", "running"} -> BOOLEAN]
        BY <1>5, <2>1 DEF ServerClears, TypeOK
    <2>3. CASE server.at = Len(Clears(server.cmd))
        <3>1. server' \in [cmd : Operator \cup {"none"}, at : 1 .. 3]
            BY <1>5, <1>n, <2>3 DEF ServerClears
        <3>2. bad' \in BadType
            BY <1>5, <1>b, RecoveredFacts DEF ServerClears
        <3> QED
            BY <1>5, <2>2, <3>1, <3>2 DEF ServerClears, TypeOK, BadType
    <2>4. CASE server.at # Len(Clears(server.cmd))
        <3>1. server' = [server EXCEPT !.at = server.at + 1]
            BY <1>5, <2>4 DEF ServerClears
        <3>4. \A n \in 1 .. 3 : \A i \in 1 .. n : i # n => i + 1 \in 1 .. 3
            OBVIOUS
        <3>5. server.at + 1 \in 1 .. 3
            BY <2>1, <2>4, <3>4
        <3>2. server' \in [cmd : Operator \cup {"none"}, at : 1 .. 3]
            BY <1>s, <3>1, <3>5
        <3>3. bad' \in BadType
            BY <1>5, <1>b, RecoveredFacts DEF ServerClears
        <3> QED
            BY <1>5, <2>2, <3>2, <3>3 DEF ServerClears, TypeOK, BadType
    <2> QED
        BY <2>3, <2>4
<1>6. CASE ServerSets
    <2>1. flag' \in [{"enabled", "requested", "running"} -> BOOLEAN]
        BY <1>6 DEF ServerSets, TypeOK
    <2>2. late' \in [Arms -> Nat]
        BY <1>6 DEF ServerSets, TypeOK
    <2>3. pending' \in [Moves -> BOOLEAN]
        BY <1>6 DEF ServerSets, TypeOK
    <2> QED
        BY <1>6, <1>n, <2>1, <2>2, <2>3 DEF ServerSets, TypeOK
<1>7. CASE EnableStarts
    <2>1. server' \in [cmd : Operator \cup {"none"}, at : 1 .. 3]
        BY <1>7, <1>s, <1>n DEF EnableStarts
    <2>2. linkOk' \in BOOLEAN
        BY <1>7 DEF EnableStarts, RefreshLink, TypeOK
    <2> QED
        BY <1>7, <2>1, <2>2 DEF EnableStarts, TypeOK
<1>8. CASE EnableEvaluates
    <2>1. check' \in Evaluation
        BY <1>8, EvaluateType DEF EnableEvaluates, TypeOK
    <2> QED
        BY <1>8, <2>1 DEF EnableEvaluates, TypeOK
<1>9. CASE EnableEnds
    <2>1. flag' \in [{"enabled", "requested", "running"} -> BOOLEAN]
        BY <1>9 DEF EnableEnds, TypeOK
    <2> QED
        BY <1>9, <1>n, <1>e, <2>1 DEF EnableEnds, TypeOK
<1>10. CASE Signal
    <2>1. events' \in 0 .. MaxEvents
        BY <1>10, <1>v DEF Signal
    <2>2. flag' \in [{"enabled", "requested", "running"} -> BOOLEAN]
        BY <1>10 DEF Signal, TypeOK
    <2> QED
        BY <1>10, <2>1, <2>2 DEF Signal, TypeOK
<1>11. CASE Terminated
    BY <1>11 DEF Terminated, vars, TypeOK
<1> QED
    BY <1>1, <1>2, <1>3, <1>4, <1>5, <1>6, <1>7, <1>8, <1>9, <1>10, <1>11
    DEF Next, Server

\* Every step preserves the types.
LEMMA TypeStep == TypeOK /\ [Next]_vars => TypeOK'
<1>1. TypeOK /\ UNCHANGED vars => TypeOK'
    BY DEF TypeOK, vars
<1> QED
    BY <1>1, LoopTypes, OtherTypes

----------------------------------------------------------------------------
(* The request and the late packets.                                       *)

\* No handler leaves a request behind.
LEMMA RequestStep ==
    ASSUME TypeOK, RequestInv, [Next]_vars
    PROVE  RequestInv'
<1>s. server \in [cmd : Operator \cup {"none"}, at : 1 .. 3]
    BY DEF TypeOK
<1>f. flag \in [{"enabled", "requested", "running"} -> BOOLEAN]
    BY DEF TypeOK
<1> USE DEF RequestInv, Disabling
<1>1. CASE UNCHANGED <<flag, server>>
    BY <1>1
<1>2. CASE Drop
    <2>1. /\ server' = server /\ flag'["enabled"] = flag["enabled"]
          /\ flag'["running"] = flag["running"] /\ (flag'["requested"] => flag["requested"])
        BY <1>2, <1>f DEF Drop
    <2> QED
        BY <2>1
<1>3. ASSUME NEW cmd \in Operator, ServerAccepts(cmd)
      PROVE  RequestInv'
    <2>1. server'.at = 1 /\ server = NoCommand /\ flag' = flag
        BY <1>3 DEF ServerAccepts
    <2> QED
        BY <2>1 DEF NoCommand
<1>4. CASE ServerClears
    <2>1. /\ server.at \in 1 .. Len(Clears(server.cmd))
          /\ Len(Clears(server.cmd)) \in 1 .. 3
          /\ Clears(server.cmd)[server.at] \in {"enabled", "requested", "running"}
          /\ server.cmd # "bilateral_enable"
          /\ Clears(server.cmd)[server.at] = "enabled" =>
                  server.cmd \in {"disable", "estop", "shutdown"}
                      /\ server.at < Len(Clears(server.cmd))
          /\ server.cmd \in {"disable", "estop", "shutdown"}
                  /\ server.at = Len(Clears(server.cmd)) =>
                  Clears(server.cmd)[server.at] \in {"requested", "running"}
        BY <1>4, ClearsFacts DEF ServerClears
    <2>2. flag' = [flag EXCEPT ![Clears(server.cmd)[server.at]] = FALSE]
        BY <1>4 DEF ServerClears
    <2>3. CASE server.at = Len(Clears(server.cmd))
        <3>1. server' = NoCommand
            BY <1>4, <2>3 DEF ServerClears
        <3>2. Clears(server.cmd)[server.at] # "enabled"
            BY <2>1, <2>3
        <3>3. CASE Disabling
            BY <1>f, <2>1, <2>2, <2>3, <3>1, <3>3 DEF NoCommand
        <3>4. CASE ~Disabling
            BY <1>f, <2>1, <2>2, <3>1, <3>2, <3>4 DEF NoCommand
        <3> QED
            BY <3>3, <3>4
    <2>4. CASE server.at # Len(Clears(server.cmd))
        <3>1. server'.cmd = server.cmd /\ server'.at = server.at + 1
            BY <1>4, <1>s, <2>4 DEF ServerClears
        <3>2. server.at \in Nat
            BY <1>s
        <3> QED
            BY <1>f, <2>1, <2>2, <3>1, <3>2
    <2> QED
        BY <2>3, <2>4
<1>5. CASE ServerSets
    <2>1. /\ server' = NoCommand /\ ~Disabling
          /\ flag["enabled"] => flag'["enabled"]
          /\ flag'["running"] = flag["running"]
          /\ flag'["requested"] = flag["requested"]
        BY <1>5, <1>f DEF ServerSets, Moves
    <2> QED
        BY <2>1 DEF NoCommand
<1>6. CASE EnableStarts
    <2>1. /\ flag' = flag /\ server.cmd = "bilateral_enable"
          /\ server' = NoCommand \/ (server'.cmd = "bilateral_enable" /\ flag["enabled"])
        BY <1>6, <1>s DEF EnableStarts, Enabling
    <2> QED
        BY <2>1 DEF NoCommand
<1>7. CASE EnableEnds
    <2>1. /\ server' = NoCommand /\ flag["enabled"]
          /\ flag'["enabled"] = flag["enabled"]
        BY <1>7, <1>f DEF EnableEnds, Enabling
    <2> QED
        BY <2>1 DEF NoCommand
<1>8. CASE Signal
    BY <1>8, <1>f DEF Signal
<1>9. ASSUME Next PROVE UNCHANGED <<flag, server>> \/ Drop \/ ServerClears \/ ServerSets
          \/ EnableStarts \/ EnableEnds \/ Signal \/ \E cmd \in Operator : ServerAccepts(cmd)
    BY <1>9 DEF Next, Loop, Server, LoopHead, TakeMove, MoveTick, GetLatest, Snapshot,
        StepSide, GateHead, LoopRefresh, LoopEvaluates, ReadMode, FillPacket, SendPacket, Sleep, ReturnFromMain,
        Feedback, WindowMoves, LinkChanges, EnableEvaluates, Terminated, vars
<1> QED
    BY <1>1, <1>2, <1>3, <1>4, <1>5, <1>6, <1>7, <1>8, <1>9 DEF vars

\* An arm is sent at most the one enabling packet that was filled in before
\* the flag was cleared.
LEMMA LateStep ==
    ASSUME TypeOK, LateInv, [Next]_vars
    PROVE  LateInv'
<1>f. flag \in [{"enabled", "requested", "running"} -> BOOLEAN]
    BY DEF TypeOK
<1>p. pkt \in [Arms -> BOOLEAN] /\ late \in [Arms -> Nat]
    BY DEF TypeOK
<1>m. /\ main \in [phase : Phases, arm : Arms] /\ main.arm \in Arms
      /\ NArms \in Nat /\ \A a \in Arms : a \in Nat /\ a <= NArms
    BY Constants DEF TypeOK, Arms
<1> USE DEF LateInv, Unsent, At
<1>1. CASE UNCHANGED <<late, pkt, main>> /\ (flag'["enabled"] => flag["enabled"])
    BY <1>1
<1>2. CASE /\ UNCHANGED <<late, pkt>> /\ flag'["enabled"] = flag["enabled"]
           /\ main.phase \notin {"send", "sleep"}
    BY <1>2
<1>3. CASE FillPacket
    <2>1. /\ pkt' = [pkt EXCEPT ![main.arm] = flag["enabled"]]
          /\ UNCHANGED <<late, flag>> /\ main.phase = "fill"
        BY <1>3 DEF FillPacket
    <2> QED
        BY <1>p, <1>m, <2>1
<1>4. CASE SendPacket
    <2>1. /\ late' = [late EXCEPT ![main.arm] =
                         IF pkt[main.arm] /\ ~flag["enabled"] THEN @ + 1 ELSE @]
          /\ UNCHANGED <<pkt, flag>> /\ main.phase = "send"
          /\ \/ main.arm < NArms /\ main'.phase = "send" /\ main'.arm = main.arm + 1
             \/ main.arm >= NArms /\ main'.phase = "sleep"
        BY <1>4, <1>m DEF SendPacket, NextArm
    <2> SUFFICES ASSUME NEW a \in Arms
                 PROVE  /\ late'[a] <= 1
                        /\ flag'["enabled"] \/ Unsent(a)' => late'[a] = 0
        OBVIOUS
    <2>2. a \in Nat /\ main.arm \in Nat /\ a <= NArms /\ late[a] \in Nat
        BY <1>m, <1>p
    <2>3. CASE a = main.arm
        <3>1. late'[a] = IF pkt[a] /\ ~flag["enabled"] THEN late[a] + 1 ELSE late[a]
            BY <1>p, <2>1, <2>3
        <3>2. pkt[a] => late[a] = 0
            BY <2>1, <2>2, <2>3
        <3>3. ~Unsent(a)'
            BY <2>1, <2>2, <2>3
        <3> QED
            BY <2>1, <2>2, <3>1, <3>2, <3>3
    <2>4. CASE a # main.arm
        <3>1. late'[a] = late[a]
            BY <1>p, <2>1, <2>4
        <3>2. Unsent(a)' => Unsent(a)
            BY <2>1, <2>2, <2>4
        <3> QED
            BY <2>1, <3>1, <3>2
    <2> QED
        BY <2>3, <2>4
<1>5. CASE Sleep
    <2>1. UNCHANGED <<late, flag>> /\ \A a \in Arms : ~pkt'[a]
        BY <1>5 DEF Sleep
    <2> QED
        BY <2>1
<1>6. CASE ServerClears
    <2>1. /\ UNCHANGED <<late, pkt, main>>
          /\ flag' = [flag EXCEPT ![Clears(server.cmd)[server.at]] = FALSE]
        BY <1>6 DEF ServerClears
    <2>2. flag'["enabled"] => flag["enabled"]
        BY <1>f, <2>1
    <2> QED
        BY <1>1, <2>1, <2>2
<1>7. CASE ServerSets
    <2>1. CASE server.cmd = "enable"
        <3>1. \A a \in Arms : late'[a] = 0
            BY <1>7, <2>1 DEF ServerSets
        <3> QED
            BY <3>1
    <2>2. CASE server.cmd # "enable"
        BY <1>1, <1>7, <2>2 DEF ServerSets
    <2> QED
        BY <2>1, <2>2
<1>8. CASE Drop
    <2>1. UNCHANGED <<late, pkt>> /\ flag'["enabled"] = flag["enabled"]
              /\ main.phase = "evaluate"
        BY <1>8, <1>f DEF Drop
    <2> QED
        BY <1>2, <2>1
<1>9. CASE EnableEnds \/ Signal
    <2>1. UNCHANGED <<late, pkt, main>> /\ flag'["enabled"] = flag["enabled"]
        BY <1>9, <1>f DEF EnableEnds, Signal
    <2> QED
        BY <1>1, <2>1
<1>10. CASE LoopHead \/ GetLatest \/ Snapshot \/ StepSide \/ GateHead \/ LoopRefresh \/ ReadMode
               \/ ReturnFromMain \/ \E m \in Moves : TakeMove(m) \/ MoveTick(m)
    <2>1. /\ UNCHANGED <<late, pkt, flag>>
          /\ main.phase \notin {"send", "sleep"}
        BY <1>10 DEF LoopHead, GetLatest, Snapshot, StepSide, GateHead, LoopRefresh, ReadMode,
            ReturnFromMain, TakeMove, MoveTick, Moves
    <2> QED
        BY <1>2, <2>1
<1>11. CASE LoopEvaluates \/ LinkChanges \/ EnableStarts \/ EnableEvaluates
               \/ (\E a \in Arms : Feedback(a) \/ WindowMoves(a))
               \/ (\E cmd \in Operator : ServerAccepts(cmd)) \/ UNCHANGED vars
    <2>1. UNCHANGED <<late, pkt, flag, main>>
        BY <1>11 DEF LoopEvaluates, LinkChanges, EnableStarts, EnableEvaluates,
            Feedback, WindowMoves, ServerAccepts, vars
    <2> QED
        BY <1>1, <2>1
<1> QED
    BY <1>3, <1>4, <1>5, <1>6, <1>7, <1>8, <1>9, <1>10, <1>11
    DEF Next, Loop, Server, Terminated

----------------------------------------------------------------------------
(* The gate.                                                               *)

\* Only the two steps in which a cycle of time passes raise a count; every
\* other step keeps it or clears it.
LEMMA CountsDoNotGrow ==
    ASSUME TypeOK, [Next]_vars, ~Sleep, ~\E m \in Moves : MoveTick(m)
    PROVE  \A a \in Arms :
               /\ bad'[a].pkt = 0 \/ bad'[a].pkt = bad[a].pkt
               /\ bad'[a].stats = 0 \/ bad'[a].stats = bad[a].stats
<1>1. bad \in BadType
    BY DEF TypeOK, BadType
<1>2. Recovered \/ UNCHANGED bad
    BY DEF Next, Loop, Server, LoopHead, TakeMove, GetLatest, Snapshot,
        StepSide, GateHead, LoopRefresh, LoopEvaluates, Drop, ReadMode, FillPacket, SendPacket, ReturnFromMain,
        Feedback, WindowMoves, LinkChanges, ServerAccepts, ServerClears, ServerSets,
        EnableStarts, EnableEvaluates, EnableEnds, Signal, Terminated, vars
<1> QED
    BY <1>1, <1>2, RecoveredFacts

\* What is counted fails under a standing request.
LEMMA FailStep ==
    ASSUME TypeOK, FailInv, [Next]_vars
    PROVE  FailInv'
<1>b. bad \in BadType /\ fb \in FbType /\ nextGate \in 0 .. GatePeriod /\ nextLink \in 0 .. LinkPeriod
    BY DEF TypeOK, BadType, FbType
<1>f. flag \in [{"enabled", "requested", "running"} -> BOOLEAN]
    BY DEF TypeOK
<1>1. CASE Recovered
    BY <1>1, <1>b, RecoveredFacts DEF FailInv
<1>2. CASE Elapse /\ UNCHANGED flag
    BY <1>2, <1>b, ElapseFacts DEF FailInv
<1>3. CASE UNCHANGED <<bad, fb>> /\ (flag["requested"] => flag'["requested"])
    BY <1>3 DEF FailInv, PacketOk, StatsOk
<1>4. CASE ServerSets \/ EnableEnds \/ Signal
    <2>1. UNCHANGED <<bad, fb>> /\ (flag["requested"] => flag'["requested"])
        BY <1>4, <1>f DEF ServerSets, EnableEnds, Signal
    <2> QED
        BY <1>3, <2>1
<1>5. ASSUME Next, ~ServerSets, ~EnableEnds, ~Signal
      PROVE  Recovered \/ (Elapse /\ UNCHANGED flag) \/ UNCHANGED <<bad, fb, flag>>
    BY <1>5 DEF Next, Loop, Server, LoopHead, TakeMove, MoveTick, GetLatest, Snapshot,
        StepSide, GateHead, LoopRefresh, LoopEvaluates, Drop, ReadMode, FillPacket, SendPacket, Sleep,
        ReturnFromMain, Feedback, WindowMoves, LinkChanges, ServerAccepts, ServerClears,
        EnableStarts, EnableEvaluates, Terminated, vars
<1> QED
    BY <1>1, <1>2, <1>3, <1>4, <1>5 DEF vars

\* An evaluation turns negative at the read of a condition that is counted,
\* and stays so.
LEMMA EvaluationStep ==
    ASSUME TypeOK, FailInv, EvaluationInv, [Next]_vars
    PROVE  EvaluationInv'
<1>b. \A a \in Arms : bad[a].pkt \in Nat /\ bad[a].stats \in Nat
    BY Constants DEF TypeOK
<1>n. NArms \in Nat /\ NArms > 0 /\ \A a \in Arms : a \in Nat /\ a >= 1 /\ a <= NArms
    BY Constants DEF Arms
<1>g. gate.read \in Nat /\ gate.read <= 2 * NArms + 1
    BY <1>n DEF TypeOK, Evaluation, LastRead
<1>1. CASE LoopEvaluates
    <2>1. /\ main' = main /\ bad' = bad /\ main.phase = "evaluate"
          /\ gate' = Evaluate(gate) /\ gate.read # 2 * NArms + 1
        BY <1>1 DEF LoopEvaluates, At, Evaluated, LastRead
    <2>2. CASE ~FeedbackEnabled
        BY <2>1, <2>2 DEF EvaluationInv, Evaluate, At
    <2>3. CASE FeedbackEnabled
        <3>1. /\ gate'.read = gate.read + 1
              /\ gate'.ok <=> Reads(gate) /\ (gate.read > 0 => gate.ok)
            BY <2>1, <2>3 DEF Evaluate
        <3>2. ASSUME NEW a \in Arms, gate'.read > a, bad[a].pkt > 0
              PROVE  ~gate'.ok
            <4>1. CASE gate.read = a
                <5>1. Reads(gate) = PacketOk(a)
                    BY <1>n, <4>1 DEF Reads
                <5> QED
                    BY <3>1, <3>2, <5>1 DEF FailInv
            <4>2. CASE gate.read # a
                <5>1. gate.read > a /\ gate.read > 0
                    BY <1>n, <1>g, <3>1, <3>2, <4>2
                <5> QED
                    BY <3>1, <3>2, <5>1 DEF EvaluationInv
            <4> QED
                BY <4>1, <4>2
        <3>3. ASSUME NEW a \in Arms, gate'.read > NArms + a, bad[a].stats > 0
              PROVE  ~gate'.ok
            <4>1. CASE gate.read = NArms + a
                <5>1. /\ gate.read # 0 /\ gate.read \notin Arms
                      /\ gate.read - NArms = a
                    BY <1>n, <4>1 DEF Arms
                <5>2. Reads(gate) = StatsOk(a)
                    BY <5>1 DEF Reads
                <5> QED
                    BY <3>1, <3>3, <5>2 DEF FailInv
            <4>2. CASE gate.read # NArms + a
                <5>1. gate.read > NArms + a /\ gate.read > 0
                    BY <1>n, <1>g, <3>1, <3>3, <4>2
                <5> QED
                    BY <3>1, <3>3, <5>1 DEF EvaluationInv
            <4> QED
                BY <4>1, <4>2
        <3> QED
            BY <2>1, <3>2, <3>3 DEF EvaluationInv, At
    <2> QED
        BY <2>2, <2>3
<1>2. CASE gate' = NewEvaluation
    <2>1. \A a \in Arms : ~(gate'.read > a) /\ ~(gate'.read > NArms + a)
        BY <1>2, <1>n DEF NewEvaluation
    <2> QED
        BY <1>2, <2>1 DEF EvaluationInv
<1>3. CASE ~At("evaluate") /\ UNCHANGED gate
    BY <1>2, <1>3 DEF EvaluationInv
<1>4. CASE At("evaluate") /\ UNCHANGED <<gate, main>>
    <2>1. ~Sleep /\ ~\E m \in Moves : MoveTick(m)
        BY <1>4 DEF Sleep, MoveTick, At, Moves
    <2>2. \A a \in Arms :
              /\ bad'[a].pkt = 0 \/ bad'[a].pkt = bad[a].pkt
              /\ bad'[a].stats = 0 \/ bad'[a].stats = bad[a].stats
        BY <2>1, CountsDoNotGrow
    <2> QED
        BY <1>4, <1>b, <2>2 DEF EvaluationInv, At
<1>5. ASSUME Next, ~LoopEvaluates
      PROVE  \/ gate' = NewEvaluation
             \/ UNCHANGED gate /\ (~At("evaluate") \/ UNCHANGED main)
    BY <1>5 DEF Next, Loop, Server, LoopHead, TakeMove, MoveTick, GetLatest, Snapshot,
        StepSide, GateHead, LoopRefresh, Drop, ReadMode, FillPacket, SendPacket, Sleep, ReturnFromMain, Feedback,
        WindowMoves, LinkChanges, ServerAccepts, ServerClears, ServerSets, EnableStarts,
        EnableEvaluates, EnableEnds, Signal, Terminated, vars, At, Moves
<1> QED
    BY <1>1, <1>2, <1>3, <1>4, <1>5 DEF vars

\* A count that is kept or cleared stays within the budget, wherever the
\* loop goes on to.
LEMMA CountCovered ==
    ASSUME TypeOK, FailInv, EvaluationInv, [Next]_vars,
           ~Sleep, ~\E m \in Moves : MoveTick(m),
           NEW n \in Nat, NEW k \in Nat, k = 0 \/ k = n,
           n > 0 => flag["requested"],
           Evaluated(gate) /\ gate.ok => n = 0,
           ~flag'["requested"] => k = 0,
           Budget(n, nextGate, main.phase, move)
    PROVE  Budget(k, nextGate', main'.phase, move')
<1>c. /\ GatePeriod \in Nat /\ GatePeriod > 0 /\ MoveTicks \in Nat
      /\ move \in Nat /\ move <= MoveTicks /\ nextGate \in Nat
    BY Constants DEF TypeOK
<1>1. CASE UNCHANGED <<main, move, nextGate>>
    BY <1>1, <1>c DEF Budget
<1>2. CASE LoopHead
    <2>1. /\ main.phase = "head" /\ main'.phase \in {"init_position", "stop"}
          /\ UNCHANGED <<move, nextGate>>
        BY <1>2 DEF LoopHead, At, Continue
    <2> QED
        BY <2>1, <1>c DEF Budget
<1>3. ASSUME NEW m \in Moves, TakeMove(m)
      PROVE  Budget(k, nextGate', main'.phase, move')
    <2>1. CASE pending[m]
        <3>1. /\ main' = main /\ main.phase = m /\ move = 0 /\ move' = MoveTicks
              /\ nextGate' = nextGate
            BY <1>3, <2>1 DEF TakeMove, At
        <3> QED
            BY <1>c, <3>1 DEF Budget, Moves
    <2>2. CASE ~pending[m]
        <3>1. /\ main'.phase = AfterMove(m) /\ main.phase = m /\ move = 0 /\ move' = 0
              /\ nextGate' = nextGate
            BY <1>3, <2>2 DEF TakeMove, At, Continue
        <3> QED
            BY <1>c, <3>1 DEF Budget, Moves, AfterMove
    <2> QED
        BY <2>1, <2>2
<1>4. CASE StepSide
    <2>1. /\ main.phase = "step" /\ main'.phase \in {"step", "gate"}
          /\ UNCHANGED <<move, nextGate>>
        BY <1>4 DEF StepSide, At, NextArm, TypeOK
    <2> QED
        BY <2>1, <1>c DEF Budget
<1>5. CASE GateHead
    <2>1. /\ main.phase = "gate" /\ UNCHANGED <<move, nextGate, flag>>
          /\ \/ main'.phase \in {"refresh", "evaluate"}
             \/ main'.phase = "mode" /\ (~flag["requested"] \/ nextGate # 0)
        BY <1>5 DEF GateHead, At, Continue
    <2> QED
        BY <2>1, <1>c DEF Budget
<1>6. CASE LoopRefresh
    <2>1. /\ main.phase = "refresh" /\ UNCHANGED <<move, nextGate>>
          /\ main'.phase = "evaluate" \/ (main'.phase = "mode" /\ nextGate # 0)
        BY <1>6 DEF LoopRefresh, At, Continue
    <2> QED
        BY <2>1, <1>c DEF Budget
<1>7. CASE Drop
    <2>1. /\ nextGate' = GatePeriod /\ Evaluated(gate)
          /\ flag' = [flag EXCEPT !["requested"] = @ /\ gate.ok]
        BY <1>7 DEF Drop
    <2>2. flag'["requested"] => gate.ok
        BY <2>1 DEF TypeOK
    <2>3. k = 0
        BY <2>1, <2>2
    <2> QED
        BY <2>1, <2>3, <1>c DEF Budget
<1>8. CASE ReadMode
    <2>1. /\ main.phase = "mode" /\ main'.phase = "fill" /\ UNCHANGED <<move, nextGate>>
        BY <1>8 DEF ReadMode, At, Continue
    <2> QED
        BY <2>1, <1>c DEF Budget
<1>9. CASE FillPacket
    <2>1. /\ main.phase = "fill" /\ main'.phase \in {"fill", "send"}
          /\ UNCHANGED <<move, nextGate>>
        BY <1>9 DEF FillPacket, At, NextArm, TypeOK
    <2> QED
        BY <2>1, <1>c DEF Budget
<1>10. CASE SendPacket
    <2>1. /\ main.phase = "send" /\ main'.phase \in {"send", "sleep"}
          /\ UNCHANGED <<move, nextGate>>
        BY <1>10 DEF SendPacket, At, NextArm, TypeOK
    <2> QED
        BY <2>1, <1>c DEF Budget
<1>11. CASE ReturnFromMain
    <2>1. /\ main.phase = "stop" /\ main'.phase = "done" /\ UNCHANGED <<move, nextGate>>
        BY <1>11 DEF ReturnFromMain, At, Continue
    <2> QED
        BY <2>1, <1>c DEF Budget
<1>12. ASSUME Next, ~Loop
       PROVE  UNCHANGED <<main, move, nextGate>>
    BY <1>12 DEF Next, Server, Feedback, WindowMoves, LinkChanges, ServerAccepts,
        ServerClears, ServerSets, EnableStarts, EnableEvaluates, EnableEnds, Signal,
        Terminated, vars
<1>13. CASE LoopEvaluates \/ GetLatest \/ Snapshot
    BY <1>1, <1>13 DEF LoopEvaluates, GetLatest, Snapshot
<1> QED
    BY <1>1, <1>2, <1>3, <1>4, <1>5, <1>6, <1>7, <1>8, <1>9, <1>10, <1>11, <1>12, <1>13
    DEF Loop, vars

\* A count to which a cycle of time adds one stays within the budget.
LEMMA CycleCovered ==
    ASSUME TypeOK, NEW n \in Nat, NEW k \in Nat, k <= n + 1,
           Sleep \/ \E m \in Moves : MoveTick(m),
           Budget(n, nextGate, main.phase, move)
    PROVE  Budget(k, nextGate', main'.phase, move')
<1>c. /\ GatePeriod \in Nat /\ GatePeriod > 0 /\ MoveTicks \in Nat
      /\ move \in Nat /\ move <= MoveTicks /\ nextGate \in Nat
    BY Constants DEF TypeOK
<1>1. CASE Sleep
    <2>1. /\ main.phase = "sleep" /\ main'.phase = "head"
          /\ nextGate' = IF nextGate = 0 THEN 0 ELSE nextGate - 1
        BY <1>1 DEF Sleep, At, Continue, Elapse
    <2> QED
        BY <1>c, <2>1 DEF Budget
<1>2. ASSUME NEW m \in Moves, MoveTick(m)
      PROVE  Budget(k, nextGate', main'.phase, move')
    <2>1. /\ main.phase = m /\ move > 0 /\ move' = move - 1
          /\ nextGate' = IF nextGate = 0 THEN 0 ELSE nextGate - 1
          /\ main'.phase = IF move = 1 THEN AfterMove(m) ELSE m
        BY <1>2 DEF MoveTick, At, Continue, Elapse
    <2>2. CASE m = "init_position"
        BY <1>c, <2>1, <2>2 DEF Budget, AfterMove
    <2>3. CASE m = "goto_pose"
        BY <1>c, <2>1, <2>3 DEF Budget, AfterMove
    <2> QED
        BY <2>2, <2>3 DEF Moves
<1> QED
    BY <1>1, <1>2

\* Every step keeps every count within its budget.
LEMMA BudgetStep ==
    ASSUME TypeOK, FailInv, EvaluationInv, BudgetInv, [Next]_vars
    PROVE  BudgetInv'
<1>b. bad \in BadType /\ fb \in FbType /\ nextGate \in 0 .. GatePeriod /\ nextLink \in 0 .. LinkPeriod
    BY DEF TypeOK, BadType, FbType
<1>t. TypeOK' /\ FailInv'
    BY TypeStep, FailStep
<1> SUFFICES ASSUME NEW a \in Arms
             PROVE  /\ Budget(bad'[a].pkt, nextGate', main'.phase, move')
                    /\ Budget(bad'[a].stats, nextGate', main'.phase, move')
    BY DEF BudgetInv
<1>n. /\ bad[a].pkt \in Nat /\ bad[a].stats \in Nat
      /\ bad'[a].pkt \in Nat /\ bad'[a].stats \in Nat
    BY <1>t, Constants DEF TypeOK
<1>o. /\ Budget(bad[a].pkt, nextGate, main.phase, move)
      /\ Budget(bad[a].stats, nextGate, main.phase, move)
    BY DEF BudgetInv
<1>1. CASE Sleep \/ \E m \in Moves : MoveTick(m)
    <2>1. Elapse
        BY <1>1 DEF Sleep, MoveTick
    <2>2. bad'[a].pkt <= bad[a].pkt + 1 /\ bad'[a].stats <= bad[a].stats + 1
        BY <1>b, <2>1, ElapseFacts
    <2> QED
        BY <1>1, <1>n, <1>o, <2>2, CycleCovered
<1>2. CASE ~Sleep /\ ~\E m \in Moves : MoveTick(m)
    <2>1. /\ bad'[a].pkt = 0 \/ bad'[a].pkt = bad[a].pkt
          /\ bad'[a].stats = 0 \/ bad'[a].stats = bad[a].stats
        BY <1>2, CountsDoNotGrow
    <2>2. /\ bad[a].pkt > 0 => flag["requested"]
          /\ bad[a].stats > 0 => flag["requested"]
        BY DEF FailInv
    <2>3. /\ ~flag'["requested"] => bad'[a].pkt = 0
          /\ ~flag'["requested"] => bad'[a].stats = 0
        BY <1>t, <1>n DEF FailInv
    <2>4. Evaluated(gate) => gate.read > a /\ gate.read > NArms + a
        BY Constants DEF Evaluated, LastRead, Arms
    <2>5. /\ Evaluated(gate) /\ gate.ok => bad[a].pkt = 0
          /\ Evaluated(gate) /\ gate.ok => bad[a].stats = 0
        BY <1>n, <2>4 DEF EvaluationInv
    <2>6. Budget(bad'[a].pkt, nextGate', main'.phase, move')
        BY <1>2, <1>n, <1>o, <2>1, <2>2, <2>3, <2>5, CountCovered
    <2>7. Budget(bad'[a].stats, nextGate', main'.phase, move')
        BY <1>2, <1>n, <1>o, <2>1, <2>2, <2>3, <2>5, CountCovered
    <2> QED
        BY <2>6, <2>7
<1> QED
    BY <1>1, <1>2

----------------------------------------------------------------------------
(* The theorems.                                                           *)

\* The initial states satisfy the invariant.
LEMMA InitInv == Init => IInv
<1> SUFFICES ASSUME Init
             PROVE  IInv
    OBVIOUS
<1>c. /\ NArms \in Nat /\ NArms > 0 /\ BadLimit \in Nat /\ GatePeriod \in Nat
      /\ LinkPeriod \in Nat /\ MoveTicks \in Nat /\ MaxAge \in Nat /\ MaxEvents \in Nat
      /\ FeedbackEnabled \in BOOLEAN
    BY Constants, LeaderAssumption DEF LeaderAssumption
<1>1. flag \in [{"enabled", "requested", "running"} -> BOOLEAN] /\ ~flag["requested"]
    <2>1. PICK enable \in BOOLEAN :
              flag = [enabled |-> enable, requested |-> FALSE, running |-> TRUE]
        BY DEF Init
    <2>2. DOMAIN flag = {"enabled", "requested", "running"}
        BY <2>1
    <2>3. /\ flag["enabled"] \in BOOLEAN /\ flag["requested"] = FALSE
          /\ flag["running"] \in BOOLEAN
        BY <2>1
    <2>4. flag = [f \in {"enabled", "requested", "running"} |-> flag[f]]
        BY <2>1, <2>2
    <2> QED
        BY <2>3, <2>4
<1>2. /\ fb \in FbType /\ bad \in BadType
      /\ \A a \in Arms : bad[a].pkt = 0 /\ bad[a].stats = 0
    BY <1>c DEF Init, FbType, BadType
<1>3. eng \in [Arms -> Engager]
    BY EngagerAssumption DEF Init, NewEngager, Engager, EngagerState, EngagerAssumption
<1>4. main \in [phase : Phases, arm : Arms]
    BY <1>c DEF Init, Phases, Arms
<1>5. gate \in Evaluation /\ check \in Evaluation
    BY <1>c DEF Init, NewEvaluation, Evaluation, LastRead
<1>6. server \in [cmd : Operator \cup {"none"}, at : 1 .. 3]
    BY DEF Init, NoCommand
<1>7. /\ nextLink \in 0 .. LinkPeriod /\ nextGate \in 0 .. GatePeriod
      /\ move \in 0 .. MoveTicks /\ events \in 0 .. MaxEvents
    BY <1>c DEF Init
<1>8. /\ link \in BOOLEAN /\ linkOk \in BOOLEAN /\ mode \in BOOLEAN
      /\ pkt \in [Arms -> BOOLEAN] /\ pending \in [Moves -> BOOLEAN]
      /\ late \in [Arms -> Nat]
    BY DEF Init
<1>s. seen \in [reads : 0 .. 2, live : BOOLEAN, fresh : BOOLEAN]
    BY DEF Init, NotSeen
<1>9. TypeOK
    BY <1>s, <1>1, <1>2, <1>3, <1>4, <1>5, <1>6, <1>7, <1>8 DEF TypeOK, FbType, BadType
<1>10. RequestInv
    BY <1>1 DEF Init, RequestInv, NoCommand
<1>11. LateInv
    BY DEF Init, LateInv
<1>12. FailInv
    BY <1>2 DEF FailInv
<1>13. EvaluationInv
    BY <1>2 DEF Init, EvaluationInv
<1>14. BudgetInv
    BY <1>2, <1>c DEF Init, BudgetInv, Budget
<1> QED
    BY <1>9, <1>10, <1>11, <1>12, <1>13, <1>14 DEF IInv

(***************************************************************************)
(* The types, the request, the late packets, the failing conditions, the   *)
(* evaluation and the budget of the gate are an inductive invariant of the *)
(* leader.                                                                 *)
(***************************************************************************)
THEOREM InductiveInvariant == Spec => []IInv
<1>1. IInv /\ [Next]_vars => IInv'
    BY TypeStep, RequestStep, LateStep, FailStep, EvaluationStep, BudgetStep DEF IInv
<1> QED
    BY <1>1, InitInv, PTL DEF Spec

(***************************************************************************)
(* Between two commands bilateral control is requested only while commands *)
(* are enabled, whatever the loop and the runtime-control thread do.       *)
(***************************************************************************)
THEOREM BilateralNeedsEnableThm == Spec => []BilateralNeedsEnable
<1>1. IInv => BilateralNeedsEnable
    BY DEF IInv, RequestInv, BilateralNeedsEnable, Disabling, NoCommand
<1> QED
    BY <1>1, InductiveInvariant, PTL

(***************************************************************************)
(* After disable has cleared command_enabled an arm gets at most one more  *)
(* enabling packet, for any number of arms.                                *)
(***************************************************************************)
THEOREM DisableLatencyThm == Spec => []DisableLatency
<1>1. IInv => DisableLatency
    BY DEF IInv, LateInv, DisableLatency
<1> QED
    BY <1>1, InductiveInvariant, PTL

(***************************************************************************)
(* No condition on the feedback fails for more than a gate period and the  *)
(* two moves while the request stands: for every period, every length of a *)
(* move, any number of arms and whatever the network does.                 *)
(***************************************************************************)
THEOREM GateDropsInTimeThm == Spec => []GateDropsInTime
<1>1. IInv => GateDropsInTime
    <2> SUFFICES ASSUME IInv, NEW a \in Arms, NEW condition \in {"pkt", "stats"}
                 PROVE  bad[a][condition] <= GatePeriod + 2 * MoveTicks
        BY DEF GateDropsInTime
    <2>1. /\ GatePeriod \in Nat /\ MoveTicks \in Nat /\ nextGate \in Nat
          /\ move \in Nat /\ move <= MoveTicks
          /\ bad[a].pkt \in Nat /\ bad[a].stats \in Nat
        BY Constants DEF IInv, TypeOK
    <2>2. \A n \in Nat : Budget(n, nextGate, main.phase, move) =>
              n <= GatePeriod + 2 * MoveTicks
        BY <2>1 DEF Budget
    <2>3. /\ Budget(bad[a].pkt, nextGate, main.phase, move)
          /\ Budget(bad[a].stats, nextGate, main.phase, move)
        BY DEF IInv, BudgetInv
    <2>4. /\ bad[a].pkt <= GatePeriod + 2 * MoveTicks
          /\ bad[a].stats <= GatePeriod + 2 * MoveTicks
        BY <2>1, <2>2, <2>3
    <2> QED
        BY <2>4
<1> QED
    BY <1>1, InductiveInvariant, PTL
=============================================================================
