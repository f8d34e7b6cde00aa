--------------------------- MODULE BimanualLeader ---------------------------
(***************************************************************************)
(* The leader process (wifi_bimanual_leader): the control loop, the        *)
(* runtime-control thread and the two feedback receiver threads.  The loop *)
(* renders the follower's force through one BilateralEngager per arm while *)
(* bilateral control is requested, polices the request with the link gate, *)
(* and sends one command packet per arm and cycle.                         *)
(*                                                                         *)
(* Time is counted in loop cycles: it passes while the loop sleeps and     *)
(* while it blocks in init_position or goto_pose.  A step is what a thread *)
(* does between two points where another can interfere; the conditions of  *)
(* the gate are therefore read one by one, as evaluate_gate reads them.    *)
(* Joint positions are abstracted to whether the two arms are aligned, the *)
(* window statistics to whether they pass the thresholds.  The mock mode,  *)
(* which drives no arm, is left out.                                       *)
(***************************************************************************)
EXTENDS EngagerUpdate, Sequences

CONSTANTS
    NArms,            \* arm 1 is the right arm, arm 2 the left one
    FeedbackEnabled,  \* BilateralFeedback.Enabled
    RenderEnabled,    \* Bilateral.Enabled
    MaxAge,           \* MaxFeedbackAgeMs, in cycles
    GatePeriod,       \* 100 ms, in cycles
    LinkPeriod,       \* RecheckIntervalS, in cycles
    MoveTicks,        \* duration of a blocking move, in cycles
    Operator,         \* the runtime-control commands that may come
    MaxEvents         \* bound: commands, signals and changes of the link

ASSUME LeaderAssumption ==
    /\ NArms \in Nat \ {0}
    /\ FeedbackEnabled \in BOOLEAN /\ RenderEnabled \in BOOLEAN
    /\ MaxAge \in Nat /\ MaxEvents \in Nat
    /\ GatePeriod \in Nat \ {0}
    /\ LinkPeriod \in Nat \ {0}
    /\ MoveTicks \in Nat \ {0}
    /\ Operator \subseteq {"bilateral_enable", "bilateral_disable", "enable",
                           "disable", "estop", "shutdown", "init_position",
                           "goto_pose"}

VARIABLES
    flag,      \* command_enabled, bilateral_requested, keep_running
    pending,   \* init_position_requested, goto_pose_requested
    fb,        \* fb_buffer_r/_l: latest packet and statistics
    link,      \* is the wired link up? (external)
    linkOk,    \* link_result.ok, the cached outcome of check_link
    nextLink,  \* cycles until next_link_check is due
    nextGate,  \* cycles until next_gate_check is due
    eng,       \* engager_r/_l
    seen,      \* locals of step_side: reads done, is fb live, is it fresh?
    main,      \* where the loop is, and at which arm
    move,      \* cycles left of a blocking move
    mode,      \* local cmd_mode: is the cycle's packet BILATERAL?
    pkt,       \* local pkt_r/_l: the enable byte
    gate,      \* the loop's evaluation of the gate
    server,    \* the command the runtime-control thread executes
    check,     \* that thread's evaluation of the gate
    events,    \* commands, signals and link changes so far
    bad,       \* history: cycles for which a gate condition has failed
    late       \* history: enabling packets sent since disable returned

vars == <<flag, pending, fb, link, linkOk, nextLink, nextGate, eng, seen,
          main, move, mode, pkt, gate, server, check, events, bad, late>>

Arms == 1 .. NArms

Moves == {"init_position", "goto_pose"}

Phases == {"head", "init_position", "goto_pose", "step", "gate", "refresh",
           "evaluate", "mode", "fill", "send", "sleep", "stop", "done"}

\* evaluate_gate reads the cached link, the latest packets, the statistics.
LastRead == 2 * NArms + 1
Evaluation == [read : 0 .. LastRead, ok : BOOLEAN]
NewEvaluation == [read |-> 0, ok |-> FALSE]

NoCommand == [cmd |-> "none", at |-> 1]

NotSeen == [reads |-> 0, live |-> FALSE, fresh |-> FALSE]

BadLimit == GatePeriod + 2 * MoveTicks + 1

TypeOK ==
    /\ flag \in [{"enabled", "requested", "running"} -> BOOLEAN]
    /\ pending \in [Moves -> BOOLEAN]
    /\ fb \in [Arms -> [has : BOOLEAN, age : 0 .. MaxAge + 1, live : BOOLEAN,
                        clear : BOOLEAN, quality : BOOLEAN]]
    /\ link \in BOOLEAN /\ linkOk \in BOOLEAN
    /\ nextLink \in 0 .. LinkPeriod /\ nextGate \in 0 .. GatePeriod
    /\ eng \in [Arms -> Engager]
    /\ seen \in [reads : 0 .. 2, live : BOOLEAN, fresh : BOOLEAN]
    /\ main \in [phase : Phases, arm : Arms]
    /\ move \in 0 .. MoveTicks
    /\ mode \in BOOLEAN
    /\ pkt \in [Arms -> BOOLEAN]
    /\ gate \in Evaluation /\ check \in Evaluation
    /\ server \in [cmd : Operator \cup {"none"}, at : 1 .. 3]
    /\ events \in 0 .. MaxEvents
    /\ bad \in [Arms -> [pkt : 0 .. BadLimit, stats : 0 .. BadLimit]]
    /\ late \in [Arms -> Nat]

Init ==
    /\ \E enable \in BOOLEAN :    \* --enable on the command line
           flag = [enabled |-> enable, requested |-> FALSE, running |-> TRUE]
    /\ pending = [m \in Moves |-> FALSE]
    /\ fb = [a \in Arms |-> [has |-> FALSE, age |-> 0, live |-> FALSE,
                             clear |-> FALSE, quality |-> FALSE]]
    /\ link \in BOOLEAN
    /\ linkOk = (FeedbackEnabled /\ link)
    /\ nextLink = 0 /\ nextGate = 0
    /\ eng = [a \in Arms |-> NewEngager]
    /\ seen = NotSeen
    /\ main = [phase |-> "head", arm |-> 1]
    /\ move = 0
    /\ mode = FALSE
    /\ pkt = [a \in Arms |-> FALSE]
    /\ gate = NewEvaluation /\ check = NewEvaluation
    /\ server = NoCommand
    /\ events = 0
    /\ bad = [a \in Arms |-> [pkt |-> 0, stats |-> 0]]
    /\ late = [a \in Arms |-> 0]

At(phase) == main.phase = phase
Alive == ~At("done")

\* What the gate asks of one arm: of its latest packet (not in ESTOP, the
\* follower's own link is wired), and of the statistics (age, rate, round
\* trip, loss).
PacketOk(a) == fb[a].has /\ fb[a].clear
StatsOk(a) == fb[a].has /\ fb[a].age <= MaxAge /\ fb[a].quality

\* A condition that holds again, or a request that is withdrawn, stops the
\* count of the cycles for which it failed.
Recovered ==
    bad' = [a \in Arms |->
        [pkt |-> IF PacketOk(a)' \/ ~flag'["requested"] THEN 0 ELSE bad[a].pkt,
         stats |-> IF StatsOk(a)' \/ ~flag'["requested"] THEN 0
                   ELSE bad[a].stats]]

----------------------------------------------------------------------------
(* The receiver threads, the link and the clock.                           *)

\* The feedback callback stores a packet.  Whether the statistics pass is
\* up to the network.
Feedback(a) ==
    /\ FeedbackEnabled
    /\ Alive
    /\ \E live, clear, quality \in BOOLEAN :
           fb' = [fb EXCEPT ![a] = [has |-> TRUE, age |-> 0, live |-> live,
                                    clear |-> clear, quality |-> quality]]
    /\ UNCHANGED <<flag, pending, link, linkOk, nextLink, nextGate, eng, seen,
                   main, move, mode, pkt, gate, server, check, events, late>>
    /\ Recovered

\* A sample leaves the window and the statistics change.
WindowMoves(a) ==
    /\ Alive
    /\ fb[a].has
    /\ fb' = [fb EXCEPT ![a].quality = ~@]
    /\ UNCHANGED <<flag, pending, link, linkOk, nextLink, nextGate, eng, seen,
                   main, move, mode, pkt, gate, server, check, events, late>>
    /\ Recovered

\* A cable is pulled or plugged.
LinkChanges ==
    /\ Alive
    /\ events < MaxEvents
    /\ events' = events + 1
    /\ link' = ~link
    /\ UNCHANGED <<flag, pending, fb, linkOk, nextLink, nextGate, eng, seen,
                   main, move, mode, pkt, gate, server, check, bad, late>>

\* One cycle of time.
Elapse ==
    LET left(n) == IF n = 0 THEN 0 ELSE n - 1
        worse(ok, n) == IF ok \/ ~flag["requested"] THEN 0
                        ELSE IF n < BadLimit THEN n + 1 ELSE n
    IN  /\ nextLink' = left(nextLink)
        /\ nextGate' = left(nextGate)
        /\ fb' = [a \in Arms |-> [fb[a] EXCEPT !.age =
                      IF fb[a].has /\ @ <= MaxAge THEN @ + 1 ELSE @]]
        /\ bad' = [a \in Arms |-> [pkt |-> worse(PacketOk(a), bad[a].pkt),
                                   stats |-> worse(StatsOk(a), bad[a].stats)]]

----------------------------------------------------------------------------
(* The gate.                                                               *)

\* refresh_link: query_link_to and check_link under gate_mutex.
RefreshLink == linkOk' = link

\* Mutant: the statistics are not looked at.
Reads_NoStats(e) ==
    LET n == e.read
    IN  CASE n = 0 -> linkOk
          [] n \in Arms -> PacketOk(n)
          [] OTHER -> TRUE

\* The condition that read n of evaluate_gate decides.
Reads(e) ==
    LET n == e.read
    IN  CASE n = 0 -> linkOk
          [] n \in Arms -> PacketOk(n)
          [] OTHER -> StatsOk(n - NArms)

\* One read; without feedback in the configuration the gate refuses at once.
Evaluate(e) ==
    IF ~FeedbackEnabled THEN [read |-> LastRead, ok |-> FALSE]
    ELSE [read |-> e.read + 1, ok |-> Reads(e) /\ (e.read > 0 => e.ok)]

Evaluated(e) == e.read = LastRead

----------------------------------------------------------------------------
(* The control loop.                                                       *)

Continue(phase) == main' = [phase |-> phase, arm |-> 1]

NextArm(phase) ==
    main' = IF main.arm < NArms THEN [main EXCEPT !.arm = @ + 1]
            ELSE [phase |-> phase, arm |-> 1]

\* while (keep_running)
LoopHead ==
    /\ At("head")
    /\ Continue(IF flag["running"] THEN "init_position" ELSE "stop")
    /\ UNCHANGED <<flag, pending, fb, link, linkOk, nextLink, nextGate, eng,
                   seen, move, mode, pkt, gate, server, check, events, bad,
                   late>>

AfterMove(m) == IF m = "init_position" THEN "goto_pose" ELSE "step"

\* A pending move starts, or there is none.
TakeMove(m) ==
    /\ At(m)
    /\ move = 0
    /\ IF pending[m]
       THEN /\ pending' = [pending EXCEPT ![m] = FALSE]
            /\ move' = MoveTicks
            /\ UNCHANGED main
       ELSE /\ Continue(AfterMove(m))
            /\ UNCHANGED <<pending, move>>
    /\ UNCHANGED <<flag, fb, link, linkOk, nextLink, nextGate, eng, seen,
                   mode, pkt, gate, server, check, events, bad, late>>

\* The loop waits for the threads that move the arms.
MoveTick(m) ==
    /\ At(m)
    /\ move > 0
    /\ move' = move - 1
    /\ Elapse
    /\ IF move = 1 THEN Continue(AfterMove(m)) ELSE UNCHANGED main
    /\ UNCHANGED <<flag, pending, link, linkOk, eng, seen, mode, pkt, gate,
                   server, check, events, late>>

\* step_side takes the latest packet ...
GetLatest ==
    /\ At("step")
    /\ seen.reads = 0
    /\ seen' = [reads |-> 1, live |-> fb[main.arm].live,
                fresh |-> fb[main.arm].has]
    /\ UNCHANGED <<flag, pending, fb, link, linkOk, nextLink, nextGate, eng,
                   main, move, mode, pkt, gate, server, check, events, bad,
                   late>>

\* ... and then a snapshot, whose age may be that of a newer packet.
Snapshot ==
    /\ At("step")
    /\ seen.reads = 1
    /\ seen' = [reads |-> 2, live |-> seen.live,
                fresh |-> seen.fresh /\ fb[main.arm].age <= MaxAge]
    /\ UNCHANGED <<flag, pending, fb, link, linkOk, nextLink, nextGate, eng,
                   main, move, mode, pkt, gate, server, check, events, bad,
                   late>>

Want == RenderEnabled /\ flag["requested"] /\ seen.fresh /\ seen.live

\* The engager of the arm, and leader_step with its scale.
StepSide ==
    /\ At("step")
    /\ seen.reads = 2
    /\ \E aligned \in BOOLEAN :
           /\ aligned => seen.fresh
           /\ eng' = [eng EXCEPT ![main.arm] = Update(@, Want, aligned)]
    /\ seen' = NotSeen
    /\ NextArm("gate")
    /\ UNCHANGED <<flag, pending, fb, link, linkOk, nextLink, nextGate, move,
                   mode, pkt, gate, server, check, events, bad, late>>

\* if (bilateral_requested), and the timer of the link check.
GateHead ==
    /\ At("gate")
    /\ Continue(IF ~flag["requested"] THEN "mode"
                ELSE IF nextLink = 0 THEN "refresh"
                ELSE IF nextGate = 0 THEN "evaluate" ELSE "mode")
    /\ UNCHANGED <<flag, pending, fb, link, linkOk, nextLink, nextGate, eng,
                   seen, move, mode, pkt, gate, server, check, events, bad,
                   late>>

\* Mutant: a cycle that checks the link does not evaluate the gate.
LoopRefresh_ElseIf ==
    /\ At("refresh")
    /\ RefreshLink
    /\ nextLink' = LinkPeriod
    /\ Continue("mode")
    /\ UNCHANGED <<flag, pending, fb, link, nextGate, eng, seen, move, mode,
                   pkt, gate, server, check, events, bad, late>>

LoopRefresh ==
    /\ At("refresh")
    /\ RefreshLink
    /\ nextLink' = LinkPeriod
    /\ Continue(IF nextGate = 0 THEN "evaluate" ELSE "mode")
    /\ UNCHANGED <<flag, pending, fb, link, nextGate, eng, seen, move, mode,
                   pkt, gate, server, check, events, bad, late>>

LoopEvaluates ==
    /\ At("evaluate")
    /\ ~Evaluated(gate)
    /\ gate' = Evaluate(gate)
    /\ UNCHANGED <<flag, pending, fb, link, linkOk, nextLink, nextGate, eng,
                   seen, main, move, mode, pkt, server, check, events, bad,
                   late>>

\* A failed evaluation drops the request.
Drop ==
    /\ At("evaluate")
    /\ Evaluated(gate)
    /\ flag' = [flag EXCEPT !["requested"] = @ /\ gate.ok]
    /\ gate' = NewEvaluation
    /\ nextGate' = GatePeriod
    /\ Continue("mode")
    /\ UNCHANGED <<pending, fb, link, linkOk, nextLink, eng, seen, move, mode,
                   pkt, server, check, events, late>>
    /\ Recovered

ReadMode ==
    /\ At("mode")
    /\ mode' = flag["requested"]
    /\ Continue("fill")
    /\ UNCHANGED <<flag, pending, fb, link, linkOk, nextLink, nextGate, eng,
                   seen, move, pkt, gate, server, check, events, bad, late>>

\* Mutant: a standing bilateral request enables the packet as well.
FillPacket_FromRequest ==
    /\ At("fill")
    /\ pkt' = [pkt EXCEPT ![main.arm] = flag["enabled"] \/ flag["requested"]]
    /\ NextArm("send")
    /\ UNCHANGED <<flag, pending, fb, link, linkOk, nextLink, nextGate, eng,
                   seen, move, mode, gate, server, check, events, bad, late>>

\* pkt.enable = command_enabled, read once per arm.
FillPacket ==
    /\ At("fill")
    /\ pkt' = [pkt EXCEPT ![main.arm] = flag["enabled"]]
    /\ NextArm("send")
    /\ UNCHANGED <<flag, pending, fb, link, linkOk, nextLink, nextGate, eng,
                   seen, move, mode, gate, server, check, events, bad, late>>

SendPacket ==
    /\ At("send")
    /\ late' = [late EXCEPT ![main.arm] =
                   IF pkt[main.arm] /\ ~flag["enabled"] THEN @ + 1 ELSE @]
    /\ NextArm("sleep")
    /\ UNCHANGED <<flag, pending, fb, link, linkOk, nextLink, nextGate, eng,
                   seen, move, mode, pkt, gate, server, check, events, bad>>

\* sleep_until; the locals of the cycle go out of scope.
Sleep ==
    /\ At("sleep")
    /\ Elapse
    /\ Continue("head")
    /\ mode' = FALSE
    /\ pkt' = [a \in Arms |-> FALSE]
    /\ UNCHANGED <<flag, pending, link, linkOk, eng, seen, move, gate, server,
                   check, events, late>>

\* The receivers stop and the motors are disabled.  That main then waits for
\* the server thread, perhaps for ever, is in ProcessLifecycle.
ReturnFromMain ==
    /\ At("stop")
    /\ Continue("done")
    /\ UNCHANGED <<flag, pending, fb, link, linkOk, nextLink, nextGate, eng,
                   seen, move, mode, pkt, gate, server, check, events, bad,
                   late>>

Loop ==
    \/ LoopHead
    \/ \E m \in Moves : TakeMove(m) \/ MoveTick(m)
    \/ GetLatest
    \/ Snapshot
    \/ StepSide
    \/ GateHead
    \/ LoopRefresh
    \/ LoopEvaluates
    \/ Drop
    \/ ReadMode
    \/ FillPacket
    \/ SendPacket
    \/ Sleep
    \/ ReturnFromMain

----------------------------------------------------------------------------
(* The runtime-control thread, one command at a time, and the signals.     *)

ServerAccepts(cmd) ==
    /\ Alive
    /\ server = NoCommand
    /\ events < MaxEvents
    /\ events' = events + 1
    /\ server' = [cmd |-> cmd, at |-> 1]
    /\ UNCHANGED <<flag, pending, fb, link, linkOk, nextLink, nextGate, eng,
                   seen, main, move, mode, pkt, gate, check, bad, late>>

\* Mutant: disable leaves the bilateral request alone.
Clears_EnabledOnly(cmd) ==
    CASE cmd = "bilateral_disable" -> <<"requested">>
      [] cmd = "disable"           -> <<"enabled">>
      [] cmd = "estop"             -> <<"enabled", "requested", "running">>
      [] cmd = "shutdown"          -> <<"enabled", "running">>
      [] OTHER                     -> <<>>

\* The flags a handler clears, in its order.
Clears(cmd) ==
    CASE cmd = "bilateral_disable" -> <<"requested">>
      [] cmd = "disable"           -> <<"enabled", "requested">>
      [] cmd = "estop"             -> <<"enabled", "requested", "running">>
      [] cmd = "shutdown"          -> <<"enabled", "running">>
      [] OTHER                     -> <<>>

ServerClears ==
    /\ Alive
    /\ server.at \in DOMAIN Clears(server.cmd)
    /\ flag' = [flag EXCEPT ![Clears(server.cmd)[server.at]] = FALSE]
    /\ server' = IF server.at = Len(Clears(server.cmd)) THEN NoCommand
                 ELSE [server EXCEPT !.at = @ + 1]
    /\ UNCHANGED <<pending, fb, link, linkOk, nextLink, nextGate, eng, seen,
                   main, move, mode, pkt, gate, check, events, late>>
    /\ Recovered

\* The handlers that set one flag.
ServerSets ==
    /\ Alive
    /\ server.cmd \in Moves \cup {"enable"}
    /\ server' = NoCommand
    /\ flag' = IF server.cmd = "enable" THEN [flag EXCEPT !["enabled"] = TRUE]
               ELSE flag
    /\ late' = IF server.cmd = "enable" THEN [a \in Arms |-> 0] ELSE late
    /\ pending' = IF server.cmd \in Moves
                  THEN [pending EXCEPT ![server.cmd] = TRUE] ELSE pending
    /\ UNCHANGED <<fb, link, linkOk, nextLink, nextGate, eng, seen, main,
                   move, mode, pkt, gate, check, events, bad>>

Enabling(step) == Alive /\ server.cmd = "bilateral_enable" /\ server.at = step

\* bilateral_enable is refused while commands are disabled; otherwise it
\* refreshes the cached link.
EnableStarts ==
    \/ /\ Enabling(1)
       /\ server' = IF flag["enabled"] THEN [server EXCEPT !.at = 2]
                    ELSE NoCommand
       /\ UNCHANGED <<flag, pending, fb, link, linkOk, nextLink, nextGate,
                      eng, seen, main, move, mode, pkt, gate, check, events,
                      bad, late>>
    \/ /\ Enabling(2)
       /\ RefreshLink
       /\ server' = [server EXCEPT !.at = 3]
       /\ UNCHANGED <<flag, pending, fb, link, nextLink, nextGate, eng, seen,
                      main, move, mode, pkt, gate, check, events, bad, late>>

EnableEvaluates ==
    /\ Enabling(3)
    /\ ~Evaluated(check)
    /\ check' = Evaluate(check)
    /\ UNCHANGED <<flag, pending, fb, link, linkOk, nextLink, nextGate, eng,
                   seen, main, move, mode, pkt, gate, server, events, bad,
                   late>>

\* The request is granted on the evaluation, which may be out of date.
EnableEnds ==
    /\ Enabling(3)
    /\ Evaluated(check)
    /\ flag' = [flag EXCEPT !["requested"] = @ \/ check.ok]
    /\ check' = NewEvaluation
    /\ server' = NoCommand
    /\ UNCHANGED <<pending, fb, link, linkOk, nextLink, nextGate, eng, seen,
                   main, move, mode, pkt, gate, events, bad, late>>

Server == \/ ServerClears
          \/ ServerSets
          \/ EnableStarts
          \/ EnableEvaluates
          \/ EnableEnds

\* SIGINT clears keep_running and nothing else.
Signal ==
    /\ Alive
    /\ events < MaxEvents
    /\ events' = events + 1
    /\ flag' = [flag EXCEPT !["running"] = FALSE]
    /\ UNCHANGED <<pending, fb, link, linkOk, nextLink, nextGate, eng, seen,
                   main, move, mode, pkt, gate, server, check, bad, late>>

Terminated == At("done") /\ UNCHANGED vars

Next ==
    \/ Loop
    \/ \E a \in Arms : Feedback(a) \/ WindowMoves(a)
    \/ LinkChanges
    \/ \E cmd \in Operator : ServerAccepts(cmd)
    \/ Server
    \/ Signal
    \/ Terminated

Spec == Init /\ [][Next]_vars

----------------------------------------------------------------------------
(* Properties.                                                             *)

(***************************************************************************)
(* Between two commands, bilateral control is requested only while         *)
(* commands are enabled: no order of enable, bilateral_enable, disable and *)
(* drops by the loop leaves a request behind (lines 534-606).  shutdown is *)
(* the exception: its handler clears keep_running and leaves the request.  *)
(***************************************************************************)
BilateralNeedsEnable ==
    server = NoCommand /\ flag["running"] /\ flag["requested"] => flag["enabled"]

(***************************************************************************)
(* The documentation promises a return to unilateral within 100 ms once a  *)
(* gate condition breaks.  The loop keeps that promise but for the moves   *)
(* it waits for: no condition on the feedback fails for more than          *)
(* GatePeriod cycles plus one init_position and one goto_pose while the    *)
(* request stands, even when the request was granted on an evaluation that *)
(* was out of date (lines 614-645 and 732-747).                            *)
(***************************************************************************)
GateDropsInTime ==
    \A a \in Arms : \A condition \in {"pkt", "stats"} :
        bad[a][condition] <= GatePeriod + 2 * MoveTicks

\* After disable has cleared the flag an arm gets at most one more packet
\* with the enable byte set: the one that was already filled in.
DisableLatency == \A a \in Arms : late[a] <= 1

----------------------------------------------------------------------------
(* The inductive invariant.                                                *)

\* A handler that has cleared command_enabled and has more to clear.
Disabling == server.cmd \in {"disable", "estop", "shutdown"} /\ server.at > 1

\* bilateral_enable has found the commands enabled, and only this thread
\* clears that flag; a request outlives it for the rest of a handler only.
RequestInv ==
    /\ server.cmd = "bilateral_enable" /\ server.at > 1 => flag["enabled"]
    /\ flag["running"] /\ flag["requested"] => flag["enabled"] \/ Disabling

\* An enabling packet that is not sent yet.
Unsent(a) == pkt[a] /\ ~At("sleep") /\ ~(At("send") /\ main.arm > a)

LateInv ==
    \A a \in Arms : /\ late[a] <= 1
                    /\ flag["enabled"] \/ Unsent(a) => late[a] = 0

\* What is counted fails under a standing request.
FailInv ==
    \A a \in Arms :
        /\ bad[a].pkt > 0 => ~PacketOk(a) /\ flag["requested"]
        /\ bad[a].stats > 0 => ~StatsOk(a) /\ flag["requested"]

\* An evaluation is negative once it has read a condition that is counted.
EvaluationInv ==
    /\ ~At("evaluate") => gate = NewEvaluation
    /\ \A a \in Arms :
           /\ gate.read > a /\ bad[a].pkt > 0 => ~gate.ok
           /\ gate.read > NArms + a /\ bad[a].stats > 0 => ~gate.ok

(***************************************************************************)
(* What a count n can have grown to: while the next evaluation is not due, *)
(* the cycles since the last one; once it is due, those and the moves of   *)
(* this iteration, of which one has "left" cycles to go.  A request that   *)
(* came too late for the gate in this iteration has no count yet.          *)
(***************************************************************************)
Budget(n, due, phase, left) ==
    LET done == IF left = 0 THEN 0 ELSE MoveTicks - left
        moved == IF phase = "init_position" THEN done
                 ELSE IF phase = "goto_pose" THEN MoveTicks + done
                 ELSE IF phase \in {"step", "gate", "refresh", "evaluate"}
                      THEN 2 * MoveTicks
                 ELSE 0
    IN  IF due > 0 THEN n + due <= GatePeriod
        ELSE /\ n <= GatePeriod + moved
             /\ phase \in {"mode", "fill", "send", "sleep"} => n = 0

BudgetInv ==
    \A a \in Arms : /\ Budget(bad[a].pkt, nextGate, main.phase, move)
                    /\ Budget(bad[a].stats, nextGate, main.phase, move)

IInv ==
    /\ TypeOK
    /\ RequestInv
    /\ LateInv
    /\ FailInv
    /\ EvaluationInv
    /\ BudgetInv
=============================================================================
