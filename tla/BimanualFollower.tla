-------------------------- MODULE BimanualFollower --------------------------
(***************************************************************************)
(* The follower process (wifi_bimanual_follower): two UDP receiver         *)
(* threads, the 500 Hz main loop, the runtime-control thread, the signal   *)
(* handler and the detached threads that carry out recover_estop,          *)
(* init_position and goto_pose.  They share the two state buffers, the two *)
(* safety managers, a few atomic flags and the motors.                     *)
(*                                                                         *)
(* A step is what a thread does between two points where another thread    *)
(* can interfere: one method of a mutex-protected object, one access to an *)
(* atomic flag, one batch of motor commands to one arm.  Joint positions   *)
(* are abstracted away; what is kept of a motor command is that it was     *)
(* sent, and to which arm.  The model starts where the main loop starts,   *)
(* after hardware initialisation has enabled the motors.                   *)
(***************************************************************************)
EXTENDS SafetyManager

CONSTANTS
    NArms,         \* arm 1 is the right arm, arm 2 the left one
    Packets,       \* the packets a sender may send
    MaxEvents      \* bound: runtime-control commands plus signals in a behaviour

ASSUME FollowerAssumption ==
    /\ NArms \in Nat \ {0}
    /\ Packets \subseteq Packet
    /\ MaxEvents \in Nat

VARIABLES
    buf,        \* state_buffer_r/_l: has_data_, latest_packet_, its age
    safety,     \* safety_mgr_r/_l
    motors,     \* are the motors of an arm enabled?
    requested,  \* recover_estop_, init_position_, goto_pose_requested
    busy,       \* recover_estop_, init_position_, goto_pose_in_progress
    movers,     \* how many detached threads of a kind are at each stage
    running,    \* keep_running
    main,       \* where the main thread is, and at which arm
    target,     \* locals has_r/_l, target_r/_l, gap_r/_l of the main loop
    st,         \* locals state_r_st/state_l_st of the main loop
    go,         \* outcome of the in-progress test of this cycle
    server,     \* the command the runtime-control thread is executing
    signal,     \* progress of the signal handler; 0 before the signal
    events,     \* runtime-control commands and signals so far
    late,       \* history: main-loop commands sent to a stopped arm
    overlapped  \* history: a move began while one of its kind was live

vars == <<buf, safety, motors, requested, busy, movers, running, main,
          target, st, go, server, signal, events, late, overlapped>>

loopVars == <<main, target, st, go>>

Arms == 1 .. NArms

MoveKinds == {"recover", "init", "goto"}

\* A mover drives the arms (0), resets manager s (s \in Arms), and last
\* clears its in-progress flag (NArms + 1).
Stages == 0 .. NArms + 1

Phases == {"head", "recover", "init", "goto", "get", "update", "state",
           "guard", "motor", "report", "stop", "disable", "freed", "done"}

\* States in which the main loop tracks the received target.
TrackStates == {"ACTIVE", "READY", "WARNING_TIMEOUT"}

\* States in which the main loop sends any command at all.
CommandStates == TrackStates \cup {"HOLD"}

StopStates == {"ESTOP", "FAULT", "DISABLED"}

PerArmCommands == {"estop", "reset_safety"}

Commands == PerArmCommands \cup MoveKinds \cup {"shutdown"}

NoTarget == [has |-> FALSE, pkt |-> NoPacket, gap |-> 0]

TypeOK ==
    /\ buf \in [Arms -> [has : BOOLEAN, pkt : Packet, age : Age]]
    /\ safety \in [Arms -> Manager]
    /\ motors \in [Arms -> BOOLEAN]
    /\ requested \in [MoveKinds -> BOOLEAN]
    /\ busy \in [MoveKinds -> BOOLEAN]
    /\ movers \in [MoveKinds -> [Stages -> Nat]]
    /\ running \in BOOLEAN
    /\ main \in [phase : Phases, arm : Arms]
    /\ target \in [Arms -> [has : BOOLEAN, pkt : Packet, gap : Age]]
    /\ st \in [Arms -> SafetyState]
    /\ go \in BOOLEAN
    /\ server \in [cmd : PerArmCommands \cup {"none"}, arm : Arms]
    /\ signal \in 0 .. NArms + 2
    /\ events \in 0 .. MaxEvents
    /\ late \in [Arms -> Nat]
    /\ overlapped \in BOOLEAN

Init ==
    /\ buf = [a \in Arms |-> [has |-> FALSE, pkt |-> NoPacket, age |-> 0]]
    /\ safety = [a \in Arms |-> NewManager]
    /\ motors = [a \in Arms |-> TRUE]
    /\ requested = [k \in MoveKinds |-> FALSE]
    /\ busy = [k \in MoveKinds |-> FALSE]
    /\ movers = [k \in MoveKinds |-> [s \in Stages |-> 0]]
    /\ running = TRUE
    /\ main = [phase |-> "head", arm |-> 1]
    /\ target = [a \in Arms |-> NoTarget]
    /\ st = [a \in Arms |-> RestState]
    /\ go = FALSE
    /\ server = [cmd |-> "none", arm |-> 1]
    /\ signal = 0
    /\ events = 0
    /\ late = [a \in Arms |-> 0]
    /\ overlapped = FALSE

Alive == main.phase # "done"

----------------------------------------------------------------------------
(* Methods of the shared safety managers, as called by any thread.         *)

Trigger(a) == /\ safety' = [safety EXCEPT ![a] = TriggerEstop(@)]
              /\ UNCHANGED late

Reset(a) == /\ safety' = [safety EXCEPT ![a] = ResetSafety(@)]
            /\ late' = [late EXCEPT ![a] = 0]

----------------------------------------------------------------------------
(* The receiver threads and the clock.                                     *)

\* packet_callback_r/_l: TeleopStateBuffer::update keeps every packet that
\* passed validation, whatever its sequence number, as the latest one.
Receive(a) ==
    /\ main.phase \notin {"disable", "freed", "done"}
    /\ \E pkt \in Packets :
           buf' = [buf EXCEPT ![a] = [has |-> TRUE, pkt |-> pkt, age |-> 0]]
    /\ UNCHANGED <<safety, motors, requested, busy, movers, running, main,
                   target, st, go, server, signal, events, late, overlapped>>

\* Time passes for every buffered packet.
Tick ==
    /\ Alive
    /\ \E a \in Arms : buf[a].has /\ buf[a].age < DisableAge
    /\ buf' = [a \in Arms |->
                  IF buf[a].has /\ buf[a].age < DisableAge
                  THEN [buf[a] EXCEPT !.age = @ + 1] ELSE buf[a]]
    /\ UNCHANGED <<safety, motors, requested, busy, movers, running, main,
                   target, st, go, server, signal, events, late, overlapped>>

----------------------------------------------------------------------------
(* The main loop.                                                          *)

At(phase) == main.phase = phase

Continue(phase) == main' = [phase |-> phase, arm |-> 1]

\* One more arm of the current phase, or on to the next phase.
NextArm(phase) ==
    main' = IF main.arm < NArms THEN [main EXCEPT !.arm = @ + 1]
            ELSE [phase |-> phase, arm |-> 1]

\* while (keep_running)
LoopHead ==
    /\ At("head")
    /\ Continue(IF running THEN "recover" ELSE "stop")
    /\ UNCHANGED <<buf, safety, motors, requested, busy, movers, running,
                   target, st, go, server, signal, events, late, overlapped>>

LiveMovers(k) == \E s \in Stages : movers[k][s] > 0

\* The phase of the main loop that follows the test for a request.
AfterRequest(k) ==
    CASE k = "recover" -> "init"
      [] k = "init"    -> "goto"
      [] k = "goto"    -> "get"

\* Mutant: the in-progress flag of a move is never raised.
StartMove_NoBusy(k) ==
    /\ requested[k]
    /\ requested' = [requested EXCEPT ![k] = FALSE]
    /\ movers' = [movers EXCEPT ![k][0] = @ + 1]
    /\ overlapped' = (overlapped \/ LiveMovers(k))
    /\ motors' = IF k = "recover" THEN [a \in Arms |-> TRUE] ELSE motors
    /\ UNCHANGED busy

(***************************************************************************)
(* Take a pending request: raise the in-progress flag and detach a thread. *)
(* recover_estop also re-enables the motors, on the main thread.           *)
(***************************************************************************)
StartMove(k) ==
    /\ requested[k]
    /\ requested' = [requested EXCEPT ![k] = FALSE]
    /\ busy' = [busy EXCEPT ![k] = TRUE]
    /\ movers' = [movers EXCEPT ![k][0] = @ + 1]
    /\ overlapped' = (overlapped \/ LiveMovers(k))
    /\ motors' = IF k = "recover" THEN [a \in Arms |-> TRUE] ELSE motors

NoMove(k) ==
    /\ ~requested[k]
    /\ UNCHANGED <<requested, busy, movers, overlapped, motors>>

TakeRequest(k) ==
    /\ At(k)
    /\ StartMove(k) \/ NoMove(k)
    /\ Continue(AfterRequest(k))
    /\ UNCHANGED <<buf, safety, running, target, st, go, server, signal,
                   events, late>>

\* TeleopStateBuffer::get_latest
GetLatest ==
    /\ At("get")
    /\ LET a == main.arm
       IN  target' = [target EXCEPT ![a] =
               IF buf[a].has
               THEN [has |-> TRUE, pkt |-> buf[a].pkt, gap |-> 0]
               ELSE NoTarget]
    /\ NextArm("update")
    /\ UNCHANGED <<buf, safety, motors, requested, busy, movers, running, st,
                   go, server, signal, events, late, overlapped>>

\* Age of the newest packet (which may be newer than the target taken
\* before), then SafetyManager::update.
UpdateSafety ==
    /\ At("update")
    /\ LET a == main.arm
       IN  IF target[a].has
           THEN /\ target' = [target EXCEPT ![a].gap = buf[a].age]
                /\ safety' = [safety EXCEPT ![a] =
                       SafetyUpdate(@, target[a].pkt, buf[a].age)]
           ELSE UNCHANGED <<target, safety>>
    /\ NextArm("state")
    /\ UNCHANGED <<buf, motors, requested, busy, movers, running, st, go,
                   server, signal, events, late, overlapped>>

\* SafetyManager::get_state
ReadState ==
    /\ At("state")
    /\ st' = [st EXCEPT ![main.arm] = safety[main.arm].state]
    /\ NextArm("guard")
    /\ UNCHANGED <<buf, safety, motors, requested, busy, movers, running,
                   target, go, server, signal, events, late, overlapped>>

\* Mutant: the test forgets the recovery thread.
CheckBusy_InitOnly ==
    /\ At("guard")
    /\ go' = ~busy["init"]
    /\ Continue("motor")
    /\ UNCHANGED <<buf, safety, motors, requested, busy, movers, running,
                   target, st, server, signal, events, late, overlapped>>

\* !init_position_in_progress && !recover_estop_in_progress.  The goto_pose
\* flag is not part of the test.
CheckBusy ==
    /\ At("guard")
    /\ go' = (~busy["init"] /\ ~busy["recover"])
    /\ Continue("motor")
    /\ UNCHANGED <<buf, safety, motors, requested, busy, movers, running,
                   target, st, server, signal, events, late, overlapped>>

\* Mutant: a stopped arm is left as it is.
MotorStep_NoDisable ==
    /\ At("motor")
    /\ LET a == main.arm
       IN  late' = [late EXCEPT ![a] =
               IF go /\ st[a] \in CommandStates /\ safety[a].estop
               THEN @ + 1 ELSE @]
    /\ NextArm("report")
    /\ UNCHANGED <<buf, safety, motors, requested, busy, movers, running,
                   target, st, go, server, signal, events, overlapped>>

(***************************************************************************)
(* One arm's share of the motor section: a command in the tracking states  *)
(* and in HOLD, disable_all in the stop states, nothing while waiting.     *)
(***************************************************************************)
MotorStep ==
    /\ At("motor")
    /\ LET a == main.arm
       IN  /\ motors' = [motors EXCEPT ![a] = @ /\ ~(go /\ st[a] \in StopStates)]
           /\ late' = [late EXCEPT ![a] =
                  IF go /\ st[a] \in CommandStates /\ safety[a].estop
                  THEN @ + 1 ELSE @]
    /\ NextArm("report")
    /\ UNCHANGED <<buf, safety, requested, busy, movers, running, target, st,
                   go, server, signal, events, overlapped>>

\* Send feedback and telemetry; the locals of the cycle go out of scope.
Report ==
    /\ At("report")
    /\ target' = [a \in Arms |-> NoTarget]
    /\ st' = [a \in Arms |-> RestState]
    /\ go' = FALSE
    /\ Continue("head")
    /\ UNCHANGED <<buf, safety, motors, requested, busy, movers, running,
                   server, signal, events, late, overlapped>>

\* receiver_r.stop(), receiver_l.stop(): both threads are joined.
StopReceivers ==
    /\ At("stop")
    /\ Continue("disable")
    /\ UNCHANGED <<buf, safety, motors, requested, busy, movers, running,
                   target, st, go, server, signal, events, late, overlapped>>

\* Mutant: the process ends without disabling the motors.
DisableAll_Skipped ==
    /\ At("disable")
    /\ NextArm("freed")
    /\ UNCHANGED <<buf, safety, motors, requested, busy, movers, running,
                   target, st, go, server, signal, events, late, overlapped>>

DisableAll ==
    /\ At("disable")
    /\ motors' = [motors EXCEPT ![main.arm] = FALSE]
    /\ NextArm("freed")
    /\ UNCHANGED <<buf, safety, requested, busy, movers, running, target, st,
                   go, server, signal, events, late, overlapped>>

\* The controllers are deleted and main returns, destroying the objects it
\* owns.  ~RuntimeControlServer joins the server thread once that is through
\* with its command; a client that sends nothing keeps the thread in recv(),
\* and main in the join, for ever.  The process ends with this step and
\* every detached thread with it.
ReturnFromMain ==
    /\ At("freed")
    /\ server.cmd = "none"
    /\ Continue("done")
    /\ UNCHANGED <<buf, safety, motors, requested, busy, movers, running,
                   target, st, go, server, signal, events, late, overlapped>>

MainLoop ==
    \/ LoopHead
    \/ \E k \in MoveKinds : TakeRequest(k)
    \/ GetLatest
    \/ UpdateSafety
    \/ ReadState
    \/ CheckBusy
    \/ MotorStep
    \/ Report
    \/ StopReceivers
    \/ DisableAll

----------------------------------------------------------------------------
(* The detached threads.                                                   *)

\* Thread of kind k goes from one stage to the next.
Advance(k, s) ==
    /\ movers[k][s] > 0
    /\ movers' = [movers EXCEPT
           ![k] = [movers[k] EXCEPT ![s] = @ - 1, ![s + 1] = @ + 1]]

\* AdjustPosition or MoveToPose on every arm at once, both threads joined.
MoverMoves(k) ==
    /\ Alive
    /\ Advance(k, 0)
    /\ UNCHANGED <<buf, safety, motors, requested, busy, running, main,
                   target, st, go, server, signal, events, late, overlapped>>

\* safety_mgr_r->reset(), safety_mgr_l->reset()
MoverResets(k) ==
    /\ Alive
    /\ \E a \in Arms : Advance(k, a) /\ Reset(a)
    /\ UNCHANGED <<buf, motors, requested, busy, running, main, target, st,
                   go, server, signal, events, overlapped>>

\* ..._in_progress = false, and the thread ends.
MoverEnds(k) ==
    /\ Alive
    /\ movers[k][NArms + 1] > 0
    /\ movers' = [movers EXCEPT ![k][NArms + 1] = @ - 1]
    /\ busy' = [busy EXCEPT ![k] = FALSE]
    /\ UNCHANGED <<buf, safety, motors, requested, running, main, target, st,
                   go, server, signal, events, late, overlapped>>

Mover(k) == MoverMoves(k) \/ MoverResets(k) \/ MoverEnds(k)

----------------------------------------------------------------------------
(* The runtime-control thread: one command at a time.                      *)

\* The command starts; the ones that only set a flag are over at once.
ServerAccepts(cmd) ==
    /\ Alive
    /\ server.cmd = "none"
    /\ events < MaxEvents
    /\ events' = events + 1
    /\ server' = IF cmd \in PerArmCommands
                 THEN [cmd |-> cmd, arm |-> 1] ELSE server
    /\ requested' = IF cmd \in MoveKinds
                    THEN [requested EXCEPT ![cmd] = TRUE] ELSE requested
    /\ running' = (running /\ cmd # "shutdown")
    /\ UNCHANGED <<buf, safety, motors, busy, movers, main, target, st, go,
                   signal, late, overlapped>>

\* The estop and reset_safety handlers take one arm's manager at a time.
ServerArm ==
    /\ Alive
    /\ LET a == server.arm
       IN  /\ \/ server.cmd = "estop" /\ Trigger(a)
              \/ server.cmd = "reset_safety" /\ Reset(a)
           /\ server' = IF a < NArms THEN [server EXCEPT !.arm = @ + 1]
                        ELSE [cmd |-> "none", arm |-> 1]
    /\ UNCHANGED <<buf, motors, requested, busy, movers, running, main,
                   target, st, go, signal, events, overlapped>>

----------------------------------------------------------------------------
(* The signal handler (SIGINT), run once on some thread.                   *)

SignalArrives ==
    /\ Alive
    /\ signal = 0
    /\ signal' = 1
    /\ events < MaxEvents
    /\ events' = events + 1
    /\ UNCHANGED <<buf, safety, motors, requested, busy, movers, running,
                   main, target, st, go, server, late, overlapped>>

SignalArm ==
    /\ Alive
    /\ signal \in Arms
    /\ Trigger(signal)
    /\ signal' = signal + 1
    /\ UNCHANGED <<buf, motors, requested, busy, movers, running, main,
                   target, st, go, server, events, overlapped>>

SignalEnds ==
    /\ Alive
    /\ signal = NArms + 1
    /\ running' = FALSE
    /\ signal' = NArms + 2
    /\ UNCHANGED <<buf, safety, motors, requested, busy, movers, main,
                   target, st, go, server, events, late, overlapped>>

Handler == SignalArm \/ SignalEnds

----------------------------------------------------------------------------
Terminated == main.phase = "done" /\ UNCHANGED vars

Next ==
    \/ MainLoop
    \/ ReturnFromMain
    \/ \E a \in Arms : Receive(a)
    \/ Tick
    \/ \E k \in MoveKinds : Mover(k)
    \/ \E cmd \in Commands : ServerAccepts(cmd)
    \/ ServerArm
    \/ SignalArrives
    \/ Handler
    \/ Terminated

Spec == Init /\ [][Next]_vars

(***************************************************************************)
(* Every thread that has work is scheduled and the clock runs.  Packets,   *)
(* commands and the signal come from outside: they may never come.  Main   *)
(* need not return, since its last step waits for the server thread.       *)
(***************************************************************************)
Fairness ==
    /\ WF_vars(MainLoop)
    /\ WF_vars(Tick)
    /\ \A k \in MoveKinds : WF_vars(Mover(k))
    /\ WF_vars(ServerArm)
    /\ WF_vars(Handler)

FairSpec == Spec /\ Fairness

----------------------------------------------------------------------------
(* Safety.                                                                 *)

(***************************************************************************)
(* With require_enable, the main loop commands an arm (tracking or HOLD)   *)
(* only on a packet of this cycle that says enable and not estop and whose *)
(* link was younger than the disable threshold, whatever the other threads *)
(* did to the safety manager between update() and get_state() (lines       *)
(* 547-634 of the follower).                                               *)
(***************************************************************************)
Authorised(a) ==
    /\ target[a].has
    /\ target[a].pkt.enable
    /\ ~target[a].pkt.estop
    /\ target[a].gap < DisableAge

CommandsAreAuthorised ==
    \A a \in Arms :
        (/\ RequireEnable
         /\ At("motor") /\ main.arm <= a
         /\ go /\ st[a] \in CommandStates) => Authorised(a)

(***************************************************************************)
(* Once trigger_estop() has stopped an arm, and until a reset, the main    *)
(* loop sends it at most one more command: the one whose state was read    *)
(* before the stop.                                                        *)
(***************************************************************************)
EstopLatency == \A a \in Arms : late[a] <= 1

(***************************************************************************)
(* The main loop never drives the arms while an init_position or           *)
(* recover_estop thread does, provided no such request was taken while a   *)
(* thread of the same kind was still alive (then the first to finish       *)
(* clears the flag of both).  goto_pose has no such protection.            *)
(***************************************************************************)
ExclusiveMotion ==
    (At("motor") /\ go /\ ~overlapped) =>
        \A k \in {"init", "recover"} : movers[k][0] = 0

\* The abstract dead-man switch, one per arm.
DM == INSTANCE DeadMan
          WITH mode <- [a \in Arms |-> ModeOf(safety[a].state)]

\* The safety managers never take a faulted or stopped arm straight back to
\* live, whichever threads and packets interfere.
RefinesDeadMan == DM!Spec

----------------------------------------------------------------------------
(* Liveness, under FairSpec.                                               *)

\* A software stop turns the motors off, unless something resets it first.
EstopTurnsMotorsOff ==
    \A a \in Arms :
        safety[a].estop ~> (~motors[a] \/ ~safety[a].estop)

\* If packets stop for good while the last one said enable, the motors end
\* up off, and stay off, even if moves and resets were in progress.
SilentLinkTurnsMotorsOff ==
    \A a \in Arms :
        <>[](buf[a].has /\ buf[a].pkt.enable /\ buf[a].age = DisableAge)
            => <>[](~motors[a])

\* Once keep_running is cleared every motor is turned off, and stays off,
\* whatever requests, moves and handlers were under way (lines 468-761 of the
\* follower: a pending recover_estop may first enable the motors again).
ShutdownDisables ==
    ~running ~> [](\A a \in Arms : ~motors[a])

----------------------------------------------------------------------------
(* The inductive invariant behind the safety properties.                   *)

\* How far the current cycle has come with arm a.
Got(a) ==
    \/ At("get") /\ a < main.arm
    \/ main.phase \in {"update", "state", "guard", "motor", "report"}

Updated(a) ==
    \/ At("update") /\ a < main.arm
    \/ main.phase \in {"state", "guard", "motor", "report"}

Read(a) ==
    \/ At("state") /\ a < main.arm
    \/ main.phase \in {"guard", "motor", "report"}

\* The motor section has not yet reached an arm whose state is read.
Pending(a) == Read(a) /\ ~At("report") /\ (At("motor") => main.arm <= a)

\* A commanding state comes from a packet: from the buffer at first, from
\* the target of this cycle once it is taken, and from an authorising one
\* once this cycle has updated the manager or read its state.
AuthorityInv ==
    RequireEnable => \A a \in Arms :
        /\ target[a].has => buf[a].has
        /\ safety[a].state \in CommandStates =>
               /\ buf[a].has
               /\ Got(a) => target[a].has
               /\ Updated(a) => Authorised(a)
        /\ Read(a) /\ st[a] \in CommandStates => Authorised(a)

\* A latched stop shows in the state, and a command sent after it was the
\* last one this main-loop cycle had for the arm.
LatchInv ==
    \A a \in Arms :
        /\ safety[a].estop => safety[a].state = "ESTOP"
        /\ ~safety[a].estop => late[a] = 0
        /\ late[a] <= 1
        /\ late[a] = 1 /\ Pending(a) => st[a] \notin CommandStates

\* Without overlapping requests there is at most one thread of each kind,
\* its flag is up while it lives, and none of the guarded kinds lives in a
\* motor section that passed the test.
MoverInv ==
    ~overlapped => \A k \in MoveKinds :
        /\ \A s \in Stages : movers[k][s] <= 1
        /\ \A s, t \in Stages : movers[k][s] > 0 /\ movers[k][t] > 0 => s = t
        /\ \A s \in Stages : movers[k][s] > 0 => busy[k]
        /\ At("motor") /\ go /\ k # "goto" => \A s \in Stages : movers[k][s] = 0

IInv == TypeOK /\ AuthorityInv /\ LatchInv /\ MoverInv
=============================================================================
