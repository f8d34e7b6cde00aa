---------------------------- MODULE TeleopSystem ----------------------------
(***************************************************************************)
(* One arm of the whole system: the bimanual leader, the network and the   *)
(* bimanual follower.  Command packets carry the leader's enable byte to   *)
(* the follower, whose safety manager decides whether the arm moves;       *)
(* feedback packets carry the follower's state back to the leader, whose   *)
(* engager decides whether the operator feels a force.  Either process may *)
(* end and start again, and the network delays and loses packets.          *)
(*                                                                         *)
(* A cycle of a loop is two steps here: it takes the newest packet, and    *)
(* then reads how long ago one was received, which may be a newer one, and *)
(* does the rest.  The other interleavings within a cycle are in           *)
(* BimanualLeader and BimanualFollower.  Time is counted in loop periods:  *)
(* both loops sleep until the next period, so between two ticks each runs  *)
(* once, in either order.  A move blocks the leader's loop, which makes up *)
(* for the cycles it has missed without sleeping.  The follower's moves    *)
(* run in threads of their own: they only send less to the motors, and     *)
(* their resets are those of FollowerCommand.  The link and the statistics *)
(* of the gate are left out: they only make the leader drop its request    *)
(* more often.                                                             *)
(***************************************************************************)
EXTENDS SafetyManager, EngagerUpdate, Sequences

CONSTANTS
    MaxDelay,    \* a packet arrives within so many periods, or never
    MaxAge,      \* MaxFeedbackAgeMs, in periods
    GatePeriod,  \* 100 ms, in periods
    MaxMove,     \* bound: cycles the leader is behind after its moves
    MaxEvents    \* bound: commands, moves, crashes and starts in a behaviour

ASSUME SystemAssumption ==
    /\ MaxDelay \in Nat
    /\ MaxAge \in Nat
    /\ MaxMove \in Nat
    /\ MaxEvents \in Nat
    /\ GatePeriod \in Nat \ {0}

VARIABLES
    leader,    \* is it up, in a move, and how many cycles behind;
               \* command_enabled, bilateral_requested, the engager
    fb,        \* the leader's FeedbackStateBuffer
    seen,      \* local fb of step_side: taken, and of a live follower?
    nextGate,  \* periods until the next evaluation of the gate
    follower,  \* is it up; did its last cycle send a motor command
    buf,       \* the follower's TeleopStateBuffer
    target,    \* local pkt_r/_l of its loop: taken, and was there any?
    manager,   \* its SafetyManager
    commands,  \* command packets in flight, with their age
    feedback,  \* feedback packets in flight, with their age
    ran,       \* which processes have run in this period
    events,    \* commands, moves, crashes and starts so far
    heard,     \* history: periods since the leader sent any packet
    quiet,     \* history: periods since it sent an enabling one
    overdue,   \* history: motor commands since then that came too late
    idle,      \* history: periods since the follower was last ACTIVE, without
               \* those the leader spends in a move
    trouble    \* history: has a packet been lost, has a process been down or
               \* the leader in a move?

vars == <<leader, fb, seen, nextGate, follower, buf, target, manager, commands,
          feedback, ran, events, heard, quiet, overdue, idle, trouble>>

NoFeedback == [has |-> FALSE, live |-> FALSE, estop |-> FALSE, age |-> 0]
NoCommand == [has |-> FALSE, pkt |-> NoPacket, age |-> 0]
NotSeen == [taken |-> FALSE, live |-> FALSE]
NoTarget == [taken |-> FALSE, has |-> FALSE, pkt |-> NoPacket]

\* From the last cycle with fresh feedback of an ACTIVE follower to the end
\* of the force: one cycle may still judge old feedback by the age of new
\* feedback, one finds the request gone, and then the force goes step by step.
ReleaseTime == 2 + (Full + DownStep - 1) \div DownStep

\* The histories count up to one more than the properties allow.
QuietLimit == MaxDelay + DisableAge
IdleLimit == MaxDelay + MaxAge + ReleaseTime

TypeOK ==
    /\ leader \in [up : BOOLEAN, busy : BOOLEAN, behind : 0 .. MaxMove,
                   enabled : BOOLEAN, requested : BOOLEAN, eng : Engager]
    /\ fb \in [has : BOOLEAN, live : BOOLEAN, estop : BOOLEAN, age : 0 .. MaxAge + 1]
    /\ seen \in [taken : BOOLEAN, live : BOOLEAN]
    /\ nextGate \in 0 .. GatePeriod
    /\ follower \in [up : BOOLEAN, commands : BOOLEAN]
    /\ buf \in [has : BOOLEAN, pkt : Packet, age : Age]
    /\ target \in [taken : BOOLEAN, has : BOOLEAN, pkt : Packet]
    /\ manager \in Manager
    /\ commands \in Seq([enable : BOOLEAN, age : 0 .. MaxDelay])
    /\ feedback \in Seq([live : BOOLEAN, estop : BOOLEAN, age : 0 .. MaxDelay])
    /\ ran \in [{"leader", "follower"} -> BOOLEAN]
    /\ events \in 0 .. MaxEvents
    /\ heard \in 0 .. QuietLimit + 1
    /\ quiet \in 0 .. QuietLimit + 1
    /\ overdue \in 0 .. 2
    /\ idle \in 0 .. IdleLimit + 1
    /\ trouble \in BOOLEAN

NewLeader(enable) ==
    [up |-> TRUE, busy |-> FALSE, behind |-> 0, enabled |-> enable,
     requested |-> FALSE, eng |-> NewEngager]

NewFollower == [up |-> TRUE, commands |-> FALSE]

Init ==
    /\ \E enable \in BOOLEAN : leader = NewLeader(enable)
    /\ fb = NoFeedback /\ seen = NotSeen
    /\ nextGate = 0
    /\ follower = NewFollower
    /\ buf = NoCommand /\ target = NoTarget
    /\ manager = NewManager
    /\ commands = <<>> /\ feedback = <<>>
    /\ ran = [p \in {"leader", "follower"} |-> FALSE]
    /\ events = 0
    /\ heard = QuietLimit + 1 /\ quiet = QuietLimit + 1 /\ overdue = 0
    /\ idle = IdleLimit + 1
    /\ trouble = FALSE

\* The cycles of this period that a process has already run.
Done(process) == IF ran[process] THEN 1 ELSE 0

----------------------------------------------------------------------------
(* The leader.                                                             *)

Fresh == fb.has /\ fb.age <= MaxAge

\* Mutant: stale feedback is as good as fresh feedback.
Want_Stale == leader.requested /\ seen.live

\* step_side
Want == leader.requested /\ seen.live /\ Fresh

\* evaluate_gate
GateOk == Fresh /\ ~fb.estop

\* A cycle is due in this period, or is one that a move has delayed.
LeaderDue == leader.up /\ ~leader.busy /\ (~ran["leader"] \/ leader.behind > 0)

\* A cycle begins: get_latest.
LeaderGet ==
    /\ LeaderDue
    /\ ~seen.taken
    /\ seen' = [taken |-> TRUE, live |-> fb.has /\ fb.live /\ ~fb.estop]
    /\ UNCHANGED <<leader, fb, nextGate, follower, buf, target, manager, commands,
                   feedback, ran, events, heard, quiet, overdue, idle, trouble>>

\* The rest of it: the age of the feedback, the engager, the gate, the packet.
LeaderCycle ==
    /\ LeaderDue
    /\ seen.taken
    /\ seen' = NotSeen
    /\ \E aligned \in BOOLEAN :
           /\ aligned => Fresh
           /\ leader' = [leader EXCEPT !.eng = Update(@, Want, aligned),
                                       !.requested = @ /\ (nextGate = 0 => GateOk),
                                       !.behind = leader.behind - Done("leader")]
    /\ nextGate' = IF leader.requested /\ nextGate = 0 THEN GatePeriod ELSE nextGate
    /\ commands' = Append(commands, [enable |-> leader.enabled, age |-> 0])
    /\ heard' = 0
    /\ quiet' = IF leader.enabled THEN 0 ELSE quiet
    /\ overdue' = IF leader.enabled THEN 0 ELSE overdue
    /\ ran' = [ran EXCEPT !["leader"] = TRUE]
    /\ UNCHANGED <<fb, follower, buf, target, manager, feedback, events, idle,
                   trouble>>

\* init_position or goto_pose, at the head of a cycle: until it ends there is
\* no packet, no gate and no update of the engager.
LeaderMoves ==
    /\ LeaderDue
    /\ ~seen.taken
    /\ leader' = [leader EXCEPT !.busy = TRUE]
    /\ trouble' = TRUE
    /\ UNCHANGED <<fb, seen, nextGate, follower, buf, target, manager, commands,
                   feedback, ran, heard, quiet, overdue, idle>>

LeaderMoveEnds ==
    /\ leader.busy
    /\ leader' = [leader EXCEPT !.busy = FALSE]
    /\ UNCHANGED <<fb, seen, nextGate, follower, buf, target, manager, commands,
                   feedback, ran, events, heard, quiet, overdue, idle, trouble>>

\* enable, disable, bilateral_enable, bilateral_disable
LeaderCommand ==
    /\ leader.up
    /\ \E l \in {[leader EXCEPT !.enabled = TRUE],
                 [leader EXCEPT !.enabled = FALSE, !.requested = FALSE],
                 [leader EXCEPT !.requested = @ \/ (leader.enabled /\ GateOk)],
                 [leader EXCEPT !.requested = FALSE]} :
           l # leader /\ leader' = l
    /\ UNCHANGED <<fb, seen, nextGate, follower, buf, target, manager, commands,
                   feedback, ran, heard, quiet, overdue, idle, trouble>>

\* estop, shutdown, SIGINT or a crash: the leader sends nothing more, in
\* particular no packet that withdraws the enable byte.
LeaderEnds ==
    /\ leader.up
    /\ leader' = [NewLeader(FALSE) EXCEPT !.up = FALSE]
    /\ fb' = NoFeedback /\ seen' = NotSeen
    /\ trouble' = TRUE
    /\ UNCHANGED <<nextGate, follower, buf, target, manager, commands, feedback,
                   ran, heard, quiet, overdue, idle>>

\* The leader starts, with or without --enable.
LeaderStarts ==
    /\ ~leader.up
    /\ \E enable \in BOOLEAN : leader' = NewLeader(enable)
    /\ nextGate' = 0
    /\ UNCHANGED <<fb, seen, follower, buf, target, manager, commands, feedback,
                   ran, heard, quiet, overdue, idle, trouble>>

----------------------------------------------------------------------------
(* The follower.                                                           *)

CommandStates == {"ACTIVE", "READY", "WARNING_TIMEOUT", "HOLD"}

\* A cycle begins: get_latest.
FollowerGet ==
    /\ follower.up
    /\ ~ran["follower"] /\ ~target.taken
    /\ target' = [taken |-> TRUE, has |-> buf.has, pkt |-> buf.pkt]
    /\ UNCHANGED <<leader, fb, seen, nextGate, follower, buf, manager, commands,
                   feedback, ran, events, heard, quiet, overdue, idle, trouble>>

\* The rest of it: the time of the last packet, the safety manager, the motor
\* section, fill_feedback.
FollowerCycle ==
    /\ follower.up
    /\ target.taken
    /\ target' = NoTarget
    /\ manager' = IF target.has THEN SafetyUpdate(manager, target.pkt, buf.age)
                  ELSE manager
    /\ LET st == manager'.state
       IN  /\ follower' = [follower EXCEPT !.commands = st \in CommandStates]
           /\ feedback' = Append(feedback, [live |-> st = "ACTIVE",
                                            estop |-> st = "ESTOP", age |-> 0])
           /\ idle' = IF st = "ACTIVE" THEN 0 ELSE idle
           /\ overdue' = IF st \in CommandStates /\ quiet > QuietLimit /\ overdue < 2
                         THEN overdue + 1 ELSE overdue
    /\ ran' = [ran EXCEPT !["follower"] = TRUE]
    /\ UNCHANGED <<leader, fb, seen, nextGate, buf, commands, events, heard, quiet,
                   trouble>>

\* estop, reset_safety, and the reset at the end of a move
FollowerCommand ==
    /\ follower.up
    /\ \E m \in {TriggerEstop(manager), ResetSafety(manager)} :
           m # manager /\ manager' = m
    /\ UNCHANGED <<leader, fb, seen, nextGate, follower, buf, target, commands,
                   feedback, ran, heard, quiet, overdue, idle, trouble>>

\* shutdown or SIGINT: disable_all and return.
FollowerEnds ==
    /\ follower.up
    /\ follower' = [up |-> FALSE, commands |-> FALSE]
    /\ buf' = NoCommand /\ target' = NoTarget
    /\ manager' = NewManager
    /\ trouble' = TRUE
    /\ UNCHANGED <<leader, fb, seen, nextGate, commands, feedback, ran, heard,
                   quiet, overdue, idle>>

FollowerStarts ==
    /\ ~follower.up
    /\ follower' = NewFollower
    /\ UNCHANGED <<leader, fb, seen, nextGate, buf, target, manager, commands,
                   feedback, ran, heard, quiet, overdue, idle, trouble>>

----------------------------------------------------------------------------
(* The network and the clock.                                              *)

\* Mutant: the time of the first packet is kept.
DeliverCommand_FirstTime ==
    /\ commands # <<>>
    /\ commands' = Tail(commands)
    /\ buf' = IF follower.up
              THEN [has |-> TRUE, age |-> buf.age,
                    pkt |-> [enable |-> Head(commands).enable, estop |-> FALSE]]
              ELSE buf
    /\ UNCHANGED <<leader, fb, seen, nextGate, follower, target, manager, feedback,
                   ran, events, heard, quiet, overdue, idle, trouble>>

\* packet_callback_r/_l, if the follower listens.
DeliverCommand ==
    /\ commands # <<>>
    /\ commands' = Tail(commands)
    /\ buf' = IF follower.up
              THEN [has |-> TRUE, age |-> 0,
                    pkt |-> [enable |-> Head(commands).enable, estop |-> FALSE]]
              ELSE buf
    /\ UNCHANGED <<leader, fb, seen, nextGate, follower, target, manager, feedback,
                   ran, events, heard, quiet, overdue, idle, trouble>>

\* The feedback callback, if the leader listens.
DeliverFeedback ==
    /\ feedback # <<>>
    /\ feedback' = Tail(feedback)
    /\ fb' = IF leader.up
             THEN [has |-> TRUE, live |-> Head(feedback).live,
                   estop |-> Head(feedback).estop, age |-> 0]
             ELSE fb
    /\ UNCHANGED <<leader, seen, nextGate, follower, buf, target, manager, commands,
                   ran, events, heard, quiet, overdue, idle, trouble>>

Lose ==
    /\ \/ commands # <<>> /\ commands' = Tail(commands) /\ UNCHANGED feedback
       \/ feedback # <<>> /\ feedback' = Tail(feedback) /\ UNCHANGED commands
    /\ trouble' = TRUE
    /\ UNCHANGED <<leader, fb, seen, nextGate, follower, buf, target, manager, ran,
                   events, heard, quiet, overdue, idle>>

\* A period in which a move keeps the leader from running its cycle.
Missed == leader.busy /\ ~ran["leader"]

\* The next period begins once both processes have run, or the leader cannot,
\* and no packet is overdue.
Tick ==
    LET older(packets) == [i \in DOMAIN packets |-> [packets[i] EXCEPT !.age = @ + 1]]
        upTo(limit, n) == IF n < limit THEN n + 1 ELSE limit
        down(n) == IF n = 0 THEN 0 ELSE n - 1
    IN  /\ leader.up => (ran["leader"] \/ leader.busy) /\ ~seen.taken
        /\ follower.up => ran["follower"]
        /\ Missed => leader.behind < MaxMove
        /\ \A i \in DOMAIN commands : commands[i].age < MaxDelay
        /\ \A i \in DOMAIN feedback : feedback[i].age < MaxDelay
        /\ leader' = IF Missed THEN [leader EXCEPT !.behind = @ + 1] ELSE leader
        /\ commands' = older(commands) /\ feedback' = older(feedback)
        /\ fb' = IF fb.has THEN [fb EXCEPT !.age = upTo(MaxAge + 1, @)] ELSE fb
        /\ buf' = IF buf.has THEN [buf EXCEPT !.age = upTo(DisableAge, @)] ELSE buf
        /\ nextGate' = down(nextGate)
        /\ ran' = [p \in DOMAIN ran |-> FALSE]
        /\ heard' = upTo(QuietLimit + 1, heard)
        /\ quiet' = upTo(QuietLimit + 1, quiet)
        /\ idle' = IF leader.busy THEN idle ELSE upTo(IdleLimit + 1, idle)
        /\ UNCHANGED <<seen, follower, target, manager, events, overdue, trouble>>

----------------------------------------------------------------------------
Event ==
    /\ events < MaxEvents
    /\ events' = events + 1
    /\ \/ LeaderCommand
       \/ LeaderMoves
       \/ LeaderEnds
       \/ LeaderStarts
       \/ FollowerCommand
       \/ FollowerEnds
       \/ FollowerStarts

Next ==
    \/ LeaderGet
    \/ LeaderCycle
    \/ LeaderMoveEnds
    \/ FollowerGet
    \/ FollowerCycle
    \/ DeliverCommand
    \/ DeliverFeedback
    \/ Lose
    \/ Tick
    \/ Event

Spec == Init /\ [][Next]_vars

----------------------------------------------------------------------------
(* Properties.                                                             *)

(***************************************************************************)
(* The follower moves its arm only for a leader that lives: a command to   *)
(* the motors comes within MaxDelay plus the watchdog's disable threshold  *)
(* of a packet of the leader, whether it was disabled, stopped, crashed or *)
(* is in a move, and whatever was lost; and of an enabling packet, but for *)
(* one cycle, in which an old enabling packet, taken before a disabling    *)
(* one arrived, is judged by the age of that one after a reset (follower   *)
(* lines 548 and 554).  estop ends the leader without a packet that        *)
(* withdraws the enable byte (leader line 596), so this is all that stops  *)
(* the follower then.                                                      *)
(***************************************************************************)
CommandsNeedALeader ==
    RequireEnable =>
        /\ follower.commands => heard <= QuietLimit
        /\ overdue <= 1

(***************************************************************************)
(* The operator feels a force only while the follower is ACTIVE, and for   *)
(* no longer after it than the network delay, the feedback age limit and   *)
(* the release together, whether it stopped, faulted or ended.  A move of  *)
(* the leader (lines 614-645) holds the engager where it is, for as long   *)
(* as it takes: its periods are not counted.                               *)
(***************************************************************************)
ForceNeedsALiveFollower == Active(leader.eng) => idle <= IdleLimit

(***************************************************************************)
(* While both processes run, the leader makes no move and nothing is lost, *)
(* the watchdog never faults, if the threshold exceeds the delay by more   *)
(* than one period: jitter alone does not turn the motors off.             *)
(***************************************************************************)
HealthyLinkNeverFaults ==
    ~trouble /\ DisableAge > MaxDelay + 1 => manager.state # "FAULT"

----------------------------------------------------------------------------
(* The inductive invariant behind the three properties.                    *)

\* The leader sent its last packet, and its last enabling one, no longer ago
\* than the age of any such packet underway, and, for the one in the
\* follower's buffer, the time it may have been underway plus the time it has
\* been there.
EnableAge ==
    /\ \A i \in DOMAIN commands :
           /\ heard <= commands[i].age
           /\ commands[i].enable => quiet <= commands[i].age
    /\ buf.has /\ buf.age < DisableAge =>
           /\ heard <= MaxDelay + buf.age
           /\ buf.pkt.enable => quiet <= MaxDelay + buf.age

\* A commanding follower has decided on a packet.
CommandAge ==
    /\ target.has => buf.has
    /\ RequireEnable /\ manager.state \in CommandStates =>
           buf.has /\ (target.taken => target.has)
    /\ follower.commands => follower.up
    /\ RequireEnable /\ follower.commands => heard + Done("follower") <= QuietLimit

\* The one command that is too late leaves no enabling packet behind.
OverdueOnce ==
    RequireEnable =>
        /\ overdue <= 1
        /\ overdue > 0 =>
               /\ quiet > QuietLimit
               /\ buf.has => ~buf.pkt.enable
               /\ target.has => ~target.pkt.enable

\* The follower was ACTIVE no longer ago than the age of any feedback
\* packet underway that says so, and, for the one in the leader's buffer, the
\* time it may have been underway plus the time it has been there.
LiveAge ==
    /\ \A i \in DOMAIN feedback : feedback[i].live => idle <= feedback[i].age
    /\ fb.has /\ fb.live /\ fb.age <= MaxAge => idle <= MaxDelay + fb.age

\* Neither the buffer nor the loop of the leader knows of an ACTIVE follower.
NothingLive == ~(fb.has /\ fb.live) /\ ~seen.live

\* An engager that waits for the alignment, ramps up or is engaged has seen
\* such feedback in its last cycle, or in the cycle before, and then there is
\* none left; from the next cycle on each takes DownStep units of the force.
ForceAge ==
    /\ ~leader.up => leader.eng.state = "off" /\ ~leader.busy
    /\ leader.eng.state \in {"off", "wait_align"} => leader.eng.scale = 0
    /\ leader.eng.state \in {"wait_align", "ramp_up", "engaged"} =>
           idle + Done("leader") <= MaxDelay + MaxAge + 1 \/ NothingLive
    /\ leader.eng.state \in {"ramp_up", "engaged"} =>
           idle + Done("leader") <= MaxDelay + MaxAge + 2
    /\ leader.eng.state = "ramp_down" =>
           (idle + Done("leader")) * DownStep + leader.eng.scale
               <= (MaxDelay + MaxAge + 3) * DownStep + Full

\* Without trouble a packet is sent in every period, they arrive in order,
\* and the packet in the buffer is the one before the next to arrive.
Healthy ==
    /\ leader.up /\ follower.up
    /\ ~leader.busy /\ leader.behind = 0
    /\ \A i \in DOMAIN commands :
           i + 1 \in DOMAIN commands => commands[i].age <= commands[i + 1].age + 1
    /\ commands # <<>> => commands[Len(commands)].age + Done("leader") <= 1
    /\ buf.has => /\ commands = <<>> => buf.age + Done("leader") <= 1
                  /\ commands # <<>> => buf.age <= commands[1].age + 1
    /\ DisableAge > MaxDelay + 1 => manager.state # "FAULT"

SystemInv ==
    /\ TypeOK
    /\ EnableAge
    /\ CommandAge
    /\ OverdueOnce
    /\ LiveAge
    /\ ForceAge
    /\ ~trouble => Healthy
=============================================================================
