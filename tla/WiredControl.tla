---------------------------- MODULE WiredControl ----------------------------
(***************************************************************************)
(* The wired teleoperation programs (openarm_bilateral_control and         *)
(* openarm_unilateral_control), which have the same threads: one periodic  *)
(* control thread per robot, and an admin thread that makes each robot's   *)
(* measured joint states the other robot's references.  They share one     *)
(* RobotState per robot and part (arm, hand), each with a mutex of its     *)
(* own; a step is one call on such an object, or one send.                 *)
(*                                                                         *)
(* Joint states are abstracted to their age, in timer periods, and to      *)
(* whose they are.  The timers are those of a machine that keeps up: every *)
(* thread runs once per period, at any moment of it, and main starts all   *)
(* three within one.  The model starts when both robots have moved home,   *)
(* which SIGINT does not interrupt.                                        *)
(***************************************************************************)
EXTENDS Naturals, Sequences

CONSTANT MaxAge   \* bound: ages from MaxAge on are not told apart

ASSUME WiredAssumption == MaxAge \in Nat \ {0}

VARIABLES
    bilateral,  \* which of the two programs this is
    motor,      \* age of the motor states that recv_all received
    resp,       \* response_ of each RobotState: its age
    ref,        \* reference_ of each RobotState: is it the peer's, its age
    copy,       \* the admin thread's locals
    used,       \* the references a control thread has read in this cycle
    powered,    \* are the motors of a robot enabled?
    thread,     \* the periodic threads: is_running_ and where they are
    main,       \* where main is, and at which thread or robot
    running     \* keep_running

vars == <<bilateral, motor, resp, ref, copy, used, powered, thread, main,
          running>>

Robots == {"leader", "follower"}
Parts == {"arm", "hand"}

\* The order in which main starts and stops the threads, and disables.
Order == <<"leader", "follower", "admin">>
Threads == Robots \cup {"admin"}

Peer(r) == IF r = "leader" THEN "follower" ELSE "leader"

Age == 0 .. MaxAge
Reference == [peer : BOOLEAN, age : Age]

\* The pose in which MoveToPose left the robot.
Home == [peer |-> FALSE, age |-> 0]

----------------------------------------------------------------------------
(* What the threads do in one period.                                      *)

\* Control::bilateral_step, for either robot.
BilateralStep == << <<"respond", "arm">>, <<"respond", "hand">>,
                    <<"refer", "arm">>, <<"refer", "hand">>,
                    <<"send", "both">> >>

\* Control::leader_step: gravity compensation, without references.
LeaderStep == << <<"respond", "arm">>, <<"respond", "hand">>,
                 <<"send", "both">> >>

\* Control::unilateral_step; for a leader it ends in leader_step.
UnilateralStep(r) ==
    << <<"respond", "arm">>, <<"respond", "hand">> >> \o
    (IF r = "leader" THEN LeaderStep
     ELSE << <<"refer", "arm">>, <<"refer", "hand">>, <<"send", "both">> >>)

\* AdminThread::on_timer: four copies out, then four copies in.
AdminGets == << <<"leader", "arm">>, <<"follower", "arm">>,
                <<"leader", "hand">>, <<"follower", "hand">> >>
AdminSets == << <<"leader", "arm">>, <<"leader", "hand">>,
                <<"follower", "arm">>, <<"follower", "hand">> >>

Program(t) == IF t = "admin" THEN AdminGets \o AdminSets
              ELSE IF bilateral THEN BilateralStep ELSE UnilateralStep(t)

----------------------------------------------------------------------------
TypeOK ==
    /\ bilateral \in BOOLEAN
    /\ motor \in [Robots -> Age]
    /\ resp \in [Robots -> [Parts -> Age]]
    /\ ref \in [Robots -> [Parts -> Reference]]
    /\ copy \in [Robots -> [Parts -> Age]]
    /\ used \in [Robots -> [Parts -> Reference]]
    /\ powered \in [Robots -> BOOLEAN]
    /\ thread \in [Threads -> [run : BOOLEAN, at : 0 .. 8,
                     state : {"none", "head", "work", "sleep", "ended"}]]
    /\ main \in [phase : {"start", "wait", "stop", "join", "disable", "done"},
                 at : 1 .. 3]
    /\ running \in BOOLEAN

\* keep_running may have been cleared while the robots moved home.
Init ==
    /\ bilateral \in BOOLEAN
    /\ motor = [r \in Robots |-> 0]
    /\ resp = [r \in Robots |-> [p \in Parts |-> 0]]
    /\ ref = [r \in Robots |-> [p \in Parts |-> Home]]
    /\ copy = [r \in Robots |-> [p \in Parts |-> 0]]
    /\ used = [r \in Robots |-> [p \in Parts |-> Home]]
    /\ powered = [r \in Robots |-> TRUE]
    /\ thread = [t \in Threads |-> [run |-> FALSE, at |-> 0, state |-> "none"]]
    /\ main = [phase |-> "start", at |-> 1]
    /\ running \in BOOLEAN

\* Is thread t at operation op of its program?
Doing(t, op) == /\ thread[t].state = "work"
                /\ Program(t)[thread[t].at] = op

\* The thread goes on with its program, or sleeps until the next period.
Proceed(t) ==
    thread' = [thread EXCEPT ![t] =
        IF @.at < Len(Program(t)) THEN [@ EXCEPT !.at = thread[t].at + 1]
        ELSE [@ EXCEPT !.at = 0, !.state = "sleep"]]

----------------------------------------------------------------------------
(* The control threads.                                                    *)

\* Mutant: the responses of the hand are not stored.
Respond_ArmOnly(r, p) ==
    /\ Doing(r, <<"respond", p>>)
    /\ resp' = IF p = "arm" THEN [resp EXCEPT ![r][p] = motor[r]] ELSE resp
    /\ Proceed(r)
    /\ UNCHANGED <<bilateral, motor, ref, copy, used, powered, main, running>>

\* The motor states become the responses of a part.
Respond(r, p) ==
    /\ Doing(r, <<"respond", p>>)
    /\ resp' = [resp EXCEPT ![r][p] = motor[r]]
    /\ Proceed(r)
    /\ UNCHANGED <<bilateral, motor, ref, copy, used, powered, main, running>>

Refer(r, p) ==
    /\ Doing(r, <<"refer", p>>)
    /\ used' = [used EXCEPT ![r][p] = ref[r][p]]
    /\ Proceed(r)
    /\ UNCHANGED <<bilateral, motor, resp, ref, copy, powered, main, running>>

\* Mutant: the answers of the motors are not received.
SendCommands_NoReceive(r) ==
    /\ Doing(r, <<"send", "both">>)
    /\ used' = [used EXCEPT ![r] = [p \in Parts |-> Home]]
    /\ Proceed(r)
    /\ UNCHANGED <<bilateral, motor, resp, ref, copy, powered, main, running>>

\* mit_control_all for arm and gripper, and recv_all; the locals are gone.
SendCommands(r) ==
    /\ Doing(r, <<"send", "both">>)
    /\ motor' = [motor EXCEPT ![r] = 0]
    /\ used' = [used EXCEPT ![r] = [p \in Parts |-> Home]]
    /\ Proceed(r)
    /\ UNCHANGED <<bilateral, resp, ref, copy, powered, main, running>>

----------------------------------------------------------------------------
(* The admin thread.                                                       *)

AdminGet(r, p) ==
    /\ thread["admin"].at <= Len(AdminGets)
    /\ Doing("admin", <<r, p>>)
    /\ copy' = [copy EXCEPT ![r][p] = resp[r][p]]
    /\ Proceed("admin")
    /\ UNCHANGED <<bilateral, motor, resp, ref, used, powered, main, running>>

\* A robot's references are the peer's responses.
AdminSet(r, p) ==
    /\ thread["admin"].at > Len(AdminGets)
    /\ Doing("admin", <<r, p>>)
    /\ ref' = [ref EXCEPT ![r][p] = [peer |-> TRUE, age |-> copy[Peer(r)][p]]]
    /\ Proceed("admin")
    /\ UNCHANGED <<bilateral, motor, resp, copy, used, powered, main, running>>

----------------------------------------------------------------------------
(* PeriodicTimerThread.                                                    *)

\* Mutant: the thread raises its own flag.
TimerHead_RaisesFlag(t) ==
    /\ thread[t].state = "head"
    /\ thread' = [thread EXCEPT ![t] = [run |-> TRUE, at |-> 1, state |-> "work"]]
    /\ UNCHANGED <<bilateral, motor, resp, ref, copy, used, powered, main,
                   running>>

\* while (is_running_)
TimerHead(t) ==
    /\ thread[t].state = "head"
    /\ thread' = [thread EXCEPT ![t] =
           IF @.run THEN [@ EXCEPT !.at = 1, !.state = "work"]
           ELSE [@ EXCEPT !.state = "ended"]]
    /\ UNCHANGED <<bilateral, motor, resp, ref, copy, used, powered, main,
                   running>>

\* Everything is one period older, and the sleeping threads wake up.
PassPeriod ==
    /\ \E t \in Threads : thread[t].state = "sleep"
    /\ thread' = [t \in Threads |->
           IF thread[t].state = "sleep" THEN [thread[t] EXCEPT !.state = "head"]
           ELSE thread[t]]
    /\ LET older(age) == IF age < MaxAge THEN age + 1 ELSE age
           olderRef(x) == [x EXCEPT !.age = older(@)]
       IN  /\ motor' = [r \in Robots |-> older(motor[r])]
           /\ resp' = [r \in Robots |-> [p \in Parts |-> older(resp[r][p])]]
           /\ copy' = [r \in Robots |-> [p \in Parts |-> older(copy[r][p])]]
           /\ ref' = [r \in Robots |-> [p \in Parts |-> olderRef(ref[r][p])]]
           /\ used' = [r \in Robots |-> [p \in Parts |-> olderRef(used[r][p])]]
    /\ UNCHANGED <<bilateral, powered, main, running>>

\* A period ends when every thread has done its work in it, the starting of
\* the threads included.
Period ==
    /\ main.phase # "start"
    /\ \A t \in Threads : thread[t].state \in {"none", "sleep", "ended"}
    /\ PassPeriod

Thread(t) ==
    \/ TimerHead(t)
    \/ \E p \in Parts : t \in Robots /\ (Respond(t, p) \/ Refer(t, p))
    \/ t \in Robots /\ SendCommands(t)
    \/ \E r \in Robots, p \in Parts :
           t = "admin" /\ (AdminGet(r, p) \/ AdminSet(r, p))

----------------------------------------------------------------------------
(* main and the signal handler.                                            *)

\* On to the next of n threads or robots, or to another phase.
NextOf(n, phase) ==
    main' = IF main.at < n THEN [main EXCEPT !.at = @ + 1]
            ELSE [phase |-> phase, at |-> 1]

\* start_thread: the flag is up before the thread exists.
StartThread ==
    /\ main.phase = "start"
    /\ thread' = [thread EXCEPT ![Order[main.at]] =
                      [run |-> TRUE, at |-> 0, state |-> "head"]]
    /\ NextOf(3, "wait")
    /\ UNCHANGED <<bilateral, motor, resp, ref, copy, used, powered, running>>

\* while (keep_running)
Wait ==
    /\ main.phase = "wait"
    /\ ~running
    /\ main' = [phase |-> "stop", at |-> 1]
    /\ UNCHANGED <<bilateral, motor, resp, ref, copy, used, powered, thread,
                   running>>

\* stop_thread clears the flag and joins.
StopThread ==
    /\ main.phase = "stop"
    /\ thread' = [thread EXCEPT ![Order[main.at]].run = FALSE]
    /\ main' = [main EXCEPT !.phase = "join"]
    /\ UNCHANGED <<bilateral, motor, resp, ref, copy, used, powered, running>>

\* Mutant: main does not wait for the thread.
JoinThread_Detached ==
    /\ main.phase = "join"
    /\ main' = IF main.at < 3 THEN [phase |-> "stop", at |-> main.at + 1]
               ELSE [phase |-> "disable", at |-> 1]
    /\ UNCHANGED <<bilateral, motor, resp, ref, copy, used, powered, thread,
                   running>>

JoinThread ==
    /\ thread[Order[main.at]].state = "ended"
    /\ JoinThread_Detached

\* leader_openarm, then follower_openarm.
DisableAll ==
    /\ main.phase = "disable"
    /\ powered' = [powered EXCEPT ![Order[main.at]] = FALSE]
    /\ NextOf(2, "done")
    /\ UNCHANGED <<bilateral, motor, resp, ref, copy, used, thread, running>>

Main == StartThread \/ Wait \/ StopThread \/ JoinThread \/ DisableAll

\* SIGINT
Signal ==
    /\ main.phase # "done"
    /\ running
    /\ running' = FALSE
    /\ UNCHANGED <<bilateral, motor, resp, ref, copy, used, powered, thread,
                   main>>

Terminated == main.phase = "done" /\ UNCHANGED vars

Next ==
    \/ Main
    \/ \E t \in Threads : Thread(t)
    \/ Period
    \/ Signal
    \/ Terminated

Spec == Init /\ [][Next]_vars

\* Every thread is scheduled and the clock runs; the signal may never come.
FairSpec ==
    /\ Spec
    /\ WF_vars(Main)
    /\ WF_vars(Period)
    /\ \A t \in Threads : WF_vars(Thread(t))

----------------------------------------------------------------------------
(* Properties.                                                             *)

Sending(r) == Doing(r, <<"send", "both">>)

(***************************************************************************)
(* Until main stops the threads, a command is computed from joint states   *)
(* of the peer that were received at most three periods before, whatever   *)
(* the order of the three threads in each period: one period until they    *)
(* are the response, one until the admin thread copies them, one until the *)
(* other control thread reads them.                                        *)
(***************************************************************************)
CommandLag ==
    main.phase \in {"start", "wait"} =>
        \A r \in Robots, p \in Parts :
            Sending(r) /\ used[r][p].peer => used[r][p].age <= 3

\* Once main has disabled a robot no thread can send it another command:
\* disable_all comes after the threads are joined.
NoCommandAfterDisable ==
    \A r \in Robots : ~powered[r] => thread[r].state = "ended"

\* SIGINT ends the program with both robots disabled, also when it comes
\* before the threads have started.
ShutdownCompletes ==
    ~running ~> (main.phase = "done" /\ \A r \in Robots : ~powered[r])

----------------------------------------------------------------------------
(* The inductive invariant of the two safety properties.                   *)

\* A working thread is in its program.
ProgramInv ==
    \A t \in Threads : thread[t].state = "work" => thread[t].at \in 1 .. Len(Program(t))

\* main stops and joins the threads in order and disables when all have ended.
ShutdownInv ==
    /\ main.phase \in {"stop", "join"} =>
           \A i \in 1 .. 3 : i < main.at => thread[Order[i]].state = "ended"
    /\ main.phase \in {"disable", "done"} => \A t \in Threads : thread[t].state = "ended"
    /\ main.phase \notin {"disable", "done"} => \A r \in Robots : powered[r]

\* Has thread t done operation n of its program in this period?
Passed(t, n) == thread[t].state = "sleep" \/ (thread[t].state = "work" /\ thread[t].at > n)

\* The first operation that responds for a part, and the admin thread's copy
\* of a response and of a reference.
RespondAt == [arm |-> 1, hand |-> 2]
GetAt == [leader |-> [arm |-> 1, hand |-> 3], follower |-> [arm |-> 2, hand |-> 4]]
SetAt == [leader |-> [arm |-> 5, hand |-> 6], follower |-> [arm |-> 7, hand |-> 8]]

\* main starts the threads in order; until it stops them they run.
RunningInv ==
    /\ main.phase = "start" =>
           \A i \in 1 .. 3 : thread[Order[i]].state = "none" <=> i >= main.at
    /\ main.phase = "wait" => \A t \in Threads : thread[t].state # "none"
    /\ main.phase \in {"start", "wait"} =>
           \A t \in Threads : /\ thread[t].state # "ended"
                              /\ thread[t].state # "none" => thread[t].run

\* And each hand-over of the joint states adds a period at most.
LagInv ==
    main.phase \in {"start", "wait"} =>
        \A r \in Robots :
            /\ motor[r] <= IF thread[r].state = "sleep" THEN 0 ELSE 1
            /\ \A p \in Parts :
                  /\ resp[r][p] <= IF Passed(r, RespondAt[p]) THEN 1 ELSE 2
                  /\ Passed("admin", GetAt[r][p]) => copy[r][p] <= 2
                  /\ ref[r][p].peer =>
                        ref[r][p].age <= IF Passed("admin", SetAt[r][p]) THEN 2 ELSE 3
                  /\ used[r][p].peer =>
                        used[r][p].age <= 3 /\ thread[r].state = "work"

IInv ==
    /\ TypeOK
    /\ ProgramInv
    /\ ShutdownInv
    /\ RunningInv
    /\ LagInv
=============================================================================
