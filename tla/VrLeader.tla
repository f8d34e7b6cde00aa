------------------------------ MODULE VrLeader ------------------------------
(***************************************************************************)
(* The VR leader process (wifi_vr_bimanual_leader): the control loop, the  *)
(* receiver thread of the VR controllers and the receiver thread of the    *)
(* follower's telemetry.  While an arm's grip is held the loop anchors the *)
(* robot pose, adds the controller's motion to it, solves the inverse      *)
(* kinematics and sends the joint targets; it needs telemetry to anchor.   *)
(*                                                                         *)
(* The loop copies the shared state under two locks at the head of a       *)
(* cycle, but reads tel_connected again, without a lock, when it processes *)
(* and when it sends each arm.  Joint vectors are abstracted to whether    *)
(* they hold a NaN or else an infinity, poses to whether they are finite.  *)
(* Time passes between any two steps, also while the inverse kinematics    *)
(* are solved; the timeouts are counted in its ticks.                      *)
(***************************************************************************)
EXTENDS Naturals

CONSTANTS
    NArms,     \* arm 1 is the right arm, arm 2 the left one
    DryRun,    \* --dry-run
    RateLimit, \* rate_limit.enabled
    StaleAge,  \* telemetry.stale_timeout_ms, in ticks
    ResetAge,  \* telemetry.anchor_reset_timeout_ms, in ticks
    Arriving   \* what the joint vectors of a telemetry packet may hold

\* What a vector of joint angles holds: at least one NaN, or else at least
\* one infinity, or neither.
Joints == {"finite", "inf", "nan"}

ASSUME VrAssumption ==
    /\ NArms \in Nat \ {0}
    /\ {DryRun, RateLimit} \subseteq BOOLEAN
    /\ {StaleAge, ResetAge} \subseteq Nat
    /\ Arriving \subseteq Joints

VARIABLES
    grip,      \* current_vr_state: is the grip of each arm held?
    tel,       \* tel_connected, last_tel_time, robot_q_r_fb/_l_fb
    anchor,    \* anchor_r/_l: the pose of an active one
    target,    \* target_q_r/_l
    running,   \* keep_running
    main,      \* where the loop is, and at which arm
    held,      \* local vr_pkt
    fb,        \* locals fb_r/_l and telemetry_stale
    sent,      \* history: the enable byte last sent to each arm
    elapsed    \* history: ticks since this cycle copied the telemetry

vars == <<grip, tel, anchor, target, running, main, held, fb, sent, elapsed>>

Arms == 1 .. NArms

Phases == {"head", "vr", "telemetry", "process", "send", "sleep", "stop",
           "done"}

\* Ages above both thresholds are not told apart.
AgeLimit == IF StaleAge < ResetAge THEN ResetAge + 1 ELSE StaleAge + 1

\* Nor are longer times since a copy: telemetry that was fresh then is at
\* most that much older than fresh.
ElapsedLimit == AgeLimit - StaleAge

NoFeedback == [seen |-> FALSE, q |-> "finite", stale |-> FALSE]
NoAnchor == "none"

TypeOK ==
    /\ grip \in [Arms -> BOOLEAN]
    /\ tel \in [connected : BOOLEAN, age : 0 .. AgeLimit, q : Joints]
    /\ anchor \in [Arms -> {NoAnchor, "finite", "nan"}]
    /\ target \in [Arms -> Joints]
    /\ running \in BOOLEAN
    /\ main \in [phase : Phases, arm : Arms]
    /\ held \in [Arms -> BOOLEAN]
    /\ fb \in [seen : BOOLEAN, q : Joints, stale : BOOLEAN]
    /\ sent \in [Arms -> BOOLEAN]
    /\ elapsed \in 0 .. ElapsedLimit

\* Joint targets and feedback start as zeros.
Init ==
    /\ grip = [a \in Arms |-> FALSE]
    /\ tel = [connected |-> FALSE, age |-> 0, q |-> "finite"]
    /\ anchor = [a \in Arms |-> NoAnchor]
    /\ target = [a \in Arms |-> "finite"]
    /\ running = TRUE
    /\ main = [phase |-> "head", arm |-> 1]
    /\ held = [a \in Arms |-> FALSE]
    /\ fb = NoFeedback
    /\ sent = [a \in Arms |-> FALSE]
    /\ elapsed = 0

At(phase) == main.phase = phase

----------------------------------------------------------------------------
(* The receiver threads, the signal and the clock.                         *)

\* A controller packet.  It carries no stop and no recentering.
ReceiveVr ==
    /\ main.phase \notin {"stop", "done"}
    /\ grip' \in [Arms -> BOOLEAN]
    /\ UNCHANGED <<tel, anchor, target, running, main, held, fb, sent, elapsed>>

\* A telemetry packet; joint values are stored as they come.
ReceiveTelemetry ==
    /\ main.phase \notin {"stop", "done"}
    /\ \E q \in Arriving : tel' = [connected |-> TRUE, age |-> 0, q |-> q]
    /\ UNCHANGED <<grip, anchor, target, running, main, held, fb, sent, elapsed>>

\* SIGINT, or the end of --max-test-sec.
Signal ==
    /\ ~At("done")
    /\ running' = FALSE
    /\ UNCHANGED <<grip, tel, anchor, target, main, held, fb, sent, elapsed>>

\* A tick passes, wherever the loop is.
Tick ==
    /\ ~At("done")
    /\ tel' = [tel EXCEPT !.age =
                  IF tel.connected /\ @ < AgeLimit THEN @ + 1 ELSE @]
    /\ elapsed' = IF main.phase \in {"process", "send"} /\ elapsed < ElapsedLimit
                  THEN elapsed + 1 ELSE elapsed
    /\ UNCHANGED <<grip, anchor, target, running, main, held, fb, sent>>

----------------------------------------------------------------------------
(* The control loop.                                                       *)

Continue(phase) == main' = [phase |-> phase, arm |-> 1]

NextArm(phase) ==
    main' = IF main.arm < NArms THEN [main EXCEPT !.arm = @ + 1]
            ELSE [phase |-> phase, arm |-> 1]

LoopHead ==
    /\ At("head")
    /\ Continue(IF running THEN "vr" ELSE "stop")
    /\ UNCHANGED <<grip, tel, anchor, target, running, held, fb, sent, elapsed>>

CopyVr ==
    /\ At("vr")
    /\ held' = grip
    /\ Continue("telemetry")
    /\ UNCHANGED <<grip, tel, anchor, target, running, fb, sent, elapsed>>

\* Mutant: only telemetry old enough to reset the anchors is stale.
Stale_AnchorTimeout == tel.connected /\ tel.age > ResetAge

\* Mutant: the two tests of the age exclude each other.
Stale_ElseIf ==
    tel.connected /\ tel.age > StaleAge /\ ~(tel.age > ResetAge)

Stale == tel.connected /\ tel.age > StaleAge

\* Mutant: old telemetry leaves the anchors alone.
Expired_Never == FALSE

Expired == tel.connected /\ tel.age > ResetAge

\* The copy of the telemetry, its staleness, and the reset of the anchors.
CopyTelemetry ==
    /\ At("telemetry")
    /\ fb' = [seen |-> tel.connected, q |-> tel.q, stale |-> Stale]
    /\ elapsed' = 0
    /\ anchor' = IF Expired THEN [a \in Arms |-> NoAnchor] ELSE anchor
    /\ Continue("process")
    /\ UNCHANGED <<grip, tel, target, running, held, sent>>

\* feedback_available, on the unlocked tel_connected.
FeedbackAvailable == tel.connected \/ DryRun

\* solve_pose may fail on any pose and always fails on one that is not
\* finite; the clamping to the joint limits makes its result finite.
SolvePose(pose, ok) == ok => pose = "finite"

\* The anchor for this cycle's motion; the forward kinematics of a vector
\* that is not finite are NaNs.
AnchorFor(a) ==
    IF anchor[a] # NoAnchor THEN anchor[a]
    ELSE IF fb.q = "finite" THEN "finite" ELSE "nan"

\* A solution moves the target by the difference to it, cut to a step: a NaN
\* and, with the cut, an infinity stay; without it inf - inf is a NaN.
StepTowards(q) == IF q = "inf" /\ ~RateLimit THEN "nan" ELSE q

\* Nothing is computed from stale telemetry; the anchor stays.
ProcessStale(a) ==
    /\ fb.stale
    /\ UNCHANGED <<anchor, target>>

\* The arm follows the controller; without a solution the last target
\* stands.
ProcessHeld(a) ==
    /\ ~fb.stale /\ held[a] /\ FeedbackAvailable
    /\ anchor' = [anchor EXCEPT ![a] = AnchorFor(a)]
    /\ \E ok \in BOOLEAN :
           /\ SolvePose(AnchorFor(a), ok)
           /\ target' = IF ok THEN [target EXCEPT ![a] = StepTowards(@)] ELSE target

\* Mutant: a target that is not finite is not replaced.
ProcessReleased_KeepsBad(a) ==
    /\ ~fb.stale /\ ~(held[a] /\ FeedbackAvailable)
    /\ anchor' = [anchor EXCEPT ![a] = NoAnchor]
    /\ target' = IF FeedbackAvailable /\ target[a] = "finite"
                 THEN [target EXCEPT ![a] = fb.q] ELSE target

\* The anchor is dropped and the target follows the robot.
ProcessReleased(a) ==
    /\ ~fb.stale /\ ~(held[a] /\ FeedbackAvailable)
    /\ anchor' = [anchor EXCEPT ![a] = NoAnchor]
    /\ target' = IF FeedbackAvailable THEN [target EXCEPT ![a] = fb.q] ELSE target

\* process_arm_logic; the copy of the joint vectors is not used again.
ProcessArm ==
    /\ At("process")
    /\ LET a == main.arm
       IN  ProcessStale(a) \/ ProcessHeld(a) \/ ProcessReleased(a)
    /\ NextArm("send")
    /\ fb' = IF main.arm < NArms THEN fb ELSE [fb EXCEPT !.q = "finite"]
    /\ UNCHANGED <<grip, tel, running, held, sent, elapsed>>

\* The enable byte: the grip, tel_connected as it is now, the staleness
\* computed before, and a target without a NaN (an infinity goes through).
Enable(a) ==
    held[a] /\ tel.connected /\ ~fb.stale /\ ~DryRun /\ target[a] # "nan"

\* send_pkt, the last use of the arm's copy of the grip.
SendPacket ==
    /\ At("send")
    /\ sent' = [sent EXCEPT ![main.arm] = Enable(main.arm)]
    /\ held' = [held EXCEPT ![main.arm] = FALSE]
    /\ NextArm("sleep")
    /\ UNCHANGED <<grip, tel, anchor, target, running, fb, elapsed>>

\* sleep_until; the locals of the cycle go out of scope.
Sleep ==
    /\ At("sleep")
    /\ fb' = NoFeedback
    /\ elapsed' = 0
    /\ Continue("head")
    /\ UNCHANGED <<grip, tel, anchor, target, running, held, sent>>

\* The receivers are stopped and main returns.
ReturnFromMain ==
    /\ At("stop")
    /\ Continue("done")
    /\ UNCHANGED <<grip, tel, anchor, target, running, held, fb, sent, elapsed>>

Loop ==
    \/ LoopHead
    \/ CopyVr
    \/ CopyTelemetry
    \/ ProcessArm
    \/ SendPacket
    \/ Sleep
    \/ ReturnFromMain

Terminated == At("done") /\ UNCHANGED vars

Next == Loop \/ ReceiveVr \/ ReceiveTelemetry \/ Signal \/ Tick \/ Terminated

Spec == Init /\ [][Next]_vars

\* The loop runs; packets, signals and ticks may never come.
FairSpec == Spec /\ WF_vars(Loop)

----------------------------------------------------------------------------
(* Properties.                                                             *)

\* The arm whose packet goes out next.
Sending(a) == At("send") /\ main.arm = a /\ Enable(a)

\* An enabling packet goes out only while telemetry is connected, and its
\* telemetry is older than the stale timeout by no more than the time since
\* this cycle's check: the loop decides on a staleness computed before two
\* solutions of the inverse kinematics and on a connection read after them
\* (lines 528 and 764), and a packet may arrive in between.
EnabledOnFreshTelemetry ==
    \A a \in Arms :
        Sending(a) => tel.connected /\ tel.age <= StaleAge + elapsed

\* If telemetry stops for good both arms end up disabled for good, also with
\* the grip held; and once it is older than the anchors live, every anchor is
\* dropped for good (lines 525-534 and 764).
SilentTelemetryDisarms ==
    \A a \in Arms :
        /\ <>[](tel.connected => tel.age > StaleAge) =>
               <>[](At("done") \/ ~sent[a])
        /\ <>[](tel.age = AgeLimit) => <>[](At("done") \/ anchor[a] = NoAnchor)

\* A target that is not finite is not for ever: once telemetry is fresh and
\* finite for good and the grip is released for good, the target is finite.
ReleaseClearsBadTarget ==
    \A a \in Arms :
        <>[](/\ tel.connected /\ tel.q = "finite" /\ tel.age <= StaleAge
             /\ ~grip[a]) =>
            <>[](At("done") \/ target[a] = "finite")

\* The invariant behind EnabledOnFreshTelemetry: once this cycle has judged
\* the telemetry fresh, or has found none, what is connected was fresh then,
\* or has come since.
FreshInv ==
    main.phase \in {"process", "send"} /\ ~fb.stale /\ tel.connected =>
        tel.age <= StaleAge + elapsed

IInv == TypeOK /\ FreshInv

----------------------------------------------------------------------------
(* What the documentation says.                                            *)

\* docs/vr_controller_teleop.md: the follower receives enabled commands only
\* while the leader has telemetry; here, while this cycle's copy holds any.
EnabledMeansTelemetrySeen == \A a \in Arms : Sending(a) => fb.seen
=============================================================================
