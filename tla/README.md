# Verification of openarm_teleop

TLA+ models of the teleoperation programs in this repository, model-checked with
TLC and proved with TLAPS: every safety invariant and action property that a
passing run checks is also a theorem. Paths below are relative to the repository
root.

## 1. The system

A *leader* arm is moved by a person, a *follower* arm repeats its motion. The
repository holds two families of programs:

* **wired** (`control/`): leader and follower hang on the CAN buses of one
  computer; three periodic threads exchange joint states through shared memory;
* **wireless** (`src/apps/`): leader and follower are separate processes that
  exchange numbered UDP packets; commands flow one way, feedback and telemetry
  the other. A VR controller can take the place of the leader arm.

### Inventory

| Component | State | Operations | Interacts with |
|---|---|---|---|
| safety manager and watchdog (`src/safety/safety_manager.cpp`, `watchdog.cpp`) | `state_`, `estop_triggered_` behind a mutex | `update`, `trigger_estop`, `reset`, `get_state` | called by every thread of a follower |
| bimanual follower (`src/apps/wifi_bimanual_follower.cpp`) | two state buffers, two safety managers, request and in-progress flags, motors, `keep_running` | 500 Hz main loop, two receivers, runtime-control handlers, detached movers (`recover_estop`, `init_position`, `goto_pose`), signal handler | link, safety manager, joint control |
| single follower (`src/apps/wifi_single_follower.cpp`) | one buffer, one safety manager | main loop, receiver, SIGINT handler | link, safety manager |
| bimanual leader (`src/apps/wifi_bimanual_leader.cpp`) | `command_enabled`, `bilateral_requested`, pending moves, cached link check, engagers | control loop, gate, handlers, feedback callbacks | link, gate, engager |
| bilateral gate (`src/safety/bilateral_gate.cpp`) | none; reads link, packets, statistics | `check_link`, `check_feedback` | leader loop and `bilateral_enable` |
| bilateral engager (`include/.../bilateral_engager.hpp`) | state, scale | `update` | leader loop |
| state buffers and UDP stream (`src/core/`, `src/net/`) | latest packet, last sequence number, loss counters, sample window | `update`, `get_latest`, `snapshot`, send, receive | every wireless program |
| VR leader (`src/apps/wifi_vr_bimanual_leader.cpp`) | controller state, telemetry, anchors, joint targets | control loop, two receivers | inverse kinematics, link |
| runtime control server (`src/control/runtime_control_server.cpp`) | `running_`, one listening socket, one client at a time | `start`, `run` (accept, receive, dispatch, reply), `stop` | leader, follower |
| process lifecycle (`main` of the four `wifi_*` programs, `src/openarm_port/openarm_init.cpp`, `src/utils/logging.cpp`) | motors enabled so far, `keep_running`, mutexes and their holders | start-up steps that may fail, loop, shutdown, SIGINT on any thread | all of the above |
| rate limiter (`src/safety/rate_limiter.cpp`) | none; works on the joint reference | `limit` | single follower |
| wired programs (`control/openarm_bilateral_control.cpp`, `openarm_unilateral_control.cpp`, `src/periodic_timer_thread.hpp`, `src/robot_state.hpp`) | references and responses per robot and part, `is_running_` per thread | control steps, admin copy, start, stop | joint control |
| joint control, dynamics, converters (`src/controller/`, `src/openarm_port/`) | gains, motor states | control steps, `MoveToPose` | motors |
| IK, link check, telemetry publisher, fan-out tools, GUIs | see `PROJECT.json` | | |

### What is hard here

* **Threads that overtake each other.** The follower's main loop takes a packet,
  updates a safety manager, reads its state and acts on it in four separate
  critical sections; the control server, the signal handler and detached movers
  stop and reset the same managers in between, one arm after the other.
* **Values read before and used after.** The leader grants a bilateral request
  on an evaluation of the gate that may be out of date; the VR leader decides on
  a staleness computed earlier in the cycle and a connection flag read later
  without its lock; the single follower subtracts two times read in two steps.
* **An unreliable link.** Packets are lost, spoilt, duplicated and reordered,
  the sequence number wraps, the sender restarts. Neither side is told that the
  other has ended: each finds out from the age of the last packet.
* **A process that stops half way.** Start-up enables the arms one by one and may
  fail in between; SIGINT runs a handler that takes mutexes on whichever thread it
  interrupts; a silent client holds the only server thread.
* **Things that must end.** A stop, a silent link, silent feedback, silent
  telemetry and a shutdown must end with motors or force off, whatever moves are
  in progress.

`PROJECT.json` lists each of these hazards at its line, with the properties that
cover it.

## 2. The modules

| Module | Models | Checked by |
|---|---|---|
| `SafetyManager` | one manager object: `update` with its watchdog, `trigger_estop`, `reset`, as operators | both followers |
| `DeadMan` | abstract specification: per arm a dead-man switch with modes rest, live, stopped, fault | refinement by both followers |
| `BimanualFollower`, `MCBimanualFollower` | the follower process with all its threads | run `follower_threads` |
| `BimanualFollowerProofs` | its inductive invariant, safety theorems, refinement | TLAPS |
| `SingleFollower`, `MCSingleFollower` | the one-arm follower, with the clock read and the receive time read as separate steps and unsigned subtraction, and the rate limiter on one joint | `single_follower` |
| `SingleFollowerProofs` | its inductive invariant, its three safety properties, the rate limiter's included, and its refinement of `DeadMan` | TLAPS |
| `EngagerUpdate` | `BilateralEngager::update` as an operator | both users below |
| `BilateralEngager` | one engager driven by arbitrary requests and alignments | `engager` |
| `TeleopLink` | sender, network, receiver, and both buffers fed by the same packets | `link`, `link_reordered_doc` |
| `TeleopLinkProofs` | its inductive invariant and its three safety properties | TLAPS |
| `BimanualLeader`, `MCBimanualLeader` | the leader process: loop, gate, engagers, handlers | `leader` |
| `BimanualLeaderProofs` | its inductive invariant and its three safety properties | TLAPS |
| `VrLeader`, `VrLeaderProofs` | the VR leader process | `vr_leader`, `vr_seen_doc`, TLAPS |
| `WiredControl`, `WiredControlProofs` | both wired programs | `wired`, TLAPS |
| `ProcessLifecycle`, `MCLifecycle` | the four wireless programs from `main` to its return: start-up, loop, the follower's moves, shutdown, control server and clients, SIGINT and the mutexes it meets | `lifecycle`, `sigint_doc` |
| `ProcessLifecycleProofs` | its inductive invariant and its two safety properties | TLAPS |
| `TeleopSystem` | one arm of leader, network and follower together, with loss, delay, moves of the leader, crash and restart; uses `SafetyManager` and `EngagerUpdate` | `system` |
| `TeleopSystemProofs` | the engager's three safety properties; the system's inductive invariant and its three properties | TLAPS |

### How state and actions correspond to the code

A step is what one thread does between two points at which another thread can
interfere: one method of a mutex-protected object, one access to an atomic flag,
one batch of motor commands to one arm. `PROJECT.json` (`map`) gives the lines of
every definition.

**Follower.** `buf`, `safety`, `motors`, `requested`, `busy`, `running` are the
shared objects of the process; `target`, `st`, `go` are the locals of the loop;
`movers` counts the detached threads of each kind at each stage, because nothing
prevents two of a kind. The main thread goes through the phases take requests
(`recover`, `init`, `goto`), `get`, `update`, `state`, `guard`, `motor`,
`report`, and on exit `stop`, `disable`, `freed`. Reading the clock, reading the
buffer's receive time and calling `SafetyManager::update` are one step
(`UpdateSafety`): the loop guards the subtraction against a packet that arrives
in between, so that the separate steps add no outcome that a different moment of
arrival does not give. Taking the packet is a step of its own before it. The
receivers and the control server start shortly before the loop; what they can do
before it they can also do before its first step. `ReturnFromMain` waits for a
command under way; that a client that sends nothing keeps `main` in the join of the
server thread is in `ProcessLifecycle`. `late` and `overlapped` are history
variables.

**Leader.** Time is counted in loop cycles and passes while the loop sleeps or
waits for a blocking move. `step_side` takes the latest packet, then a snapshot
whose age may be that of a newer packet, and then reads the request: three steps
(`GetLatest`, `Snapshot`, `StepSide`). `Evaluate` performs one read of `evaluate_gate` at a
time, for the loop (`gate`) and the `bilateral_enable` handler (`check`)
independently. Handlers that clear several flags do so one by one, in the code's
order (`Clears`).

**VR leader.** One action per lock section; `Enable` is the expression of
`send_pkt`, with the unlocked `tel_connected` read at that moment. A joint vector
holds a NaN, or else an infinity, or neither (`Joints`): `send_pkt` tests `isnan`
only, so a target with an infinity goes out enabled, and the rate limit keeps it an
infinity where the plain difference makes it a NaN (`StepTowards`). Time passes
between any two steps (`Tick`), also while the inverse kinematics are solved;
`elapsed` counts it from the copy of the telemetry.

**Link.** A packet carries its sequence number modulo `SeqSpace` and a serial
that never wraps and that only properties read.

**Wired.** The body of a timer callback is a sequence of accesses to shared
objects (`BilateralStep`, `UnilateralStep`, `LeaderStep`, `AdminGets`,
`AdminSets`); joint states are abstracted to their age and origin. `Period`
assumes a machine that keeps up: each thread runs once per period, in any order.

**Lifecycle.** `StartUp` lists the steps of each program in the code's order,
with the step at which it may give up; `holder` says which thread is inside a
mutex (the log's or a manager's), and a handler waits if it needs one that is
held, also by the thread it runs on. The loop is reduced to its accesses to the
managers, the requests for a move and the `disable_all` of a stopped arm, which is
what the signal handler and the control server meet. A client's `recover_estop`,
`init_position` or `goto_pose` leads to a detached thread (`mover`) that moves,
resets both managers under their mutexes, clears its flag and logs. Receivers log
as well (a failed `poll`, a jump of the sequence numbers): SIGINT may strike in
such a message. `undone` is history: the arms a mover has reset while the server
handles a command.

**System.** A loop cycle is two steps: it takes the newest packet (`LeaderGet`,
`FollowerGet`), and then reads the age of the newest, which may be another one, and
does the rest. Between two ticks each live process runs once, in either order; the
finer interleavings are in `BimanualLeader` and `BimanualFollower`. `init_position`
and `goto_pose` block the leader's loop (`LeaderMoves`): it misses cycles, up to
`MaxMove`, and runs them afterwards without sleeping (`behind`), as `next_time` in
the code makes it. A packet carries its age; it is lost or arrives within
`MaxDelay` periods, in order. `heard` and `quiet` count the periods since the
leader's last packet and its last enabling one, `overdue` the motor commands since
that came too late, `idle` the periods since the follower was last ACTIVE, without
those of a move; they are history, as is `trouble`.

**Single follower.** The reference of one joint in whole units; a packet whose
number of joints differs from the follower's (`fits` false) passes the limiter
unlimited, as in the code.

The mock modes of the applications, which drive no arm, are left out throughout.

## 3. What the runs show

| Run | Shows | Bounds, and why they suffice |
|---|---|---|
| `follower_threads` | `CommandsAreAuthorised`: no command without an enabling, fresh packet of the same cycle, whatever happens between `update` and `get_state`; `EstopLatency`: at most one command after a stop; `ExclusiveMotion`: no commands from the loop beside an `init_position` or `recover_estop` thread unless such requests overlapped; `RefinesDeadMan`; and under fairness `EstopTurnsMotorsOff`, `SilentLinkTurnsMotorsOff`, `ShutdownDisables` (a cleared `keep_running` turns the motors off; when the process ends depends on its clients, see `ProcessEnds`) | one arm, packets that enable, release and stop, two operator events (two overlapping moves, a stop during a move, a stop and its reset); a link is fresh or silent. The safety properties are proved for any number of arms, thresholds, packets and events, so this instance mainly carries the liveness |
| `engager` | the scale belongs to the state, force needs an alignment, no step in the force; `FollowsRequest`: a lasting request ends in ENGAGED once aligned, a lasting release in OFF | scale 40 with increments 3 and 7: neither divides it, so both clamps act |
| `link` | `CountsAreExact`: both buffers count exactly what is missing; a stalled link shows no rate; the command buffer follows the newest packet through a restart | 8 sequence numbers and 10 packets: wraps; bursts of 2 losses: below half the number space, as 2^31 is in practice; 2 packets in flight: duplicates and packets of the old process after a restart |
| `leader` | the bilateral request follows `enable`; it outlives a broken feedback condition by at most the gate period and one move of each kind; one enabling packet at most after `disable` | one arm, started with or without `--enable`, force rendering on, 3 events: an enable and a bilateral request from a process started without, or a request and two moves from one started with it, which reaches the bound exactly |
| `single_follower` | never a command on a stale link; `FaultNeedsSilenceOrRace`: FAULT only after silence or after a packet between the two time reads; `ReferenceNeverJumps`: the reference moves by no more than either limit per cycle, whatever holds, stops and new targets come in between | times up to 4 modulo 16: the disable threshold of 3 and the unsigned wrap are reached, an overflow of the clock is not; limits 2 and 1, targets further away than either |
| `vr_leader` | `EnabledOnFreshTelemetry`: an enabling packet goes out while telemetry is connected and past the stale timeout by no more than the time since this cycle's check; `SilentTelemetryDisarms`: silence disables the arms and drops the anchors for good; a release clears a target that is not finite | two arms, stale after more than 0 ticks, anchors reset after more than 1: the interval between the timeouts exists, and telemetry goes stale between check and packet; no rate limit, so that an infinity turns into a NaN; finite and infinite joint values arrive, a NaN is made from them |
| `wired` | references at most three periods old; no command after `disable_all`; SIGINT ends the program also before the threads start | ages up to 6, well above the bound of 3; no other bound |
| `lifecycle` | `CleanExit`: what is off when the process ends, and that no handler outlives `main`; `AnsweredEstopHolds`: when an estop is answered only a mover's reset can have taken a stop back; and under fairness `ShutdownTurnsMotorsOff` (also with a silent client in `recv`), `ProcessEnds`, `ConnectionsAreAnswered` | all four programs; one client may send `estop`, the other `recover_estop` or `shutdown`, so that a recovery ends before, between and after the two stops; either may stay silent or close while the other waits in the queue; one SIGINT on any thread at any point. `recover_estop` stands for the other moves: it is the one that also enables the motors and skips the motor section. The reset of a mover between stop and answer does occur: without that exception `AnsweredEstopHolds` is violated |
| `system` | `CommandsNeedALeader`: the follower commands its motors for at most the network delay plus the disable threshold after a packet of the leader, and after an enabling one but for a single cycle, however the leader ended; `ForceNeedsALiveFollower`: the operator feels force for at most delay, feedback age limit and release ramp after the follower was last ACTIVE, not counting the leader's moves; `HealthyLinkNeverFaults`: without loss, move or restart | delay 1, thresholds 1, 2, 3, ramp of two steps, moves that miss up to 3 cycles (as many as the disable threshold, so a move faults the follower), 2 events (commands, moves, crashes, starts of either process). The bounds are tight: one period less is violated, and the single late command occurs |

`follower_threads`, `leader`, `link`, `single_follower`, `vr_leader` and `wired` also check
`IInv`, the inductive invariant of the proofs, which contains the type invariant.

Every property has a mutant: a plausible bug (a dropped guard, a missing reset, a
swapped source) for which TLC reports the property violated.

### Fairness

`follower_threads`, `vr_leader` and `wired` assume weak fairness of every thread
of the process and of the clock: the loops never block (sleeps are bounded,
mutexes are held for a few statements), and the operating system schedules every
thread. Packets, telemetry, operator commands and signals come from outside and
are not fair: they may stop for ever, which is what the silence properties are
about. The engager is fair because the leader's loop calls it in every cycle; its
liveness property assumes the request, and for engagement the alignment, to
persist. A detached mover is fair: `MoveToPose` performs a fixed number of steps.

`lifecycle` assumes weak fairness of the main thread and strong fairness of the
server thread and of the signal handler, and weak fairness of the detached movers, whose moves have a fixed number of steps: server and handler wait for mutexes the loop takes and
releases in every period, and the loop sleeps for most of it, so a thread that
waits gets the mutex in the end. Clients are not fair: one may stay silent for
ever, and `ProcessEnds` and `ConnectionsAreAnswered` say what follows if none
does. The other runs check safety only; what must happen in a bounded time
(`GateDropsInTime`, `ForceNeedsALiveFollower`, `CommandsNeedALeader`) is stated as
a bound, which is stronger than a liveness property.

### Disagreements between code and documents

Three runs check what a document says and find that the code does otherwise:

| Run | Statement | What happens |
|---|---|---|
| `link_reordered_doc` | docs/protocol.md:57, tests/test_seq_loss_detection.cpp:23: out-of-order packets are rejected | a packet whose number goes backwards is taken for a restarted sender and becomes the latest command. `SafetyConfig::reject_out_of_order_packets` is never read |
| `vr_seen_doc` | docs/vr_controller_teleop.md:131: enabled commands only with telemetry | the first telemetry packet arrives after the loop copied zeros: an enabled packet is computed from them |
| `sigint_doc` | docs/safety.md:96: Ctrl+C, and the programs call `disable_all` during shutdown | the handler logs and stops the managers; if it interrupts a thread that holds the log's or a manager's mutex it waits for itself, `keep_running` stays set and the motors stay on |

Others, and some behaviours of the code worth knowing, were met while modelling
and have no run of their own:

* docs/safety.md:21 and docs/testing.md:76 tie FAULT to packets that are too old.
  In the single follower a packet stored between the clock read and the
  receive-time read makes the unsigned age wrap (`wifi_single_follower.cpp:129`):
  FAULT on a healthy link. The bimanual follower guards the same subtraction.
  `FaultNeedsSilenceOrRace` says that nothing else leads there.
* docs/safety.md:84-88 says enabled only if IK succeeds; `ik_success` is not part
  of the enable byte (`wifi_vr_bimanual_leader.cpp:764`), the last target is sent
  again.
* docs/safety.md:61-70 describes the rate limiter without exception; a target
  with another number of joints passes it unchanged. `ReferenceNeverJumps` is
  stated for targets that fit.
* A start-up that fails after motors were enabled disables them only when the
  failure is a verification; the other failures return with the motors on.
  `CleanExit` says exactly this.
* docs/troubleshooting.md:77 says FAULT means motors disabled; while an
  `init_position` or `recover_estop` thread lives, the motor section is skipped,
  `disable_all` included (`wifi_bimanual_follower.cpp:568`).
* docs/telemetry_protocol.md:21 says `enabled` means the motors are enabled; it
  is computed from the state ACTIVE, which an arm reaches again after
  `reset_safety` with its motors off (line 695).
* docs/bilateral_design.md:70 promises a return to unilateral within 100 ms; the
  loop joins the threads of a blocking move first. `GateDropsInTime` states the
  bound that holds. An engaged engager keeps its force state through such a move,
  and the follower, which gets no packets meanwhile, faults if the move outlasts its
  disable threshold (over 2 s against 100 ms in config/wifi_bimanual.yaml:28). After the move the
  loop runs the missed cycles without sleeping (`wifi_bimanual_leader.cpp:823`), so
  limits per cycle are not limits per second there. `TeleopSystem` has all of this.
* `estop` of the follower is answered as done although a detached mover may just
  have reset the managers again (`wifi_bimanual_follower.cpp:484`):
  `AnsweredEstopHolds` names this as the only way.
* The follower takes a packet (line 548) before it reads the receive time (line
  554). After a FAULT and `reset_safety` an old enabling packet may be judged by the
  age of a disabling one that has just come: one command too late, and no more
  (`CommandsNeedALeader`).
* An infinite joint target passes the last test before the packet, `isnan`
  (`wifi_vr_bimanual_leader.cpp:773`) and is sent with `enable` set.
* docs/bilateral_design.md:115 says `shutdown` drops `bilateral_requested`; its
  handler does not. `BilateralNeedsEnable` is therefore stated while the process
  runs.
* docs/vr_controller_teleop.md:130 says a release resets the anchor on the next
  press; a release and press within the interval between the stale and the
  anchor timeout keep the old anchor.

## 4. What is proved

| Theorem | Module | Statement |
|---|---|---|
| `InductiveInvariant` | `BimanualFollowerProofs` | `Spec => []IInv` |
| `CommandsAreAuthorisedThm`, `EstopLatencyThm`, `ExclusiveMotionThm` | same | the three safety properties |
| `Refinement` | same | `Spec => DM!Spec`: the follower implements the dead-man switch |
| `ScaleMatchesStateThm`, `ForceNeedsAlignmentThm`, `NeverStepsThm` | `TeleopSystemProofs` | for any scale and increments |
| `InductiveInvariant`, `CommandsAreFreshThm`, `FaultNeedsSilenceOrRaceThm`, `ReferenceNeverJumpsThm` | `SingleFollowerProofs` | for any thresholds, packets, limits, positions and width of the clock |
| `Refinement` | same | `Spec => DM!Spec`: the one-arm follower implements the dead-man switch too |
| `InductiveInvariant`, `BilateralNeedsEnableThm`, `DisableLatencyThm`, `GateDropsInTimeThm` | `BimanualLeaderProofs` | for any number of arms, gate and link periods, length of the moves and number of operator commands |
| `InductiveInvariant`, `StalledLinkHasNoRateThm` | `TeleopLinkProofs` | for any number space, window, number of packets in flight, losses and restarts, and also when packets overtake each other |
| `LatestIsNewestThm` | same | for an ordered network (`OrderedNetwork`) |
| `CountsAreExactThm` | same | for an ordered network and bursts below half the number space (`ShortBursts`) |
| `InductiveInvariant`, `EnabledOnFreshTelemetryThm` | `VrLeaderProofs` | for any number of arms and any timeouts, with or without rate limit and dry run |
| `InductiveInvariant`, `CommandLagThm`, `NoCommandAfterDisableThm` | `WiredControlProofs` | for both programs and any bound on the ages |
| `InductiveInvariant`, `CleanExitThm`, `AnsweredEstopHoldsThm` | `ProcessLifecycleProofs` | for the four programs, any set of clients and any requests, moves included |
| `SystemInvariant`, `CommandsNeedALeaderThm`, `ForceNeedsALiveFollowerThm`, `HealthyLinkNeverFaultsThm` | `TeleopSystemProofs` | for any delay, thresholds, ramps, length of the moves, number of packets in flight and number of crashes and restarts |

All of them hold for every value of the constants that satisfies the named
assumptions: `SafetyAssumption` (thresholds are natural numbers in no particular
order, the disable threshold positive), `FollowerAssumption` (at least one arm),
`EngagerAssumption` (positive increments and scale), `SingleAssumption` (the
targets are positions; the clock's width exceeds the bound on time plus the
disable threshold, as 64 bits of nanoseconds do), `RangeAssumption` (a joint can be
in any position between two others),
`LinkAssumption` (an even number of sequence numbers, more than two),
`LeaderAssumption` (periods and moves take at least a cycle), `VrAssumption`,
`WiredAssumption`, `LifecycleAssumption` and `SystemAssumption`. TLC evaluates
these on every run. Two theorems about the link have hypotheses beside these,
which are what the properties are about: on a network that reorders, the code
takes an old packet for a restarted sender (run `link_reordered_doc`), and after a
burst of half the number space (2^31 packets) a forward gap cannot be told from a
step backwards.

**Follower.** `CommandsAreAuthorised` is not inductive: it speaks of the motor
section only, and the state acted on there was read earlier. `AuthorityInv`
follows the authority through a cycle. A commanding manager state always comes
from a packet, first one in the buffer, then (once the target is taken) this
cycle's target, then (once `update` has run on it) an authorising one; stops and
resets by other threads lead to states that command nothing, so they cannot break
it. `LatchInv` says that a latched stop shows in the manager's state, and that a
command sent after it was the last one this cycle had for the arm. `MoverInv`
says that without overlapping requests at most one thread of a kind exists, that
its flag is up while it lives, and that none of the guarded kinds lives in a motor
section that passed the test. There is one lemma per part of the invariant
(`TypeStep`, `AuthorityStep`, `LatchStep`, `MoverStep`), each with one case per
action. The refinement maps each manager state to a mode of `DeadMan`;
every step changes at most one manager (`OneArmStep`) or none, which is a
stutter.

**Engager.** The invariant ties scale to state: zero in OFF and WAIT_ALIGN, full
in ENGAGED, in between on the ramps, and keeps an aligned beginning in every
state that renders force.

**VR leader.** `FreshInv`: once a cycle has judged its telemetry fresh, or found
none, whatever is connected was fresh then or has come since, so that it is past the
limit by at most the time since: a later packet can only renew it.

**Single follower.** `CommandsAreFresh` speaks of the time the loop took as its
now, two steps before the command. `TimeInv` keeps the clock readings behind the
clock and the history of the silence above the silence under way; `AuthorityInv`
hands the authority from the buffer to the target and on to the state, as in the
follower, but with a subtraction that wraps: a packet that arrives between the two
reads makes the gap larger than any threshold, never smaller. For the limiter,
the lemma `LimitFacts` (it moves by at most either limit and never past the target)
carries `ReferenceNeverJumps`.

The refinement of `DeadMan` needs one fact of `update` only, that
it makes an arm live from rest or live alone; this holds for every gap, wrapped or
not.

**Link.** Three parts, each for as weak a network as it needs. `WindowInv`, for any
network: the samples of the feedback buffer are in order of arrival, none is younger
than the newest packet, and none was outside the window when that packet came. It
is why popping from the front until a sample is inside the window
(`feedback_state_buffer.cpp:42`) drops exactly the old ones, and why nothing is
inside the window once the newest packet is not. `StreamInv`, for an ordered
network: the packets in flight are the newest ones, without gaps, the command
buffer holds the newest that arrived, and what lies between it and the next to
arrive is no more than the current burst. `CountInv`, for short bursts as well and
until the sender restarts: numbers follow from serials modulo `SeqSpace`, so that
the distance the buffers compute is the true one (`TrueDistance`), and the set of
missing packets grows by exactly the gap that is added to the counters
(`GapFacts`). The arithmetic of the wrap is in `Remainder`, `NumberStep` and
`NumberDiff`; that a set of serials has a least and a greatest element is
in `MinFacts` and `MaxFacts`.

**Leader.** `BilateralNeedsEnable` is false inside a handler that has cleared one of
the flags; `RequestInv` says which handler may be in that state, and that a
`bilateral_enable` that goes on after its first test still finds the commands
enabled, because only the server's thread clears that flag. `LateInv`: an enabling
packet that is still unsent has used up nothing. `GateDropsInTime` counts cycles
over several iterations of the loop and up to two blocking moves. `BudgetInv` says
how far the count may have come at each point of an iteration: while the next
evaluation is not due, the count and the time to it make up a gate period; once it
is due, what the moves of this iteration have taken is added; and behind the gate
nothing is counted, because (`EvaluationInv`) an evaluation that has read a failing
condition is negative and drops the request. `FailInv` ties the count to a failing
condition under a standing request.

**Wired.** `CommandLag` needs the age of the joint states at every hand-over, which
depends on who has already run in this period: `LagInv` bounds the motor states, the
responses, the admin thread's copies, the references and the references in use, each
with a smaller bound once the thread that renews it has passed the operation that
does (`Passed`). A period ends only when every thread sleeps, so that every smaller
bound holds there and all of them may grow by one. `RunningInv` says that between
start and stop no thread is missing at that point, and `ShutdownInv` that main has
joined every thread before it disables. The lemmas about the programs
(`ControlProgram`, `AdminProgram`) say what their operations are and at which
position; `PassedStep` that a step passes one operation and no other.

**Lifecycle.** `ExitInv` follows the motors through start-up, failure and the three
parts of the shutdown; `EstopInv` follows an estop through the managers, one arm
after the other: the arms the handler has left are stopped, and the one whose mutex
it holds, but for those a mover has reset since (`StopHolds`). What makes it
inductive is that the server's thread holds a mutex only in such a handler, so that
no mover is inside the manager it has just stopped, and that the connection and the
command it serves stay what they are. The signal handler may interrupt that thread
in the middle, and only adds stops.

**System.** `CommandsNeedALeader` relates the motors of one process to what
another sent some periods ago, so the invariant follows the packets on their way.
`EnableAge`: the leader sent its last packet, and its last enabling one, no longer
ago than the age of any such packet in flight, and than the delay plus the age of
the one in the follower's buffer (below the disable threshold, where the age stops
counting). `CommandAge`: a manager in a commanding state has a packet, and a
follower that commands is within the limit of the leader's last one, with one period
in hand once it has run in this one; the period in hand is what makes it survive the
tick. `OverdueOnce`: the command that is late has used up the packet taken before,
and what is left in the buffer does not enable. `LiveAge` is the same for the
feedback that reports an ACTIVE follower, and `ForceAge` for the engager: while it
ramps up or is engaged its last cycle had such feedback, or the one before did and
then neither the buffer nor the loop has any left (the snapshot of newer feedback may
have made the old look fresh once); in the release, the periods since, times the
decrement, plus the force that is left never exceed what they were at its beginning,
which is linear in the steps although the bound is a quotient. A move changes
neither side: its periods are not counted, and the cycles made up for afterwards
only shorten the release. `Healthy`, as long as there is no trouble: the leader is
not behind, neighbouring packets are at most one period apart, the last one is from
this period or the one before, and the buffer holds the one before the next to
arrive; so the age the watchdog sees never exceeds the delay by more than one
period. One lemma per part (`TypeStep`, `EnableStep`, `CommandStep`, `OverdueStep`,
`LiveStep`, `ForceStep`, `HealthStep`), one case per action.

`SystemInv` and the `IInv` of `ProcessLifecycle` were checked by TLC on the
instances of `MCSystem.cfg` and `MCLifecycle.cfg` before they were proved.

The refinement by the one-arm follower was checked the same way on
`MCSingleFollower.cfg`.

Only model-checked: every liveness property (`EstopTurnsMotorsOff`,
`SilentLinkTurnsMotorsOff`, `ShutdownDisables`, `FollowsRequest` and those of
`vr_leader`, `wired` and `lifecycle`), because fairness and ENABLED are outside the
prover's reach. What the statistics of a link that is not stalled add up to is a
fold over its samples; proving what it computes would need induction over data, and
no property is stated about it.

## 5. What is not modelled

* Control laws, dynamics, joint conversion and inverse kinematics: floating-point
  computation. Their control flow (which shared objects a step reads and writes,
  whether a solution was found) is modelled.
* Reading YAML, sockets, CAN and sysfs: I/O without state of its own.
* Deleting the controllers while a detached mover still uses them, and the status
  handler using locals of `main` that are not yet or no longer there (the feedback
  settings and links go before `runtime_control`, whose destructor waits for the
  handler): the models end every thread with `main` and have no memory to corrupt.
  `CleanExit` says that no handler outlives `main`, not that its objects live as
  long.
* Real time within a cycle, but for the VR leader: a stall of a loop is cycles like
  any other, except for the leader's moves in `TeleopSystem`.
* Gravity compensation and the communication test (single-threaded utilities),
  fan-out tools (stateless forwarding), round-trip and period statistics, logs and
  visualisation.

## 6. Plan

1. *Done*: safety manager, followers, dead-man refinement and its proof; engager
   and its proof; link; leader; VR leader and its proof; wired programs.
2. *Done*: the lifecycle of the four programs with control server and signals;
   leader, network and follower composed, with its proof; the rate limiter.
3. *Done*: the proofs of single follower, leader, wired programs and lifecycle, and
   of the force bound of the composed system.
4. *Done*: the proofs of the link; the one-arm follower as a dead-man switch.
5. Joint values of the VR leader's target, for what the first press after start-up
   steers from.
