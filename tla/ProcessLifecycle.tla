-------------------------- MODULE ProcessLifecycle --------------------------
(***************************************************************************)
(* The life of one of the four teleoperation programs, from main() to the  *)
(* return from it: the start-up steps that enable the motors and may fail, *)
(* the loop, the shutdown, the RuntimeControlServer with its clients, and  *)
(* SIGINT, whose handler runs on whichever thread it interrupts and takes  *)
(* the same mutexes as that thread.                                        *)
(*                                                                         *)
(* Of the follower's loop the accesses to the safety managers are kept,    *)
(* with the locks they hold, the requests for a move and the detached      *)
(* threads that carry one out, and the disable_all of a stopped arm; of    *)
(* the receivers, the messages they write to the log.  Packets and the     *)
(* watchdog are in the modules of the programs, and so are the leader's    *)
(* moves, which only make its main thread slow.  status only reads, as     *)
(* get_state in the loop does, and is left out.  The single programs use   *)
(* arm 1 and have no server.  std::signal installs a handler that restarts *)
(* system calls: accept, recv and join survive a signal.                   *)
(***************************************************************************)
EXTENDS Naturals, Sequences

CONSTANTS
    Roles,     \* the programs to look at
    Clients,   \* connections to the runtime-control port in a behaviour
    Requests   \* the commands each client may send

Programs == {"follower", "leader", "single_follower", "single_leader"}

\* The moves the follower's loop starts, in the order it looks for them.
MoveOrder == <<"recover_estop", "init_position", "goto_pose">>
Moves == {"recover_estop", "init_position", "goto_pose"}

Commands == {"estop", "reset_safety", "shutdown"} \cup Moves

\* The threads that take one of the mutexes ("receiver" stands for the two
\* UDP receivers), and "other" for a thread that holds none.  A client that
\* asks for a move gives its name to the detached thread of that move.
OwnThreads == {"main", "server", "receiver", "other"}
NoClient == "no client"

ASSUME LifecycleAssumption ==
    /\ Roles \subseteq Programs
    /\ Requests \in [Clients -> SUBSET Commands]
    /\ Clients \cap (OwnThreads \cup {"none", NoClient}) = {}

VARIABLES
    role,     \* which program this is
    main,     \* where the main thread is, at which step or arm
    failed,   \* the start-up step that failed, if any
    motors,   \* are the motors of an arm enabled?
    running,  \* keep_running
    estop,    \* estop_triggered_ of each safety manager
    seen,     \* local state_r_st/_l_st of the loop: is it ESTOP?
    holder,   \* which thread holds a mutex: the log's (0) or a manager's
    pending,  \* ..._requested: the client whose request it was, if any
    busy,     \* the moves whose ..._in_progress is up
    mover,    \* the detached threads, one for each client's request
    undone,   \* history: arms a mover has reset while a command was handled
    serving,  \* RuntimeControlServer::running_
    server,   \* the server thread: where it is, whom it serves, which arm
    conn,     \* the connections, and what came over them
    signal    \* SIGINT: the thread it interrupts, the handler's next step

vars == <<role, main, failed, motors, running, estop, seen, holder, pending,
          busy, mover, undone, serving, server, conn, signal>>

moveVars == <<pending, busy, mover, undone>>

Arms == 1 .. 2
Log == 0
Mutexes == Arms \cup {Log}
Threads == OwnThreads \cup Clients

NoMover == [at |-> "none", kind |-> "recover_estop", arm |-> 1]

HasManagers == role \in {"follower", "single_follower"}
HasServer == role \in {"follower", "leader"}
LastArm == IF role \in {"follower", "leader"} THEN 2 ELSE 1

----------------------------------------------------------------------------
(* The start-up steps of the programs, in the order of the code.           *)

Step(name) == [do |-> name, arm |-> 1]

ArmSteps(a) == << [do |-> "dynamics", arm |-> a], [do |-> "initialise", arm |-> a],
                  [do |-> "verify", arm |-> a] >>

StartUp(r) ==
    CASE r = "follower" ->
             <<Step("managers"), Step("server"), Step("receivers"), Step("telemetry")>>
                 \o ArmSteps(1) \o ArmSteps(2) \o <<Step("adjust")>>
      [] r = "leader" ->
             ArmSteps(1) \o ArmSteps(2) \o
                 <<Step("adjust"), Step("telemetry"), Step("receivers"), Step("server")>>
      [] r = "single_follower" ->
             <<Step("managers"), Step("receivers"), Step("initialise"), Step("adjust")>>
      [] r = "single_leader" -> <<Step("initialise"), Step("adjust")>>

\* The steps whose failure ends the program.
MayFail == {"server", "receivers", "telemetry", "dynamics", "verify"}

Phases == {"startup", "head", "take", "update", "state", "guard", "motor",
           "report", "stop", "stopped", "disable", "close", "join", "exited"}

LongestStartUp == Len(StartUp("follower"))

TypeOK ==
    /\ role \in Roles
    /\ main \in [phase : Phases, at : 1 .. LongestStartUp]
    /\ failed \in MayFail \cup {"none"}
    /\ motors \in [Arms -> BOOLEAN]
    /\ running \in BOOLEAN
    /\ estop \in [Arms -> BOOLEAN]
    /\ seen \in [Arms -> BOOLEAN]
    /\ holder \in [Mutexes -> Threads \cup {"none"}]
    /\ pending \in [Moves -> Clients \cup {NoClient}]
    /\ busy \subseteq Moves
    /\ mover \in [Clients -> [at : {"none", "starts", "moves", "resets", "clears",
                                   "logs"},
                              kind : Moves, arm : Arms]]
    /\ undone \subseteq Arms
    /\ serving \in BOOLEAN
    /\ server \in [at : {"none", "accept", "recv", "handle", "reply", "ended"},
                   client : Clients \cup {NoClient}, arm : Arms]
    /\ conn \in [Clients -> [at : {"away", "queued", "served", "answered", "reset"},
                             sent : Commands \cup {"nothing", "closed"}]]
    /\ signal \in [on : Threads \cup {"none"}, at : 0 .. 4]

Init ==
    /\ role \in Roles
    /\ main = [phase |-> "startup", at |-> 1]
    /\ failed = "none"
    /\ motors = [a \in Arms |-> FALSE]
    /\ running = TRUE
    /\ estop = [a \in Arms |-> FALSE]
    /\ seen = [a \in Arms |-> FALSE]
    /\ holder = [m \in Mutexes |-> "none"]
    /\ pending = [k \in Moves |-> NoClient]
    /\ busy = {}
    /\ mover = [c \in Clients |-> NoMover]
    /\ undone = {}
    /\ serving = FALSE
    /\ server = [at |-> "none", client |-> NoClient, arm |-> 1]
    /\ conn = [c \in Clients |-> [at |-> "away", sent |-> "nothing"]]
    /\ signal = [on |-> "none", at |-> 0]

----------------------------------------------------------------------------
(* Threads and mutexes.                                                    *)

At(phase) == main.phase = phase

HandlerEnded == signal.at = 4

\* A thread the signal interrupted continues when the handler has returned.
Interrupted(t) == signal.on = t /\ ~HandlerEnded

Holds(t, m) == holder[m] = t

Lock(t, m) ==
    /\ holder[m] = "none"
    /\ holder' = [holder EXCEPT ![m] = t]

\* The lock_guards of a thread go out of scope.
Unlock(t) ==
    holder' = [m \in Mutexes |-> IF holder[m] = t THEN "none" ELSE holder[m]]

\* The first mutex the handler's next step needs: the log's for the message
\* and for the one trigger_estop() writes, the manager's for the latch.
Needs(m) ==
    CASE signal.at = 0 -> m = Log
      [] signal.at \in Arms -> m \in {Log, signal.at}
      [] OTHER -> FALSE

\* The handler waits for a mutex of the thread it runs on: for ever.
SelfDeadlock ==
    /\ signal.on # "none"
    /\ \E m \in Mutexes : Needs(m) /\ Holds(signal.on, m)

----------------------------------------------------------------------------
(* The main thread.                                                        *)

Continue(phase) == main' = [phase |-> phase, at |-> 1]

NextArm(phase) ==
    main' = IF main.at < LastArm THEN [main EXCEPT !.at = @ + 1]
            ELSE [phase |-> phase, at |-> 1]

\* The step under way, and whether it writes to the log when all goes well;
\* every failure does.
Current == StartUp(role)[main.at]
Logs == Current.do \in {"server", "receivers", "telemetry", "verify", "adjust"}

StepDone ==
    IF main.at < Len(StartUp(role)) THEN main' = [main EXCEPT !.at = @ + 1]
    ELSE Continue("head")

StartUpLogs ==
    /\ At("startup")
    /\ Logs \/ Current.do \in MayFail
    /\ ~Holds("main", Log)
    /\ Lock("main", Log)
    /\ UNCHANGED <<role, main, failed, motors, running, estop, seen, moveVars,
                   serving, server, conn, signal>>

\* initialize_openarm enables the motors; the server starts to listen.
StartUpStep ==
    /\ At("startup")
    /\ Logs = Holds("main", Log)
    /\ Unlock("main")
    /\ motors' = IF Current.do = "initialise"
                 THEN [motors EXCEPT ![Current.arm] = TRUE] ELSE motors
    /\ serving' = (serving \/ Current.do = "server")
    /\ server' = IF Current.do = "server" THEN [server EXCEPT !.at = "accept"] ELSE server
    /\ StepDone
    /\ UNCHANGED <<role, failed, running, estop, seen, moveVars, conn, signal>>

\* Mutant: the left arm's failure forgets the right arm.
StartUpFails_OneArm ==
    /\ At("startup")
    /\ Current.do \in MayFail
    /\ Holds("main", Log)
    /\ Unlock("main")
    /\ failed' = Current.do
    /\ motors' = IF Current.do = "verify"
                 THEN [motors EXCEPT ![Current.arm] = FALSE] ELSE motors
    /\ Continue("stop")
    /\ UNCHANGED <<role, running, estop, seen, moveVars, serving, server, conn,
                   signal>>

\* return 1.  Only a failed verification disables the motors first.
StartUpFails ==
    /\ At("startup")
    /\ Current.do \in MayFail
    /\ Holds("main", Log)
    /\ Unlock("main")
    /\ failed' = Current.do
    /\ motors' = IF Current.do = "verify" THEN [a \in Arms |-> FALSE] ELSE motors
    /\ Continue("stop")
    /\ UNCHANGED <<role, running, estop, seen, moveVars, serving, server, conn,
                   signal>>

\* while (keep_running)
LoopHead ==
    /\ At("head")
    /\ Continue(IF ~running THEN "stop"
                ELSE CASE role = "follower"        -> "take"
                       [] role = "single_follower" -> "update"
                       [] OTHER                    -> "report")
    /\ UNCHANGED <<role, failed, motors, running, estop, seen, holder, moveVars,
                   serving, server, conn, signal>>

Asked == MoveOrder[main.at]
Starting == \E c \in Clients : mover[c].at = "starts"

NextMove ==
    main' = IF main.at < Len(MoveOrder) THEN [main EXCEPT !.at = @ + 1]
            ELSE [phase |-> "update", at |-> 1]

\* ..._requested.exchange(false), then ..._in_progress = true.
TakeRequest ==
    /\ At("take")
    /\ ~Starting
    /\ pending[Asked] \in Clients
    /\ mover' = [mover EXCEPT ![pending[Asked]] =
                     [at |-> "starts", kind |-> Asked, arm |-> 1]]
    /\ pending' = [pending EXCEPT ![Asked] = NoClient]
    /\ busy' = busy \cup {Asked}
    /\ UNCHANGED <<role, main, failed, motors, running, estop, seen, holder,
                   undone, serving, server, conn, signal>>

NoRequest ==
    /\ At("take")
    /\ ~Starting
    /\ pending[Asked] = NoClient
    /\ NextMove
    /\ UNCHANGED <<role, failed, motors, running, estop, seen, holder, moveVars,
                   serving, server, conn, signal>>

\* The loop logs the request, enables the motors for recover_estop and
\* detaches the thread.
StartMove ==
    /\ At("take")
    /\ Starting
    /\ \/ /\ ~Holds("main", Log)
          /\ Lock("main", Log)
          /\ UNCHANGED <<main, motors, mover>>
       \/ /\ Holds("main", Log)
          /\ Unlock("main")
          /\ motors' = IF Asked = "recover_estop" THEN [a \in Arms |-> TRUE] ELSE motors
          /\ mover' = [c \in Clients |-> IF mover[c].at = "starts"
                                         THEN [mover[c] EXCEPT !.at = "moves"] ELSE mover[c]]
          /\ NextMove
    /\ UNCHANGED <<role, failed, running, estop, seen, pending, busy, undone,
                   serving, server, conn, signal>>

\* SafetyManager::update and get_state: enter, perhaps log a transition
\* (update only), leave.
EnterManager ==
    /\ main.phase \in {"update", "state"}
    /\ ~Holds("main", main.at)
    /\ Lock("main", main.at)
    /\ UNCHANGED <<role, main, failed, motors, running, estop, seen, moveVars,
                   serving, server, conn, signal>>

ManagerLogs ==
    /\ At("update")
    /\ Holds("main", main.at)
    /\ ~Holds("main", Log)
    /\ Lock("main", Log)
    /\ UNCHANGED <<role, main, failed, motors, running, estop, seen, moveVars,
                   serving, server, conn, signal>>

LeaveManager ==
    /\ main.phase \in {"update", "state"}
    /\ Holds("main", main.at)
    /\ Unlock("main")
    /\ seen' = IF At("state") THEN [seen EXCEPT ![main.at] = estop[main.at]] ELSE seen
    /\ NextArm(IF At("update") THEN "state" ELSE "guard")
    /\ UNCHANGED <<role, failed, motors, running, estop, moveVars, serving,
                   server, conn, signal>>

\* The follower skips the motor section while init_position or
\* recover_estop is in progress; the locals of the cycle are forgotten.
CheckBusy ==
    /\ At("guard")
    /\ IF busy \cap {"init_position", "recover_estop"} = {}
       THEN Continue("motor") /\ UNCHANGED seen
       ELSE Continue("report") /\ seen' = [a \in Arms |-> FALSE]
    /\ UNCHANGED <<role, failed, motors, running, estop, holder, moveVars, serving,
                   server, conn, signal>>

\* The motor section of one arm.
MotorStep ==
    /\ At("motor")
    /\ motors' = [motors EXCEPT ![main.at] = @ /\ ~seen[main.at]]
    /\ seen' = [seen EXCEPT ![main.at] = FALSE]
    /\ NextArm("report")
    /\ UNCHANGED <<role, failed, running, estop, holder, moveVars, serving,
                   server, conn, signal>>

\* The rest of the cycle logs (a dropped gate, a changed link, a packet that
\* could not be sent) or not; the single follower writes nothing above the
\* DEBUG level here.
Report ==
    /\ At("report")
    /\ \/ /\ role # "single_follower"
          /\ ~Holds("main", Log)
          /\ Lock("main", Log)
          /\ UNCHANGED main
       \/ /\ Unlock("main")
          /\ Continue("head")
    /\ UNCHANGED <<role, failed, motors, running, estop, seen, moveVars,
                   serving, server, conn, signal>>

\* Are there receiver threads?  When starting them fails, one may run.
Listening ==
    CASE role = "follower" -> failed # "server"
      [] role = "leader" -> failed \in {"none", "receivers", "server"}
      [] role = "single_follower" -> failed = "none"
      [] role = "single_leader" -> FALSE

\* A receiver runs from its start-up step until it is joined.
ReceiverRuns ==
    /\ Listening
    /\ IF At("startup")
       THEN \E i \in 1 .. main.at - 1 : StartUp(role)[i].do = "receivers"
       ELSE main.phase \notin {"stopped", "disable", "close", "join", "exited"}

\* UdpReceiver::stop, called by main or by the destructor, joins the thread.
JoinReceivers ==
    /\ At("stop")
    /\ ~Interrupted("receiver")
    /\ Continue("stopped")
    /\ UNCHANGED <<role, failed, motors, running, estop, seen, holder, moveVars,
                   serving, server, conn, signal>>

\* Then it logs.
StopReceivers ==
    /\ At("stopped")
    /\ \/ /\ Listening
          /\ ~Holds("main", Log)
          /\ Lock("main", Log)
          /\ UNCHANGED main
       \/ /\ Listening /\ failed # "receivers" => Holds("main", Log)
          /\ Unlock("main")
          /\ Continue(IF failed = "none" THEN "disable" ELSE "close")
    /\ UNCHANGED <<role, failed, motors, running, estop, seen, moveVars,
                   serving, server, conn, signal>>

\* Mutant: the server is stopped before the motors are.
DisableAll_AfterServer ==
    /\ At("disable")
    /\ server.at \in {"none", "accept", "ended"}
    /\ motors' = [motors EXCEPT ![main.at] = FALSE]
    /\ NextArm("close")
    /\ UNCHANGED <<role, failed, running, estop, seen, holder, moveVars,
                   serving, server, conn, signal>>

DisableAll ==
    /\ At("disable")
    /\ motors' = [motors EXCEPT ![main.at] = FALSE]
    /\ NextArm("close")
    /\ UNCHANGED <<role, failed, running, estop, seen, holder, moveVars,
                   serving, server, conn, signal>>

\* Main returns; ~RuntimeControlServer calls stop(), which clears running_
\* and closes the socket: connections nobody accepted are reset.
CloseServer ==
    /\ At("close")
    /\ serving' = FALSE
    /\ conn' = [c \in Clients |-> IF conn[c].at = "queued"
                                  THEN [conn[c] EXCEPT !.at = "reset"] ELSE conn[c]]
    /\ Continue(IF serving THEN "join" ELSE "exited")
    /\ UNCHANGED <<role, failed, motors, running, estop, seen, holder, moveVars,
                   server, signal>>

\* thread_.join()
JoinServer ==
    /\ At("join")
    /\ server.at = "ended"
    /\ Continue("exited")
    /\ UNCHANGED <<role, failed, motors, running, estop, seen, holder, moveVars,
                   serving, server, conn, signal>>

Main ==
    /\ ~Interrupted("main")
    /\ \/ StartUpLogs
       \/ StartUpStep
       \/ StartUpFails
       \/ LoopHead
       \/ TakeRequest
       \/ NoRequest
       \/ StartMove
       \/ EnterManager
       \/ ManagerLogs
       \/ LeaveManager
       \/ CheckBusy
       \/ MotorStep
       \/ Report
       \/ JoinReceivers
       \/ StopReceivers
       \/ DisableAll
       \/ CloseServer
       \/ JoinServer

----------------------------------------------------------------------------
(* The server thread: RuntimeControlServer::run.                           *)

Alive == ~At("exited")
ServerAt(point) == server.at = point /\ Alive

\* Mutant: the loop does not look at running_.
Accept_Spins ==
    /\ ServerAt("accept")
    /\ \/ \E c \in Clients :
             /\ serving
             /\ conn[c].at = "queued"
             /\ conn' = [conn EXCEPT ![c].at = "served"]
             /\ server' = [server EXCEPT !.at = "recv", !.client = c]
       \/ /\ ~serving
          /\ UNCHANGED <<server, conn>>
    /\ UNCHANGED <<role, main, failed, motors, running, estop, seen, holder,
                   moveVars, serving, signal>>

\* accept() takes a connection; once the socket is closed it fails, and
\* running_, cleared before, ends the loop.
Accept ==
    /\ ServerAt("accept")
    /\ \/ \E c \in Clients :
             /\ serving
             /\ conn[c].at = "queued"
             /\ conn' = [conn EXCEPT ![c].at = "served"]
             /\ server' = [server EXCEPT !.at = "recv", !.client = c]
       \/ /\ ~serving
          /\ server' = [server EXCEPT !.at = "ended"]
          /\ UNCHANGED conn
    /\ UNCHANGED <<role, main, failed, motors, running, estop, seen, holder,
                   moveVars, serving, signal>>

Sent == conn[server.client].sent

\* Mutant: a connection that closes without a command ends the thread.
Recv_GivesUp ==
    /\ ServerAt("recv")
    /\ Sent # "nothing"
    /\ server' = [server EXCEPT !.at = IF Sent = "closed" THEN "ended" ELSE "handle"]
    /\ UNCHANGED <<role, main, failed, motors, running, estop, seen, holder,
                   moveVars, serving, conn, signal>>

\* One recv(), without a timeout: it waits for the client to send or close.
Recv ==
    /\ ServerAt("recv")
    /\ Sent # "nothing"
    /\ server' = [server EXCEPT !.at = IF Sent = "closed" THEN "reply" ELSE "handle"]
    /\ UNCHANGED <<role, main, failed, motors, running, estop, seen, holder,
                   moveVars, serving, conn, signal>>

\* The handlers that call a method of each safety manager in turn.
PerArm == role = "follower" /\ Sent \in {"estop", "reset_safety"}

\* The handlers that clear keep_running.
Clears == Sent = "shutdown" \/ (role = "leader" /\ Sent = "estop")

\* A handler that touches no manager, or an unknown command.
HandleFlags ==
    /\ ServerAt("handle")
    /\ ~PerArm
    /\ running' = (running /\ ~Clears)
    /\ pending' = IF role = "follower" /\ Sent \in Moves
                  THEN [pending EXCEPT ![Sent] = server.client] ELSE pending
    /\ server' = [server EXCEPT !.at = "reply"]
    /\ UNCHANGED <<role, main, failed, motors, estop, seen, holder, busy, mover,
                   undone, serving, conn, signal>>

HandlerEnters ==
    /\ ServerAt("handle")
    /\ PerArm
    /\ ~Holds("server", server.arm)
    /\ Lock("server", server.arm)
    /\ estop' = [estop EXCEPT ![server.arm] = (Sent = "estop")]
    /\ undone' = undone \ {server.arm}
    /\ UNCHANGED <<role, main, failed, motors, running, seen, pending, busy, mover,
                   serving, server, conn, signal>>

\* trigger_estop and reset log under the manager's mutex.
HandlerLogs ==
    /\ ServerAt("handle")
    /\ PerArm
    /\ Holds("server", server.arm)
    /\ ~Holds("server", Log)
    /\ Lock("server", Log)
    /\ UNCHANGED <<role, main, failed, motors, running, estop, seen, moveVars,
                   serving, server, conn, signal>>

\* Mutant: the handler answers after the first arm.
HandlerLeaves_FirstArm ==
    /\ ServerAt("handle")
    /\ PerArm
    /\ Holds("server", Log)
    /\ Unlock("server")
    /\ server' = [server EXCEPT !.at = "reply"]
    /\ UNCHANGED <<role, main, failed, motors, running, estop, seen, moveVars,
                   serving, conn, signal>>

HandlerLeaves ==
    /\ ServerAt("handle")
    /\ PerArm
    /\ Holds("server", Log)
    /\ Unlock("server")
    /\ server' = IF server.arm < LastArm THEN [server EXCEPT !.arm = @ + 1]
                 ELSE [server EXCEPT !.at = "reply", !.arm = 1]
    /\ UNCHANGED <<role, main, failed, motors, running, estop, seen, moveVars,
                   serving, conn, signal>>

\* send() and close().
Reply ==
    /\ ServerAt("reply")
    /\ conn' = [conn EXCEPT ![server.client] = [at |-> "answered", sent |-> "nothing"]]
    /\ server' = [server EXCEPT !.at = "accept", !.client = NoClient]
    /\ undone' = {}
    /\ UNCHANGED <<role, main, failed, motors, running, estop, seen, holder,
                   pending, busy, mover, serving, signal>>

Server ==
    /\ ~Interrupted("server")
    /\ \/ Accept
       \/ Recv
       \/ HandleFlags
       \/ HandlerEnters
       \/ HandlerLogs
       \/ HandlerLeaves
       \/ Reply

----------------------------------------------------------------------------
(* The detached threads.                                                   *)

MoverAt(c, point) == mover[c].at = point /\ Alive

\* AdjustPosition or MoveToPose drives both arms to their end.
MoverMoves(c) ==
    /\ MoverAt(c, "moves")
    /\ mover' = [mover EXCEPT ![c].at = "resets"]
    /\ UNCHANGED <<role, main, failed, motors, running, estop, seen, holder,
                   pending, busy, undone, serving, server, conn, signal>>

\* SafetyManager::reset of one arm: enter, log, leave.
MoverEnters(c) ==
    /\ MoverAt(c, "resets")
    /\ ~Holds(c, mover[c].arm)
    /\ Lock(c, mover[c].arm)
    /\ estop' = [estop EXCEPT ![mover[c].arm] = FALSE]
    /\ undone' = IF server.at \in {"handle", "reply"}
                 THEN undone \cup {mover[c].arm} ELSE undone
    /\ UNCHANGED <<role, main, failed, motors, running, seen, pending, busy, mover,
                   serving, server, conn, signal>>

MoverLogs(c) ==
    /\ MoverAt(c, "resets")
    /\ Holds(c, mover[c].arm)
    /\ ~Holds(c, Log)
    /\ Lock(c, Log)
    /\ UNCHANGED <<role, main, failed, motors, running, estop, seen, moveVars,
                   serving, server, conn, signal>>

MoverLeaves(c) ==
    /\ MoverAt(c, "resets")
    /\ Holds(c, Log)
    /\ Unlock(c)
    /\ mover' = IF mover[c].arm < LastArm THEN [mover EXCEPT ![c].arm = 2]
                ELSE [mover EXCEPT ![c].at = "clears", ![c].arm = 1]
    /\ UNCHANGED <<role, main, failed, motors, running, estop, seen, pending, busy,
                   undone, serving, server, conn, signal>>

\* ..._in_progress = false
MoverClears(c) ==
    /\ MoverAt(c, "clears")
    /\ busy' = busy \ {mover[c].kind}
    /\ mover' = [mover EXCEPT ![c].at = "logs"]
    /\ UNCHANGED <<role, main, failed, motors, running, estop, seen, holder,
                   pending, undone, serving, server, conn, signal>>

\* The last message, and the thread ends.
MoverEnds(c) ==
    /\ MoverAt(c, "logs")
    /\ holder[Log] = "none"
    /\ mover' = [mover EXCEPT ![c] = NoMover]
    /\ UNCHANGED <<role, main, failed, motors, running, estop, seen, holder,
                   pending, busy, undone, serving, server, conn, signal>>

Mover(c) ==
    /\ ~Interrupted(c)
    /\ \/ MoverMoves(c)
       \/ MoverEnters(c)
       \/ MoverLogs(c)
       \/ MoverLeaves(c)
       \/ MoverClears(c)
       \/ MoverEnds(c)

----------------------------------------------------------------------------
(* The clients and the signal.                                             *)

\* The kernel completes connections while the socket listens.
Connect(c) ==
    /\ Alive
    /\ serving
    /\ conn[c].at = "away"
    /\ conn' = [conn EXCEPT ![c].at = "queued"]
    /\ UNCHANGED <<role, main, failed, motors, running, estop, seen, holder,
                   moveVars, serving, server, signal>>

\* A client sends its command, or closes without one.  What comes before the
\* connection is accepted is read after it, as if it came then.
ClientSends(c) ==
    /\ Alive
    /\ conn[c].at = "served"
    /\ conn[c].sent = "nothing"
    /\ \E what \in Requests[c] \cup {"closed"} : conn' = [conn EXCEPT ![c].sent = what]
    /\ UNCHANGED <<role, main, failed, motors, running, estop, seen, holder,
                   moveVars, serving, server, signal>>

(***************************************************************************)
(* A thread that holds none of the mutexes is only held up by the handler: *)
(* whichever it is, it is "other" here, and the thread goes on or not.  A *)
(* message of a receiver (a failed poll or recvfrom, a jump in the         *)
(* sequence numbers) and the last one of a mover change nothing but the    *)
(* log's mutex, so that only the one in which the signal strikes is kept.  *)
(***************************************************************************)
StrikesMessage(t) ==
    /\ \/ t = "receiver" /\ ReceiverRuns
       \/ t \in Clients /\ mover[t].at = "logs"
    /\ Lock(t, Log)

StrikesThread(t) ==
    /\ t = "other" \/ \E m \in Mutexes : Holds(t, m)
    /\ UNCHANGED holder

\* SIGINT interrupts any live thread.
SignalArrives ==
    /\ Alive
    /\ signal.on = "none"
    /\ \E t \in Threads :
           /\ StrikesThread(t) \/ StrikesMessage(t)
           /\ signal' = [signal EXCEPT !.on = t]
    /\ UNCHANGED <<role, main, failed, motors, running, estop, seen, moveVars,
                   serving, server, conn>>

\* The managers exist once main() has created them.
ManagersExist == HasManagers /\ ~(At("startup") /\ main.at = 1)

\* The next step of the handler after the message or after one manager.
AfterStep(n) ==
    IF n < LastArm /\ ManagersExist THEN n + 1 ELSE 3

\* LOG_INFO, then trigger_estop() on the managers, then keep_running.
Handler ==
    /\ Alive
    /\ signal.on # "none"
    /\ ~HandlerEnded
    /\ \A m \in Mutexes : Needs(m) => holder[m] = "none"
    /\ estop' = [a \in Arms |-> estop[a] \/ signal.at = a]
    /\ running' = (running /\ signal.at # 3)
    /\ signal' = [signal EXCEPT !.at = IF @ = 3 THEN 4 ELSE AfterStep(@)]
    /\ UNCHANGED <<role, main, failed, motors, seen, holder, moveVars, serving,
                   server, conn>>

Terminated == ~Alive /\ UNCHANGED vars

\* The only standstill of a live process.
Stuck == SelfDeadlock /\ UNCHANGED vars

Next ==
    \/ Main
    \/ Server
    \/ \E c \in Clients : Mover(c) \/ Connect(c) \/ ClientSends(c)
    \/ SignalArrives
    \/ Handler
    \/ Terminated
    \/ Stuck

Spec == Init /\ [][Next]_vars

(***************************************************************************)
(* The threads run.  The server and the handler get a mutex that is free   *)
(* again and again (strong fairness): the loop sleeps most of each period  *)
(* and holds a mutex only for the length of a method.  A client need not   *)
(* send anything, ever.                                                    *)
(***************************************************************************)
Fairness ==
    /\ WF_vars(Main)
    /\ SF_vars(Server)
    /\ SF_vars(Handler)
    /\ \A c \in Clients : WF_vars(Mover(c))

FairSpec == Spec /\ Fairness

----------------------------------------------------------------------------
(* Properties.                                                             *)

AllOff == \A a \in Arms : ~motors[a]

\* The loop has begun.
Started == ~At("startup") /\ failed = "none"

(***************************************************************************)
(* A program that ends has the motors off, whether it ran or gave up at a  *)
(* verification (the arms initialised so far are disabled), and no handler *)
(* outlives main: stop() waits for its thread.  (The objects a handler     *)
(* uses may go earlier: see the README.)  The other start-up failures      *)
(* return with the motors enabled (follower lines 419-441, leader lines    *)
(* 312-345, 378-383, 463-467 and 607-610).                                 *)
(***************************************************************************)
CleanExit ==
    ~Alive =>
        /\ failed \in {"none", "verify"} => AllOff
        /\ server.at \in {"none", "ended"}

\* The arm is stopped, or a mover has reset it since it was.
StopHolds(a) == estop[a] \/ a \in undone

(***************************************************************************)
(* When the follower answers an estop (lines 316-320) an arm may have lost *)
(* its stop again in one way only: a detached thread, started by another   *)
(* client's recover_estop, init_position or goto_pose, has reset its       *)
(* manager since the handler stopped it (lines 484-485, 507-508, 536-537). *)
(* The loop, the signal handler and other clients' commands, a later       *)
(* reset_safety among them, take no stop back before the answer.           *)
(***************************************************************************)
AnsweredEstopHolds ==
    server.at = "reply" /\ role = "follower" /\ Sent = "estop" =>
        \A a \in Arms : StopHolds(a)

\* A thread waits for a client that has sent nothing.
ServesSilence == ServerAt("recv") /\ Sent = "nothing"

(***************************************************************************)
(* Once the loop has begun, clearing keep_running (a shutdown command or   *)
(* SIGINT) turns the motors off, also while a silent client keeps the      *)
(* server thread in recv() for ever: disable_all comes before the server   *)
(* is stopped.  The exception is a handler that waits for its own thread.  *)
(***************************************************************************)
ShutdownTurnsMotorsOff ==
    ~running /\ Started ~> AllOff \/ SelfDeadlock

\* The process ends after keep_running is cleared, or after a failed
\* start-up, if every client it serves sends or closes in the end.
ProcessEnds ==
    []<>(~ServesSilence) =>
        (~running \/ failed # "none" ~> ~Alive \/ SelfDeadlock)

\* Every connection is answered or reset, if every client that is served
\* sends or closes in the end: one that closes without a command, or with an
\* unknown one, stops nobody (server lines 96-121).
ConnectionsAreAnswered ==
    \A c \in Clients :
        []<>(~ServesSilence) =>
            (conn[c].at = "queued" ~>
                conn[c].at \in {"answered", "reset"} \/ ~Alive \/ SelfDeadlock)

\* What docs/safety.md says of Ctrl+C: once the loop runs it disables the
\* motors.
CtrlCTurnsMotorsOff ==
    signal.on # "none" /\ Started ~> AllOff

----------------------------------------------------------------------------
(* The inductive invariant of the two safety properties.                   *)

(***************************************************************************)
(* A failed start-up goes straight to the end; the motors that are on are  *)
(* those of the program's own arms, go off arm by arm, and are off behind  *)
(* disable_all or a failed verification.  A server thread that was started *)
(* is served until main waits for it.                                      *)
(***************************************************************************)
ExitInv ==
    /\ At("startup") => main.at <= Len(StartUp(role))
    /\ At("take") => role = "follower" /\ main.at <= Len(MoveOrder)
    /\ failed # "none" => main.phase \in {"stop", "stopped", "close", "join", "exited"}
    /\ failed = "verify" => AllOff
    /\ \A a \in Arms : motors[a] => a <= LastArm
    /\ At("disable") => \A a \in Arms : a < main.at => ~motors[a]
    /\ failed = "none" /\ main.phase \in {"close", "join", "exited"} => AllOff
    /\ server.at # "none" => serving \/ main.phase \in {"join", "exited"}
    /\ ~Alive => server.at \in {"none", "ended"}

(***************************************************************************)
(* The server is started once.  The connection it serves and the command   *)
(* that came over it stay what they are.  The thread holds mutexes only in *)
(* a handler that goes through the managers, the log's only with the       *)
(* manager's; and an estop has stopped the arms it has left and the one    *)
(* whose manager it holds, but for those a mover has reset since.          *)
(***************************************************************************)
EstopInv ==
    /\ At("startup") /\ server.at # "none" =>
           \A i \in DOMAIN StartUp(role) :
               i >= main.at => StartUp(role)[i].do # "server"
    /\ server.at \in {"recv", "handle", "reply"} =>
           server.client \in Clients /\ conn[server.client].at = "served"
    /\ server.at \in {"handle", "reply"} => Sent # "nothing"
    /\ server.arm > 1 => server.at = "handle" /\ PerArm
    /\ \A m \in Mutexes :
           Holds("server", m) =>
               server.at = "handle" /\ PerArm /\ m \in {Log, server.arm}
    /\ Holds("server", Log) => Holds("server", server.arm)
    /\ server.at = "handle" /\ PerArm /\ Sent = "estop" =>
           \A a \in Arms : a < server.arm \/ Holds("server", a) => StopHolds(a)
    /\ AnsweredEstopHolds

IInv == TypeOK /\ ExitInv /\ EstopInv
=============================================================================
