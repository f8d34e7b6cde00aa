------------------------- MODULE WiredControlProofs -------------------------
(***************************************************************************)
(* Proofs about the wired programs, for every bound on the ages and every  *)
(* order of the threads within a period.                                   *)
(***************************************************************************)
EXTENDS WiredControl, SequenceTheorems, TLAPS

----------------------------------------------------------------------------
(* The programs of the threads.                                            *)

Word == {"respond", "refer", "send", "arm", "hand", "both", "leader", "follower"}
Operations == Seq(Word \X Word)

\* The operations of one list after another.
LEMMA Joined ==
    ASSUME NEW s \in Operations, NEW t \in Operations
    PROVE  /\ Len(s \o t) = Len(s) + Len(t)
           /\ \A i \in 1 .. Len(s) + Len(t) : (s \o t)[i] =
                  IF i <= Len(s) THEN s[i] ELSE t[i - Len(s)]
    BY ConcatProperties DEF Operations

\* unilateral_step is two responses and three more operations.
LEMMA UnilateralProgram ==
    ASSUME NEW r \in Robots
    PROVE  /\ Len(UnilateralStep(r)) = 5
           /\ UnilateralStep(r)[1] = <<"respond", "arm">>
           /\ UnilateralStep(r)[2] = <<"respond", "hand">>
           /\ UnilateralStep(r)[3] # <<"send", "both">>
           /\ UnilateralStep(r)[4] # <<"send", "both">>
           /\ UnilateralStep(r)[5] = <<"send", "both">>
<1> DEFINE first == << <<"respond", "arm">>, <<"respond", "hand">> >>
           then == IF r = "leader" THEN LeaderStep
                   ELSE << <<"refer", "arm">>, <<"refer", "hand">>, <<"send", "both">> >>
<1>1. UnilateralStep(r) = first \o then
    BY DEF UnilateralStep
<1>2. /\ first \in Operations /\ Len(first) = 2
      /\ first[1] = <<"respond", "arm">> /\ first[2] = <<"respond", "hand">>
    BY DEF Operations, Word
<1>3. /\ then \in Operations /\ Len(then) = 3
      /\ then[1] # <<"send", "both">> /\ then[2] # <<"send", "both">>
      /\ then[3] = <<"send", "both">>
    <2>1. CASE r = "leader"
        BY <2>1 DEF LeaderStep, Operations, Word
    <2>2. CASE r # "leader"
        BY <2>2 DEF Operations, Word
    <2> QED
        BY <2>1, <2>2
<1> HIDE DEF first, then
<1>4. /\ Len(first \o then) = Len(first) + Len(then)
      /\ \A i \in 1 .. Len(first) + Len(then) : (first \o then)[i] =
             IF i <= Len(first) THEN first[i] ELSE then[i - Len(first)]
    BY <1>2, <1>3, Joined, Zenon
<1> DEFINE u == first \o then
<1>5. Len(u) = 5 /\ \A i \in 1 .. 5 : u[i] = IF i <= 2 THEN first[i] ELSE then[i - 2]
    BY <1>2, <1>3, <1>4
<1> HIDE DEF u
<1>6. /\ u[1] = first[1] /\ u[2] = first[2]
      /\ u[3] = then[1] /\ u[4] = then[2] /\ u[5] = then[3]
    BY <1>5
<1>7. UnilateralStep(r) = u
    BY <1>1 DEF u
<1> QED
    BY <1>2, <1>3, <1>5, <1>6, <1>7

\* The control threads respond first and send last.
LEMMA ControlProgram ==
    ASSUME NEW r \in Robots
    PROVE  /\ Len(Program(r)) = 5
           /\ Program(r)[1] = <<"respond", "arm">>
           /\ Program(r)[2] = <<"respond", "hand">>
           /\ Program(r)[3] # <<"send", "both">>
           /\ Program(r)[4] # <<"send", "both">>
           /\ Program(r)[5] = <<"send", "both">>
<1>1. r # "admin"
    BY DEF Robots
<1>2. CASE bilateral
    BY <1>1, <1>2 DEF Program, BilateralStep
<1>3. CASE ~bilateral
    <2>1. Program(r) = UnilateralStep(r)
        BY <1>1, <1>3 DEF Program
    <2> QED
        BY <2>1, UnilateralProgram
<1> QED
    BY <1>2, <1>3

\* The admin thread copies each part of each robot once out and once in.
LEMMA AdminProgram ==
    /\ Len(AdminGets) = 4
    /\ Len(Program("admin")) = 8
    /\ \A n \in 1 .. 8 : \A r \in Robots, p \in Parts :
           Program("admin")[n] = <<r, p>> =>
               n = IF n <= 4 THEN GetAt[r][p] ELSE SetAt[r][p]
<1>g. AdminGets \in Operations /\ Len(AdminGets) = 4
    BY DEF AdminGets, Operations, Word
<1>s. AdminSets \in Operations /\ Len(AdminSets) = 4
    BY DEF AdminSets, Operations, Word
<1>p. Program("admin") = AdminGets \o AdminSets
    BY DEF Program
<1>4. /\ Len(AdminGets \o AdminSets) = Len(AdminGets) + Len(AdminSets)
      /\ \A i \in 1 .. Len(AdminGets) + Len(AdminSets) : (AdminGets \o AdminSets)[i] =
             IF i <= Len(AdminGets) THEN AdminGets[i] ELSE AdminSets[i - Len(AdminGets)]
    BY <1>g, <1>s, Joined, Zenon
<1> DEFINE u == AdminGets \o AdminSets
<1>1. Len(u) = 8 /\ \A i \in 1 .. 8 : u[i] = IF i <= 4 THEN AdminGets[i] ELSE AdminSets[i - 4]
    BY <1>g, <1>s, <1>4
<1>5. Program("admin") = u
    BY <1>p
<1> HIDE DEF u
<1>2. Len(AdminGets) = 4 /\ Len(Program("admin")) = 8
    BY <1>1, <1>5, <1>g
<1>3. ASSUME NEW n \in 1 .. 8, NEW r \in Robots, NEW p \in Parts,
             Program("admin")[n] = <<r, p>>
      PROVE  n = IF n <= 4 THEN GetAt[r][p] ELSE SetAt[r][p]
    <2>1. n \in {1, 2, 3, 4, 5, 6, 7, 8}
        OBVIOUS
    <2>2. CASE n <= 4
        <3>1. AdminGets[n] = <<r, p>>
            BY <1>1, <1>3, <1>5, <2>2
        <3> QED
            BY <2>1, <2>2, <3>1 DEF AdminGets, GetAt
    <2>3. CASE n > 4
        <3>1. AdminSets[n - 4] = <<r, p>> /\ n - 4 \in 1 .. 4
            BY <1>1, <1>3, <1>5, <2>3
        <3>2. n - 4 \in {1, 2, 3, 4}
            BY <3>1
        <3> QED
            BY <2>1, <2>3, <3>1, <3>2 DEF AdminSets, SetAt
    <2> QED
        BY <2>1, <2>2, <2>3
<1> QED
    BY <1>2, <1>3

\* The programs fit the type of a thread's position.
LEMMA ProgramLength ==
    ASSUME NEW t \in Threads
    PROVE  Len(Program(t)) \in {5, 8}
<1>1. CASE t \in Robots
    BY <1>1, ControlProgram
<1>2. CASE t = "admin"
    BY <1>2, AdminProgram
<1> QED
    BY <1>1, <1>2 DEF Threads

----------------------------------------------------------------------------
(* Typing, and the threads in their programs.                              *)

ThreadRecord == [run : BOOLEAN, at : 0 .. 8,
                 state : {"none", "head", "work", "sleep", "ended"}]

\* A thread's position and state may change together.
LEMMA RecordUpdate ==
    ASSUME NEW x \in ThreadRecord, NEW n \in 0 .. 8,
           NEW s \in {"none", "head", "work", "sleep", "ended"}
    PROVE  [x EXCEPT !.at = n, !.state = s] \in ThreadRecord
<1> DEFINE y == [x EXCEPT !.at = n]
<1>1. y \in ThreadRecord
    BY DEF ThreadRecord
<1>2. [y EXCEPT !.state = s] \in ThreadRecord
    <2> HIDE DEF y
    <2> QED
        BY <1>1 DEF ThreadRecord
<1> QED
    BY <1>2, Zenon

\* A thread that proceeds does the next operation of its program, or sleeps
\* behind the last one; the others stay where they are.
LEMMA ProceedFacts ==
    ASSUME thread \in [Threads -> ThreadRecord], ProgramInv, UNCHANGED bilateral,
           NEW t \in Threads, thread[t].state = "work", Proceed(t)
    PROVE  /\ thread' \in [Threads -> ThreadRecord]
           /\ ProgramInv'
           /\ \A u \in Threads : u # t => thread'[u] = thread[u]
           /\ thread'[t].run = thread[t].run
           /\ \/ /\ thread[t].at \in 1 .. Len(Program(t)) - 1
                 /\ thread'[t].state = "work" /\ thread'[t].at = thread[t].at + 1
              \/ /\ thread[t].at = Len(Program(t))
                 /\ thread'[t].state = "sleep"
<1>1. thread[t].at \in 1 .. Len(Program(t)) /\ Len(Program(t)) \in {5, 8}
    BY ProgramLength DEF ProgramInv
<1>2. \A n \in {5, 8} : \A i \in 1 .. n : i \in Nat /\ i <= n /\ i >= 1 /\ n \in Nat /\ n <= 8
    OBVIOUS
<1>3. /\ thread[t].at \in Nat /\ thread[t].at >= 1 /\ Len(Program(t)) \in Nat
      /\ thread[t].at <= Len(Program(t)) /\ Len(Program(t)) <= 8
    BY <1>1, <1>2
<1>p. \A u \in Threads : Program(u)' = Program(u)
    BY DEF Program
<1>r. thread[t] \in ThreadRecord
    OBVIOUS
<1>e. thread' = [thread EXCEPT ![t] =
          IF thread[t].at < Len(Program(t)) THEN [thread[t] EXCEPT !.at = thread[t].at + 1]
          ELSE [thread[t] EXCEPT !.at = 0, !.state = "sleep"]]
    BY DEF Proceed
<1>4. CASE thread[t].at < Len(Program(t))
    <2>1. thread' = [thread EXCEPT ![t] = [thread[t] EXCEPT !.at = thread[t].at + 1]]
        BY <1>4, <1>e
    <2>2. thread[t].at + 1 \in 0 .. 8
        BY <1>3, <1>4
    <2>3. [thread[t] EXCEPT !.at = thread[t].at + 1] \in ThreadRecord
        BY <2>2 DEF ThreadRecord
    <2>4. /\ thread' \in [Threads -> ThreadRecord]
          /\ \A u \in Threads : u # t => thread'[u] = thread[u]
        BY <2>1, <2>3
    <2>5. /\ thread'[t].run = thread[t].run /\ thread'[t].state = "work"
          /\ thread'[t].at = thread[t].at + 1
        BY <2>1 DEF ThreadRecord
    <2>6. thread[t].at \in 1 .. Len(Program(t)) - 1 /\ thread[t].at + 1 \in 1 .. Len(Program(t))
        BY <1>3, <1>4
    <2>7. ProgramInv'
        BY <1>p, <2>4, <2>5, <2>6 DEF ProgramInv
    <2> QED
        BY <2>4, <2>5, <2>6, <2>7
<1>5. CASE ~(thread[t].at < Len(Program(t)))
    <2>1. thread' = [thread EXCEPT ![t] = [thread[t] EXCEPT !.at = 0, !.state = "sleep"]]
        BY <1>5, <1>e
    <2>3. [thread[t] EXCEPT !.at = 0, !.state = "sleep"] \in ThreadRecord
        <3>1. 0 \in 0 .. 8
            OBVIOUS
        <3> QED
            BY <1>r, <3>1, RecordUpdate, Zenon
    <2>4. /\ thread' \in [Threads -> ThreadRecord]
          /\ \A u \in Threads : u # t => thread'[u] = thread[u]
        BY <2>1, <2>3
    <2>5. thread'[t].run = thread[t].run /\ thread'[t].state = "sleep"
        BY <2>1 DEF ThreadRecord
    <2>6. thread[t].at = Len(Program(t))
        BY <1>3, <1>5
    <2>7. ProgramInv'
        BY <1>p, <2>4, <2>5 DEF ProgramInv
    <2> QED
        BY <2>4, <2>5, <2>6, <2>7
<1> QED
    BY <1>4, <1>5

\* Every step preserves the types and keeps the threads in their programs.
LEMMA TypeStep ==
    ASSUME TypeOK, ProgramInv, [Next]_vars
    PROVE  TypeOK' /\ ProgramInv'
<1>t. thread \in [Threads -> ThreadRecord]
    BY DEF TypeOK, ThreadRecord
<1>m. main \in [phase : {"start", "wait", "stop", "join", "disable", "done"}, at : 1 .. 3]
    BY DEF TypeOK
<1>a. MaxAge \in Nat
    BY WiredAssumption DEF WiredAssumption
<1>d. /\ resp \in [Robots -> [Parts -> Age]] /\ copy \in [Robots -> [Parts -> Age]]
      /\ ref \in [Robots -> [Parts -> Reference]] /\ used \in [Robots -> [Parts -> Reference]]
      /\ motor \in [Robots -> Age] /\ 0 \in Age /\ Home \in Reference
    BY <1>a DEF TypeOK, Age, Home, Reference
<1>r. Robots \subseteq Threads /\ "admin" \in Threads
    BY DEF Threads
<1>o. \A i \in 1 .. 3 : Order[i] \in Threads
    BY DEF Order, Threads, Robots
<1>f. ASSUME UNCHANGED <<bilateral, thread>> PROVE ProgramInv'
    BY <1>f DEF ProgramInv, Program
<1>1. ASSUME NEW r \in Robots, NEW p \in Parts, Respond(r, p)
      PROVE  TypeOK' /\ ProgramInv'
    <2>1. thread' \in [Threads -> ThreadRecord] /\ ProgramInv'
        BY <1>1, <1>r, <1>t, ProceedFacts DEF Respond, Doing
    <2>2. resp' \in [Robots -> [Parts -> Age]]
        BY <1>1, <1>d DEF Respond
    <2> QED
        BY <1>1, <2>1, <2>2 DEF Respond, TypeOK, ThreadRecord
<1>2. ASSUME NEW r \in Robots, NEW p \in Parts, Refer(r, p)
      PROVE  TypeOK' /\ ProgramInv'
    <2>1. thread' \in [Threads -> ThreadRecord] /\ ProgramInv'
        BY <1>2, <1>r, <1>t, ProceedFacts DEF Refer, Doing
    <2>2. used' \in [Robots -> [Parts -> Reference]]
        BY <1>2, <1>d DEF Refer
    <2> QED
        BY <1>2, <2>1, <2>2 DEF Refer, TypeOK, ThreadRecord
<1>3. ASSUME NEW r \in Robots, SendCommands(r)
      PROVE  TypeOK' /\ ProgramInv'
    <2>1. thread' \in [Threads -> ThreadRecord] /\ ProgramInv'
        BY <1>3, <1>r, <1>t, ProceedFacts DEF SendCommands, Doing
    <2>2. used' \in [Robots -> [Parts -> Reference]] /\ motor' \in [Robots -> Age]
        BY <1>3, <1>d DEF SendCommands
    <2> QED
        BY <1>3, <2>1, <2>2 DEF SendCommands, TypeOK, ThreadRecord
<1>4. ASSUME NEW r \in Robots, NEW p \in Parts, AdminGet(r, p)
      PROVE  TypeOK' /\ ProgramInv'
    <2>1. thread' \in [Threads -> ThreadRecord] /\ ProgramInv'
        BY <1>4, <1>r, <1>t, ProceedFacts DEF AdminGet, Doing
    <2>2. copy' \in [Robots -> [Parts -> Age]]
        BY <1>4, <1>d DEF AdminGet
    <2> QED
        BY <1>4, <2>1, <2>2 DEF AdminGet, TypeOK, ThreadRecord
<1>5. ASSUME NEW r \in Robots, NEW p \in Parts, AdminSet(r, p)
      PROVE  TypeOK' /\ ProgramInv'
    <2>1. thread' \in [Threads -> ThreadRecord] /\ ProgramInv'
        BY <1>5, <1>r, <1>t, ProceedFacts DEF AdminSet, Doing
    <2>2. Peer(r) \in Robots
        BY DEF Peer, Robots
    <2>3. [peer |-> TRUE, age |-> copy[Peer(r)][p]] \in Reference
        BY <1>d, <2>2 DEF Reference
    <2>4. ref' \in [Robots -> [Parts -> Reference]]
        BY <1>5, <1>d, <2>3 DEF AdminSet
    <2> QED
        BY <1>5, <2>1, <2>4 DEF AdminSet, TypeOK, ThreadRecord
<1>6. ASSUME NEW t \in Threads, TimerHead(t)
      PROVE  TypeOK' /\ ProgramInv'
    <2>0. thread[t] \in ThreadRecord
        BY <1>t
    <2>1. [thread[t] EXCEPT !.at = 1, !.state = "work"] \in ThreadRecord
        <3>1. 1 \in 0 .. 8
            OBVIOUS
        <3> QED
            BY <2>0, <3>1, RecordUpdate, Zenon
    <2>7. [thread[t] EXCEPT !.state = "ended"] \in ThreadRecord
        BY <2>0 DEF ThreadRecord
    <2>2. thread' = [thread EXCEPT ![t] =
              IF thread[t].run THEN [thread[t] EXCEPT !.at = 1, !.state = "work"]
              ELSE [thread[t] EXCEPT !.state = "ended"]]
        BY <1>6 DEF TimerHead
    <2>3. thread' \in [Threads -> ThreadRecord]
        BY <1>t, <2>1, <2>2, <2>7
    <2>4. Len(Program(t)) \in {5, 8} /\ \A n \in {5, 8} : 1 \in 1 .. n
        BY ProgramLength
    <2>5. \A u \in Threads : Program(u)' = Program(u)
        BY <1>6 DEF TimerHead, Program
    <2>6. ProgramInv'
        <3>1. \A u \in Threads : u # t => thread'[u] = thread[u]
            BY <2>2, <1>t
        <3>2. thread'[t].state = "work" => thread'[t].at = 1
            BY <1>t, <2>2 DEF ThreadRecord
        <3> QED
            BY <2>4, <2>5, <3>1, <3>2 DEF ProgramInv
    <2> QED
        BY <1>6, <2>3, <2>6 DEF TimerHead, TypeOK, ThreadRecord
<1>7. CASE Period
    <2>1. thread' \in [Threads -> ThreadRecord]
        BY <1>7, <1>t DEF Period, PassPeriod, ThreadRecord
    <2>2. \A t \in Threads : thread'[t].state = "work" => thread'[t] = thread[t]
        BY <1>7, <1>t DEF Period, PassPeriod, ThreadRecord
    <2>3. ProgramInv'
        BY <1>7, <2>2 DEF Period, PassPeriod, ProgramInv, Program
    <2>4. ASSUME NEW n \in Age PROVE (IF n < MaxAge THEN n + 1 ELSE n) \in Age
        BY <1>a DEF Age
    <2>5. ASSUME NEW x \in Reference
          PROVE  [x EXCEPT !.age = IF @ < MaxAge THEN @ + 1 ELSE @] \in Reference
        BY <1>a DEF Reference, Age
    <2>6. motor' \in [Robots -> Age]
        BY <1>7, <1>d, <2>4 DEF Period, PassPeriod
    <2>7. resp' \in [Robots -> [Parts -> Age]] /\ copy' \in [Robots -> [Parts -> Age]]
        BY <1>7, <1>d, <2>4 DEF Period, PassPeriod
    <2>8. ref' \in [Robots -> [Parts -> Reference]] /\ used' \in [Robots -> [Parts -> Reference]]
        BY <1>7, <1>d, <2>5 DEF Period, PassPeriod
    <2> QED
        BY <1>7, <2>1, <2>3, <2>6, <2>7, <2>8 DEF Period, PassPeriod, TypeOK, ThreadRecord
<1>8. CASE StartThread
    <2>1. Order[main.at] \in Threads
        BY <1>m, <1>o
    <2>2. thread' = [thread EXCEPT ![Order[main.at]] = [run |-> TRUE, at |-> 0, state |-> "head"]]
        BY <1>8 DEF StartThread
    <2>0. [run |-> TRUE, at |-> 0, state |-> "head"] \in ThreadRecord
        BY DEF ThreadRecord
    <2>3. thread' \in [Threads -> ThreadRecord]
        BY <1>t, <2>0, <2>2
    <2>4. ProgramInv'
        BY <1>8, <1>t, <2>2 DEF StartThread, ProgramInv, Program
    <2>5. main' \in [phase : {"start", "wait", "stop", "join", "disable", "done"}, at : 1 .. 3]
        BY <1>8, <1>m DEF StartThread, NextOf
    <2> QED
        BY <1>8, <2>3, <2>4, <2>5 DEF StartThread, TypeOK, ThreadRecord
<1>9. CASE Wait
    <2>1. main' \in [phase : {"start", "wait", "stop", "join", "disable", "done"}, at : 1 .. 3]
        BY <1>9 DEF Wait
    <2> QED
        BY <1>9, <1>f, <2>1 DEF Wait, TypeOK
<1>10. CASE StopThread
    <2>1. thread' = [thread EXCEPT ![Order[main.at]].run = FALSE]
        BY <1>10 DEF StopThread
    <2>2. thread' \in [Threads -> ThreadRecord]
        BY <1>t, <2>1 DEF ThreadRecord
    <2>3. \A t \in Threads : thread'[t].state = thread[t].state /\ thread'[t].at = thread[t].at
        BY <1>t, <2>1 DEF ThreadRecord
    <2>4. ProgramInv'
        BY <1>10, <2>3 DEF StopThread, ProgramInv, Program
    <2>5. main' \in [phase : {"start", "wait", "stop", "join", "disable", "done"}, at : 1 .. 3]
        BY <1>10, <1>m DEF StopThread
    <2> QED
        BY <1>10, <2>2, <2>4, <2>5 DEF StopThread, TypeOK, ThreadRecord
<1>11. CASE JoinThread
    <2>1. main' \in [phase : {"start", "wait", "stop", "join", "disable", "done"}, at : 1 .. 3]
        BY <1>11, <1>m DEF JoinThread, JoinThread_Detached
    <2> QED
        BY <1>11, <1>f, <2>1 DEF JoinThread, JoinThread_Detached, TypeOK
<1>12. CASE DisableAll
    <2>1. main' \in [phase : {"start", "wait", "stop", "join", "disable", "done"}, at : 1 .. 3]
        BY <1>12, <1>m DEF DisableAll, NextOf
    <2>2. powered' \in [Robots -> BOOLEAN]
        BY <1>12 DEF DisableAll, TypeOK
    <2> QED
        BY <1>12, <1>f, <2>1, <2>2 DEF DisableAll, TypeOK
<1>13. CASE Signal
    BY <1>13, <1>f DEF Signal, TypeOK
<1>14. CASE UNCHANGED vars
    BY <1>14, <1>f DEF vars, TypeOK
<1> QED
    BY <1>1, <1>2, <1>3, <1>4, <1>5, <1>6, <1>7, <1>8, <1>9, <1>10, <1>11, <1>12, <1>13, <1>14
    DEF Next, Main, Thread, Terminated

----------------------------------------------------------------------------
(* Stopping.                                                               *)

\* A thread that has ended stays so, once main has started them all.
LEMMA EndedStays ==
    ASSUME TypeOK, ProgramInv, [Next]_vars, ~StartThread,
           NEW t \in Threads, thread[t].state = "ended"
    PROVE  thread'[t].state = "ended"
<1>t. thread \in [Threads -> ThreadRecord]
    BY DEF TypeOK, ThreadRecord
<1>r. Robots \subseteq Threads /\ "admin" \in Threads
    BY DEF Threads
<1>1. ASSUME NEW u \in Threads, thread[u].state = "work", Proceed(u), UNCHANGED bilateral
      PROVE  thread'[t].state = "ended"
    <2>1. u # t
        BY <1>1
    <2>2. thread'[t] = thread[t]
        BY <1>1, <1>t, <2>1, ProceedFacts
    <2> QED
        BY <2>2
<1>2. ASSUME NEW u \in Threads, TimerHead(u)
      PROVE  thread'[t].state = "ended"
    BY <1>2, <1>t DEF TimerHead
<1>3. CASE Period
    BY <1>3, <1>t DEF Period, PassPeriod
<1>4. CASE StopThread
    BY <1>4, <1>t DEF StopThread, ThreadRecord
<1>5. CASE UNCHANGED thread
    BY <1>5
<1>6. ASSUME NEW u \in Threads, Thread(u), ~TimerHead(u)
      PROVE  \E v \in Threads : thread[v].state = "work" /\ Proceed(v) /\ UNCHANGED bilateral
    BY <1>6, <1>r DEF Thread, Respond, Refer, SendCommands, AdminGet, AdminSet, Doing
<1>7. ASSUME ~(\E u \in Threads : Thread(u)), ~Period, ~StopThread
      PROVE  UNCHANGED thread
    BY <1>7 DEF Next, Main, Wait, JoinThread, JoinThread_Detached, DisableAll, Signal,
            Terminated, vars
<1> QED
    BY <1>1, <1>2, <1>3, <1>4, <1>5, <1>6, <1>7

\* The steps that are not main's leave main's position and the power alone.
LEMMA MainFrame ==
    ASSUME [Next]_vars, ~Main
    PROVE  UNCHANGED <<main, powered>>
    BY DEF Next, Thread, TimerHead, Respond, Refer, SendCommands, AdminGet, AdminSet,
       Period, PassPeriod, Signal, Terminated, vars

\* main disables a robot only when it has joined every thread.
LEMMA ShutdownStep ==
    ASSUME TypeOK, ProgramInv, ShutdownInv, [Next]_vars
    PROVE  ShutdownInv'
<1>m. main \in [phase : {"start", "wait", "stop", "join", "disable", "done"}, at : 1 .. 3]
    BY DEF TypeOK
<1>o. /\ \A i \in 1 .. 3 : Order[i] \in Threads
      /\ \A t \in Threads : \E i \in 1 .. 3 : Order[i] = t
    BY DEF Order, Threads, Robots
<1>1. CASE StartThread
    <2>1. main'.phase \in {"start", "wait"} /\ main.phase = "start" /\ powered' = powered
        BY <1>1, <1>m DEF StartThread, NextOf
    <2> QED
        BY <2>1 DEF ShutdownInv
<1>2. CASE Wait
    <2>1. main'.phase = "stop" /\ main'.at = 1 /\ main.phase = "wait" /\ powered' = powered
        BY <1>2 DEF Wait
    <2> QED
        BY <2>1 DEF ShutdownInv
<1>e. ~StartThread => \A i \in 1 .. 3 : thread[Order[i]].state = "ended" =>
                                        thread'[Order[i]].state = "ended"
    BY <1>o, EndedStays
<1>3. CASE StopThread
    <2>1. /\ main.phase = "stop" /\ main'.phase = "join" /\ main'.at = main.at
          /\ powered' = powered /\ ~StartThread
        BY <1>3, <1>m DEF StopThread, StartThread
    <2> QED
        BY <1>e, <2>1 DEF ShutdownInv
<1>4. CASE JoinThread
    <2>1. /\ main.phase = "join" /\ powered' = powered /\ ~StartThread
          /\ thread[Order[main.at]].state = "ended" /\ thread' = thread
        BY <1>4 DEF JoinThread, JoinThread_Detached, StartThread
    <2>2. \A i \in 1 .. 3 : i <= main.at => thread[Order[i]].state = "ended"
        BY <1>m, <2>1 DEF ShutdownInv
    <2>3. CASE main.at < 3
        <3>1. main'.phase = "stop" /\ main'.at = main.at + 1
            BY <1>4, <2>3 DEF JoinThread, JoinThread_Detached
        <3>2. \A i \in 1 .. 3 : i < main.at + 1 => i <= main.at
            BY <1>m
        <3> QED
            BY <2>1, <2>2, <3>1, <3>2 DEF ShutdownInv
    <2>4. CASE ~(main.at < 3)
        <3>1. main'.phase = "disable"
            BY <1>4, <2>4 DEF JoinThread, JoinThread_Detached
        <3>2. \A i \in 1 .. 3 : i <= main.at
            BY <1>m, <2>4
        <3>3. \A t \in Threads : thread[t].state = "ended"
            BY <1>o, <2>2, <3>2
        <3> QED
            BY <2>1, <3>1, <3>3 DEF ShutdownInv
    <2> QED
        BY <2>3, <2>4
<1>5. CASE DisableAll
    <2>1. main.phase = "disable" /\ main'.phase \in {"disable", "done"} /\ thread' = thread
        BY <1>5, <1>m DEF DisableAll, NextOf
    <2> QED
        BY <2>1 DEF ShutdownInv
<1>6. CASE ~Main
    <2>1. main' = main /\ powered' = powered /\ ~StartThread
        BY <1>6, MainFrame DEF Main
    <2>2. \A t \in Threads : thread[t].state = "ended" => thread'[t].state = "ended"
        BY <2>1, EndedStays
    <2> QED
        BY <1>e, <2>1, <2>2 DEF ShutdownInv
<1> QED
    BY <1>1, <1>2, <1>3, <1>4, <1>5, <1>6 DEF Main

----------------------------------------------------------------------------
(* Running.                                                                *)

\* main never returns to an earlier phase.
LEMMA PhaseBack ==
    ASSUME TypeOK, [Next]_vars, main'.phase \in {"start", "wait"}, ~StartThread
    PROVE  main' = main /\ ~StopThread
<1>1. ~Wait /\ ~StopThread /\ ~JoinThread /\ ~DisableAll
    BY DEF TypeOK, Wait, StopThread, JoinThread, JoinThread_Detached, DisableAll, NextOf
<1> QED
    BY <1>1, MainFrame DEF Main

\* A step of a thread is the head of its loop or an operation of its program.
LEMMA ThreadStep ==
    ASSUME TypeOK, [Next]_vars, main'.phase \in {"start", "wait"}, ~StartThread, ~Period,
           ~(\E t \in Threads : TimerHead(t)),
           ~(\E t \in Threads : thread[t].state = "work" /\ Proceed(t) /\ UNCHANGED bilateral)
    PROVE  UNCHANGED <<bilateral, motor, resp, ref, copy, used, thread>>
<1>r. Robots \subseteq Threads /\ "admin" \in Threads
    BY DEF Threads
<1>1. ~StopThread
    BY PhaseBack
<1>2. ~(\E t \in Threads : Thread(t))
    BY <1>r DEF Thread, Respond, Refer, SendCommands, AdminGet, AdminSet, Doing
<1> QED
    BY <1>1, <1>2 DEF Next, Main, Wait, JoinThread, JoinThread_Detached, DisableAll, Signal,
       Terminated, vars

\* main starts all threads, and they run until it stops them.
LEMMA RunningStep ==
    ASSUME TypeOK, ProgramInv, RunningInv, [Next]_vars
    PROVE  RunningInv'
<1>1. CASE ~(main'.phase \in {"start", "wait"})
    BY <1>1 DEF RunningInv
<1>2. CASE main'.phase \in {"start", "wait"}
    <2>t. thread \in [Threads -> ThreadRecord]
        BY DEF TypeOK, ThreadRecord
    <2>m. main \in [phase : {"start", "wait", "stop", "join", "disable", "done"}, at : 1 .. 3]
        BY DEF TypeOK
    <2>o. /\ \A i \in 1 .. 3 : Order[i] \in Threads
          /\ \A t \in Threads : \E i \in 1 .. 3 : Order[i] = t
          /\ \A i, j \in 1 .. 3 : Order[i] = Order[j] => i = j
        BY DEF Order, Threads, Robots
    <2>1. CASE StartThread
        <3> DEFINE n == main.at
        <3>1. n \in 1 .. 3 /\ Order[n] \in Threads
            BY <2>m, <2>o
        <3>2. /\ \A t \in Threads : t # Order[n] => thread'[t] = thread[t]
              /\ thread'[Order[n]].state = "head" /\ thread'[Order[n]].run
            BY <2>1, <2>t, <3>1 DEF StartThread
        <3>3. main.phase = "start"
            BY <2>1 DEF StartThread
        <3>4. \A t \in Threads : /\ thread'[t].state # "ended"
                                 /\ thread'[t].state # "none" => thread'[t].run
            <4>1. ASSUME NEW t \in Threads
                  PROVE  thread[t].state # "ended" /\ (thread[t].state # "none" => thread[t].run)
                <5>1. thread[t].state # "ended"
                    BY <3>3 DEF RunningInv
                <5>2. ASSUME thread[t].state # "none" PROVE thread[t].run
                    BY <3>3, <5>2 DEF RunningInv
                <5> QED
                    BY <5>1, <5>2
            <4> QED
                BY <3>2, <4>1, Zenon
        <3>5. \A i \in 1 .. 3 : thread[Order[i]].state = "none" <=> i >= n
            BY <3>3 DEF RunningInv
        <3>6. \A i \in 1 .. 3 : thread'[Order[i]].state = "none" <=> i >= n /\ i # n
            BY <2>o, <3>1, <3>2, <3>5
        <3>7. CASE n < 3
            <4>1. main'.phase = "start" /\ main'.at = n + 1
                BY <2>1, <2>m, <3>3, <3>7 DEF StartThread, NextOf
            <4>2. \A i \in 1 .. 3 : i >= n /\ i # n <=> i >= n + 1
                BY <3>1
            <4> QED
                BY <3>4, <3>6, <4>1, <4>2 DEF RunningInv
        <3>8. CASE ~(n < 3)
            <4>1. main'.phase = "wait"
                BY <2>1, <3>8 DEF StartThread, NextOf
            <4>2. \A i \in 1 .. 3 : ~(i >= n /\ i # n)
                BY <3>1, <3>8
            <4>3. \A t \in Threads : thread'[t].state # "none"
                BY <2>o, <3>6, <4>2
            <4> QED
                BY <3>4, <4>1, <4>3 DEF RunningInv
        <3> QED
            BY <3>7, <3>8
    <2>s. ~StartThread => main.phase \in {"start", "wait"}
        BY <1>2, PhaseBack
    <2>f. ASSUME ~StartThread,
                 \A t \in Threads : /\ thread'[t].state = "none" <=> thread[t].state = "none"
                                    /\ thread'[t].state = "ended" => thread[t].state = "ended"
                                    /\ thread'[t].run = thread[t].run
          PROVE  RunningInv'
        <3>1. main' = main
            BY <1>2, <2>f, PhaseBack
        <3>2. main'.phase = "start" =>
                  \A i \in 1 .. 3 : thread'[Order[i]].state = "none" <=> i >= main'.at
            BY <2>f, <2>o, <3>1 DEF RunningInv
        <3>3. main'.phase = "wait" => \A t \in Threads : thread'[t].state # "none"
            BY <2>f, <3>1 DEF RunningInv
        <3>4. ASSUME NEW t \in Threads
              PROVE  thread'[t].state # "ended" /\ (thread'[t].state # "none" => thread'[t].run)
            <4>1. thread[t].state # "ended" /\ (thread[t].state # "none" => thread[t].run)
                <5>1. thread[t].state # "ended"
                    BY <2>f, <2>s DEF RunningInv
                <5>2. ASSUME thread[t].state # "none" PROVE thread[t].run
                    BY <2>f, <2>s, <5>2 DEF RunningInv
                <5> QED
                    BY <5>1, <5>2
            <4> QED
                BY <2>f, <4>1, Zenon
        <3> QED
            BY <3>2, <3>3, <3>4, Zenon DEF RunningInv
    <2>2. ASSUME ~StartThread, NEW t \in Threads, TimerHead(t)
          PROVE  RunningInv'
        <3>1. thread[t].state = "head" /\ thread[t].run
            BY <2>2, <2>s DEF TimerHead, RunningInv
        <3>2. thread' = [thread EXCEPT ![t] =
                  IF thread[t].run THEN [thread[t] EXCEPT !.at = 1, !.state = "work"]
                  ELSE [thread[t] EXCEPT !.state = "ended"]]
            BY <2>2 DEF TimerHead
        <3>3. /\ \A u \in Threads : u # t => thread'[u] = thread[u]
              /\ thread'[t].state = "work" /\ thread'[t].run = thread[t].run
            BY <2>t, <3>1, <3>2 DEF ThreadRecord
        <3> QED
            BY <2>2, <2>f, <3>1, <3>3
    <2>3. ASSUME ~StartThread, NEW t \in Threads, thread[t].state = "work", Proceed(t),
                 UNCHANGED bilateral
          PROVE  RunningInv'
        <3>1. /\ \A u \in Threads : u # t => thread'[u] = thread[u]
              /\ thread'[t].state \in {"work", "sleep"} /\ thread'[t].run = thread[t].run
            BY <2>3, <2>t, ProceedFacts
        <3> QED
            BY <2>3, <2>f, <3>1
    <2>4. CASE ~StartThread /\ Period
        <3>1. \A t \in Threads : thread'[t] =
                  IF thread[t].state = "sleep" THEN [thread[t] EXCEPT !.state = "head"]
                  ELSE thread[t]
            BY <2>4 DEF Period, PassPeriod
        <3>2. \A t \in Threads : /\ thread'[t].run = thread[t].run
                                 /\ \/ thread'[t].state = thread[t].state
                                    \/ thread[t].state = "sleep" /\ thread'[t].state = "head"
            BY <2>t, <3>1 DEF ThreadRecord
        <3> QED
            BY <2>4, <2>f, <3>2
    <2>5. CASE ~StartThread /\ UNCHANGED thread
        BY <2>5, <2>f
    <2> QED
        BY <1>2, <2>1, <2>2, <2>3, <2>4, <2>5, ThreadStep
<1> QED
    BY <1>1, <1>2

----------------------------------------------------------------------------
(* The age of the joint states.                                            *)

\* A thread that proceeds passes the operation it was at, and no other.
LEMMA PassedStep ==
    ASSUME TypeOK, ProgramInv, UNCHANGED bilateral,
           NEW t \in Threads, thread[t].state = "work", Proceed(t),
           NEW u \in Threads, NEW k \in 1 .. 8, k <= Len(Program(u)), Passed(u, k)'
    PROVE  Passed(u, k) \/ (u = t /\ k = thread[t].at)
<1>t. thread \in [Threads -> ThreadRecord]
    BY DEF TypeOK, ThreadRecord
<1>f. /\ \A v \in Threads : v # t => thread'[v] = thread[v]
      /\ \/ /\ thread[t].at \in 1 .. Len(Program(t)) - 1
            /\ thread'[t].state = "work" /\ thread'[t].at = thread[t].at + 1
         \/ thread[t].at = Len(Program(t)) /\ thread'[t].state = "sleep"
    BY <1>t, ProceedFacts
<1>n. thread[t].at \in 0 .. 8
    BY <1>t DEF ThreadRecord
<1>1. CASE u # t
    BY <1>1, <1>f DEF Passed
<1>2. CASE u = t
    <2>1. CASE thread'[t].state = "work" /\ thread'[t].at = thread[t].at + 1
        <3>1. thread[t].at + 1 > k
            BY <1>2, <2>1 DEF Passed
        <3>2. thread[t].at > k \/ thread[t].at = k
            BY <1>n, <3>1
        <3> QED
            BY <1>2, <3>2 DEF Passed
    <2>2. CASE thread[t].at = Len(Program(t))
        <3>1. thread[t].at > k \/ thread[t].at = k
            BY <1>n, <1>2, <2>2
        <3> QED
            BY <1>2, <3>1 DEF Passed
    <2> QED
        BY <1>f, <2>1, <2>2
<1> QED
    BY <1>1, <1>2

\* The operations that the invariant names are in the programs.
LEMMA Positions ==
    /\ \A r \in Robots, p \in Parts : /\ GetAt[r][p] \in 1 .. 4
                                      /\ SetAt[r][p] \in 5 .. 8
                                      /\ RespondAt[p] \in 1 .. 2
    /\ \A r, s \in Robots, p, q \in Parts : GetAt[r][p] = GetAt[s][q] => r = s /\ p = q
    /\ \A r, s \in Robots, p, q \in Parts : SetAt[r][p] = SetAt[s][q] => r = s /\ p = q
    BY DEF GetAt, SetAt, RespondAt, Robots, Parts

\* The control threads do the operations 1 and 2 for the arm and the hand.
LEMMA RespondProgram ==
    ASSUME NEW r \in Robots, NEW p \in Parts
    PROVE  Program(r)[RespondAt[p]] = <<"respond", p>>
    BY ControlProgram DEF Parts, RespondAt

\* What LagInv says of the data a control thread writes, and of the data the
\* admin thread writes.
ControlLag(r) ==
    /\ motor[r] <= IF thread[r].state = "sleep" THEN 0 ELSE 1
    /\ \A p \in Parts :
          /\ resp[r][p] <= IF Passed(r, RespondAt[p]) THEN 1 ELSE 2
          /\ used[r][p].peer => used[r][p].age <= 3 /\ thread[r].state = "work"

AdminLag(r, p) ==
    /\ Passed("admin", GetAt[r][p]) => copy[r][p] <= 2
    /\ ref[r][p].peer => ref[r][p].age <= IF Passed("admin", SetAt[r][p]) THEN 2 ELSE 3

LEMMA LagParts ==
    LagInv <=> (main.phase \in {"start", "wait"} =>
                   \A r \in Robots : ControlLag(r) /\ \A p \in Parts : AdminLag(r, p))
    BY DEF LagInv, ControlLag, AdminLag

\* A control thread leaves the data of the others alone.
LEMMA ControlFrame ==
    ASSUME NEW r \in Robots, ControlLag(r), thread'[r] = thread[r], motor'[r] = motor[r],
           resp'[r] = resp[r], used'[r] = used[r]
    PROVE  ControlLag(r)'
    BY DEF ControlLag, Passed

LEMMA AdminFrame ==
    ASSUME NEW r \in Robots, NEW p \in Parts, AdminLag(r, p), UNCHANGED <<copy, ref>>,
           thread'["admin"] = thread["admin"]
    PROVE  AdminLag(r, p)'
    BY DEF AdminLag, Passed

LEMMA Ages ==
    ASSUME TypeOK, NEW r \in Robots, NEW p \in Parts
    PROVE  /\ motor[r] \in Nat /\ resp[r][p] \in Nat /\ copy[r][p] \in Nat
           /\ ref[r][p] \in [peer : BOOLEAN, age : Nat]
           /\ used[r][p] \in [peer : BOOLEAN, age : Nat]
<1>1. Age \subseteq Nat
    BY WiredAssumption DEF WiredAssumption, Age
<1>2. Reference \subseteq [peer : BOOLEAN, age : Nat]
    BY <1>1 DEF Reference
<1>3. motor[r] \in Age /\ resp[r][p] \in Age /\ copy[r][p] \in Age
    BY DEF TypeOK
<1>4. ref[r][p] \in Reference /\ used[r][p] \in Reference
    BY DEF TypeOK
<1> QED
    BY <1>1, <1>2, <1>3, <1>4

\* Only behind the commands a control thread sleeps, and they are its last
\* operation.
LEMMA SendIsLast ==
    ASSUME TypeOK, ProgramInv, UNCHANGED bilateral,
           NEW s \in Robots, thread[s].state = "work", Proceed(s)
    PROVE  /\ \A u \in Threads : u # s => thread'[u] = thread[u]
           /\ ~Doing(s, <<"send", "both">>) => thread'[s].state = "work"
           /\ Doing(s, <<"send", "both">>) => thread'[s].state = "sleep"
           /\ \A p \in Parts : Passed(s, RespondAt[p])' =>
                  Passed(s, RespondAt[p]) \/ Doing(s, <<"respond", p>>)
<1>t. thread \in [Threads -> ThreadRecord] /\ s \in Threads
    BY DEF TypeOK, ThreadRecord, Threads
<1>f. /\ \A v \in Threads : v # s => thread'[v] = thread[v]
      /\ \/ /\ thread[s].at \in 1 .. Len(Program(s)) - 1
            /\ thread'[s].state = "work" /\ thread'[s].at = thread[s].at + 1
         \/ thread[s].at = Len(Program(s)) /\ thread'[s].state = "sleep"
    BY <1>t, ProceedFacts
<1>1. ASSUME thread[s].at \in 1 .. Len(Program(s)) - 1
      PROVE  ~Doing(s, <<"send", "both">>)
    <2>1. \A n \in 1 .. 5 - 1 : n \in {1, 2, 3, 4}
        OBVIOUS
    <2>2. thread[s].at \in {1, 2, 3, 4}
        BY <1>1, <2>1, ControlProgram
    <2> QED
        BY <2>2, ControlProgram DEF Doing
<1>2. ASSUME thread[s].at = Len(Program(s))
      PROVE  Doing(s, <<"send", "both">>)
    BY <1>2, ControlProgram DEF Doing
<1>3. ASSUME NEW p \in Parts, Passed(s, RespondAt[p])'
      PROVE  Passed(s, RespondAt[p]) \/ Doing(s, <<"respond", p>>)
    <2>0. PICK r \in Robots : r = s
        OBVIOUS
    <2>1. RespondAt[p] \in 1 .. 2
        BY <2>0, Positions
    <2>2. RespondAt[p] \in 1 .. 8 /\ RespondAt[p] <= Len(Program(s))
        BY <2>1, ControlProgram
    <2>3. Passed(s, RespondAt[p]) \/ RespondAt[p] = thread[s].at
        BY <1>t, <1>3, <2>2, PassedStep
    <2> QED
        BY <2>3, RespondProgram DEF Doing
<1> QED
    BY <1>f, <1>1, <1>2, <1>3

\* A control thread refreshes what it owns; the references it reads are at
\* most three periods old.
LEMMA LagControl ==
    ASSUME TypeOK, ProgramInv, NEW s \in Robots,
           \A r \in Robots : ControlLag(r) /\ \A p \in Parts : AdminLag(r, p),
           (\E q \in Parts : Respond(s, q) \/ Refer(s, q)) \/ SendCommands(s)
    PROVE  \A r \in Robots : ControlLag(r)' /\ \A p \in Parts : AdminLag(r, p)'
<1>w. thread[s].state = "work" /\ Proceed(s) /\ UNCHANGED <<bilateral, copy, ref>>
    BY DEF Respond, Refer, SendCommands, Doing
<1>s. /\ \A u \in Threads : u # s => thread'[u] = thread[u]
      /\ ~Doing(s, <<"send", "both">>) => thread'[s].state = "work"
      /\ Doing(s, <<"send", "both">>) => thread'[s].state = "sleep"
      /\ \A p \in Parts : Passed(s, RespondAt[p])' =>
             Passed(s, RespondAt[p]) \/ Doing(s, <<"respond", p>>)
    BY <1>w, SendIsLast
<1>a. thread'["admin"] = thread["admin"]
    BY <1>s DEF Threads, Robots
<1>1. \A r \in Robots, p \in Parts : AdminLag(r, p)'
    BY <1>a, <1>w, AdminFrame
<1>t. /\ motor \in [Robots -> Age] /\ resp \in [Robots -> [Parts -> Age]]
      /\ used \in [Robots -> [Parts -> Reference]]
    BY DEF TypeOK
<1>2. ASSUME NEW r \in Robots, r # s PROVE ControlLag(r)'
    <2>1. motor'[r] = motor[r] /\ resp'[r] = resp[r] /\ used'[r] = used[r]
        BY <1>2, <1>t DEF Respond, Refer, SendCommands
    <2>2. thread'[r] = thread[r]
        BY <1>2, <1>s DEF Threads
    <2> QED
        BY <2>1, <2>2, ControlFrame
<1>m. motor[s] <= 1 /\ motor[s] \in Nat
    <2>1. PICK p \in Parts : TRUE
        BY DEF Parts
    <2> QED
        BY <1>w, <2>1, Ages DEF ControlLag
<1>3. ASSUME NEW q \in Parts, Respond(s, q) PROVE ControlLag(s)'
    <2>1. Doing(s, <<"respond", q>>) /\ motor' = motor /\ used' = used
        BY <1>3 DEF Respond
    <2>2. thread'[s].state = "work"
        BY <1>s, <2>1 DEF Doing
    <2>3. ASSUME NEW p \in Parts
          PROVE  resp'[s][p] <= IF Passed(s, RespondAt[p])' THEN 1 ELSE 2
        <3>1. CASE p = q
            <4>1. resp'[s][p] = motor[s]
                BY <1>3, <1>t, <3>1 DEF Respond
            <4> QED
                BY <1>m, <4>1
        <3>2. CASE p # q
            <4>1. resp'[s][p] = resp[s][p]
                BY <1>3, <1>t, <3>2 DEF Respond
            <4>2. Passed(s, RespondAt[p])' => Passed(s, RespondAt[p])
                BY <1>s, <2>1, <3>2 DEF Doing
            <4>3. resp[s][p] \in Nat
                BY Ages
            <4> QED
                BY <4>1, <4>2, <4>3 DEF ControlLag
        <3> QED
            BY <3>1, <3>2
    <2> QED
        BY <1>m, <2>1, <2>2, <2>3 DEF ControlLag
<1>4. ASSUME NEW p \in Parts, ~Doing(s, <<"respond", p>>), resp' = resp
      PROVE  resp'[s][p] <= IF Passed(s, RespondAt[p])' THEN 1 ELSE 2
    <2>1. Passed(s, RespondAt[p])' => Passed(s, RespondAt[p])
        BY <1>4, <1>s
    <2>2. resp[s][p] \in Nat
        BY Ages
    <2> QED
        BY <1>4, <2>1, <2>2 DEF ControlLag
<1>5. ASSUME NEW q \in Parts, Refer(s, q) PROVE ControlLag(s)'
    <2>1. Doing(s, <<"refer", q>>) /\ motor' = motor /\ resp' = resp
        BY <1>5 DEF Refer
    <2>2. thread'[s].state = "work"
        BY <1>s, <2>1 DEF Doing
    <2>3. \A p \in Parts : resp'[s][p] <= IF Passed(s, RespondAt[p])' THEN 1 ELSE 2
        BY <1>4, <2>1 DEF Doing
    <2>4. ASSUME NEW p \in Parts, used'[s][p].peer PROVE used'[s][p].age <= 3
        <3>1. CASE p = q
            <4>1. used'[s][p] = ref[s][p]
                BY <1>5, <1>t, <3>1 DEF Refer
            <4>2. ref[s][p].age \in Nat
                BY Ages
            <4> QED
                BY <2>4, <4>1, <4>2 DEF AdminLag
        <3>2. CASE p # q
            <4>1. used'[s][p] = used[s][p]
                BY <1>5, <1>t, <3>2 DEF Refer
            <4> QED
                BY <2>4, <4>1 DEF ControlLag
        <3> QED
            BY <3>1, <3>2
    <2> QED
        BY <1>m, <2>1, <2>2, <2>3, <2>4 DEF ControlLag
<1>6. ASSUME SendCommands(s) PROVE ControlLag(s)'
    <2>1. Doing(s, <<"send", "both">>) /\ resp' = resp
        BY <1>6 DEF SendCommands
    <2>2. \A p \in Parts : resp'[s][p] <= IF Passed(s, RespondAt[p])' THEN 1 ELSE 2
        BY <1>4, <2>1 DEF Doing
    <2>5. motor'[s] = 0
        BY <1>6, <1>t DEF SendCommands
    <2>3. thread'[s].state = "sleep"
        BY <1>s, <2>1
    <2>4. \A p \in Parts : used'[s][p].peer = FALSE
        BY <1>6, <1>t DEF SendCommands, Home
    <2>6. \A p \in Parts : used'[s][p].peer =>
              used'[s][p].age <= 3 /\ thread'[s].state = "work"
        BY <2>4
    <2> QED
        BY <2>2, <2>3, <2>5, <2>6 DEF ControlLag
<1> QED
    BY <1>1, <1>2, <1>3, <1>5, <1>6

\* The admin thread hands the responses on, each copied in the same period.
LEMMA LagAdmin ==
    ASSUME TypeOK, ProgramInv, NEW s \in Robots, NEW q \in Parts,
           \A r \in Robots : ControlLag(r) /\ \A p \in Parts : AdminLag(r, p),
           AdminGet(s, q) \/ AdminSet(s, q)
    PROVE  \A r \in Robots : ControlLag(r)' /\ \A p \in Parts : AdminLag(r, p)'
<1> DEFINE n == thread["admin"].at
<1>w. /\ thread["admin"].state = "work" /\ Proceed("admin") /\ "admin" \in Threads
      /\ Program("admin")[n] = <<s, q>> /\ UNCHANGED <<bilateral, motor, resp, used>>
    BY DEF AdminGet, AdminSet, Doing, Threads
<1>t. /\ thread \in [Threads -> ThreadRecord] /\ copy \in [Robots -> [Parts -> Age]]
      /\ ref \in [Robots -> [Parts -> Reference]]
    BY DEF TypeOK, ThreadRecord
<1>n. n \in 1 .. 8
    BY <1>w, AdminProgram DEF ProgramInv
<1>q. n = IF n <= 4 THEN GetAt[s][q] ELSE SetAt[s][q]
    BY <1>n, <1>w, AdminProgram
<1>1. ASSUME NEW r \in Robots PROVE ControlLag(r)'
    <2>1. r \in Threads /\ r # "admin"
        BY DEF Threads, Robots
    <2>2. thread'[r] = thread[r]
        BY <1>t, <1>w, <2>1, ProceedFacts
    <2> QED
        BY <1>w, <2>2, ControlFrame
<1>p. ASSUME NEW k \in 1 .. 8, Passed("admin", k)' PROVE Passed("admin", k) \/ k = n
    <2>1. k <= Len(Program("admin"))
        BY AdminProgram
    <2> QED
        BY <1>w, <1>p, <2>1, PassedStep
<1>2. ASSUME NEW r \in Robots, NEW p \in Parts, AdminGet(s, q) PROVE AdminLag(r, p)'
    <2>1. n <= 4 /\ ref' = ref
        BY <1>2, AdminProgram DEF AdminGet
    <2>2. n = GetAt[s][q]
        BY <1>q, <2>1
    <2>3. GetAt[r][p] \in 1 .. 8 /\ SetAt[r][p] \in 1 .. 8 /\ SetAt[r][p] # n
        BY <1>n, <2>1, Positions
    <2>4. Passed("admin", SetAt[r][p])' => Passed("admin", SetAt[r][p])
        BY <1>p, <2>3
    <2>5. Passed("admin", GetAt[r][p])' => copy'[r][p] <= 2
        <3>1. CASE r = s /\ p = q
            <4>1. copy'[r][p] = resp[s][q]
                BY <1>2, <1>t, <3>1 DEF AdminGet
            <4>2. resp[s][q] <= 2
                BY Ages DEF ControlLag
            <4> QED
                BY <4>1, <4>2
        <3>2. CASE ~(r = s /\ p = q)
            <4>1. copy'[r][p] = copy[r][p]
                BY <1>2, <1>t, <3>2 DEF AdminGet
            <4>2. GetAt[r][p] # n
                BY <2>2, <3>2, Positions
            <4>3. Passed("admin", GetAt[r][p])' => Passed("admin", GetAt[r][p])
                BY <1>p, <2>3, <4>2
            <4> QED
                BY <4>1, <4>3 DEF AdminLag
        <3> QED
            BY <3>1, <3>2
    <2>6. ref[r][p].age \in Nat
        BY Ages
    <2> QED
        BY <2>1, <2>4, <2>5, <2>6 DEF AdminLag
<1>3. ASSUME NEW r \in Robots, NEW p \in Parts, AdminSet(s, q) PROVE AdminLag(r, p)'
    <2>1. n > 4 /\ copy' = copy
        BY <1>3, AdminProgram DEF AdminSet
    <2>2. n = SetAt[s][q]
        BY <1>n, <1>q, <2>1
    <2>3. GetAt[r][p] \in 1 .. 8 /\ SetAt[r][p] \in 1 .. 8 /\ GetAt[r][p] # n
        BY <1>n, <2>1, Positions
    <2>4. Passed("admin", GetAt[r][p])' => Passed("admin", GetAt[r][p])
        BY <1>p, <2>3
    <2>5. ref'[r][p].peer =>
              ref'[r][p].age <= IF Passed("admin", SetAt[r][p])' THEN 2 ELSE 3
        <3>1. CASE r = s /\ p = q
            <4>1. ref'[r][p] = [peer |-> TRUE, age |-> copy[Peer(s)][q]]
                BY <1>3, <1>t, <3>1 DEF AdminSet
            <4>2. Peer(s) \in Robots
                BY DEF Peer, Robots
            <4>3. n > GetAt[Peer(s)][q]
                BY <1>n, <2>1, <4>2, Positions
            <4>4. Passed("admin", GetAt[Peer(s)][q])
                BY <1>w, <4>3 DEF Passed
            <4>5. copy[Peer(s)][q] <= 2 /\ copy[Peer(s)][q] \in Nat
                BY <4>2, <4>4, Ages DEF AdminLag
            <4> QED
                BY <4>1, <4>5
        <3>2. CASE ~(r = s /\ p = q)
            <4>1. ref'[r][p] = ref[r][p]
                BY <1>3, <1>t, <3>2 DEF AdminSet
            <4>2. SetAt[r][p] # n
                BY <2>2, <3>2, Positions
            <4>3. Passed("admin", SetAt[r][p])' => Passed("admin", SetAt[r][p])
                BY <1>p, <2>3, <4>2
            <4>4. ref[r][p].age \in Nat
                BY Ages
            <4> QED
                BY <4>1, <4>3, <4>4 DEF AdminLag
        <3> QED
            BY <3>1, <3>2
    <2> QED
        BY <2>1, <2>4, <2>5 DEF AdminLag
<1> QED
    BY <1>1, <1>2, <1>3

\* Every step keeps the joint states within their ages.
LEMMA LagStep ==
    ASSUME TypeOK, ProgramInv, RunningInv, LagInv, [Next]_vars
    PROVE  LagInv'
<1> DEFINE Lag == \A r \in Robots : ControlLag(r) /\ \A p \in Parts : AdminLag(r, p)
<1>1. SUFFICES ASSUME main'.phase \in {"start", "wait"} PROVE Lag'
    <2>1. LagInv' <=> (main'.phase \in {"start", "wait"} => Lag')
        BY DEF LagInv, ControlLag, AdminLag
    <2> QED
        BY <2>1
<1>t. thread \in [Threads -> ThreadRecord] /\ Robots \subseteq Threads
    BY DEF TypeOK, ThreadRecord, Threads
<1>m. main \in [phase : {"start", "wait", "stop", "join", "disable", "done"}, at : 1 .. 3]
    BY DEF TypeOK
<1>p. main.phase \in {"start", "wait"}
    BY <1>1, PhaseBack DEF StartThread
<1>l. Lag
    BY <1>p, LagParts
<1> HIDE DEF Lag
<1>k. \A r \in Robots, p \in Parts : /\ GetAt[r][p] \in Nat /\ GetAt[r][p] >= 1
                                     /\ SetAt[r][p] \in Nat /\ SetAt[r][p] >= 1
                                     /\ RespondAt[p] \in Nat /\ RespondAt[p] >= 1
    BY Positions
\* A thread that is at the head of its loop has done nothing in this period.
<1>h. ASSUME UNCHANGED <<motor, resp, copy, ref, used>>,
             NEW t \in Threads, thread[t].state \in {"none", "head"},
             \A u \in Threads : u # t => thread'[u] = thread[u],
             \/ thread'[t].state = "head"
             \/ thread'[t].state = "work" /\ thread'[t].at = 1
      PROVE  Lag'
    <2>n. ASSUME NEW k \in Nat, k >= 1 PROVE ~Passed(t, k) /\ ~Passed(t, k)'
        BY <1>h, <2>n DEF Passed
    <2>1. ASSUME NEW r \in Robots PROVE ControlLag(r)'
        <3>1. CASE r # t
            BY <1>h, <1>l, <1>t, <3>1, ControlFrame DEF Lag
        <3>2. CASE r = t
            <4>1. motor[r] <= 1 /\ thread'[r].state # "sleep"
                BY <1>h, <1>l, <3>2 DEF Lag, ControlLag
            <4>2. ASSUME NEW p \in Parts
                  PROVE  /\ resp[r][p] <= 2 /\ ~Passed(r, RespondAt[p])'
                         /\ ~used[r][p].peer
                BY <1>h, <1>k, <1>l, <2>n, <3>2 DEF Lag, ControlLag
            <4> QED
                BY <1>h, <4>1, <4>2 DEF ControlLag
        <3> QED
            BY <3>1, <3>2
    <2>2. ASSUME NEW r \in Robots, NEW p \in Parts PROVE AdminLag(r, p)'
        <3>1. CASE t # "admin"
            <4>1. thread'["admin"] = thread["admin"]
                BY <1>h, <3>1 DEF Threads
            <4> QED
                BY <1>h, <1>l, <4>1, AdminFrame DEF Lag
        <3>2. CASE t = "admin"
            <4>1. /\ ~Passed("admin", GetAt[r][p])'
                  /\ ~Passed("admin", SetAt[r][p]) /\ ~Passed("admin", SetAt[r][p])'
                BY <1>k, <2>n, <3>2
            <4> QED
                BY <1>h, <1>l, <4>1 DEF Lag, AdminLag
        <3> QED
            BY <3>1, <3>2
    <2> QED
        BY <2>1, <2>2 DEF Lag
<1>2. CASE StartThread
    <2>1. main.phase = "start" /\ main.at \in 1 .. 3 /\ Order[main.at] \in Threads
        BY <1>2, <1>m DEF StartThread, Order, Threads, Robots
    <2>2. thread[Order[main.at]].state = "none"
        <3>1. main.at >= main.at
            BY <2>1
        <3> QED
            BY <2>1, <3>1 DEF RunningInv
    <2>3. /\ \A u \in Threads : u # Order[main.at] => thread'[u] = thread[u]
          /\ thread'[Order[main.at]].state = "head"
        BY <1>2, <1>t, <2>1 DEF StartThread
    <2> QED
        BY <1>2, <1>h, <2>1, <2>2, <2>3 DEF StartThread
<1>3. ASSUME NEW t \in Threads, TimerHead(t) PROVE Lag'
    <2>1. thread[t].state = "head" /\ thread[t].run
        BY <1>3, <1>p DEF TimerHead, RunningInv
    <2>2. thread' = [thread EXCEPT ![t] =
              IF thread[t].run THEN [thread[t] EXCEPT !.at = 1, !.state = "work"]
              ELSE [thread[t] EXCEPT !.state = "ended"]]
        BY <1>3 DEF TimerHead
    <2>3. /\ \A u \in Threads : u # t => thread'[u] = thread[u]
          /\ thread'[t].state = "work" /\ thread'[t].at = 1
        BY <1>t, <2>1, <2>2 DEF ThreadRecord
    <2> QED
        BY <1>3, <1>h, <2>1, <2>3 DEF TimerHead
<1>4. CASE Period
    <2>1. \A t \in Threads : thread[t].state = "sleep"
        BY <1>4, <1>p DEF Period, RunningInv
    <2>2. \A t \in Threads : thread'[t].state = "head"
        BY <1>4, <1>t, <2>1 DEF Period, PassPeriod, ThreadRecord
    <2>3. \A t \in Threads : \A k \in Nat : Passed(t, k) /\ ~Passed(t, k)'
        BY <2>1, <2>2 DEF Passed
    <2>o. ASSUME NEW n \in Nat PROVE (IF n < MaxAge THEN n + 1 ELSE n) <= n + 1
        OBVIOUS
    <2>4. ASSUME NEW r \in Robots PROVE ControlLag(r)'
        <3>1. motor'[r] <= 1
            <4>0. PICK p \in Parts : TRUE
                BY DEF Parts
            <4>1. motor[r] \in Nat /\ motor[r] <= 0
                BY <1>l, <1>t, <2>1, <4>0, Ages DEF Lag, ControlLag
            <4>2. motor'[r] = IF motor[r] < MaxAge THEN motor[r] + 1 ELSE motor[r]
                BY <1>4 DEF Period, PassPeriod
            <4> QED
                BY <4>1, <4>2, <2>o
        <3>2. ASSUME NEW p \in Parts PROVE resp'[r][p] <= 2 /\ ~used'[r][p].peer
            <4>1. resp[r][p] \in Nat /\ resp[r][p] <= 1
                BY <1>k, <1>l, <1>t, <2>3, Ages DEF Lag, ControlLag
            <4>2. resp'[r][p] = IF resp[r][p] < MaxAge THEN resp[r][p] + 1 ELSE resp[r][p]
                BY <1>4 DEF Period, PassPeriod
            <4>3. ~used[r][p].peer
                BY <1>l, <1>t, <2>1 DEF Lag, ControlLag
            <4>4. used'[r][p].peer = used[r][p].peer
                BY <1>4, Ages DEF Period, PassPeriod
            <4> QED
                BY <4>1, <4>2, <4>3, <4>4, <2>o
        <3> QED
            BY <1>k, <1>t, <2>2, <2>3, <3>1, <3>2 DEF ControlLag
    <2>5. ASSUME NEW r \in Robots, NEW p \in Parts PROVE AdminLag(r, p)'
        <3>1. ~Passed("admin", GetAt[r][p])' /\ ~Passed("admin", SetAt[r][p])'
              /\ Passed("admin", SetAt[r][p])
            BY <1>k, <2>3 DEF Threads
        <3>2. /\ ref'[r][p].peer = ref[r][p].peer
              /\ ref'[r][p].age = IF ref[r][p].age < MaxAge THEN ref[r][p].age + 1
                                  ELSE ref[r][p].age
            BY <1>4, Ages DEF Period, PassPeriod
        <3>3. ref[r][p].age \in Nat /\ (ref[r][p].peer => ref[r][p].age <= 2)
            BY <1>l, <3>1, Ages DEF Lag, AdminLag
        <3>4. ref'[r][p].peer => ref'[r][p].age <= 3
            BY <2>o, <3>2, <3>3
        <3> QED
            BY <3>1, <3>4 DEF AdminLag
    <2> QED
        BY <2>4, <2>5 DEF Lag
<1>5. ASSUME NEW t \in Threads, thread[t].state = "work", Proceed(t), UNCHANGED bilateral,
             ~StartThread, ~Period, ~(\E u \in Threads : TimerHead(u))
      PROVE  Lag'
    <2>1. CASE \E s \in Robots : \/ \E q \in Parts : Respond(s, q) \/ Refer(s, q)
                                 \/ SendCommands(s)
        BY <1>l, <2>1, LagControl DEF Lag
    <2>2. CASE \E s \in Robots, q \in Parts : AdminGet(s, q) \/ AdminSet(s, q)
        BY <1>l, <2>2, LagAdmin DEF Lag
    <2>3. CASE UNCHANGED <<motor, resp, copy, ref, used, thread>>
        BY <1>l, <2>3 DEF Lag, ControlLag, AdminLag, Passed
    <2>4. ~StopThread
        BY <1>1, <1>5, PhaseBack
    <2> QED
        BY <1>5, <2>1, <2>2, <2>3, <2>4 DEF Next, Main, Thread, Wait, JoinThread,
           JoinThread_Detached, DisableAll, Signal, Terminated, vars
<1>6. CASE UNCHANGED <<motor, resp, copy, ref, used, thread>>
    BY <1>l, <1>6 DEF Lag, ControlLag, AdminLag, Passed
<1> QED
    BY <1>1, <1>2, <1>3, <1>4, <1>5, <1>6, ThreadStep

----------------------------------------------------------------------------
(* The theorems.                                                           *)

LEMMA InitInv ==
    ASSUME Init
    PROVE  IInv
<1>a. MaxAge \in Nat
    BY WiredAssumption DEF WiredAssumption
<1>0. 0 \in Age /\ Home \in Reference
    BY <1>a DEF Age, Home, Reference
<1>1. TypeOK
    BY <1>0 DEF Init, TypeOK
<1>2. ProgramInv /\ ShutdownInv
    BY DEF Init, ProgramInv, ShutdownInv
<1>3. RunningInv
    <2>1. \A i \in 1 .. 3 : Order[i] \in Threads
        BY DEF Order, Threads, Robots
    <2> QED
        BY <2>1 DEF Init, RunningInv
<1>4. LagInv
    <2>1. \A t \in Threads : \A k : ~Passed(t, k)
        BY DEF Init, Passed
    <2>2. Robots \subseteq Threads /\ "admin" \in Threads
        BY DEF Threads
    <2> QED
        BY <2>1, <2>2 DEF Init, LagInv, Home
<1> QED
    BY <1>1, <1>2, <1>3, <1>4 DEF IInv

\* The invariant of the wired programs: typing, the order in which main
\* starts, stops and joins the threads, and the age of the joint states at
\* each hand-over.
THEOREM InductiveInvariant == Spec => []IInv
<1>1. Init => IInv
    BY InitInv
<1>2. IInv /\ [Next]_vars => IInv'
    <2> SUFFICES ASSUME IInv, [Next]_vars PROVE IInv'
        OBVIOUS
    <2>1. TypeOK /\ ProgramInv /\ ShutdownInv /\ RunningInv /\ LagInv
        BY DEF IInv
    <2> QED
        BY <2>1, TypeStep, ShutdownStep, RunningStep, LagStep DEF IInv
<1> QED
    BY <1>1, <1>2, PTL DEF Spec

\* Until main stops the threads, a command is computed from joint states of
\* the peer that are at most three periods old, whatever the order of the
\* threads within the periods.
THEOREM CommandLagThm == Spec => []CommandLag
<1>1. IInv => CommandLag
    BY LagParts DEF IInv, CommandLag, ControlLag
<1> QED
    BY <1>1, InductiveInvariant, PTL

\* No thread sends a command to a robot that main has disabled: disable_all
\* comes after every thread has been joined.
THEOREM NoCommandAfterDisableThm == Spec => []NoCommandAfterDisable
<1>1. IInv => NoCommandAfterDisable
    BY DEF IInv, ShutdownInv, NoCommandAfterDisable, Threads
<1> QED
    BY <1>1, InductiveInvariant, PTL
=============================================================================
