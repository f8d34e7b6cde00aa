--------------------------- MODULE VrLeaderProofs ---------------------------
(***************************************************************************)
(* Proofs about the VR leader, for any number of arms and any timeouts.    *)
(***************************************************************************)
EXTENDS VrLeader, TLAPS

USE VrAssumption DEF VrAssumption

\* The ages the model tells apart reach beyond the stale timeout, and the
\* times since a copy reach the difference.
LEMMA AgeLimitType ==
  /\ AgeLimit \in Nat /\ AgeLimit > StaleAge
  /\ ElapsedLimit \in Nat /\ StaleAge + ElapsedLimit = AgeLimit
  BY DEF AgeLimit, ElapsedLimit

\* The first arm is an arm, and so is the one after any but the last.
LEMMA ArmFacts == /\ 1 \in Arms
                  /\ \A a \in Arms : a < NArms => a + 1 \in Arms
  BY DEF Arms

\* Moving on to the next arm or phase keeps the program counter typed.
LEMMA MainType ==
  ASSUME main \in [phase : Phases, arm : Arms], NEW p \in Phases
  PROVE  /\ Continue(p) => main' \in [phase : Phases, arm : Arms]
         /\ NextArm(p) => main' \in [phase : Phases, arm : Arms]
  BY ArmFacts DEF Continue, NextArm

\* The initial state, with zero joint vectors and no telemetry.
LEMMA InitInv == Init => IInv
<1>1. SUFFICES ASSUME Init PROVE IInv
  OBVIOUS
<1>2. TypeOK
  BY <1>1, AgeLimitType, ArmFacts
  DEF Init, TypeOK, NoAnchor, NoFeedback, Phases, Joints
<1>3. FreshInv
  BY <1>1 DEF Init, FreshInv
<1> QED
  BY <1>2, <1>3 DEF IInv

\* Every step keeps the types and the freshness of what the cycle judged.
LEMMA StepInv == IInv /\ [Next]_vars => IInv'
<1> SUFFICES ASSUME IInv, [Next]_vars PROVE IInv'
  OBVIOUS
<1> USE DEF IInv
<1>1. CASE LoopHead
  <2>1. Continue("vr") \/ Continue("stop")
    BY <1>1 DEF LoopHead
  <2>2. main' \in [phase : Phases, arm : Arms]
    BY <2>1, MainType DEF TypeOK, Phases
  <2>3. main'.phase \in {"vr", "stop"}
    BY <2>1 DEF Continue
  <2> QED
    BY <1>1, <2>2, <2>3 DEF LoopHead, TypeOK, FreshInv
<1>2. CASE CopyVr
  <2>1. main' \in [phase : Phases, arm : Arms] /\ main'.phase = "telemetry"
    BY <1>2, MainType DEF CopyVr, Continue, TypeOK, Phases
  <2> QED
    BY <1>2, <2>1 DEF CopyVr, TypeOK, FreshInv
<1>3. CASE CopyTelemetry
  <2>1. main' \in [phase : Phases, arm : Arms]
    BY <1>3, MainType DEF CopyTelemetry, TypeOK, Phases
  <2>2. Stale \in BOOLEAN /\ 0 \in 0 .. ElapsedLimit
    BY AgeLimitType DEF Stale, TypeOK
  <2>3. fb' \in [seen : BOOLEAN, q : Joints, stale : BOOLEAN]
    BY <1>3, <2>2 DEF CopyTelemetry, TypeOK
  <2>4. anchor' \in [Arms -> {NoAnchor, "finite", "nan"}]
    BY <1>3 DEF CopyTelemetry, TypeOK
  <2>5. TypeOK'
    BY <1>3, <2>1, <2>2, <2>3, <2>4 DEF CopyTelemetry, TypeOK
  <2>6. ~fb'.stale /\ tel'.connected => tel'.age <= StaleAge + elapsed'
    BY <1>3 DEF CopyTelemetry, Stale, TypeOK
  <2> QED
    BY <2>5, <2>6 DEF FreshInv
<1>4. CASE ProcessArm
  <2> DEFINE a == main.arm
  <2>1. a \in Arms
    BY DEF TypeOK
  <2>2. main' \in [phase : Phases, arm : Arms]
    BY <1>4, MainType DEF ProcessArm, TypeOK, Phases
  <2>3. /\ fb' \in [seen : BOOLEAN, q : Joints, stale : BOOLEAN]
        /\ fb'.stale = fb.stale
    BY <1>4 DEF ProcessArm, TypeOK, Joints
  <2>4. FreshInv'
    BY <1>4, <2>3 DEF ProcessArm, FreshInv, At
  <2>5. /\ anchor' \in [Arms -> {NoAnchor, "finite", "nan"}]
        /\ target' \in [Arms -> Joints]
    <3>1. CASE ProcessStale(a)
      BY <3>1 DEF ProcessStale, TypeOK
    <3>2. CASE ProcessHeld(a)
      <4>1. /\ AnchorFor(a) \in {NoAnchor, "finite", "nan"}
            /\ StepTowards(target[a]) \in Joints
        BY <2>1 DEF AnchorFor, StepTowards, TypeOK, Joints
      <4>2. target' = [target EXCEPT ![a] = StepTowards(target[a])] \/ target' = target
        BY <3>2 DEF ProcessHeld
      <4> QED
        BY <2>1, <3>2, <4>1, <4>2 DEF ProcessHeld, TypeOK
    <3>3. CASE ProcessReleased(a)
      BY <2>1, <3>3 DEF ProcessReleased, TypeOK
    <3> QED
      BY <1>4, <3>1, <3>2, <3>3 DEF ProcessArm
  <2> QED
    BY <1>4, <2>2, <2>3, <2>4, <2>5 DEF ProcessArm, TypeOK
<1>5. CASE SendPacket
  <2>1. main' \in [phase : Phases, arm : Arms]
    BY <1>5, MainType DEF SendPacket, TypeOK, Phases
  <2>2. Enable(main.arm) \in BOOLEAN
    BY DEF Enable, TypeOK
  <2>3. sent' \in [Arms -> BOOLEAN] /\ held' \in [Arms -> BOOLEAN]
    BY <1>5, <2>2 DEF SendPacket, TypeOK
  <2> QED
    BY <1>5, <2>1, <2>3 DEF SendPacket, TypeOK, FreshInv, At
<1>6. CASE Sleep
  <2>1. main' \in [phase : Phases, arm : Arms] /\ main'.phase = "head"
    BY <1>6, MainType DEF Sleep, Continue, TypeOK, Phases
  <2> QED
    BY <1>6, <2>1, AgeLimitType DEF Sleep, TypeOK, FreshInv, NoFeedback, Joints
<1>7. CASE ReturnFromMain
  <2>1. main' \in [phase : Phases, arm : Arms] /\ main'.phase = "done"
    BY <1>7, MainType DEF ReturnFromMain, Continue, TypeOK, Phases
  <2> QED
    BY <1>7, <2>1 DEF ReturnFromMain, TypeOK, FreshInv
<1>8. CASE ReceiveVr
  BY <1>8 DEF ReceiveVr, TypeOK, FreshInv
<1>9. CASE ReceiveTelemetry
  BY <1>9, AgeLimitType DEF ReceiveTelemetry, TypeOK, FreshInv
<1>10. CASE Signal
  BY <1>10 DEF Signal, TypeOK, FreshInv
<1>12. CASE Tick
  <2>1. /\ tel' \in [connected : BOOLEAN, age : 0 .. AgeLimit, q : Joints]
        /\ elapsed' \in 0 .. ElapsedLimit
    BY <1>12, AgeLimitType DEF Tick, TypeOK
  <2>2. /\ tel'.connected = tel.connected
        /\ tel'.age \in Nat /\ tel'.age <= tel.age + 1 /\ tel'.age <= AgeLimit
    BY <1>12, AgeLimitType DEF Tick, TypeOK
  <2>3. main.phase \in {"process", "send"} =>
            elapsed' = elapsed + 1 \/ (elapsed' = elapsed /\ elapsed = ElapsedLimit)
    BY <1>12, AgeLimitType DEF Tick, TypeOK
  <2>4. FreshInv'
    BY <1>12, <2>1, <2>2, <2>3, AgeLimitType DEF Tick, FreshInv, TypeOK
  <2> QED
    BY <1>12, <2>1, <2>4 DEF Tick, TypeOK
<1>11. CASE UNCHANGED vars
  BY <1>11 DEF vars, TypeOK, FreshInv
<1> QED
  BY <1>1, <1>2, <1>3, <1>4, <1>5, <1>6, <1>7, <1>8, <1>9, <1>10, <1>11,
     <1>12 DEF Next, Loop, Terminated

\* The VR leader's state is typed, and what its loop has judged fresh grows
\* older than the timeout only by the time that passes until the packets are
\* out.
THEOREM InductiveInvariant == Spec => []IInv
  BY InitInv, StepInv, PTL DEF Spec

\* An enabling packet goes out only while telemetry is connected and past the
\* stale timeout by at most the time since the cycle's check, for any number
\* of arms, any timeouts and any passing of time.
THEOREM EnabledOnFreshTelemetryThm == Spec => []EnabledOnFreshTelemetry
<1>1. IInv => EnabledOnFreshTelemetry
  BY DEF IInv, FreshInv, EnabledOnFreshTelemetry, Sending, Enable, At
<1> QED
  BY <1>1, InductiveInvariant, PTL
=============================================================================
