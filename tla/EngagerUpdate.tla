--------------------------- MODULE EngagerUpdate ---------------------------
(***************************************************************************)
(* control::BilateralEngager, the engage/release state machine of the      *)
(* leader's force rendering on one arm, as operators on one engager        *)
(* object.  The scale, a double in [0, 1] in the code, is counted in units *)
(* of which Full make 1.0; one update adds UpStep or takes DownStep units  *)
(* (dt / ramp_up_s and dt / ramp_down_s).                                  *)
(***************************************************************************)
EXTENDS Naturals

CONSTANTS Full, UpStep, DownStep

ASSUME EngagerAssumption ==
    /\ Full \in Nat \ {0}
    /\ UpStep \in Nat \ {0}
    /\ DownStep \in Nat \ {0}

EngagerState == {"off", "wait_align", "ramp_up", "engaged", "ramp_down"}

Engager == [state : EngagerState, scale : 0 .. Full]

NewEngager == [state |-> "off", scale |-> 0]

\* Mutant: the ramp runs past 1.0.
RaisedScale_Unclamped(scale) == scale + UpStep

RaisedScale(scale) == IF scale + UpStep >= Full THEN Full ELSE scale + UpStep

LoweredScale(scale) == IF scale <= DownStep THEN 0 ELSE scale - DownStep

FromOff(e, want) ==
    [state |-> IF want THEN "wait_align" ELSE "off", scale |-> 0]

\* Mutant: the pose comparison is ignored.
FromWaitAlign_Unaligned(e, want, aligned) ==
    [state |-> IF ~want THEN "off" ELSE "ramp_up", scale |-> 0]

FromWaitAlign(e, want, aligned) ==
    [state |-> IF ~want THEN "off"
               ELSE IF aligned THEN "ramp_up" ELSE "wait_align",
     scale |-> 0]

\* Mutant: losing the request drops the force at once.
FromRampUp_Drops(e, want) ==
    LET s == RaisedScale(e.scale)
    IN  IF ~want THEN NewEngager
        ELSE [state |-> IF s >= Full THEN "engaged" ELSE "ramp_up", scale |-> s]

FromRampUp(e, want) ==
    LET s == RaisedScale(e.scale)
    IN  IF ~want THEN [e EXCEPT !.state = "ramp_down"]
        ELSE [state |-> IF s >= Full THEN "engaged" ELSE "ramp_up", scale |-> s]

FromEngaged(e, want) ==
    [state |-> IF want THEN "engaged" ELSE "ramp_down", scale |-> Full]

\* Mutant: the release never gives up the last unit of force.
FromRampDown_Stuck(e, want) ==
    [state |-> "ramp_down",
     scale |-> IF e.scale <= DownStep THEN 1 ELSE e.scale - DownStep]

\* A request that returns during the release waits for its end.
FromRampDown(e, want) ==
    LET s == LoweredScale(e.scale)
    IN  [state |-> IF s > 0 THEN "ramp_down"
                   ELSE IF want THEN "wait_align" ELSE "off",
         scale |-> s]

\* BilateralEngager::update
Update(e, want, aligned) ==
    CASE e.state = "off"        -> FromOff(e, want)
      [] e.state = "wait_align" -> FromWaitAlign(e, want, aligned)
      [] e.state = "ramp_up"    -> FromRampUp(e, want)
      [] e.state = "engaged"    -> FromEngaged(e, want)
      [] e.state = "ramp_down"  -> FromRampDown(e, want)

\* BilateralEngager::active
Active(e) == e.scale > 0

\* What every method preserves: no force outside the ramp and engaged
\* states, full force when engaged, less than full while still ramping up.
WellFormed(e) ==
    /\ e \in Engager
    /\ e.state \in {"off", "wait_align"} => e.scale = 0
    /\ e.state = "engaged" => e.scale = Full
    /\ e.state = "ramp_up" => e.scale < Full
=============================================================================
