-------------------------- MODULE BilateralEngager --------------------------
(***************************************************************************)
(* One engager driven by every sequence of inputs the leader's control     *)
(* loop can produce: each cycle it computes a fresh want and aligned and   *)
(* calls update() once.  The class also has reset(), which no program of   *)
(* the repository calls.                                                   *)
(***************************************************************************)
EXTENDS EngagerUpdate

VARIABLES
    eng,       \* the engager
    want,      \* bilateral requested, feedback fresh and follower ACTIVE
    aligned,   \* leader and follower poses are within tolerance
    released   \* history: no aligned update since the force was last zero

engagerVars == <<eng, want, aligned, released>>

EngagerTypeOK ==
    /\ eng \in Engager
    /\ want \in BOOLEAN
    /\ aligned \in BOOLEAN
    /\ released \in BOOLEAN

EngagerInit ==
    /\ eng = NewEngager
    /\ want = FALSE
    /\ aligned = FALSE
    /\ released = TRUE

\* The rest of the leader changes the inputs of the next cycle.
EngagerInputs ==
    /\ want' \in BOOLEAN
    /\ aligned' \in BOOLEAN
    /\ UNCHANGED <<eng, released>>

\* One control cycle.  The history notes that a new engagement starts when
\* want and aligned are seen together while waiting, and ends when the
\* engager is back in one of the two states without force.
EngagerCycle ==
    /\ eng' = Update(eng, want, aligned)
    /\ released' = IF eng'.state \in {"off", "wait_align"} THEN TRUE
                   ELSE released /\ ~(eng.state = "wait_align" /\ want /\ aligned)
    /\ UNCHANGED <<want, aligned>>

EngagerNext == EngagerInputs \/ EngagerCycle

EngagerSpec == EngagerInit /\ [][EngagerNext]_engagerVars

\* The control loop calls update() every cycle; nothing else is promised.
EngagerFairSpec == EngagerSpec /\ WF_engagerVars(EngagerCycle)

----------------------------------------------------------------------------
\* The scale belongs to the state at all times.
ScaleMatchesState == WellFormed(eng)

(***************************************************************************)
(* Force is rendered only in an engagement that began with the two arms    *)
(* aligned while force was requested: no path through the state machine    *)
(* re-enters the ramp from a release without a new alignment check.        *)
(***************************************************************************)
ForceNeedsAlignment == Active(eng) => ~released

(***************************************************************************)
(* "Release ramps down quickly but never steps": one update changes the    *)
(* scale by at most one ramp increment, in either direction.               *)
(***************************************************************************)
NeverSteps ==
    [][ /\ eng'.scale <= eng.scale + UpStep
        /\ eng.scale <= eng'.scale + DownStep ]_engagerVars

\* Whatever came before, a request that is gone for good leads to OFF, and one
\* that stays, with the arms aligned, to full force.
FollowsRequest ==
    /\ <>[](~want) => <>[](eng.state = "off")
    /\ <>[](want /\ aligned) => <>[](eng.state = "engaged")
=============================================================================
