----------------------------- MODULE Bisection -------------------------------
(***************************************************************************)
(* The search for the first step two traces disagree about                 *)
(* (src/src/challenge.rs).  A dispute is the interval still in question    *)
(* and the set of states each side has opened.  Every move opens the       *)
(* mover's own Merkle root, so the state a side shows at an index is the   *)
(* one its trace has there; a move that does not is refused and is no move *)
(* of the model.                                                           *)
(***************************************************************************)
EXTENDS Integers, FiniteSets

CONSTANTS
    States,   \* states of the disputed computation
    Last,     \* index of a trace's last state; Trace::len() - 1
    Step      \* the pinned stepper: the state that follows each state

ASSUME StepperAssumption == Step \in [States -> States]
ASSUME LengthAssumption  == Last \in Nat \ {0}

Indices == 0 .. Last
Sides   == {"defender", "challenger"}
Traces  == [Indices -> States]

other(side) == IF side = "defender" THEN "challenger" ELSE "defender"

\* The endpoint moves a dispute is opened with.
Ends == {0, Last} \X Sides

Disputes == [lo : Indices, hi : Indices, opened : SUBSET (Indices \X Sides)]

NewDispute == [lo |-> 0, hi |-> Last, opened |-> {}]

missing(d) == Ends \ d.opened

\* Dispute::open's last two checks; t is the pair of traces.
wellFounded(t) ==
    /\ t["defender"][0] = t["challenger"][0]
    /\ t["defender"][Last] # t["challenger"][Last]

query(d)     == d.lo + (d.hi - d.lo) \div 2
narrowed(d)  == d.hi - d.lo <= 1
waitingOn(d) == {side \in Sides : <<query(d), side>> \notin d.opened}

\* Mutant of narrow: the two answers taken the wrong way round.
narrowBackwards(d, t, index) ==
    IF t["defender"][index] = t["challenger"][index]
    THEN [d EXCEPT !.hi = index]
    ELSE [d EXCEPT !.lo = index]

\* Equal answers put the divergence later, unequal ones earlier.
narrow(d, t, index) ==
    IF t["defender"][index] = t["challenger"][index]
    THEN [d EXCEPT !.lo = index]
    ELSE [d EXCEPT !.hi = index]

\* Dispute::play of the answer to the query.
play(d, t, side) ==
    LET index    == query(d)
        answered == [d EXCEPT !.opened = @ \cup {<<index, side>>}]
    IN  IF <<index, other(side)>> \in d.opened
        THEN narrow(answered, t, index)
        ELSE answered

\* Mutant of decide: the step's result held against the state it started from.
decideAtTheAgreed(d, t) ==
    IF Step[t["defender"][d.lo]] = t["defender"][d.lo]
    THEN "defender" ELSE "challenger"

\* One step from the agreed state.  A step that reproduces neither side's
\* state decides for the challenger.
decide(d, t) ==
    IF Step[t["defender"][d.lo]] = t["defender"][d.lo + 1]
    THEN "defender" ELSE "challenger"

\* Dispute::rounds_needed, as a function of the interval's width.
rounds_needed[width \in Nat] ==
    IF width <= 1 THEN 0 ELSE 1 + rounds_needed[(width + 1) \div 2]
=============================================================================
