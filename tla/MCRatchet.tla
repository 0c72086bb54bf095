------------------------------ MODULE MCRatchet ------------------------------
(***************************************************************************)
(* A frontier climbing its curve: every small ratchet block, every sequence*)
(* of offered scores.  Checks what src/src/frontier.rs says about payouts, *)
(* exhaustion and the reason given for a move that does not pay.           *)
(***************************************************************************)
EXTENDS Ratchet

CONSTANTS MaxScore, MaxTarget, Rewards, MinImprovements

\* Every target is a score that may be offered, and every pool holds something.
ASSUME ClimbAssumption ==
    /\ MaxTarget \in Nat /\ MaxScore \in Nat /\ MaxTarget <= MaxScore
    /\ Rewards \subseteq Nat \ {0}
    /\ MinImprovements \subseteq Nat

\* Scores reach past every target in both directions.
Scores  == -MaxScore .. MaxScore
Targets == -MaxTarget .. MaxTarget

VARIABLES
    ratchet,  \* the block; chosen once
    score,    \* the frontier, NoScore while it is empty
    paid,     \* what the moves so far earned
    moves,    \* how many moves settled
    advice    \* what stall said of the last offer, and the offer

climb == <<ratchet, score, paid, moves, advice>>

Blocks ==
    {r \in [direction : Directions, baseline : {0}, target : Targets,
            min_improvement : MinImprovements, reward : Rewards] : validate(r)}

Start ==
    /\ ratchet \in Blocks
    /\ score = NoScore /\ paid = 0 /\ moves = 0
    /\ advice = [stall |-> "none", offered |-> 0]

\* settle_improvement's use of the curve: a move that improves is paid the
\* difference, any other is answered with the reason.
Offer(new) ==
    /\ advice' = [stall |-> stall(ratchet, score, new), offered |-> new]
    /\ IF improves(ratchet, score, new)
       THEN /\ score' = new
            /\ paid' = paid + payout(ratchet, score, new)
            /\ moves' = moves + 1
       ELSE UNCHANGED <<score, paid, moves>>
    /\ UNCHANGED ratchet

Climb == \E new \in Scores : Offer(new)

ClimbSpec == Start /\ [][Climb]_climb
-----------------------------------------------------------------------------
\* The frontier before the first move counts as standing at the baseline.
reached == IF score = NoScore THEN ratchet.baseline ELSE score

\* The pool is paid out in full exactly when the frontier reaches the target,
\* in however many moves (frontier.rs Ratchet: reward, exhausted).
PaidInFullAtTarget == (paid = ratchet.reward) <=> exhausted(ratchet, reached)

\* is_exhausted and is_fundable tell whether any score at all can still move
\* the frontier (frontier.rs is_exhausted, is_fundable).
ExhaustedIsFinal ==
    /\ isExhausted(ratchet, reached) <=>
            ~\E new \in Scores : improves(ratchet, score, new)
    /\ (~isFundable(ratchet)) => moves = 0

\* An improver cannot cut a span into more moves than min_improvement allows
\* (frontier.rs Ratchet: min_improvement).
MovesAreBounded == moves * ratchet.min_improvement <= span(ratchet)

\* What each reason tells a submitter is so: `regressed', that the offer is no
\* better than the frontier; `target_reached', that no score moves it again;
\* `clamped_by_target', that no larger improvement gains more (frontier.rs
\* Stall).
StallIsTruthful ==
    LET gained(s) == progress(ratchet, s) - progressOf(ratchet, score) IN
    /\ advice.stall = "regressed" => gained(advice.offered) <= 0
    /\ advice.stall = "target_reached" =>
            ~\E s \in Scores : improves(ratchet, score, s)
    /\ advice.stall = "clamped_by_target" =>
            \A s \in Scores : gained(s) <= gained(advice.offered)
=============================================================================
