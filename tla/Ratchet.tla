------------------------------- MODULE Ratchet -------------------------------
(***************************************************************************)
(* The payout curve of a progressive objective (src/src/frontier.rs).      *)
(*                                                                         *)
(* A ratchet pays for distance moved along a line from `baseline' to       *)
(* `target'.  Everything here is integer arithmetic.  The code forms every *)
(* difference in i128 and the product reward * progress in u128, where two *)
(* 64-bit operands cannot overflow, so the operators below use unbounded   *)
(* integers and no width is lost.                                          *)
(***************************************************************************)
EXTENDS Integers

\* Option::None: the score of a frontier that is still empty, and of a verdict
\* that carries no integer score.
CONSTANT NoScore

ASSUME NoScoreAssumption == NoScore \notin Int

Directions == {"maximize", "minimize"}

\* The fields of the block, before validation.
RatchetBlock ==
    [direction : Directions, baseline : Int, target : Int,
     min_improvement : Nat, reward : Nat]

\* Ratchet::validate: what makes the span positive, and so the division of
\* cumulative well defined for every score.
validate(r) ==
    /\ r.min_improvement >= 1
    /\ r.direction = "maximize" => r.target > r.baseline
    /\ r.direction = "minimize" => r.target < r.baseline

Ratchets == { r \in RatchetBlock : validate(r) }

span(r) == IF r.target >= r.baseline THEN r.target - r.baseline
                                     ELSE r.baseline - r.target

\* Signed distance from the baseline toward the target, before clamping.
rawProgress(r, score) ==
    IF r.direction = "maximize" THEN score - r.baseline ELSE r.baseline - score

\* Ratchet::progress: clamped to 0 .. span at both ends.
progress(r, score) ==
    LET raw == rawProgress(r, score) IN
    IF raw <= 0 THEN 0 ELSE IF raw >= span(r) THEN span(r) ELSE raw

\* Progress of an optional score: an empty frontier has made none.
progressOf(r, old) == IF old = NoScore THEN 0 ELSE progress(r, old)

improves(r, old, new) ==
    progress(r, new) - progressOf(r, old) >= r.min_improvement

\* Total paid once the frontier stands at score.  The division truncates.
cumulative(r, score) == (r.reward * progress(r, score)) \div span(r)

cumulativeOf(r, old) == IF old = NoScore THEN 0 ELSE cumulative(r, old)

\* Mutant of payout: truncating the share of each move by itself.
payoutPerMove(r, old, new) ==
    (r.reward * (progress(r, new) - progressOf(r, old))) \div span(r)

\* Ratchet::payout: a saturating subtraction, so never negative.
payout(r, old, new) ==
    LET before == cumulativeOf(r, old)
        after  == cumulative(r, new)
    IN  IF after >= before THEN after - before ELSE 0

\* The whole pool is paid once the frontier stands at the target.
exhausted(r, score) == progress(r, score) >= span(r)

\* Mutant of isExhausted: off by one.
isExhaustedEarly(r, score) == span(r) - progress(r, score) <= r.min_improvement

\* Ratchet::is_exhausted: no further claim can clear min_improvement.
isExhausted(r, score) == span(r) - progress(r, score) < r.min_improvement

\* Ratchet::is_fundable: some claim can clear it from an empty frontier.
isFundable(r) == r.min_improvement <= span(r)

\* Ratchet::stall: why a move does not pay, or "pays".  The order of the tests
\* is the code's: the target first, then a regression, then the clamp.
stall(r, old, new) ==
    LET before == progressOf(r, old)
        after  == progress(r, new)
        gained == after - before
        raw    == IF old = NoScore THEN after
                  ELSE rawProgress(r, new) - rawProgress(r, old)
    IN  CASE improves(r, old, new) -> "pays"
          [] ~improves(r, old, new) /\ before >= span(r) -> "target_reached"
          [] ~improves(r, old, new) /\ before < span(r) /\ after <= before
                -> "regressed"
          [] ~improves(r, old, new) /\ before < span(r) /\ after > before
                /\ raw > gained -> "clamped_by_target"
          [] OTHER -> "below_min_improvement"
=============================================================================
