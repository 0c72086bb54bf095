--------------------------- MODULE SettlementProofs --------------------------
(***************************************************************************)
(* Proofs about the payout curve (Ratchet), about a frontier that climbs   *)
(* it in whatever moves (MCRatchet), about Settlement (no pool is          *)
(* overspent and no payment repeats, a paid epoch keeps its claims and     *)
(* their order, for any objectives, claims, ranks, bounds and crashes),    *)
(* and about Convergence: two nodes pay the same.  Nodes and the climb     *)
(* share no variable; each theorem is about one specification.             *)
(***************************************************************************)
EXTENDS Convergence, MCRatchet, FiniteSetTheorems, FunctionTheorems,
        NaturalsInduction, WellFoundedInduction, TLAPS

(* What the payout curve promises, for every ratchet and every score.      *)

\* Products of naturals preserve order; the arithmetic the curve rests on.
LEMMA ProductMonotone ==
    ASSUME NEW a \in Nat, NEW p \in Nat, NEW q \in Nat, p <= q
    PROVE  a * p \in Nat /\ a * p <= a * q
  OBVIOUS

\* A truncated quotient is the integer that brackets its dividend.
LEMMA QuotientBracket ==
    ASSUME NEW a \in Nat, NEW b \in Nat, b > 0
    PROVE  /\ a \div b \in Nat
           /\ b * (a \div b) <= a
           /\ a < b * (a \div b) + b
  OBVIOUS

\* Truncated division is monotone in its dividend.
LEMMA QuotientMonotone ==
    ASSUME NEW a \in Nat, NEW c \in Nat, NEW b \in Nat, b > 0, a <= c
    PROVE  a \div b <= c \div b
  <1> DEFINE q == a \div b
             s == c \div b
  <1>1. q \in Nat /\ s \in Nat /\ b * q <= a /\ c < b * s + b
    BY QuotientBracket
  <1>2. SUFFICES ASSUME q >= s + 1 PROVE FALSE
    BY <1>1
  <1>3. b * (s + 1) <= b * q
    BY <1>1, <1>2, ProductMonotone
  <1>4. b * (s + 1) = b * s + b
    BY <1>1
  <1> QED BY <1>1, <1>3, <1>4

\* A share p of b never takes more than the whole.
LEMMA ShareBounded ==
    ASSUME NEW a \in Nat, NEW p \in Nat, NEW b \in Nat, b > 0, p <= b
    PROVE  (a * p) \div b \in Nat /\ (a * p) \div b <= a
  <1>1. a * p \in Nat /\ a * p <= a * b /\ a * b \in Nat
    BY ProductMonotone
  <1>2. (a * p) \div b <= (a * b) \div b
    BY <1>1, QuotientMonotone
  <1>3. (a * b) \div b = a
    OBVIOUS
  <1> QED BY <1>1, <1>2, <1>3, QuotientBracket
-----------------------------------------------------------------------------
\* Ratchet::validate is what makes the span positive.
LEMMA SpanPositive ==
    ASSUME NEW r \in Ratchets
    PROVE  span(r) \in Nat /\ span(r) >= 1
  BY DEF Ratchets, RatchetBlock, Directions, validate, span

\* Progress is clamped to the span, whatever the score.
LEMMA ProgressBounded ==
    ASSUME NEW r \in Ratchets, NEW sc \in Int
    PROVE  progress(r, sc) \in Nat /\ progress(r, sc) <= span(r)
  <1>1. span(r) \in Nat
    BY SpanPositive
  <1>2. rawProgress(r, sc) \in Int
    BY DEF rawProgress, Ratchets, RatchetBlock
  <1> QED BY <1>1, <1>2 DEF progress

\* The same for a frontier that may be empty.
LEMMA ProgressOfBounded ==
    ASSUME NEW r \in Ratchets, NEW old \in Int \cup {NoScore}
    PROVE  progressOf(r, old) \in Nat /\ progressOf(r, old) <= span(r)
  BY ProgressBounded, SpanPositive DEF progressOf

\* No score earns more than the pool (Ratchet::cumulative): truncation and the
\* clamp together keep the curve within the reward.
THEOREM CumulativeWithinPool ==
    ASSUME NEW r \in Ratchets, NEW old \in Int \cup {NoScore}
    PROVE  cumulativeOf(r, old) \in Nat /\ cumulativeOf(r, old) <= r.reward
  <1>1. r.reward \in Nat
    BY DEF Ratchets, RatchetBlock
  <1>2. CASE old = NoScore
    BY <1>1, <1>2 DEF cumulativeOf
  <1>3. CASE old # NoScore
    <2>1. old \in Int
      BY <1>3
    <2>2. progress(r, old) \in Nat /\ progress(r, old) <= span(r)
      BY <2>1, ProgressBounded
    <2>3. span(r) \in Nat /\ span(r) > 0
      BY SpanPositive
    <2>4. cumulative(r, old) \in Nat /\ cumulative(r, old) <= r.reward
      BY <1>1, <2>2, <2>3, ShareBounded DEF cumulative
    <2> QED BY <1>3, <2>4 DEF cumulativeOf
  <1> QED BY <1>2, <1>3

\* The curve never falls as progress grows.
LEMMA CumulativeMonotone ==
    ASSUME NEW r \in Ratchets, NEW old \in Int \cup {NoScore}, NEW new \in Int,
           progressOf(r, old) <= progress(r, new)
    PROVE  cumulativeOf(r, old) <= cumulative(r, new)
  <1>1. r.reward \in Nat /\ span(r) \in Nat /\ span(r) > 0
    BY SpanPositive DEF Ratchets, RatchetBlock
  <1>2. progress(r, new) \in Nat
    BY ProgressBounded
  <1>3. CASE old = NoScore
    <2>1. r.reward * progress(r, new) \in Nat
      BY <1>1, <1>2, ProductMonotone
    <2> QED BY <1>1, <1>3, <2>1, QuotientBracket DEF cumulativeOf, cumulative
  <1>4. CASE old # NoScore
    <2>1. old \in Int /\ progress(r, old) \in Nat
      BY <1>4, ProgressBounded
    <2>2. progress(r, old) <= progress(r, new)
      BY <1>4 DEF progressOf
    <2>3. /\ r.reward * progress(r, old) \in Nat
          /\ r.reward * progress(r, new) \in Nat
          /\ r.reward * progress(r, old) <= r.reward * progress(r, new)
      BY <1>1, <1>2, <2>1, <2>2, ProductMonotone
    <2>4. cumulative(r, old) <= cumulative(r, new)
      BY <1>1, <2>3, QuotientMonotone DEF cumulative
    <2> QED BY <1>4, <2>4 DEF cumulativeOf
  <1> QED BY <1>3, <1>4

\* An improvement earns exactly the difference of the curve, so a run of
\* improvements earns what its last score is worth (Ratchet::payout).
THEOREM PayoutTelescopes ==
    ASSUME NEW r \in Ratchets, NEW old \in Int \cup {NoScore}, NEW new \in Int,
           improves(r, old, new)
    PROVE  /\ payout(r, old, new) \in Nat
           /\ cumulativeOf(r, old) + payout(r, old, new) = cumulativeOf(r, new)
           /\ progressOf(r, old) < progressOf(r, new)
  <1>1. /\ progressOf(r, old) \in Nat
        /\ progress(r, new) \in Nat
        /\ r.min_improvement \in Nat /\ r.min_improvement >= 1
    BY ProgressOfBounded, ProgressBounded DEF Ratchets, RatchetBlock, validate
  <1>2. progressOf(r, old) < progress(r, new)
    BY <1>1 DEF improves
  <1>3. cumulativeOf(r, old) <= cumulative(r, new)
    BY <1>1, <1>2, CumulativeMonotone
  <1>4. new # NoScore
    BY NoScoreAssumption
  <1>5. cumulativeOf(r, new) = cumulative(r, new) /\ progressOf(r, new) = progress(r, new)
    BY <1>4 DEF cumulativeOf, progressOf
  <1>6. cumulativeOf(r, old) \in Nat /\ cumulativeOf(r, new) \in Nat
    BY CumulativeWithinPool
  <1> QED BY <1>2, <1>3, <1>5, <1>6 DEF payout
-----------------------------------------------------------------------------
(* A frontier that climbs its curve (MCRatchet): whatever scores are       *)
(* offered, in whatever order, the pool is paid out in full exactly at the *)
(* target and exhaustion is what the code says it is.                      *)

\* A share p of b takes the whole only when it is the whole.
LEMMA ShareStrict ==
    ASSUME NEW a \in Nat, NEW p \in Nat, NEW b \in Nat, a > 0, b > 0, p < b
    PROVE  (a * p) \div b < a
  <1>1. a * p \in Nat /\ a * (p + 1) <= a * b
    BY ProductMonotone
  <1>2. a * (p + 1) = a * p + a
    OBVIOUS
  <1>3. a * p < a * b
    BY <1>1, <1>2
  <1> DEFINE q == (a * p) \div b
  <1>4. q \in Nat /\ b * q <= a * p
    BY <1>1, QuotientBracket
  <1>5. a * b = b * a
    OBVIOUS
  <1>6. SUFFICES ASSUME q >= a PROVE FALSE
    BY <1>4
  <1>7. b * a <= b * q
    BY <1>4, <1>6, ProductMonotone
  <1> QED BY <1>1, <1>3, <1>4, <1>5, <1>7

\* Blocks are well-formed ratchets with a reward.
LEMMA BlockShape ==
    ASSUME NEW r \in Blocks
    PROVE  /\ r \in Ratchets /\ r.reward \in Nat \ {0} /\ r.baseline = 0
           /\ r.target \in Targets
           /\ r.min_improvement \in Nat \ {0}
  <1> DEFINE Fields == [direction : Directions, baseline : {0}, target : Targets,
                        min_improvement : MinImprovements, reward : Rewards]
  <1>1. r \in Fields /\ validate(r)
    BY DEF Blocks
  <1>2. /\ r = [direction |-> r.direction, baseline |-> r.baseline,
               target |-> r.target, min_improvement |-> r.min_improvement,
               reward |-> r.reward]
        /\ r.direction \in Directions /\ r.baseline = 0 /\ r.target \in Targets
        /\ r.min_improvement \in MinImprovements /\ r.reward \in Rewards
    BY <1>1
  <1>3. r.min_improvement \in Nat \ {0}
    <2>1. r.min_improvement \in Nat
      BY <1>2, ClimbAssumption
    <2>2. r.min_improvement >= 1
      BY <1>1 DEF validate
    <2> QED BY <2>1, <2>2
  <1>4. r.target \in Int /\ r.reward \in Nat \ {0}
    BY <1>2, ClimbAssumption DEF Targets
  <1>5. r \in RatchetBlock
    BY <1>2, <1>3, <1>4 DEF RatchetBlock
  <1> QED BY <1>1, <1>2, <1>3, <1>4, <1>5 DEF Ratchets

\* The curve is at the top exactly where the span ends.
LEMMA CurveTop ==
    ASSUME NEW r \in Blocks, NEW s \in Int
    PROVE  cumulative(r, s) = r.reward <=> exhausted(r, s)
  <1>1. /\ r \in Ratchets /\ r.reward \in Nat /\ r.reward > 0
        /\ span(r) \in Nat /\ span(r) > 0
        /\ progress(r, s) \in Nat /\ progress(r, s) <= span(r)
    BY BlockShape, SpanPositive, ProgressBounded
  <1>2. CASE progress(r, s) < span(r)
    <2> DEFINE q == (r.reward * progress(r, s)) \div span(r)
    <2>1. q < r.reward
      BY <1>1, <1>2, ShareStrict
    <2>2. q \in Nat
      BY <1>1, ShareBounded
    <2>3. q # r.reward
      BY <1>1, <2>1, <2>2
    <2> QED BY <1>1, <1>2, <2>3 DEF cumulative, exhausted
  <1>3. CASE progress(r, s) = span(r)
    <2>1. (r.reward * span(r)) \div span(r) = r.reward
      BY <1>1
    <2> QED BY <1>1, <1>3, <2>1 DEF cumulative, exhausted
  <1> QED BY <1>1, <1>2, <1>3

\* What has been paid is what the curve says of the score that was reached,
\* and a frontier has moved only on a curve that some score can move.
ClimbInv ==
    /\ ratchet \in Blocks
    /\ score \in Int \cup {NoScore}
    /\ paid = cumulativeOf(ratchet, score)
    /\ moves \in Nat
    /\ moves > 0 => isFundable(ratchet)
    /\ moves * ratchet.min_improvement <= progressOf(ratchet, score)

\* For every curve and every sequence of offered scores, the payments telescope
\* to the curve, and the moves never outnumber what their distance allows
\* (Ratchet::payout, min_improvement).
THEOREM ClimbInvariant == ClimbSpec => []ClimbInv
  <1>1. Start => ClimbInv
    BY BlockShape DEF Start, ClimbInv, cumulativeOf, progressOf
  <1>2. ClimbInv /\ [Climb]_climb => ClimbInv'
    <2> SUFFICES ASSUME ClimbInv, [Climb]_climb PROVE ClimbInv'
      OBVIOUS
    <2>1. CASE UNCHANGED climb
      BY <2>1 DEF climb, ClimbInv
    <2>2. ASSUME NEW new \in Scores, Offer(new) PROVE ClimbInv'
      <3>1. new \in Int
        BY ClimbAssumption DEF Scores
      <3>2. /\ ratchet \in Ratchets
            /\ ratchet.min_improvement \in Nat /\ ratchet' = ratchet
            /\ progressOf(ratchet, score) \in Nat
            /\ progress(ratchet, new) \in Nat
            /\ progress(ratchet, new) <= span(ratchet)
            /\ span(ratchet) \in Nat
        BY <2>2, <3>1, BlockShape, ProgressOfBounded, ProgressBounded,
           SpanPositive DEF ClimbInv, Offer
      <3>3. CASE improves(ratchet, score, new)
        <4>1. score' = new /\ moves' = moves + 1
              /\ paid' = paid + payout(ratchet, score, new)
          BY <2>2, <3>3 DEF Offer
        <4>2. paid' = cumulativeOf(ratchet, new)
          BY <3>1, <3>2, <3>3, <4>1, PayoutTelescopes DEF ClimbInv
        <4>3. isFundable(ratchet)
          BY <3>2, <3>3 DEF improves, isFundable
        <4>4. progressOf(ratchet, new) = progress(ratchet, new)
          BY <3>1, NoScoreAssumption DEF progressOf
        <4>5. (moves + 1) * ratchet.min_improvement
                = moves * ratchet.min_improvement + ratchet.min_improvement
          <5>1. \A m, k \in Nat : (m + 1) * k = m * k + k
            OBVIOUS
          <5> QED BY <3>2, <5>1 DEF ClimbInv
        <4>6. (moves + 1) * ratchet.min_improvement <= progressOf(ratchet, new)
          <5>1. moves * ratchet.min_improvement \in Nat
            BY <3>2, ProductMonotone DEF ClimbInv
          <5> QED BY <3>2, <3>3, <4>4, <4>5, <5>1 DEF ClimbInv, improves
        <4> QED BY <3>1, <3>2, <4>1, <4>2, <4>3, <4>6 DEF ClimbInv
      <3>4. CASE ~improves(ratchet, score, new)
        BY <2>2, <3>4 DEF Offer, ClimbInv
      <3> QED BY <3>3, <3>4
    <2> QED BY <2>1, <2>2 DEF Climb
  <1> QED BY <1>1, <1>2, PTL DEF ClimbSpec

\* The pool is paid out in full exactly when the frontier stands at the target,
\* in however many moves (Ratchet::payout, exhausted).
THEOREM PaidInFull == ClimbSpec => []PaidInFullAtTarget
  <1>1. ClimbInv => PaidInFullAtTarget
    <2> SUFFICES ASSUME ClimbInv PROVE PaidInFullAtTarget
      OBVIOUS
    <2>1. CASE score = NoScore
      <3>1. /\ ratchet.baseline \in Int /\ ratchet.reward > 0
            /\ span(ratchet) \in Nat /\ span(ratchet) >= 1
        BY BlockShape, SpanPositive DEF ClimbInv
      <3>2. progress(ratchet, ratchet.baseline) = 0
        BY <3>1 DEF progress, rawProgress
      <3> QED BY <2>1, <3>1, <3>2 DEF ClimbInv, PaidInFullAtTarget, cumulativeOf,
                                      reached, exhausted
    <2>2. CASE score # NoScore
      BY <2>2, CurveTop DEF ClimbInv, PaidInFullAtTarget, cumulativeOf, reached
    <2> QED BY <2>1, <2>2
  <1> QED BY <1>1, ClimbInvariant, PTL

\* The target itself is always a score that may be offered.
LEMMA TargetReached ==
    ASSUME NEW r \in Blocks
    PROVE  r.target \in Scores /\ progress(r, r.target) = span(r)
  <1>1. r \in Ratchets /\ r.target \in Targets /\ r.baseline = 0
    BY BlockShape
  <1>2. r.target \in Scores
    BY <1>1, ClimbAssumption DEF Targets, Scores
  <1>3. rawProgress(r, r.target) = span(r)
    BY <1>1, ClimbAssumption
       DEF Ratchets, RatchetBlock, Directions, validate, rawProgress, span, Targets
  <1> QED BY <1>1, <1>2, <1>3, SpanPositive DEF progress

\* is_exhausted tells that no score at all moves the frontier any more, and a
\* frontier whose block is_fundable refuses never moves.
THEOREM ExhaustionFinal == ClimbSpec => []ExhaustedIsFinal
  <1>1. ClimbInv => ExhaustedIsFinal
    <2> SUFFICES ASSUME ClimbInv PROVE ExhaustedIsFinal
      OBVIOUS
    <2>1. /\ ratchet \in Ratchets /\ ratchet.baseline \in Int
          /\ ratchet.min_improvement \in Nat
          /\ span(ratchet) \in Nat /\ span(ratchet) >= 1
          /\ progressOf(ratchet, score) \in Nat
          /\ ratchet.target \in Scores
          /\ progress(ratchet, ratchet.target) = span(ratchet)
      BY BlockShape, SpanPositive, ProgressOfBounded, TargetReached DEF ClimbInv
    <2>2. progress(ratchet, reached) = progressOf(ratchet, score)
      BY <2>1 DEF reached, progressOf, progress, rawProgress
    <2>3. \A new \in Scores : progress(ratchet, new) \in Nat
                              /\ progress(ratchet, new) <= span(ratchet)
      BY <2>1, ProgressBounded, ClimbAssumption DEF Scores
    <2>4. isExhausted(ratchet, reached) <=>
            ~\E new \in Scores : improves(ratchet, score, new)
      BY <2>1, <2>2, <2>3 DEF isExhausted, improves
    <2>5. (~isFundable(ratchet)) => moves = 0
      BY DEF ClimbInv
    <2> QED BY <2>4, <2>5 DEF ExhaustedIsFinal
  <1> QED BY <1>1, ClimbInvariant, PTL

\* An improver cannot cut a span into more moves than min_improvement allows.
THEOREM MovesBounded == ClimbSpec => []MovesAreBounded
  <1>1. ClimbInv => MovesAreBounded
    BY BlockShape, ProgressOfBounded, SpanPositive, ProductMonotone
       DEF ClimbInv, MovesAreBounded
  <1> QED BY <1>1, ClimbInvariant, PTL
-----------------------------------------------------------------------------
(* Settlement.                                                             *)

\* The assumptions on the records, as the shape a proof step uses.
LEMMA ObjectiveShape ==
    ASSUME NEW o \in Objectives
    PROVE  /\ Objective[o].kind \in Kinds
           /\ Objective[o].reward \in Nat
           /\ Objective[o].unit_price \in Nat
           /\ Objective[o].ratchet \in RatchetBlock
  BY ObjectiveAssumption

LEMMA ClaimShape ==
    ASSUME NEW c \in Claims
    PROVE  /\ Claim[c].objective \in Objectives
           /\ Claim[c].commitment \in Commitments
           /\ Claim[c].artifact \in Artifacts
           /\ Claim[c].created_at \in Epochs
           /\ Claim[c].judge \in Verdicts
           /\ Claim[c].score \in Int \cup {NoScore}
           /\ Claim[c].units \subseteq Units
  BY ClaimAssumption DEF Verdicts

LEMMA EpochsAreNaturals ==
    (\A e \in Epochs : e \in Nat) /\ 1 \in Epochs /\ 0 \notin Epochs
  BY BoundsAssumption DEF Epochs

\* The ratchet of a posted progressive objective is one the curve is proved for.
LEMMA PostedRatchet ==
    ASSUME LogOK, NEW o \in posted, o \in Objectives,
           Objective[o].kind = "ratchet"
    PROVE  /\ Objective[o].ratchet \in Ratchets
           /\ Objective[o].ratchet.reward = Objective[o].reward
  BY ObjectiveShape DEF LogOK, admissible, Ratchets

\* The novelty keys are keys.
LEMMA KeysOfClaims ==
    ASSUME NEW c \in Claims
    PROVE  /\ artifact_id(c) \in Keys
           /\ unitKeys(c) \subseteq Keys
           /\ \A settled \in BOOLEAN : consumedBy(c, settled) \subseteq Keys
  <1>1. artifact_id(c) \in Keys
    BY ClaimShape DEF artifact_id, Keys
  <1>2. unitKeys(c) \subseteq Keys
    BY ClaimShape DEF unitKeys, Keys
  <1> QED BY <1>1, <1>2 DEF consumedBy

\* A piecework claim's novel units are finite, so their number is a natural.
LEMMA NovelFinite ==
    ASSUME NEW c \in Claims
    PROVE  IsFiniteSet(novelUnits(c)) /\ Cardinality(novelUnits(c)) \in Nat
  <1>1. IsFiniteSet(Claim[c].units)
    BY ClaimAssumption
  <1>2. IsFiniteSet(unitKeys(c))
    <2> DEFINE f == [u \in Claim[c].units |-> <<"piece", u>>]
    <2>1. f \in Surjection(Claim[c].units, unitKeys(c))
      BY DEF Surjection, unitKeys
    <2> QED BY <1>1, <2>1, FS_Surjection
  <1>3. IsFiniteSet(novelUnits(c))
    BY <1>2, FS_Subset DEF novelUnits
  <1> QED BY <1>3, FS_CardinalityType

\* What settle_unit pays never exceeds what the pool still holds.
LEMMA UnitRewardWithinPool ==
    ASSUME NEW c \in Claims,
           total[Claim[c].objective] \in Nat,
           total[Claim[c].objective] <= Objective[Claim[c].objective].reward
    PROVE  /\ unitReward(c) \in Nat
           /\ total[Claim[c].objective] + unitReward(c)
                <= Objective[Claim[c].objective].reward
  <1> DEFINE o == Claim[c].objective
             n == Cardinality(novelUnits(c))
  <1>1. /\ Objective[o].unit_price \in Nat /\ Objective[o].reward \in Nat
        /\ n \in Nat
    BY ObjectiveShape, ClaimShape, NovelFinite
  <1>2. Objective[o].unit_price * n \in Nat
    BY <1>1, ProductMonotone
  <1> QED BY <1>1, <1>2 DEF unitReward, payout_for

\* The claim whose turn it is was admitted against a posted objective.
LEMMA NextIsAdmitted ==
    ASSUME MoneyInv, NEW c \in Claims, pc \in {"pay", "settlement"},
           c \in drain.todo
    PROVE  /\ revealed[c] = drain.epoch /\ revealed[c] # 0
           /\ c \in accepted
           /\ Claim[c].objective \in posted /\ Claim[c].objective \in Objectives
  BY ClaimShape, EpochsAreNaturals
  DEF MoneyInv, ControlOK, LogOK, accepted_in_epoch, accepted

\* The pools follow from the invariant.
LEMMA PoolsHold == MoneyInv => PoolNeverOverspent
  <1> SUFFICES ASSUME MoneyInv, NEW o \in Objectives
               PROVE  total[o] <= Objective[o].reward
    BY DEF PoolNeverOverspent
  <1>t. /\ total[o] \in Nat /\ Objective[o].reward \in Nat
        /\ frontier[o].score \in Int \cup {NoScore}
        /\ pending(o) \in Nat
    BY ObjectiveShape DEF MoneyInv, TypeOK, pending, Drains
  <1>1. CASE o \notin posted
    BY <1>t, <1>1 DEF MoneyInv, MoneyOK
  <1>2. CASE o \in posted /\ Objective[o].kind \in {"plain", "piecework"}
    BY <1>t, <1>2 DEF MoneyInv, MoneyOK
  <1>3. CASE o \in posted /\ Objective[o].kind = "ratchet"
    <2>1. /\ total[o] + pending(o) <= frontier[o].paid_cumulative
          /\ frontier[o].paid_cumulative =
                cumulativeOf(Objective[o].ratchet, frontier[o].score)
      BY <1>3 DEF MoneyInv, MoneyOK
    <2>2. /\ Objective[o].ratchet \in Ratchets
          /\ Objective[o].ratchet.reward = Objective[o].reward
      BY <1>3, PostedRatchet DEF MoneyInv
    <2>3. /\ cumulativeOf(Objective[o].ratchet, frontier[o].score) \in Nat
          /\ cumulativeOf(Objective[o].ratchet, frontier[o].score)
                <= Objective[o].reward
      BY <1>t, <2>2, CumulativeWithinPool
    <2> QED BY <1>t, <2>1, <2>3
  <1> QED BY <1>1, <1>2, <1>3, ObjectiveShape DEF Kinds

\* What an advance adds is what the curve says.
LEMMA AdvanceFollowsCurve ==
    ASSUME MoneyInv, NEW c \in Claims, AdvanceFrontier(c)
    PROVE  LET o == Claim[c].objective
               r == Objective[o].ratchet
               reward == payout(r, frontier[o].score, Claim[c].score)
           IN  /\ o \in posted /\ r \in Ratchets
               /\ Claim[c].score \in Int
               /\ reward \in Nat
               /\ frontier[o].paid_cumulative + reward =
                    cumulativeOf(r, Claim[c].score)
               /\ progressOf(r, frontier[o].score)
                    < progressOf(r, Claim[c].score)
  <1> DEFINE o == Claim[c].objective
             r == Objective[o].ratchet
  <1>1. o \in posted /\ o \in Objectives
    BY NextIsAdmitted DEF AdvanceFrontier, IsNext
  <1>2. Objective[o].kind = "ratchet"
    BY DEF AdvanceFrontier, kindOf
  <1>3. r \in Ratchets
    BY <1>1, <1>2, PostedRatchet DEF MoneyInv
  <1>4. Claim[c].score \in Int
    BY ClaimShape DEF AdvanceFrontier, advances
  <1>5. improves(r, frontier[o].score, Claim[c].score)
    BY DEF AdvanceFrontier, advances
  <1>6. frontier[o].score \in Int \cup {NoScore}
    BY <1>1 DEF MoneyInv, TypeOK
  <1>7. frontier[o].paid_cumulative = cumulativeOf(r, frontier[o].score)
    BY <1>1, <1>2 DEF MoneyInv, MoneyOK
  <1> QED BY <1>1, <1>3, <1>4, <1>5, <1>6, <1>7, PayoutTelescopes

-----------------------------------------------------------------------------
(* Type correctness. *)

LEMMA PayType ==
    ASSUME TypeOK, NEW c \in Claims, NEW reward \in Nat, Pay(c, reward)
    PROVE  receipts' \in [Claims -> Nat] /\ total' \in [Objectives -> Nat]
  BY ClaimShape DEF TypeOK, Pay

LEMMA FinishType ==
    ASSUME TypeOK, NEW c \in Claims, NEW settled \in BOOLEAN, Finish(c, settled)
    PROVE  drain' \in Drains
  BY KeysOfClaims DEF TypeOK, Finish, Drains

LEMMA TypeInit == Init => TypeOK
  <1> SUFFICES ASSUME Init PROVE TypeOK
    OBVIOUS
  <1> USE EpochsAreNaturals, BoundsAssumption
  <1> QED BY DEF Init, TypeOK, Drains, NoCall, NoDrain, NoFrontier, Verdicts

LEMMA TypeStep == MoneyInv /\ [Next]_vars => TypeOK'
  <1> SUFFICES ASSUME MoneyInv, [Next]_vars PROVE TypeOK'
    OBVIOUS
  <1>t. TypeOK
    BY DEF MoneyInv
  <1> USE EpochsAreNaturals, BoundsAssumption
  <1>1. ASSUME NEW o \in Objectives, PostObjective(o) PROVE TypeOK'
    BY <1>1, <1>t DEF PostObjective, TypeOK
  <1>2. CASE Tick
    BY <1>2, <1>t DEF Tick, Enter, TypeOK, logVars
  <1>3. ASSUME NEW h \in Commitments, CommitCall(h) PROVE TypeOK'
    <2>1. Commitment[h].created_at \in Epochs
      BY CommitmentAssumption
    <2> QED BY <1>3, <1>t, <2>1 DEF CommitCall, Enter, TypeOK, logVars
  <1>4. ASSUME NEW c \in Claims, RevealCall(c) PROVE TypeOK'
    <2>1. Claim[c].created_at \in Epochs
      BY ClaimShape
    <2> QED BY <1>4, <1>t, <2>1 DEF RevealCall, Enter, TypeOK, logVars
  <1>5. CASE StartBatch
    BY <1>5, <1>t DEF StartBatch, due_epochs, accepted_in_epoch, accepted,
                      TypeOK, Drains, logVars
  <1>6. ASSUME NEW c \in Claims, SettlePlain(c) PROVE TypeOK'
    <2>1. Objective[Claim[c].objective].reward \in Nat
      BY ClaimShape, ObjectiveShape
    <2>2. /\ receipts' \in [Claims -> Nat] /\ total' \in [Objectives -> Nat]
          /\ drain' \in Drains
      BY <1>6, <1>t, <2>1, PayType, FinishType DEF SettlePlain
    <2> QED BY <1>6, <1>t, <2>2 DEF SettlePlain, TypeOK
  <1>7. ASSUME NEW c \in Claims, SettleUnit(c) PROVE TypeOK'
    <2>1. unitReward(c) \in Nat
      BY <1>t, ClaimShape, PoolsHold, UnitRewardWithinPool
      DEF PoolNeverOverspent, TypeOK
    <2>2. /\ receipts' \in [Claims -> Nat] /\ total' \in [Objectives -> Nat]
          /\ drain' \in Drains
      BY <1>7, <1>t, <2>1, PayType, FinishType DEF SettleUnit
    <2> QED BY <1>7, <1>t, <2>2 DEF SettleUnit, TypeOK
  <1>8. ASSUME NEW c \in Claims, AdvanceFrontier(c) PROVE TypeOK'
    <2> DEFINE o == Claim[c].objective
               reward == payout(Objective[o].ratchet, frontier[o].score,
                                Claim[c].score)
    <2>1. reward \in Nat /\ Claim[c].score \in Int /\ o \in Objectives
      BY <1>8, AdvanceFollowsCurve, ClaimShape
    <2> HIDE DEF reward
    <2>2. drain' \in Drains /\ pc' \in {"pay", "settlement"}
      <3>1. CASE reward > 0
        BY <1>8, <1>t, <2>1, <3>1
        DEF AdvanceFrontier, IsNext, TypeOK, Drains, reward
      <3>2. CASE ~(reward > 0)
        BY <1>8, <1>t, <3>2, FinishType DEF AdvanceFrontier, IsNext, reward
      <3> QED BY <3>1, <3>2
    <2>3. frontier'[o] = [claim |-> c, score |-> Claim[c].score,
                          paid_cumulative |->
                                frontier[o].paid_cumulative + reward]
      BY <1>8, <1>t, <2>1 DEF AdvanceFrontier, TypeOK, reward
    <2>4. frontier' \in [Objectives ->
            [claim : Claims \cup {0}, score : Int \cup {NoScore},
             paid_cumulative : Nat]]
      BY <1>8, <1>t, <2>1, <2>3 DEF AdvanceFrontier, TypeOK
    <2> QED BY <1>8, <1>t, <2>2, <2>4 DEF AdvanceFrontier, TypeOK
  <1>9. CASE PayImprovement
    <2>1. drain.payee \in Claims /\ drain.owed \in Nat
      BY <1>9, <1>t DEF PayImprovement, MoneyInv, ControlOK, TypeOK, Drains
    <2>2. receipts' \in [Claims -> Nat] /\ total' \in [Objectives -> Nat]
      BY <1>9, <1>t, <2>1, PayType DEF PayImprovement
    <2>3. drain' \in Drains
      <3>1. artifact_id(drain.payee) \in Keys
        BY <2>1, KeysOfClaims
      <3>2. drain.consumed \cup {artifact_id(drain.payee)} \in SUBSET Keys
        BY <1>t, <3>1 DEF TypeOK, Drains
      <3>3. drain.todo \ {drain.payee} \in SUBSET Claims
        BY <1>t DEF TypeOK, Drains
      <3> QED BY <1>9, <1>t, <3>2, <3>3 DEF PayImprovement, TypeOK, Drains
    <2> QED BY <1>9, <1>t, <2>2, <2>3 DEF PayImprovement, TypeOK
  <1>10. ASSUME NEW c \in Claims, SettleNothing(c) PROVE TypeOK'
    <2>1. drain' \in Drains
      BY <1>10, <1>t, FinishType DEF SettleNothing
    <2> QED BY <1>10, <1>t, <2>1 DEF SettleNothing, TypeOK, logVars
  <1>11. CASE WriteBatch
    BY <1>11, <1>t DEF WriteBatch, TypeOK, Drains, NoDrain
  <1>12. CASE TickReturns
    BY <1>12, <1>t DEF TickReturns, Return, NoCall, TypeOK, logVars
  <1>13. CASE CommitReturns
    BY <1>13, <1>t DEF CommitReturns, Drained, Return, NoCall, TypeOK
  <1>14. CASE AppendClaim
    BY <1>14, <1>t DEF AppendClaim, Drained, TypeOK
  <1>15. CASE RefuseClaim
    BY <1>15, <1>t DEF RefuseClaim, Return, NoCall, TypeOK, logVars
  <1>16. CASE AppendVerdict
    <2>1. call.what \in Claims /\ Claim[call.what].judge \in Verdicts
      BY <1>16, <1>t, ClaimShape DEF AppendVerdict, MoneyInv, ControlOK, TypeOK
    <2> QED BY <1>16, <1>t, <2>1
            DEF AppendVerdict, Return, NoCall, TypeOK, Verdicts
  <1>17. CASE Crash
    BY <1>17, <1>t DEF Crash, NoCall, NoDrain, TypeOK, Drains, logVars
  <1>18. CASE AdvanceClock
    BY <1>18, <1>t DEF AdvanceClock, Epochs, TypeOK, logVars, handlerVars
  <1>19. CASE UNCHANGED vars
    BY <1>19, <1>t DEF vars, TypeOK
  <1> QED BY <1>1, <1>2, <1>3, <1>4, <1>5, <1>6, <1>7, <1>8, <1>9, <1>10,
             <1>11, <1>12, <1>13, <1>14, <1>15, <1>16, <1>17, <1>18, <1>19
          DEF Next, HandlerStep, Settle
-----------------------------------------------------------------------------
(* The handler's locals. *)

\* An improvement that advances the frontier has not been paid before, even if
\* a crash made the drain start over: a paid one is behind the frontier.
LEMMA AdvancerIsUnpaid ==
    ASSUME MoneyInv, NEW c \in Claims, AdvanceFrontier(c)
    PROVE  receipts[c] = 0
  <1> DEFINE o == Claim[c].objective
             r == Objective[o].ratchet
  <1>1. /\ o \in posted /\ r \in Ratchets /\ Claim[c].score \in Int
        /\ progressOf(r, frontier[o].score) < progressOf(r, Claim[c].score)
    BY AdvanceFollowsCurve
  <1>2. /\ frontier[o].score \in Int \cup {NoScore}
        /\ receipts[c] \in Nat
    BY ClaimShape DEF MoneyInv, TypeOK
  <1>3. /\ progressOf(r, frontier[o].score) \in Nat
        /\ progressOf(r, Claim[c].score) \in Nat
    BY <1>1, <1>2, ProgressOfBounded
  <1>4. kindOf(c) = "ratchet"
    BY DEF AdvanceFrontier
  <1>5. receipts[c] > 0 =>
            progressOf(r, Claim[c].score) <= progressOf(r, frontier[o].score)
    BY <1>4 DEF MoneyInv, MoneyOK
  <1> QED BY <1>1, <1>2, <1>3, <1>5

\* The part of ControlOK that speaks of the epoch being drained.
DrainOK ==
    /\ drain.epoch \in Epochs
    /\ drain.epoch + FinalityEpochs < call.at
    /\ \A d \in drained_epochs : d < drain.epoch
    /\ drain.members = accepted_in_epoch(drain.epoch)
    /\ drain.members # {}
    /\ drain.todo \subseteq drain.members

\* Paying a claim of the batch leaves it standing.
LEMMA DrainStays ==
    ASSUME MoneyInv, pc \in {"pay", "settlement"},
           UNCHANGED <<revealed, verdict, batch, call>>,
           drain'.epoch = drain.epoch, drain'.members = drain.members,
           drain'.todo \subseteq drain.todo
    PROVE  DrainOK'
  BY DEF MoneyInv, ControlOK, DrainOK, drained_epochs, accepted_in_epoch,
         accepted

LEMMA ControlStep == MoneyInv /\ [Next]_vars => ControlOK'
  <1> SUFFICES ASSUME MoneyInv, [Next]_vars PROVE ControlOK'
    OBVIOUS
  <1>t. TypeOK /\ ControlOK
    BY DEF MoneyInv
  <1> USE EpochsAreNaturals, BoundsAssumption
  <1>1. ASSUME NEW o \in Objectives, PostObjective(o) PROVE ControlOK'
    BY <1>1 DEF PostObjective, ControlOK
  <1>2. CASE Tick
    BY <1>2, <1>t DEF Tick, Enter, ControlOK, TypeOK
  <1>3. ASSUME NEW h \in Commitments, CommitCall(h) PROVE ControlOK'
    <2>1. Commitment[h].created_at \in Epochs
      BY CommitmentAssumption
    <2>n. now \in Nat
      BY <1>t DEF TypeOK
    <2>2. pc' = "drain" /\ now' = now /\ call'.at = Commitment[h].created_at
      BY <1>3 DEF CommitCall, Enter
    <2>3. Commitment[h].created_at <= now
      BY <1>3, <2>n, <2>1 DEF CommitCall, Deliverable
    <2> QED BY <2>1, <2>2, <2>3 DEF ControlOK
  <1>4. ASSUME NEW c \in Claims, RevealCall(c) PROVE ControlOK'
    <2>1. Claim[c].created_at \in Epochs
      BY ClaimShape
    <2>n. now \in Nat
      BY <1>t DEF TypeOK
    <2>2. /\ pc' = "drain" /\ now' = now
          /\ \/ call'.at = Claim[c].created_at /\ Claim[c].created_at <= now
             \/ call'.at = now
      BY <1>4, <2>n, <2>1 DEF RevealCall, Deliverable, Enter
    <2> QED BY <1>t, <2>1, <2>2 DEF ControlOK, TypeOK
  <1>5. CASE StartBatch
    <2>1. /\ pc = "drain" /\ pc' = "pay"
          /\ UNCHANGED <<now, revealed, verdict, batch, call>>
      BY <1>5 DEF StartBatch, logVars
    <2>2. PICK e \in due_epochs(call.at) :
            drain' = [epoch |-> e, members |-> accepted_in_epoch(e),
                      todo |-> accepted_in_epoch(e), consumed |-> {},
                      payee |-> 0, owed |-> 0]
      BY <1>5 DEF StartBatch
    <2>3. DrainOK'
      BY <2>1, <2>2 DEF DrainOK, due_epochs, drained_epochs, accepted_in_epoch,
                        accepted
    <2> QED BY <1>t, <2>1, <2>3 DEF ControlOK, DrainOK
  <1>6. ASSUME NEW c \in Claims,
               SettlePlain(c) \/ SettleUnit(c) \/ SettleNothing(c)
        PROVE  ControlOK'
    <2>1. /\ pc = "pay" /\ pc' = "pay"
          /\ UNCHANGED <<now, revealed, verdict, batch, call>>
          /\ \E settled \in BOOLEAN : Finish(c, settled)
      BY <1>6 DEF SettlePlain, SettleUnit, SettleNothing, IsNext, logVars
    <2>2. /\ drain'.epoch = drain.epoch /\ drain'.members = drain.members
          /\ drain'.todo \subseteq drain.todo
      BY <1>t, <2>1 DEF Finish, TypeOK, Drains
    <2>3. DrainOK'
      BY <2>1, <2>2, DrainStays
    <2> QED BY <1>t, <2>1, <2>3 DEF ControlOK, DrainOK
  <1>7. ASSUME NEW c \in Claims, AdvanceFrontier(c) PROVE ControlOK'
    <2> DEFINE o == Claim[c].objective
               reward == payout(Objective[o].ratchet, frontier[o].score,
                                Claim[c].score)
    <2>1. /\ pc = "pay" /\ c \in drain.todo /\ kindOf(c) = "ratchet"
          /\ UNCHANGED <<now, revealed, verdict, batch, call, receipts>>
      BY <1>7 DEF AdvanceFrontier, IsNext
    <2>2. o \in Objectives /\ receipts[c] = 0
      BY <1>7, ClaimShape, AdvancerIsUnpaid
    <2>3. frontier'[o].score = Claim[c].score
      BY <1>7, <1>t, <2>2 DEF AdvanceFrontier, TypeOK
    <2>4. \/ pc' = "pay" /\ Finish(c, TRUE)
          \/ /\ pc' = "settlement"
             /\ drain' = [drain EXCEPT !.payee = c, !.owed = reward]
      BY <1>7, <2>1 DEF AdvanceFrontier
    <2> HIDE DEF reward
    <2>5. /\ drain'.epoch = drain.epoch /\ drain'.members = drain.members
          /\ drain'.todo \subseteq drain.todo
          /\ pc' = "settlement" => drain'.payee = c /\ c \in drain'.todo
      <3>1. CASE pc' = "pay" /\ Finish(c, TRUE)
        BY <1>t, <3>1 DEF Finish, TypeOK, Drains
      <3>2. CASE /\ pc' = "settlement"
                 /\ drain' = [drain EXCEPT !.payee = c, !.owed = reward]
        BY <1>t, <2>1, <3>2 DEF TypeOK, Drains
      <3> QED BY <2>4, <3>1, <3>2
    <2>6. DrainOK'
      BY <2>1, <2>5, DrainStays
    <2> QED BY <1>t, <2>1, <2>2, <2>3, <2>4, <2>5, <2>6
            DEF ControlOK, DrainOK, kindOf
  <1>8. CASE PayImprovement
    <2>1. /\ pc = "settlement" /\ pc' = "pay"
          /\ UNCHANGED <<now, revealed, verdict, batch, call>>
          /\ drain'.epoch = drain.epoch /\ drain'.members = drain.members
          /\ drain'.todo \subseteq drain.todo
      BY <1>8, <1>t DEF PayImprovement, TypeOK, Drains
    <2>2. DrainOK'
      BY <2>1, DrainStays
    <2> QED BY <1>t, <2>1, <2>2 DEF ControlOK, DrainOK
  <1>9. CASE WriteBatch
    BY <1>9, <1>t DEF WriteBatch, ControlOK
  <1>10. CASE TickReturns \/ CommitReturns \/ RefuseClaim \/ AppendVerdict
    BY <1>10 DEF TickReturns, CommitReturns, RefuseClaim, AppendVerdict, Return,
                 ControlOK
  <1>11. CASE AppendClaim
    BY <1>11, <1>t DEF AppendClaim, Drained, ControlOK
  <1>12. CASE Crash
    BY <1>12 DEF Crash, ControlOK
  <1>13. CASE AdvanceClock
    <2>1. UNCHANGED <<revealed, verdict, batch, call, drain, pc, receipts,
                      frontier>>
      BY <1>13 DEF AdvanceClock, logVars, handlerVars
    <2>n. now \in Nat
      BY <1>t DEF TypeOK
    <2>2. now \in Nat /\ now' = now + 1
      BY <1>13, <2>n DEF AdvanceClock
    <2>3. pc # "idle" => call'.at \in Epochs /\ call'.at <= now'
      BY <1>t, <2>1, <2>2 DEF ControlOK
    <2>4. pc \in {"pay", "settlement"} => DrainOK'
      BY <2>1, DrainStays
    <2> QED BY <1>t, <2>1, <2>3, <2>4 DEF ControlOK, DrainOK, kindOf
  <1>14. CASE UNCHANGED vars
    BY <1>14, <1>t DEF vars, ControlOK, drained_epochs, accepted_in_epoch,
                       accepted, kindOf
  <1> QED BY <1>1, <1>2, <1>3, <1>4, <1>5, <1>6, <1>7, <1>8, <1>9, <1>10,
             <1>11, <1>12, <1>13, <1>14
          DEF Next, HandlerStep, Settle

-----------------------------------------------------------------------------
(* What admission established. *)

LEMMA LogStep == MoneyInv /\ [Next]_vars => LogOK'
  <1> SUFFICES ASSUME MoneyInv, [Next]_vars PROVE LogOK'
    OBVIOUS
  <1>t. TypeOK /\ ControlOK /\ LogOK
    BY DEF MoneyInv
  <1> USE EpochsAreNaturals, BoundsAssumption
  <1>1. ASSUME NEW o \in Objectives, PostObjective(o) PROVE LogOK'
    BY <1>1, <1>t DEF PostObjective, LogOK, admissible
  <1>2. CASE CommitReturns
    <2>1. call.what \in Commitments
      BY <1>2, <1>t DEF CommitReturns, Drained, TypeOK
    <2>2. \A h \in Commitments : committed[h] # 0 => committed'[h] = committed[h]
      BY <1>2, <1>t, <2>1 DEF CommitReturns, TypeOK
    <2> QED BY <1>2, <1>t, <2>2, ClaimShape
            DEF CommitReturns, LogOK, admissible
  <1>3. CASE AppendClaim
    <2>1. call.what \in Claims /\ call.at \in Epochs /\ call.at <= now
      BY <1>3, <1>t DEF AppendClaim, Drained, TypeOK, ControlOK
    <2>2. /\ Claim[call.what].objective \in posted
          /\ committed[Claim[call.what].commitment] # 0
          /\ committed[Claim[call.what].commitment] < call.at
      BY <1>3, <1>t, <2>1, ClaimShape
      DEF AppendClaim, revealAdmissible, TypeOK
    <2> QED BY <1>3, <1>t, <2>1, <2>2
            DEF AppendClaim, LogOK, admissible, TypeOK
  <1>4. CASE AdvanceClock
    <2>n. now \in Nat
      BY <1>t DEF TypeOK
    <2>1. now' = now + 1 /\ UNCHANGED logVars
      BY <1>4 DEF AdvanceClock
    <2>2. \A c \in Claims : revealed[c] \in Nat
      BY <1>t DEF TypeOK
    <2> QED BY <1>t, <2>n, <2>1, <2>2 DEF LogOK, admissible, logVars
  <1>5. CASE UNCHANGED <<now, posted, committed, revealed>>
    BY <1>5, <1>t DEF LogOK, admissible
  <1>6. ASSUME NEW c \in Claims,
               \/ SettlePlain(c) \/ SettleUnit(c) \/ AdvanceFrontier(c)
               \/ SettleNothing(c) \/ RevealCall(c)
        PROVE  UNCHANGED <<now, posted, committed, revealed>>
    BY <1>6 DEF SettlePlain, SettleUnit, AdvanceFrontier, SettleNothing,
                RevealCall, Enter, logVars
  <1>7. ASSUME NEW h \in Commitments, CommitCall(h)
        PROVE  UNCHANGED <<now, posted, committed, revealed>>
    BY <1>7 DEF CommitCall, Enter, logVars
  <1>8. ASSUME \/ Tick \/ StartBatch \/ PayImprovement \/ WriteBatch
               \/ TickReturns \/ RefuseClaim \/ AppendVerdict \/ Crash
               \/ UNCHANGED vars
        PROVE  UNCHANGED <<now, posted, committed, revealed>>
    BY <1>8 DEF Tick, Enter, StartBatch, PayImprovement, WriteBatch, TickReturns,
           RefuseClaim, AppendVerdict, Crash, logVars, vars
  <1> QED BY <1>1, <1>2, <1>3, <1>4, <1>5, <1>6, <1>7, <1>8
          DEF Next, HandlerStep, Settle
-----------------------------------------------------------------------------
(* The money. *)

\* What one SETTLEMENT entry changes, and what it leaves alone.
LEMMA PayEffect ==
    ASSUME TypeOK, NEW c \in Claims, NEW reward \in Nat, Pay(c, reward)
    PROVE  /\ receipts'[c] = receipts[c] + 1
           /\ \A d \in Claims : d # c => receipts'[d] = receipts[d]
           /\ total'[Claim[c].objective] = total[Claim[c].objective] + reward
           /\ \A p \in Objectives : p # Claim[c].objective => total'[p] = total[p]
           /\ settlement_of(Claim[c].objective)'
           /\ \A p \in Objectives : p # Claim[c].objective =>
                (settlement_of(p)' <=> settlement_of(p))
  <1>1. /\ receipts'[c] = receipts[c] + 1
        /\ \A d \in Claims : d # c => receipts'[d] = receipts[d]
        /\ total'[Claim[c].objective] = total[Claim[c].objective] + reward
        /\ \A p \in Objectives : p # Claim[c].objective => total'[p] = total[p]
    BY ClaimShape DEF TypeOK, Pay
  <1>2. receipts[c] \in Nat
    BY DEF TypeOK
  <1>3. settlement_of(Claim[c].objective)'
    BY <1>1, <1>2 DEF settlement_of, settlements_of
  <1>4. ASSUME NEW p \in Objectives, p # Claim[c].objective
        PROVE  settlement_of(p)' <=> settlement_of(p)
    BY <1>1, <1>4 DEF settlement_of, settlements_of
  <1> QED BY <1>1, <1>3, <1>4

\* A step that writes no money record keeps what is known of the money; a crash
\* only forgets a settlement that was still to be written.
LEMMA MoneyQuiet ==
    ASSUME MoneyInv, UNCHANGED <<receipts, total, frontier, posted>>,
           \A c \in Claims : revealed[c] # 0 => revealed'[c] # 0,
           pc' # "settlement" \/ UNCHANGED <<pc, drain>>
    PROVE  MoneyOK' /\ PaidAtMostOnce'
  <1>1. PaidAtMostOnce'
    BY DEF MoneyInv, PaidAtMostOnce, kindOf
  <1>2. ASSUME NEW o \in posted
        PROVE  /\ pending(o) \in Nat /\ pending(o)' \in Nat
               /\ pending(o)' <= pending(o)
    BY DEF pending, MoneyInv, TypeOK, Drains
  <1>3. \A o \in posted : /\ total[o] \in Nat
                          /\ frontier[o].paid_cumulative \in Nat
    BY DEF MoneyInv, TypeOK
  <1>4. ASSUME NEW o \in posted, Objective[o].kind = "ratchet"
        PROVE  total[o] + pending(o)' <= frontier[o].paid_cumulative
    BY <1>2, <1>3, <1>4 DEF MoneyInv, MoneyOK
  <1>5. \A o : settlement_of(o)' <=> settlement_of(o)
    BY DEF settlement_of, settlements_of
  <1>6. MoneyOK'
    BY <1>4, <1>5 DEF MoneyInv, MoneyOK, kindOf
  <1> QED BY <1>1, <1>6

\* A piecework claim that still has a novel unit was never paid.
LEMMA NovelIsUnpaid ==
    ASSUME MoneyInv, NEW c \in Claims, SettleUnit(c)
    PROVE  receipts[c] = 0
  <1>1. receipts[c] \in Nat
    BY DEF MoneyInv, TypeOK
  <1>2. Claim[c].objective \in piecework_scope(Claim[c].objective)
    BY NextIsAdmitted DEF SettleUnit, IsNext, kindOf, piecework_scope
  <1>3. receipts[c] > 0 => unitKeys(c) \subseteq paid_unit_keys(Claim[c].objective)
    BY <1>2 DEF paid_unit_keys
  <1>4. novelUnits(c) # {}
    BY DEF SettleUnit
  <1> QED BY <1>1, <1>3, <1>4 DEF novelUnits

LEMMA MoneyPost ==
    ASSUME MoneyInv, NEW o \in Objectives, PostObjective(o)
    PROVE  MoneyOK' /\ PaidAtMostOnce'
  <1>1. /\ pc = "idle" /\ o \notin posted /\ posted' = posted \cup {o}
        /\ UNCHANGED <<receipts, total, frontier, revealed, pc, drain>>
    BY DEF PostObjective
  <1>2. PaidAtMostOnce'
    BY <1>1 DEF MoneyInv, PaidAtMostOnce, kindOf
  <1>3. total[o] = 0 /\ frontier[o] = NoFrontier
    BY <1>1 DEF MoneyInv, MoneyOK
  <1>4. ~settlement_of(o)
    BY <1>1 DEF MoneyInv, MoneyOK, LogOK, settlement_of, settlements_of
  <1>5. \A p : /\ settlement_of(p)' <=> settlement_of(p)
               /\ pending(p)' = pending(p) /\ pending(p) = 0
    BY <1>1 DEF settlement_of, settlements_of, pending
  <1>6. Objective[o].reward \in Nat
    BY ObjectiveShape
  <1>7. cumulativeOf(Objective[o].ratchet, frontier[o].score) = 0
        /\ frontier[o].paid_cumulative = 0
    BY <1>3 DEF NoFrontier, cumulativeOf
  <1>8. MoneyOK'
    BY <1>1, <1>3, <1>4, <1>5, <1>6, <1>7 DEF MoneyInv, MoneyOK, kindOf
  <1> QED BY <1>2, <1>8

LEMMA MoneyPlain ==
    ASSUME MoneyInv, NEW c \in Claims, SettlePlain(c)
    PROVE  MoneyOK' /\ PaidAtMostOnce'
  <1> DEFINE o == Claim[c].objective
  <1>1. /\ pc = "pay" /\ pc' = "pay" /\ kindOf(c) = "plain"
        /\ ~settlement_of(o)
        /\ Pay(c, Objective[o].reward)
        /\ UNCHANGED <<posted, revealed, frontier>>
    BY DEF SettlePlain, IsNext, plainPays
  <1>2. revealed[c] # 0 /\ o \in posted /\ o \in Objectives
    BY NextIsAdmitted DEF SettlePlain, IsNext
  <1>3. Objective[o].reward \in Nat /\ Objective[o].kind = "plain"
    BY <1>1, <1>2, ObjectiveShape DEF kindOf
  <1>4. /\ receipts'[c] = receipts[c] + 1
        /\ \A d \in Claims : d # c => receipts'[d] = receipts[d]
        /\ total'[o] = total[o] + Objective[o].reward
        /\ \A p \in Objectives : p # o => total'[p] = total[p]
        /\ settlement_of(o)'
        /\ \A p \in Objectives : p # o =>
                (settlement_of(p)' <=> settlement_of(p))
    BY <1>1, <1>3, PayEffect DEF MoneyInv
  <1>5. /\ \A d \in Claims : Claim[d].objective = o => ~(receipts[d] > 0)
        /\ \A d \in Claims : receipts[d] \in Nat
    BY <1>1 DEF settlement_of, settlements_of, MoneyInv, TypeOK
  <1>6. PaidAtMostOnce'
    BY <1>4, <1>5 DEF MoneyInv, PaidAtMostOnce, kindOf
  <1>7. total[o] = 0
    BY <1>1, <1>2, <1>3 DEF MoneyInv, MoneyOK
  <1>8. \A p : pending(p)' = 0 /\ pending(p) = 0
    BY <1>1 DEF pending
  <1>9. posted \subseteq Objectives
    BY DEF MoneyInv, TypeOK
  <1>10. MoneyOK'
    BY <1>1, <1>2, <1>3, <1>4, <1>7, <1>8, <1>9 DEF MoneyInv, MoneyOK, kindOf
  <1> QED BY <1>6, <1>10

LEMMA MoneyUnit ==
    ASSUME MoneyInv, NEW c \in Claims, SettleUnit(c)
    PROVE  MoneyOK' /\ PaidAtMostOnce'
  <1> DEFINE o == Claim[c].objective
             reward == unitReward(c)
  <1>1. /\ pc = "pay" /\ pc' = "pay" /\ kindOf(c) = "piecework"
        /\ Pay(c, reward)
        /\ UNCHANGED <<posted, revealed, frontier>>
    BY DEF SettleUnit, IsNext
  <1>2. revealed[c] # 0 /\ o \in posted /\ o \in Objectives
    BY NextIsAdmitted DEF SettleUnit, IsNext
  <1>3. Objective[o].kind = "piecework"
    BY <1>1 DEF kindOf
  <1>4. /\ reward \in Nat
        /\ total[o] + reward <= Objective[o].reward
    BY <1>2, PoolsHold, UnitRewardWithinPool
    DEF PoolNeverOverspent, MoneyInv, TypeOK
  <1> HIDE DEF reward
  <1>5. /\ receipts'[c] = receipts[c] + 1
        /\ \A d \in Claims : d # c => receipts'[d] = receipts[d]
        /\ total'[o] = total[o] + reward
        /\ \A p \in Objectives : p # o => total'[p] = total[p]
        /\ \A p \in Objectives : p # o =>
                (settlement_of(p)' <=> settlement_of(p))
    BY <1>1, <1>4, PayEffect DEF MoneyInv
  <1>6. receipts[c] = 0
    BY NovelIsUnpaid
  <1>7. PaidAtMostOnce'
    BY <1>1, <1>5, <1>6 DEF MoneyInv, PaidAtMostOnce, kindOf
  <1>8. \A p : pending(p)' = 0 /\ pending(p) = 0
    BY <1>1 DEF pending
  <1>9. posted \subseteq Objectives
    BY DEF MoneyInv, TypeOK
  <1>10. MoneyOK'
    BY <1>1, <1>2, <1>3, <1>4, <1>5, <1>8, <1>9
    DEF MoneyInv, MoneyOK, kindOf
  <1> QED BY <1>7, <1>10

LEMMA MoneyAdvance ==
    ASSUME MoneyInv, NEW c \in Claims, AdvanceFrontier(c)
    PROVE  MoneyOK' /\ PaidAtMostOnce'
  <1> DEFINE o == Claim[c].objective
             r == Objective[o].ratchet
             reward == payout(r, frontier[o].score, Claim[c].score)
  <1>1. /\ o \in posted /\ r \in Ratchets /\ Claim[c].score \in Int
        /\ reward \in Nat
        /\ frontier[o].paid_cumulative + reward = cumulativeOf(r, Claim[c].score)
        /\ progressOf(r, frontier[o].score) < progressOf(r, Claim[c].score)
    BY AdvanceFollowsCurve
  <1>2. /\ pc = "pay" /\ kindOf(c) = "ratchet"
        /\ UNCHANGED <<posted, revealed, receipts, total>>
    BY DEF AdvanceFrontier, IsNext
  <1>3. \/ pc' = "pay"
        \/ pc' = "settlement" /\ drain'.payee = c /\ drain'.owed = reward
    BY DEF AdvanceFrontier, IsNext, MoneyInv, TypeOK, Drains
  <1>4. /\ frontier'[o].score = Claim[c].score
        /\ frontier'[o].paid_cumulative = frontier[o].paid_cumulative + reward
        /\ \A p \in Objectives : p # o => frontier'[p] = frontier[p]
    BY ClaimShape DEF AdvanceFrontier, MoneyInv, TypeOK
  <1>5. /\ posted \subseteq Objectives /\ o \in Objectives
        /\ total[o] \in Nat /\ frontier[o].paid_cumulative \in Nat
        /\ frontier[o].score \in Int \cup {NoScore}
        /\ Objective[o].kind = "ratchet"
    BY <1>2, ClaimShape DEF MoneyInv, TypeOK, kindOf
  <1> HIDE DEF reward
  <1>6. PaidAtMostOnce'
    BY <1>2 DEF MoneyInv, PaidAtMostOnce, kindOf
  <1>7. \A p \in posted : /\ pending(p) = 0
                          /\ p # o => pending(p)' = 0
                          /\ pending(o)' \in Nat /\ pending(o)' <= reward
    BY <1>1, <1>2, <1>3 DEF pending
  <1>8. total[o] + pending(o)' <= frontier'[o].paid_cumulative
    <2>1. total[o] + 0 <= frontier[o].paid_cumulative
      BY <1>1, <1>5, <1>7 DEF MoneyInv, MoneyOK
    <2> QED BY <1>1, <1>4, <1>5, <1>7, <2>1
  <1>9. \A p : settlement_of(p)' <=> settlement_of(p)
    BY <1>2 DEF settlement_of, settlements_of
  <1>10. ASSUME NEW d \in Claims, receipts[d] > 0, kindOf(d) = "ratchet"
         PROVE  progressOf(Objective[Claim[d].objective].ratchet, Claim[d].score)
                <= progressOf(Objective[Claim[d].objective].ratchet,
                              frontier'[Claim[d].objective].score)
    <2>1. progressOf(Objective[Claim[d].objective].ratchet, Claim[d].score) <=
          progressOf(Objective[Claim[d].objective].ratchet,
                     frontier[Claim[d].objective].score)
      BY <1>10 DEF MoneyInv, MoneyOK
    <2>2. CASE Claim[d].objective # o
      BY <1>4, <2>1, <2>2, ClaimShape
    <2>3. CASE Claim[d].objective = o
      <3>1. /\ progressOf(r, Claim[d].score) \in Nat
            /\ progressOf(r, frontier[o].score) \in Nat
            /\ progressOf(r, Claim[c].score) \in Nat
        BY <1>1, <1>5, ClaimShape, ProgressOfBounded
      <3> QED BY <1>1, <1>4, <2>1, <2>3, <3>1
    <2> QED BY <2>2, <2>3
  <1>11. MoneyOK'
    BY <1>1, <1>2, <1>4, <1>5, <1>7, <1>8, <1>9, <1>10
    DEF MoneyInv, MoneyOK, kindOf
  <1> QED BY <1>6, <1>11

LEMMA MoneyImprovement ==
    ASSUME MoneyInv, PayImprovement
    PROVE  MoneyOK' /\ PaidAtMostOnce'
  <1> DEFINE c == drain.payee
             o == Claim[c].objective
  <1>1. /\ pc = "settlement" /\ pc' = "pay"
        /\ Pay(c, drain.owed)
        /\ UNCHANGED <<posted, revealed, frontier>>
    BY DEF PayImprovement
  <1>2. /\ c \in Claims /\ c \in drain.todo /\ drain.owed \in Nat
        /\ kindOf(c) = "ratchet" /\ receipts[c] = 0
        /\ frontier[o].score = Claim[c].score
    BY <1>1 DEF MoneyInv, ControlOK, TypeOK, Drains
  <1>3. revealed[c] # 0 /\ o \in posted /\ o \in Objectives
    BY <1>1, <1>2, NextIsAdmitted
  <1>4. Objective[o].kind = "ratchet"
    BY <1>2 DEF kindOf
  <1>5. /\ receipts'[c] = receipts[c] + 1
        /\ \A d \in Claims : d # c => receipts'[d] = receipts[d]
        /\ total'[o] = total[o] + drain.owed
        /\ \A p \in Objectives : p # o => total'[p] = total[p]
        /\ \A p \in Objectives : p # o =>
                (settlement_of(p)' <=> settlement_of(p))
    BY <1>1, <1>2, PayEffect DEF MoneyInv
  <1>6. PaidAtMostOnce'
    BY <1>2, <1>5 DEF MoneyInv, PaidAtMostOnce, kindOf
  <1>7. /\ \A p \in posted : pending(p)' = 0
        /\ \A p \in posted : p # o => pending(p) = 0
        /\ pending(o) = drain.owed
    BY <1>1 DEF pending
  <1>8. posted \subseteq Objectives /\ total[o] \in Nat
        /\ frontier[o].paid_cumulative \in Nat
    BY <1>3 DEF MoneyInv, TypeOK
  <1>9. total'[o] + 0 <= frontier[o].paid_cumulative
    BY <1>2, <1>3, <1>4, <1>5, <1>7, <1>8 DEF MoneyInv, MoneyOK
  <1>10. /\ Objective[o].ratchet \in Ratchets
         /\ progressOf(Objective[o].ratchet, Claim[c].score) \in Nat
    BY <1>2, <1>3, <1>4, ClaimShape, PostedRatchet, ProgressOfBounded
    DEF MoneyInv
  <1>11. MoneyOK'
    BY <1>1, <1>2, <1>3, <1>4, <1>5, <1>7, <1>8, <1>9, <1>10
    DEF MoneyInv, MoneyOK, kindOf
  <1> QED BY <1>6, <1>11

LEMMA MoneyStep == MoneyInv /\ [Next]_vars => MoneyOK' /\ PaidAtMostOnce'
  <1> SUFFICES ASSUME MoneyInv, [Next]_vars PROVE MoneyOK' /\ PaidAtMostOnce'
    OBVIOUS
  <1>1. CASE /\ UNCHANGED <<receipts, total, frontier, posted>>
             /\ \A c \in Claims : revealed[c] # 0 => revealed'[c] # 0
             /\ pc' # "settlement" \/ UNCHANGED <<pc, drain>>
    BY <1>1, MoneyQuiet
  <1>2. CASE UNCHANGED <<receipts, total, frontier, posted, revealed>>
             /\ (pc' # "settlement" \/ UNCHANGED <<pc, drain>>)
    BY <1>1, <1>2
  <1>3. ASSUME NEW c \in Claims, SettleNothing(c) \/ RevealCall(c)
        PROVE  MoneyOK' /\ PaidAtMostOnce'
    BY <1>2, <1>3 DEF SettleNothing, IsNext, RevealCall, Enter, logVars
  <1>4. ASSUME NEW h \in Commitments, CommitCall(h)
        PROVE  MoneyOK' /\ PaidAtMostOnce'
    BY <1>2, <1>4 DEF CommitCall, Enter, logVars
  <1>5. CASE Tick \/ StartBatch \/ WriteBatch \/ TickReturns \/ CommitReturns
    BY <1>2, <1>5 DEF Tick, Enter, StartBatch, WriteBatch, TickReturns,
                      CommitReturns, Return, logVars
  <1>6. CASE RefuseClaim \/ AppendVerdict \/ Crash \/ AdvanceClock
             \/ UNCHANGED vars
    BY <1>2, <1>6 DEF RefuseClaim, AppendVerdict, Return, Crash, AdvanceClock,
                      logVars, handlerVars, vars
  <1>7. CASE AppendClaim
    <2>1. call.what \in Claims
      BY <1>7 DEF AppendClaim, Drained, MoneyInv, TypeOK
    <2>2. \A c \in Claims : revealed[c] # 0 => revealed'[c] # 0
      BY <1>7, <2>1 DEF AppendClaim, MoneyInv, TypeOK
    <2> QED BY <1>1, <1>7, <2>2 DEF AppendClaim
  <1> QED BY <1>3, <1>4, <1>5, <1>6, <1>7, MoneyPost, MoneyPlain, MoneyUnit,
             MoneyAdvance, MoneyImprovement
          DEF Next, HandlerStep, Settle

LEMMA MoneyInit == Init => MoneyInv
  <1> SUFFICES ASSUME Init PROVE MoneyInv
    OBVIOUS
  <1>1. TypeOK
    BY TypeInit
  <1>2. ControlOK /\ LogOK
    BY DEF Init, ControlOK, LogOK
  <1>3. PaidAtMostOnce
    BY DEF Init, PaidAtMostOnce
  <1>4. MoneyOK
    BY DEF Init, MoneyOK
  <1> QED BY <1>1, <1>2, <1>3, <1>4 DEF MoneyInv

\* The invariant that the money properties rest on holds in every reachable
\* state, whatever the objectives, the claims, the ranks and the crashes.
THEOREM MoneyInvariant == Spec => []MoneyInv
  <1>1. MoneyInv /\ [Next]_vars => MoneyInv'
    BY TypeStep, ControlStep, LogStep, MoneyStep DEF MoneyInv
  <1> QED BY <1>1, MoneyInit, PTL DEF Spec

\* Every variable keeps its type.
THEOREM TypeCorrect == Spec => []TypeOK
  <1>1. MoneyInv => TypeOK
    BY DEF MoneyInv
  <1> QED BY <1>1, MoneyInvariant, PTL

\* No pool pays more than it holds, whichever way drains are cut short and run
\* again (settle_due, settle_one, settle_unit, settle_improvement).
THEOREM PoolSafety == Spec => []PoolNeverOverspent
  BY PoolsHold, MoneyInvariant, PTL

\* No claim is paid twice, and an objective that pays once pays one claim.
THEOREM NoDoublePayment == Spec => []PaidAtMostOnce
  <1>1. MoneyInv => PaidAtMostOnce
    BY DEF MoneyInv
  <1> QED BY <1>1, MoneyInvariant, PTL

\* The running total of a frontier is the curve's value at its score, so the
\* steps to a score earn what one step would have (settle_improvement).
THEOREM Telescopes == Spec => []FrontierTelescopes
  <1>1. MoneyInv => FrontierTelescopes
    BY DEF MoneyInv, MoneyOK, FrontierTelescopes
  <1> QED BY <1>1, MoneyInvariant, PTL
-----------------------------------------------------------------------------
\* A SETTLEMENT entry is a draw of the abstract pool.
LEMMA PayIsDraw ==
    ASSUME MoneyInv, MoneyInv', NEW c \in Claims, NEW amount \in Nat,
           Pay(c, amount), revealed[c] # 0, UNCHANGED posted
    PROVE  Pools!Draw(c)
  <1> DEFINE o == Claim[c].objective
             reward == [p \in Objectives |-> Objective[p].reward]
             objective == [d \in Claims |-> Claim[d].objective]
  <1>1. o \in Objectives /\ objective[c] = o /\ reward[o] = Objective[o].reward
    BY ClaimShape
  <1>2. o \in posted
    BY <1>1 DEF MoneyInv, LogOK
  <1>3. /\ receipts \in [Claims -> Nat] /\ total \in [Objectives -> Nat]
        /\ receipts' = [receipts EXCEPT ![c] = @ + 1]
        /\ total' = [total EXCEPT ![o] = @ + amount]
    BY DEF MoneyInv, TypeOK, Pay
  <1>4. receipts[c] = 0
    <2>1. receipts'[c] <= 1
      BY DEF MoneyInv, PaidAtMostOnce
    <2> QED BY <1>3, <2>1
  <1>5. {d \in Claims : receipts[d] > 0}' = {d \in Claims : receipts[d] > 0} \cup {c}
    BY <1>3, <1>4
  <1>6. total[o] + amount <= Objective[o].reward
    <2>1. PoolNeverOverspent'
      BY PoolsHold, PTL
    <2>2. total'[o] <= Objective[o].reward
      BY <1>1, <2>1 DEF PoolNeverOverspent
    <2> QED BY <1>1, <1>3, <2>2
  <1>7. amount \in 0 .. (reward[o] - total[o])
    BY <1>1, <1>3, <1>6, ObjectiveShape
  <1>8. c \notin {d \in Claims : receipts[d] > 0}
    BY <1>4
  <1>9. \E a \in 0 .. (reward[o] - total[o]) : total' = [total EXCEPT ![o] = @ + a]
    BY <1>3, <1>7
  <1>10. \E a \in 0 .. (reward[objective[c]] - total[objective[c]]) :
            total' = [total EXCEPT ![objective[c]] = @ + a]
    BY <1>1, <1>9
  <1>11. objective[c] \in posted
    BY <1>1, <1>2
  <1> QED BY ONLY <1>5, <1>8, <1>10, <1>11, UNCHANGED posted, Zenon
          DEF Pools!Draw

\* Every step of a node either leaves the money alone, opens a pool or is one
\* draw.
LEMMA StepIsPoolStep ==
    MoneyInv /\ MoneyInv' /\ [Next]_vars => [Pools!Next]_(Pools!vars)
  <1> SUFFICES ASSUME MoneyInv, MoneyInv', [Next]_vars
               PROVE  [Pools!Next]_(Pools!vars)
    OBVIOUS
  <1>1. CASE UNCHANGED <<posted, receipts, total>>
    BY <1>1 DEF Pools!vars
  <1>2. ASSUME NEW c \in Claims, NEW amount \in Nat, Pay(c, amount),
               revealed[c] # 0, UNCHANGED posted
        PROVE  [Pools!Next]_(Pools!vars)
    BY <1>2, PayIsDraw DEF Pools!Next
  <1>3. ASSUME NEW p \in Objectives, PostObjective(p)
        PROVE  [Pools!Next]_(Pools!vars)
    BY <1>3 DEF PostObjective, Pools!Next, Pools!Post
  <1>4. ASSUME NEW c \in Claims, SettlePlain(c) \/ SettleUnit(c)
        PROVE  [Pools!Next]_(Pools!vars)
    <2>1. revealed[c] # 0 /\ UNCHANGED posted
      BY <1>4, NextIsAdmitted DEF SettlePlain, SettleUnit, IsNext
    <2>2. CASE SettlePlain(c)
      BY <1>2, <2>1, <2>2, ClaimShape, ObjectiveShape DEF SettlePlain
    <2>3. CASE SettleUnit(c)
      <3>1. Claim[c].objective \in Objectives
        BY ClaimShape
      <3>2. unitReward(c) \in Nat
        BY <3>1, PoolsHold, UnitRewardWithinPool
        DEF PoolNeverOverspent, MoneyInv, TypeOK
      <3> QED BY <1>2, <2>1, <2>3, <3>2 DEF SettleUnit
    <2> QED BY <1>4, <2>2, <2>3
  <1>5. CASE PayImprovement
    <2>1. drain.payee \in Claims /\ drain.owed \in Nat /\ revealed[drain.payee] # 0
      BY <1>5 DEF PayImprovement, MoneyInv, TypeOK, Drains, ControlOK,
                  accepted_in_epoch, accepted
    <2> QED BY <1>2, <1>5, <2>1 DEF PayImprovement
  <1>6. ASSUME NEW c \in Claims,
               AdvanceFrontier(c) \/ SettleNothing(c) \/ RevealCall(c)
        PROVE  [Pools!Next]_(Pools!vars)
    BY <1>1, <1>6 DEF AdvanceFrontier, SettleNothing, RevealCall, Enter, logVars
  <1>7. ASSUME NEW h \in Commitments, CommitCall(h)
        PROVE  [Pools!Next]_(Pools!vars)
    BY <1>1, <1>7 DEF CommitCall, Enter, logVars
  <1>8. CASE Tick \/ StartBatch \/ WriteBatch \/ TickReturns \/ CommitReturns
             \/ AppendClaim \/ RefuseClaim \/ AppendVerdict
    BY <1>1, <1>8 DEF Tick, Enter, StartBatch, WriteBatch, TickReturns,
        CommitReturns, AppendClaim, RefuseClaim, AppendVerdict, logVars
  <1>9. CASE Crash \/ AdvanceClock \/ UNCHANGED vars
    BY <1>1, <1>9 DEF Crash, AdvanceClock, logVars, vars
  <1> QED BY <1>3, <1>4, <1>5, <1>6, <1>7, <1>8, <1>9
          DEF Next, HandlerStep, Settle

\* Settlement implements the abstract pool.
THEOREM PoolRefinement == Spec => ImplementsPool
  <1>1. Init => Pools!Init
    BY DEF Init, Pools!Init
  <1>2. Spec => [][Pools!Next]_(Pools!vars)
    BY StepIsPoolStep, MoneyInvariant, PTL DEF Spec
  <1> QED BY <1>1, <1>2, PTL DEF Spec, ImplementsPool, Pools!Spec
-----------------------------------------------------------------------------
\* A frontier moves only by an improvement that clears the minimum
\* (settle_improvement), so it never falls back.
THEOREM FrontierImproves == Spec => FrontierOnlyImproves
  <1> DEFINE Moves == \A o \in Objectives : frontier'[o] # frontier[o] =>
                improves(Objective[o].ratchet, frontier[o].score,
                         frontier'[o].score)
  <1>1. ASSUME MoneyInv, [Next]_vars PROVE [Moves]_vars
    <2>1. CASE UNCHANGED frontier
      BY <2>1
    <2>2. ASSUME NEW c \in Claims, AdvanceFrontier(c) PROVE Moves
      <3>1. frontier \in [Objectives -> [claim : Claims \cup {0},
                score : Int \cup {NoScore}, paid_cumulative : Nat]]
        BY <1>1 DEF MoneyInv, TypeOK
      <3>2. Claim[c].objective \in Objectives
        BY ClaimShape
      <3> QED BY <2>2, <3>1, <3>2 DEF AdvanceFrontier, advances
    <2>3. CASE \A c \in Claims : ~AdvanceFrontier(c)
      <3>1. ASSUME NEW c \in Claims, SettlePlain(c) \/ SettleUnit(c)
                   \/ SettleNothing(c) \/ RevealCall(c)
            PROVE  UNCHANGED frontier
        BY <3>1 DEF SettlePlain, SettleUnit, SettleNothing, RevealCall, Enter,
                    logVars
      <3>2. ASSUME NEW h \in Commitments, CommitCall(h)
            PROVE  UNCHANGED frontier
        BY <3>2 DEF CommitCall, Enter, logVars
      <3>3. ASSUME NEW p \in Objectives, PostObjective(p)
            PROVE  UNCHANGED frontier
        BY <3>3 DEF PostObjective
      <3>4. CASE \/ Tick \/ StartBatch \/ PayImprovement \/ WriteBatch
                 \/ TickReturns \/ CommitReturns \/ AppendClaim \/ RefuseClaim
                 \/ AppendVerdict \/ Crash \/ AdvanceClock \/ UNCHANGED vars
        BY <2>1, <3>4 DEF Tick, Enter, StartBatch, PayImprovement, WriteBatch,
            TickReturns, CommitReturns, AppendClaim, RefuseClaim, AppendVerdict,
            Crash, AdvanceClock, logVars, vars
      <3> QED BY <1>1, <2>1, <2>3, <3>1, <3>2, <3>3, <3>4
              DEF Next, HandlerStep, Settle
    <2> QED BY <2>2, <2>3
  <1> HIDE DEF Moves
  <1>2. Spec => [][Moves]_vars
    BY <1>1, MoneyInvariant, PTL DEF Spec
  <1> QED BY <1>2 DEF Moves, FrontierOnlyImproves

\* An epoch is paid once, after every epoch below it that was (due_epochs).
THEOREM PaidInOrder == Spec => EpochsPaidInOrder
  <1> DEFINE Ordered == \A e \in Epochs : batch'[e] # batch[e] =>
                batch[e] = {} /\ \A d \in drained_epochs : d < e
  <1>1. ASSUME MoneyInv, [Next]_vars PROVE [Ordered]_vars
    <2>1. CASE UNCHANGED batch
      BY <2>1
    <2>2. CASE WriteBatch
      <3>1. /\ drain.epoch \in Epochs
            /\ \A d \in drained_epochs : d < drain.epoch
            /\ batch' = [batch EXCEPT ![drain.epoch] = drain.members]
            /\ batch \in [Epochs -> SUBSET Claims]
        BY <1>1, <2>2 DEF WriteBatch, MoneyInv, ControlOK, TypeOK
      <3>2. drain.epoch \notin drained_epochs
        BY <3>1, EpochsAreNaturals
      <3> QED BY <3>1, <3>2 DEF drained_epochs
    <2>3. ASSUME NEW c \in Claims, AdvanceFrontier(c) \/ SettlePlain(c)
                 \/ SettleUnit(c) \/ SettleNothing(c) \/ RevealCall(c)
          PROVE  UNCHANGED batch
      BY <2>3 DEF AdvanceFrontier, SettlePlain, SettleUnit, SettleNothing,
                  RevealCall, Enter, logVars
    <2>4. ASSUME NEW h \in Commitments, CommitCall(h) PROVE UNCHANGED batch
      BY <2>4 DEF CommitCall, Enter, logVars
    <2>5. ASSUME NEW p \in Objectives, PostObjective(p) PROVE UNCHANGED batch
      BY <2>5 DEF PostObjective
    <2>6. CASE \/ Tick \/ StartBatch \/ PayImprovement
               \/ TickReturns \/ CommitReturns \/ AppendClaim \/ RefuseClaim
               \/ AppendVerdict \/ Crash \/ AdvanceClock \/ UNCHANGED vars
      BY <2>1, <2>6 DEF Tick, Enter, StartBatch, PayImprovement,
          TickReturns, CommitReturns, AppendClaim, RefuseClaim, AppendVerdict,
          Crash, AdvanceClock, logVars, vars
    <2> QED BY <1>1, <2>1, <2>2, <2>3, <2>4, <2>5, <2>6
            DEF Next, HandlerStep, Settle
  <1> HIDE DEF Ordered
  <1>2. Spec => [][Ordered]_vars
    BY <1>1, MoneyInvariant, PTL DEF Spec
  <1> QED BY <1>2 DEF Ordered, EpochsPaidInOrder
-----------------------------------------------------------------------------
(* The history that Settlement builds: a paid claim stays earned, a paid     *)
(* epoch stays as it was paid, and piecework units are paid while there is   *)
(* money for them.                                                           *)
(*                                                                           *)
(* Each theorem names what it needs of the log or of the environment.  A     *)
(* sealed claim is the difficult one: its reveal is stamped with the time it *)
(* arrives, so the same claim can be revealed again after its epoch was      *)
(* paid, and its verifier runs again.                                        *)

\* No claim opens a sealed commitment.
NothingSealed == \A h \in Commitments : ~Commitment[h].sealed

\* Without sealed claims, a claim is only ever stamped with its own epoch.
OwnStamps ==
    /\ \A c \in Claims : revealed[c] # 0 => revealed[c] = Claim[c].created_at
    /\ (pc # "idle" /\ call.op = "reveal") =>
            call.at = Claim[call.what].created_at

\* A step that leaves the tables of the epochs alone, and the verifier at what
\* it does.
Quiet ==
    /\ UNCHANGED <<revealed, verdict, batch>>
    /\ pc' = "verdict" => UNCHANGED <<pc, call>>
    /\ pc = "verdict" => Crash \/ UNCHANGED <<pc, call>>

LEMMA EpochSteps ==
    ASSUME [Next]_vars
    PROVE  AppendClaim \/ AppendVerdict \/ WriteBatch \/ Quiet
  <1>1. ASSUME NEW c \in Claims,
               \/ SettlePlain(c) \/ SettleUnit(c) \/ AdvanceFrontier(c)
               \/ SettleNothing(c) \/ RevealCall(c)
        PROVE  Quiet
    BY <1>1 DEF SettlePlain, SettleUnit, AdvanceFrontier, SettleNothing,
                RevealCall, Enter, IsNext, logVars, Quiet
  <1>2. ASSUME NEW h \in Commitments, CommitCall(h)
        PROVE  Quiet
    BY <1>2 DEF CommitCall, Enter, logVars, Quiet
  <1>3. ASSUME NEW o \in Objectives, PostObjective(o)
        PROVE  Quiet
    BY <1>3 DEF PostObjective, Quiet
  <1>4. ASSUME Tick \/ StartBatch \/ PayImprovement PROVE Quiet
    BY <1>4 DEF Tick, Enter, StartBatch, PayImprovement, logVars, Quiet
  <1>5. ASSUME TickReturns \/ CommitReturns \/ RefuseClaim PROVE Quiet
    BY <1>5 DEF TickReturns, CommitReturns, RefuseClaim, Drained, Return,
                logVars, Quiet
  <1>6. ASSUME Crash PROVE Quiet
    <2>1. UNCHANGED <<revealed, verdict, batch>> /\ pc' = "idle"
      BY <1>6 DEF Crash, logVars
    <2> QED BY <1>6, <2>1 DEF Quiet
  <1>7. ASSUME AdvanceClock \/ UNCHANGED vars PROVE Quiet
    BY <1>7 DEF AdvanceClock, logVars, handlerVars, vars, Quiet
  <1> QED BY <1>1, <1>2, <1>3, <1>4, <1>5, <1>6, <1>7
          DEF Next, HandlerStep, Settle

\* A handler's call is fixed from the moment it takes the lock.
LEMMA CallSteps ==
    ASSUME [Next]_vars
    PROVE  \/ UNCHANGED call /\ (pc' # "idle" => pc # "idle")
           \/ pc' = "idle"
           \/ Tick
           \/ \E h \in Commitments : CommitCall(h)
           \/ \E c \in Claims : RevealCall(c)
  <1>1. ASSUME NEW c \in Claims,
               \/ SettlePlain(c) \/ SettleUnit(c) \/ AdvanceFrontier(c)
               \/ SettleNothing(c)
        PROVE  UNCHANGED call /\ pc # "idle"
    BY <1>1 DEF SettlePlain, SettleUnit, AdvanceFrontier, SettleNothing, IsNext
  <1>2. ASSUME NEW o \in Objectives, PostObjective(o)
        PROVE  UNCHANGED <<call, pc>>
    BY <1>2 DEF PostObjective
  <1>3. ASSUME StartBatch \/ PayImprovement \/ WriteBatch \/ AppendClaim
        PROVE  UNCHANGED call /\ pc # "idle"
    BY <1>3 DEF StartBatch, PayImprovement, WriteBatch, AppendClaim, Drained
  <1>4. ASSUME TickReturns \/ CommitReturns \/ RefuseClaim \/ AppendVerdict \/ Crash
        PROVE  pc' = "idle"
    BY <1>4 DEF TickReturns, CommitReturns, RefuseClaim, AppendVerdict, Return,
                Crash
  <1>5. ASSUME AdvanceClock \/ UNCHANGED vars
        PROVE  UNCHANGED <<call, pc>>
    BY <1>5 DEF AdvanceClock, handlerVars, vars
  <1> QED BY <1>1, <1>2, <1>3, <1>4, <1>5 DEF Next, HandlerStep, Settle

LEMMA OwnStampsStep ==
    ASSUME NothingSealed, MoneyInv, OwnStamps, [Next]_vars
    PROVE  OwnStamps'
  <1>1. (pc' # "idle" /\ call'.op = "reveal") =>
            call'.at = Claim[call'.what].created_at
    <2>1. CASE UNCHANGED call /\ (pc' # "idle" => pc # "idle")
      BY <2>1 DEF OwnStamps
    <2>2. CASE pc' = "idle"
      BY <2>2
    <2>3. CASE Tick
      BY <2>3 DEF Tick, Enter
    <2>4. ASSUME NEW h \in Commitments, CommitCall(h)
          PROVE  call'.op # "reveal"
      BY <2>4 DEF CommitCall, Enter
    <2>5. ASSUME NEW c \in Claims, RevealCall(c)
          PROVE  call'.at = Claim[call'.what].created_at
      <3>1. Claim[c].commitment \in Commitments
        BY ClaimShape
      <3> QED BY <2>5, <3>1 DEF RevealCall, Enter, NothingSealed
    <2> QED BY <2>1, <2>2, <2>3, <2>4, <2>5, CallSteps
  <1>2. \A c \in Claims : revealed'[c] # 0 => revealed'[c] = Claim[c].created_at
    <2>1. CASE AppendClaim
      <3>1. /\ call.op = "reveal" /\ pc = "drain" /\ call.what \in Claims
            /\ revealed \in [Claims -> Epochs \cup {0}]
        BY <2>1 DEF AppendClaim, Drained, MoneyInv, TypeOK
      <3>2. call.at = Claim[call.what].created_at
        BY <3>1 DEF OwnStamps
      <3> QED BY <2>1, <3>1, <3>2 DEF AppendClaim, OwnStamps
    <2>2. CASE UNCHANGED revealed
      BY <2>2 DEF OwnStamps
    <2> QED BY <2>1, <2>2, EpochSteps DEF AppendVerdict, WriteBatch, Quiet
  <1> QED BY <1>1, <1>2 DEF OwnStamps
-----------------------------------------------------------------------------
(* A paid epoch stays as it was paid.                                        *)

\* A batch is written with the claims that are accepted in its epoch.
LEMMA BatchIsAccepted ==
    ASSUME MoneyInv, WriteBatch, PaidEpochIsFrozen
    PROVE  PaidEpochIsFrozen'
  <1>1. /\ drain.epoch \in Epochs
        /\ drain.members = accepted_in_epoch(drain.epoch)
        /\ batch \in [Epochs -> SUBSET Claims]
        /\ batch' = [batch EXCEPT ![drain.epoch] = drain.members]
        /\ UNCHANGED <<revealed, verdict>>
    BY DEF WriteBatch, MoneyInv, ControlOK, TypeOK
  <1>2. \A e : accepted_in_epoch(e)' = accepted_in_epoch(e)
    BY <1>1 DEF accepted_in_epoch, accepted
  <1>3. \A e \in drained_epochs' :
            e = drain.epoch \/ (e \in drained_epochs /\ batch'[e] = batch[e])
    BY <1>1 DEF drained_epochs
  <1> QED BY <1>1, <1>2, <1>3 DEF PaidEpochIsFrozen

\* A step that touches one claim, in an epoch that is not paid, leaves every
\* paid epoch as it is.
LEMMA OtherEpochsStay ==
    ASSUME PaidEpochIsFrozen, NEW c \in Claims, UNCHANGED batch,
           \A d \in Claims : d # c => /\ revealed'[d] = revealed[d]
                                     /\ verdict'[d] = verdict[d],
           ~epoch_is_drained(revealed[c]), ~epoch_is_drained(revealed'[c])
    PROVE  PaidEpochIsFrozen'
  <1>1. drained_epochs' = drained_epochs
    BY DEF drained_epochs
  <1>2. ASSUME NEW e \in drained_epochs
        PROVE  accepted_in_epoch(e)' = accepted_in_epoch(e)
    BY <1>2 DEF accepted_in_epoch, accepted, epoch_is_drained
  <1> QED BY <1>1, <1>2 DEF PaidEpochIsFrozen

\* What a reveal and a verdict leave alone.
LEMMA RevealTouchesOne ==
    ASSUME MoneyInv, AppendClaim
    PROVE  /\ call.what \in Claims /\ call.at \in Epochs /\ call.op = "reveal"
           /\ pc = "drain" /\ pc' = "verdict" /\ UNCHANGED <<verdict, batch, call>>
           /\ \A d \in Claims : d # call.what => revealed'[d] = revealed[d]
           /\ revealed'[call.what] # 0
           /\ revealed'[call.what] =
                IF revealed[call.what] = 0 THEN call.at ELSE revealed[call.what]
           /\ ~epoch_is_drained(call.at)
  <1>1. /\ call.what \in Claims /\ call.op = "reveal" /\ pc = "drain"
        /\ revealed \in [Claims -> Epochs \cup {0}] /\ call.at \in Epochs
    BY DEF AppendClaim, Drained, MoneyInv, TypeOK, ControlOK
  <1>2. /\ pc' = "verdict" /\ UNCHANGED <<verdict, batch, call>>
        /\ ~epoch_is_drained(call.at)
    BY DEF AppendClaim, revealAdmissible
  <1>3. revealed' = IF revealed[call.what] = 0
                    THEN [revealed EXCEPT ![call.what] = call.at] ELSE revealed
    BY DEF AppendClaim
  <1> QED BY <1>1, <1>2, <1>3, EpochsAreNaturals

LEMMA VerdictTouchesOne ==
    ASSUME MoneyInv, AppendVerdict
    PROVE  /\ call.what \in Claims /\ call.op = "reveal" /\ pc = "verdict"
           /\ pc' = "idle" /\ UNCHANGED <<revealed, batch, receipts>>
           /\ \A d \in Claims : d # call.what => verdict'[d] = verdict[d]
           /\ \/ verdict'[call.what] = Claim[call.what].judge
              \/ outages < MaxOutages
  <1>1. /\ call.what \in Claims /\ call.op = "reveal"
        /\ verdict \in [Claims -> Verdicts \cup {"none"}]
    BY DEF AppendVerdict, MoneyInv, TypeOK, ControlOK
  <1> QED BY <1>1 DEF AppendVerdict, Return

\* Without sealed claims: the verifier only runs for a claim of an epoch that
\* is not paid yet.
OpenInv ==
    /\ OwnStamps
    /\ PaidEpochIsFrozen
    /\ pc = "verdict" => /\ revealed[call.what] # 0
                         /\ ~epoch_is_drained(revealed[call.what])

LEMMA OpenStep ==
    NothingSealed /\ MoneyInv /\ OpenInv /\ [Next]_vars => OpenInv'
  <1> SUFFICES ASSUME NothingSealed, MoneyInv, OpenInv, [Next]_vars
               PROVE  OpenInv'
    OBVIOUS
  <1>1. OwnStamps /\ OwnStamps' /\ PaidEpochIsFrozen
    BY OwnStampsStep DEF OpenInv
  <1>2. CASE AppendClaim
    <2>1. call.at = Claim[call.what].created_at
      BY <1>1, <1>2, RevealTouchesOne DEF OwnStamps
    <2>2. revealed'[call.what] = call.at
      BY <1>1, <1>2, <2>1, RevealTouchesOne DEF OwnStamps
    <2>3. ~epoch_is_drained(revealed[call.what])
      <3>1. CASE revealed[call.what] = 0
        BY <3>1, EpochsAreNaturals DEF epoch_is_drained, drained_epochs
      <3>2. CASE revealed[call.what] # 0
        BY <1>2, <2>2, <3>2, RevealTouchesOne
      <3> QED BY <3>1, <3>2
    <2>4. PaidEpochIsFrozen'
      BY <1>1, <1>2, <2>2, <2>3, RevealTouchesOne, OtherEpochsStay
    <2>5. ~epoch_is_drained(revealed[call.what])'
      BY <1>2, <2>2, RevealTouchesOne DEF epoch_is_drained, drained_epochs
    <2> QED BY <1>1, <1>2, <2>4, <2>5, RevealTouchesOne DEF OpenInv
  <1>3. CASE AppendVerdict
    <2>1. ~epoch_is_drained(revealed[call.what])
      BY <1>3, VerdictTouchesOne DEF OpenInv
    <2>2. PaidEpochIsFrozen'
      BY <1>1, <1>3, <2>1, VerdictTouchesOne, OtherEpochsStay
    <2> QED BY <1>1, <1>3, <2>2, VerdictTouchesOne DEF OpenInv
  <1>4. CASE WriteBatch
    BY <1>1, <1>4, BatchIsAccepted DEF OpenInv, WriteBatch
  <1>5. CASE Quiet
    <2>1. PaidEpochIsFrozen'
      BY <1>1, <1>5 DEF Quiet, PaidEpochIsFrozen, drained_epochs,
                        accepted_in_epoch, accepted
    <2> QED BY <1>1, <1>5, <2>1
            DEF Quiet, OpenInv, epoch_is_drained, drained_epochs
  <1> QED BY <1>2, <1>3, <1>4, <1>5, EpochSteps

\* Without faults: the verifier has answered for every claim of a paid epoch,
\* and it will not change its answer.
JudgedInv ==
    /\ PaidEpochIsFrozen
    /\ \A c \in Claims : revealed[c] # 0 =>
        \/ verdict[c] = Claim[c].judge
        \/ /\ pc = "verdict" /\ call.what = c
           /\ ~epoch_is_drained(revealed[c])

LEMMA JudgedStep ==
    MaxCrashes = 0 /\ MaxOutages = 0 /\ MoneyInv /\ JudgedInv /\ [Next]_vars
        => JudgedInv'
  <1> SUFFICES ASSUME MaxCrashes = 0, MaxOutages = 0, MoneyInv, JudgedInv,
                      [Next]_vars
               PROVE  JudgedInv'
    OBVIOUS
  <1>t. PaidEpochIsFrozen /\ outages = 0 /\ crashes = 0
    BY DEF MoneyInv, TypeOK, JudgedInv
  <1>1. CASE AppendClaim
    <2>1. CASE revealed[call.what] = 0
      <3>1. ~epoch_is_drained(revealed[call.what])
        BY <2>1, EpochsAreNaturals DEF epoch_is_drained, drained_epochs
      <3>2. ~epoch_is_drained(revealed'[call.what])
        BY <1>1, <2>1, RevealTouchesOne
      <3>3. PaidEpochIsFrozen'
        BY <1>1, <1>t, <3>1, <3>2, RevealTouchesOne, OtherEpochsStay
      <3>4. ~epoch_is_drained(revealed[call.what])'
        BY <1>1, <3>2, RevealTouchesOne DEF epoch_is_drained, drained_epochs
      <3>5. \A c \in Claims : (c # call.what /\ revealed[c] # 0) =>
                verdict[c] = Claim[c].judge
        BY <1>1, RevealTouchesOne DEF JudgedInv
      <3> QED BY <1>1, <3>3, <3>4, <3>5, RevealTouchesOne DEF JudgedInv
    <2>2. CASE revealed[call.what] # 0
      <3>1. UNCHANGED <<revealed, verdict, batch>>
        BY <1>1, <2>2 DEF AppendClaim
      <3>2. \A c \in Claims : revealed[c] # 0 => verdict[c] = Claim[c].judge
        BY <1>1, RevealTouchesOne DEF JudgedInv
      <3>3. PaidEpochIsFrozen'
        BY <1>t, <3>1 DEF PaidEpochIsFrozen, drained_epochs, accepted_in_epoch,
                          accepted
      <3> QED BY <3>1, <3>2, <3>3 DEF JudgedInv
    <2> QED BY <2>1, <2>2
  <1>2. CASE AppendVerdict
    <2> DEFINE c == call.what
    <2>1. c \in Claims /\ verdict'[c] = Claim[c].judge
      BY <1>2, <1>t, VerdictTouchesOne
    <2>2. PaidEpochIsFrozen'
      <3>1. CASE revealed[c] = 0 \/ ~epoch_is_drained(revealed[c])
        <4>1. ~epoch_is_drained(revealed[c])
          BY <3>1, EpochsAreNaturals DEF epoch_is_drained, drained_epochs
        <4> QED BY <1>t, <1>2, <4>1, VerdictTouchesOne, OtherEpochsStay
      <3>2. CASE verdict[c] = Claim[c].judge
        <4>1. \A d \in Claims : verdict'[d] = verdict[d]
          BY <1>2, <2>1, <3>2, VerdictTouchesOne
        <4>2. UNCHANGED <<revealed, batch>>
          BY <1>2, VerdictTouchesOne
        <4>3. \A e : accepted_in_epoch(e)' = accepted_in_epoch(e)
          BY <4>1, <4>2 DEF accepted_in_epoch, accepted
        <4> QED BY <1>t, <4>2, <4>3 DEF PaidEpochIsFrozen, drained_epochs
      <3> QED BY <2>1, <3>1, <3>2 DEF JudgedInv
    <2>3. \A d \in Claims : revealed'[d] # 0 => verdict'[d] = Claim[d].judge
      BY <1>2, <2>1, VerdictTouchesOne DEF JudgedInv
    <2> QED BY <2>2, <2>3 DEF JudgedInv
  <1>3. CASE WriteBatch
    <2>1. PaidEpochIsFrozen'
      BY <1>t, <1>3, BatchIsAccepted
    <2>2. UNCHANGED <<revealed, verdict>> /\ pc = "pay"
      BY <1>3 DEF WriteBatch
    <2> QED BY <2>1, <2>2 DEF JudgedInv
  <1>4. CASE Quiet
    <2>1. PaidEpochIsFrozen'
      BY <1>t, <1>4 DEF Quiet, PaidEpochIsFrozen, drained_epochs,
                        accepted_in_epoch, accepted
    <2>2. ~Crash
      BY <1>t DEF Crash
    <2>3. /\ UNCHANGED <<revealed, verdict, batch>>
          /\ pc = "verdict" => UNCHANGED <<pc, call>>
      BY <1>4, <2>2 DEF Quiet
    <2> QED BY <2>1, <2>3 DEF JudgedInv, epoch_is_drained, drained_epochs
  <1> QED BY <1>1, <1>2, <1>3, <1>4, EpochSteps

\* Nothing joins an epoch that was paid and nothing leaves it, for every log
\* without sealed claims, whatever crashes and outages there are, and for every
\* log at all where there are none (reveal's EpochAlreadySettled).
THEOREM PaidEpochFrozen ==
    ASSUME NothingSealed \/ (MaxCrashes = 0 /\ MaxOutages = 0)
    PROVE  Spec => []PaidEpochIsFrozen
  <1>1. Init => OwnStamps /\ PaidEpochIsFrozen /\ OpenInv /\ JudgedInv
    <2> SUFFICES ASSUME Init
                 PROVE  OwnStamps /\ PaidEpochIsFrozen /\ OpenInv /\ JudgedInv
      OBVIOUS
    <2>1. OwnStamps
      BY DEF Init, OwnStamps
    <2>2. PaidEpochIsFrozen
      BY DEF Init, PaidEpochIsFrozen, drained_epochs
    <2> QED BY <2>1, <2>2 DEF Init, OpenInv, JudgedInv
  <1>2. CASE NothingSealed
    <2>1. MoneyInv /\ OpenInv /\ [Next]_vars => OpenInv'
      BY <1>2, OpenStep
    <2>2. OpenInv => PaidEpochIsFrozen
      BY DEF OpenInv
    <2> QED BY <1>1, <2>1, <2>2, MoneyInvariant, PTL DEF Spec
  <1>3. CASE MaxCrashes = 0 /\ MaxOutages = 0
    <2>1. MoneyInv /\ JudgedInv /\ [Next]_vars => JudgedInv'
      BY <1>3, JudgedStep
    <2>2. JudgedInv => PaidEpochIsFrozen
      BY DEF JudgedInv
    <2> QED BY <1>1, <2>1, <2>2, MoneyInvariant, PTL DEF Spec
  <1> QED BY <1>2, <1>3
-----------------------------------------------------------------------------
(* A paid claim stays earned.                                                *)

\* A step either writes no SETTLEMENT entry, or one for a claim of the batch
\* that is being paid.
LEMMA ReceiptSteps ==
    ASSUME MoneyInv, [Next]_vars
    PROVE  \/ UNCHANGED receipts
           \/ \E c \in drain.todo :
                /\ c \in Claims /\ pc \in {"pay", "settlement"}
                /\ revealed[c] = drain.epoch /\ c \in accepted
                /\ receipts'[c] = receipts[c] + 1
                /\ \A d \in Claims : d # c => receipts'[d] = receipts[d]
                /\ UNCHANGED <<now, revealed, verdict, batch, call>>
                /\ pc' # "idle"
  <1>t. receipts \in [Claims -> Nat] /\ drain.todo \subseteq Claims
    BY DEF MoneyInv, TypeOK, Drains
  <1>1. ASSUME NEW c \in Claims, SettlePlain(c) \/ SettleUnit(c)
        PROVE  \E d \in drain.todo :
                /\ d \in Claims /\ pc \in {"pay", "settlement"}
                /\ revealed[d] = drain.epoch /\ d \in accepted
                /\ receipts'[d] = receipts[d] + 1
                /\ \A x \in Claims : x # d => receipts'[x] = receipts[x]
                /\ UNCHANGED <<now, revealed, verdict, batch, call>>
                /\ pc' # "idle"
    <2>1. /\ pc = "pay" /\ c \in drain.todo /\ UNCHANGED pc
          /\ receipts' = [receipts EXCEPT ![c] = @ + 1]
          /\ UNCHANGED <<now, revealed, verdict, batch, call>>
      BY <1>1 DEF SettlePlain, SettleUnit, IsNext, Pay
    <2>2. revealed[c] = drain.epoch /\ c \in accepted
      BY <2>1, NextIsAdmitted
    <2>3. /\ receipts'[c] = receipts[c] + 1
          /\ \A x \in Claims : x # c => receipts'[x] = receipts[x]
      BY <1>t, <2>1
    <2> QED BY <2>1, <2>2, <2>3
  <1>2. CASE PayImprovement
    <2> DEFINE c == drain.payee
    <2>1. /\ pc = "settlement" /\ c \in drain.todo /\ pc' = "pay"
          /\ receipts' = [receipts EXCEPT ![c] = @ + 1]
          /\ UNCHANGED <<now, revealed, verdict, batch, call>>
      BY <1>2 DEF PayImprovement, Pay, MoneyInv, ControlOK
    <2>2. c \in Claims
      BY <1>t, <2>1
    <2>3. revealed[c] = drain.epoch /\ c \in accepted
      BY <2>1, <2>2, NextIsAdmitted
    <2>4. /\ receipts'[c] = receipts[c] + 1
          /\ \A x \in Claims : x # c => receipts'[x] = receipts[x]
      BY <1>t, <2>1, <2>2
    <2> QED BY <2>1, <2>2, <2>3, <2>4
  <1>3. ASSUME NEW c \in Claims,
               AdvanceFrontier(c) \/ SettleNothing(c) \/ RevealCall(c)
        PROVE  UNCHANGED receipts
    BY <1>3 DEF AdvanceFrontier, SettleNothing, RevealCall, Enter, logVars
  <1>4. ASSUME NEW h \in Commitments, CommitCall(h) PROVE UNCHANGED receipts
    BY <1>4 DEF CommitCall, Enter, logVars
  <1>5. ASSUME NEW o \in Objectives, PostObjective(o) PROVE UNCHANGED receipts
    BY <1>5 DEF PostObjective
  <1>6. ASSUME \/ Tick \/ StartBatch \/ WriteBatch \/ TickReturns
               \/ CommitReturns \/ AppendClaim \/ RefuseClaim \/ AppendVerdict
               \/ Crash \/ AdvanceClock \/ UNCHANGED vars
        PROVE  UNCHANGED receipts
    BY <1>6 DEF Tick, Enter, StartBatch, WriteBatch, TickReturns, CommitReturns,
           AppendClaim, RefuseClaim, AppendVerdict, Crash, AdvanceClock, logVars,
           vars
  <1> QED BY <1>1, <1>2, <1>3, <1>4, <1>5, <1>6
          DEF Next, HandlerStep, Settle

\* A paid claim's epoch has been closed for the finality delay.
FinalWhenPaid ==
    \A c \in Claims : receipts[c] > 0 => revealed[c] + FinalityEpochs < now

\* The clock and the first reveal of a claim only go forward.
LEMMA TimeGoesOn ==
    ASSUME MoneyInv, [Next]_vars
    PROVE  /\ now \in Nat /\ now' \in Nat /\ now <= now'
           /\ \A c \in Claims : revealed[c] # 0 => revealed'[c] = revealed[c]
  <1>1. now \in Nat /\ now' \in Nat /\ now <= now'
    <2>1. now \in Nat /\ now' \in Nat
      BY TypeStep, EpochsAreNaturals DEF MoneyInv, TypeOK
    <2>2. UNCHANGED now \/ AdvanceClock
      <3>1. ASSUME NEW c \in Claims,
                   \/ SettlePlain(c) \/ SettleUnit(c) \/ AdvanceFrontier(c)
                   \/ SettleNothing(c) \/ RevealCall(c)
            PROVE  UNCHANGED now
        BY <3>1 DEF SettlePlain, SettleUnit, AdvanceFrontier, SettleNothing,
                    RevealCall, Enter
      <3>2. ASSUME NEW h \in Commitments, CommitCall(h) PROVE UNCHANGED now
        BY <3>2 DEF CommitCall, Enter
      <3>3. ASSUME NEW o \in Objectives, PostObjective(o) PROVE UNCHANGED now
        BY <3>3 DEF PostObjective
      <3>4. ASSUME \/ Tick \/ StartBatch \/ PayImprovement \/ WriteBatch
                   \/ TickReturns \/ CommitReturns \/ AppendClaim \/ RefuseClaim
                   \/ AppendVerdict \/ Crash \/ UNCHANGED vars
            PROVE  UNCHANGED now
        BY <3>4 DEF Tick, Enter, StartBatch, PayImprovement, WriteBatch,
               TickReturns, CommitReturns, AppendClaim, RefuseClaim,
               AppendVerdict, Crash, vars
      <3> QED BY <3>1, <3>2, <3>3, <3>4 DEF Next, HandlerStep, Settle
    <2> QED BY <2>1, <2>2 DEF AdvanceClock
  <1>2. \A c \in Claims : revealed[c] # 0 => revealed'[c] = revealed[c]
    <2>1. CASE AppendClaim
      BY <2>1, RevealTouchesOne
    <2>2. CASE UNCHANGED revealed
      BY <2>2
    <2> QED BY <2>1, <2>2, EpochSteps DEF AppendVerdict, WriteBatch, Quiet
  <1> QED BY <1>1, <1>2

LEMMA FinalStep == MoneyInv /\ FinalWhenPaid /\ [Next]_vars => FinalWhenPaid'
  <1> SUFFICES ASSUME MoneyInv, FinalWhenPaid, [Next]_vars,
                      NEW c \in Claims, receipts'[c] > 0
               PROVE  revealed'[c] + FinalityEpochs < now'
    BY DEF FinalWhenPaid
  <1>1. /\ revealed \in [Claims -> Epochs \cup {0}]
        /\ receipts \in [Claims -> Nat] /\ FinalityEpochs \in Nat
    BY BoundsAssumption DEF MoneyInv, TypeOK
  <1>2. receipts[c] > 0 => revealed[c] # 0 /\ revealed[c] + FinalityEpochs < now
    BY DEF MoneyInv, MoneyOK, FinalWhenPaid
  <1>3. CASE UNCHANGED receipts
    BY <1>1, <1>2, <1>3, TimeGoesOn, EpochsAreNaturals
  <1>4. ASSUME NEW d \in drain.todo, d \in Claims,
               pc \in {"pay", "settlement"}, revealed[d] = drain.epoch,
               \A x \in Claims : x # d => receipts'[x] = receipts[x],
               UNCHANGED <<now, revealed>>
        PROVE  revealed'[c] + FinalityEpochs < now'
    <2>1. /\ drain.epoch + FinalityEpochs < call.at /\ call.at <= now
          /\ drain.epoch \in Nat /\ call.at \in Nat /\ now \in Nat
      BY <1>4, TimeGoesOn, EpochsAreNaturals DEF MoneyInv, ControlOK
    <2>2. CASE c = d
      BY <1>1, <1>4, <2>1, <2>2
    <2>3. CASE c # d
      BY <1>2, <1>4, <2>3
    <2> QED BY <2>2, <2>3
  <1> QED BY <1>3, <1>4, ReceiptSteps

\* Why the verdict of a paid claim stands: its verifier does not run again.
OpenEarnedInv ==
    /\ OwnStamps
    /\ FinalWhenPaid
    /\ \A c \in Claims : receipts[c] > 0 => verdict[c] = "accept"
    /\ (pc # "idle" /\ call.op = "reveal") => receipts[call.what] = 0

LEMMA OpenEarnedStep ==
    NothingSealed /\ MoneyInv /\ OpenEarnedInv /\ [Next]_vars => OpenEarnedInv'
  <1> SUFFICES ASSUME NothingSealed, MoneyInv, OpenEarnedInv, [Next]_vars
               PROVE  OpenEarnedInv'
    OBVIOUS
  <1>1. OwnStamps /\ OwnStamps' /\ FinalWhenPaid /\ FinalWhenPaid'
    BY OwnStampsStep, FinalStep DEF OpenEarnedInv
  <1>t. /\ revealed \in [Claims -> Epochs \cup {0}]
        /\ receipts \in [Claims -> Nat] /\ FinalityEpochs \in Nat
    BY BoundsAssumption DEF MoneyInv, TypeOK
  <1>2. \A c \in Claims : receipts'[c] > 0 => verdict'[c] = "accept"
    <2>1. CASE UNCHANGED receipts
      <3>1. CASE AppendVerdict
        BY <2>1, <3>1, VerdictTouchesOne DEF OpenEarnedInv
      <3>2. CASE UNCHANGED verdict
        BY <2>1, <3>2 DEF OpenEarnedInv
      <3> QED BY <3>1, <3>2, EpochSteps DEF AppendClaim, WriteBatch, Quiet
    <2>2. ASSUME NEW d \in drain.todo, d \in Claims, d \in accepted,
                 \A x \in Claims : x # d => receipts'[x] = receipts[x],
                 UNCHANGED verdict
          PROVE  \A c \in Claims : receipts'[c] > 0 => verdict'[c] = "accept"
      BY <2>2 DEF OpenEarnedInv, accepted
    <2> QED BY <2>1, <2>2, ReceiptSteps
  <1>3. (pc' # "idle" /\ call'.op = "reveal") => receipts'[call'.what] = 0
    <2> SUFFICES ASSUME pc' # "idle", call'.op = "reveal"
                 PROVE  receipts'[call'.what] = 0
      OBVIOUS
    <2>1. ASSUME NEW c \in Claims, RevealCall(c)
          PROVE  receipts'[call'.what] = 0
      <3>1. call'.what = c /\ UNCHANGED receipts
        BY <2>1 DEF RevealCall, Enter, logVars
      <3>2. revealed[c] = 0 \/ Claim[c].created_at = now
        BY <2>1, ClaimShape DEF RevealCall, Deliverable, NothingSealed
      <3>3. receipts[c] > 0 => revealed[c] # 0 /\ revealed[c] + FinalityEpochs < now
        BY <1>1 DEF MoneyInv, MoneyOK, FinalWhenPaid
      <3>4. receipts[c] > 0 => Claim[c].created_at + FinalityEpochs < Claim[c].created_at
        BY <1>1, <3>2, <3>3 DEF OwnStamps
      <3>5. Claim[c].created_at \in Nat
        BY ClaimShape, EpochsAreNaturals
      <3> QED BY <1>t, <3>1, <3>4, <3>5
    <2>2. CASE UNCHANGED call /\ pc # "idle"
      <3>1. /\ call.op = "reveal" /\ receipts[call.what] = 0
            /\ call.what \in Claims
        BY <2>2 DEF OpenEarnedInv, MoneyInv, TypeOK
      <3>2. CASE UNCHANGED receipts
        BY <2>2, <3>1, <3>2
      <3>3. ASSUME NEW d \in drain.todo, d \in Claims, d \in accepted,
                   pc \in {"pay", "settlement"}, revealed[d] = drain.epoch,
                   \A x \in Claims : x # d => receipts'[x] = receipts[x]
            PROVE  receipts'[call'.what] = 0
        <4>1. /\ drain.epoch + FinalityEpochs < call.at
              /\ drain.epoch \in Nat /\ call.at \in Nat
          BY <3>3, EpochsAreNaturals DEF MoneyInv, ControlOK
        <4>2. call.at = Claim[call.what].created_at
          BY <1>1, <2>2, <3>1 DEF OwnStamps
        <4>3. drain.epoch = Claim[d].created_at
          BY <1>1, <3>3 DEF OwnStamps, accepted
        <4>4. d # call.what
          BY <1>t, <4>1, <4>2, <4>3
        <4> QED BY <2>2, <3>1, <3>3, <4>4
      <3> QED BY <3>2, <3>3, ReceiptSteps
    <2>3. CASE Tick \/ \E h \in Commitments : CommitCall(h)
      BY <2>3 DEF Tick, CommitCall, Enter
    <2> QED BY <2>1, <2>2, <2>3, CallSteps
  <1> QED BY <1>1, <1>2, <1>3 DEF OpenEarnedInv

\* Without outages a verifier says what it said before.
SteadyInv ==
    /\ FinalWhenPaid
    /\ \A c \in Claims : /\ verdict[c] \in {"none", Claim[c].judge}
                         /\ receipts[c] > 0 => verdict[c] = "accept"

LEMMA SteadyStep ==
    MaxOutages = 0 /\ MoneyInv /\ SteadyInv /\ [Next]_vars => SteadyInv'
  <1> SUFFICES ASSUME MaxOutages = 0, MoneyInv, SteadyInv, [Next]_vars
               PROVE  SteadyInv'
    OBVIOUS
  <1>1. FinalWhenPaid'
    BY FinalStep DEF SteadyInv
  <1>2. \A c \in Claims : verdict'[c] \in {"none", Claim[c].judge}
                          /\ (verdict[c] = "accept" => verdict'[c] = "accept")
    <2>1. CASE AppendVerdict
      <3>1. verdict'[call.what] = Claim[call.what].judge
        BY <2>1, VerdictTouchesOne DEF MoneyInv, TypeOK
      <3> QED BY <2>1, <3>1, VerdictTouchesOne DEF SteadyInv
    <2>2. CASE UNCHANGED verdict
      BY <2>2 DEF SteadyInv
    <2> QED BY <2>1, <2>2, EpochSteps DEF AppendClaim, WriteBatch, Quiet
  <1>3. \A c \in Claims : receipts'[c] > 0 => verdict'[c] = "accept"
    <2>1. CASE UNCHANGED receipts
      BY <1>2, <2>1 DEF SteadyInv
    <2>2. ASSUME NEW d \in drain.todo, d \in Claims, d \in accepted,
                 \A x \in Claims : x # d => receipts'[x] = receipts[x]
          PROVE  \A c \in Claims : receipts'[c] > 0 => verdict'[c] = "accept"
      BY <1>2, <2>2 DEF SteadyInv, accepted
    <2> QED BY <2>1, <2>2, ReceiptSteps
  <1> QED BY <1>1, <1>2, <1>3 DEF SteadyInv

\* A paid claim was committed before it was revealed, revealed longer ago than
\* the finality delay, and its verdict is an acceptance to this day: in a log
\* without sealed claims, and in any log while verifiers are available (reveal,
\* due_epochs, audit).
THEOREM PaidWereEarned ==
    ASSUME NothingSealed \/ MaxOutages = 0
    PROVE  Spec => []PaidClaimsWereEarned
  <1>1. Init => OpenEarnedInv /\ SteadyInv
    <2> SUFFICES ASSUME Init PROVE OpenEarnedInv /\ SteadyInv
      OBVIOUS
    <2>1. OwnStamps /\ FinalWhenPaid
      BY DEF Init, OwnStamps, FinalWhenPaid
    <2> QED BY <2>1 DEF Init, OpenEarnedInv, SteadyInv
  <1>2. MoneyInv /\ FinalWhenPaid
        /\ (\A c \in Claims : receipts[c] > 0 => verdict[c] = "accept")
        => PaidClaimsWereEarned
    BY DEF MoneyInv, MoneyOK, LogOK, FinalWhenPaid, PaidClaimsWereEarned
  <1>3. CASE NothingSealed
    <2>1. MoneyInv /\ OpenEarnedInv /\ [Next]_vars => OpenEarnedInv'
      BY <1>3, OpenEarnedStep
    <2>2. MoneyInv /\ OpenEarnedInv => PaidClaimsWereEarned
      BY <1>2 DEF OpenEarnedInv
    <2> QED BY <1>1, <2>1, <2>2, MoneyInvariant, PTL DEF Spec
  <1>4. CASE MaxOutages = 0
    <2>1. MoneyInv /\ SteadyInv /\ [Next]_vars => SteadyInv'
      BY <1>4, SteadyStep
    <2>2. MoneyInv /\ SteadyInv => PaidClaimsWereEarned
      BY <1>2 DEF SteadyInv
    <2> QED BY <1>1, <2>1, <2>2, MoneyInvariant, PTL DEF Spec
  <1> QED BY <1>3, <1>4
-----------------------------------------------------------------------------
(* Piecework is paid while there is money for it.                            *)

\* What settlement leaves of a piecework claim of the batch S.
served(c, S) ==
    \/ unitKeys(c) \subseteq paid_unit_keys(Claim[c].objective) \cup unitsPaidOf(S)
    \/ total[Claim[c].objective] = Objective[Claim[c].objective].reward

\* A batch consumes the units of its own claims that were paid.
ConsumedIsPaid ==
    \A u \in Units : <<"piece", u>> \in drain.consumed =>
        \E d \in drain.members : /\ kindOf(d) = "piecework" /\ receipts[d] > 0
                                 /\ u \in Claim[d].units

UnitsInv ==
    /\ UnitsArePaidWhileFunded
    /\ pc \in {"pay", "settlement"} =>
        /\ ConsumedIsPaid
        /\ \A c \in drain.members \ drain.todo :
                kindOf(c) = "piecework" => served(c, drain.members)

\* Being served is for good: settlements are never taken back.
LEMMA ServedStays ==
    ASSUME MoneyInv, MoneyInv', [Next]_vars
    PROVE  /\ \A d \in Claims : receipts[d] > 0 => receipts'[d] > 0
           /\ \A c \in Claims, S \in SUBSET Claims : served(c, S) => served(c, S)'
  <1>t. /\ receipts \in [Claims -> Nat] /\ total \in [Objectives -> Nat]
        /\ total' \in [Objectives -> Nat]
    BY DEF MoneyInv, TypeOK
  <1>1. \A d \in Claims : receipts[d] > 0 => receipts'[d] > 0
    BY <1>t, ReceiptSteps
  <1>2. posted \subseteq posted' /\ (\A o \in Objectives : total[o] <= total'[o])
    <2> DEFINE Grows == /\ posted \subseteq posted'
                        /\ \A o \in Objectives : total[o] <= total'[o]
    <2>1. CASE posted \subseteq posted' /\ UNCHANGED total
      BY <1>t, <2>1
    <2>2. ASSUME NEW c \in Claims, NEW a \in Nat, Pay(c, a), UNCHANGED posted
          PROVE  Grows
      BY <1>t, <2>2, PayEffect DEF MoneyInv
    <2> HIDE DEF Grows
    <2>3. ASSUME NEW c \in Claims, SettlePlain(c)
          PROVE  Grows
      BY <2>2, <2>3, ClaimShape, ObjectiveShape DEF SettlePlain
    <2>4. ASSUME NEW c \in Claims, SettleUnit(c)
          PROVE  Grows
      <3>1. unitReward(c) \in Nat
        BY <1>t, ClaimShape, PoolsHold, UnitRewardWithinPool
        DEF PoolNeverOverspent
      <3> QED BY <2>2, <2>4, <3>1 DEF SettleUnit
    <2>5. ASSUME PayImprovement PROVE Grows
      <3>1. drain.payee \in Claims /\ drain.owed \in Nat
        BY <2>5 DEF PayImprovement, MoneyInv, ControlOK, TypeOK, Drains
      <3> QED BY <2>2, <2>5, <3>1 DEF PayImprovement
    <2>6. ASSUME NEW c \in Claims,
                 AdvanceFrontier(c) \/ SettleNothing(c) \/ RevealCall(c)
          PROVE  UNCHANGED <<posted, total>>
      BY <2>6 DEF AdvanceFrontier, SettleNothing, RevealCall, Enter, logVars
    <2>7. ASSUME NEW h \in Commitments, CommitCall(h)
          PROVE  UNCHANGED <<posted, total>>
      BY <2>7 DEF CommitCall, Enter, logVars
    <2>8. ASSUME NEW o \in Objectives, PostObjective(o)
          PROVE  posted \subseteq posted' /\ UNCHANGED total
      BY <2>8 DEF PostObjective
    <2>9. ASSUME \/ Tick \/ StartBatch \/ WriteBatch \/ TickReturns
                 \/ CommitReturns \/ AppendClaim \/ RefuseClaim
                 \/ AppendVerdict \/ Crash \/ AdvanceClock \/ UNCHANGED vars
          PROVE  UNCHANGED <<posted, total>>
      BY <2>9 DEF Tick, Enter, StartBatch, WriteBatch, TickReturns,
             CommitReturns, AppendClaim, RefuseClaim, AppendVerdict, Crash,
             AdvanceClock, logVars, vars
    <2>10. Grows
      <3>1. CASE posted \subseteq posted' /\ UNCHANGED total
        BY <2>1, <3>1 DEF Grows
      <3> QED BY <2>3, <2>4, <2>5, <2>6, <2>7, <2>8, <2>9, <3>1
              DEF Next, HandlerStep, Settle
    <2> QED BY <2>10 DEF Grows
  <1>3. ASSUME NEW c \in Claims, NEW S \in SUBSET Claims, served(c, S)
        PROVE  served(c, S)'
    <2> DEFINE o == Claim[c].objective
    <2>1. piecework_scope(o) \subseteq piecework_scope(o)'
      BY <1>2 DEF piecework_scope
    <2>2. paid_unit_keys(o) \subseteq paid_unit_keys(o)'
      BY <1>1, <2>1 DEF paid_unit_keys
    <2>3. /\ o \in Objectives /\ Objective[o].reward \in Nat
          /\ total[o] <= total'[o] /\ total'[o] <= Objective[o].reward
      <3>1. PoolNeverOverspent'
        BY PoolsHold, PTL
      <3> QED BY <1>2, <3>1, ClaimShape, ObjectiveShape DEF PoolNeverOverspent
    <2>4. unitsPaidOf(S) \subseteq unitsPaidOf(S)'
      BY <1>1 DEF unitsPaidOf, kindOf, unitKeys
    <2> HIDE DEF o
    <2>5. CASE unitKeys(c) \subseteq paid_unit_keys(o) \cup unitsPaidOf(S)
      BY <2>2, <2>4, <2>5 DEF served, unitKeys, o
    <2>6. CASE total[o] = Objective[o].reward
      BY <1>t, <2>3, <2>6 DEF served, o
    <2> QED BY <1>3, <2>5, <2>6 DEF served, o
  <1> QED BY <1>1, <1>3

\* A unit that is not novel was paid for the job or in the batch, and a claim
\* that earns nothing for its novel units met an empty pool.
LEMMA EarnsNothingServed ==
    ASSUME MoneyInv, ConsumedIsPaid, pc = "pay",
           NEW c \in drain.todo, kindOf(c) = "piecework", earnsNothing(c)
    PROVE  served(c, drain.members)
  <1> DEFINE o == Claim[c].objective
  <1>1. c \in Claims /\ o \in posted /\ o \in Objectives
    BY NextIsAdmitted DEF MoneyInv, TypeOK, Drains
  <1>2. /\ Objective[o].reward \in Nat /\ Objective[o].unit_price \in Nat
        /\ total[o] \in Nat /\ total[o] <= Objective[o].reward
        /\ Objective[o].unit_price >= 1
    <2>1. PoolNeverOverspent
      BY PoolsHold
    <2>2. admissible(o) /\ Objective[o].kind = "piecework"
      BY <1>1 DEF MoneyInv, LogOK, kindOf
    <2> QED BY <1>1, <2>1, <2>2, ObjectiveShape
            DEF PoolNeverOverspent, MoneyInv, TypeOK, admissible
  <1>3. CASE novelUnits(c) = {}
    <2>1. ASSUME NEW k \in unitKeys(c)
          PROVE  k \in paid_unit_keys(o) \cup unitsPaidOf(drain.members)
      <3>1. CASE k \in paid_unit_keys(o)
        BY <3>1
      <3>2. CASE k \in drain.consumed
        <4>1. PICK u \in Claim[c].units : k = <<"piece", u>>
          BY DEF unitKeys
        <4>2. u \in Units
          BY <1>1, <4>1, ClaimShape
        <4>3. PICK d \in drain.members : /\ kindOf(d) = "piecework"
                                         /\ receipts[d] > 0 /\ u \in Claim[d].units
          BY <3>2, <4>1, <4>2 DEF ConsumedIsPaid
        <4>4. k \in unitKeys(d)
          BY <4>1, <4>3 DEF unitKeys
        <4> QED BY <4>3, <4>4 DEF unitsPaidOf
      <3> QED BY <1>3, <3>1, <3>2 DEF novelUnits
    <2> QED BY <2>1 DEF served
  <1>4. CASE novelUnits(c) # {} /\ unitReward(c) = 0
    <2> DEFINE n == Cardinality(novelUnits(c))
    <2>1. n \in Nat /\ n # 0
      <3>1. IsFiniteSet(novelUnits(c))
        BY <1>1, NovelFinite
      <3> QED BY <1>4, <3>1, FS_CardinalityType, FS_EmptySet
    <2> HIDE DEF n
    <2>2. Objective[o].unit_price * n >= 1
      <3>1. n >= 1
        BY <2>1
      <3>2. /\ Objective[o].unit_price * 1 <= Objective[o].unit_price * n
            /\ Objective[o].unit_price * n \in Nat
        BY <1>2, <2>1, <3>1, ProductMonotone
      <3> QED BY <1>2, <3>2
    <2>3. payout_for(o, n, Objective[o].reward - total[o]) = 0
      BY <1>4 DEF unitReward, n
    <2>4. Objective[o].reward - total[o] = 0
      BY <1>2, <2>2, <2>3 DEF payout_for
    <2> QED BY <1>2, <2>4 DEF served
  <1> QED BY <1>3, <1>4 DEF earnsNothing

\* What a step of the batch has to show.
LEMMA UnitsKept ==
    ASSUME MoneyInv, MoneyInv', UnitsInv, [Next]_vars, UNCHANGED batch,
           pc \in {"pay", "settlement"}, drain'.members = drain.members,
           NEW done \in SUBSET Claims,
           \A c \in done : kindOf(c) = "piecework" => served(c, drain.members)',
           drain.todo \subseteq drain'.todo \cup done,
           ConsumedIsPaid'
    PROVE  UnitsInv'
  <1>1. \A c \in Claims, S \in SUBSET Claims : served(c, S) => served(c, S)'
    BY ServedStays
  <1>2. UnitsArePaidWhileFunded'
    <2>1. \A e \in drained_epochs' : e \in drained_epochs /\ batch[e] \subseteq Claims
      BY DEF drained_epochs, MoneyInv, TypeOK
    <2> QED BY <1>1, <2>1 DEF UnitsInv, UnitsArePaidWhileFunded, served, kindOf
  <1>3. ASSUME NEW c \in drain'.members \ drain'.todo, kindOf(c) = "piecework"
        PROVE  served(c, drain.members)'
    <2>1. c \in Claims /\ drain.members \in SUBSET Claims
      BY <1>3 DEF MoneyInv, TypeOK, Drains
    <2>2. CASE c \in done
      BY <1>3, <2>2
    <2>3. CASE c \notin done
      BY <1>1, <1>3, <2>1, <2>3 DEF UnitsInv
    <2> QED BY <2>2, <2>3
  <1> QED BY <1>2, <1>3 DEF UnitsInv, kindOf

LEMMA UnitsStep ==
    MoneyInv /\ MoneyInv' /\ UnitsInv /\ [Next]_vars => UnitsInv'
  <1> SUFFICES ASSUME MoneyInv, MoneyInv', UnitsInv, [Next]_vars
               PROVE  UnitsInv'
    OBVIOUS
  <1>t. /\ drain \in Drains /\ receipts \in [Claims -> Nat]
        /\ batch \in [Epochs -> SUBSET Claims]
    BY DEF MoneyInv, TypeOK
  <1>s. /\ \A c \in Claims, S \in SUBSET Claims : served(c, S) => served(c, S)'
        /\ \A c \in Claims : receipts[c] > 0 => receipts'[c] > 0
    BY ServedStays
  <1>m. /\ drain.members \in SUBSET Claims
        /\ \A d \in drain.members : receipts[d] > 0 => receipts'[d] > 0
    BY <1>t, <1>s DEF Drains
  <1>1. CASE UNCHANGED batch /\ pc' \notin {"pay", "settlement"}
    <2>1. \A e \in drained_epochs' : e \in drained_epochs /\ batch[e] \subseteq Claims
      BY <1>1, <1>t DEF drained_epochs
    <2>2. UnitsArePaidWhileFunded'
      BY <1>1, <1>s, <2>1 DEF UnitsInv, UnitsArePaidWhileFunded, served, kindOf
    <2> QED BY <1>1, <2>2 DEF UnitsInv
  <1>2. CASE UNCHANGED <<batch, pc, drain>>
    <2>1. CASE pc \in {"pay", "settlement"}
      <3>1. ConsumedIsPaid'
        BY <1>2, <1>m, <2>1 DEF UnitsInv, ConsumedIsPaid, kindOf
      <3>2. /\ {} \in SUBSET Claims /\ drain.todo \subseteq drain'.todo \cup {}
            /\ \A c \in {} : kindOf(c) = "piecework" => served(c, drain.members)'
        BY <1>2
      <3> QED BY <1>2, <2>1, <3>1, <3>2, UnitsKept
    <2> QED BY <1>1, <1>2, <2>1
  <1>3. CASE StartBatch
    <2>1. /\ drain'.consumed = {} /\ drain'.members = drain'.todo
          /\ UNCHANGED <<batch, receipts, posted, total>>
      BY <1>3 DEF StartBatch, logVars
    <2>2. UnitsArePaidWhileFunded'
      BY <2>1 DEF UnitsInv, UnitsArePaidWhileFunded, drained_epochs,
                  paid_unit_keys, piecework_scope, unitKeys, kindOf, unitsPaidOf
    <2> QED BY <2>1, <2>2 DEF UnitsInv, ConsumedIsPaid
  <1>4. ASSUME NEW c \in Claims, SettleUnit(c) PROVE UnitsInv'
    <2>1. /\ pc = "pay" /\ kindOf(c) = "piecework" /\ UNCHANGED batch
          /\ Finish(c, TRUE) /\ Pay(c, unitReward(c)) /\ c \in drain.todo
      BY <1>4 DEF SettleUnit, IsNext
    <2>2. /\ drain'.members = drain.members /\ drain'.todo = drain.todo \ {c}
          /\ drain'.consumed = drain.consumed \cup unitKeys(c)
      BY <1>t, <2>1 DEF Finish, consumedBy, Drains
    <2>3. receipts'[c] > 0
      BY <1>t, <2>1 DEF Pay
    <2>4. served(c, drain.members)'
      <3>1. Claim[c].objective \in piecework_scope(Claim[c].objective)'
        <4>1. Claim[c].objective \in posted
          BY <2>1, NextIsAdmitted
        <4> QED BY <1>4, <2>1, <4>1 DEF SettleUnit, piecework_scope, kindOf
      <3> QED BY <2>3, <3>1 DEF served, paid_unit_keys, unitKeys
    <2>5. ConsumedIsPaid'
      <3> SUFFICES ASSUME NEW u \in Units, <<"piece", u>> \in drain'.consumed
                   PROVE  \E d \in drain.members : /\ kindOf(d) = "piecework"
                                                   /\ receipts'[d] > 0
                                                   /\ u \in Claim[d].units
        BY <2>2 DEF ConsumedIsPaid, kindOf
      <3>0. c \in drain.members
        BY <2>1 DEF MoneyInv, ControlOK
      <3>1. CASE <<"piece", u>> \in unitKeys(c)
        BY <2>1, <2>3, <3>0, <3>1 DEF unitKeys
      <3>2. CASE <<"piece", u>> \in drain.consumed
        BY <1>m, <2>1, <3>2 DEF UnitsInv, ConsumedIsPaid
      <3> QED BY <2>2, <3>1, <3>2
    <2> QED BY <2>1, <2>2, <2>4, <2>5, UnitsKept
  <1>5. ASSUME NEW c \in Claims, NEW settled \in BOOLEAN, Finish(c, settled),
               kindOf(c) # "piecework" \/ ~settled,
               kindOf(c) = "piecework" => served(c, drain.members),
               pc = "pay", UNCHANGED batch
        PROVE  UnitsInv'
    <2>1. /\ drain'.members = drain.members /\ drain'.todo = drain.todo \ {c}
          /\ drain'.consumed \subseteq drain.consumed \cup {artifact_id(c)}
      BY <1>5, <1>t DEF Finish, consumedBy, Drains
    <2>2. \A u \in Units : <<"piece", u>> # artifact_id(c)
      BY <1>5 DEF artifact_id
    <2>3. ConsumedIsPaid'
      BY <1>5, <1>m, <2>1, <2>2 DEF UnitsInv, ConsumedIsPaid, kindOf
    <2>4. kindOf(c) = "piecework" => served(c, drain.members)'
      <3>1. PICK S \in SUBSET Claims : S = drain.members
        BY <1>m
      <3>2. kindOf(c) = "piecework" => served(c, S)'
        BY <1>5, <1>s, <3>1
      <3> QED BY <2>1, <3>1, <3>2 DEF served, unitsPaidOf
    <2> QED BY <1>5, <2>1, <2>3, <2>4, UnitsKept
  <1>6. ASSUME NEW c \in Claims, SettlePlain(c) PROVE UnitsInv'
    BY <1>5, <1>6 DEF SettlePlain, IsNext
  <1>7. ASSUME NEW c \in Claims, SettleNothing(c) PROVE UnitsInv'
    <2>1. /\ pc = "pay" /\ c \in drain.todo /\ earnsNothing(c)
          /\ Finish(c, FALSE) /\ UNCHANGED batch
      BY <1>7 DEF SettleNothing, IsNext, logVars
    <2>2. kindOf(c) = "piecework" => served(c, drain.members)
      BY <2>1, EarnsNothingServed DEF UnitsInv
    <2> QED BY <1>5, <2>1, <2>2
  <1>8. ASSUME NEW c \in Claims, AdvanceFrontier(c) PROVE UnitsInv'
    <2>1. /\ pc = "pay" /\ kindOf(c) = "ratchet" /\ UNCHANGED batch
          /\ \/ Finish(c, TRUE)
             \/ /\ drain'.members = drain.members /\ drain'.todo = drain.todo
                /\ drain'.consumed = drain.consumed
      BY <1>8, <1>t DEF AdvanceFrontier, IsNext, Drains
    <2>2. CASE Finish(c, TRUE)
      BY <1>5, <2>1, <2>2
    <2>3. CASE /\ drain'.members = drain.members /\ drain'.todo = drain.todo
               /\ drain'.consumed = drain.consumed
      <3>1. ConsumedIsPaid'
        BY <1>m, <2>1, <2>3 DEF UnitsInv, ConsumedIsPaid, kindOf
      <3>2. /\ {} \in SUBSET Claims /\ drain.todo \subseteq drain'.todo \cup {}
            /\ \A d \in {} : kindOf(d) = "piecework" => served(d, drain.members)'
        BY <2>3
      <3> QED BY <2>1, <2>3, <3>1, <3>2, UnitsKept
    <2> QED BY <2>1, <2>2, <2>3
  <1>9. CASE PayImprovement
    <2> DEFINE c == drain.payee
    <2>1. /\ c \in Claims /\ kindOf(c) = "ratchet" /\ pc = "settlement"
          /\ UNCHANGED batch
          /\ drain'.members = drain.members /\ drain'.todo = drain.todo \ {c}
          /\ drain'.consumed = drain.consumed \cup {artifact_id(c)}
      BY <1>9, <1>t DEF PayImprovement, MoneyInv, ControlOK, Drains
    <2>2. \A u \in Units : <<"piece", u>> # artifact_id(c)
      BY DEF artifact_id
    <2> HIDE DEF c
    <2>3. ConsumedIsPaid'
      BY <1>m, <2>1, <2>2 DEF UnitsInv, ConsumedIsPaid, kindOf
    <2>4. \A d \in {c} : kindOf(d) # "piecework"
      BY <2>1
    <2>5. drain.todo \subseteq drain'.todo \cup {c}
      BY <2>1
    <2> QED BY <2>1, <2>3, <2>4, <2>5, UnitsKept
  <1>10. CASE WriteBatch
    <2>1. /\ drain.epoch \in Epochs /\ drain.todo = {} /\ pc = "pay"
          /\ batch' = [batch EXCEPT ![drain.epoch] = drain.members]
          /\ pc' = "drain" /\ drain.members \subseteq Claims
          /\ UNCHANGED <<posted, receipts, total>>
      BY <1>10, <1>t DEF WriteBatch, MoneyInv, ControlOK, Drains
    <2>2. /\ \A e \in drained_epochs' :
                e = drain.epoch \/ (e \in drained_epochs /\ batch'[e] = batch[e])
          /\ batch'[drain.epoch] = drain.members
      BY <1>t, <2>1 DEF drained_epochs
    <2>3. \A e \in drained_epochs' : \A c \in batch'[e] :
                kindOf(c) = "piecework" => c \in Claims /\ served(c, batch'[e])
      <3>1. \A c \in drain.members :
                kindOf(c) = "piecework" => c \in Claims /\ served(c, drain.members)
        BY <2>1 DEF UnitsInv
      <3>2. \A e \in drained_epochs : \A c \in batch[e] :
                kindOf(c) = "piecework" => c \in Claims /\ served(c, batch[e])
        BY <1>t DEF UnitsInv, UnitsArePaidWhileFunded, served, drained_epochs
      <3> QED BY <2>2, <3>1, <3>2
    <2>4. UnitsArePaidWhileFunded'
      <3>1. \A e \in drained_epochs' : batch'[e] \in SUBSET Claims
        BY DEF drained_epochs, MoneyInv, TypeOK
      <3> QED BY <1>s, <2>3, <3>1 DEF UnitsArePaidWhileFunded, served, kindOf
    <2> QED BY <2>1, <2>4 DEF UnitsInv
  <1>11. ASSUME NEW c \in Claims, RevealCall(c) PROVE UnitsInv'
    BY <1>1, <1>11 DEF RevealCall, Enter, logVars
  <1>12. ASSUME NEW h \in Commitments, CommitCall(h) PROVE UnitsInv'
    BY <1>1, <1>12 DEF CommitCall, Enter, logVars
  <1>13. ASSUME NEW o \in Objectives, PostObjective(o) PROVE UnitsInv'
    BY <1>2, <1>13 DEF PostObjective
  <1>14. CASE \/ Tick \/ TickReturns \/ CommitReturns \/ AppendClaim
              \/ RefuseClaim \/ AppendVerdict \/ Crash
    BY <1>1, <1>14 DEF Tick, Enter, TickReturns, CommitReturns, AppendClaim,
           RefuseClaim, AppendVerdict, Crash, Return, logVars
  <1>15. CASE AdvanceClock \/ UNCHANGED vars
    BY <1>2, <1>15 DEF AdvanceClock, logVars, handlerVars, vars
  <1> QED BY <1>3, <1>4, <1>6, <1>7, <1>8, <1>9, <1>10, <1>11, <1>12, <1>13,
             <1>14, <1>15
          DEF Next, HandlerStep, Settle

\* A piecework claim of a paid epoch has every unit paid, for its job or by a
\* paid claim of its own batch, or its pool is spent, across crashes and
\* whatever jobs share the batch (settle_due, settle_unit, paid_unit_keys).
THEOREM UnitsPaid == Spec => []UnitsArePaidWhileFunded
  <1>1. Init => UnitsInv
    <2> SUFFICES ASSUME Init PROVE UnitsInv
      OBVIOUS
    <2>1. UnitsArePaidWhileFunded
      BY DEF Init, UnitsArePaidWhileFunded, drained_epochs
    <2> QED BY <2>1 DEF Init, UnitsInv
  <1>2. MoneyInv /\ MoneyInv' /\ UnitsInv /\ [Next]_vars => UnitsInv'
    BY UnitsStep
  <1>3. UnitsInv => UnitsArePaidWhileFunded
    BY DEF UnitsInv
  <1> QED BY <1>1, <1>2, <1>3, MoneyInvariant, PTL DEF Spec
-----------------------------------------------------------------------------
(* The order of the epochs, when records arrive within the finality delay.   *)

\* Every accepted claim below an epoch was settled with its own.
settledBelow(e) ==
    \A x \in Epochs : x < e => accepted_in_epoch(x) = {} \/ epoch_is_drained(x)

\* A reveal that is under way is stamped above every epoch that was paid, or
\* was being paid when the process died.
RevealsAreAhead ==
    (pc # "idle" /\ call.op = "reveal") =>
        /\ \A c \in Claims : receipts[c] > 0 => revealed[c] < call.at
        /\ \A d \in drained_epochs : d < call.at

TimelyInv ==
    /\ OwnStamps
    /\ FinalWhenPaid
    /\ \A d \in drained_epochs : d + FinalityEpochs < now
    /\ RevealsAreAhead
    /\ pc = "verdict" => revealed[call.what] # 0
    /\ \A d \in drained_epochs : settledBelow(d)
    /\ \A c \in Claims : receipts[c] > 0 => settledBelow(revealed[c])
    /\ pc \in {"pay", "settlement"} => settledBelow(drain.epoch)

\* A reveal and its verdict leave the epochs below their stamp alone.
LEMMA BelowTheStamp ==
    ASSUME MoneyInv, TimelyInv, AppendClaim \/ AppendVerdict
    PROVE  /\ pc # "idle" /\ call.op = "reveal" /\ call.at \in Epochs
           /\ call.what \in Claims
           /\ \A d \in Claims : d # call.what => /\ revealed'[d] = revealed[d]
                                                /\ verdict'[d] = verdict[d]
           /\ revealed[call.what] \in {0, call.at}
           /\ revealed'[call.what] = call.at
           /\ \A x \in Epochs : x < call.at =>
                accepted_in_epoch(x)' = accepted_in_epoch(x)
           /\ UNCHANGED <<batch, receipts, now>>
  <1>1. /\ pc \in {"drain", "verdict"} /\ call.op = "reveal" /\ call.at \in Epochs
        /\ call.what \in Claims /\ UNCHANGED <<batch, receipts, now>>
    BY DEF AppendClaim, AppendVerdict, Drained, MoneyInv, ControlOK, TypeOK
  <1>2. call.at = Claim[call.what].created_at
    BY <1>1 DEF TimelyInv, OwnStamps
  <1>3. revealed[call.what] \in {0, call.at}
    BY <1>1, <1>2 DEF TimelyInv, OwnStamps
  <1>4. \A d \in Claims : d # call.what => /\ revealed'[d] = revealed[d]
                                          /\ verdict'[d] = verdict[d]
    BY RevealTouchesOne, VerdictTouchesOne
  <1>5. revealed'[call.what] = call.at
    <2>1. CASE AppendClaim
      BY <1>3, <2>1, RevealTouchesOne
    <2>2. CASE AppendVerdict
      BY <1>3, <2>2, VerdictTouchesOne DEF TimelyInv
    <2> QED BY <2>1, <2>2
  <1>6. ASSUME NEW x \in Epochs, x < call.at
        PROVE  accepted_in_epoch(x)' = accepted_in_epoch(x)
    <2>1. x # call.at /\ x # 0
      BY <1>1, <1>6, EpochsAreNaturals
    <2> QED BY <1>3, <1>4, <1>5, <2>1 DEF accepted_in_epoch, accepted
  <1> QED BY <1>1, <1>3, <1>4, <1>5, <1>6

\* An epoch with nothing accepted and nothing unpaid below it stays so.
LEMMA SettledBelowStays ==
    ASSUME MoneyInv, NEW e \in Epochs, settledBelow(e), e <= call.at,
           call.at \in Epochs,
           \A x \in Epochs : x < call.at =>
                accepted_in_epoch(x)' = accepted_in_epoch(x),
           drained_epochs \subseteq drained_epochs'
    PROVE  settledBelow(e)'
  BY EpochsAreNaturals DEF settledBelow, epoch_is_drained

\* The epoch being drained is chosen once.
LEMMA DrainEpochSteps ==
    ASSUME MoneyInv, [Next]_vars, pc' \in {"pay", "settlement"}
    PROVE  \/ StartBatch
           \/ /\ pc \in {"pay", "settlement"} /\ drain'.epoch = drain.epoch
              /\ drain'.members = drain.members
  <1>t. drain \in Drains
    BY DEF MoneyInv, TypeOK
  <1>1. ASSUME NEW c \in Claims,
               SettlePlain(c) \/ SettleUnit(c) \/ SettleNothing(c)
        PROVE  /\ pc = "pay" /\ drain'.epoch = drain.epoch
               /\ drain'.members = drain.members
    BY <1>1, <1>t DEF SettlePlain, SettleUnit, SettleNothing, IsNext, Finish,
                      Drains
  <1>2. ASSUME NEW c \in Claims, AdvanceFrontier(c)
        PROVE  /\ pc = "pay" /\ drain'.epoch = drain.epoch
               /\ drain'.members = drain.members
    BY <1>2, <1>t DEF AdvanceFrontier, IsNext, Finish, Drains
  <1>3. ASSUME PayImprovement
        PROVE  /\ pc = "settlement" /\ drain'.epoch = drain.epoch
               /\ drain'.members = drain.members
    BY <1>3, <1>t DEF PayImprovement, Drains
  <1>4. ASSUME NEW c \in Claims, RevealCall(c) PROVE pc' = "drain"
    BY <1>4 DEF RevealCall, Enter
  <1>5. ASSUME NEW h \in Commitments, CommitCall(h) PROVE pc' = "drain"
    BY <1>5 DEF CommitCall, Enter
  <1>6. ASSUME NEW o \in Objectives, PostObjective(o) PROVE UNCHANGED <<pc, drain>>
    BY <1>6 DEF PostObjective
  <1>7. ASSUME \/ Tick \/ WriteBatch \/ TickReturns \/ CommitReturns
               \/ AppendClaim \/ RefuseClaim \/ AppendVerdict \/ Crash
        PROVE  pc' \in {"idle", "drain", "verdict"}
    BY <1>7 DEF Tick, Enter, WriteBatch, TickReturns, CommitReturns,
           AppendClaim, RefuseClaim, AppendVerdict, Crash, Return
  <1>8. ASSUME AdvanceClock \/ UNCHANGED vars PROVE UNCHANGED <<pc, drain>>
    BY <1>8 DEF AdvanceClock, handlerVars, vars
  <1> QED BY <1>1, <1>2, <1>3, <1>4, <1>5, <1>6, <1>7, <1>8
          DEF Next, HandlerStep, Settle

LEMMA TimelyStep ==
    NothingSealed /\ SyncLag <= FinalityEpochs /\ MoneyInv /\ MoneyInv'
        /\ TimelyInv /\ [Next]_vars => TimelyInv'
  <1> SUFFICES ASSUME NothingSealed, SyncLag <= FinalityEpochs, MoneyInv,
                      MoneyInv', TimelyInv, [Next]_vars
               PROVE  TimelyInv'
    OBVIOUS
  <1>t. /\ revealed \in [Claims -> Epochs \cup {0}]
        /\ receipts \in [Claims -> Nat] /\ batch \in [Epochs -> SUBSET Claims]
        /\ FinalityEpochs \in Nat /\ SyncLag \in Nat
        /\ \A d \in drained_epochs : d \in Epochs
        /\ \A c \in Claims : receipts[c] > 0 => revealed[c] \in Epochs
    BY BoundsAssumption DEF MoneyInv, MoneyOK, TypeOK, drained_epochs
  <1>1. OwnStamps' /\ FinalWhenPaid'
    BY OwnStampsStep, FinalStep DEF TimelyInv
  <1>2. \A d \in drained_epochs' : d + FinalityEpochs < now'
    <2>1. CASE UNCHANGED batch
      BY <1>t, <2>1, TimeGoesOn, EpochsAreNaturals DEF TimelyInv, drained_epochs
    <2>2. CASE WriteBatch
      <3>1. /\ drain.epoch \in Nat /\ call.at \in Nat /\ now \in Nat
            /\ drain.epoch + FinalityEpochs < call.at /\ call.at <= now
            /\ UNCHANGED now
        BY <2>2, EpochsAreNaturals, TimeGoesOn
        DEF WriteBatch, MoneyInv, ControlOK
      <3>2. \A d \in drained_epochs' : d \in drained_epochs \/ d = drain.epoch
        BY <1>t, <2>2 DEF WriteBatch, drained_epochs
      <3> QED BY <1>t, <3>1, <3>2 DEF TimelyInv
    <2> QED BY <2>1, <2>2, EpochSteps DEF AppendClaim, AppendVerdict, Quiet
  <1>3. pc' = "verdict" => revealed'[call'.what] # 0
    <2>1. CASE AppendClaim
      BY <2>1, RevealTouchesOne
    <2>2. CASE Quiet
      BY <2>2 DEF Quiet, TimelyInv
    <2> QED BY <2>1, <2>2, EpochSteps DEF AppendVerdict, Return, WriteBatch
  <1>4. RevealsAreAhead'
    <2> SUFFICES ASSUME pc' # "idle", call'.op = "reveal"
                 PROVE  /\ \A c \in Claims : receipts'[c] > 0 => revealed'[c] < call'.at
                        /\ \A d \in drained_epochs' : d < call'.at
      BY DEF RevealsAreAhead
    <2>1. ASSUME NEW c \in Claims, RevealCall(c)
          PROVE  /\ \A d \in Claims : receipts'[d] > 0 => revealed'[d] < call'.at
                 /\ \A d \in drained_epochs' : d < call'.at
      <3>1. /\ call'.at = Claim[c].created_at
            /\ UNCHANGED <<receipts, revealed, batch>>
            /\ \/ Claim[c].created_at = now
               \/ now <= Claim[c].created_at + SyncLag
        BY <2>1, ClaimShape
        DEF RevealCall, Deliverable, Enter, logVars, NothingSealed
      <3>2. Claim[c].created_at \in Nat /\ now \in Nat
        BY ClaimShape, EpochsAreNaturals, TimeGoesOn
      <3>3. \A x \in Nat : x + FinalityEpochs < now => x < Claim[c].created_at
        BY <1>t, <3>1, <3>2
      <3>4. \A d \in Claims : receipts[d] > 0 => revealed[d] < Claim[c].created_at
        BY <1>t, <3>3, EpochsAreNaturals DEF TimelyInv, FinalWhenPaid
      <3>5. \A d \in drained_epochs : d < Claim[c].created_at
        BY <1>t, <3>3, EpochsAreNaturals DEF TimelyInv
      <3>6. drained_epochs' = drained_epochs
        BY <3>1 DEF drained_epochs
      <3> QED BY <3>1, <3>4, <3>5, <3>6
    <2>2. CASE UNCHANGED call /\ pc # "idle"
      <3>1. /\ \A c \in Claims : receipts[c] > 0 => revealed[c] < call.at
            /\ \A d \in drained_epochs : d < call.at
        BY <2>2 DEF TimelyInv, RevealsAreAhead
      <3>2. pc \in {"pay", "settlement"} => drain.epoch < call.at
        BY <1>t, EpochsAreNaturals DEF MoneyInv, ControlOK
      <3>3. \A c \in Claims : receipts'[c] > 0 => revealed'[c] < call.at
        <4>1. CASE UNCHANGED receipts
          BY <1>t, <3>1, <4>1, TimeGoesOn, EpochsAreNaturals
        <4>2. ASSUME NEW d \in drain.todo, d \in Claims,
                     pc \in {"pay", "settlement"}, revealed[d] = drain.epoch,
                     \A x \in Claims : x # d => receipts'[x] = receipts[x],
                     UNCHANGED revealed
              PROVE  \A c \in Claims : receipts'[c] > 0 => revealed'[c] < call.at
          BY <3>1, <3>2, <4>2
        <4> QED BY <4>1, <4>2, ReceiptSteps
      <3>4. \A d \in drained_epochs' : d < call.at
        <4>1. CASE UNCHANGED batch
          BY <3>1, <4>1 DEF drained_epochs
        <4>2. CASE WriteBatch
          <5>1. \A d \in drained_epochs' : d \in drained_epochs \/ d = drain.epoch
            BY <1>t, <4>2 DEF WriteBatch, drained_epochs
          <5> QED BY <3>1, <3>2, <4>2, <5>1 DEF WriteBatch
        <4> QED BY <4>1, <4>2, EpochSteps DEF AppendClaim, AppendVerdict, Quiet
      <3> QED BY <2>2, <3>3, <3>4
    <2>3. CASE Tick \/ \E h \in Commitments : CommitCall(h)
      BY <2>3 DEF Tick, CommitCall, Enter
    <2> QED BY <2>1, <2>2, <2>3, CallSteps
  <1>5. /\ \A d \in drained_epochs' : settledBelow(d)'
        /\ \A c \in Claims : receipts'[c] > 0 => settledBelow(revealed[c])'
        /\ pc' \in {"pay", "settlement"} => settledBelow(drain.epoch)'
    <2>1. CASE AppendClaim \/ AppendVerdict
      <3>1. /\ UNCHANGED <<batch, receipts>> /\ drained_epochs' = drained_epochs
            /\ pc' \notin {"pay", "settlement"}
        BY <2>1, BelowTheStamp
        DEF AppendClaim, AppendVerdict, Return, drained_epochs
      <3>2. \A x \in Epochs : (x <= call.at /\ settledBelow(x)) => settledBelow(x)'
        BY <2>1, <3>1, BelowTheStamp, SettledBelowStays
      <3>3. /\ \A c \in Claims : receipts[c] > 0 => revealed[c] < call.at
            /\ \A d \in drained_epochs : d < call.at
        BY <2>1, BelowTheStamp DEF TimelyInv, RevealsAreAhead
      <3>4. \A c \in Claims : receipts[c] > 0 => revealed'[c] = revealed[c]
        BY <1>t, TimeGoesOn, EpochsAreNaturals
      <3>5. call.at \in Nat
        BY <2>1, BelowTheStamp, EpochsAreNaturals
      <3>6. \A d \in drained_epochs : settledBelow(d)'
        BY <1>t, <3>2, <3>3, <3>5, EpochsAreNaturals DEF TimelyInv
      <3>7. ASSUME NEW c \in Claims, receipts[c] > 0
            PROVE  settledBelow(revealed[c])'
        <4>1. settledBelow(revealed[c]) /\ revealed[c] \in Epochs
              /\ revealed[c] <= call.at
          BY <1>t, <3>3, <3>5, <3>7, EpochsAreNaturals DEF TimelyInv
        <4>2. \A x \in Epochs : x < revealed[c] =>
                (accepted_in_epoch(x) = {} \/ epoch_is_drained(x))'
          <5>1. \A x \in Epochs : x < revealed[c] => x < call.at
            BY <1>t, <3>3, <3>5, <3>7, EpochsAreNaturals
          <5> QED BY <2>1, <3>1, <4>1, <5>1, BelowTheStamp
                  DEF settledBelow, epoch_is_drained
        <4> QED BY <3>4, <3>7, <4>2 DEF settledBelow
      <3> QED BY <3>1, <3>6, <3>7
    <2>2. ASSUME UNCHANGED <<revealed, verdict>>,
                 drained_epochs \subseteq drained_epochs'
          PROVE  \A x : settledBelow(x) => settledBelow(x)'
      BY <2>2 DEF settledBelow, accepted_in_epoch, accepted, epoch_is_drained
    <2>3. CASE WriteBatch
      <3>1. /\ UNCHANGED <<revealed, verdict, receipts>> /\ pc' = "drain"
            /\ drained_epochs \subseteq drained_epochs'
            /\ \A d \in drained_epochs' : d \in drained_epochs \/ d = drain.epoch
            /\ settledBelow(drain.epoch)
        BY <1>t, <2>3
        DEF WriteBatch, drained_epochs, MoneyInv, ControlOK, TimelyInv
      <3>2. \A x : settledBelow(x) => settledBelow(x)'
        BY <2>2, <3>1
      <3>3. \A d \in drained_epochs' : settledBelow(d)'
        BY <3>1, <3>2 DEF TimelyInv
      <3>4. \A c \in Claims : receipts[c] > 0 => settledBelow(revealed[c])'
        BY <3>1, <3>2 DEF TimelyInv, settledBelow
      <3> QED BY <3>1, <3>3, <3>4
    <2>4. CASE Quiet
      <3>1. UNCHANGED <<revealed, verdict, batch>> /\ drained_epochs' = drained_epochs
        BY <2>4 DEF Quiet, drained_epochs
      <3>2. \A x : settledBelow(x) => settledBelow(x)'
        BY <2>2, <3>1
      <3>3. \A d \in drained_epochs' : settledBelow(d)'
        BY <3>1, <3>2 DEF TimelyInv
      <3>4. \A c \in Claims : receipts'[c] > 0 => settledBelow(revealed[c])
        <4>1. CASE UNCHANGED receipts
          BY <4>1 DEF TimelyInv
        <4>2. ASSUME NEW d \in drain.todo, d \in Claims,
                     pc \in {"pay", "settlement"}, revealed[d] = drain.epoch,
                     \A x \in Claims : x # d => receipts'[x] = receipts[x]
              PROVE  \A c \in Claims : receipts'[c] > 0 => settledBelow(revealed[c])
          BY <4>2 DEF TimelyInv
        <4> QED BY <4>1, <4>2, ReceiptSteps
      <3>5. \A c \in Claims : settledBelow(revealed[c]) => settledBelow(revealed[c])'
        BY <3>1, <3>2 DEF settledBelow
      <3>6. pc' \in {"pay", "settlement"} =>
                StartBatch \/ (pc \in {"pay", "settlement"}
                                /\ drain'.epoch = drain.epoch)
        BY DrainEpochSteps
      <3>7. ASSUME StartBatch PROVE settledBelow(drain'.epoch)
        <4>1. PICK e \in due_epochs(call.at) :
                /\ \A d \in due_epochs(call.at) : e <= d
                /\ drain'.epoch = e
          BY <3>7 DEF StartBatch
        <4>2. /\ e \in Epochs /\ e + FinalityEpochs < call.at
              /\ call.at \in Epochs
          BY <3>7, <4>1 DEF due_epochs, StartBatch, MoneyInv, ControlOK
        <4>3. ASSUME NEW x \in Epochs, x < e, accepted_in_epoch(x) # {},
                     ~epoch_is_drained(x)
              PROVE  FALSE
          <5>1. \A d \in drained_epochs : d < x
            <6> SUFFICES ASSUME NEW d \in drained_epochs, ~(d < x) PROVE FALSE
              OBVIOUS
            <6>1. d \in Nat /\ x \in Nat /\ d # x
              BY <1>t, <4>3, EpochsAreNaturals DEF epoch_is_drained
            <6>2. x < d
              BY <6>1
            <6> QED BY <4>3, <6>2 DEF TimelyInv, settledBelow
          <5>2. x + FinalityEpochs < call.at
            BY <1>t, <4>2, <4>3, EpochsAreNaturals
          <5>3. x \in due_epochs(call.at)
            BY <4>3, <5>1, <5>2 DEF due_epochs
          <5>4. e <= x
            BY <4>1, <5>3
          <5> QED BY <4>2, <4>3, <5>4, EpochsAreNaturals
        <4> QED BY <4>1, <4>3 DEF settledBelow
      <3>8. pc' \in {"pay", "settlement"} => settledBelow(drain'.epoch)
        BY <3>6, <3>7 DEF TimelyInv
      <3>9. settledBelow(drain'.epoch) => settledBelow(drain.epoch)'
        BY <3>1, <3>2 DEF settledBelow
      <3> QED BY <3>3, <3>4, <3>5, <3>8, <3>9
    <2> QED BY <2>1, <2>3, <2>4, EpochSteps
  <1> QED BY <1>1, <1>2, <1>3, <1>4, <1>5 DEF TimelyInv

\* Of the batch being paid: a plain claim that had its turn without having been
\* revealed before leaves its objective settled.
TurnsInv ==
    pc \in {"pay", "settlement"} =>
        /\ \A d \in drain.members \ drain.todo :
                kindOf(d) = "plain" => artifact_id(d) \in drain.consumed
        /\ \A d \in Claims :
                /\ kindOf(d) = "plain" /\ artifact_id(d) \in drain.consumed
                /\ artifact_id(d) \notin
                        artifact_ids_before(Claim[d].objective, drain.epoch)
                => settlement_of(Claim[d].objective)

\* Settlements and the artifacts of earlier epochs do not go away.
LEMMA SettledStays ==
    ASSUME MoneyInv, MoneyInv', [Next]_vars
    PROVE  \A o : settlement_of(o) => settlement_of(o)'
  <1>1. \A d \in Claims : receipts[d] > 0 => receipts'[d] > 0
    BY ServedStays
  <1> QED BY <1>1 DEF settlement_of, settlements_of

LEMMA TurnsStep ==
    MoneyInv /\ MoneyInv' /\ TurnsInv /\ [Next]_vars => TurnsInv'
  <1> SUFFICES ASSUME MoneyInv, MoneyInv', TurnsInv, [Next]_vars,
                      pc' \in {"pay", "settlement"}
               PROVE  TurnsInv'
    BY DEF TurnsInv
  <1>t. drain \in Drains /\ receipts \in [Claims -> Nat]
    BY DEF MoneyInv, TypeOK
  <1>s. \A o : settlement_of(o) => settlement_of(o)'
    BY SettledStays
  <1>1. CASE StartBatch
    BY <1>1 DEF StartBatch, TurnsInv
  <1>2. ASSUME pc \in {"pay", "settlement"}, UNCHANGED revealed,
               drain'.epoch = drain.epoch, drain'.members = drain.members,
               NEW c \in Claims, drain.todo \subseteq drain'.todo \cup {c},
               drain.consumed \subseteq drain'.consumed,
               \A d \in Claims :
                    kindOf(d) = "plain" /\ artifact_id(d) \in drain'.consumed =>
                        artifact_id(d) \in drain.consumed \cup {artifact_id(c)},
               (c \notin drain'.todo /\ kindOf(c) = "plain") =>
                    artifact_id(c) \in drain'.consumed,
               \/ kindOf(c) # "plain"
               \/ artifact_id(c) \in
                    artifact_ids_before(Claim[c].objective, drain.epoch)
               \/ settlement_of(Claim[c].objective)'
        PROVE  TurnsInv'
    <2>1. \A o, e : artifact_ids_before(o, e)' = artifact_ids_before(o, e)
      BY <1>2 DEF artifact_ids_before, artifact_id
    <2>2. \A d \in drain'.members \ drain'.todo :
                kindOf(d) = "plain" => artifact_id(d) \in drain'.consumed
      BY <1>2 DEF TurnsInv
    <2>3. ASSUME NEW d \in Claims, kindOf(d) = "plain",
                 artifact_id(d) \in drain'.consumed,
                 artifact_id(d) \notin
                    artifact_ids_before(Claim[d].objective, drain.epoch)
          PROVE  settlement_of(Claim[d].objective)'
      <3>1. CASE artifact_id(d) \in drain.consumed
        BY <1>2, <1>s, <2>3, <3>1 DEF TurnsInv
      <3>2. CASE artifact_id(d) = artifact_id(c)
        <4>1. Claim[d].objective = Claim[c].objective
          BY <3>2 DEF artifact_id
        <4> QED BY <1>2, <2>3, <3>2, <4>1 DEF kindOf
      <3> QED BY <1>2, <2>3, <3>1, <3>2
    <2> QED BY <1>2, <2>1, <2>2, <2>3 DEF TurnsInv, kindOf, artifact_id
  <1>3. CASE UNCHANGED <<pc, drain, revealed>>
    <2>1. \A o, e : artifact_ids_before(o, e)' = artifact_ids_before(o, e)
      BY <1>3 DEF artifact_ids_before, artifact_id
    <2> QED BY <1>3, <1>s, <2>1 DEF TurnsInv, kindOf, artifact_id
  <1>4. ASSUME NEW c \in Claims, NEW settled \in BOOLEAN, Finish(c, settled)
        PROVE  /\ drain'.epoch = drain.epoch /\ drain'.members = drain.members
               /\ drain'.todo = drain.todo \ {c}
               /\ drain'.consumed = drain.consumed \cup consumedBy(c, settled)
               /\ \A d \in Claims :
                    kindOf(d) = "plain" /\ artifact_id(d) \in drain'.consumed =>
                        artifact_id(d) \in drain.consumed \cup {artifact_id(c)}
               /\ kindOf(c) = "plain" => artifact_id(c) \in drain'.consumed
    <2>1. /\ drain'.epoch = drain.epoch /\ drain'.members = drain.members
          /\ drain'.todo = drain.todo \ {c}
          /\ drain'.consumed = drain.consumed \cup consumedBy(c, settled)
      BY <1>4, <1>t DEF Finish, Drains
    <2>2. \A d \in Claims : artifact_id(d) \notin unitKeys(c)
      BY DEF artifact_id, unitKeys
    <2> QED BY <2>1, <2>2 DEF consumedBy
  <1>5. ASSUME NEW c \in Claims, SettlePlain(c) PROVE TurnsInv'
    <2>1. /\ pc = "pay" /\ Finish(c, TRUE) /\ UNCHANGED revealed
          /\ Pay(c, Objective[Claim[c].objective].reward)
      BY <1>5 DEF SettlePlain, IsNext
    <2>2. settlement_of(Claim[c].objective)'
      BY <2>1, PayEffect, ClaimShape, ObjectiveShape DEF MoneyInv
    <2> QED BY <1>2, <1>4, <2>1, <2>2
  <1>6. ASSUME NEW c \in Claims, SettleUnit(c) PROVE TurnsInv'
    BY <1>2, <1>4, <1>6 DEF SettleUnit, IsNext
  <1>7. ASSUME NEW c \in Claims, SettleNothing(c) PROVE TurnsInv'
    <2>1. /\ pc = "pay" /\ Finish(c, FALSE) /\ UNCHANGED revealed
          /\ kindOf(c) = "plain" => ~plainPays(c)
      BY <1>7 DEF SettleNothing, IsNext, logVars, earnsNothing
    <2>2. \/ kindOf(c) # "plain"
          \/ artifact_id(c) \in
                artifact_ids_before(Claim[c].objective, drain.epoch)
          \/ settlement_of(Claim[c].objective)'
      BY <1>s, <2>1 DEF plainPays, TurnsInv
    <2> QED BY <1>2, <1>4, <2>1, <2>2
  <1>8. ASSUME NEW c \in Claims, AdvanceFrontier(c) PROVE TurnsInv'
    <2>1. /\ pc = "pay" /\ kindOf(c) = "ratchet" /\ UNCHANGED revealed
          /\ \/ Finish(c, TRUE)
             \/ /\ drain'.epoch = drain.epoch /\ drain'.members = drain.members
                /\ drain'.todo = drain.todo /\ drain'.consumed = drain.consumed
      BY <1>8, <1>t DEF AdvanceFrontier, IsNext, Drains
    <2>2. CASE Finish(c, TRUE)
      BY <1>2, <1>4, <2>1, <2>2
    <2>3. CASE /\ drain'.epoch = drain.epoch /\ drain'.members = drain.members
               /\ drain'.todo = drain.todo /\ drain'.consumed = drain.consumed
      BY <1>2, <2>1, <2>3
    <2> QED BY <2>1, <2>2, <2>3
  <1>9. CASE PayImprovement
    <2>1. /\ drain.payee \in Claims /\ kindOf(drain.payee) = "ratchet"
          /\ pc = "settlement" /\ UNCHANGED revealed
          /\ drain'.epoch = drain.epoch /\ drain'.members = drain.members
          /\ drain'.todo = drain.todo \ {drain.payee}
          /\ drain'.consumed = drain.consumed \cup {artifact_id(drain.payee)}
      BY <1>9, <1>t DEF PayImprovement, MoneyInv, ControlOK, Drains
    <2> QED BY <1>2, <2>1
  <1>10. ASSUME NEW c \in Claims, RevealCall(c) PROVE FALSE
    BY <1>10 DEF RevealCall, Enter
  <1>11. ASSUME NEW h \in Commitments, CommitCall(h) PROVE FALSE
    BY <1>11 DEF CommitCall, Enter
  <1>12. ASSUME NEW o \in Objectives, PostObjective(o) PROVE TurnsInv'
    BY <1>3, <1>12 DEF PostObjective
  <1>13. CASE \/ Tick \/ WriteBatch \/ TickReturns \/ CommitReturns
              \/ AppendClaim \/ RefuseClaim \/ AppendVerdict \/ Crash
    BY <1>13 DEF Tick, Enter, WriteBatch, TickReturns, CommitReturns,
           AppendClaim, RefuseClaim, AppendVerdict, Crash, Return
  <1>14. CASE AdvanceClock \/ UNCHANGED vars
    BY <1>3, <1>14 DEF AdvanceClock, logVars, handlerVars, vars
  <1> QED BY <1>1, <1>5, <1>6, <1>7, <1>8, <1>9, <1>10, <1>11, <1>12, <1>13,
             <1>14
          DEF Next, HandlerStep, Settle

\* What a comparison of two claims of a paid epoch reads of the log.
sameOrder(e) ==
    /\ accepted_in_epoch(e)' = accepted_in_epoch(e)
    /\ anchor_of_epoch(e)' = anchor_of_epoch(e)
    /\ \A o : artifact_ids_before(o, e)' = artifact_ids_before(o, e)

\* Nothing that decided a payment changes after it: neither the epoch's claims,
\* nor the beacon's anchor, nor the earlier artifacts.
LEMMA DecidedStays ==
    ASSUME MoneyInv, TimelyInv, [Next]_vars, NEW c \in Claims, receipts[c] > 0,
           NEW e \in Epochs, revealed[c] = e
    PROVE  revealed'[c] = e /\ sameOrder(e)
  <1>t. /\ e \in Nat /\ revealed'[c] = e
        /\ batch \in [Epochs -> SUBSET Claims]
    BY TimeGoesOn, EpochsAreNaturals DEF MoneyInv, MoneyOK, TypeOK
  <1>1. CASE AppendClaim \/ AppendVerdict
    <2>1. e < call.at /\ call.at \in Nat
      BY <1>1, BelowTheStamp, EpochsAreNaturals
      DEF TimelyInv, RevealsAreAhead
    <2>2. accepted_in_epoch(e)' = accepted_in_epoch(e)
      BY <1>1, <1>t, <2>1, BelowTheStamp
    <2>3. anchor_of_epoch(e)' = anchor_of_epoch(e)
      BY <1>1, BelowTheStamp DEF anchor_of_epoch, epoch_chain_head, drained_epochs
    <2>4. ASSUME NEW o PROVE artifact_ids_before(o, e)' = artifact_ids_before(o, e)
      <3>1. \A d \in Claims : (revealed'[d] # 0 /\ revealed'[d] < e)
                                <=> (revealed[d] # 0 /\ revealed[d] < e)
        BY <1>1, <1>t, <2>1, BelowTheStamp
      <3> QED BY <3>1 DEF artifact_ids_before, artifact_id
    <2> QED BY <1>t, <2>2, <2>3, <2>4 DEF sameOrder
  <1>2. CASE WriteBatch
    <2>1. /\ UNCHANGED <<revealed, verdict>> /\ pc = "pay"
          /\ batch' = [batch EXCEPT ![drain.epoch] = drain.members]
      BY <1>2 DEF WriteBatch
    <2>2. /\ drain.epoch \in Epochs /\ accepted_in_epoch(drain.epoch) # {}
          /\ ~epoch_is_drained(drain.epoch)
      BY <2>1, EpochsAreNaturals DEF MoneyInv, ControlOK, epoch_is_drained
    <2>3. ~(drain.epoch < e)
      BY <2>2 DEF TimelyInv, settledBelow
    <2>4. /\ {x \in drained_epochs' : x < e} = {x \in drained_epochs : x < e}
          /\ \A x \in {y \in drained_epochs : y < e} : batch'[x] = batch[x]
      BY <1>t, <2>1, <2>2, <2>3 DEF drained_epochs
    <2>5. anchor_of_epoch(e)' = anchor_of_epoch(e)
      BY <2>4 DEF anchor_of_epoch, epoch_chain_head
    <2> QED BY <1>t, <2>1, <2>5 DEF sameOrder, accepted_in_epoch, accepted,
               artifact_ids_before, artifact_id
  <1>3. CASE Quiet
    BY <1>3, <1>t DEF Quiet, sameOrder, accepted_in_epoch, accepted,
       artifact_ids_before, artifact_id, anchor_of_epoch, epoch_chain_head,
       drained_epochs
  <1> QED BY <1>1, <1>2, <1>3, EpochSteps

LEMMA BeaconStep ==
    MoneyInv /\ MoneyInv' /\ TimelyInv /\ TurnsInv /\ BeaconOrderDecides
        /\ [Next]_vars => BeaconOrderDecides'
  <1> SUFFICES ASSUME MoneyInv, MoneyInv', TimelyInv, TurnsInv,
                      BeaconOrderDecides, [Next]_vars,
                      NEW c \in Claims, NEW d \in Claims,
                      receipts'[c] > 0, c # d,
                      d \in accepted_in_epoch(revealed[c])',
                      Claim[d].objective = Claim[c].objective,
                      kindOf(c) = "plain",
                      artifact_id(d) \notin
                        artifact_ids_before(Claim[d].objective, revealed[d])'
               PROVE  precedes(revealed[c], c, d)'
    BY DEF BeaconOrderDecides, kindOf, artifact_id
  <1>t. receipts \in [Claims -> Nat] /\ revealed'[d] = revealed'[c]
    BY DEF MoneyInv, TypeOK, accepted_in_epoch
  <1>1. CASE receipts[c] > 0
    <2>0. PICK e \in Epochs : e = revealed[c]
      BY <1>1 DEF MoneyInv, MoneyOK, TypeOK
    <2>1. revealed'[c] = e /\ sameOrder(e)
      BY <1>1, <2>0, DecidedStays
    <2>2. d \in accepted_in_epoch(e)'
      BY <2>1 DEF accepted_in_epoch, accepted
    <2>3. d \in accepted_in_epoch(e)
      BY <2>1, <2>2 DEF sameOrder
    <2>4. revealed[d] = e /\ revealed'[d] = e
      BY <2>2, <2>3 DEF accepted_in_epoch
    <2>5. artifact_id(d) \notin artifact_ids_before(Claim[d].objective, e)'
      BY <2>4 DEF artifact_ids_before, artifact_id
    <2>6. artifact_id(d) \notin artifact_ids_before(Claim[d].objective, revealed[d])
      BY <2>1, <2>4, <2>5 DEF sameOrder
    <2>7. precedes(e, c, d)
      BY <1>1, <2>0, <2>3, <2>6 DEF BeaconOrderDecides
    <2>8. precedes(e, c, d)'
      BY <2>1, <2>7 DEF precedes, sameOrder
    <2> QED BY <2>1, <2>8 DEF precedes, anchor_of_epoch, drained_epochs
  <1>2. CASE ~(receipts[c] > 0)
    <2>1. SettlePlain(c)
      <3>1. ~UNCHANGED receipts
        BY <1>2
      <3>2. PICK x \in Claims : SettlePlain(x) \/ SettleUnit(x)
                                \/ (PayImprovement /\ x = drain.payee)
        <4>1. CASE PayImprovement
          BY <4>1 DEF PayImprovement, MoneyInv, ControlOK, TypeOK, Drains
        <4>2. ASSUME NEW y \in Claims,
                     AdvanceFrontier(y) \/ SettleNothing(y) \/ RevealCall(y)
              PROVE  UNCHANGED receipts
          BY <4>2 DEF AdvanceFrontier, SettleNothing, RevealCall, Enter, logVars
        <4>3. ASSUME NEW h \in Commitments, CommitCall(h) PROVE UNCHANGED receipts
          BY <4>3 DEF CommitCall, Enter, logVars
        <4>4. ASSUME NEW o \in Objectives, PostObjective(o)
              PROVE  UNCHANGED receipts
          BY <4>4 DEF PostObjective
        <4>5. ASSUME \/ Tick \/ StartBatch \/ WriteBatch \/ TickReturns
                     \/ CommitReturns \/ AppendClaim \/ RefuseClaim
                     \/ AppendVerdict \/ Crash \/ AdvanceClock \/ UNCHANGED vars
              PROVE  UNCHANGED receipts
          BY <4>5 DEF Tick, Enter, StartBatch, WriteBatch, TickReturns,
                 CommitReturns, AppendClaim, RefuseClaim, AppendVerdict, Crash,
                 AdvanceClock, logVars, vars
        <4> QED BY <3>1, <4>1, <4>2, <4>3, <4>4, <4>5
                DEF Next, HandlerStep, Settle
      <3>3. x = c
        BY <1>t, <1>2, <3>2 DEF SettlePlain, SettleUnit, PayImprovement, Pay
      <3>4. kindOf(x) = "plain"
        BY <3>3
      <3> QED BY <3>2, <3>3, <3>4
              DEF SettleUnit, PayImprovement, MoneyInv, ControlOK
    <2>2. /\ pc = "pay" /\ c \in drain.todo /\ plainPays(c)
          /\ UNCHANGED <<revealed, verdict, batch>>
          /\ \A x \in drain.todo \ {c} : precedes(drain.epoch, c, x)
      BY <2>1 DEF SettlePlain, IsNext
    <2>3. revealed[c] = drain.epoch
      BY <2>2, NextIsAdmitted
    <2>4. drain.members = accepted_in_epoch(drain.epoch)
      BY <2>2 DEF MoneyInv, ControlOK
    <2>5. d \in drain.members /\ revealed[d] = drain.epoch
      BY <2>2, <2>3, <2>4 DEF accepted_in_epoch, accepted
    <2>6. artifact_id(d) \notin
            artifact_ids_before(Claim[d].objective, drain.epoch)
      BY <2>2, <2>5 DEF artifact_ids_before, artifact_id
    <2>7. d \in drain.todo
      <3>1. ~settlement_of(Claim[d].objective)
        BY <2>2 DEF plainPays
      <3>2. kindOf(d) = "plain"
        BY DEF kindOf
      <3> QED BY <2>2, <2>5, <2>6, <3>1, <3>2 DEF TurnsInv
    <2>8. precedes(drain.epoch, c, d)
      BY <2>2, <2>7
    <2> QED BY <2>2, <2>3, <2>8 DEF precedes, anchor_of_epoch, epoch_chain_head,
                                    drained_epochs
  <1> QED BY <1>1, <1>2

\* The three invariants hold together.
OrderInv == TimelyInv /\ TurnsInv /\ BeaconOrderDecides

LEMMA OrderInit == Init => OrderInv
  <1> SUFFICES ASSUME Init PROVE OrderInv
    OBVIOUS
  <1>1. OwnStamps /\ FinalWhenPaid /\ drained_epochs = {} /\ BeaconOrderDecides
    BY DEF Init, OwnStamps, FinalWhenPaid, drained_epochs, BeaconOrderDecides
  <1>2. TimelyInv
    BY <1>1 DEF Init, TimelyInv, RevealsAreAhead
  <1>3. TurnsInv
    BY DEF Init, TurnsInv
  <1> QED BY <1>1, <1>2, <1>3 DEF OrderInv

\* The inductive invariant of the next two theorems.
LEMMA OrderInvariant ==
    ASSUME NothingSealed, SyncLag <= FinalityEpochs
    PROVE  Spec => []OrderInv
  <1>1. MoneyInv /\ MoneyInv' /\ OrderInv /\ [Next]_vars => OrderInv'
    BY TimelyStep, TurnsStep, BeaconStep DEF OrderInv
  <1> QED BY <1>1, OrderInit, MoneyInvariant, PTL DEF Spec

\* Of the claims of an epoch that compete for an objective that pays once, the
\* beacon's first is the one that was paid, whatever was appended, retried or
\* cut short since, when records arrive within the finality delay (settle_due,
\* settlement_rank, anchor_of_epoch).
THEOREM BeaconDecides ==
    ASSUME NothingSealed, SyncLag <= FinalityEpochs
    PROVE  Spec => []BeaconOrderDecides
  <1>1. OrderInv => BeaconOrderDecides
    BY DEF OrderInv
  <1> QED BY <1>1, OrderInvariant, PTL

\* No accepted claim is left behind by a later epoch that was paid first, when
\* records arrive within the finality delay (due_epochs, late_epochs).
THEOREM TimelyIsPaid ==
    ASSUME NothingSealed, SyncLag <= FinalityEpochs
    PROVE  Spec => []TimelyRecordsAreNeverLate
  <1>1. OrderInv => TimelyRecordsAreNeverLate
    <2> SUFFICES ASSUME OrderInv, NEW e \in Epochs, accepted_in_epoch(e) # {},
                        ~epoch_is_drained(e), NEW d \in drained_epochs, e <= d
                 PROVE  FALSE
      BY DEF TimelyRecordsAreNeverLate, late_epochs
    <2>1. d # e /\ d \in Nat /\ e \in Nat
      BY EpochsAreNaturals DEF epoch_is_drained, drained_epochs
    <2>2. e < d
      BY <2>1
    <2> QED BY <2>2 DEF OrderInv, TimelyInv, settledBelow
  <1> QED BY <1>1, OrderInvariant, PTL
-----------------------------------------------------------------------------
(* Two nodes settle the same batches.  What a node pays is a computation on  *)
(* its log: it is restated here as a relation on what was paid so far, the   *)
(* node's purse, in which every purse has at most one successor.             *)

\* A node's purse: the settlements, frontiers and batches of its log, and how far
\* settle_due is in paying the next one.
Purse(rc, tt, fr, bt, dr, ph) ==
    [receipts |-> rc, total |-> tt, frontier |-> fr, batch |-> bt, drain |-> dr,
     phase |-> ph]
Phase(p) == IF p \in {"pay", "settlement"} THEN p ELSE "rest"

\* A log by the epochs r of its claims and the set a of the accepted ones.
acceptedBy(r, v) == {c \in Claims : r[c] # 0 /\ v[c] = "accept"}
inEpoch(r, a, e) == {c \in a : r[c] = e}
paidEpochs(m) == {e \in Epochs : m.batch[e] # {}}
dueAt(t, r, a, m) ==
    {e \in Epochs : /\ inEpoch(r, a, e) # {} /\ e \notin paidEpochs(m)
                    /\ e + FinalityEpochs < t
                    /\ \A d \in paidEpochs(m) : d < e}
oldArtifacts(r, o, e) ==
    {artifact_id(c) : c \in
        {d \in Claims : Claim[d].objective = o /\ r[d] # 0 /\ r[d] < e}}

anchorOf(m) ==
    IF Beacon[m.drain.epoch] # NoBeacon THEN Beacon[m.drain.epoch]
    ELSE [d \in {x \in paidEpochs(m) : x < m.drain.epoch} |-> m.batch[d]]
rankOf(m, c) == Rank(m.drain.epoch, anchorOf(m), Claim[c].commitment)
takesTurn(m, c) ==
    /\ c \in m.drain.todo
    /\ \A d \in m.drain.todo \ {c} :
            rankOf(m, c) < rankOf(m, d) \/ (rankOf(m, c) = rankOf(m, d) /\ c < d)

settledBy(m, o) == {c \in Claims : Claim[c].objective = o /\ m.receipts[c] > 0}
paidUnits(m, o) ==
    UNION {unitKeys(c) : c \in
        {d \in Claims : /\ Claim[d].objective \in
                                {p \in Objectives : Objective[p].kind = "piecework"
                                        /\ Objective[p].job = Objective[o].job}
                        /\ m.receipts[d] > 0}}
novelTo(m, c) == unitKeys(c) \ (m.drain.consumed \cup paidUnits(m, Claim[c].objective))
unitsEarn(m, c) ==
    payout_for(Claim[c].objective, Cardinality(novelTo(m, c)),
               Objective[Claim[c].objective].reward - m.total[Claim[c].objective])

\* What comes of the claim whose turn it is (settle_one).
done(m, c, settled) ==
    [m.drain EXCEPT !.todo = @ \ {c}, !.consumed = @ \cup consumedBy(c, settled)]
passed(m, c, settled) ==
    Purse(m.receipts, m.total, m.frontier, m.batch, done(m, c, settled), "pay")
paidOut(m, c, reward) ==
    Purse([m.receipts EXCEPT ![c] = @ + 1],
          [m.total EXCEPT ![Claim[c].objective] = @ + reward],
          m.frontier, m.batch, done(m, c, TRUE), "pay")
moved(m, c) ==
    LET o == Claim[c].objective
        reward == payout(Objective[o].ratchet, m.frontier[o].score, Claim[c].score)
        front == [m.frontier EXCEPT ![o] =
                    [claim |-> c, score |-> Claim[c].score,
                     paid_cumulative |-> @.paid_cumulative + reward]]
    IN  IF reward > 0
        THEN Purse(m.receipts, m.total, front, m.batch,
                   [m.drain EXCEPT !.payee = c, !.owed = reward], "settlement")
        ELSE Purse(m.receipts, m.total, front, m.batch, done(m, c, TRUE), "pay")
firstAt(old, m, c) ==
    /\ artifact_id(c) \notin m.drain.consumed /\ artifact_id(c) \notin old
    /\ settledBy(m, Claim[c].objective) = {}
movesOn(m, c) ==
    /\ Claim[c].score # NoScore
    /\ improves(Objective[Claim[c].objective].ratchet,
                m.frontier[Claim[c].objective].score, Claim[c].score)
outcome(old, m, c) ==
    CASE kindOf(c) = "plain" /\ firstAt(old, m, c) ->
            paidOut(m, c, Objective[Claim[c].objective].reward)
      [] kindOf(c) = "piecework" /\ novelTo(m, c) # {} /\ unitsEarn(m, c) > 0 ->
            paidOut(m, c, unitsEarn(m, c))
      [] kindOf(c) = "ratchet" /\ movesOn(m, c) -> moved(m, c)
      [] OTHER -> passed(m, c, FALSE)

\* The steps of settle_due at time t on the log r, a.
opens(t, r, a, m, n) ==
    /\ m.phase = "rest"
    /\ \E e \in dueAt(t, r, a, m) :
        /\ \A d \in dueAt(t, r, a, m) : e <= d
        /\ n = Purse(m.receipts, m.total, m.frontier, m.batch,
                     [epoch |-> e, members |-> inEpoch(r, a, e),
                      todo |-> inEpoch(r, a, e), consumed |-> {}, payee |-> 0,
                      owed |-> 0], "pay")
pays(t, r, m, n) ==
    /\ m.phase = "pay" /\ m.drain.epoch \in Epochs
    /\ m.drain.epoch + FinalityEpochs < t
    /\ \E c \in Claims :
        /\ takesTurn(m, c)
        /\ n = outcome(oldArtifacts(r, Claim[c].objective, m.drain.epoch), m, c)
paysUp(m, n) ==
    /\ m.phase = "settlement"
    /\ n = Purse([m.receipts EXCEPT ![m.drain.payee] = @ + 1],
                 [m.total EXCEPT ![Claim[m.drain.payee].objective] = @ + m.drain.owed],
                 m.frontier, m.batch,
                 [m.drain EXCEPT !.todo = @ \ {m.drain.payee},
                                 !.consumed = @ \cup {artifact_id(m.drain.payee)},
                                 !.payee = 0, !.owed = 0], "pay")
closes(m, n) ==
    /\ m.phase = "pay" /\ m.drain.todo = {}
    /\ n = Purse(m.receipts, m.total, m.frontier,
                 [m.batch EXCEPT ![m.drain.epoch] = m.drain.members], NoDrain, "rest")
drainStep(t, r, a, m, n) ==
    opens(t, r, a, m, n) \/ pays(t, r, m, n) \/ paysUp(m, n) \/ closes(m, n)

EmptyPurse ==
    Purse([c \in Claims |-> 0], [o \in Objectives |-> 0],
          [o \in Objectives |-> NoFrontier], [e \in Epochs |-> {}], NoDrain, "rest")

\* A purse that the log, up to time t, leads to.
computes(t, r, a, n, f) ==
    /\ f[0] = EmptyPurse
    /\ \A i \in 0 .. n - 1 : drainStep(t, r, a, f[i], f[i + 1])
Traced(t, r, a, m) ==
    \E n \in Nat : \E f : computes(t, r, a, n, f) /\ f[n] = m

\* The hash of partition.rs settlement_rank is compared as a number.
RanksAreNumbers ==
    \A e \in Epochs, h \in Commitments : \A anchor : Rank(e, anchor, h) \in Int

\* A non-empty set of naturals has a least element.
LEMMA LeastNatural ==
    ASSUME NEW T, T \subseteq Nat, T # {}
    PROVE  \E x \in T : \A y \in T : x <= y
  <1>1. PICK x \in T : \A y \in T : <<y, x>> \notin OpToRel(<, Nat)
    BY WFMin, NatLessThanWellFounded
  <1>2. \A y \in T : ~(y < x)
    BY <1>1 DEF OpToRel
  <1> QED BY <1>2

\* Ranks and claim ids leave one claim to come next (settle_due sorts by both).
LEMMA OneTurn ==
    ASSUME RanksAreNumbers, NEW m, m.drain.epoch \in Epochs,
           NEW c \in Claims, NEW d \in Claims, takesTurn(m, c), takesTurn(m, d)
    PROVE  c = d
  <1> SUFFICES ASSUME c # d PROVE FALSE
    OBVIOUS
  <1>1. Claim[c].commitment \in Commitments /\ Claim[d].commitment \in Commitments
    BY ClaimAssumption
  <1>2. rankOf(m, c) \in Int /\ rankOf(m, d) \in Int
    BY <1>1 DEF RanksAreNumbers, rankOf
  <1>3. c \in Nat /\ d \in Nat
    BY ClaimAssumption
  <1> HIDE DEF rankOf
  <1>4. rankOf(m, c) < rankOf(m, d) \/ (rankOf(m, c) = rankOf(m, d) /\ c < d)
    BY DEF takesTurn
  <1>5. rankOf(m, d) < rankOf(m, c) \/ (rankOf(m, d) = rankOf(m, c) /\ d < c)
    BY DEF takesTurn
  <1> QED BY <1>2, <1>3, <1>4, <1>5

\* A purse has one successor.
LEMMA OneSuccessor ==
    ASSUME RanksAreNumbers, NEW t, NEW r, NEW a, NEW m, NEW n1, NEW n2,
           drainStep(t, r, a, m, n1), drainStep(t, r, a, m, n2)
    PROVE  n1 = n2
  <1>1. CASE m.phase = "rest"
    <2>1. opens(t, r, a, m, n1) /\ opens(t, r, a, m, n2)
      BY <1>1 DEF drainStep, pays, paysUp, closes
    <2>2. PICK e \in dueAt(t, r, a, m) :
            /\ \A d \in dueAt(t, r, a, m) : e <= d
            /\ n1 = Purse(m.receipts, m.total, m.frontier, m.batch,
                     [epoch |-> e, members |-> inEpoch(r, a, e),
                      todo |-> inEpoch(r, a, e), consumed |-> {}, payee |-> 0,
                      owed |-> 0], "pay")
      BY <2>1 DEF opens
    <2>3. PICK g \in dueAt(t, r, a, m) :
            /\ \A d \in dueAt(t, r, a, m) : g <= d
            /\ n2 = Purse(m.receipts, m.total, m.frontier, m.batch,
                     [epoch |-> g, members |-> inEpoch(r, a, g),
                      todo |-> inEpoch(r, a, g), consumed |-> {}, payee |-> 0,
                      owed |-> 0], "pay")
      BY <2>1 DEF opens
    <2>4. e \in Nat /\ g \in Nat
      BY BoundsAssumption DEF dueAt, Epochs
    <2>5. e = g
      BY <2>2, <2>3, <2>4
    <2> QED BY <2>2, <2>3, <2>5
  <1>2. CASE m.phase = "settlement"
    BY <1>2 DEF drainStep, opens, pays, closes, paysUp
  <1>3. CASE m.phase = "pay" /\ m.drain.todo = {}
    BY <1>3 DEF drainStep, opens, pays, closes, paysUp, takesTurn
  <1>4. CASE m.phase = "pay" /\ m.drain.todo # {}
    <2>1. pays(t, r, m, n1) /\ pays(t, r, m, n2)
      BY <1>4 DEF drainStep, opens, paysUp, closes
    <2>2. PICK c \in Claims : takesTurn(m, c)
                /\ n1 = outcome(oldArtifacts(r, Claim[c].objective, m.drain.epoch), m, c)
      BY <2>1 DEF pays
    <2>3. PICK d \in Claims : takesTurn(m, d)
                /\ n2 = outcome(oldArtifacts(r, Claim[d].objective, m.drain.epoch), m, d)
      BY <2>1 DEF pays
    <2>4. c = d
      BY <2>1, <2>2, <2>3, OneTurn DEF pays
    <2> QED BY <2>2, <2>3, <2>4
  <1>5. m.phase = "rest" \/ m.phase = "settlement" \/ m.phase = "pay"
    BY DEF drainStep, opens, pays, paysUp, closes
  <1> QED BY <1>1, <1>2, <1>3, <1>4, <1>5

\* Two logs that say the same of the epochs more than k below t.
Alike(k, t, r, a, q, b) ==
    \A c \in Claims : (r[c] # 0 /\ r[c] + k < t) \/ (q[c] # 0 /\ q[c] + k < t) =>
        r[c] = q[c] /\ (c \in a <=> c \in b)
Stamps == [Claims -> Epochs \cup {0}]

\* Logs that are alike give a closed epoch the same claims and past.
LEMMA SameEpoch ==
    ASSUME NEW t \in Int, NEW r \in Stamps, NEW q \in Stamps, NEW a \in SUBSET Claims,
           NEW b \in SUBSET Claims, Alike(FinalityEpochs, t, r, a, q, b),
           NEW e \in Epochs, e + FinalityEpochs < t
    PROVE  /\ inEpoch(r, a, e) = inEpoch(q, b, e)
           /\ \A o : oldArtifacts(r, o, e) = oldArtifacts(q, o, e)
  <1>1. e # 0 /\ e \in Nat /\ FinalityEpochs \in Nat
    BY BoundsAssumption DEF Epochs
  <1>2. inEpoch(r, a, e) = inEpoch(q, b, e)
    BY <1>1 DEF inEpoch, Alike
  <1>3. \A d \in Claims : r[d] \in Nat /\ q[d] \in Nat
    BY BoundsAssumption DEF Stamps, Epochs
  <1>4. \A d \in Claims : (r[d] # 0 /\ r[d] < e) <=> (q[d] # 0 /\ q[d] < e)
    BY <1>1, <1>3 DEF Alike
  <1>5. \A o : {d \in Claims : Claim[d].objective = o /\ r[d] # 0 /\ r[d] < e}
             = {d \in Claims : Claim[d].objective = o /\ q[d] # 0 /\ q[d] < e}
    BY <1>4
  <1> QED BY <1>2, <1>5 DEF oldArtifacts

\* What is paid of closed epochs does not change while the log grows.
LEMMA MovesStay ==
    ASSUME NEW t \in Int, NEW u \in Int, t <= u, NEW r \in Stamps, NEW q \in Stamps,
           NEW a \in SUBSET Claims, NEW b \in SUBSET Claims,
           Alike(FinalityEpochs, t, r, a, q, b),
           NEW m, NEW n, drainStep(t, r, a, m, n)
    PROVE  drainStep(u, q, b, m, n)
  <1> USE BoundsAssumption
  <1>1. CASE opens(t, r, a, m, n)
    <2>1. PICK e \in dueAt(t, r, a, m) :
            /\ \A d \in dueAt(t, r, a, m) : e <= d
            /\ n = Purse(m.receipts, m.total, m.frontier, m.batch,
                     [epoch |-> e, members |-> inEpoch(r, a, e),
                      todo |-> inEpoch(r, a, e), consumed |-> {}, payee |-> 0,
                      owed |-> 0], "pay")
      BY <1>1 DEF opens
    <2>2. e \in Epochs /\ e \in Int /\ e + FinalityEpochs < t
      BY DEF dueAt, Epochs
    <2>3. inEpoch(r, a, e) = inEpoch(q, b, e)
      BY <2>2, SameEpoch
    <2>4. e \in dueAt(u, q, b, m)
      BY <2>2, <2>3 DEF dueAt
    <2>5. ASSUME NEW d \in dueAt(u, q, b, m) PROVE e <= d
      <3>1. d \in Epochs /\ d \in Int
        BY DEF dueAt, Epochs
      <3>2. CASE d + FinalityEpochs < t
        <4>1. \A x \in Epochs : x + FinalityEpochs < t => inEpoch(r, a, x) = inEpoch(q, b, x)
          BY SameEpoch
        <4>2. inEpoch(r, a, d) = inEpoch(q, b, d)
          BY <3>1, <3>2, <4>1
        <4>3. d \in dueAt(t, r, a, m)
          BY <3>2, <4>2 DEF dueAt
        <4> QED BY <2>1, <4>3
      <3>3. CASE ~(d + FinalityEpochs < t)
        BY <2>2, <3>1, <3>3
      <3> QED BY <3>2, <3>3
    <2>6. opens(u, q, b, m, n)
      BY <1>1, <2>1, <2>3, <2>4, <2>5 DEF opens
    <2> QED BY <2>6 DEF drainStep
  <1>2. CASE pays(t, r, m, n)
    <2>1. m.drain.epoch \in Epochs /\ m.drain.epoch \in Int
          /\ m.drain.epoch + FinalityEpochs < t
      BY <1>2 DEF pays, Epochs
    <2>2. m.drain.epoch + FinalityEpochs < u
      BY <2>1
    <2>3. \A o : oldArtifacts(r, o, m.drain.epoch) = oldArtifacts(q, o, m.drain.epoch)
      <3>1. \A e \in Epochs : e + FinalityEpochs < t =>
                \A o : oldArtifacts(r, o, e) = oldArtifacts(q, o, e)
        BY SameEpoch
      <3> QED BY <2>1, <2>2, <3>1
    <2>4. pays(u, q, m, n)
      BY <1>2, <2>2, <2>3 DEF pays
    <2> QED BY <2>4 DEF drainStep
  <1> QED BY <1>1, <1>2 DEF drainStep

\* A purse that the log led to is one that the grown log leads to.
LEMMA TraceStays ==
    ASSUME NEW t \in Int, NEW u \in Int, t <= u, NEW r \in Stamps, NEW q \in Stamps,
           NEW a \in SUBSET Claims, NEW b \in SUBSET Claims,
           Alike(FinalityEpochs, t, r, a, q, b),
           NEW m, Traced(t, r, a, m)
    PROVE  Traced(u, q, b, m)
  <1>1a. PICK n \in Nat : \E f : computes(t, r, a, n, f) /\ f[n] = m
    BY DEF Traced
  <1>1. PICK f : computes(t, r, a, n, f) /\ f[n] = m
    BY <1>1a
  <1>2. computes(u, q, b, n, f)
    BY <1>1, MovesStay DEF computes
  <1> QED BY <1>1, <1>2 DEF Traced

\* A step of settle_due goes on from where the log led.
LEMMA TraceGrows ==
    ASSUME NEW t, NEW r, NEW a, NEW m, NEW m2, Traced(t, r, a, m),
           drainStep(t, r, a, m, m2)
    PROVE  Traced(t, r, a, m2)
  <1>1a. PICK n \in Nat : \E f : computes(t, r, a, n, f) /\ f[n] = m
    BY DEF Traced
  <1>1. PICK f : computes(t, r, a, n, f) /\ f[n] = m
    BY <1>1a
  <1> DEFINE g == [i \in 0 .. n + 1 |-> IF i = n + 1 THEN m2 ELSE f[i]]
  <1>2. g[0] = EmptyPurse /\ g[n + 1] = m2
    BY <1>1 DEF computes
  <1>3. ASSUME NEW i \in 0 .. n PROVE drainStep(t, r, a, g[i], g[i + 1])
    <2>1. CASE i = n
      BY <1>1, <2>1
    <2>2. CASE i # n
      <3>1. i \in 0 .. n - 1 /\ g[i] = f[i] /\ g[i + 1] = f[i + 1]
        BY <2>2
      <3> QED BY <1>1, <3>1 DEF computes
    <2> QED BY <2>1, <2>2
  <1> HIDE DEF g
  <1>4. computes(t, r, a, n + 1, g)
    BY <1>2, <1>3 DEF computes
  <1>5. n + 1 \in Nat
    OBVIOUS
  <1> QED BY <1>2, <1>4, <1>5 DEF Traced

\* Nothing more to pay at time t.
Finished(t, r, a, m) == m.phase = "rest" /\ dueAt(t, r, a, m) = {}

\* With nothing due, settle_due returns.
LEMMA FinishedStops ==
    ASSUME NEW t, NEW r, NEW a, NEW m, NEW n, Finished(t, r, a, m)
    PROVE  ~drainStep(t, r, a, m, n)
  BY DEF Finished, drainStep, opens, pays, paysUp, closes

\* One log leads to one result.
LEMMA OneResult ==
    ASSUME RanksAreNumbers, NEW t, NEW r, NEW a, NEW m1, NEW m2,
           Traced(t, r, a, m1), Traced(t, r, a, m2),
           Finished(t, r, a, m1), Finished(t, r, a, m2)
    PROVE  m1 = m2
  <1>1a. PICK j \in Nat : \E f : computes(t, r, a, j, f) /\ f[j] = m1
    BY DEF Traced
  <1>1. PICK f : computes(t, r, a, j, f) /\ f[j] = m1
    BY <1>1a
  <1>2a. PICK k \in Nat : \E g : computes(t, r, a, k, g) /\ g[k] = m2
    BY DEF Traced
  <1>2. PICK g : computes(t, r, a, k, g) /\ g[k] = m2
    BY <1>2a
  <1> DEFINE apart == {i \in Nat : i <= j /\ i <= k /\ f[i] # g[i]}
  <1>3. apart = {}
    <2> SUFFICES ASSUME apart # {} PROVE FALSE
      OBVIOUS
    <2>1. PICK x \in apart : \A y \in apart : x <= y
      BY LeastNatural
    <2>2. x # 0
      BY <1>1, <1>2 DEF computes
    <2>3. x - 1 \in 0 .. j - 1 /\ x - 1 \in 0 .. k - 1 /\ (x - 1) + 1 = x
      BY <2>2
    <2>4. x - 1 \in Nat /\ x - 1 <= j /\ x - 1 <= k /\ ~(x <= x - 1)
      BY <2>3
    <2>5. f[x - 1] = g[x - 1]
      BY <2>1, <2>4
    <2>6. drainStep(t, r, a, f[x - 1], f[x]) /\ drainStep(t, r, a, f[x - 1], g[x])
      BY <1>1, <1>2, <2>3, <2>5 DEF computes
    <2>7. f[x] = g[x]
      BY <2>6, OneSuccessor
    <2> QED BY <2>1, <2>7
  <1> HIDE DEF apart
  <1>4. \A i \in Nat : i <= j /\ i <= k => f[i] = g[i]
    BY <1>3 DEF apart
  <1>5. CASE j < k
    <2>1. j \in 0 .. k - 1 /\ f[j] = g[j]
      BY <1>4, <1>5
    <2>2. drainStep(t, r, a, m1, g[j + 1])
      BY <1>1, <1>2, <2>1 DEF computes
    <2> QED BY <2>2, FinishedStops
  <1>6. CASE k < j
    <2>1. k \in 0 .. j - 1 /\ f[k] = g[k]
      BY <1>4, <1>6
    <2>2. drainStep(t, r, a, m2, f[k + 1])
      BY <1>1, <1>2, <2>1 DEF computes
    <2> QED BY <2>2, FinishedStops
  <1>7. CASE j = k
    BY <1>1, <1>2, <1>4, <1>7
  <1> QED BY <1>5, <1>6, <1>7
-----------------------------------------------------------------------------
(* A node: what its log holds, its purse, and the handler that runs.         *)

Node(cm, rv, vd, ps, p, cl) ==
    [committed |-> cm, revealed |-> rv, verdict |-> vd, purse |-> ps, pc |-> p,
     call |-> cl]
nodeA == Node(committed, revealed, verdict,
              Purse(receipts, total, frontier, batch, drain, Phase(pc)), pc, call)
nodeB == Node(committedB, revealedB, verdictB,
              Purse(receiptsB, totalB, frontierB, batchB, drainB, Phase(pcB)),
              pcB, callB)

acceptedOf(x) == acceptedBy(x.revealed, x.verdict)
finishedAt(t, x) == Finished(t, x.revealed, acceptedOf(x), x.purse)

\* What commit and reveal ask of the purse and of earlier commitments, and what
\* reveal asks of the claims that a claim names.
takesCommitment(x, h) ==
    Objective[Commitment[h].objective].kind = "plain" =>
        settledBy(x.purse, Commitment[h].objective) = {}
takesClaim(t, x, c) ==
    /\ x.committed[Claim[c].commitment] # 0
    /\ x.committed[Claim[c].commitment] < t
citesFrontier(x, c) ==
    (/\ kindOf(c) = "ratchet"
     /\ x.purse.frontier[Claim[c].objective].score # NoScore)
        => x.purse.frontier[Claim[c].objective].claim \in Claim[c].cites
knowsItsReferences(x, c) ==
    /\ Claim[c].cites \subseteq acceptedOf(x)
    /\ \A d \in Claim[c].relations : x.revealed[d] # 0

\* A call of time t: a record comes at most SyncLag after the epoch it declares.
onTime(t, req) ==
    /\ req.at \in Epochs /\ req.at <= t
    /\ req.op = "commit" => /\ req.what \in Commitments
                            /\ Commitment[req.what].created_at = req.at
                            /\ t <= req.at + SyncLag
    /\ req.op = "reveal" => /\ req.what \in Claims
                            /\ Claim[req.what].created_at = req.at
                            /\ t <= req.at + SyncLag

\* The steps of a node at time t.
enters(t, x, y) ==
    /\ x.pc = "idle" /\ y.pc = "drain" /\ onTime(t, y.call)
    /\ y.committed = x.committed /\ y.revealed = x.revealed
    /\ y.verdict = x.verdict /\ y.purse = x.purse
settles(t, x, y) ==
    /\ x.pc \in {"drain", "pay", "settlement"} /\ y.pc \in {"drain", "pay", "settlement"}
    /\ drainStep(t, x.revealed, acceptedOf(x), x.purse, y.purse)
    /\ y.purse.phase = Phase(y.pc)
    /\ y.committed = x.committed /\ y.revealed = x.revealed
    /\ y.verdict = x.verdict /\ y.call = x.call
quits(x, y) ==
    /\ x.pc = "drain" /\ y.pc = "idle"
    /\ y.committed = x.committed /\ y.revealed = x.revealed
    /\ y.verdict = x.verdict /\ y.purse = x.purse
commits(x, y) ==
    /\ x.pc = "drain" /\ y.pc = "idle" /\ x.call.op = "commit"
    /\ x.committed[x.call.what] = 0
    /\ y.committed = [x.committed EXCEPT ![x.call.what] = x.call.at]
    /\ y.revealed = x.revealed /\ y.verdict = x.verdict /\ y.purse = x.purse
reveals(x, y) ==
    /\ x.pc = "drain" /\ y.pc = "verdict" /\ x.call.op = "reveal"
    /\ takesClaim(x.call.at, x, x.call.what) /\ knowsItsReferences(x, x.call.what)
    /\ y.revealed = IF x.revealed[x.call.what] = 0
                    THEN [x.revealed EXCEPT ![x.call.what] = x.call.at] ELSE x.revealed
    /\ y.call = x.call
    /\ y.committed = x.committed /\ y.verdict = x.verdict /\ y.purse = x.purse
judges(x, y) ==
    /\ x.pc = "verdict" /\ y.pc = "idle"
    /\ y.verdict = [x.verdict EXCEPT ![x.call.what] = Claim[x.call.what].judge]
    /\ y.committed = x.committed /\ y.revealed = x.revealed /\ y.purse = x.purse
nodeStep(t, x, y) ==
    \/ enters(t, x, y) \/ settles(t, x, y) \/ quits(x, y) \/ commits(x, y)
    \/ reveals(x, y) \/ judges(x, y)

\* What each log and handler look like at time t.
DrainShape(d) ==
    d = [f \in {"epoch", "members", "todo", "consumed", "payee", "owed"} |-> d[f]]
PurseShape(m) ==
    /\ m.batch = [e \in Epochs |-> m.batch[e]]
    /\ DrainShape(m.drain)
Shaped(x) ==
    /\ x.pc \in {"idle", "drain", "pay", "settlement", "verdict"}
    /\ x.purse.phase = Phase(x.pc) /\ PurseShape(x.purse)
    /\ x.committed \in [Commitments -> Epochs \cup {0}]
    /\ x.revealed \in Stamps
    /\ x.verdict \in [Claims -> {"none", "accept", "reject"}]
Stamped(t, x) ==
    /\ \A h \in Commitments : x.committed[h] # 0 =>
            x.committed[h] = Commitment[h].created_at /\ x.committed[h] <= t
    /\ \A c \in Claims : x.revealed[c] # 0 =>
            x.revealed[c] = Claim[c].created_at /\ x.revealed[c] <= t
Judged(x) ==
    \A c \in Claims :
        /\ x.revealed[c] = 0 => x.verdict[c] = "none"
        /\ x.verdict[c] # "none" => x.verdict[c] = Claim[c].judge
        /\ x.revealed[c] # 0 /\ ~(x.pc = "verdict" /\ x.call.what = c) =>
                x.verdict[c] = Claim[c].judge
Calling(t, x) ==
    /\ x.pc # "idle" => onTime(t, x.call)
    /\ x.pc = "verdict" => /\ x.call.op = "reveal"
                           /\ x.revealed[x.call.what] = x.call.at
Timed(t, x) ==
    /\ \A e \in paidEpochs(x.purse) : e + FinalityEpochs < t
    /\ x.purse.phase # "rest" =>
            x.purse.drain.epoch \in Epochs /\ x.purse.drain.epoch + FinalityEpochs < t
\* A claim was taken after its commitment, which is there for good.
Backed(x) ==
    \A c \in Claims : x.revealed[c] # 0 => takesClaim(x.revealed[c], x, c)
\* The claims came one after the other: some claim of any set of them names
\* nothing in the set.
revealedBy(x) == {c \in Claims : x.revealed[c] # 0}
InTurn(x) ==
    \A S \in SUBSET revealedBy(x) : S # {} =>
        \E c \in S : /\ knowsItsReferences(x, c)
                     /\ Claim[c].cites \cap S = {} /\ Claim[c].relations \cap S = {}
NodeOK(t, x) ==
    /\ Shaped(x) /\ Stamped(t, x) /\ Judged(x) /\ Calling(t, x) /\ Timed(t, x)
    /\ Backed(x) /\ InTurn(x)
    /\ Traced(t, x.revealed, acceptedOf(x), x.purse)

\* Serving a claim stays within its batch.
LEMMA OutcomeKeeps ==
    ASSUME NEW old, NEW m, NEW c, PurseShape(m)
    PROVE  /\ outcome(old, m, c).batch = m.batch
           /\ outcome(old, m, c).drain.epoch = m.drain.epoch
           /\ outcome(old, m, c).phase # "rest"
           /\ PurseShape(outcome(old, m, c))
  <1>0. DrainShape(m.drain)
    BY DEF PurseShape
  <1>1. \A s : done(m, c, s).epoch = m.drain.epoch /\ DrainShape(done(m, c, s))
    BY <1>0 DEF done, DrainShape
  <1>2. \A w : LET d == [m.drain EXCEPT !.payee = c, !.owed = w]
               IN  d.epoch = m.drain.epoch /\ DrainShape(d)
    BY <1>0 DEF DrainShape
  <1>3. ASSUME NEW rc, NEW tt, NEW fr, NEW d, NEW ph \in {"pay", "settlement"},
               d.epoch = m.drain.epoch, DrainShape(d)
        PROVE  LET n == Purse(rc, tt, fr, m.batch, d, ph)
               IN  /\ n.batch = m.batch /\ n.drain.epoch = m.drain.epoch
                   /\ n.phase # "rest" /\ PurseShape(n)
    BY <1>3 DEF Purse, PurseShape
  <1>4. \A s : LET n == passed(m, c, s) IN
            /\ n.batch = m.batch /\ n.drain.epoch = m.drain.epoch
            /\ n.phase # "rest" /\ PurseShape(n)
    BY <1>1, <1>3 DEF passed
  <1>5. \A w : LET n == paidOut(m, c, w) IN
            /\ n.batch = m.batch /\ n.drain.epoch = m.drain.epoch
            /\ n.phase # "rest" /\ PurseShape(n)
    BY <1>1, <1>3 DEF paidOut
  <1>6. LET n == moved(m, c) IN
            /\ n.batch = m.batch /\ n.drain.epoch = m.drain.epoch
            /\ n.phase # "rest" /\ PurseShape(n)
    <2> DEFINE o == Claim[c].objective
               w == payout(Objective[o].ratchet, m.frontier[o].score, Claim[c].score)
               fr == [m.frontier EXCEPT ![o] =
                        [claim |-> c, score |-> Claim[c].score,
                         paid_cumulative |-> @.paid_cumulative + w]]
    <2>1. \/ moved(m, c) = Purse(m.receipts, m.total, fr, m.batch,
                   [m.drain EXCEPT !.payee = c, !.owed = w], "settlement")
          \/ moved(m, c) = Purse(m.receipts, m.total, fr, m.batch,
                                 done(m, c, TRUE), "pay")
      BY DEF moved
    <2> HIDE DEF o, w, fr
    <2> DEFINE d == [m.drain EXCEPT !.payee = c, !.owed = w]
               e == done(m, c, TRUE)
    <2>2. d.epoch = m.drain.epoch /\ DrainShape(d)
      BY <1>2
    <2>3. e.epoch = m.drain.epoch /\ DrainShape(e)
      BY <1>1
    <2>4. moved(m, c) = Purse(m.receipts, m.total, fr, m.batch, d, "settlement")
          \/ moved(m, c) = Purse(m.receipts, m.total, fr, m.batch, e, "pay")
      BY <2>1
    <2> HIDE DEF d, e
    <2> QED BY <1>3, <2>2, <2>3, <2>4
  <1> QED BY <1>4, <1>5, <1>6 DEF outcome

\* What a step of settle_due leaves of the purse's shape and its times.
LEMMA MovesKeep ==
    ASSUME NEW t \in Int, NEW r, NEW a, NEW m, NEW n, PurseShape(m),
           drainStep(t, r, a, m, n),
           \A e \in paidEpochs(m) : e + FinalityEpochs < t,
           m.phase # "rest" =>
                m.drain.epoch \in Epochs /\ m.drain.epoch + FinalityEpochs < t
    PROVE  /\ PurseShape(n)
           /\ \A e \in paidEpochs(n) : e + FinalityEpochs < t
           /\ n.phase # "rest" =>
                n.drain.epoch \in Epochs /\ n.drain.epoch + FinalityEpochs < t
  <1>1. CASE opens(t, r, a, m, n)
    <2>1. PICK e \in dueAt(t, r, a, m) :
            n = Purse(m.receipts, m.total, m.frontier, m.batch,
                     [epoch |-> e, members |-> inEpoch(r, a, e),
                      todo |-> inEpoch(r, a, e), consumed |-> {}, payee |-> 0,
                      owed |-> 0], "pay")
      BY <1>1 DEF opens
    <2>2. n.batch = m.batch /\ n.drain.epoch = e
      BY <2>1 DEF Purse
    <2>3. DrainShape(n.drain)
      BY <2>1 DEF Purse, DrainShape
    <2> QED BY <2>2, <2>3 DEF dueAt, PurseShape, paidEpochs
  <1>2. CASE pays(t, r, m, n)
    BY <1>2, OutcomeKeeps DEF pays, paidEpochs
  <1>3. CASE paysUp(m, n)
    <2>1. n.drain = [m.drain EXCEPT !.todo = @ \ {m.drain.payee},
                                    !.consumed = @ \cup {artifact_id(m.drain.payee)},
                                    !.payee = 0, !.owed = 0]
          /\ n.batch = m.batch /\ n.phase = "pay"
      BY <1>3 DEF paysUp, Purse
    <2>2. n.drain.epoch = m.drain.epoch /\ DrainShape(n.drain)
      BY <2>1 DEF PurseShape, DrainShape
    <2> QED BY <1>3, <2>1, <2>2 DEF paysUp, PurseShape, paidEpochs
  <1>4. CASE closes(m, n)
    <2>1. n.batch = [m.batch EXCEPT ![m.drain.epoch] = m.drain.members]
          /\ n.drain = NoDrain /\ n.phase = "rest"
      BY <1>4 DEF closes, Purse
    <2>2. PurseShape(n)
      BY <2>1 DEF PurseShape, DrainShape, NoDrain
    <2>3. \A e \in Epochs : e # m.drain.epoch => n.batch[e] = m.batch[e]
      BY <2>1 DEF PurseShape
    <2> QED BY <1>4, <2>1, <2>2, <2>3 DEF closes, paidEpochs
  <1> QED BY <1>1, <1>2, <1>3, <1>4 DEF drainStep

\* A log that agrees up to a lag agrees up to a longer one.
LEMMA AlikeLonger ==
    ASSUME SyncLag <= FinalityEpochs, NEW t \in Int, NEW r \in Stamps, NEW q \in Stamps,
           NEW a, NEW b, Alike(SyncLag, t, r, a, q, b)
    PROVE  Alike(FinalityEpochs, t, r, a, q, b)
  <1>1. \A c \in Claims : r[c] \in Nat /\ q[c] \in Nat
    BY BoundsAssumption DEF Stamps, Epochs
  <1>2. \A i \in Nat : i + FinalityEpochs < t => i + SyncLag < t
    BY BoundsAssumption
  <1> QED BY <1>1, <1>2 DEF Alike

\* The claims whose time of delivery is over are not touched any more.
LEMMA PastStays ==
    ASSUME NEW t \in Epochs, NEW x, NEW y, NodeOK(t, x), nodeStep(t, x, y)
    PROVE  Alike(SyncLag, t, x.revealed, acceptedOf(x), y.revealed, acceptedOf(y))
  <1> USE BoundsAssumption DEF NodeOK, Shaped
  <1>1. ASSUME y.revealed = x.revealed, y.verdict = x.verdict
        PROVE  Alike(SyncLag, t, x.revealed, acceptedOf(x), y.revealed, acceptedOf(y))
    BY <1>1 DEF Alike, acceptedOf
  <1>2. CASE reveals(x, y)
    <2>1. /\ x.call.what \in Claims /\ x.call.at \in Epochs
          /\ t <= x.call.at + SyncLag
      BY <1>2 DEF reveals, Calling, onTime
    <2>2. \A c \in Claims : y.revealed[c] = x.revealed[c]
                \/ (c = x.call.what /\ x.revealed[c] = 0 /\ y.revealed[c] = x.call.at)
      BY <1>2, <2>1 DEF reveals, Stamps
    <2>3. /\ y.verdict = x.verdict /\ t \in Nat /\ x.call.at \in Nat
          /\ ~(x.call.at + SyncLag < t)
      BY <1>2, <2>1 DEF reveals, Epochs
    <2> QED BY <2>2, <2>3 DEF Alike, acceptedOf, acceptedBy
  <1>3. CASE judges(x, y)
    <2>1. /\ x.call.what \in Claims /\ x.revealed[x.call.what] = x.call.at
          /\ x.call.at \in Epochs /\ t <= x.call.at + SyncLag
      BY <1>3 DEF judges, Calling, onTime
    <2>2. \A c \in Claims : y.verdict[c] = x.verdict[c] \/ x.revealed[c] = x.call.at
      BY <1>3, <2>1 DEF judges
    <2>3. /\ y.revealed = x.revealed /\ t \in Nat /\ x.call.at \in Nat
          /\ ~(x.call.at + SyncLag < t)
      BY <1>3, <2>1 DEF judges, Epochs
    <2> QED BY <2>2, <2>3 DEF Alike, acceptedOf, acceptedBy
  <1> QED BY <1>1, <1>2, <1>3 DEF nodeStep, enters, settles, quits, commits

\* What comes in later epochs makes nothing due now.
LEMMA StillFinished ==
    ASSUME NEW t \in Epochs, NEW r \in Stamps, NEW q \in Stamps, NEW a \in SUBSET Claims,
           NEW b \in SUBSET Claims, Alike(FinalityEpochs, t, r, a, q, b), NEW m,
           Finished(t, r, a, m)
    PROVE  Finished(t, q, b, m)
  <1> USE BoundsAssumption
  <1>1. t \in Int
    BY DEF Epochs
  <1>2. ASSUME NEW e \in dueAt(t, q, b, m) PROVE FALSE
    <2>1. e \in Epochs /\ e + FinalityEpochs < t /\ e \in Nat
      BY <1>1 DEF dueAt, Epochs
    <2>2. inEpoch(r, a, e) = inEpoch(q, b, e)
      BY <1>1, <2>1, SameEpoch
    <2>3. e \in dueAt(t, r, a, m)
      BY <2>1, <2>2 DEF dueAt
    <2> QED BY <2>3 DEF Finished
  <1> QED BY <1>2 DEF Finished

\* Accepted claims are claims.
LEMMA AcceptedAreClaims == \A x : acceptedOf(x) \in SUBSET Claims
  BY DEF acceptedOf, acceptedBy

\* Each part of NodeOK is kept by a step of the node.
LEMMA ShapeStep ==
    ASSUME NEW t \in Epochs, NEW x, NEW y, NodeOK(t, x), nodeStep(t, x, y)
    PROVE  Shaped(y) /\ Timed(t, y)
  <1> USE BoundsAssumption DEF NodeOK
  <1>0. t \in Int
    BY DEF Epochs
  <1>1. CASE settles(t, x, y)
    <2>1. drainStep(t, x.revealed, acceptedOf(x), x.purse, y.purse)
          /\ PurseShape(x.purse)
      BY <1>1 DEF settles, Shaped
    <2>2. /\ PurseShape(y.purse)
          /\ \A e \in paidEpochs(y.purse) : e + FinalityEpochs < t
          /\ y.purse.phase # "rest" =>
                y.purse.drain.epoch \in Epochs /\ y.purse.drain.epoch + FinalityEpochs < t
      BY <1>0, <2>1, MovesKeep DEF Timed
    <2> QED BY <1>1, <2>2 DEF settles, Shaped, Timed
  <1>2. CASE reveals(x, y)
    BY <1>2 DEF reveals, Shaped, Timed, Phase, Stamps, Calling, onTime
  <1>3. CASE judges(x, y)
    <2>1. Claim[x.call.what].judge \in {"accept", "reject"}
      BY <1>3, ClaimAssumption DEF judges, Calling, onTime
    <2> QED BY <1>3, <2>1 DEF judges, Shaped, Timed, Phase
  <1>4. CASE commits(x, y)
    BY <1>4 DEF commits, Shaped, Timed, Phase, Calling, onTime
  <1>5. CASE enters(t, x, y) \/ quits(x, y)
    BY <1>5 DEF enters, quits, Shaped, Timed, Phase
  <1> QED BY <1>1, <1>2, <1>3, <1>4, <1>5 DEF nodeStep

\* Records keep the epoch they declare, and a call its own.
LEMMA StampStep ==
    ASSUME NEW t \in Epochs, NEW x, NEW y, NodeOK(t, x), nodeStep(t, x, y)
    PROVE  Stamped(t, y) /\ Calling(t, y)
  <1> USE BoundsAssumption DEF NodeOK
  <1>0. t \in Nat /\ t # 0
    BY DEF Epochs
  <1>1. CASE settles(t, x, y)
    BY <1>1 DEF settles, Stamped, Calling
  <1>2. CASE reveals(x, y)
    <2>1. /\ x.call.what \in Claims /\ Claim[x.call.what].created_at = x.call.at
          /\ x.call.at \in Epochs /\ x.call.at <= t
      BY <1>2 DEF reveals, Calling, onTime
    <2>2. \A c \in Claims : y.revealed[c] = x.revealed[c]
                \/ (c = x.call.what /\ y.revealed[c] = x.call.at)
      BY <1>2, <2>1 DEF reveals, Shaped, Stamps
    <2>3. y.revealed[x.call.what] = x.call.at
      BY <1>2, <2>1 DEF reveals, Shaped, Stamps, Stamped
    <2>4. Stamped(t, y)
      BY <1>2, <2>1, <2>2 DEF reveals, Stamped
    <2> QED BY <1>2, <2>3, <2>4 DEF reveals, Calling
  <1>3. CASE judges(x, y)
    BY <1>3 DEF judges, Stamped, Calling
  <1>4. CASE commits(x, y)
    <2>1. /\ x.call.what \in Commitments
          /\ Commitment[x.call.what].created_at = x.call.at /\ x.call.at <= t
      BY <1>4 DEF commits, Calling, onTime
    <2>2. \A h \in Commitments : y.committed[h] = x.committed[h]
                \/ (h = x.call.what /\ y.committed[h] = x.call.at)
      BY <1>4, <2>1 DEF commits, Shaped
    <2> QED BY <1>4, <2>1, <2>2 DEF commits, Stamped, Calling
  <1>5. CASE enters(t, x, y)
    BY <1>5 DEF enters, Stamped, Calling
  <1>6. CASE quits(x, y)
    BY <1>6 DEF quits, Stamped, Calling
  <1> QED BY <1>1, <1>2, <1>3, <1>4, <1>5, <1>6 DEF nodeStep

\* A verdict is what the pinned verifier says.
LEMMA VerdictsKept ==
    ASSUME NEW t \in Epochs, NEW x, NEW y, NodeOK(t, x), nodeStep(t, x, y)
    PROVE  Judged(y)
  <1> USE BoundsAssumption DEF NodeOK
  <1>2. CASE reveals(x, y)
    <2>1. x.call.what \in Claims /\ y.verdict = x.verdict /\ y.call = x.call
          /\ y.pc = "verdict" /\ x.pc = "drain" /\ x.call.at # 0
      BY <1>2 DEF reveals, Calling, onTime, Epochs
    <2>2. \A c \in Claims : y.revealed[c] = x.revealed[c]
                \/ (c = x.call.what /\ y.revealed[c] = x.call.at)
      BY <1>2, <2>1 DEF reveals, Shaped, Stamps
    <2> QED BY <2>1, <2>2 DEF Judged
  <1>3. CASE judges(x, y)
    <2>1. x.call.what \in Claims /\ x.revealed[x.call.what] = x.call.at /\ x.call.at # 0
      BY <1>3 DEF judges, Calling, onTime, Epochs
    <2>2. \A c \in Claims : y.verdict[c] =
                IF c = x.call.what THEN Claim[c].judge ELSE x.verdict[c]
      BY <1>3, <2>1 DEF judges, Shaped
    <2>3. y.revealed = x.revealed /\ y.pc = "idle"
      BY <1>3 DEF judges
    <2> QED BY <2>1, <2>2, <2>3 DEF Judged
  <1>4. CASE settles(t, x, y) \/ commits(x, y) \/ enters(t, x, y) \/ quits(x, y)
    <2>1. y.revealed = x.revealed /\ y.verdict = x.verdict /\ x.pc # "verdict"
      BY <1>4 DEF settles, commits, enters, quits
    <2> QED BY <2>1 DEF Judged
  <1> QED BY <1>2, <1>3, <1>4 DEF nodeStep

\* A commitment stays, and with it what it backs.
LEMMA BackedStep ==
    ASSUME NEW t \in Epochs, NEW x, NEW y, NodeOK(t, x), nodeStep(t, x, y)
    PROVE  Backed(y)
  <1> USE BoundsAssumption DEF NodeOK
  <1>1. CASE reveals(x, y)
    <2>1. x.call.what \in Claims /\ y.committed = x.committed
          /\ takesClaim(x.call.at, x, x.call.what)
      BY <1>1 DEF reveals, Calling, onTime
    <2>2. \A c \in Claims : y.revealed[c] = x.revealed[c]
                \/ (c = x.call.what /\ y.revealed[c] = x.call.at)
      BY <1>1, <2>1 DEF reveals, Shaped, Stamps
    <2>3. \A u, c : takesClaim(u, x, c) => takesClaim(u, y, c)
      BY <2>1 DEF takesClaim
    <2> QED BY <2>1, <2>2, <2>3 DEF Backed
  <1>2. CASE commits(x, y)
    <2>1. x.call.what \in Commitments /\ y.revealed = x.revealed
      BY <1>2 DEF commits, Calling, onTime
    <2>2. \A h \in Commitments : x.committed[h] # 0 => y.committed[h] = x.committed[h]
      BY <1>2, <2>1 DEF commits, Shaped
    <2>3. \A c \in Claims : Claim[c].commitment \in Commitments
      BY ClaimAssumption
    <2> QED BY <2>1, <2>2, <2>3 DEF Backed, takesClaim
  <1>3. CASE settles(t, x, y) \/ enters(t, x, y) \/ quits(x, y) \/ judges(x, y)
    <2>1. y.committed = x.committed /\ y.revealed = x.revealed
      BY <1>3 DEF settles, enters, quits, judges
    <2> QED BY <2>1 DEF Backed, takesClaim
  <1> QED BY <1>1, <1>2, <1>3 DEF nodeStep

\* A claim comes after what it names.
LEMMA TurnStep ==
    ASSUME NEW t \in Epochs, NEW x, NEW y, NodeOK(t, x), nodeStep(t, x, y)
    PROVE  InTurn(y)
  <1> USE BoundsAssumption DEF NodeOK
  <1>1. CASE reveals(x, y) /\ x.revealed[x.call.what] = 0
    <2> DEFINE k == x.call.what
    <2>1. k \in Claims /\ y.verdict = x.verdict /\ x.verdict[k] = "none"
          /\ x.call.at # 0
      BY <1>1 DEF reveals, Calling, onTime, Judged, Epochs
    <2>2. \A c \in Claims : y.revealed[c] = IF c = k THEN x.call.at ELSE x.revealed[c]
      BY <1>1, <2>1 DEF reveals, Shaped, Stamps
    <2>3. acceptedOf(y) = acceptedOf(x) /\ k \notin acceptedOf(x)
      BY <1>1, <2>1, <2>2 DEF acceptedOf, acceptedBy
    <2>4. knowsItsReferences(x, k)
      BY <1>1 DEF reveals
    <2>5. \A c \in Claims : Claim[c].relations \subseteq Claims
      BY ClaimAssumption
    <2>6. \A c \in Claims : knowsItsReferences(x, c) =>
                /\ knowsItsReferences(y, c)
                /\ k \notin Claim[c].cites /\ k \notin Claim[c].relations
      BY <1>1, <2>1, <2>2, <2>3, <2>5 DEF knowsItsReferences
    <2> HIDE DEF k
    <2> SUFFICES ASSUME NEW S \in SUBSET revealedBy(y), S # {}
                 PROVE  \E c \in S : /\ knowsItsReferences(y, c)
                                     /\ Claim[c].cites \cap S = {}
                                     /\ Claim[c].relations \cap S = {}
      BY DEF InTurn
    <2>7. CASE S \ {k} = {}
      <3>1. S = {k}
        BY <2>7
      <3> QED BY <2>1, <2>4, <2>6, <3>1
    <2>8. CASE S \ {k} # {}
      <3>1. S \ {k} \in SUBSET revealedBy(x)
        BY <2>2 DEF revealedBy
      <3>2. PICK c \in S \ {k} : /\ knowsItsReferences(x, c)
                                 /\ Claim[c].cites \cap (S \ {k}) = {}
                                 /\ Claim[c].relations \cap (S \ {k}) = {}
        BY <2>8, <3>1 DEF InTurn
      <3>3. c \in Claims
        BY DEF revealedBy
      <3> QED BY <2>6, <3>2, <3>3
    <2> QED BY <2>7, <2>8
  <1>2. ASSUME y.revealed = x.revealed, acceptedOf(x) \subseteq acceptedOf(y)
        PROVE  InTurn(y)
    <2>1. \A c : knowsItsReferences(x, c) => knowsItsReferences(y, c)
      BY <1>2 DEF knowsItsReferences
    <2>2. revealedBy(y) = revealedBy(x)
      BY <1>2 DEF revealedBy
    <2> QED BY <2>1, <2>2 DEF InTurn
  <1>3. CASE judges(x, y)
    <2>1. x.call.what \in Claims /\ y.revealed = x.revealed
      BY <1>3 DEF judges, Calling, onTime
    <2>2. \A c \in Claims : y.verdict[c] =
                IF c = x.call.what THEN Claim[c].judge ELSE x.verdict[c]
      BY <1>3, <2>1 DEF judges, Shaped
    <2>3. acceptedOf(x) \subseteq acceptedOf(y)
      BY <2>1, <2>2 DEF acceptedOf, acceptedBy, Judged
    <2> QED BY <1>2, <2>1, <2>3
  <1>4. CASE reveals(x, y) /\ x.revealed[x.call.what] # 0
    <2>1. y.revealed = x.revealed /\ y.verdict = x.verdict
      BY <1>4 DEF reveals
    <2> QED BY <1>2, <2>1 DEF acceptedOf
  <1>5. CASE settles(t, x, y) \/ commits(x, y) \/ enters(t, x, y) \/ quits(x, y)
    <2>1. y.revealed = x.revealed /\ y.verdict = x.verdict
      BY <1>5 DEF settles, commits, enters, quits
    <2> QED BY <1>2, <2>1 DEF acceptedOf
  <1> QED BY <1>1, <1>3, <1>4, <1>5 DEF nodeStep

\* All of it, and that the purse is what the log led to.
LEMMA NodeStepKeeps ==
    ASSUME SyncLag <= FinalityEpochs, NEW t \in Epochs, NEW x, NEW y, NodeOK(t, x),
           nodeStep(t, x, y)
    PROVE  NodeOK(t, y)
  <1>0. t \in Int /\ t <= t
    BY BoundsAssumption DEF Epochs
  <1>1. x.revealed \in Stamps /\ y.revealed \in Stamps
    BY ShapeStep DEF NodeOK, Shaped
  <1>2. Traced(t, x.revealed, acceptedOf(x), x.purse)
    BY DEF NodeOK
  <1>3. Traced(t, y.revealed, acceptedOf(y), y.purse)
    <2>1. CASE settles(t, x, y)
      <3>1. y.revealed = x.revealed /\ acceptedOf(y) = acceptedOf(x)
        BY <2>1 DEF settles, acceptedOf
      <3> QED BY <1>2, <2>1, <3>1, TraceGrows DEF settles
    <2>2. CASE ~settles(t, x, y)
      <3>1. y.purse = x.purse
        BY <2>2 DEF nodeStep, enters, quits, commits, reveals, judges
      <3>2. Alike(FinalityEpochs, t, x.revealed, acceptedOf(x), y.revealed, acceptedOf(y))
        BY <1>0, <1>1, PastStays, AlikeLonger
      <3>3. Traced(t, y.revealed, acceptedOf(y), x.purse)
        BY <1>0, <1>1, <1>2, <3>2, TraceStays, AcceptedAreClaims
      <3> QED BY <3>1, <3>3
    <2> QED BY <2>1, <2>2
  <1> QED BY <1>3, ShapeStep, StampStep, VerdictsKept, BackedStep, TurnStep DEF NodeOK

\* Two nodes whose logs say the same of the epochs whose records have come.
Agreed(t, x, y) ==
    /\ Alike(SyncLag, t, x.revealed, acceptedOf(x), y.revealed, acceptedOf(y))
    /\ \A h \in Commitments :
        (x.committed[h] # 0 /\ x.committed[h] + SyncLag < t)
        \/ (y.committed[h] # 0 /\ y.committed[h] + SyncLag < t) =>
                x.committed[h] = y.committed[h]

\* Agreement has two sides.
LEMMA AgreedSymmetric ==
    ASSUME NEW t, NEW x, NEW y, Agreed(t, x, y)
    PROVE  Agreed(t, y, x)
  BY DEF Agreed, Alike

\* With nothing left to pay, they have paid the same.
LEMMA SamePurse ==
    ASSUME RanksAreNumbers, SyncLag <= FinalityEpochs, NEW t \in Epochs, NEW x, NEW y,
           NodeOK(t, x), NodeOK(t, y), Agreed(t, x, y), finishedAt(t, x), finishedAt(t, y)
    PROVE  x.purse = y.purse
  <1>0. t \in Int /\ t <= t
    BY BoundsAssumption DEF Epochs
  <1>1. x.revealed \in Stamps /\ y.revealed \in Stamps
    BY DEF NodeOK, Shaped
  <1>2. Alike(FinalityEpochs, t, y.revealed, acceptedOf(y), x.revealed, acceptedOf(x))
    BY <1>0, <1>1, AgreedSymmetric, AlikeLonger DEF Agreed
  <1>3. Traced(t, y.revealed, acceptedOf(y), y.purse)
        /\ Traced(t, x.revealed, acceptedOf(x), x.purse)
    BY DEF NodeOK
  <1>4. Traced(t, x.revealed, acceptedOf(x), y.purse)
    BY <1>0, <1>1, <1>2, <1>3, TraceStays, AcceptedAreClaims
  <1>5. Finished(t, x.revealed, acceptedOf(x), y.purse)
    BY <1>1, <1>2, StillFinished, AcceptedAreClaims DEF finishedAt
  <1> QED BY <1>3, <1>4, <1>5, OneResult DEF finishedAt

\* What a node does now does not touch what the two agree on.
LEMMA AgreedStep ==
    ASSUME NEW t \in Epochs, NEW x, NEW y, NEW z, NodeOK(t, x), Agreed(t, x, y),
           nodeStep(t, x, z)
    PROVE  Agreed(t, z, y)
  <1>1. Alike(SyncLag, t, z.revealed, acceptedOf(z), y.revealed, acceptedOf(y))
    BY PastStays DEF Agreed, Alike
  <1>3. CASE commits(x, z)
    <2>1. x.call.what \in Commitments /\ x.call.at \in Nat /\ t \in Nat
          /\ ~(x.call.at + SyncLag < t)
      BY <1>3, BoundsAssumption DEF commits, Calling, onTime, NodeOK, Epochs
    <2>2. \A h \in Commitments :
            \/ z.committed[h] = x.committed[h]
            \/ x.committed[h] = 0 /\ z.committed[h] = x.call.at
      BY <1>3, <2>1 DEF commits, Shaped, NodeOK
    <2> QED BY <1>1, <2>1, <2>2 DEF Agreed
  <1>4. CASE z.committed = x.committed
    BY <1>1, <1>4 DEF Agreed
  <1> QED BY <1>3, <1>4 DEF nodeStep, enters, settles, quits, reveals, judges

\* The records of x whose time is over have reached y: y holds them or has no
\* use for them.
passedOn(t, x, y) ==
    /\ \A h \in Commitments :
        Commitment[h].created_at + SyncLag <= t /\ x.committed[h] # 0 =>
            y.committed[h] # 0 \/ ~takesCommitment(y, h)
    /\ \A c \in Claims :
        Claim[c].created_at + SyncLag <= t /\ x.revealed[c] # 0 =>
            \/ y.revealed[c] # 0
            \/ ~ /\ takesClaim(Claim[c].created_at, y, c) /\ citesFrontier(y, c)
                 /\ Claim[c].created_at \notin paidEpochs(y.purse)
                 /\ knowsItsReferences(y, c)

\* The rules that read the settled state refused y a record of x.
refusedTo(t, x, y) ==
    \/ \E h \in Commitments :
        /\ Commitment[h].created_at + SyncLag < t
        /\ Objective[Commitment[h].objective].kind = "plain"
        /\ x.committed[h] # 0 /\ y.committed[h] = 0
    \/ \E c \in Claims :
        /\ Claim[c].created_at + SyncLag < t
        /\ kindOf(c) = "ratchet"
        /\ x.revealed[c] # 0 /\ y.revealed[c] = 0

\* A record that one node took reaches the other as late as the finality delay
\* and names none that was made after it; nothing is sealed and verifiers run.
Prompt ==
    /\ SyncLag <= FinalityEpochs /\ MaxOutages = 0
    /\ \A h \in Commitments : ~Commitment[h].sealed
    /\ \A c \in Claims : \A d \in Claim[c].cites \cup Claim[c].relations :
            Claim[d].created_at <= Claim[c].created_at

\* A commitment that one node took is one the other takes.
LEMMA CommitmentsCaughtUp ==
    ASSUME NEW t \in Epochs, NEW x, NEW y, NodeOK(t, x), NodeOK(t, y),
           passedOn(t, x, y), ~refusedTo(t + 1, x, y),
           NEW h \in Commitments, x.committed[h] # 0, x.committed[h] + SyncLag < t + 1
    PROVE  y.committed[h] = x.committed[h]
  <1>1. x.committed[h] = Commitment[h].created_at
    BY DEF NodeOK, Stamped
  <1>2. Commitment[h].created_at \in Nat /\ t \in Nat /\ SyncLag \in Nat
    BY BoundsAssumption, CommitmentAssumption DEF Epochs
  <1>3. Commitment[h].created_at + SyncLag <= t
    BY <1>1, <1>2
  <1>4. CASE y.committed[h] = 0
    <2>1. ~takesCommitment(y, h)
      BY <1>3, <1>4 DEF passedOn
    <2> QED BY <1>1, <1>4, <2>1 DEF takesCommitment, refusedTo
  <1> QED BY <1>1, <1>4 DEF NodeOK, Stamped

\* Of the claims that y would lack, the first that x took is one y would take.
LEMMA ClaimsCaughtUp ==
    ASSUME Prompt, NEW t \in Epochs, NEW x, NEW y, NodeOK(t, x), NodeOK(t, y),
           Agreed(t, x, y), x.pc = "idle", y.pc = "idle", passedOn(t, x, y),
           ~refusedTo(t + 1, x, y)
    PROVE  \A c \in Claims : x.revealed[c] # 0 /\ x.revealed[c] + SyncLag < t + 1 =>
                y.revealed[c] = x.revealed[c]
  <1> USE DEF NodeOK
  <1>0. t \in Nat /\ SyncLag \in Nat /\ FinalityEpochs \in Nat /\ SyncLag <= FinalityEpochs
    BY BoundsAssumption DEF Epochs, Prompt
  <1>1. \A c \in Claims : /\ Claim[c].created_at \in Nat
                          /\ x.revealed[c] # 0 => x.revealed[c] = Claim[c].created_at
                          /\ y.revealed[c] # 0 => y.revealed[c] = Claim[c].created_at
    BY BoundsAssumption, ClaimAssumption DEF Stamped, Epochs
  <1> DEFINE lacks == {c \in revealedBy(x) :
                            Claim[c].created_at + SyncLag <= t /\ y.revealed[c] = 0}
  <1>2. CASE lacks = {}
    BY <1>0, <1>1, <1>2 DEF revealedBy
  <1>3. CASE lacks # {}
    <2>1. lacks \in SUBSET revealedBy(x)
      OBVIOUS
    <2>2. PICK c \in lacks : /\ knowsItsReferences(x, c)
                             /\ Claim[c].cites \cap lacks = {}
                             /\ Claim[c].relations \cap lacks = {}
      BY <1>3, <2>1 DEF InTurn
    <2> DEFINE e == Claim[c].created_at
    <2>3. c \in Claims /\ x.revealed[c] = e /\ y.revealed[c] = 0 /\ e + SyncLag <= t
          /\ x.revealed[c] # 0 /\ e \in Nat
      BY <1>1 DEF revealedBy
    <2>4. ~ /\ takesClaim(e, y, c) /\ citesFrontier(y, c) /\ e \notin paidEpochs(y.purse)
            /\ knowsItsReferences(y, c)
      BY <2>3 DEF passedOn
    <2>5. kindOf(c) # "ratchet"
      BY <1>0, <2>3 DEF refusedTo
    <2>6. citesFrontier(y, c)
      BY <2>5 DEF citesFrontier
    <2>9. Claim[c].commitment \in Commitments /\ Claim[c].cites \subseteq Claims
          /\ Claim[c].relations \subseteq Claims
      BY <2>3, ClaimAssumption
    <2> HIDE DEF lacks, e
    <2>10. takesClaim(e, y, c)
      <3>1. takesClaim(e, x, c)
        BY <2>3 DEF Backed
      <3>2. x.committed[Claim[c].commitment] \in Nat
        BY <2>9, BoundsAssumption DEF Shaped, Epochs
      <3>3. x.committed[Claim[c].commitment] + SyncLag < t + 1
        BY <1>0, <2>3, <3>1, <3>2 DEF takesClaim
      <3>4. y.committed[Claim[c].commitment] = x.committed[Claim[c].commitment]
        BY <2>9, <3>1, <3>3, CommitmentsCaughtUp DEF takesClaim
      <3> QED BY <3>1, <3>4 DEF takesClaim
    <2>11. CASE e \in paidEpochs(y.purse)
      <3>1. e + FinalityEpochs < t
        BY <2>11 DEF Timed
      <3>2. e + SyncLag < t
        BY <1>0, <2>3, <3>1
      <3> QED BY <2>3, <3>2 DEF Agreed, Alike
    <2>12. \A d \in Claims : x.revealed[d] # 0 /\ d \notin lacks /\ Claim[d].created_at <= e
                => y.revealed[d] # 0 /\ (d \in acceptedOf(x) => d \in acceptedOf(y))
      <3> SUFFICES ASSUME NEW d \in Claims, x.revealed[d] # 0, d \notin lacks,
                          Claim[d].created_at <= e
                   PROVE  y.revealed[d] # 0 /\ (d \in acceptedOf(x) => d \in acceptedOf(y))
        OBVIOUS
      <3>1. Claim[d].created_at + SyncLag <= t
        BY <1>0, <1>1, <2>3
      <3>2. y.revealed[d] # 0
        BY <3>1 DEF lacks, revealedBy
      <3>3. x.verdict[d] = Claim[d].judge /\ y.verdict[d] = Claim[d].judge
        BY <3>2 DEF Judged
      <3> QED BY <3>2, <3>3 DEF acceptedOf, acceptedBy
    <2>13. \A d \in acceptedOf(x) : d \in Claims /\ x.revealed[d] # 0
      BY DEF acceptedOf, acceptedBy
    <2>14. \A d \in Claim[c].cites \cup Claim[c].relations : Claim[d].created_at <= e
      BY <2>3 DEF Prompt, e
    <2>15. knowsItsReferences(y, c)
      BY <2>2, <2>9, <2>12, <2>13, <2>14 DEF knowsItsReferences
    <2> QED BY <2>4, <2>6, <2>10, <2>11, <2>15
  <1> QED BY <1>2, <1>3

\* The clock turns when both nodes' records have reached the other.
LEMMA ClockKeeps ==
    ASSUME NEW t \in Epochs, t + 1 \in Epochs, NEW x, NodeOK(t, x), x.pc = "idle"
    PROVE  NodeOK(t + 1, x)
  <1>0. t \in Nat /\ t \in Int /\ t + 1 \in Int /\ t <= t + 1
    BY BoundsAssumption DEF Epochs
  <1> USE DEF NodeOK
  <1>1. \A c \in Claims : x.revealed[c] \in Nat
    BY BoundsAssumption DEF Shaped, Stamps, Epochs
  <1>2. \A h \in Commitments : x.committed[h] \in Nat
    BY BoundsAssumption DEF Shaped, Epochs
  <1>3. Stamped(t + 1, x)
    BY <1>0, <1>1, <1>2 DEF Stamped
  <1>4. Calling(t + 1, x)
    BY DEF Calling
  <1>5. Timed(t + 1, x)
    <2>1. \A e \in Epochs : e + FinalityEpochs < t => e + FinalityEpochs < t + 1
      BY <1>0, BoundsAssumption DEF Epochs
    <2> QED BY <2>1 DEF Timed, paidEpochs
  <1>6. Alike(FinalityEpochs, t, x.revealed, acceptedOf(x), x.revealed, acceptedOf(x))
    BY DEF Alike
  <1>7. Traced(t + 1, x.revealed, acceptedOf(x), x.purse)
    BY <1>0, <1>6, TraceStays, AcceptedAreClaims DEF Shaped
  <1> QED BY <1>3, <1>4, <1>5, <1>7

\* What has reached both is an epoch they agree on.
LEMMA ClockAgrees ==
    ASSUME Prompt, NEW t \in Epochs, NEW x, NEW y,
           NodeOK(t, x), NodeOK(t, y), Agreed(t, x, y), x.pc = "idle", y.pc = "idle",
           passedOn(t, x, y), passedOn(t, y, x),
           ~refusedTo(t + 1, x, y), ~refusedTo(t + 1, y, x)
    PROVE  Agreed(t + 1, x, y)
  <1>1. \A h \in Commitments :
            (x.committed[h] # 0 /\ x.committed[h] + SyncLag < t + 1)
            \/ (y.committed[h] # 0 /\ y.committed[h] + SyncLag < t + 1)
                => x.committed[h] = y.committed[h]
    BY CommitmentsCaughtUp
  <1>2. \A c \in Claims :
            (x.revealed[c] # 0 /\ x.revealed[c] + SyncLag < t + 1)
            \/ (y.revealed[c] # 0 /\ y.revealed[c] + SyncLag < t + 1)
                => x.revealed[c] = y.revealed[c]
    <2>1. \A c \in Claims : x.revealed[c] # 0 /\ x.revealed[c] + SyncLag < t + 1 =>
                y.revealed[c] = x.revealed[c]
      BY ClaimsCaughtUp
    <2>2. \A c \in Claims : y.revealed[c] # 0 /\ y.revealed[c] + SyncLag < t + 1 =>
                x.revealed[c] = y.revealed[c]
      BY ClaimsCaughtUp, AgreedSymmetric
    <2> QED BY <2>1, <2>2
  <1>3. \A c \in Claims : x.revealed[c] # 0 /\ y.revealed[c] # 0 =>
            x.verdict[c] = y.verdict[c]
    BY DEF NodeOK, Judged
  <1> QED BY <1>1, <1>2, <1>3 DEF Agreed, Alike, acceptedOf, acceptedBy

\* A record whose time is over comes no more.
LEMMA ClosedStays ==
    ASSUME NEW t \in Epochs, NEW x, NEW z, NodeOK(t, x), nodeStep(t, x, z)
    PROVE  /\ \A h \in Commitments : Commitment[h].created_at + SyncLag < t =>
                z.committed[h] = x.committed[h]
           /\ \A c \in Claims : Claim[c].created_at + SyncLag < t =>
                z.revealed[c] = x.revealed[c]
  <1> USE BoundsAssumption DEF NodeOK
  <1>1. CASE reveals(x, z)
    <2>1. /\ x.call.what \in Claims /\ Claim[x.call.what].created_at \in Nat /\ t \in Nat
          /\ ~(Claim[x.call.what].created_at + SyncLag < t)
      BY <1>1, ClaimAssumption DEF reveals, Calling, onTime, Epochs
    <2>2. \A c \in Claims : c # x.call.what => z.revealed[c] = x.revealed[c]
      BY <1>1, <2>1 DEF reveals, Shaped, Stamps
    <2> QED BY <1>1, <2>1, <2>2 DEF reveals
  <1>2. CASE commits(x, z)
    <2>1. /\ x.call.what \in Commitments
          /\ Commitment[x.call.what].created_at \in Nat /\ t \in Nat
          /\ ~(Commitment[x.call.what].created_at + SyncLag < t)
      BY <1>2, CommitmentAssumption DEF commits, Calling, onTime, Epochs
    <2>2. \A h \in Commitments : h # x.call.what => z.committed[h] = x.committed[h]
      BY <1>2, <2>1 DEF commits, Shaped
    <2> QED BY <1>2, <2>1, <2>2 DEF commits
  <1>3. CASE z.committed = x.committed /\ z.revealed = x.revealed
    BY <1>3
  <1> QED BY <1>1, <1>2, <1>3 DEF nodeStep, enters, settles, quits, judges

\* A refusal is for good.
LEMMA RefusalStays ==
    ASSUME NEW t \in Epochs, NEW x, NEW y, NEW z, NodeOK(t, x), nodeStep(t, x, z)
    PROVE  /\ refusedTo(t, x, y) => refusedTo(t, z, y)
           /\ refusedTo(t, y, x) => refusedTo(t, y, z)
  <1>1. /\ \A h \in Commitments : Commitment[h].created_at + SyncLag < t =>
                z.committed[h] = x.committed[h]
        /\ \A c \in Claims : Claim[c].created_at + SyncLag < t =>
                z.revealed[c] = x.revealed[c]
    BY ClosedStays
  <1> QED BY <1>1 DEF refusedTo

\* The clock does not lift it.
LEMMA RefusalAges ==
    ASSUME NEW t \in Epochs, NEW x, NEW y, refusedTo(t, x, y)
    PROVE  refusedTo(t + 1, x, y)
  <1>1. \A i \in Nat : i + SyncLag < t => i + SyncLag < t + 1
    BY BoundsAssumption DEF Epochs
  <1>2. /\ \A h \in Commitments : Commitment[h].created_at \in Nat
        /\ \A c \in Claims : Claim[c].created_at \in Nat
    BY BoundsAssumption, ClaimAssumption, CommitmentAssumption DEF Epochs
  <1> QED BY <1>1, <1>2 DEF refusedTo

\* The steps of node A are steps of a node in the sense above.
LEMMA AOpens ==
    ASSUME now \in Epochs, NodeOK(now, nodeA), StartBatch
    PROVE  settles(now, nodeA, nodeA')
  <1>1. pc = "drain" /\ pc' = "pay"
    BY DEF StartBatch
  <1>0. /\ call.at \in Int /\ now \in Int /\ call.at <= now
        /\ nodeA.revealed = revealed /\ revealed \in Stamps
    BY <1>1, BoundsAssumption DEF NodeOK, Calling, Shaped, onTime, nodeA, Node, Epochs
  <1>2. due_epochs(call.at) = dueAt(call.at, revealed, acceptedOf(nodeA), nodeA.purse)
    BY DEF due_epochs, dueAt, accepted_in_epoch, inEpoch, accepted, acceptedOf,
           acceptedBy, epoch_is_drained, drained_epochs, paidEpochs, nodeA, Node,
           Purse, Epochs
  <1>3. \A e : accepted_in_epoch(e) = inEpoch(revealed, acceptedOf(nodeA), e)
    BY DEF accepted_in_epoch, inEpoch, accepted, acceptedOf, acceptedBy, nodeA, Node
  <1>4. PICK e \in dueAt(call.at, revealed, acceptedOf(nodeA), nodeA.purse) :
            /\ \A d \in dueAt(call.at, revealed, acceptedOf(nodeA), nodeA.purse) : e <= d
            /\ drain' = [epoch |-> e,
                         members |-> inEpoch(revealed, acceptedOf(nodeA), e),
                         todo |-> inEpoch(revealed, acceptedOf(nodeA), e),
                         consumed |-> {}, payee |-> 0, owed |-> 0]
    BY <1>1, <1>2, <1>3 DEF StartBatch
  <1>5. opens(call.at, revealed, acceptedOf(nodeA), nodeA.purse, nodeA'.purse)
    BY <1>1, <1>4 DEF StartBatch, opens, nodeA, Node, Purse, Phase, logVars
  <1>6. Alike(FinalityEpochs, call.at, revealed, acceptedOf(nodeA), revealed,
              acceptedOf(nodeA))
    BY DEF Alike
  <1>7. drainStep(call.at, revealed, acceptedOf(nodeA), nodeA.purse, nodeA'.purse)
    BY <1>5 DEF drainStep
  <1>8. drainStep(now, revealed, acceptedOf(nodeA), nodeA.purse, nodeA'.purse)
    BY <1>0, <1>6, <1>7, MovesStay, AcceptedAreClaims
  <1>9. /\ nodeA.pc = pc /\ nodeA'.pc = pc' /\ nodeA'.purse.phase = Phase(pc')
        /\ nodeA'.committed = nodeA.committed /\ nodeA'.revealed = nodeA.revealed
        /\ nodeA'.verdict = nodeA.verdict /\ nodeA'.call = nodeA.call
    BY DEF StartBatch, nodeA, Node, Purse, logVars
  <1> QED BY <1>0, <1>1, <1>8, <1>9 DEF settles

\* The claim whose turn it is at node A.
LEMMA ATurns ==
    ASSUME NEW c \in Claims, IsNext(c) PROVE takesTurn(nodeA.purse, c)
  BY DEF IsNext, precedes, anchor_of_epoch, epoch_chain_head, drained_epochs, takesTurn, rankOf,
         anchorOf, paidEpochs, nodeA, Node, Purse, Epochs

\* What the rules read of the log and of what was paid is what the purse has.
LEMMA AReads ==
    ASSUME posted = Objectives, NEW c \in Claims
    PROVE  /\ plainPays(c) <=>
                firstAt(oldArtifacts(revealed, Claim[c].objective, drain.epoch),
                        nodeA.purse, c)
           /\ novelUnits(c) = novelTo(nodeA.purse, c)
           /\ unitReward(c) = unitsEarn(nodeA.purse, c)
           /\ advances(c) <=> movesOn(nodeA.purse, c)
           /\ kindOf(c) \in Kinds /\ kindOf(c) = kindOf(c)
           /\ \A s : consumedBy(c, s) = consumedBy(c, s)
  <1>1. plainPays(c) <=>
            firstAt(oldArtifacts(revealed, Claim[c].objective, drain.epoch),
                    nodeA.purse, c)
    BY DEF plainPays, firstAt, artifact_ids_before, oldArtifacts, settlement_of,
           settlements_of, settledBy, artifact_id, nodeA, Node, Purse
  <1>2. paid_unit_keys(Claim[c].objective) = paidUnits(nodeA.purse, Claim[c].objective)
    BY DEF paid_unit_keys, paidUnits, piecework_scope, unitKeys, nodeA, Node, Purse
  <1>3. novelUnits(c) = novelTo(nodeA.purse, c)
    BY <1>2 DEF novelUnits, novelTo, unitKeys, nodeA, Node, Purse
  <1>4. unitReward(c) = unitsEarn(nodeA.purse, c)
    BY <1>3 DEF unitReward, unitsEarn, payout_for, nodeA, Node, Purse
  <1>5. advances(c) <=> movesOn(nodeA.purse, c)
    BY DEF advances, movesOn, nodeA, Node, Purse
  <1>6. kindOf(c) \in Kinds /\ kindOf(c) = kindOf(c)
    BY ClaimAssumption, ObjectiveAssumption DEF kindOf
  <1>7. \A s : consumedBy(c, s) = consumedBy(c, s)
    BY <1>6 DEF consumedBy, unitKeys, artifact_id
  <1> QED BY <1>1, <1>3, <1>4, <1>5, <1>6, <1>7

\* What node A does for it is the outcome above.
LEMMA AServes ==
    ASSUME posted = Objectives, NEW c \in Claims, IsNext(c),
           SettlePlain(c) \/ SettleUnit(c) \/ AdvanceFrontier(c) \/ SettleNothing(c)
    PROVE  nodeA'.purse =
             outcome(oldArtifacts(revealed, Claim[c].objective, drain.epoch),
                     nodeA.purse, c)
  <1> DEFINE m == nodeA.purse
             old == oldArtifacts(revealed, Claim[c].objective, drain.epoch)
  <1>0. /\ plainPays(c) <=> firstAt(old, m, c)
        /\ novelUnits(c) = novelTo(m, c)
        /\ unitReward(c) = unitsEarn(m, c)
        /\ advances(c) <=> movesOn(m, c)
        /\ kindOf(c) \in Kinds /\ kindOf(c) = kindOf(c)
        /\ \A s : consumedBy(c, s) = consumedBy(c, s)
    BY AReads
  <1>1. pc = "pay"
    BY DEF IsNext
  <1>2. /\ m.receipts = receipts /\ m.total = total /\ m.frontier = frontier
        /\ m.batch = batch /\ m.drain = drain
    BY DEF nodeA, Node, Purse
  <1>3. nodeA'.purse = Purse(receipts', total', frontier', batch', drain', Phase(pc'))
    BY DEF nodeA, Node
  <1>4. \A s : Finish(c, s) => drain' = done(m, c, s)
    BY <1>0, <1>2 DEF Finish, done
  <1> HIDE DEF m, old
  <1>5. CASE SettlePlain(c)
    <2>1. kindOf(c) = "plain" /\ firstAt(old, m, c)
      BY <1>0, <1>5 DEF SettlePlain
    <2>2. nodeA'.purse = paidOut(m, c, Objective[Claim[c].objective].reward)
      BY <1>1, <1>2, <1>3, <1>4, <1>5 DEF SettlePlain, Pay, paidOut, Phase
    <2> QED BY <2>1, <2>2 DEF outcome, m, old
  <1>6. CASE SettleUnit(c)
    <2>1. kindOf(c) = "piecework" /\ novelTo(m, c) # {} /\ unitsEarn(m, c) > 0
      BY <1>0, <1>6 DEF SettleUnit
    <2>2. nodeA'.purse = paidOut(m, c, unitsEarn(m, c))
      BY <1>0, <1>1, <1>2, <1>3, <1>4, <1>6 DEF SettleUnit, Pay, paidOut, Phase
    <2> QED BY <2>1, <2>2 DEF outcome, m, old
  <1>7. CASE AdvanceFrontier(c)
    <2>1. kindOf(c) = "ratchet" /\ movesOn(m, c)
      BY <1>0, <1>7 DEF AdvanceFrontier
    <2>2. nodeA'.purse = moved(m, c)
      BY <1>1, <1>2, <1>3, <1>4, <1>7 DEF AdvanceFrontier, moved, Phase
    <2> QED BY <2>1, <2>2 DEF outcome, m, old
  <1>8. CASE SettleNothing(c)
    <2>1. /\ kindOf(c) = "plain" => ~firstAt(old, m, c)
          /\ kindOf(c) = "piecework" => novelTo(m, c) = {} \/ ~(unitsEarn(m, c) > 0)
          /\ kindOf(c) = "ratchet" => ~movesOn(m, c)
      BY <1>0, <1>8 DEF SettleNothing, earnsNothing
    <2>2. nodeA'.purse = passed(m, c, FALSE)
      BY <1>1, <1>2, <1>3, <1>4, <1>8 DEF SettleNothing, passed, Phase, logVars
    <2> QED BY <2>1, <2>2 DEF outcome, m, old
  <1> QED BY <1>5, <1>6, <1>7, <1>8

\* What node A's drain does is a step of settle_due.
LEMMA ASettles ==
    ASSUME now \in Epochs, posted = Objectives, NodeOK(now, nodeA), Settle
    PROVE  settles(now, nodeA, nodeA')
  <1>0. Timed(now, nodeA)
    BY DEF NodeOK
  <1>1. CASE StartBatch
    BY <1>1, AOpens
  <1> USE DEF nodeA, Node, Purse
  <1>2. ASSUME NEW c \in Claims,
               SettlePlain(c) \/ SettleUnit(c) \/ AdvanceFrontier(c) \/ SettleNothing(c)
        PROVE  settles(now, nodeA, nodeA')
    <2>1. IsNext(c)
      BY <1>2 DEF SettlePlain, SettleUnit, AdvanceFrontier, SettleNothing
    <2>2. takesTurn(nodeA.purse, c)
      BY <2>1, ATurns
    <2>3. nodeA'.purse =
             outcome(oldArtifacts(revealed, Claim[c].objective, drain.epoch),
                     nodeA.purse, c)
      BY <1>2, <2>1, AServes
    <2>4. pc = "pay" /\ pc' \in {"pay", "settlement"}
      BY <1>2, <2>1 DEF IsNext, SettlePlain, SettleUnit, AdvanceFrontier, SettleNothing
    <2>5. drain.epoch \in Epochs /\ drain.epoch + FinalityEpochs < now
      BY <1>0, <2>4 DEF Timed, Phase
    <2>6. pays(now, revealed, nodeA.purse, nodeA'.purse)
      <3>1. nodeA.purse.phase = "pay" /\ nodeA.purse.drain = drain
        BY <2>4 DEF Phase
      <3> HIDE DEF nodeA
      <3> QED BY <2>2, <2>3, <2>5, <3>1 DEF pays
    <2>7. UNCHANGED <<committed, revealed, verdict, call>>
      BY <1>2 DEF SettlePlain, SettleUnit, AdvanceFrontier, SettleNothing, logVars
    <2>8. nodeA.revealed = revealed
      OBVIOUS
    <2>9. drainStep(now, nodeA.revealed, acceptedOf(nodeA), nodeA.purse, nodeA'.purse)
      BY <2>6, <2>8 DEF drainStep
    <2>10. nodeA'.purse.phase = Phase(pc')
      OBVIOUS
    <2>11. nodeA'.committed = nodeA.committed /\ nodeA'.revealed = nodeA.revealed
           /\ nodeA'.verdict = nodeA.verdict /\ nodeA'.call = nodeA.call
           /\ nodeA.pc = pc /\ nodeA'.pc = pc'
      BY <2>7
    <2> HIDE DEF nodeA
    <2> QED BY <2>4, <2>9, <2>10, <2>11 DEF settles
  <1>3. CASE PayImprovement
    <2>1. pc = "settlement" /\ pc' = "pay"
      BY <1>3 DEF PayImprovement
    <2>2. paysUp(nodeA.purse, nodeA'.purse)
      BY <1>3, <2>1 DEF PayImprovement, Pay, paysUp, Phase, artifact_id
    <2> QED BY <1>3, <2>1, <2>2 DEF PayImprovement, settles, drainStep, Phase
  <1>4. CASE WriteBatch
    <2>1. pc = "pay" /\ pc' = "drain"
      BY <1>4 DEF WriteBatch
    <2>2. closes(nodeA.purse, nodeA'.purse)
      BY <1>4, <2>1 DEF WriteBatch, closes, Phase, NoDrain
    <2> QED BY <1>4, <2>1, <2>2 DEF WriteBatch, settles, drainStep, Phase
  <1> QED BY <1>1, <1>2, <1>3, <1>4 DEF Settle

\* What node A admits is decided by its purse and its log.
LEMMA AAdmits ==
    ASSUME posted = Objectives, NEW c \in Claims, NEW t \in Int,
           committed \in [Commitments -> Epochs \cup {0}]
    PROVE  /\ \A h \in Commitments : commitAdmissible(h) <=> takesCommitment(nodeA, h)
           /\ revealAdmissible(c, t) <=>
                /\ takesClaim(t, nodeA, c) /\ citesFrontier(nodeA, c)
                /\ t \notin paidEpochs(nodeA.purse) /\ knowsItsReferences(nodeA, c)
  <1>1. \A h \in Commitments : Commitment[h].objective \in Objectives
    BY CommitmentAssumption
  <1>2. Claim[c].objective \in Objectives /\ Claim[c].commitment \in Commitments
    BY ClaimAssumption
  <1>3. committed[Claim[c].commitment] \in Int
    BY <1>2, BoundsAssumption DEF Epochs
  <1>4. \A h \in Commitments : commitAdmissible(h) <=> takesCommitment(nodeA, h)
    BY <1>1 DEF commitAdmissible, takesCommitment, settlement_of, settlements_of,
           settledBy, nodeA, Node, Purse
  <1>5. revealAdmissible(c, t) <=>
                /\ takesClaim(t, nodeA, c) /\ citesFrontier(nodeA, c)
                /\ t \notin paidEpochs(nodeA.purse) /\ knowsItsReferences(nodeA, c)
    BY <1>2, <1>3 DEF revealAdmissible, takesClaim, citesFrontier, kindOf, paidEpochs, knowsItsReferences,
           epoch_is_drained, drained_epochs, accepted, acceptedOf, acceptedBy, nodeA,
           Node, Purse, Epochs
  <1> QED BY <1>4, <1>5

\* Every step of node A.
LEMMA ASteps ==
    ASSUME Prompt, now \in Epochs, posted = Objectives, outages = 0,
           NodeOK(now, nodeA), StepA
    PROVE  nodeStep(now, nodeA, nodeA')
  <1>0. now \in Int /\ SyncLag \in Nat
    BY BoundsAssumption DEF Epochs
  <1>00. /\ \A c \in Claims : Claim[c].created_at \in Epochs
                              /\ Claim[c].commitment \in Commitments
         /\ \A h \in Commitments : Commitment[h].created_at \in Epochs
    BY BoundsAssumption, ClaimAssumption, CommitmentAssumption
  <1>01. \A e \in Epochs : \A known : Deliverable(e, known) =>
                e <= now /\ now <= e + SyncLag
    BY <1>0, BoundsAssumption DEF Deliverable, Epochs
  <1>02. ASSUME NEW op, NEW w, NEW e, Enter(op, w, e),
                onTime(now, [op |-> op, what |-> w, at |-> e])
         PROVE  enters(now, nodeA, nodeA')
    <2>1. nodeA.pc = "idle" /\ nodeA'.pc = "drain"
          /\ nodeA'.call = [op |-> op, what |-> w, at |-> e]
      BY <1>02 DEF Enter, nodeA, Node
    <2>2. /\ nodeA'.committed = nodeA.committed /\ nodeA'.revealed = nodeA.revealed
          /\ nodeA'.verdict = nodeA.verdict /\ nodeA'.purse = nodeA.purse
      BY <1>02 DEF Enter, nodeA, Node, Purse, Phase, logVars
    <2> QED BY <1>02, <2>1, <2>2 DEF enters
  <1>1. CASE Tick
    <2>1. onTime(now, [op |-> "tick", what |-> 0, at |-> now])
      BY <1>0 DEF onTime
    <2> QED BY <1>1, <1>02, <2>1 DEF Tick, nodeStep
  <1>2. ASSUME NEW h \in Commitments, CommitCall(h) PROVE enters(now, nodeA, nodeA')
    <2> DEFINE e == Commitment[h].created_at
    <2>1. Enter("commit", h, e) /\ e \in Epochs /\ e <= now /\ now <= e + SyncLag
      BY <1>00, <1>01, <1>2 DEF CommitCall
    <2>2. onTime(now, [op |-> "commit", what |-> h, at |-> e])
      BY <2>1 DEF onTime
    <2> HIDE DEF e
    <2> QED BY <1>02, <2>1, <2>2
  <1>3. ASSUME NEW c \in Claims, RevealCall(c) PROVE enters(now, nodeA, nodeA')
    <2> DEFINE e == Claim[c].created_at
    <2>1. Enter("reveal", c, e) /\ e \in Epochs /\ e <= now /\ now <= e + SyncLag
      BY <1>00, <1>01, <1>3 DEF RevealCall, Prompt
    <2>2. onTime(now, [op |-> "reveal", what |-> c, at |-> e])
      BY <2>1 DEF onTime
    <2> HIDE DEF e
    <2> QED BY <1>02, <2>1, <2>2
  <1>4. CASE Settle
    BY <1>4, ASettles DEF nodeStep
  <1>5. Calling(now, nodeA) /\ committed \in [Commitments -> Epochs \cup {0}]
    BY DEF NodeOK, Shaped, nodeA, Node
  <1>6. CASE TickReturns
    BY <1>6 DEF TickReturns, Drained, Return, quits, nodeStep, nodeA, Node, Purse,
           Phase, logVars
  <1>7. CASE CommitReturns
    <2>1. pc = "drain" /\ pc' = "idle" /\ call.op = "commit"
      BY <1>7 DEF CommitReturns, Drained, Return
    <2>2. UNCHANGED <<revealed, verdict, receipts, total, frontier, batch, drain>>
          /\ committed' = IF commitAdmissible(call.what) /\ committed[call.what] = 0
                     THEN [committed EXCEPT ![call.what] = call.at] ELSE committed
      BY <1>7 DEF CommitReturns
    <2>3. CASE committed' = committed
      BY <2>1, <2>2, <2>3 DEF quits, nodeStep, nodeA, Node, Purse, Phase
    <2>4. CASE /\ committed[call.what] = 0
               /\ committed' = [committed EXCEPT ![call.what] = call.at]
      BY <2>1, <2>2, <2>4 DEF commits, nodeStep, nodeA, Node, Purse, Phase
    <2> QED BY <2>2, <2>3, <2>4
  <1>8. CASE AppendClaim
    <2>1. pc = "drain" /\ pc' = "verdict" /\ call.op = "reveal"
          /\ call.what \in Claims /\ call.at \in Int
          /\ revealAdmissible(call.what, call.at)
      BY <1>5, <1>8, BoundsAssumption
         DEF AppendClaim, Drained, Calling, onTime, nodeA, Node, Epochs
    <2>2. takesClaim(call.at, nodeA, call.what) /\ knowsItsReferences(nodeA, call.what)
      BY <1>5, <2>1, AAdmits
    <2> QED BY <1>8, <2>1, <2>2 DEF AppendClaim, reveals, nodeStep, nodeA, Node,
           Purse, Phase
  <1>9. CASE RefuseClaim
    BY <1>9 DEF RefuseClaim, Drained, Return, quits, nodeStep, nodeA, Node, Purse,
           Phase, logVars
  <1>10. CASE AppendVerdict
    BY <1>10 DEF AppendVerdict, Return, judges, nodeStep, nodeA, Node, Purse, Phase,
           Prompt
  <1> QED BY <1>1, <1>2, <1>3, <1>4, <1>6, <1>7, <1>8, <1>9, <1>10
          DEF StepA, HandlerStep, nodeStep

\* The functions that the two instances share.
LEMMA SameCardinality == \A S : B!Cardinality(S) = Cardinality(S)
  BY DEF B!Cardinality, Cardinality
\* The curve is a function of the record.
LEMMA SameCurve ==
    \A r, old, new : /\ B!improves(r, old, new) <=> improves(r, old, new)
                     /\ B!payout(r, old, new) = payout(r, old, new)
  BY DEF B!improves, improves, B!payout, payout, B!progressOf, progressOf, B!progress,
         progress, B!rawProgress, rawProgress, B!span, span, B!cumulative, cumulative,
         B!cumulativeOf, cumulativeOf

\* The steps of node B are steps of a node in the sense above.
LEMMA BOpens ==
    ASSUME now \in Epochs, NodeOK(now, nodeB), B!StartBatch
    PROVE  settles(now, nodeB, nodeB')
  <1>1. pcB = "drain" /\ pcB' = "pay"
    BY DEF B!StartBatch
  <1>0. /\ callB.at \in Int /\ now \in Int /\ callB.at <= now
        /\ nodeB.revealed = revealedB /\ revealedB \in Stamps
    BY <1>1, BoundsAssumption DEF NodeOK, Calling, Shaped, onTime, nodeB, Node, Epochs
  <1>2. B!due_epochs(callB.at) = dueAt(callB.at, revealedB, acceptedOf(nodeB), nodeB.purse)
    BY DEF B!due_epochs, dueAt, B!accepted_in_epoch, inEpoch, B!accepted, acceptedOf,
           acceptedBy, B!epoch_is_drained, B!drained_epochs, paidEpochs, nodeB, Node,
           Purse, Epochs, B!Epochs
  <1>3. \A e : B!accepted_in_epoch(e) = inEpoch(revealedB, acceptedOf(nodeB), e)
    BY DEF B!accepted_in_epoch, inEpoch, B!accepted, acceptedOf, acceptedBy, nodeB, Node
  <1>4. PICK e \in dueAt(callB.at, revealedB, acceptedOf(nodeB), nodeB.purse) :
            /\ \A d \in dueAt(callB.at, revealedB, acceptedOf(nodeB), nodeB.purse) : e <= d
            /\ drainB' = [epoch |-> e,
                         members |-> inEpoch(revealedB, acceptedOf(nodeB), e),
                         todo |-> inEpoch(revealedB, acceptedOf(nodeB), e),
                         consumed |-> {}, payee |-> 0, owed |-> 0]
    BY <1>1, <1>2, <1>3 DEF B!StartBatch
  <1>5. opens(callB.at, revealedB, acceptedOf(nodeB), nodeB.purse, nodeB'.purse)
    BY <1>1, <1>4 DEF B!StartBatch, opens, nodeB, Node, Purse, Phase, B!logVars
  <1>6. Alike(FinalityEpochs, callB.at, revealedB, acceptedOf(nodeB), revealedB,
              acceptedOf(nodeB))
    BY DEF Alike
  <1>7. drainStep(callB.at, revealedB, acceptedOf(nodeB), nodeB.purse, nodeB'.purse)
    BY <1>5 DEF drainStep
  <1>8. drainStep(now, revealedB, acceptedOf(nodeB), nodeB.purse, nodeB'.purse)
    BY <1>0, <1>6, <1>7, MovesStay, AcceptedAreClaims
  <1>9. /\ nodeB.pc = pcB /\ nodeB'.pc = pcB' /\ nodeB'.purse.phase = Phase(pcB')
        /\ nodeB'.committed = nodeB.committed /\ nodeB'.revealed = nodeB.revealed
        /\ nodeB'.verdict = nodeB.verdict /\ nodeB'.call = nodeB.call
    BY DEF B!StartBatch, nodeB, Node, Purse, B!logVars
  <1> QED BY <1>0, <1>1, <1>8, <1>9 DEF settles

\* The claim whose turn it is at node B.
LEMMA BTurns ==
    ASSUME BeaconB = Beacon, NEW c \in Claims, B!IsNext(c)
    PROVE  takesTurn(nodeB.purse, c)
  BY DEF B!IsNext, B!precedes, B!anchor_of_epoch, B!epoch_chain_head, B!drained_epochs, takesTurn, rankOf,
         anchorOf, paidEpochs, nodeB, Node, Purse, B!Epochs, Epochs

\* What the rules read of the log and of what was paid is what the purse has.
LEMMA BReads ==
    ASSUME posted = Objectives, NEW c \in Claims
    PROVE  /\ B!plainPays(c) <=>
                firstAt(oldArtifacts(revealedB, Claim[c].objective, drainB.epoch),
                        nodeB.purse, c)
           /\ B!novelUnits(c) = novelTo(nodeB.purse, c)
           /\ B!unitReward(c) = unitsEarn(nodeB.purse, c)
           /\ B!advances(c) <=> movesOn(nodeB.purse, c)
           /\ kindOf(c) \in Kinds /\ B!kindOf(c) = kindOf(c)
           /\ \A s : B!consumedBy(c, s) = consumedBy(c, s)
  <1>1. B!plainPays(c) <=>
            firstAt(oldArtifacts(revealedB, Claim[c].objective, drainB.epoch),
                    nodeB.purse, c)
    BY DEF B!plainPays, firstAt, B!artifact_ids_before, oldArtifacts, B!settlement_of,
           B!settlements_of, settledBy, B!artifact_id, artifact_id, nodeB, Node, Purse
  <1>2. B!paid_unit_keys(Claim[c].objective) = paidUnits(nodeB.purse, Claim[c].objective)
    BY DEF B!paid_unit_keys, paidUnits, B!piecework_scope, B!unitKeys, unitKeys, nodeB,
           Node, Purse
  <1>3. B!novelUnits(c) = novelTo(nodeB.purse, c)
    BY <1>2 DEF B!novelUnits, novelTo, B!unitKeys, unitKeys, nodeB, Node, Purse
  <1>4. B!unitReward(c) = unitsEarn(nodeB.purse, c)
    BY <1>3, SameCardinality DEF B!unitReward, unitsEarn, B!payout_for, payout_for,
           nodeB, Node, Purse
  <1>5. B!advances(c) <=> movesOn(nodeB.purse, c)
    BY SameCurve DEF B!advances, movesOn, nodeB, Node, Purse
  <1>6. kindOf(c) \in Kinds /\ B!kindOf(c) = kindOf(c)
    BY ClaimAssumption, ObjectiveAssumption DEF kindOf, B!kindOf
  <1>7. \A s : B!consumedBy(c, s) = consumedBy(c, s)
    BY <1>6 DEF B!consumedBy, consumedBy, B!unitKeys, unitKeys, B!artifact_id,
           artifact_id
  <1> QED BY <1>1, <1>3, <1>4, <1>5, <1>6, <1>7

\* What node B does for it is the outcome above.
LEMMA BServes ==
    ASSUME posted = Objectives, NEW c \in Claims, B!IsNext(c),
           B!SettlePlain(c) \/ B!SettleUnit(c) \/ B!AdvanceFrontier(c) \/ B!SettleNothing(c)
    PROVE  nodeB'.purse =
             outcome(oldArtifacts(revealedB, Claim[c].objective, drainB.epoch),
                     nodeB.purse, c)
  <1> DEFINE m == nodeB.purse
             old == oldArtifacts(revealedB, Claim[c].objective, drainB.epoch)
  <1>0. /\ B!plainPays(c) <=> firstAt(old, m, c)
        /\ B!novelUnits(c) = novelTo(m, c)
        /\ B!unitReward(c) = unitsEarn(m, c)
        /\ B!advances(c) <=> movesOn(m, c)
        /\ kindOf(c) \in Kinds /\ B!kindOf(c) = kindOf(c)
        /\ \A s : B!consumedBy(c, s) = consumedBy(c, s)
    BY BReads
  <1>1. pcB = "pay"
    BY DEF B!IsNext
  <1>2. /\ m.receipts = receiptsB /\ m.total = totalB /\ m.frontier = frontierB
        /\ m.batch = batchB /\ m.drain = drainB
    BY DEF nodeB, Node, Purse
  <1>3. nodeB'.purse = Purse(receiptsB', totalB', frontierB', batchB', drainB', Phase(pcB'))
    BY DEF nodeB, Node
  <1>4. \A s : B!Finish(c, s) => drainB' = done(m, c, s)
    BY <1>0, <1>2 DEF B!Finish, done
  <1> HIDE DEF m, old
  <1>5. CASE B!SettlePlain(c)
    <2>1. kindOf(c) = "plain" /\ firstAt(old, m, c)
      BY <1>0, <1>5 DEF B!SettlePlain
    <2>2. nodeB'.purse = paidOut(m, c, Objective[Claim[c].objective].reward)
      BY <1>1, <1>2, <1>3, <1>4, <1>5 DEF B!SettlePlain, B!Pay, paidOut, Phase
    <2> QED BY <2>1, <2>2 DEF outcome, m, old
  <1>6. CASE B!SettleUnit(c)
    <2>1. kindOf(c) = "piecework" /\ novelTo(m, c) # {} /\ unitsEarn(m, c) > 0
      BY <1>0, <1>6 DEF B!SettleUnit
    <2>2. nodeB'.purse = paidOut(m, c, unitsEarn(m, c))
      BY <1>0, <1>1, <1>2, <1>3, <1>4, <1>6 DEF B!SettleUnit, B!Pay, paidOut, Phase
    <2> QED BY <2>1, <2>2 DEF outcome, m, old
  <1>7. CASE B!AdvanceFrontier(c)
    <2>1. kindOf(c) = "ratchet" /\ movesOn(m, c)
      BY <1>0, <1>7 DEF B!AdvanceFrontier
    <2>2. nodeB'.purse = moved(m, c)
      BY <1>1, <1>2, <1>3, <1>4, <1>7, SameCurve DEF B!AdvanceFrontier, moved, Phase
    <2> QED BY <2>1, <2>2 DEF outcome, m, old
  <1>8. CASE B!SettleNothing(c)
    <2>1. /\ kindOf(c) = "plain" => ~firstAt(old, m, c)
          /\ kindOf(c) = "piecework" => novelTo(m, c) = {} \/ ~(unitsEarn(m, c) > 0)
          /\ kindOf(c) = "ratchet" => ~movesOn(m, c)
      BY <1>0, <1>8 DEF B!SettleNothing, B!earnsNothing
    <2>2. nodeB'.purse = passed(m, c, FALSE)
      BY <1>1, <1>2, <1>3, <1>4, <1>8 DEF B!SettleNothing, passed, Phase, B!logVars
    <2> QED BY <2>1, <2>2 DEF outcome, m, old
  <1> QED BY <1>5, <1>6, <1>7, <1>8

\* What node B's drain does is a step of settle_due.
LEMMA BSettles ==
    ASSUME BeaconB = Beacon, now \in Epochs, posted = Objectives, NodeOK(now, nodeB),
           B!Settle
    PROVE  settles(now, nodeB, nodeB')
  <1>0. Timed(now, nodeB)
    BY DEF NodeOK
  <1>1. CASE B!StartBatch
    BY <1>1, BOpens
  <1> USE DEF nodeB, Node, Purse
  <1>2. ASSUME NEW c \in Claims,
               B!SettlePlain(c) \/ B!SettleUnit(c) \/ B!AdvanceFrontier(c) \/ B!SettleNothing(c)
        PROVE  settles(now, nodeB, nodeB')
    <2>1. B!IsNext(c)
      BY <1>2 DEF B!SettlePlain, B!SettleUnit, B!AdvanceFrontier, B!SettleNothing
    <2>2. takesTurn(nodeB.purse, c)
      BY <2>1, BTurns
    <2>3. nodeB'.purse =
             outcome(oldArtifacts(revealedB, Claim[c].objective, drainB.epoch),
                     nodeB.purse, c)
      BY <1>2, <2>1, BServes
    <2>4. pcB = "pay" /\ pcB' \in {"pay", "settlement"}
      BY <1>2, <2>1 DEF B!IsNext, B!SettlePlain, B!SettleUnit, B!AdvanceFrontier,
                        B!SettleNothing
    <2>5. drainB.epoch \in Epochs /\ drainB.epoch + FinalityEpochs < now
      BY <1>0, <2>4 DEF Timed, Phase
    <2>6. pays(now, revealedB, nodeB.purse, nodeB'.purse)
      <3>1. nodeB.purse.phase = "pay" /\ nodeB.purse.drain = drainB
        BY <2>4 DEF Phase
      <3> HIDE DEF nodeB
      <3> QED BY <2>2, <2>3, <2>5, <3>1 DEF pays
    <2>7. UNCHANGED <<committedB, revealedB, verdictB, callB>>
      BY <1>2 DEF B!SettlePlain, B!SettleUnit, B!AdvanceFrontier, B!SettleNothing,
             B!logVars
    <2>8. nodeB.revealed = revealedB
      OBVIOUS
    <2>9. drainStep(now, nodeB.revealed, acceptedOf(nodeB), nodeB.purse, nodeB'.purse)
      BY <2>6, <2>8 DEF drainStep
    <2>10. nodeB'.purse.phase = Phase(pcB')
      OBVIOUS
    <2>11. nodeB'.committed = nodeB.committed /\ nodeB'.revealed = nodeB.revealed
           /\ nodeB'.verdict = nodeB.verdict /\ nodeB'.call = nodeB.call
           /\ nodeB.pc = pcB /\ nodeB'.pc = pcB'
      BY <2>7
    <2> HIDE DEF nodeB
    <2> QED BY <2>4, <2>9, <2>10, <2>11 DEF settles
  <1>3. CASE B!PayImprovement
    <2>1. pcB = "settlement" /\ pcB' = "pay"
      BY <1>3 DEF B!PayImprovement
    <2>2. paysUp(nodeB.purse, nodeB'.purse)
      BY <1>3, <2>1 DEF B!PayImprovement, B!Pay, paysUp, Phase, B!artifact_id,
             artifact_id
    <2> QED BY <1>3, <2>1, <2>2 DEF B!PayImprovement, settles, drainStep, Phase
  <1>4. CASE B!WriteBatch
    <2>1. pcB = "pay" /\ pcB' = "drain"
      BY <1>4 DEF B!WriteBatch
    <2>2. closes(nodeB.purse, nodeB'.purse)
      BY <1>4, <2>1 DEF B!WriteBatch, closes, Phase, B!NoDrain, NoDrain
    <2> QED BY <1>4, <2>1, <2>2 DEF B!WriteBatch, settles, drainStep, Phase
  <1> QED BY <1>1, <1>2, <1>3, <1>4 DEF B!Settle

\* What node B admits is decided by its purse and its log.
LEMMA BAdmits ==
    ASSUME posted = Objectives, NEW c \in Claims, NEW t \in Int,
           committedB \in [Commitments -> Epochs \cup {0}]
    PROVE  /\ \A h \in Commitments : B!commitAdmissible(h) <=> takesCommitment(nodeB, h)
           /\ B!revealAdmissible(c, t) <=>
                /\ takesClaim(t, nodeB, c) /\ citesFrontier(nodeB, c)
                /\ t \notin paidEpochs(nodeB.purse) /\ knowsItsReferences(nodeB, c)
  <1>1. \A h \in Commitments : Commitment[h].objective \in Objectives
    BY CommitmentAssumption
  <1>2. Claim[c].objective \in Objectives /\ Claim[c].commitment \in Commitments
    BY ClaimAssumption
  <1>3. committedB[Claim[c].commitment] \in Int
    BY <1>2, BoundsAssumption DEF Epochs
  <1>4. \A h \in Commitments : B!commitAdmissible(h) <=> takesCommitment(nodeB, h)
    BY <1>1 DEF B!commitAdmissible, takesCommitment, B!settlement_of, B!settlements_of,
                settledBy, nodeB, Node, Purse
  <1>5. B!revealAdmissible(c, t) <=>
                /\ takesClaim(t, nodeB, c) /\ citesFrontier(nodeB, c)
                /\ t \notin paidEpochs(nodeB.purse) /\ knowsItsReferences(nodeB, c)
    BY <1>2, <1>3 DEF B!revealAdmissible, takesClaim, citesFrontier, kindOf, paidEpochs,
            knowsItsReferences,
            B!epoch_is_drained, B!drained_epochs, B!accepted, acceptedOf, acceptedBy,
            nodeB, Node, Purse, B!Epochs, Epochs
  <1> QED BY <1>4, <1>5

\* Every step of node B.
LEMMA BSteps ==
    ASSUME Prompt, BeaconB = Beacon, now \in Epochs, posted = Objectives, outages = 0,
           NodeOK(now, nodeB), StepB
    PROVE  nodeStep(now, nodeB, nodeB')
  <1>0. now \in Int /\ SyncLag \in Nat
    BY BoundsAssumption DEF Epochs
  <1>00. /\ \A c \in Claims : Claim[c].created_at \in Epochs
                              /\ Claim[c].commitment \in Commitments
         /\ \A h \in Commitments : Commitment[h].created_at \in Epochs
    BY BoundsAssumption, ClaimAssumption, CommitmentAssumption
  <1>01. \A e \in Epochs : \A known : B!Deliverable(e, known) =>
                e <= now /\ now <= e + SyncLag
    BY <1>0, BoundsAssumption DEF B!Deliverable, Epochs
  <1>02. ASSUME NEW op, NEW w, NEW e, B!Enter(op, w, e),
                onTime(now, [op |-> op, what |-> w, at |-> e])
         PROVE  enters(now, nodeB, nodeB')
    <2>1. nodeB.pc = "idle" /\ nodeB'.pc = "drain"
          /\ nodeB'.call = [op |-> op, what |-> w, at |-> e]
      BY <1>02 DEF B!Enter, nodeB, Node
    <2>2. /\ nodeB'.committed = nodeB.committed /\ nodeB'.revealed = nodeB.revealed
          /\ nodeB'.verdict = nodeB.verdict /\ nodeB'.purse = nodeB.purse
      BY <1>02 DEF B!Enter, nodeB, Node, Purse, Phase, B!logVars
    <2> QED BY <1>02, <2>1, <2>2 DEF enters
  <1>1. CASE B!Tick
    <2>1. onTime(now, [op |-> "tick", what |-> 0, at |-> now])
      BY <1>0 DEF onTime
    <2> QED BY <1>1, <1>02, <2>1 DEF B!Tick, nodeStep
  <1>2. ASSUME NEW h \in Commitments, B!CommitCall(h) PROVE enters(now, nodeB, nodeB')
    <2> DEFINE e == Commitment[h].created_at
    <2>1. B!Enter("commit", h, e) /\ e \in Epochs /\ e <= now /\ now <= e + SyncLag
      BY <1>00, <1>01, <1>2 DEF B!CommitCall
    <2>2. onTime(now, [op |-> "commit", what |-> h, at |-> e])
      BY <2>1 DEF onTime
    <2> HIDE DEF e
    <2> QED BY <1>02, <2>1, <2>2
  <1>3. ASSUME NEW c \in Claims, B!RevealCall(c) PROVE enters(now, nodeB, nodeB')
    <2> DEFINE e == Claim[c].created_at
    <2>1. B!Enter("reveal", c, e) /\ e \in Epochs /\ e <= now /\ now <= e + SyncLag
      BY <1>00, <1>01, <1>3 DEF B!RevealCall, Prompt
    <2>2. onTime(now, [op |-> "reveal", what |-> c, at |-> e])
      BY <2>1 DEF onTime
    <2> HIDE DEF e
    <2> QED BY <1>02, <2>1, <2>2
  <1>4. CASE B!Settle
    BY <1>4, BSettles DEF nodeStep
  <1>5. Calling(now, nodeB) /\ committedB \in [Commitments -> Epochs \cup {0}]
    BY DEF NodeOK, Shaped, nodeB, Node
  <1>6. CASE B!TickReturns
    BY <1>6 DEF B!TickReturns, B!Drained, B!Return, quits, nodeStep, nodeB, Node, Purse,
           Phase, B!logVars
  <1>7. CASE B!CommitReturns
    <2>1. pcB = "drain" /\ pcB' = "idle" /\ callB.op = "commit"
      BY <1>7 DEF B!CommitReturns, B!Drained, B!Return
    <2>2. UNCHANGED <<revealedB, verdictB, receiptsB, totalB, frontierB, batchB, drainB>>
          /\ committedB' = IF B!commitAdmissible(callB.what) /\ committedB[callB.what] = 0
                     THEN [committedB EXCEPT ![callB.what] = callB.at] ELSE committedB
      BY <1>7 DEF B!CommitReturns
    <2>3. CASE committedB' = committedB
      BY <2>1, <2>2, <2>3 DEF quits, nodeStep, nodeB, Node, Purse, Phase
    <2>4. CASE /\ committedB[callB.what] = 0
               /\ committedB' = [committedB EXCEPT ![callB.what] = callB.at]
      BY <2>1, <2>2, <2>4 DEF commits, nodeStep, nodeB, Node, Purse, Phase
    <2> QED BY <2>2, <2>3, <2>4
  <1>8. CASE B!AppendClaim
    <2>1. pcB = "drain" /\ pcB' = "verdict" /\ callB.op = "reveal"
          /\ callB.what \in Claims /\ callB.at \in Int
          /\ B!revealAdmissible(callB.what, callB.at)
      BY <1>5, <1>8, BoundsAssumption
         DEF B!AppendClaim, B!Drained, Calling, onTime, nodeB, Node, Epochs
    <2>2. takesClaim(callB.at, nodeB, callB.what) /\ knowsItsReferences(nodeB, callB.what)
      BY <1>5, <2>1, BAdmits
    <2> QED BY <1>8, <2>1, <2>2 DEF B!AppendClaim, reveals, nodeStep, nodeB, Node,
           Purse, Phase
  <1>9. CASE B!RefuseClaim
    BY <1>9 DEF B!RefuseClaim, B!Drained, B!Return, quits, nodeStep, nodeB, Node, Purse,
           Phase, B!logVars
  <1>10. CASE B!AppendVerdict
    BY <1>10 DEF B!AppendVerdict, B!Return, judges, nodeStep, nodeB, Node, Purse, Phase,
           Prompt
  <1> QED BY <1>1, <1>2, <1>3, <1>4, <1>6, <1>7, <1>8, <1>9, <1>10
          DEF StepB, B!HandlerStep, nodeStep
-----------------------------------------------------------------------------
\* The invariant of two nodes that get every record in time: each has paid what
\* its log leads to, and unless one was refused a record of the other, their logs
\* agree on the epochs whose records have had their time.
ConvergenceInv ==
    /\ now \in Epochs /\ posted = Objectives /\ outages = 0
    /\ NodeOK(now, nodeA) /\ NodeOK(now, nodeB)
    /\ \/ refusedTo(now, nodeA, nodeB) \/ refusedTo(now, nodeB, nodeA)
       \/ Agreed(now, nodeA, nodeB)

\* Both start with empty logs.
LEMMA ConvergenceInit == InitAB => ConvergenceInv
  <1> SUFFICES ASSUME InitAB PROVE ConvergenceInv
    OBVIOUS
  <1>0. now \in Epochs /\ now = 1
    BY BoundsAssumption DEF InitAB, Epochs
  <1>1. nodeA = nodeB
    BY DEF InitAB, nodeA, nodeB
  <1>2. /\ nodeA.purse = EmptyPurse /\ nodeA.pc = "idle"
        /\ nodeA.committed = [h \in Commitments |-> 0]
        /\ nodeA.revealed = [c \in Claims |-> 0]
        /\ nodeA.verdict = [c \in Claims |-> "none"]
    BY DEF InitAB, nodeA, Node, Purse, EmptyPurse, Phase
  <1>3. /\ EmptyPurse.phase = "rest" /\ EmptyPurse.batch = [e \in Epochs |-> {}]
        /\ EmptyPurse.drain = NoDrain
    BY DEF EmptyPurse, Purse
  <1>4. Shaped(nodeA)
    <2>1. DrainShape(NoDrain)
      BY DEF DrainShape, NoDrain
    <2> QED BY <1>2, <1>3, <2>1 DEF Shaped, PurseShape, Phase, Stamps
  <1>5. Stamped(now, nodeA) /\ Judged(nodeA) /\ Calling(now, nodeA)
    BY <1>2 DEF Stamped, Judged, Calling
  <1>6. Timed(now, nodeA)
    BY <1>2, <1>3 DEF Timed, paidEpochs
  <1>7. Backed(nodeA) /\ InTurn(nodeA)
    BY <1>2 DEF Backed, InTurn, revealedBy
  <1>8. Traced(now, nodeA.revealed, acceptedOf(nodeA), nodeA.purse)
    <2> DEFINE f == [i \in {0} |-> EmptyPurse]
    <2>1. f[0] = EmptyPurse
      OBVIOUS
    <2>2. computes(now, nodeA.revealed, acceptedOf(nodeA), 0, f)
      BY <2>1 DEF computes
    <2> HIDE DEF f
    <2> QED BY <1>2, <2>1, <2>2 DEF Traced
  <1>9. Agreed(now, nodeA, nodeA)
    BY DEF Agreed, Alike
  <1>10. NodeOK(now, nodeA)
    BY <1>4, <1>5, <1>6, <1>7, <1>8 DEF NodeOK
  <1> QED BY <1>0, <1>1, <1>9, <1>10 DEF ConvergenceInv, InitAB

\* The clock's guard, node by node.
LEMMA ReachedBoth ==
    ASSUME ConvergenceInv, Reached
    PROVE  passedOn(now, nodeA, nodeB) /\ passedOn(now, nodeB, nodeA)
  <1>0. /\ committed \in [Commitments -> Epochs \cup {0}]
        /\ committedB \in [Commitments -> Epochs \cup {0}]
    BY DEF ConvergenceInv, NodeOK, Shaped, nodeA, nodeB, Node
  <1>1. posted = Objectives
    BY DEF ConvergenceInv
  <1>2. /\ \A c \in Claims : Claim[c].created_at \in Int
        /\ \A h \in Commitments : Commitment[h].created_at \in Int
    BY BoundsAssumption, ClaimAssumption, CommitmentAssumption DEF Epochs
  <1>3. /\ \A h \in Commitments : commitAdmissible(h) <=> takesCommitment(nodeA, h)
        /\ \A h \in Commitments : B!commitAdmissible(h) <=> takesCommitment(nodeB, h)
    <2>1. \A h \in Commitments : Commitment[h].objective \in Objectives
      BY CommitmentAssumption
    <2> QED BY <1>1, <2>1 DEF commitAdmissible, takesCommitment, settlement_of,
                settlements_of, settledBy, nodeA, Node, Purse, B!commitAdmissible,
                B!settlement_of, B!settlements_of, nodeB
  <1>4. \A c \in Claims : \A t \in Int :
            /\ revealAdmissible(c, t) <=>
                /\ takesClaim(t, nodeA, c) /\ citesFrontier(nodeA, c)
                /\ t \notin paidEpochs(nodeA.purse) /\ knowsItsReferences(nodeA, c)
            /\ B!revealAdmissible(c, t) <=>
                /\ takesClaim(t, nodeB, c) /\ citesFrontier(nodeB, c)
                /\ t \notin paidEpochs(nodeB.purse) /\ knowsItsReferences(nodeB, c)
    BY <1>0, <1>1, AAdmits, BAdmits
  <1>7. /\ nodeA.committed = committed /\ nodeA.revealed = revealed
        /\ nodeB.committed = committedB /\ nodeB.revealed = revealedB
    BY DEF nodeA, nodeB, Node
  <1>8. /\ \A h \in Commitments : Commitment[h].created_at + SyncLag <= now =>
            /\ committed[h] # 0 => committedB[h] # 0 \/ ~B!commitAdmissible(h)
            /\ committedB[h] # 0 => committed[h] # 0 \/ ~commitAdmissible(h)
        /\ \A c \in Claims : Claim[c].created_at + SyncLag <= now =>
            /\ revealed[c] # 0 =>
                    revealedB[c] # 0 \/ ~B!revealAdmissible(c, Claim[c].created_at)
            /\ revealedB[c] # 0 =>
                    revealed[c] # 0 \/ ~revealAdmissible(c, Claim[c].created_at)
    BY DEF Reached
  <1> HIDE DEF nodeA, nodeB
  <1>9. passedOn(now, nodeA, nodeB)
    BY <1>2, <1>3, <1>4, <1>7, <1>8 DEF passedOn
  <1>10. passedOn(now, nodeB, nodeA)
    BY <1>2, <1>3, <1>4, <1>7, <1>8 DEF passedOn
  <1> QED BY <1>9, <1>10

\* The invariant is kept by both nodes and the clock.
LEMMA ConvergenceStep ==
    ASSUME Prompt, BeaconB = Beacon, ConvergenceInv, [NextAB]_varsAB
    PROVE  ConvergenceInv'
  <1> USE DEF ConvergenceInv
  <1>1. CASE UNCHANGED varsAB
    <2>1. nodeA' = nodeA /\ nodeB' = nodeB /\ now' = now
          /\ posted' = posted /\ outages' = outages
      BY <1>1 DEF varsAB, varsA, varsB, shared, handlerVars, nodeA, nodeB, Node, Purse, Phase
    <2> QED BY <2>1
  <1>2. CASE StepA
    <2>1. nodeStep(now, nodeA, nodeA')
      BY <1>2, ASteps
    <2>2. nodeB' = nodeB
      BY <1>2 DEF StepA, varsB, nodeB
    <2>3. now' = now /\ posted' = posted /\ outages' = 0
      <3>1. CASE AppendVerdict
        BY <3>1 DEF AppendVerdict, Prompt
      <3>2. CASE Settle
        <4>1. ASSUME NEW c \in Claims, SettlePlain(c) \/ SettleUnit(c)
                     \/ AdvanceFrontier(c) \/ SettleNothing(c)
              PROVE  UNCHANGED <<now, posted, outages>>
          BY <4>1 DEF SettlePlain, SettleUnit, AdvanceFrontier,
                      SettleNothing, logVars
        <4>2. ASSUME StartBatch \/ PayImprovement \/ WriteBatch
              PROVE  UNCHANGED <<now, posted, outages>>
          BY <4>2 DEF StartBatch, PayImprovement, WriteBatch, logVars
        <4> QED BY <3>2, <4>1, <4>2 DEF Settle
      <3>3. CASE TickReturns \/ CommitReturns \/ AppendClaim \/ RefuseClaim
        BY <3>3 DEF TickReturns, CommitReturns, AppendClaim, RefuseClaim,
                    logVars
      <3>4. \A op, w, at : Enter(op, w, at) => UNCHANGED <<now, posted, outages>>
        BY DEF Enter, logVars
      <3>5. CASE \/ Tick \/ \E h \in Commitments : CommitCall(h)
                 \/ \E c \in Claims : RevealCall(c)
        BY <3>4, <3>5 DEF Tick, CommitCall, RevealCall
      <3> QED BY <1>2, <3>1, <3>2, <3>3, <3>5 DEF StepA, HandlerStep
    <2>4. NodeOK(now, nodeA')
      BY <2>1, NodeStepKeeps DEF Prompt
    <2>5. \/ refusedTo(now, nodeA', nodeB) \/ refusedTo(now, nodeB, nodeA')
          \/ Agreed(now, nodeA', nodeB)
      BY <2>1, AgreedStep, RefusalStays
    <2> QED BY <2>2, <2>3, <2>4, <2>5
  <1>3. CASE StepB
    <2>1. nodeStep(now, nodeB, nodeB')
      BY <1>3, BSteps
    <2>2. nodeA' = nodeA
      BY <1>3 DEF StepB, varsA, handlerVars, nodeA
    <2>3. now' = now /\ posted' = posted /\ outages' = 0
      <3>1. CASE B!AppendVerdict
        BY <3>1 DEF B!AppendVerdict, Prompt
      <3>2. CASE B!Settle
        <4>1. ASSUME NEW c \in Claims, B!SettlePlain(c) \/ B!SettleUnit(c)
                     \/ B!AdvanceFrontier(c) \/ B!SettleNothing(c)
              PROVE  UNCHANGED <<now, posted, outages>>
          BY <4>1 DEF B!SettlePlain, B!SettleUnit, B!AdvanceFrontier,
                      B!SettleNothing, B!logVars
        <4>2. ASSUME B!StartBatch \/ B!PayImprovement \/ B!WriteBatch
              PROVE  UNCHANGED <<now, posted, outages>>
          BY <4>2 DEF B!StartBatch, B!PayImprovement, B!WriteBatch, B!logVars
        <4> QED BY <3>2, <4>1, <4>2 DEF B!Settle
      <3>3. CASE B!TickReturns \/ B!CommitReturns \/ B!AppendClaim \/ B!RefuseClaim
        BY <3>3 DEF B!TickReturns, B!CommitReturns, B!AppendClaim, B!RefuseClaim,
                    B!logVars
      <3>4. \A op, w, at : B!Enter(op, w, at) => UNCHANGED <<now, posted, outages>>
        BY DEF B!Enter, B!logVars
      <3>5. CASE \/ B!Tick \/ \E h \in Commitments : B!CommitCall(h)
                 \/ \E c \in Claims : B!RevealCall(c)
        BY <3>4, <3>5 DEF B!Tick, B!CommitCall, B!RevealCall
      <3> QED BY <1>3, <3>1, <3>2, <3>3, <3>5 DEF StepB, B!HandlerStep
    <2>4. NodeOK(now, nodeB')
      BY <2>1, NodeStepKeeps DEF Prompt
    <2>5. \/ refusedTo(now, nodeA, nodeB') \/ refusedTo(now, nodeB', nodeA)
          \/ Agreed(now, nodeA, nodeB')
      <3>1. refusedTo(now, nodeA, nodeB) => refusedTo(now, nodeA, nodeB')
        BY <2>1, RefusalStays
      <3>2. refusedTo(now, nodeB, nodeA) => refusedTo(now, nodeB', nodeA)
        BY <2>1, RefusalStays
      <3>3. ASSUME Agreed(now, nodeA, nodeB) PROVE Agreed(now, nodeA, nodeB')
        <4>1. Agreed(now, nodeB, nodeA)
          BY <3>3, AgreedSymmetric
        <4>2. Agreed(now, nodeB', nodeA)
          BY <2>1, <4>1, AgreedStep
        <4> QED BY <4>2, AgreedSymmetric
      <3> QED BY <3>1, <3>2, <3>3
    <2> QED BY <2>2, <2>3, <2>4, <2>5
  <1>4. CASE AdvanceBoth
    <2>1. nodeA' = nodeA /\ nodeB' = nodeB /\ now' = now + 1
          /\ posted' = posted /\ outages' = outages
      BY <1>4 DEF AdvanceBoth, varsA, varsB, shared, handlerVars, nodeA, nodeB
    <2>2. nodeA.pc = "idle" /\ nodeB.pc = "idle"
      BY <1>4 DEF AdvanceBoth, nodeA, nodeB, Node
    <2>3. now + 1 \in Epochs
      BY <1>4, BoundsAssumption DEF AdvanceBoth, Epochs
    <2>4. passedOn(now, nodeA, nodeB) /\ passedOn(now, nodeB, nodeA)
      BY <1>4, ReachedBoth DEF AdvanceBoth
    <2>5. NodeOK(now + 1, nodeA) /\ NodeOK(now + 1, nodeB)
      BY <2>2, <2>3, ClockKeeps
    <2>6. \/ refusedTo(now + 1, nodeA, nodeB) \/ refusedTo(now + 1, nodeB, nodeA)
          \/ Agreed(now + 1, nodeA, nodeB)
      BY <2>2, <2>4, ClockAgrees, RefusalAges
    <2> QED BY <2>1, <2>3, <2>5, <2>6
  <1> QED BY <1>1, <1>2, <1>3, <1>4 DEF NextAB

\* Two nodes that every record reaches within the synchrony bound, in whatever order
\* and with whatever drains between, settle the same batches, pay the same claims and
\* stand at the same frontiers, for any objectives, records and ranks, unless commit or
\* reveal refused one a record of the other for what it had settled: what a node pays
\* is a function of its log's closed epochs, and those the logs agree on (node.rs
\* settle_due, commit, reveal, partition.rs FINALITY_EPOCHS).
THEOREM Convergent ==
    ASSUME Prompt, RanksAreNumbers, BeaconB = Beacon
    PROVE  SpecAB => []NodesConverge
  <1>1. ConvergenceInv /\ [NextAB]_varsAB => ConvergenceInv'
    BY ConvergenceStep
  <1>2. ASSUME ConvergenceInv, AllSettled, Agreed(now, nodeA, nodeB)
        PROVE  nodeA.purse = nodeB.purse
    <2>1. finishedAt(now, nodeA)
      BY <1>2 DEF AllSettled, due_epochs, dueAt, accepted_in_epoch, inEpoch, accepted,
           acceptedOf, acceptedBy, epoch_is_drained, drained_epochs, paidEpochs, nodeA,
           Node, Purse, finishedAt, Finished, Phase
    <2>2. finishedAt(now, nodeB)
      BY <1>2 DEF AllSettled, B!due_epochs, dueAt, B!accepted_in_epoch, inEpoch,
           B!accepted, acceptedOf, acceptedBy, B!epoch_is_drained, B!drained_epochs,
           paidEpochs, nodeB, Node, Purse, finishedAt, Finished, Phase, B!Epochs, Epochs
    <2> QED BY <1>2, <2>1, <2>2, SamePurse DEF ConvergenceInv, Prompt
  <1>3. nodeA.purse = nodeB.purse => SameSettlements
    BY DEF nodeA, nodeB, Node, Purse, SameSettlements
  <1>4. refusedTo(now, nodeA, nodeB) \/ refusedTo(now, nodeB, nodeA) => Refused
    BY DEF refusedTo, Refused, nodeA, nodeB, Node
  <1>5. ConvergenceInv => NodesConverge
    BY <1>2, <1>3, <1>4 DEF NodesConverge, ConvergenceInv
  <1> QED BY <1>1, <1>5, ConvergenceInit, PTL DEF SpecAB
=============================================================================
