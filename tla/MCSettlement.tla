---------------------------- MODULE MCSettlement -----------------------------
(***************************************************************************)
(* Small instances of Settlement for TLC.                                  *)
(***************************************************************************)
EXTENDS Settlement, TLC

NoRatchet ==
    [direction |-> "maximize", baseline |-> 0, target |-> 1,
     min_improvement |-> 1, reward |-> 0]

PlainObjective(reward) ==
    [kind |-> "plain", reward |-> reward, ratchet |-> NoRatchet,
     unit_price |-> 0, job |-> "none"]

RatchetObjective(reward, target, min) ==
    [kind |-> "ratchet", reward |-> reward, unit_price |-> 0, job |-> "none",
     ratchet |-> [direction |-> "maximize", baseline |-> 0, target |-> target,
                  min_improvement |-> min, reward |-> reward]]

PieceworkObjective(reward, price, job) ==
    [kind |-> "piecework", reward |-> reward, ratchet |-> NoRatchet,
     unit_price |-> price, job |-> job]

OpenCommitment(o, at) == [objective |-> o, created_at |-> at, sealed |-> FALSE]
SealedCommitment(o, at) == [objective |-> o, created_at |-> at, sealed |-> TRUE]

BareClaim(o, h, a, at) ==
    [objective |-> o, commitment |-> h, artifact |-> a, created_at |-> at,
     cites |-> {}, relations |-> {}, judge |-> "accept", score |-> NoScore,
     units |-> {}]

\* The order of the hashes flips with every batch of the chain, so that it
\* depends on the anchor and on nothing a submitter chooses.
FlippingRank(e, anchor, h) ==
    IF Cardinality(DOMAIN anchor) % 2 = 0 THEN h ELSE 100 - h

\* A block hash was recorded in one epoch.
TheBeacons == [e \in Epochs |-> IF e = 2 THEN <<"block">> ELSE NoBeacon]
-----------------------------------------------------------------------------
(* Four logs.  Certificates, objectives 1 and 2: two claims of one epoch     *)
(* compete, a third copies an artifact in the next one, and one commitment   *)
(* is opened by two claims.                                                  *)
(* A progressive objective, 3: four units of score for a pool of three, so   *)
(* that truncation eats some steps.  Claims 11 and 12 compete in one epoch,  *)
(* 13 builds on the first of them, and 14 cites both.                        *)
(* Piecework, 4 and 5: pools of five and two units of money at two a unit,   *)
(* the second topping up the first; batches overlap within an epoch and      *)
(* across epochs.                                                            *)
(* Two jobs, 5 and 6, whose claims of one epoch carry a unit in common.      *)
Improvement(o, h, a, at, score, cites) ==
    [BareClaim(o, h, a, at) EXCEPT !.score = score, !.cites = cites]
Batch(o, h, a, at, units) == [BareClaim(o, h, a, at) EXCEPT !.units = units]

FourWorlds == {{1, 2}, {3}, {4, 5}, {5, 6}}
WorldObjectives ==
    1 :> PlainObjective(3) @@ 2 :> PlainObjective(2) @@
    3 :> RatchetObjective(3, 4, 1) @@
    4 :> PieceworkObjective(5, 2, "job") @@ 5 :> PieceworkObjective(2, 2, "job") @@
    6 :> PieceworkObjective(5, 2, "other")
WorldCommitments ==
    1 :> OpenCommitment(1, 1) @@ 2 :> OpenCommitment(1, 1) @@
    3 :> OpenCommitment(2, 2) @@
    11 :> OpenCommitment(3, 1) @@ 12 :> SealedCommitment(3, 1) @@
    13 :> OpenCommitment(3, 2) @@ 14 :> OpenCommitment(3, 3) @@
    21 :> OpenCommitment(4, 1) @@ 22 :> OpenCommitment(4, 1) @@
    23 :> OpenCommitment(5, 1) @@ 24 :> OpenCommitment(4, 2) @@
    25 :> OpenCommitment(6, 1)
WorldClaims ==
    1 :> BareClaim(1, 1, "a", 2) @@
    2 :> BareClaim(1, 2, "b", 2) @@
    3 :> [BareClaim(2, 3, "b", 3) EXCEPT !.relations = {2}] @@
    4 :> BareClaim(1, 1, "a", 3) @@
    11 :> Improvement(3, 11, "a", 2, 2, {}) @@
    12 :> Improvement(3, 12, "b", 1, 1, {}) @@
    13 :> Improvement(3, 13, "c", 4, 5, {11}) @@
    14 :> Improvement(3, 14, "d", 4, 3, {11, 12}) @@
    21 :> Batch(4, 21, "a", 2, {"x", "y"}) @@
    22 :> Batch(4, 22, "b", 2, {"y", "z"}) @@
    23 :> Batch(5, 23, "c", 2, {"x"}) @@
    24 :> Batch(4, 24, "d", 3, {"w"}) @@
    25 :> Batch(6, 25, "d", 2, {"w", "x"})
-----------------------------------------------------------------------------
(* A certificate beside a progressive objective, for deliveries beyond the   *)
(* finality delay: claims 1 and 2 compete for the certificate, 3 and 4 for   *)
(* the curve, in two epochs.                                                 *)
MixedObjectives  == 1 :> RatchetObjective(3, 4, 2) @@ 2 :> PlainObjective(2)
MixedCommitments ==
    1 :> OpenCommitment(2, 1) @@ 2 :> OpenCommitment(2, 1) @@
    3 :> OpenCommitment(1, 1) @@ 4 :> OpenCommitment(1, 2)
MixedClaims ==
    1 :> BareClaim(2, 1, "a", 2) @@
    2 :> BareClaim(2, 2, "b", 2) @@
    3 :> Improvement(1, 3, "c", 3, 2, {}) @@
    4 :> Improvement(1, 4, "d", 3, 4, {})
-----------------------------------------------------------------------------
(* One certificate revealed in two epochs.                                   *)
OutageObjectives  == 1 :> PlainObjective(3)
OutageCommitments == 1 :> OpenCommitment(1, 1) @@ 2 :> OpenCommitment(1, 1)
OutageClaims ==
    1 :> BareClaim(1, 1, "a", 2) @@ 2 :> BareClaim(1, 2, "a", 3)
=============================================================================
