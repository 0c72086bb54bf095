---------------------------- MODULE MCConvergence ----------------------------
(***************************************************************************)
(* A progressive objective, a certificate and piecework, every record up to *)
(* an epoch late.  Claims 1 and 4 compete in one epoch, and 2 was made in   *)
(* the next one before they were settled.  The piecework of 6 names claim 3 *)
(* on the certificate; commitment 5, opened by 5, was made before 3 was     *)
(* paid.                                                                    *)
(***************************************************************************)
EXTENDS Convergence, TLC

NoRatchet ==
    [direction |-> "maximize", baseline |-> 0, target |-> 1,
     min_improvement |-> 1, reward |-> 0]

TheObjectives ==
    1 :> [kind |-> "ratchet", reward |-> 3, unit_price |-> 0, job |-> "none",
          ratchet |-> [direction |-> "maximize", baseline |-> 0, target |-> 4,
                       min_improvement |-> 1, reward |-> 3]] @@
    2 :> [kind |-> "plain", reward |-> 2, ratchet |-> NoRatchet,
          unit_price |-> 0, job |-> "none"] @@
    3 :> [kind |-> "piecework", reward |-> 3, ratchet |-> NoRatchet,
          unit_price |-> 1, job |-> "job"]

Opens(o, at) == [objective |-> o, created_at |-> at, sealed |-> FALSE]

TheCommitments ==
    1 :> Opens(1, 1) @@ 2 :> Opens(1, 1) @@ 3 :> Opens(2, 1) @@
    4 :> Opens(3, 2) @@ 5 :> Opens(2, 3)

Work(o, h, a, at, score, cites) ==
    [objective |-> o, commitment |-> h, artifact |-> a, created_at |-> at,
     cites |-> cites, relations |-> {}, judge |-> "accept", score |-> score,
     units |-> {}]
Batch(h, a, at, units) == [Work(3, h, a, at, NoScore, {}) EXCEPT !.units = units]

TheClaims ==
    1 :> Work(1, 1, "a", 2, 2, {}) @@
    2 :> Work(1, 2, "b", 3, 4, {}) @@
    3 :> Work(2, 3, "c", 2, NoScore, {}) @@
    4 :> Work(1, 2, "d", 2, 3, {}) @@
    5 :> Work(2, 5, "e", 4, NoScore, {}) @@
    6 :> [Batch(4, "f", 3, {"x", "y"}) EXCEPT !.relations = {3}]

FlippingRank(e, anchor, h) ==
    IF Cardinality(DOMAIN anchor) % 2 = 0 THEN h ELSE 10 - h

\* A block hash was recorded in one epoch.
TheBeacons == [e \in Epochs |-> IF e = 2 THEN <<"block">> ELSE NoBeacon]
=============================================================================
