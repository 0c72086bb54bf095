----------------------------- MODULE MCEconomy -------------------------------
(***************************************************************************)
(* A small economy: a treasury t and a worker a, two verifier kinds.       *)
(***************************************************************************)
EXTENDS Economy, TLC

MCIssuances == {[holder |-> "t", units |-> 6], [holder |-> "a", units |-> 3]}

MCObjective == "o1" :> [funder |-> "t", reward |-> 3, tier |-> "lean"]
            @@ "o2" :> [funder |-> "a", reward |-> 3, tier |-> "cert"]
            @@ "o3" :> [funder |-> "a", reward |-> 2, tier |-> "cert"]
MCClaim     == "c1" :> [objective |-> "o1", submitter |-> "a", truth |-> "accept"]
            @@ "c2" :> [objective |-> "o2", submitter |-> "t", truth |-> "accept"]
            @@ "c3" :> [objective |-> "o1", submitter |-> "t", truth |-> "reject"]
MCPool      == "p1" :> [funder |-> "t", per_epoch |-> 3, from_epoch |-> 2,
                        to_epoch |-> 3]
            @@ "p2" :> [funder |-> "t", per_epoch |-> 1, from_epoch |-> 1,
                        to_epoch |-> 2]

\* A draw that depends on the beacon and on the promise.
MCDraw(i, u, beacon, height) == (beacon[1] + beacon[2] + u) % height

\* Which records share a log, and how many of each: work and verdicts, work and
\* disputes, typed work, work and beacons, and availability.
MCWorlds ==
    LET work == "issuance" :> 1 @@ "objective" :> 1 @@ "claim" :> 1 @@ "batch" :> 1
    IN  { work @@ "attestation" :> 2 @@ "verification_slash" :> 2,
          "claim" :> 2 @@ work @@ "attestation" :> 1 @@ "verification_slash" :> 1,
          work @@ "challenge" :> 2 @@ "challenge_settlement" :> 2,
          "objective" :> 3 @@ "issuance" :> 2 @@ work,
          "objective" :> 2 @@ "claim" :> 2 @@ "batch" :> 2 @@ "beacon" :> 1,
          "issuance" :> 1 @@ "objective" :> 1 @@ "availability_pool" :> 1
          @@ "undertaking" :> 2 @@ "availability" :> 1
          @@ "availability_settlement" :> 1 }

\* mul_div_floor is the rounded-down quotient, for every share of a total.
ASSUME MulDivFloorIsTheQuotient ==
    \A value \in 0 .. 12, total \in 1 .. 9 : \A weight \in 0 .. total :
        mul_div_floor(value, weight, total) = (value * weight) \div total
=============================================================================
