------------------------------ MODULE MCSealed -------------------------------
(***************************************************************************)
(* Four peers, of whom b lies; committees of three that may grow to four.  *)
(***************************************************************************)
EXTENDS Sealed, TLC

MCIssuances == {[holder |-> "t", units |-> 3], [holder |-> "a", units |-> 4]}

MCObjective == "o1" :> [funder |-> "t", reward |-> 1, tier |-> "lean"]
MCEmbargo   == "o1" :> 1
MCSeal      == [s \in Seals |-> [objective |-> "o1", submitter |-> "a"]]
SealSymmetry == Permutations(Seals)

MCPeerRecords ==
    LET peer(i, tr, seq, turn) ==
            [identity |-> i, transport |-> tr, seq |-> seq, turn |-> turn]
    IN  {peer("t", 1, 1, 1), peer("b", 2, 1, 2), peer("a", 3, 1, 3),
         peer("c", 4, 1, 4), peer("t", 5, 2, 4)}

\* A rotation of the transports by epoch and anchor.
MCRank(e, anchor, transport) == (transport + e + anchor) % 5

MCDraw(i, u, beacon, height) == 0
NoRecords == [x \in {} |-> 0]

\* Which records share a log: shares and openings without a supply, and the
\* custody of sealed value with one.
MCWorlds ==
    { "objective" :> 1 @@ "peer" :> 3 @@ "commitment" :> 1
      @@ "committee_share" :> 3 @@ "claim" :> 1,
      "objective" :> 1 @@ "peer" :> 4 @@ "commitment" :> 1 @@ "committee_share" :> 1,
      "objective" :> 1 @@ "peer" :> 4 @@ "commitment" :> 2,
      "issuance" :> 2 @@ "objective" :> 1 @@ "peer" :> 3 @@ "commitment" :> 2 }
=============================================================================
