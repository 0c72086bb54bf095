----------------------------- MODULE MCExchange -----------------------------
(***************************************************************************)
(* Two nodes.  Record 1 is a plain objective with commitments 2 and 5, whose *)
(* claims of epoch 2 are 7 and 8, and a later claim 6 of 5, of epoch 4, with *)
(* an id that sorts first.  3 is a ratchet objective with other code, 9 a    *)
(* commitment on it, 10 and 11 claims of epochs 2 and 4.  4 and 13 are       *)
(* commitments of epoch 4 on either objective, 12 one too large for a        *)
(* message.  Candidate 2 claims a score it does not have.                   *)
(***************************************************************************)
EXTENDS Exchange

MCNodes == {1, 2}
MCRecords == 1 .. 13
MCKind == <<"objective", "commitment", "objective", "commitment", "commitment",
            "claim", "claim", "claim", "commitment", "claim", "claim",
            "commitment", "commitment">>
MCBucket == <<0, 1, 0, 0, 0, 1, 1, 1, 1, 0, 1, 1, 0>>
MCAfter == <<{}, {1}, {}, {1}, {1}, {1, 5}, {1, 2}, {1, 5}, {3}, {3, 9}, {3, 9},
             {1}, {3}>>
MCEpoch == <<1, 1, 1, 4, 1, 4, 2, 2, 1, 2, 4, 1, 4>>
MCSize == [r \in MCRecords |-> IF r = 12 THEN 2 ELSE 1]
MCRule == [r \in MCRecords |-> IF r = 3 THEN "ratchet" ELSE "plain"]
MCScore == [r \in MCRecords |-> r]
MCBlobs == {1, 2}
MCChecker == [r \in MCRecords |-> IF r \in {3, 9, 10, 11, 13} THEN 2 ELSE 1]
MCClients == <<{7, 10}, {4, 6, 8, 11, 12, 13}>>
MCClocks == {1, 2, 4}

MCCandidates == 1 .. 3
MCAbout == <<1, 1, 3>>
MCClaimed == <<5, 9, 3>>
MCActual == <<5, 1, 3>>
MCIsland == <<0, 0, 0>>

Hint(i, q, p) == [identity |-> i, seq |-> q, pinned |-> p]
MCHints == <<{Hint(2, 2, FALSE)}, {Hint(3, 1, FALSE)}>>
MCPeers == <<{[identity |-> 1, seq |-> 1]}, {[identity |-> 2, seq |-> 1]}>>

World(c, l, b, p) ==
    [carries |-> c, log |-> l, blobs |-> b, pop |-> p, hints |-> MCHints,
     peers |-> MCPeers]

\* Each node has what the other lacks; node 1 gossips a lie about an objective
\* whose code nobody has; node 2 is an auditor without a population; node 1 is
\* a whole message ahead, and more once its clients write; both work on the plain
\* objective; both work on the ratchet.
MCWorlds ==
    {World({1, 2}, <<{1, 2}, {3}>>, <<{1}, {2}>>, <<{1}, {3}>>),
     World({1, 2}, <<{1, 2}, {3}>>, <<{}, {2}>>, <<{2}, {3}>>),
     World({1}, <<{1, 2}, {3}>>, <<{1}, {2}>>, <<{1}, {}>>),
     World({}, <<{1, 2, 3}, {}>>, <<{1, 2}, {}>>, <<{}, {}>>),
     World({}, <<{1, 2, 3, 5}, {1, 2, 3, 5}>>, <<{1, 2}, {1, 2}>>, <<{}, {}>>),
     World({}, <<{3, 9}, {3, 9}>>, <<{2}, {2}>>, <<{}, {}>>)}
=============================================================================
