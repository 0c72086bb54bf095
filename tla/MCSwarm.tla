------------------------------ MODULE MCSwarm -------------------------------
(***************************************************************************)
(* Leeches 1 and 2, peers 1 and 2, a blob of three pieces.                  *)
(***************************************************************************)
EXTENDS Swarm

MCPieces == 1 .. 3
all == [p \in Peers |-> Pieces]
none == [p \in Peers |-> {}]
true == [p \in Peers |-> "true"]
good == [p \in Peers |-> "good"]
Limit(m, u, n, e) ==
    [max_in_flight |-> m, unchoke_slots |-> u, max_peers |-> n, endgame_at |-> e]
World(links, holds, gains, manifest, serves, lim, f) ==
    [links |-> links, holds |-> holds, gains |-> gains, manifest |-> manifest,
     serves |-> serves, limits |-> lim, faults |-> f]
two == {<<1, 1>>, <<1, 2>>}     \* one leech, both peers
both == {<<1, 1>>, <<2, 1>>}    \* both leeches, one peer

\* Two seeds, in the endgame from the start as the program's limits have it, and
\* entering it with the last piece; a seed that can lose the endgame to a peer
\* with one piece, and nobody is left for the rest; a peer that gains a part of
\* the blob; a peer that serves junk; one that claims another blob; one that
\* forges the manifest; one without the blob; two leeches with a slot each, at
\* one peer and at two; more leeches than slots; more leeches than connections.
MCWorlds ==
    { World(two, all, none, true, good, Limit(3, 2, 2, 3), 1),
      World(two, all, none, true, good, Limit(1, 2, 2, 1), 1),
      World(two, <<Pieces, {2}>>, none, true, good, Limit(3, 2, 2, 3), 0),
      World(two, <<Pieces, {3}>>, <<{}, {1}>>, true, good, Limit(2, 2, 2, 1), 1),
      World(two, all, none, true, <<"good", "junk">>, Limit(2, 2, 2, 1), 1),
      World(two, all, none, <<"true", "other">>, good, Limit(2, 2, 2, 0), 1),
      World(two, all, none, <<"true", "forged">>, <<"good", "junk">>, Limit(3, 2, 2, 0), 1),
      World(two, all, none, <<"true", "absent">>, good, Limit(3, 2, 2, 0), 1),
      World(both, all, none, true, good, Limit(2, 2, 2, 0), 0),
      World(both \cup two, <<{1, 2}, {2}>>, none, true, good, Limit(1, 2, 2, 1), 0),
      World(both, <<{1}, {}>>, none, true, good, Limit(1, 1, 2, 0), 0),
      World(both, all, none, true, good, Limit(3, 2, 1, 0), 1) }
=============================================================================
