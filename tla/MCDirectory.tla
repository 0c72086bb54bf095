----------------------------- MODULE MCDirectory -----------------------------
(***************************************************************************)
(* Two other peers that share a bucket with room for one.  Peer 1 is known  *)
(* at the start and names 2; 2 has a record in the log, so its key can be   *)
(* asked for.  2 holds both pieces of code, relays 1 as a holder, which it  *)
(* is not, and names the node itself.  Both dial this node.                 *)
(***************************************************************************)
EXTENDS Directory

MCPeers == {1, 2}
MCCallers == {1, 2}
MCKeys == {1, 2}
MCDistance == [k \in MCKeys |-> [p \in MCPeers \cup {0} |-> IF k = 1 THEN p ELSE 3 - p]]
MCBucketOf == <<0, 0>>
MCLogPeers == {[id |-> 2, seq |-> 1]}
MCBootstrap == {1}
MCCloser == <<{2}, {0, 1}>>
MCRelays == [p \in MCPeers |-> [k \in MCKeys |-> IF p = 2 /\ k = 1 THEN {1} ELSE {}]]
MCHolds == <<{}, {1, 2}>>
MCServes == <<{2}, {}>>
=============================================================================
