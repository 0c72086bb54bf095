------------------------------ MODULE Exchange ------------------------------
(***************************************************************************)
(* Sessions between two nodes: src/src/p2p/session.rs and the message      *)
(* families it drives (sync.rs, code.rs, peers.rs, pop.rs), as service.rs   *)
(* runs them one after the other on a connection: records, verifier code,   *)
(* DHT, peer hints, populations.                                            *)
(*                                                                         *)
(* Both ends run the same program.  A step here is what one end does        *)
(* between two receives: it takes the message it waits for, computes, and   *)
(* sends its next one.  A connection may be lost at any time; what was sent *)
(* before may or may not arrive, and the two ends learn of it separately.   *)
(*                                                                         *)
(* Abstractions: an id is the record, so that a body always hashes to the   *)
(* id it is asked under; an inventory's count and XOR per bucket are the    *)
(* bucket's ids, so that no two different buckets look alike; Hello travels *)
(* with Inventory, and the three pairs of the DHT round, always exchanged,  *)
(* are one pair (Directory models what they do).  Of a node's rules there   *)
(* is what depends on what else it holds: the drain before a commitment or  *)
(* a claim, and the refusals that follow from it (Settlement models the     *)
(* rest, and who is paid).  Every claim verifies where its checker is held; *)
(* an epoch stands for created_at, and ids break its ties.                  *)
(***************************************************************************)
EXTENDS Integers, Sequences, FiniteSets, FiniteSetsExt, SequencesExt

CONSTANTS
    Nodes,            \* the two ends
    Records, Kind, Bucket, After, Epoch, Size,
                      \* kind, inventory bucket, what it names, epoch, bytes
    Rule, Score,      \* an objective's rule, a claim's score
    Blobs, Checker,   \* verifier code, and the code an objective pins
    Candidates, About, Claimed, Actual, Island,
                      \* objective, claimed and real score, island
    MaxIds, MaxRecords, MaxBytes, MaxBlobs, MaxHintRecords, MaxHints, Capacity,
                      \* the code's limits: per message, per store, per island
    Clients,          \* the records a node's own clients may author
    FinalityEpochs,
    Clocks, MaxCuts,  \* the epochs in which something happens
    Worlds            \* what the two nodes hold at first

other(n) == CHOOSE m \in Nodes : m # n

ASSUME ExchangeAssumption ==
    /\ \E a, b \in Nodes : a # b /\ Nodes = {a, b}
    /\ Kind \in [Records -> {"objective", "commitment", "claim"}]
    /\ \A r \in Records : Kind[r] = "objective" =>
            Rule[r] \in {"plain", "ratchet", "piecework"}
    /\ After \in [Records -> SUBSET Records]
    /\ Checker \in [Records -> Blobs]
    /\ IsFiniteSet(Blobs)
    /\ Clients \in [Nodes -> SUBSET Records]
    /\ About \in [Candidates -> Records]
    /\ \A x \in {MaxIds, MaxRecords, MaxBytes, MaxBlobs, MaxHintRecords,
                 MaxHints, Capacity} : x \in Nat \ {0}

\* A commitment names its objective, a claim its objective, its commitment and
\* the claims it cites, of earlier epochs; a log holds what its records name.
ASSUME RecordsAssumption ==
    /\ \A r \in Records :
        /\ Kind[r] = "objective" => After[r] = {}
        /\ Kind[r] # "objective" => \E o \in After[r] : Kind[o] = "objective"
        /\ \A d \in After[r] :
            \/ Kind[d] = "objective" /\ Epoch[d] <= Epoch[r]
            \/ Kind[r] = "claim" /\ Epoch[d] < Epoch[r]
    /\ \A w \in Worlds :
        /\ w.log \in [Nodes -> SUBSET Records]
        /\ w.blobs \in [Nodes -> SUBSET Blobs]
        /\ \A n \in Nodes : \A r \in w.log[n] : After[r] \subseteq w.log[n]
        /\ DOMAIN w.hints = Nodes /\ DOMAIN w.pop = Nodes

VARIABLES
    carries,    \* the nodes that run with a population
    log,        \* a node's records
    blobs,      \* the verifier code it holds
    hints,      \* its peer hints: [identity, seq, pinned]
    peers,      \* the peer records of its log: [identity, seq]
    pop,        \* its population
    unjudged,   \* claims it admitted while their checker was missing
    drained,    \* the epochs it has settled
    now,        \* the epoch of its clock
    link,       \* "up" or "cut"
    cuts,       \* connections lost so far
    chan,       \* the messages on their way to a node
    at          \* a node's side of the session, and the staging peer in it

vars == <<carries, log, blobs, hints, peers, pop, unjudged, drained, now, link,
          cuts, chan, at>>
world == <<carries, peers, now, cuts>>

\* pc is the message the node waits for.  held and outstanding are the staging
\* Peer's, buckets the differing buckets still to compare, want the ids it
\* asked for in this round, needs the code it lacks.
Idle == [pc |-> "idle", held |-> {}, outstanding |-> {}, buckets |-> {},
         want |-> {}, needs |-> {}]

Msg(t, body) == [t |-> t, body |-> body]

Init ==
    /\ \E w \in Worlds :
        /\ carries = w.carries /\ log = w.log /\ blobs = w.blobs
        /\ pop = w.pop /\ peers = w.peers /\ hints = w.hints
    /\ unjudged = [n \in Nodes |-> {}] /\ drained = [n \in Nodes |-> {}]
    /\ now = [n \in Nodes |-> Min(Clocks)]
    /\ link = "cut" /\ cuts = 0
    /\ chan = [n \in Nodes |-> <<>>]
    /\ at = [n \in Nodes |-> Idle]
-----------------------------------------------------------------------------
(* Records: sync.rs, and service.rs for what a session does with them.       *)

bucket_ids(held, b) == {r \in held : Bucket[r] = b}

\* Mutant of inventory: a bucket is summarised by its count alone.
inventory_counts(held) ==
    [b \in {Bucket[r] : r \in Records} |-> Cardinality(bucket_ids(held, b))]

inventory(held) == [b \in {Bucket[r] : r \in Records} |-> bucket_ids(held, b)]

\* Inventory::differing; the session compares the least of them next.
differing(mine, theirs) == {b \in DOMAIN mine : mine[b] # theirs[b]}

want_from(a, ids) == {r \in ids : r \notin a.held /\ r \notin a.outstanding}

\* Peer::ingest refuses a whole message over the limit, and any record that is
\* too large, whatever the rest of the message holds.
refused(a, records) ==
    IF Cardinality(records) > MaxRecords THEN records
    ELSE {r \in records : Size[r] > MaxBytes \/ r \notin a.outstanding \cup a.held}

objective_of(r) == CHOOSE o \in After[r] : Kind[o] = "objective"

\* A node's rules work on its store: log, drained, unjudged.
accepted_claims(s) == {c \in s.log \ s.unjudged : Kind[c] = "claim"}

\* Node::due_epochs: closed, final, with an accepted claim, and later than
\* everything settled.
due_epochs(s, epoch) ==
    {e \in {Epoch[c] : c \in accepted_claims(s)} :
        e + FinalityEpochs < epoch /\ \A d \in s.drained : d < e}

settle_due(s, epoch) == [s EXCEPT !.drained = @ \cup due_epochs(s, epoch)]

\* The claims of an objective that its settlements have weighed, and the best.
settled_claims(s, o) ==
    {c \in accepted_claims(s) : objective_of(c) = o /\ Epoch[c] \in s.drained}
latest_frontier(s, o) ==
    {c \in settled_claims(s, o) : \A d \in settled_claims(s, o) : Score[d] <= Score[c]}

\* Node::commit: AlreadySettled; Node::reveal: EpochAlreadySettled,
\* UnknownCitation, MissingFrontierCitation; both: what the record names.
admissible(s, r) ==
    /\ After[r] \subseteq s.log \ s.unjudged
    /\ Kind[r] = "commitment" /\ Rule[objective_of(r)] = "plain" =>
            settled_claims(s, objective_of(r)) = {}
    /\ Kind[r] = "claim" => Epoch[r] \notin s.drained
    /\ Kind[r] = "claim" /\ Rule[objective_of(r)] = "ratchet" =>
            latest_frontier(s, objective_of(r)) \subseteq After[r]

\* Node::post_objective, commit, reveal at the record's own instant: the last two
\* drain what is due by then, admitted or not.
replay_record(s, r, code) ==
    LET due == IF Kind[r] = "objective" THEN s ELSE settle_due(s, Epoch[r]) IN
    IF ~admissible(due, r) THEN due
    ELSE [due EXCEPT !.log = @ \cup {r},
                     !.unjudged = @ \cup {c \in {r} : /\ Kind[c] = "claim"
                                         /\ Checker[objective_of(c)] \notin code}]

KindOrder == [objective |-> 1, commitment |-> 2, claim |-> 3]

\* Mutant of replayed_before: within a kind, records replay in the order of ids.
replayed_by_id(r, s) ==
    \/ KindOrder[Kind[r]] < KindOrder[Kind[s]]
    \/ Kind[r] = Kind[s] /\ r < s

\* Kind by kind, and within a kind by created_at.
replayed_before(r, s) ==
    \/ KindOrder[Kind[r]] < KindOrder[Kind[s]]
    \/ Kind[r] = Kind[s] /\ (Epoch[r] < Epoch[s] \/ (Epoch[r] = Epoch[s] /\ r < s))

replay_records(s, records, code) ==
    FoldLeft(LAMBDA acc, r : replay_record(acc, r, code), s,
             SetToSortSeq(records, replayed_before))

\* Mutant of needed_code: only the objectives of the log are looked at.
needed_by_log(n, held) ==
    {Checker[o] : o \in {r \in log[n] : Kind[r] = "objective"}} \ blobs[n]

\* The code pinned by the objectives of the log and of the staging peer.
needed_code(n, held) ==
    {Checker[o] : o \in {r \in log[n] \cup held : Kind[r] = "objective"}}
        \ blobs[n]

\* code.rs serve: the first MaxBlobs of the addresses wanted, in their order.
served(S) == {b \in S : Cardinality({c \in S : c <= b}) <= MaxBlobs}

store(n) == [log |-> log[n], drained |-> drained[n], unjudged |-> unjudged[n]]

\* What replay_records does not skip: records the log lacks, of no epoch later
\* than the clock, that name nothing unknown to both logs.
replayable(n, held) ==
    {r \in held \ log[n] : Epoch[r] <= now[n] /\ After[r] \subseteq log[n] \cup held}

\* apply_records: what the staging peer holds is replayed into the log, each
\* claim with the verdict its checker allows, and what came due is settled.
applied(n, held, code) ==
    LET new == replayable(n, held)
        after == settle_due(replay_records(store(n), new, code), now[n])
        taken == new \cap after.log
    IN
    /\ log' = [log EXCEPT ![n] = @ \cup taken]
    /\ drained' = [drained EXCEPT ![n] = after.drained]
    /\ unjudged' = [unjudged EXCEPT ![n] = @ \cup
            {c \in taken : /\ Kind[c] = "claim"
                           /\ Checker[objective_of(c)] \notin code}]
-----------------------------------------------------------------------------
(* Peer hints: peers.rs Hints::admit.                                        *)
held_hint(H, id) == CHOOSE h \in H : h.identity = id
knows(H, id) == \E h \in H : h.identity = id
hint_id(h) == [identity |-> h.identity, seq |-> h.seq]
hint_ids(H) == {hint_id(h) : h \in H}
unpinned(H) == Cardinality({h \in H : ~h.pinned})

\* The store after a record was offered to it.
admit(H, r, pinned) ==
    IF knows(H, r.identity)
    THEN LET h == held_hint(H, r.identity) IN
         IF r.seq < h.seq THEN H
         ELSE (H \ {h}) \cup {[identity |-> r.identity, seq |-> r.seq,
                               pinned |-> h.pinned \/ pinned]}
    ELSE IF ~pinned /\ unpinned(H) >= MaxHints THEN H
         ELSE H \cup {[identity |-> r.identity, seq |-> r.seq, pinned |-> pinned]}

\* The order in which a message lists hints, and their admission one by one.
hintSeq(S) ==
    SetToSortSeq(S, LAMBDA x, y : \/ x.identity < y.identity
                                  \/ x.identity = y.identity /\ x.seq < y.seq)
admit_all(H, S, pinned) ==
    FoldLeft(LAMBDA acc, r : admit(acc, r, pinned), H, hintSeq(S))

pin_hints_from_log(n) == admit_all(hints[n], peers[n], TRUE)

\* Hints::serve: what it holds of the ids wanted, up to a message's limit.
serve_hints(H, ids) ==
    LET s == hintSeq(ids \cap hint_ids(H))
    IN  ToSet(SubSeq(s, 1, Min({Len(s), MaxHintRecords})))
-----------------------------------------------------------------------------
(* Populations: gossip.rs Population and pop.rs.                             *)
outranks(c, d) == \/ Claimed[c] > Claimed[d]
                  \/ Claimed[c] = Claimed[d] /\ c > d

\* The top Capacity of every island.
prune(P) ==
    {c \in P : Cardinality({d \in P : Island[d] = Island[c] /\ outranks(d, c)})
                    < Capacity}

\* RoundScorer::score: a candidate of an objective the node does not know, or
\* whose checker it cannot run, has no score.
reproduces(n, c) ==
    /\ About[c] \in log[n] /\ Checker[About[c]] \in blobs[n]
    /\ Actual[c] = Claimed[c]

\* pop.rs ingest_candidates, one by one.
ingest_candidates(n, offered) ==
    FoldLeft(LAMBDA acc, c : IF c \in at[n].want /\ c \notin acc /\ reproduces(n, c)
                             THEN prune(acc \cup {c}) ELSE acc,
             pop[n], SetToSortSeq(offered, LAMBDA x, y : x < y))
-----------------------------------------------------------------------------
(* A session: session.rs, in the order service.rs runs the rounds.           *)

Got(n, t) == at[n].pc = t /\ chan[n] # <<>> /\ Head(chan[n]).t = t
Body(n) == Head(chan[n]).body

\* The node consumed what it waited for, sent m, and waits for the next message.
Go(n, a, m) ==
    /\ at' = [at EXCEPT ![n] = a]
    /\ chan' = [chan EXCEPT ![n] = Tail(@),
                            ![other(n)] = IF link = "up" THEN Append(@, m) ELSE @]
    /\ UNCHANGED link

\* The last message is in: the connection is closed, nothing is owed.
Finish(n) ==
    /\ at' = [at EXCEPT ![n] = Idle]
    /\ chan' = [chan EXCEPT ![n] = Tail(@)]
    /\ UNCHANGED link

\* An error: the connection is dropped, and the staging peer with it.
Drop(n) ==
    /\ at' = [at EXCEPT ![n] = Idle]
    /\ chan' = [chan EXCEPT ![n] = <<>>]
    /\ link' = "cut"

Fail(n) == Drop(n) /\ UNCHANGED <<log, blobs, hints, pop, unjudged, drained>>

\* A node dials the other and both run a session on their own records.
Open ==
    /\ \A n \in Nodes : at[n].pc = "idle"
    /\ link' = "up"
    /\ at' = [n \in Nodes |-> [Idle EXCEPT !.pc = "inventory", !.held = log[n]]]
    /\ chan' = [n \in Nodes |-> <<Msg("inventory", inventory(log[other(n)]))>>]
    /\ UNCHANGED <<log, blobs, hints, pop, unjudged, drained, world>>

\* Ask for the ids of the next differing bucket, or for the records.
AskNext(n, a) ==
    IF a.buckets # {}
    THEN Go(n, [a EXCEPT !.pc = "bucket_ids"],
            Msg("bucket_ids", [bucket |-> Min(a.buckets),
                               ids |-> bucket_ids(a.held, Min(a.buckets))]))
    ELSE Go(n, [a EXCEPT !.pc = "want"], Msg("want", a.want))

OnInventory(n) ==
    /\ Got(n, "inventory")
    /\ AskNext(n, [at[n] EXCEPT
                     !.buckets = differing(inventory(at[n].held), Body(n))])
    /\ UNCHANGED <<log, blobs, hints, pop, unjudged, drained, world>>

OnBucketIds(n) ==
    /\ Got(n, "bucket_ids")
    /\ LET a == at[n]
           ask == want_from(a, Body(n).ids)
       IN  IF Body(n).bucket # Min(a.buckets) \/ Cardinality(Body(n).ids) > MaxIds
           THEN Fail(n)
           ELSE /\ AskNext(n, [a EXCEPT !.buckets = @ \ {Min(@)}, !.want = @ \cup ask,
                                        !.outstanding = @ \cup ask])
                /\ UNCHANGED <<log, blobs, hints, pop, unjudged, drained>>
    /\ UNCHANGED world

OnWant(n) ==
    /\ Got(n, "want")
    /\ IF Cardinality(Body(n)) > MaxRecords THEN Fail(n)
       ELSE /\ Go(n, [at[n] EXCEPT !.pc = "records"],
                  Msg("records", Body(n) \cap at[n].held))
            /\ UNCHANGED <<log, blobs, hints, pop, unjudged, drained>>
    /\ UNCHANGED world

OnRecords(n) ==
    /\ Got(n, "records")
    /\ IF refused(at[n], Body(n)) # {} THEN Fail(n)
       ELSE /\ Go(n, [at[n] EXCEPT !.pc = "done", !.held = @ \cup Body(n),
                                   !.outstanding = @ \ Body(n)],
                  Msg("done", {}))
            /\ UNCHANGED <<log, blobs, hints, pop, unjudged, drained>>
    /\ UNCHANGED world

OnDone(n) ==
    /\ Got(n, "done")
    /\ LET needs == needed_code(n, at[n].held) IN
        Go(n, [at[n] EXCEPT !.pc = "code_want", !.needs = needs],
           Msg("code_want", needs))
    /\ UNCHANGED <<log, blobs, hints, pop, unjudged, drained, world>>

\* Mutant of OnCodeWant: a node that needs nothing skips the rest of the round.
OnCodeWantSelfish(n) ==
    /\ Got(n, "code_want")
    /\ IF at[n].needs = {}
       THEN /\ applied(n, at[n].held, blobs[n])
            /\ Go(n, [at[n] EXCEPT !.pc = "dht"], Msg("dht", {}))
       ELSE /\ Go(n, [at[n] EXCEPT !.pc = "code_blobs"],
                  Msg("code_blobs", served(blobs[n] \cap Body(n))))
            /\ UNCHANGED <<log, unjudged, drained>>
    /\ UNCHANGED <<blobs, hints, pop, world>>

\* With nothing wanted on either side the round ends; else both send blobs.
OnCodeWant(n) ==
    /\ Got(n, "code_want")
    /\ IF at[n].needs = {} /\ Body(n) = {}
       THEN /\ applied(n, at[n].held, blobs[n])
            /\ Go(n, [at[n] EXCEPT !.pc = "dht"], Msg("dht", {}))
       ELSE /\ Go(n, [at[n] EXCEPT !.pc = "code_blobs"],
                  Msg("code_blobs", served(blobs[n] \cap Body(n))))
            /\ UNCHANGED <<log, unjudged, drained>>
    /\ UNCHANGED <<blobs, hints, pop, world>>

OnCodeBlobs(n) ==
    /\ Got(n, "code_blobs")
    /\ LET code == blobs[n] \cup (Body(n) \cap at[n].needs) IN
        /\ blobs' = [blobs EXCEPT ![n] = code]
        /\ applied(n, at[n].held, code)
    /\ Go(n, [at[n] EXCEPT !.pc = "dht"], Msg("dht", {}))
    /\ UNCHANGED <<hints, pop, world>>

OnDht(n) ==
    /\ Got(n, "dht")
    /\ LET pinned == pin_hints_from_log(n) IN
        /\ hints' = [hints EXCEPT ![n] = pinned]
        /\ Go(n, [at[n] EXCEPT !.pc = "peers_digest"],
              Msg("peers_digest", hint_ids(pinned)))
    /\ UNCHANGED <<log, blobs, pop, unjudged, drained, world>>

\* After the hints: the population round, on a node that carries one.
NextPop(n) ==
    IF n \in carries
    THEN Go(n, [at[n] EXCEPT !.pc = "pop_digest"], Msg("pop_digest", pop[n]))
    ELSE Finish(n)

\* Equal digests end the round on both sides; anything else goes on, even for a
\* node that lacks nothing.
OnPeersDigest(n) ==
    /\ Got(n, "peers_digest")
    /\ IF Body(n) = hint_ids(hints[n]) THEN NextPop(n)
       ELSE LET want == Body(n) \ hint_ids(hints[n]) IN
            Go(n, [at[n] EXCEPT !.pc = "peers_want", !.want = want],
               Msg("peers_want", want))
    /\ UNCHANGED <<log, blobs, hints, pop, unjudged, drained, world>>

OnPeersWant(n) ==
    /\ Got(n, "peers_want")
    /\ Go(n, [at[n] EXCEPT !.pc = "peers_records"],
          Msg("peers_records", serve_hints(hints[n], Body(n))))
    /\ UNCHANGED <<log, blobs, hints, pop, unjudged, drained, world>>

OnPeersRecords(n) ==
    /\ Got(n, "peers_records")
    /\ hints' = [hints EXCEPT ![n] = admit_all(@, Body(n) \cap at[n].want, FALSE)]
    /\ NextPop(n)
    /\ UNCHANGED <<log, blobs, pop, unjudged, drained, world>>

OnPopDigest(n) ==
    /\ Got(n, "pop_digest")
    /\ IF Body(n) = pop[n] THEN Finish(n)
       ELSE Go(n, [at[n] EXCEPT !.pc = "pop_want", !.want = Body(n) \ pop[n]],
               Msg("pop_want", Body(n) \ pop[n]))
    /\ UNCHANGED <<log, blobs, hints, pop, unjudged, drained, world>>

OnPopWant(n) ==
    /\ Got(n, "pop_want")
    /\ Go(n, [at[n] EXCEPT !.pc = "pop_records"],
          Msg("pop_records", Body(n) \cap pop[n]))
    /\ UNCHANGED <<log, blobs, hints, pop, unjudged, drained, world>>

OnPopRecords(n) ==
    /\ Got(n, "pop_records")
    /\ pop' = [pop EXCEPT ![n] = ingest_candidates(n, Body(n))]
    /\ Finish(n)
    /\ UNCHANGED <<log, blobs, hints, unjudged, drained, world>>

\* A message of another kind than the one expected, or none any more: the
\* session ends in an error.  Records already reconciled are applied all the
\* same when it is the code round that failed.
Abort(n) ==
    /\ at[n].pc # "idle"
    /\ \/ link = "cut"
       \/ chan[n] = <<>> /\ at[other(n)].pc = "idle"
       \/ chan[n] # <<>> /\ Head(chan[n]).t # at[n].pc
    /\ Drop(n)
    /\ IF at[n].pc \in {"code_want", "code_blobs"}
       THEN applied(n, at[n].held, blobs[n])
       ELSE UNCHANGED <<log, unjudged, drained>>
    /\ UNCHANGED <<blobs, hints, pop, world>>
-----------------------------------------------------------------------------
(* The world around a session.                                               *)

\* The connection is lost; what was sent may still arrive, what follows cannot.
Cut ==
    /\ link = "up" /\ cuts < MaxCuts /\ \E n \in Nodes : at[n].pc # "idle"
    /\ link' = "cut" /\ cuts' = cuts + 1
    /\ UNCHANGED <<carries, log, blobs, hints, peers, pop, unjudged, drained, now,
                   chan, at>>

\* A record of the node's own clients, admitted between two sessions in the
\* epoch it was made.  Its author's code is published with the objective.
Submit(n) ==
    /\ at[n].pc = "idle"
    /\ \E r \in Clients[n] \ log[n] :
        LET s == replay_record(store(n), r, blobs[n]) IN
        /\ Epoch[r] = now[n] /\ r \in s.log
        /\ log' = [log EXCEPT ![n] = @ \cup {r}]
        /\ drained' = [drained EXCEPT ![n] = s.drained]
        /\ blobs' = [blobs EXCEPT ![n] = @ \cup
                        {Checker[o] : o \in {r} \cap {x \in Records : Kind[x] = "objective"}}]
        /\ unjudged' = [unjudged EXCEPT ![n] = s.unjudged]
    /\ UNCHANGED <<carries, hints, peers, pop, now, link, cuts, chan, at>>

\* The daemon's tick settles what is due between two sessions.
Settle(n) ==
    /\ at[n].pc = "idle"
    /\ drained' = [drained EXCEPT ![n] = settle_due(store(n), now[n]).drained]
    /\ UNCHANGED <<carries, log, blobs, hints, peers, pop, unjudged, now, link,
                   cuts, chan, at>>

\* Each clock moves on its own, to the next epoch in which something happens.
AdvanceEpoch(n) ==
    /\ \E e \in Clocks : e > now[n]
    /\ now' = [now EXCEPT ![n] = Min({e \in Clocks : e > now[n]})]
    /\ UNCHANGED <<carries, log, blobs, hints, peers, pop, unjudged, drained, link,
                   cuts, chan, at>>

Step(n) ==
    \/ OnInventory(n) \/ OnBucketIds(n) \/ OnWant(n) \/ OnRecords(n) \/ OnDone(n)
    \/ OnCodeWant(n) \/ OnCodeBlobs(n) \/ OnDht(n)
    \/ OnPeersDigest(n) \/ OnPeersWant(n) \/ OnPeersRecords(n)
    \/ OnPopDigest(n) \/ OnPopWant(n) \/ OnPopRecords(n)
    \/ Abort(n)

Next ==
    \/ Open \/ Cut
    \/ \E n \in Nodes : Step(n) \/ Submit(n) \/ Settle(n) \/ AdvanceEpoch(n)

Spec == Init /\ [][Next]_vars

\* A side waits: its message is not in, and may still come.
Waiting(n) ==
    \/ at[n].pc = "idle"
    \/ link = "up" /\ chan[n] = <<>> /\ at[other(n)].pc # "idle"

\* Transport timeouts end every wait, the daemon dials at every tick, and
\* clocks move.  The second conjunct is weak fairness of Step(n), which is
\* enabled when n does not wait.
FairSpec ==
    /\ Spec
    /\ WF_vars(Open)
    /\ \A n \in Nodes : /\ []<>Waiting(n) \/ []<><<Step(n)>>_vars
                        /\ WF_vars(AdvanceEpoch(n))
-----------------------------------------------------------------------------
(* Properties.                                                               *)

\* The shapes of the state; a node has one hint per identity.
TypeOK ==
    /\ log \in [Nodes -> SUBSET Records]
    /\ blobs \in [Nodes -> SUBSET Blobs]
    /\ pop \in [Nodes -> SUBSET Candidates]
    /\ unjudged \in [Nodes -> SUBSET Records]
    /\ drained \in [Nodes -> SUBSET Clocks]
    /\ now \in [Nodes -> Clocks]
    /\ link \in {"up", "cut"} /\ cuts \in 0 .. MaxCuts
    /\ \A n \in Nodes : /\ at[n].held \subseteq Records
                        /\ at[n].needs \subseteq Blobs
                        /\ unjudged[n] \subseteq log[n]
                        /\ Cardinality({h.identity : h \in hints[n]})
                            = Cardinality(hints[n])

\* The two ends take every early-out together: the message at hand is always
\* the one expected, and while the connection stands a side that waits for a
\* message has one coming, except where only it carries a population
\* ("neither is left waiting for a message the other will not send",
\* session.rs reconcile_code, exchange_peer_hints, reconcile_population).
SidesStayInStep ==
    \A n \in Nodes : at[n].pc # "idle" =>
        IF chan[n] # <<>>
        THEN /\ Head(chan[n]).t = at[n].pc
             /\ at[n].pc = "bucket_ids" => Body(n).bucket = Min(at[n].buckets)
        ELSE \/ link = "cut"
             \/ at[other(n)].pc # "idle" /\ chan[other(n)] # <<>>
             \/ at[n].pc = "pop_digest" /\ other(n) \notin carries

\* Past the comparison of buckets and until the records are applied, the staging
\* peer holds the other end's whole log (session.rs reconcile).
LogsAreStaged ==
    \A n \in Nodes :
        at[n].pc \in {"done", "code_want", "code_blobs"} /\ at[other(n)].pc # "idle"
            => log[other(n)] \subseteq at[n].held

\* An epoch the node settled before the replay, or settles when it comes to r: at
\* r itself or at a commitment that is replayed before it.
SettledBy(n, epoch, r) ==
    \/ epoch \in drained[n]
    \/ \E k \in replayable(n, at[n].held) :
        /\ k = r \/ (Kind[k] = "commitment" /\ replayed_before(k, r))
        /\ epoch + FinalityEpochs < Epoch[k]

\* The rules' reasons to refuse a record: its epoch settled; its plain objective
\* paid; an uncited claim settled before it; or something it names not in the log
\* after the replay, or not accepted.
Forfeit(n, r) ==
    \/ Kind[r] = "claim" /\ SettledBy(n, Epoch[r], r)
    \/ /\ Kind[r] = "commitment" /\ Rule[objective_of(r)] = "plain"
       /\ \E c \in accepted_claims(store(n)) :
            objective_of(c) = objective_of(r) /\ SettledBy(n, Epoch[c], r)
    \/ /\ Kind[r] = "claim" /\ Rule[objective_of(r)] = "ratchet"
       /\ \E c \in accepted_claims(store(n)') \ After[r] :
            objective_of(c) = objective_of(r) /\ SettledBy(n, Epoch[c], r)
    \/ ~(After[r] \subseteq log'[n] \ unjudged'[n])

\* A session that reaches the end of its code round has brought everything the
\* other end's log held and the clock allows, in whatever order ids sort, except
\* what the rules of the node refuse for a reason older than the claims of the
\* session: no claim is lost to another claim that came with it (service.rs
\* replay_records).
SessionsDeliver ==
    [][\A n \in Nodes :
        (/\ at[n].pc \in {"code_want", "code_blobs"} /\ at'[n].pc = "dht"
         /\ at[other(n)].pc # "idle")
            => \A r \in log[other(n)] : Epoch[r] <= now[n] =>
                    r \in log'[n] \/ Forfeit(n, r)]_vars

\* No claim is refused for an epoch that its own session settled.  A commitment
\* of the session, replayed before every claim, may settle it.
NoClaimIsLostInItsSession ==
    [][\A n \in Nodes :
        (at[n].pc \in {"code_want", "code_blobs"} /\ at'[n].pc = "dht")
            => \A r \in replayable(n, at[n].held) \ log'[n] :
                    /\ Kind[r] = "claim" /\ Epoch[r] \in drained'[n] \ drained[n]
                    => ~(After[r] \subseteq log'[n])]_vars

\* A claim is first judged with its checker, if either end of the session held
\* it and a message could carry all the code asked for: no claim of this session
\* is recorded Unavailable for want of a blob that was on offer (service.rs
\* dial_node_and_population).
ClaimsMeetTheirChecker ==
    [][\A n \in Nodes :
        (/\ at[n].pc \in {"code_want", "code_blobs"} /\ at'[n].pc = "dht"
         /\ Cardinality(needed_code(n, at[n].held)) <= MaxBlobs)
            => \A c \in unjudged'[n] \ unjudged[n] :
                    Checker[objective_of(c)] \notin blobs[other(n)]]_vars

\* What the node's own log vouches for is always on offer, however many hints
\* arrived before it (peers.rs Hints::pin).
VouchedPeersAreOffered ==
    \A n \in Nodes :
        at[n].pc \in {"peers_digest", "peers_want", "peers_records", "pop_digest",
                      "pop_want", "pop_records"}
            => \A p \in peers[n] : \E h \in hints[n] :
                    h.identity = p.identity /\ h.seq >= p.seq

\* A hint is never evicted, unpinned or rolled back to an older address by a
\* session (peers.rs Hints::admit).
HintsNeverGoBack ==
    [][\A n \in Nodes : \A h \in hints[n] : \E g \in hints'[n] :
            /\ g.identity = h.identity /\ g.seq >= h.seq
            /\ h.pinned => g.pinned]_vars

\* On a node that never held an inflated candidate, the best real score of an
\* island never falls: neither pruning nor a peer's number displaces it
\* (gossip.rs Population::prune, ingest).
BestNeverFalls ==
    [][\A n \in Nodes :
        (\A c \in pop[n] : Actual[c] = Claimed[c])
            => \A c \in pop[n] : \E d \in pop'[n] :
                    Island[d] = Island[c] /\ Actual[d] >= Actual[c]]_vars

\* Every record fits a message, and so does the difference of the two logs.
Fits ==
    /\ \A n \in Nodes : /\ Cardinality(log[n] \ log[other(n)]) <= MaxRecords
                        /\ \A r \in log[n] : Size[r] <= MaxBytes
                        /\ \A r \in Records :
                             Cardinality(bucket_ids(log[n], Bucket[r])) <= MaxIds

\* What a node's rules refuse for good, given what it settled and holds.
Barred(n, r) ==
    \/ Kind[r] = "claim" /\ Epoch[r] \in drained[n]
    \/ /\ Kind[r] = "commitment" /\ Rule[objective_of(r)] = "plain"
       /\ settled_claims(store(n), objective_of(r)) # {}
    \/ /\ Kind[r] = "claim" /\ Rule[objective_of(r)] = "ratchet"
       /\ ~(latest_frontier(store(n), objective_of(r)) \subseteq After[r])
    \/ \E d \in After[r] : d \notin log[n] \/ d \in unjudged[n]

\* While the logs fit the limits, what one node holds the other comes to hold,
\* over lost connections and clocks that differ, unless it settled without it:
\* nothing stays missing that its rules would take.
RecordsConverge ==
    []Fits => <>[](\A n \in Nodes : \A r \in log[other(n)] \ log[n] : Barred(n, r))

\* While the logs fit and both ends carry a population of scores that
\* reproduce, the populations come to agree.
PopulationsConverge ==
    ([]Fits /\ carries = Nodes
        /\ \A c \in pop[CHOOSE n \in Nodes : TRUE]
                  \cup pop[other(CHOOSE n \in Nodes : TRUE)] :
                Actual[c] = Claimed[c])
        => <>[](\A n \in Nodes : pop[n] = pop[other(n)])

\* What docs/formal-model.md says of honest peers, whatever they hold.
HonestPeersConverge ==
    \A n \in Nodes : \A r \in Records :
        (r \in log[n]) ~> (r \in log[other(n)])
=============================================================================
