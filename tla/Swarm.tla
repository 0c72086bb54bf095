------------------------------- MODULE Swarm --------------------------------
(***************************************************************************)
(* Piece-wise transfer of one blob: the state machine of                    *)
(* src/src/p2p/swarm/mod.rs with the threads of tcp.rs around it.           *)
(*                                                                         *)
(* A leech runs `fetch': one reader thread per peer it dialled and a loop   *)
(* that ticks.  A peer runs `serve': per connection a reader thread and a   *)
(* ticker.  A handler computes its actions under the swarm's lock and       *)
(* dispatches them after it let go, so that two threads of a node may       *)
(* dispatch in the other order than they computed.                          *)
(*                                                                         *)
(* A peer serves what its store holds, so it is complete from the start:    *)
(* its schedule says nothing, a leech never serves it, and what a leech     *)
(* announces (Bitfield, Have) or takes back (Cancel) changes nothing that   *)
(* it reads again.  These messages are left out, and so is WantManifest,    *)
(* since the manifest was sent without it.  Peers that are not this program *)
(* may hold a part, claim another manifest or serve other bytes.            *)
(***************************************************************************)
EXTENDS Integers, Sequences, FiniteSets, FiniteSetsExt, SequencesExt

CONSTANTS
    Leeches, Peers, Pieces,  \* numbers: the order of ids decides ties
    Worlds,     \* [links, holds, gains, manifest, serves, limits, faults]
    Rounds,     \* bound: what a peer with several leeches counts its rounds modulo
    MaxQueue    \* bound: how many messages wait when a peer is choked or let in

Links == Leeches \X Peers
Threads == Links \X {"read", "tick"}     \* of the peers
LeechThreads == Leeches \X (Peers \cup {0})  \* readers, and 0 for fetch's loop

\* A peer's manifest is of the blob, or has the blob's digest and the hashes of
\* other pieces, or is of another blob; or the peer does not hold the blob at all.
Manifests == {"true", "forged", "other", "absent"}

\* Whom the leeches dial, what the peers hold, will gain, claim and serve, and
\* the limits of every node; faults bounds the refused dials, the broken or slow
\* connections and the deadlines.
WorldType ==
    [links : SUBSET Links, holds : [Peers -> SUBSET Pieces],
     gains : [Peers -> SUBSET Pieces], manifest : [Peers -> Manifests],
     serves : [Peers -> {"good", "junk"}],
     limits : [max_in_flight : Nat \ {0}, unchoke_slots : Nat \ {0},
               max_peers : Nat \ {0}, endgame_at : Nat],
     faults : Nat]

ASSUME SwarmAssumption ==
    /\ Leeches \subseteq Nat /\ IsFiniteSet(Leeches)
    /\ Peers \subseteq Nat \ {0} /\ IsFiniteSet(Peers)
    /\ Pieces \subseteq Nat /\ IsFiniteSet(Pieces)
    /\ Pieces # {}  \* Layout::pieces: the empty blob is one piece
    /\ Rounds \in Nat \ {0}
    /\ \A n \in 1 .. Cardinality(Leeches) : Rounds % n = 0
    /\ Worlds \subseteq WorldType
    /\ \A w \in Worlds, l \in Leeches :
          Cardinality({p \in Peers : <<l, p>> \in w.links}) <= w.limits.max_peers

VARIABLES
    world,      \* the member of Worlds this behaviour is about
    swarm,      \* a leech's Swarm
    seed,       \* a peer's Swarm
    near, far,  \* the two ends of a connection
    toLeech, toSeed,  \* messages on their way
    todo,       \* what a thread of a peer computed and has not dispatched
    planned,    \* likewise of a leech
    result,     \* of a leech's fetch
    blamed,     \* the peers a leech dropped with a verdict, and which
    faults

conn == <<near, far>>
vars == <<world, swarm, seed, near, far, toLeech, toSeed, todo, planned, result,
          blamed, faults>>

limits == world.limits

\* The leeches that dial a peer, and the peers that a leech dials.
Sharers(p) == {l \in Leeches : <<l, p>> \in world.links}
Dialled(l) == {p \in Peers : <<l, p>> \in world.links}

\* A thread that has nothing to dispatch.
idle == [p \in Peers |-> <<>>]

\* Peer::new: a connection starts choked.
NewPeer == [have |-> {}, chokes_us |-> TRUE, we_interested |-> FALSE,
            in_flight |-> {}]

\* Swarm::leech and Swarm::seed.
Leech == [manifest |-> "none", pieces |-> [i \in Pieces |-> "none"],
          peers |-> [p \in {} |-> NewPeer],
          availability |-> [i \in Pieces |-> 0], complete |-> FALSE]
Seed  == [peers |-> {}, older |-> {}, interested |-> {}, unchoked |-> {},
          round |-> 0]

Init ==
    /\ world \in Worlds
    /\ swarm = [l \in Leeches |-> Leech]
    /\ seed = [p \in Peers |-> Seed]
    /\ near = [c \in Links |-> IF c \in world.links THEN "dial" ELSE "none"]
    /\ far = [c \in Links |-> "none"]
    /\ toLeech = [c \in Links |-> <<>>] /\ toSeed = [c \in Links |-> <<>>]
    /\ todo = [t \in Threads |-> {}]
    /\ planned = [t \in LeechThreads |-> idle]
    /\ result = [l \in Leeches |-> IF Dialled(l) # {} THEN "running" ELSE "none"]
    /\ blamed = [l \in Leeches |-> {}]
    /\ faults = 0
-----------------------------------------------------------------------------
(* The leech's state machine.                                               *)

missing(sw) == {i \in Pieces : sw.pieces[i] = "none"}

\* The members of S in the order of R, a strict total order, lowest first.
inOrder(S, R) ==
    [k \in 1 .. Cardinality(S) |->
        CHOOSE x \in S : Cardinality({y \in S : <<y, x>> \in R}) = k - 1]

\* The order in which rarest picks pieces; ties go to the lowest index.
rarer(sw) ==
    {e \in Pieces \X Pieces :
        \/ sw.availability[e[1]] < sw.availability[e[2]]
        \/ sw.availability[e[1]] = sw.availability[e[2]] /\ e[1] < e[2]}

\* The requests that the loop around rarest makes of a peer.
asks(sw, p, booked) ==
    LET st == sw.peers[p]
        wanted == ((missing(sw) \cap st.have) \ booked) \ st.in_flight
        room == limits.max_in_flight - Cardinality(st.in_flight)
        ranked == inOrder(wanted, rarer(sw))
    IN  IF st.chokes_us THEN <<>> ELSE SubSeq(ranked, 1, Min({room, Len(ranked)}))

Request(i) == [type |-> "request", index |-> i]
Interested(yes) == [type |-> "interested", yes |-> yes]

\* Outside the endgame, what is booked with one peer is not asked of another.
booked_with(sw) ==
    IF Cardinality(missing(sw)) <= limits.endgame_at THEN {}
    ELSE UNION {sw.peers[p].in_flight : p \in DOMAIN sw.peers}

\* The peers of the BTreeMap come in this order.
ById == {e \in Peers \X Peers : e[1] < e[2]}

\* One peer's turn: it is told of a change of interest, and asked for pieces.
visit(acc, p) ==
    LET st == acc.sw.peers[p]
        wants == missing(acc.sw) \cap st.have # {}
        picks == asks(acc.sw, p, acc.booked)
        told == IF wants = st.we_interested THEN <<>> ELSE <<Interested(wants)>>
    IN  [sw |-> [acc.sw EXCEPT !.peers[p].we_interested = wants,
                               !.peers[p].in_flight = @ \cup Range(picks)],
         booked |-> acc.booked \cup Range(picks),
         out |-> [acc.out EXCEPT ![p] =
                      told \o [k \in DOMAIN picks |-> Request(picks[k])]],
         drop |-> "no"]

\* The new swarm, the messages for each peer, and a verdict on the sender.
schedule(sw) ==
    LET start == [sw |-> sw, booked |-> booked_with(sw), out |-> idle, drop |-> "no"]
    IN  IF sw.manifest = "none" \/ sw.complete THEN start
        ELSE FoldLeft(visit, start, inOrder(DOMAIN sw.peers, ById))

says(sw, verdict) == [sw |-> sw, out |-> idle, drop |-> verdict]

\* Mutant of on_manifest: the digest is not compared.
on_any_manifest(sw, m) ==
    IF sw.manifest # "none" THEN says(sw, "no")
    ELSE schedule([sw EXCEPT !.manifest = IF m = "other" THEN "forged" ELSE m])

\* The first manifest of the right digest is taken, and the others ignored.
on_manifest(sw, m) ==
    IF m = "other" THEN says(sw, "WrongManifest")
    ELSE IF sw.manifest # "none" THEN says(sw, "no")
    ELSE schedule([sw EXCEPT !.manifest = m])

\* increment and decrement, for a set of pieces.
counted(availability, S, d) ==
    [i \in Pieces |-> IF i \in S THEN Max({0, availability[i] + d}) ELSE availability[i]]

on_bitfield(sw, p, field) ==
    LET old == sw.peers[p].have
    IN  schedule([sw EXCEPT !.peers[p].have = field,
                            !.availability = counted(counted(@, old, -1), field, 1)])

on_have(sw, p, i) ==
    schedule([sw EXCEPT !.peers[p].have = @ \cup {i},
                        !.availability = counted(@, {i} \ sw.peers[p].have, 1)])

\* A choke cancels what is outstanding.
on_choke(sw, p, yes) ==
    schedule([sw EXCEPT !.peers[p].chokes_us = yes,
                        !.peers[p].in_flight = IF yes THEN {} ELSE @])

verify_piece(sw, bytes) ==
    (sw.manifest = "true" /\ bytes = "good") \/ (sw.manifest = "forged" /\ bytes = "junk")

\* Mutant of on_piece: nobody is released from the request.
on_piece_kept_booked(sw, p, i, bytes) ==
    LET got == [sw EXCEPT !.pieces[i] = bytes]
    IN  IF i \notin sw.peers[p].in_flight THEN says(sw, "UnsolicitedPiece")
        ELSE IF sw.pieces[i] # "none" THEN schedule(sw)
        ELSE IF ~verify_piece(sw, bytes) THEN says(sw, "BadPiece")
        ELSE IF missing(got) = {} THEN says([got EXCEPT !.complete = TRUE], "no")
        ELSE schedule(got)

\* A peer's entry without the request for a piece.
released(st, i) == [st EXCEPT !.in_flight = @ \ {i}]

\* A piece counts if this peer was asked for it and it matches the manifest;
\* everybody else who was asked for it is released from it.
on_piece(sw, p, i, bytes) ==
    LET heard == [sw EXCEPT !.peers[p] = released(@, i)]
        got == [sw EXCEPT !.pieces[i] = bytes,
                          !.peers = [q \in DOMAIN @ |-> released(@[q], i)]]
    IN  IF i \notin sw.peers[p].in_flight THEN says(sw, "UnsolicitedPiece")
        ELSE IF sw.pieces[i] # "none" THEN schedule(heard)
        ELSE IF ~verify_piece(sw, bytes) THEN says(heard, "BadPiece")
        ELSE IF missing(got) = {} THEN says([got EXCEPT !.complete = TRUE], "no")
        ELSE schedule(got)

on_message(sw, p, m) ==
    CASE m.type = "manifest" -> on_manifest(sw, m.of)
      [] m.type = "bitfield" -> on_bitfield(sw, p, m.field)
      [] m.type = "have"     -> on_have(sw, p, m.index)
      [] m.type = "choke"    -> on_choke(sw, p, m.yes)
      [] m.type = "piece"    -> on_piece(sw, p, m.index, m.bytes)

\* A peer that was dialled enters the table.
met(sw, p) ==
    [sw EXCEPT !.peers = [q \in DOMAIN sw.peers \cup {p} |->
                              IF q = p THEN NewPeer ELSE sw.peers[q]]]

\* Mutant of remove_peer: the pieces it held are counted on.
remove_peer_uncounted(sw, p) ==
    [sw EXCEPT !.peers = [q \in DOMAIN @ \ {p} |-> @[q]]]

\* The peer's reservations go with it.  Nothing is scheduled until the next tick.
remove_peer(sw, p) ==
    [sw EXCEPT !.peers = [q \in DOMAIN @ \ {p} |-> @[q]],
               !.availability = counted(@, sw.peers[p].have, -1)]

\* All pieces, and together they have the digest.
finish(sw) == \A i \in Pieces : sw.pieces[i] = "good"
-----------------------------------------------------------------------------
(* The peer's state machine.                                                *)

Choke(yes) == [type |-> "choke", yes |-> yes]

\* A single leech is let in whatever the round is.
Period(p) == IF Cardinality(Sharers(p)) <= 1 THEN 1 ELSE Rounds

\* Who may ask in this round: nobody ever serves a peer that is complete, so the
\* oldest connections (the lowest PeerIds) have the slots, and the last one rotates.
rechoke(sd) ==
    LET ranked == inOrder(sd.interested, sd.older)
        kept == Min({limits.unchoke_slots - 1, Len(ranked)})
        hopefuls == SubSeq(ranked, kept + 1, Len(ranked))
    IN  Range(SubSeq(ranked, 1, kept)) \cup
            (IF hopefuls = <<>> THEN {}
             ELSE {hopefuls[(sd.round % Len(hopefuls)) + 1]})

\* The swarm after a round, and the chokes and unchokes to send.
tick(sd, p) ==
    LET turned == [sd EXCEPT !.round = (@ + 1) % Period(p)]
        chosen == rechoke(turned)
    IN  [sd |-> [turned EXCEPT !.unchoked = chosen],
         out |-> {[to |-> l, msg |-> Choke(l \notin chosen)] :
                    l \in {l \in sd.peers : (l \in chosen) # (l \in sd.unchoked)}}]

\* What a peer opens a connection with.
add_peer(p) == <<[type |-> "manifest", of |-> world.manifest[p]],
                 [type |-> "bitfield", field |-> world.holds[p]]>>

\* add_peer and remove_peer at a peer; a connection's PeerId is above those of the
\* connections before it.
joined(sd, l) ==
    [sd EXCEPT !.peers = @ \cup {l}, !.older = @ \cup (sd.peers \X {l})]
without(sd, l) ==
    [sd EXCEPT !.peers = @ \ {l},
               !.older = {e \in @ : e[1] # l /\ e[2] # l},
               !.interested = @ \ {l}, !.unchoked = @ \ {l}]

\* A choked peer is not served, and not told so.
on_request(p, l, i) ==
    IF l \notin seed[p].unchoked \/ i \notin world.holds[p] THEN {}
    ELSE {[to |-> l, msg |-> [type |-> "piece", index |-> i, bytes |-> world.serves[p]]]}
-----------------------------------------------------------------------------
(* Connections: fetch, serve_one and run_peer.                              *)

\* A dial that reaches the peer, up to add_peer at both ends.  A peer without
\* the blob talks about other peers only; one with max_peers connections goes on
\* reading and never answers.
Connect(l, p) ==
    LET c == <<l, p>>
        admits == /\ world.manifest[p] # "absent"
                  /\ Cardinality(seed[p].peers) < limits.max_peers
    IN  /\ near[c] = "dial"
        /\ near' = [near EXCEPT ![c] = "up"]
        /\ far' = [far EXCEPT ![c] = IF admits THEN "up" ELSE "mute"]
        /\ swarm' = [swarm EXCEPT ![l] = met(@, p)]
        /\ seed' = [seed EXCEPT ![p] = IF admits THEN joined(@, l) ELSE @]
        /\ toLeech' = [toLeech EXCEPT ![c] =
                                IF admits THEN add_peer(p) ELSE <<>>]
        /\ UNCHANGED <<world, toSeed, todo, planned, result, blamed, faults>>

DialFails(c) ==
    /\ near[c] = "dial" /\ faults < world.faults
    /\ near' = [near EXCEPT ![c] = "gone"] /\ faults' = faults + 1
    /\ UNCHANGED <<world, swarm, seed, far, toLeech, toSeed, todo,
                   planned, result, blamed>>

\* run_peer's loop at the leech: a verdict on the sender ends it.
LeechReads(l, p) ==
    LET c == <<l, p>>
    IN  /\ near[c] = "up" /\ toLeech[c] # <<>> /\ planned[c] = idle
        /\ \E r \in {on_message(swarm[l], p, Head(toLeech[c]))} :
             /\ swarm' = [swarm EXCEPT ![l] = r.sw]
             /\ near' = [near EXCEPT ![c] = IF r.drop = "no" THEN @ ELSE "closing"]
             /\ blamed' = [blamed EXCEPT ![l] = IF r.drop = "no" THEN @
                                                ELSE @ \cup {<<p, r.drop>>}]
             /\ planned' = [planned EXCEPT ![c] = r.out]
        /\ toLeech' = [toLeech EXCEPT ![c] = Tail(@)]
        /\ UNCHANGED <<world, seed, far, toSeed, todo, result, faults>>

\* run_peer's loop at the peer.
SeedReads(l, p) ==
    LET c == <<l, p>>
        m == Head(toSeed[c])
    IN  /\ far[c] = "up" /\ toSeed[c] # <<>> /\ todo[<<c, "read">>] = {}
        /\ toSeed' = [toSeed EXCEPT ![c] = Tail(@)]
        /\ \/ /\ m.type = "interested"
              /\ seed' = [seed EXCEPT ![p].interested =
                                IF m.yes THEN @ \cup {l} ELSE @ \ {l}]
              /\ UNCHANGED todo
           \/ /\ m.type = "request"
              /\ todo' = [todo EXCEPT ![<<c, "read">>] = on_request(p, l, m.index)]
              /\ UNCHANGED seed
        /\ UNCHANGED <<world, swarm, conn, toLeech, planned, result, blamed,
                       faults>>

\* The ticker of a connection, in a round that changes something.
SeedTick(l, p) ==
    LET c == <<l, p>>
        r == tick(seed[p], p)
    IN  /\ far[c] = "up" /\ todo[<<c, "tick">>] = {}
        /\ \A a \in r.out : /\ Len(toLeech[<<a.to, p>>]) < MaxQueue
                             /\ Len(toSeed[<<a.to, p>>]) < MaxQueue
        /\ r.sd # seed[p]
        /\ seed' = [seed EXCEPT ![p] = r.sd]
        /\ todo' = [todo EXCEPT ![<<c, "tick">>] = r.out]
        /\ UNCHANGED <<world, swarm, conn, toLeech, toSeed, planned, result,
                       blamed, faults>>

\* A thread of a leech dispatches what it computed; what a removed queue or a
\* closed connection was to carry is lost.
LeechDispatch(t) ==
    /\ planned[t] # idle
    /\ planned' = [planned EXCEPT ![t] = idle]
    /\ toSeed' = [c \in Links |->
            IF c[1] = t[1] /\ near[c] = "up" /\ far[c] = "up"
            THEN toSeed[c] \o planned[t][c[2]] ELSE toSeed[c]]
    /\ UNCHANGED <<world, swarm, seed, conn, toLeech, todo, result, blamed, faults>>

\* A thread of a peer dispatches what it computed.
Dispatch(t) ==
    LET p == t[1][2]
    IN  /\ todo[t] # {}
        /\ todo' = [todo EXCEPT ![t] = {}]
        /\ toLeech' = [c \in Links |->
                IF c[2] = p /\ far[c] = "up" /\ near[c] = "up"
                   /\ \E a \in todo[t] : a.to = c[1]
                THEN Append(toLeech[c], (CHOOSE a \in todo[t] : a.to = c[1]).msg)
                ELSE toLeech[c]]
        /\ UNCHANGED <<world, swarm, seed, conn, toSeed, planned, result,
                       blamed, faults>>

\* A peer that held a part gets a piece and announces it.
PeerGains(p, i) ==
    /\ i \in world.gains[p] \ world.holds[p]
    /\ world' = [world EXCEPT !.holds[p] = @ \cup {i}]
    /\ toLeech' = [c \in Links |->
            IF c[2] = p /\ far[c] = "up" /\ near[c] = "up"
            THEN Append(toLeech[c], [type |-> "have", index |-> i]) ELSE toLeech[c]]
    /\ UNCHANGED <<swarm, seed, conn, toSeed, todo, planned, result,
                   blamed, faults>>

\* The connection breaks, or the peer dies.
Break(c) ==
    /\ far[c] \in {"up", "mute"} /\ faults < world.faults
    /\ far' = [far EXCEPT ![c] = "gone"] /\ faults' = faults + 1
    /\ seed' = [seed EXCEPT ![c[2]] = without(@, c[1])]
    /\ toSeed' = [toSeed EXCEPT ![c] = <<>>]
    /\ UNCHANGED <<world, swarm, near, toLeech, todo, planned, result, blamed>>

\* A peer without the blob hangs up when its budget of messages is used.
HangUp(c) ==
    /\ far[c] = "mute" /\ world.manifest[c[2]] = "absent"
    /\ far' = [far EXCEPT ![c] = "gone"]
    /\ UNCHANGED <<world, swarm, seed, near, toLeech, toSeed, todo, planned, result,
                   blamed, faults>>

\* Nothing is on its way on a connection, and no thread is about to send.
Silent(l, p) ==
    LET c == <<l, p>>
    IN  /\ toLeech[c] = <<>> /\ near[c] = "up" /\ planned[c] = idle
        /\ \/ far[c] = "mute"
           \/ /\ far[c] = "up" /\ toSeed[c] = <<>>
              /\ \A t \in Threads : \A a \in todo[t] : t[1][2] = p => a.to # l
              /\ \A t \in LeechThreads : t[1] = l => planned[t][p] = <<>>
              /\ \A a \in tick(seed[p], p).out : a.to # l
              /\ schedule(swarm[l]).out[p] = <<>> \/ result[l] # "running"

\* IO_TIMEOUT: a connection that stays silent is given up at both ends.  While
\* another peer of the leech is at work that takes a transfer slower than the
\* timeout, and counts as a fault.
Timeout(l, p) ==
    LET c == <<l, p>>
        busy == {q \in Peers : near[<<l, q>>] # "none" /\ near[<<l, q>>] # "gone"
                               /\ ~Silent(l, q)}
    IN  /\ Silent(l, p)
        /\ \/ busy = {} /\ UNCHANGED faults
           \/ busy # {} /\ faults < world.faults /\ faults' = faults + 1
        /\ near' = [near EXCEPT ![c] = "closing"]
        /\ far' = [far EXCEPT ![c] = "gone"]
        /\ seed' = [seed EXCEPT ![p] = without(@, l)]
        /\ UNCHANGED <<world, swarm, toLeech, toSeed, todo, planned, result,
                       blamed>>

\* The other end has closed; what it had sent may be lost.
LeechSeesEnd(c) ==
    /\ near[c] = "up" /\ far[c] = "gone" /\ planned[c] = idle
    /\ near' = [near EXCEPT ![c] = "closing"]
    /\ toLeech' = [toLeech EXCEPT ![c] = <<>>]
    /\ UNCHANGED <<world, swarm, seed, far, toSeed, todo, planned,
                   result, blamed, faults>>

SeedSeesEnd(c) ==
    /\ far[c] \in {"up", "mute"} /\ near[c] \in {"closing", "gone"}
    /\ todo[<<c, "read">>] = {}
    /\ far' = [far EXCEPT ![c] = "gone"]
    /\ seed' = [seed EXCEPT ![c[2]] = without(@, c[1])]
    /\ toSeed' = [toSeed EXCEPT ![c] = <<>>]
    /\ UNCHANGED <<world, swarm, near, toLeech, todo, planned, result,
                   blamed, faults>>

\* The leech's connection thread ends.
RemovePeer(l, p) ==
    LET c == <<l, p>>
    IN  /\ near[c] = "closing"
        /\ near' = [near EXCEPT ![c] = "gone"]
        /\ swarm' = [swarm EXCEPT ![l] = remove_peer(@, p)]
        /\ toLeech' = [toLeech EXCEPT ![c] = <<>>]
        /\ UNCHANGED <<world, seed, far, toSeed, todo, planned, result,
                       blamed, faults>>

\* One turn of fetch's loop: return the blob, or tick.
FetchTurn(l) ==
    /\ result[l] = "running" /\ planned[<<l, 0>>] = idle
    /\ \/ /\ swarm[l].complete /\ finish(swarm[l])
          /\ result' = [result EXCEPT ![l] = "ok"]
          /\ UNCHANGED <<swarm, planned>>
       \/ /\ ~(swarm[l].complete /\ finish(swarm[l]))
          /\ \E r \in {schedule(swarm[l])} :
               /\ r.sw # swarm[l]
               /\ swarm' = [swarm EXCEPT ![l] = r.sw]
               /\ planned' = [planned EXCEPT ![<<l, 0>>] = r.out]
          /\ UNCHANGED result
    /\ UNCHANGED <<world, seed, conn, toLeech, toSeed, todo, blamed, faults>>

\* Every connection thread has ended without the blob.
FetchFails(l) ==
    /\ result[l] = "running" /\ planned[<<l, 0>>] = idle
    /\ ~(swarm[l].complete /\ finish(swarm[l]))
    /\ \A p \in Peers : near[<<l, p>>] \in {"none", "gone"}
    /\ result' = [result EXCEPT ![l] = "failed"]
    /\ UNCHANGED <<world, swarm, seed, conn, toLeech, toSeed, todo,
                   planned, blamed, faults>>

\* The deadline passes; or the blob is there and blobs.put fails on it.
Deadline(l) ==
    /\ result[l] = "running" /\ planned[<<l, 0>>] = idle /\ faults < world.faults
    /\ result' = [result EXCEPT ![l] = "failed"] /\ faults' = faults + 1
    /\ UNCHANGED <<world, swarm, seed, conn, toLeech, toSeed, todo,
                   planned, blamed>>

Step(l, p) ==
    \/ Connect(l, p) \/ LeechReads(l, p) \/ SeedReads(l, p) \/ SeedTick(l, p)
    \/ HangUp(<<l, p>>) \/ Timeout(l, p) \/ LeechSeesEnd(<<l, p>>)
    \/ SeedSeesEnd(<<l, p>>) \/ RemovePeer(l, p)

\* Nobody fetches any more.
Rest == (\A l \in Leeches : result[l] # "running") /\ UNCHANGED vars

Next ==
    \/ \E c \in Links : Step(c[1], c[2])
    \/ \E t \in Threads : Dispatch(t)
    \/ \E t \in LeechThreads : LeechDispatch(t)
    \/ \E l \in Leeches : FetchTurn(l) \/ FetchFails(l)
    \/ Rest
    \/ \E c \in Links : DialFails(c) \/ Break(c)
    \/ \E l \in Leeches : Deadline(l)
    \/ \E p \in Peers, i \in Pieces : PeerGains(p, i)

Spec == Init /\ [][Next]_vars

-----------------------------------------------------------------------------
(* Properties.                                                              *)

TypeOK ==
    /\ \A l \in Leeches :
        /\ swarm[l].manifest \in {"none", "true", "forged"}
        /\ swarm[l].pieces \in [Pieces -> {"none", "good", "junk"}]
        /\ swarm[l].availability \in [Pieces -> Nat]
        /\ \A p \in DOMAIN swarm[l].peers :
            /\ near[<<l, p>>] \in {"up", "closing"}
            /\ swarm[l].peers[p].in_flight \subseteq swarm[l].peers[p].have
            /\ Cardinality(swarm[l].peers[p].in_flight) <= limits.max_in_flight
    /\ \A p \in Peers :
        seed[p].unchoked \cup seed[p].interested \subseteq seed[p].peers
    /\ result \in [Leeches -> {"none", "running", "ok", "failed"}]

\* The rarest-first index, kept by increments over bitfields, announcements and
\* departures, is the number of connected peers that hold each piece.
AvailabilityIsCounted ==
    \A l \in Leeches, i \in Pieces :
        swarm[l].availability[i] =
            Cardinality({p \in DOMAIN swarm[l].peers : i \in swarm[l].peers[p].have})

\* Before the endgame no piece is asked of two peers, whatever peers came and went.
OnePeerPerPiece ==
    \A l \in Leeches :
        Cardinality(missing(swarm[l])) > limits.endgame_at =>
            \A p, q \in DOMAIN swarm[l].peers :
                p # q => swarm[l].peers[p].in_flight \cap swarm[l].peers[q].in_flight = {}

\* A fetch that succeeds returns the blob, also when the manifest was forged.
FetchedIsTheBlob ==
    \A l \in Leeches : result[l] = "ok" =>
        \A i \in Pieces : swarm[l].pieces[i] = "good"

\* A peer dropped for a bad piece or a wrong manifest served or claimed one,
\* unless somebody's forged manifest was taken for the blob's.
BlameIsDeserved ==
    \A l \in Leeches : \A b \in blamed[l] :
        /\ b[2] = "BadPiece" =>
               world.serves[b[1]] = "junk" \/ swarm[l].manifest = "forged"
        /\ b[2] = "WrongManifest" => world.manifest[b[1]] = "other"

\* The leeches of a peer fit into its slots and connections, so that nobody is
\* choked who still wants something; and a peer that is still gaining pieces has
\* no other leech, whose ticker could send an old unchoke after a newer choke.
Uncontended(l) ==
    \A p \in Dialled(l) :
        /\ Cardinality(Sharers(p)) <= limits.unchoke_slots
        /\ Cardinality(Sharers(p)) <= limits.max_peers
        /\ world.gains[p] = {} \/ Sharers(p) = {l}

\* A piece is not reserved with a peer that owes it no more: the request or the
\* piece is on its way, or a choke that releases it, or the connection has ended.
ReservationsAreOwed ==
    \A l \in Leeches : Uncontended(l) => \A p \in DOMAIN swarm[l].peers :
        LET c == <<l, p>>
        IN  near[c] = "up" /\ far[c] = "up" =>
                \A i \in swarm[l].peers[p].in_flight :
                    \/ \E t \in LeechThreads :
                           t[1] = l /\ Request(i) \in Range(planned[t][p])
                    \/ Request(i) \in Range(toSeed[c])
                    \/ \E m \in Range(toLeech[c]) : m.type = "piece" /\ m.index = i
                    \/ \E a \in todo[<<c, "read">>] : a.msg.index = i
                    \/ Choke(TRUE) \in Range(toLeech[c])
                    \/ \E a \in todo[<<c, "tick">>] :
                           a.to = l /\ a.msg = Choke(TRUE)

\* A peer that had all of the blob from the start, claims it and serves it.
Whole(p) ==
    /\ world.manifest[p] = "true" /\ world.serves[p] = "good"
    /\ world.holds[p] = Pieces /\ world.gains[p] = {}

\* No peer forges the manifest: no piece of the blob would match such a one, and
\* the first manifest is taken.
Unforged(l) == \A p \in Dialled(l) : world.manifest[p] # "forged"

\* No piece is asked of two peers, except for the last one.
Unduplicated(l) == limits.endgame_at <= 1 \/ \E p \in Peers : Dialled(l) = {p}

\* Where leeches do not contend for a peer, nobody forges a manifest and nothing
\* breaks, a peer that sends junk, claims another blob or holds a part costs
\* itself only.  A fetch fails for one reason: the endgame asked several peers for
\* more than the last piece (schedule, mod.rs 763-769), and each whole peer was
\* dropped for a copy that came after another peer's (on_piece, 689-696, 726).
HonestTransfersSucceed ==
    \A l \in Leeches :
        Unforged(l) /\ Uncontended(l) /\ faults = 0 /\ result[l] = "failed" =>
            \A p \in Dialled(l) : Whole(p) =>
                ~Unduplicated(l) /\ <<p, "UnsolicitedPiece">> \in blamed[l]

\* Without the last exception.  Not so: see the README.
WholePeersSuffice ==
    \A l \in Leeches :
        Unforged(l) /\ Uncontended(l) /\ faults = 0 /\ result[l] = "failed" =>
            \A p \in Dialled(l) : ~Whole(p)

\* No peer of this program is dropped with a verdict.  Not so: see the README.
HonestPeersAreKept ==
    \A l \in Leeches : \A b \in blamed[l] :
        world.manifest[b[1]] # "true" \/ world.serves[b[1]] # "good"
=============================================================================
