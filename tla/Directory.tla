----------------------------- MODULE Directory -----------------------------
(***************************************************************************)
(* One node's view of the DHT: src/src/dht.rs (routing table, lookups,      *)
(* providers), src/src/p2p/dht.rs (Directory, which runs several lookups at *)
(* once), and the parts of src/src/p2p/service.rs and session.rs that drive *)
(* it: a tick seeds the table from the log, peers_for picks whom to dial,   *)
(* and every dial either completes a DHT round or is reported unreachable.  *)
(*                                                                         *)
(* The directory is a record, its methods are operators from directory to   *)
(* directory under their own names.  The other peers are constants: whom    *)
(* they name, which holders they relay (right or wrong), what they hold and *)
(* whose keys they can hand out.  Whether a dial succeeds is open each time.*)
(* An address is told apart by the sequence number it came with; a provider *)
(* record lapses at any moment after it was told; the caps on providers per *)
(* key and on keys are not reached.                                         *)
(***************************************************************************)
EXTENDS Integers, Sequences, FiniteSets, FiniteSetsExt, SequencesExt

CONSTANTS
    Self, Peers,         \* node ids: numbers
    Keys,                \* addresses of verifier code: numbers
    Distance, BucketOf,  \* of an id from a key; the routing bucket of an id
    LogPeers,            \* the log's peer records: [id, seq]
    Bootstrap,           \* peers whose keys the address book starts with
    Callers,             \* the peers that open sessions themselves
    Closer, Relays, Holds, Serves,
                         \* what a peer names, relays and holds; keys it has
    K, Alpha, MaxDeferrals, MaxFailures, MaxAsk, Fanout

Ids == Peers \cup {Self}

ASSUME DirectoryAssumption ==
    /\ Ids \subseteq Nat /\ IsFiniteSet(Ids) /\ Self \notin Peers
    /\ Keys \subseteq Nat /\ IsFiniteSet(Keys)
    /\ Distance \in [Keys -> [Ids -> Nat]]
    /\ \A k \in Keys : \A p, q \in Ids : p # q => Distance[k][p] # Distance[k][q]
    /\ LogPeers \subseteq [id : Peers, seq : Nat] /\ IsFiniteSet(LogPeers)
    /\ \A x, y \in LogPeers : x.id = y.id => x = y
    /\ Bootstrap \subseteq Peers /\ Callers \subseteq Peers
    /\ \A p \in Peers : /\ Closer[p] \subseteq Ids /\ Serves[p] \subseteq Peers
                        /\ \A k \in Keys : Relays[p][k] \subseteq Peers
    /\ \A x \in {K, Alpha, MaxFailures, MaxAsk, Fanout} : x \in Nat \ {0}
    /\ MaxDeferrals \in Nat

VARIABLES
    dir,      \* the Directory
    book,     \* the address book: peers whose key is known
    hints,    \* holders a finished lookup found, by key
    missing,  \* the code the log needs and the node lacks
    phase,    \* what the tick thread does next: "seed", "plan" or "dial"
    plan,     \* the endpoints still to dial in this tick
    lost,     \* contacts next_hops chose and then cut off at its limit
    silent    \* failed dials of a peer since it last answered

vars == <<dir, book, hints, missing, phase, plan, lost, silent>>

Buckets == {BucketOf[p] : p \in Peers}

NoLookup == [on |-> FALSE, shortlist |-> {}, queried |-> {}, in_flight |-> {},
             holders |-> {}]

Init ==
    /\ dir = [routing |-> [b \in Buckets |-> <<>>],
              providers |-> [k \in Keys |-> {}],
              lookups |-> [k \in Keys |-> NoLookup],
              outstanding |-> [p \in Ids |-> {}],
              failures |-> [p \in Ids |-> 0],
              pending |-> [p \in Ids |-> {}],
              deferrals |-> [p \in Ids |-> 0],
              key_wants |-> {}]
    /\ book = Bootstrap
    /\ hints = [k \in Keys |-> {}]
    /\ missing = Keys
    /\ phase = "seed" /\ plan = {} /\ lost = {}
    /\ silent = [p \in Ids |-> 0]
-----------------------------------------------------------------------------
(* The routing table: dht.rs RoutingTable.                                   *)

contacts(d) == UNION {ToSet(d.routing[b]) : b \in DOMAIN d.routing}
routed(d) == {c.id : c \in contacts(d)}

position(s, id) ==
    IF \A i \in DOMAIN s : s[i].id # id THEN 0
    ELSE CHOOSE i \in DOMAIN s : s[i].id = id /\ \A j \in 1 .. i - 1 : s[j].id # id
withoutFirst(s, id) ==
    IF position(s, id) = 0 THEN s ELSE RemoveAt(s, position(s, id))

\* Mutant of insert: a full bucket drops its oldest contact for the newcomer.
insertEvicting(d, c) ==
    LET b == BucketOf[c.id]
        s == d.routing[b]
        i == position(s, c.id)
    IN  IF i # 0
        THEN [d EXCEPT !.routing[b] =
                Append(RemoveAt(s, i), IF c.seq >= s[i].seq THEN c ELSE s[i])]
        ELSE [d EXCEPT !.routing[b] =
                Append(IF Len(s) < K THEN s ELSE Tail(s), c)]

\* A contact held moves to the fresh end, with the newer record; a new one is
\* added if there is room, and else waits for the oldest to be proved dead.
insert(d, c) ==
    LET b == BucketOf[c.id]
        s == d.routing[b]
        i == position(s, c.id)
    IN  IF i # 0
        THEN [d EXCEPT !.routing[b] =
                Append(RemoveAt(s, i), IF c.seq >= s[i].seq THEN c ELSE s[i])]
        ELSE IF Len(s) < K THEN [d EXCEPT !.routing[b] = Append(s, c)]
        ELSE [d EXCEPT !.pending[Head(s).id] = {c}]

\* Directory::saw; the node itself is in no bucket.
saw(d, c) ==
    LET heard == [d EXCEPT !.failures[c.id] = 0]
    IN  IF c.id = Self THEN heard ELSE insert(heard, c)

\* Contacts that come together are seen in the order of their ids.
ById == {e \in [id : Ids, seq : Nat] \X [id : Ids, seq : Nat] : e[1].id < e[2].id}

inOrder(S, R) ==
    [k \in 1 .. Cardinality(S) |->
        CHOOSE x \in S : Cardinality({y \in S : <<y, x>> \in R}) = k - 1]

seen(d, C) == FoldLeft(saw, d, inOrder(C, ById))

replace(d, dead, c) ==
    LET b == BucketOf[dead]
        s == d.routing[b]
    IN  IF position(s, dead) = 0 THEN d
        ELSE [d EXCEPT !.routing[b] = Append(withoutFirst(s, dead), c)]

forget(d, dead) ==
    LET b == BucketOf[dead]
    IN  [d EXCEPT !.routing[b] = withoutFirst(d.routing[b], dead)]

\* The n of S that are nearest to a key.
nearest(S, key, n) ==
    {p \in S : Cardinality({q \in S : Distance[key][q] < Distance[key][p]}) < n}

closest(d, key) == nearest(routed(d), key, K)
-----------------------------------------------------------------------------
(* One lookup: dht.rs Lookup.                                                *)

\* Whom to ask next: those of the K nearest that had no turn yet, as many as there
\* is room for.
next_queries(l, key) ==
    nearest(nearest(l.shortlist, key, K) \ (l.queried \cup l.in_flight), key,
            Alpha - Cardinality(l.in_flight))

on_timeout(l, p) == [l EXCEPT !.in_flight = @ \ {p}, !.queried = @ \cup {p}]

on_response(l, p, closer, holders) ==
    [on_timeout(l, p) EXCEPT !.shortlist = @ \cup closer, !.holders = @ \cup holders]

is_done(l, key) ==
    l.in_flight = {} /\ nearest(l.shortlist, key, K) \subseteq l.queried
-----------------------------------------------------------------------------
(* Several lookups at once: p2p/dht.rs Directory.                            *)

seek(d, key) ==
    IF d.lookups[key].on \/ closest(d, key) = {} THEN d.lookups[key]
    ELSE [NoLookup EXCEPT !.on = TRUE, !.shortlist = closest(d, key)]

\* A lookup for each of these keys that has none.
sought(d, S) ==
    [d EXCEPT !.lookups =
        [k \in Keys |-> IF k \in S THEN seek(d, k) ELSE d.lookups[k]]]

\* Whom each lookup wants to ask.
queries(d) ==
    [k \in Keys |-> IF d.lookups[k].on THEN next_queries(d.lookups[k], k) ELSE {}]

\* Mutant of given_up: a contact without a key is offered for ever.
never_given_up(d, q, key) == {}

\* A contact without a key is passed over MaxDeferrals times and then given up.
\* The lookups have their turns in the order of the keys.
given_up(d, q, key) ==
    {p \in q[key] \ book :
        d.deferrals[p] + Cardinality({k \in Keys : k <= key /\ p \in q[k]}) > MaxDeferrals}

\* A lookup after its turn: the dialable are in flight, the rest is passed over.
advance(l, asked, late) ==
    [l EXCEPT !.in_flight = l.in_flight \cup asked, !.queried = l.queried \cup late]

\* Every lookup's turn.
advanced(d, q) ==
    LET by(p) == {k \in Keys : p \in q[k]}
        wanted == UNION {q[k] \ given_up(d, q, k) : k \in Keys}
    IN  [d EXCEPT
            !.lookups = [k \in Keys |->
                advance(d.lookups[k], q[k] \cap book, given_up(d, q, k))],
            !.outstanding = [p \in Ids |->
                IF p \in book THEN d.outstanding[p] \cup by(p) ELSE d.outstanding[p]],
            !.deferrals = [p \in Ids |->
                IF p \in book THEN d.deferrals[p]
                ELSE Min({d.deferrals[p] + Cardinality(by(p)), MaxDeferrals + 1})],
            !.key_wants = d.key_wants \cup (wanted \ (book \cup {Self}))]

\* The order of the contacts to dial: those that answer most questions first, and
\* else as the lookups came to want them.
ahead(d, q) ==
    LET owed(p) == Cardinality(d.outstanding[p])
        first(p) == Min({k \in Keys : p \in q[k]})
    IN  {e \in Ids \X Ids :
            \/ owed(e[1]) > owed(e[2])
            \/ /\ owed(e[1]) = owed(e[2])
               /\ \/ first(e[1]) < first(e[2])
                  \/ /\ first(e[1]) = first(e[2])
                     /\ Distance[first(e[1])][e[1]] < Distance[first(e[2])][e[2]]}

\* The contacts to dial next, cut at the limit; what is cut off stays in flight.
next_hops(d, limit) ==
    LET q == queries(d)
        e == advanced(d, q)
        hops == {p \in book : \E k \in Keys : p \in q[k]}
        chosen == {p \in hops :
                    Cardinality({o \in hops : <<o, p>> \in ahead(e, q)}) < limit}
    IN  [d |-> e, chosen |-> chosen, cut |-> hops \ chosen]

ask_of(d, p) ==
    {k \in d.outstanding[p] : Cardinality({j \in d.outstanding[p] : j < k}) < MaxAsk}

\* The contacts an answer names: entered without freshness if they are not known,
\* and worth a key if there was no room.
hear(d, S) ==
    LET e == seen(d, {[id |-> p, seq |-> 0] : p \in S \ routed(d)})
    IN  [e EXCEPT !.key_wants = e.key_wants \cup (S \ routed(e))]

\* Mutant of settle: what the peer was not asked, or did not answer, stays open.
settleAnswered(l, k, from, answered) ==
    IF l.on /\ k \in answered
    THEN on_response(l, from, Closer[from], Relays[from][k]) ELSE l

\* A lookup that waited for the peer gets its answer, or a timeout.
settle(l, k, from, answered) ==
    IF ~l.on THEN l
    ELSE IF k \in answered
    THEN on_response(l, from, Closer[from], Relays[from][k])
    ELSE on_timeout(l, from)

\* The lookups the peer kept waiting; answered is empty for a failed dial.
settled(d, from, answered) ==
    [k \in Keys |-> IF k \in d.outstanding[from]
                    THEN settle(d.lookups[k], k, from, answered) ELSE d.lookups[k]]

on_providers(d, from, asked) ==
    LET named == IF d.outstanding[from] \cap asked = {} THEN {} ELSE Closer[from]
        e == [d EXCEPT !.failures[from] = 0, !.outstanding[from] = {},
                       !.lookups = settled(d, from, asked)]
    IN  hear(e, named)

\* A failed dial: a timeout for every lookup that waited, and a failed probe.
on_unreachable(d, p) ==
    LET e == [d EXCEPT !.failures[p] = (d.failures[p] + 1) % MaxFailures,
                       !.outstanding[p] = {}, !.lookups = settled(d, p, {})]
        f == [e EXCEPT !.pending[p] = {}]
    IN  IF d.failures[p] + 1 < MaxFailures THEN e
        ELSE IF d.pending[p] = {} THEN forget(e, p)
        ELSE replace(f, p, CHOOSE c \in d.pending[p] : TRUE)

finished(d) == {k \in Keys : d.lookups[k].on /\ is_done(d.lookups[k], k)}

take_finished(d) ==
    [d EXCEPT !.lookups =
        [k \in Keys |-> IF k \in finished(d) THEN NoLookup ELSE d.lookups[k]]]

key_wants(d) == IF d.key_wants = {} THEN {} ELSE {Min(d.key_wants)}

record_tell(d, from, told) ==
    [d EXCEPT !.failures[from] = 0,
              !.providers = [k \in Keys |->
                    IF k \in told THEN d.providers[k] \cup {from} ELSE d.providers[k]]]
-----------------------------------------------------------------------------
(* The node: service.rs and the daemon's tick.                               *)

\* seed_from_log: every peer record of the log is noted, and the keyless among
\* them are asked for their key; any of them may answer.
keyless == {c.id : c \in LogPeers} \ book

seeded(d) ==
    LET e == seen(d, LogPeers)
    IN  [e EXCEPT !.key_wants = e.key_wants \cup keyless]

SeedFromLog ==
    /\ phase = "seed"
    /\ \E got \in SUBSET keyless :
        /\ book' = book \cup got
        /\ dir' = [seeded(dir) EXCEPT !.key_wants = @ \ got]
    /\ phase' = "plan"
    /\ UNCHANGED <<hints, missing, plan, lost, silent>>

unheld == {k \in missing : dir.providers[k] = {}}

\* Holders that said so themselves, then holders a lookup found.
known_holders ==
    {p \in book : \/ \E k \in missing : p \in dir.providers[k]
                  \/ \E k \in unheld : p \in hints[k]}

\* The rest of the fanout: peers near the key, then a random sample.
fill(chosen) ==
    LET room == Max({0, Fanout - Cardinality(chosen)})
        free == book \ chosen
    IN  {chosen \cup S : S \in kSubset(Min({room, Cardinality(free)}), free)}

\* peers_for: whom to dial in this tick.
PeersFor ==
    /\ phase = "plan"
    /\ \/ /\ missing = {}
          /\ plan' \in fill({})
          /\ UNCHANGED <<dir, hints, lost>>
       \/ /\ missing # {}
          /\ hints' = [k \in Keys |-> IF k \in unheld THEN {} ELSE hints[k]]
          /\ \E remaining \in {Fanout - Cardinality(known_holders)} :
                \/ /\ remaining > 0
                   /\ \E hops \in {next_hops(sought(dir, unheld), remaining)} :
                        /\ dir' = hops.d
                        /\ lost' = (lost \cup hops.cut) \ hops.chosen
                        /\ plan' \in fill(known_holders \cup hops.chosen)
                \/ /\ remaining <= 0
                   /\ plan' \in kSubset(Fanout, known_holders)
                   /\ UNCHANGED <<dir, lost>>
    /\ phase' = "dial"
    /\ UNCHANGED <<book, missing, silent>>

\* A completed session with p: the code round, which brings what fits of the
\* code p has, then the DHT round, then what adopt keeps of it.
Session(p) ==
    \E noted \in {IF p \in book THEN saw(dir, [id |-> p, seq |-> 0]) ELSE dir} :
    \E got \in {key_wants(noted) \cap Serves[p]} :
    \E answered \in {on_providers([noted EXCEPT !.key_wants = @ \ got], p,
                                  ask_of(noted, p))} :
    \E taken \in {take_finished(answered)} :
    LET told == missing \cap Holds[p] IN
        /\ dir' = IF p \in book THEN record_tell(taken, p, told) ELSE taken
        /\ book' = book \cup (got \cap routed(taken))
        /\ hints' = [k \in Keys |->
                IF k \in finished(answered) /\ answered.lookups[k].holders # {}
                THEN answered.lookups[k].holders ELSE hints[k]]
        /\ \E fetched \in SUBSET told : missing' = missing \ fetched
        /\ lost' = lost \ {p}
        /\ silent' = [silent EXCEPT ![p] = 0]

DialOk(p) ==
    /\ phase = "dial" /\ p \in plan
    /\ Session(p)
    /\ plan' = plan \ {p}
    /\ UNCHANGED phase

\* The DHT round of a dial is through, and a later round of the session is still to
\* end: if that one fails, DialFail follows.
DialRound(p) ==
    /\ phase = "dial" /\ p \in plan
    /\ Session(p)
    /\ UNCHANGED <<phase, plan>>

DialFail(p) ==
    /\ phase = "dial" /\ p \in plan
    /\ dir' = on_unreachable(dir, p)
    /\ silent' = [silent EXCEPT ![p] = Min({@ + 1, MaxFailures})]
    /\ plan' = plan \ {p}
    /\ lost' = lost \ {p}
    /\ UNCHANGED <<book, hints, missing, phase>>

Sleep ==
    /\ phase = "dial" /\ plan = {}
    /\ phase' = "seed"
    /\ UNCHANGED <<dir, book, hints, missing, plan, lost, silent>>

\* A session the other side opened, between two steps of the tick.
Inbound(p) ==
    /\ Session(p)
    /\ UNCHANGED <<phase, plan>>

\* A provider record reaches the end of its time.
Lapse(k, p) ==
    /\ p \in dir.providers[k]
    /\ dir' = [dir EXCEPT !.providers[k] = @ \ {p}]
    /\ UNCHANGED <<book, hints, missing, phase, plan, lost, silent>>

\* The tick thread, and everything else.
Tick ==
    \/ SeedFromLog \/ PeersFor \/ Sleep
    \/ \E p \in Peers : DialOk(p) \/ DialRound(p) \/ DialFail(p)

Next ==
    \/ Tick
    \/ \E p \in Callers : Inbound(p)
    \/ \E k \in Keys, p \in Peers : Lapse(k, p)

Spec == Init /\ [][Next]_vars

\* The tick thread goes on: every dial ends, one way or the other, and there is
\* always a next step to take.
FairSpec == Spec /\ []<>(phase = "seed") /\ []<>(phase # "seed")
-----------------------------------------------------------------------------
(* Properties.                                                               *)

\* The shapes of the state; no bucket holds more than K contacts.
TypeOK ==
    /\ \A b \in DOMAIN dir.routing :
        /\ Len(dir.routing[b]) <= K
        /\ \A c \in ToSet(dir.routing[b]) : c.id \in Peers /\ c.seq \in Nat
    /\ \A k \in Keys : /\ dir.providers[k] \subseteq Peers
                       /\ dir.lookups[k].shortlist \subseteq Ids
                       /\ dir.lookups[k].holders \subseteq Peers
                       /\ Cardinality(dir.lookups[k].in_flight) <= Alpha
    /\ dir.outstanding \in [Ids -> SUBSET Keys]
    /\ dir.failures \in [Ids -> 0 .. MaxFailures - 1]
    /\ dir.deferrals \in [Ids -> 0 .. MaxDeferrals + 1]
    /\ dir.key_wants \subseteq Ids /\ book \subseteq Peers /\ plan \subseteq Peers
    /\ missing \subseteq Keys /\ phase \in {"seed", "plan", "dial"}

\* A contact a lookup waits for is one somebody owes an answer: it is to be
\* dialled in this tick, and its outcome will reach that very lookup.  The
\* contacts next_hops cuts off at its limit are the ones nobody will resolve
\* ("for each contact next_hops hands out, exactly one of on_providers or
\* on_unreachable must follow", p2p/dht.rs).
InFlightIsOwed ==
    \A k \in Keys : \A p \in dir.lookups[k].in_flight :
        k \in dir.outstanding[p] /\ (p \in plan \/ p \in lost)

\* What another peer says about a holder is never served onward: every provider
\* record was told by that provider, who has the code (p2p/dht.rs on_providers,
\* record_tell).
FirstHandOnly ==
    \A k \in Keys : \A p \in dir.providers[k] : k \in Holds[p]

\* No contact is in the table twice.
Single(d) ==
    \A b \in DOMAIN d.routing :
        Cardinality({c.id : c \in ToSet(d.routing[b])}) = Len(d.routing[b])

freshest(d, p) == Max({c.seq : c \in {x \in contacts(d) : x.id = p}})

\* Unsigned mentions never roll a contact back to an older address than the one
\* its own signed record gave, as long as the table holds it once (p2p/dht.rs
\* on_providers, dht.rs insert).
FreshnessNeverFalls ==
    [][\A p \in routed(dir) \cap routed(dir') :
            Single(dir) => freshest(dir', p) >= freshest(dir, p)]_vars

\* A flood of newcomers displaces nobody: a contact leaves the table only after
\* MaxFailures dials in a row that it did not answer (p2p/dht.rs saw,
\* on_unreachable).
LivingPeersKeepTheirPlace ==
    [][\A p \in routed(dir) \ routed(dir') : silent'[p] >= MaxFailures]_vars

\* A tick planned with a dial left for the lookups.
RoomForLookups ==
    /\ phase = "plan" /\ phase' = "dial"
    /\ missing # {} /\ Cardinality(known_holders) < Fanout

\* A lookup comes to its end: peers that do not answer, that never get a key or
\* that name ever more peers do not keep it open (dht.rs Lookup, p2p/dht.rs
\* next_hops).  Two things may: contacts next_hops cut off at its limit, and
\* known holders that take up every dial of every tick.
LookupsTerminate ==
    [](lost = {}) /\ []<><<RoomForLookups>>_phase =>
        \A k \in Keys : dir.lookups[k].on ~>
            (~dir.lookups[k].on \/ is_done(dir.lookups[k], k))
=============================================================================
