------------------------------- MODULE Sealed --------------------------------
(***************************************************************************)
(* Sealed submissions (src/src/node.rs, sealed.rs): an artifact travels     *)
(* with its commitment, encrypted to a committee that the log draws, and    *)
(* anybody opens it from the committee's shares when its epoch is over.     *)
(*                                                                         *)
(* The log, the supply and the stakes are Economy's.  A committee is drawn  *)
(* from the entries before a position; a submitter draws it when sealing,   *)
(* the node when the commitment lands and again for every share.  Peers     *)
(* have distinct transports.  Shamir's scheme and the ciphers are perfect:  *)
(* a threshold of right shares opens an envelope and nothing else does, and *)
(* nobody can tell a right share from a wrong one.                          *)
(***************************************************************************)
EXTENDS Economy

CONSTANTS
    PeerRecords,          \* [identity, transport, seq] and, a bound, the turn
                          \* in which it is posted
    Rank(_, _, _),        \* settlement_rank(epoch, anchor, transport)
    CommitteeSize, MaxCommitteeSize,  \* COMMITTEE_SIZE, MAX_COMMITTEE_SIZE
    Seals, Seal,          \* sealed submissions: [objective, submitter]
    Embargo,              \* embargo_epochs of each objective
    Liars                 \* identities that publish wrong shares

ASSUME SealedAssumption ==
    /\ \A r \in PeerRecords : r.identity \in Identities /\ r.seq \in Nat
    /\ CommitteeSize \in Nat \ {0} /\ MaxCommitteeSize \in Nat
    /\ CommitteeSize <= MaxCommitteeSize
    /\ Seal \in [Seals -> [objective : Objectives, submitter : Identities]]
    /\ Embargo \in [Objectives -> Nat]
    /\ Liars \subseteq Identities

VARIABLE envelope   \* what each submitter holds: nothing, or the keys it is
                    \* sealed to and the log and epoch they were drawn from

sealedVars == <<log, now, envelope>>

\* The peer record in force for each identity: the highest sequence number.
peers_within(n) ==
    {p \in entries("peer", n) :
        \A q \in entries("peer", n) :
            log[q].identity = log[p].identity =>
                log[q].seq < log[p].seq \/ (log[q].seq = log[p].seq /\ q <= p)}

threshold_for(size) == size \div 2 + 1

\* Entries up to the last one stamped before the epoch.
epoch_boundary(e, n) == anchor_at(e, n)

\* Mutant of committee_of_size: ranked by the log as it is now.
committee_of_all_peers(e, size, n) ==
    LET peers  == peers_within(Len(log))
        anchor == anchor_at(e, Len(log))
        rank   == [p \in peers |-> Rank(e, anchor, log[p].transport)]
    IN  [k \in 1 .. Min({size, Cardinality(peers)}) |->
            CHOOSE p \in peers : Cardinality({q \in peers : rank[q] <= rank[p]}) = k]

\* The `size' lowest ranked peers in seat order, or fewer when there are not as
\* many, which its callers refuse.
committee_of_size(e, size, n) ==
    LET peers  == peers_within(n)
        anchor == anchor_at(e, n)
        rank   == [p \in peers |-> Rank(e, anchor, log[p].transport)]
    IN  [k \in 1 .. Min({size, Cardinality(peers)}) |->
            CHOOSE p \in peers : Cardinality({q \in peers : rank[q] <= rank[p]}) = k]

\* All that an epoch's committee could open.
sealed_value_in(e, n) ==
    sum({p \in entries("commitment", n) : log[p].created = e},
        LAMBDA p : Objective[Seal[log[p].seal].objective].reward)

\* Half of what the cheapest threshold of seats holds at the boundary.
custody_guard(e, size, n) ==
    LET seats == committee_of_size(e, size, n)
        boundary_ == epoch_boundary(e, n)
        stake == [k \in DOMAIN seats |->
                    spendable_within(log[seats[k]].identity, boundary_)]
    IN  IF Len(seats) < size THEN 0
        ELSE Min({sum(cheapest, LAMBDA k : stake[k]) :
                    cheapest \in kSubset(threshold_for(size), 1 .. size)}) \div 2

\* Grown until it guards what the epoch before has sealed.
committee_size_at(e, n) ==
    LET boundary_ == epoch_boundary(e, n)
        peers     == Cardinality(peers_within(boundary_))
        carried   == sealed_value_in(e - 1, boundary_)
        ceiling_  == Min({MaxCommitteeSize, peers})
    IN  IF peers <= CommitteeSize \/ carried = 0 THEN CommitteeSize
        ELSE Min({size \in CommitteeSize .. ceiling_ :
                    size = ceiling_ \/ custody_guard(e, size, n) >= carried})

committee_for(e, n) == committee_of_size(e, committee_size_at(e, n), n)
drawn(e, n) == Len(committee_for(e, n)) = committee_size_at(e, n)

\* Fixed by the commitment's own epoch and position.
committee_of_commitment(p) == committee_for(log[p].created, p - 1)

opens_at(p) == log[p].created + Embargo[Seal[log[p].seal].objective]

\* Whether a share that lands after n entries answers its seat in time.
check_committee_share(share, n) ==
    /\ share.commitment \in entries("commitment", n)
    /\ share.created > opens_at(share.commitment)
    /\ LET committee == committee_of_commitment(share.commitment) IN
        /\ share.seat \in DOMAIN committee
        /\ log[committee[share.seat]].identity = share.identity

committee_shares_for(p) ==
    {q \in entries("committee_share", Len(log)) :
        /\ log[q].commitment = p
        /\ check_committee_share(log[q], q - 1)
        /\ \A r \in entries("committee_share", q - 1) :
                ~(log[r].commitment = p /\ log[r].seat = log[q].seat)}

\* Mutant of open_with_any_subset: the first shares that were published.
open_with_the_first(p) ==
    LET shares == committee_shares_for(p)
        needed == threshold_for(Len(log[p].keys))
    IN  /\ Cardinality(shares) >= needed
        /\ \A q \in shares :
            Cardinality({r \in shares : r <= q}) <= needed => log[q].right

\* Some threshold of the published shares is right.
open_with_any_subset(p) ==
    \E shares \in kSubset(threshold_for(Len(log[p].keys)), committee_shares_for(p)) :
        \A q \in shares : log[q].right
-----------------------------------------------------------------------------
Unsealed == [height |-> 0, epoch |-> 0, keys |-> <<>>]

SealedInit == Init /\ envelope = [s \in Seals |-> Unsealed]

\* Node::post_peer
PostPeer(r) ==
    /\ room("peer")
    /\ \A p \in entries("peer", Len(log)) :
            log[p].identity = r.identity => log[p].seq < r.seq
    /\ \A q \in PeerRecords : q.turn < r.turn =>                    \* bound
            \E p \in entries("peer", Len(log)) : log[p].transport = q.transport
    /\ append([kind |-> "peer", identity |-> r.identity, seq |-> r.seq,
               transport |-> r.transport, ts |-> now])
    /\ UNCHANGED envelope

keysOf(seats) == [k \in DOMAIN seats |-> log[seats[k]].transport]

\* SealedSubmission::seal, to the keys of the committee drawn at this moment.
SealSubmission(s) ==
    /\ room("commitment")
    /\ envelope[s] = Unsealed
    /\ \E p \in entries("objective", Len(log)) :
            log[p].objective = Seal[s].objective
    /\ drawn(now, Len(log))
    /\ envelope' = [envelope EXCEPT ![s] =
            [height |-> Len(log), epoch |-> now,
             keys |-> keysOf(committee_for(now, Len(log)))]]
    /\ UNCHANGED <<log, now>>

\* Mutant of withinCustody: each submission on its own.
withinCustodyAlone(s, e) ==
    declares_supply =>
        Objective[Seal[s].objective].reward
            <= custody_guard(e, committee_size_at(e, Len(log)), Len(log))

\* The epoch's whole exposure stays within what its committee risks.
withinCustody(s, e) ==
    declares_supply =>
        sealed_value_in(e, Len(log)) + Objective[Seal[s].objective].reward
            <= custody_guard(e, committee_size_at(e, Len(log)), Len(log))

\* Node::commit of a sealed commitment, now or as a session replays it: the
\* committee's shape is checked and not its keys.
CommitSealed(s, at) ==
    /\ room("commitment")
    /\ envelope[s] # Unsealed
    /\ \E p \in entries("objective", Len(log)) :
            log[p].objective = Seal[s].objective
    /\ Len(envelope[s].keys) = committee_size_at(at, Len(log))
    /\ drawn(at, Len(log))
    /\ withinCustody(s, at)
    /\ \A p \in entries("commitment", Len(log)) : log[p].seal # s   \* bound
    /\ append([kind |-> "commitment", seal |-> s, created |-> at,
               keys |-> envelope[s].keys, ts |-> at])
    /\ UNCHANGED envelope

\* A share is right when its seat's member can decrypt it and does not lie.
rightShare(i, p, k) ==
    /\ log[committee_of_commitment(p)[k]].transport = log[p].keys[k]
    /\ i \notin Liars

\* Node::post_committee_share.  An honest member without a key has nothing to
\* publish.
PostCommitteeShare(i, p, k) ==
    LET share == [kind |-> "committee_share", commitment |-> p, seat |-> k,
                  identity |-> i, created |-> now, ts |-> now,
                  right |-> rightShare(i, p, k)]
    IN
    /\ room("committee_share")
    /\ k \in DOMAIN log[p].keys
    /\ check_committee_share(share, Len(log))
    /\ \A q \in committee_shares_for(p) : log[q].seat # k
    /\ share.right \/ i \in Liars
    /\ append(share) /\ UNCHANGED envelope

opened(p) == \E q \in entries("claim", Len(log)) : log[q].commitment = p

\* Node::open_sealed, which anybody calls: an ordinary reveal follows.
OpenSealed(p) ==
    /\ room("claim")
    /\ ~opened(p)                                                  \* bound
    /\ open_with_any_subset(p)
    /\ now > log[p].created
    /\ append([kind |-> "claim", commitment |-> p, by |-> "committee", ts |-> now])
    /\ UNCHANGED envelope

\* Node::reveal by the submitter, who still may.
RevealOwn(p) ==
    /\ room("claim")
    /\ ~opened(p)                                                  \* bound
    /\ now > log[p].created
    /\ append([kind |-> "claim", commitment |-> p, by |-> "submitter", ts |-> now])
    /\ UNCHANGED envelope

SealedNext ==
    \/ \E r \in Issuances : PostIssuance(r) /\ UNCHANGED envelope
    \/ \E o \in Objectives, at \in Epochs :
            /\ at <= now /\ now <= at + SyncLag
            /\ PostObjective(o, at) /\ UNCHANGED envelope
    \/ \E r \in PeerRecords : PostPeer(r)
    \/ \E s \in Seals : SealSubmission(s)
    \/ \E s \in Seals, at \in Epochs :
            at <= now /\ now <= at + SyncLag /\ CommitSealed(s, at)
    \/ \E p \in entries("commitment", Len(log)), i \in Identities,
          k \in 1 .. MaxCommitteeSize : PostCommitteeShare(i, p, k)
    \/ \E p \in entries("commitment", Len(log)) : OpenSealed(p) \/ RevealOwn(p)
    \/ AdvanceClock /\ UNCHANGED envelope

SealedSpec == SealedInit /\ [][SealedNext]_sealedVars
-----------------------------------------------------------------------------
(* Node::audit of peers, shares and sealed commitments: the faulty entries.  *)

audit_peers ==
    {p \in entries("peer", Len(log)) :
        \E q \in entries("peer", p - 1) :
            log[q].identity = log[p].identity /\ log[q].seq >= log[p].seq}

audit_committee_shares ==
    {q \in entries("committee_share", Len(log)) :
        \/ ~check_committee_share(log[q], q - 1)
        \/ \E r \in entries("committee_share", q - 1) :
                /\ check_committee_share(log[r], r - 1)
                /\ log[r].commitment = log[q].commitment /\ log[r].seat = log[q].seat}

\* Size and custody as the whole log gives them, the exposure in log order.
audit_sealed ==
    {p \in entries("commitment", Len(log)) :
        LET e == log[p].created
            size == committee_size_at(e, Len(log))
        IN  \/ Len(log[p].keys) # size
            \/ declares_supply
               /\ sealed_value_in(e, p) > custody_guard(e, size, Len(log))}
-----------------------------------------------------------------------------
\* Envelopes are addressed to a committee's worth of keys, and shares and
\* openings to earlier commitments.
SealedTypeOK ==
    /\ now \in Epochs
    /\ \A s \in Seals :
        /\ envelope[s].height \in 0 .. Len(log) /\ envelope[s].epoch \in 0 .. now
        /\ envelope[s] = Unsealed
           \/ Len(envelope[s].keys) \in CommitteeSize .. MaxCommitteeSize
    /\ \A p \in 1 .. Len(log) :
        /\ log[p].ts \in 1 .. now
        /\ log[p].kind \in {"committee_share", "claim"} =>
                log[p].commitment \in entries("commitment", p - 1)

\* The audit reads every share as the node did when it was posted: peers and
\* entries that came later neither unseat its author nor date it too early.
SharesStayValid ==
    /\ audit_peers \cup audit_committee_shares = {}
    /\ \A q \in entries("committee_share", Len(log)) :
            q \in committee_shares_for(log[q].commitment)

\* A submission that the committee opened was opened by a threshold of members
\* who each hold a seat of their own and waited for its epoch and its embargo;
\* and once that many honest shares are there, no wrong share stops it.
QuorumOpens ==
    \A p \in entries("commitment", Len(log)) :
        LET honest(n) == {q \in entries("committee_share", n) :
                            /\ log[q].commitment = p /\ log[q].identity \notin Liars
                            /\ log[q].ts > opens_at(p)}
            needed == threshold_for(Len(log[p].keys))
        IN
        /\ \A c \in entries("claim", Len(log)) :
                log[c].commitment = p /\ log[c].by = "committee" =>
                    Cardinality({log[q].identity : q \in honest(c)}) >= needed
        /\ Cardinality(honest(Len(log))) >= needed => open_with_any_subset(p)

\* Between sealing and landing only a peer record, an entry dated before the
\* epoch, or a change of epoch can turn a submission into one that its
\* committee has no keys for.
SealsMatchTheirDraw ==
    \A p \in entries("commitment", Len(log)) :
        LET drawnAt == envelope[log[p].seal] IN
        \/ keysOf(committee_of_commitment(p)) = log[p].keys
        \/ log[p].created # drawnAt.epoch
        \/ \E q \in drawnAt.height + 1 .. p - 1 :
                log[q].kind = "peer" \/ log[q].ts < log[p].created

\* The submissions of one epoch that one committee can open are worth no more
\* than its cheapest quorum risks, as of the last of them.
ExposureIsCovered ==
    declares_supply =>
        \A p \in entries("commitment", Len(log)) :
            LET shared == {q \in entries("commitment", Len(log)) :
                            /\ log[q].created = log[p].created
                            /\ committee_of_commitment(q) = committee_of_commitment(p)}
            IN  sum(shared, LAMBDA q : Objective[Seal[log[q].seal].objective].reward)
                <= custody_guard(log[p].created, Len(log[p].keys), Max(shared) - 1)

\* What audit_sealed asks, of the whole log: each envelope has the size its
\* epoch draws, and the epoch's exposure, in log order, is guarded.
SealedAuditIsClean == audit_sealed = {}
=============================================================================
