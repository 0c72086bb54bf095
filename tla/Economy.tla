------------------------------ MODULE Economy --------------------------------
(***************************************************************************)
(* The money of one log (src/src/node.rs): the declared supply, escrowed   *)
(* rewards, bonds behind promises, verdicts and disputes, and the pools    *)
(* that pay for keeping the log available.                                 *)
(*                                                                         *)
(* Nothing of it is stored.  The log is a sequence of entries and every    *)
(* balance is a scan of its first n entries, so the operators below take   *)
(* n, as the code's `..._within(positions)' do.  An entry is the record it *)
(* carries, its kind and the epoch of its stamp.  Entry p was admitted     *)
(* against the p - 1 entries before it.                                    *)
(*                                                                         *)
(* Records are well formed and signed by whom they name: any other is      *)
(* refused by a check of its own bytes and changes nothing.  Claims are    *)
(* judged when they are revealed and the order of a batch is Settlement's; *)
(* how a dispute is decided is Dispute's.                                  *)
(***************************************************************************)
EXTENDS Integers, Sequences, FiniteSetsExt, Functions

CONSTANTS
    Identities,
    Kinds,               \* verifier kinds; each is a tier of its own
    Issuances,           \* [holder, units] records of the genesis prefix
    Objectives, Objective,   \* [funder, reward, tier]
    Claims, Claim,           \* [objective, submitter, truth]
    Pools, Pool,             \* [funder, per_epoch, from_epoch, to_epoch]
    BeaconValues,        \* what a randomness source may say
    Bonds, ChallengeBonds,   \* bond sizes a promise, a challenge may name
    VerificationBond,    \* VERIFICATION_BOND
    AttestationWindow,   \* ATTESTATION_WINDOW_EPOCHS
    FinalityEpochs,      \* FINALITY_EPOCHS
    Draw(_, _, _, _),    \* partition::assign(identity, id, beacon, height)
    Bits,                \* u128::BITS
    Worlds,              \* bound: how many entries of each kind share a log
    SyncLag,             \* bound: a replayed objective is stamped this late
    MaxEpoch             \* bound on the clock

Epochs    == 1 .. MaxEpoch
Universal == "universal"
Statuses  == {"accept", "reject"}

ASSUME EconomyAssumption ==
    /\ \A r \in Issuances : r.holder \in Identities /\ r.units \in Nat \ {0}
    /\ Objective \in [Objectives ->
            [funder : Identities, reward : Nat, tier : Kinds]]
    /\ Claim \in [Claims ->
            [objective : Objectives, submitter : Identities, truth : Statuses]]
    /\ Pool \in [Pools -> [funder : Identities, per_epoch : Nat \ {0},
                           from_epoch : Nat, to_epoch : Nat]]
    /\ \A a \in Pools : Pool[a].from_epoch <= Pool[a].to_epoch
    /\ Bonds \cup ChallengeBonds \subseteq Nat \ {0} /\ VerificationBond \in Nat \ {0}
    /\ Universal \notin Kinds /\ IsFiniteSet(Kinds) /\ IsFiniteSet(Identities)
    /\ AttestationWindow \in Nat /\ MaxEpoch \in Nat \ {0} /\ Bits \in Nat

VARIABLES
    log,   \* the entries
    now    \* the epoch the wall clock is in

vars == <<log, now>>

sum(S, f(_)) == SumFunction([x \in S |-> f(x)])
minus(x, y)  == IF x <= y THEN 0 ELSE x - y      \* saturating_sub

entries(kind, n) == {p \in 1 .. n : log[p].kind = kind}
-----------------------------------------------------------------------------
(* The supply and what disputes and slashes have moved. *)

genesis_prefix ==
    Max({n \in 0 .. Len(log) : \A p \in 1 .. n : log[p].kind = "issuance"})
declares_supply == genesis_prefix > 0

\* Only the genesis prefix counts.
issued_within(i, n) ==
    LET prefix == 1 .. Min({n, genesis_prefix}) IN
    sum({p \in prefix : log[p].holder = i}, LAMBDA p : log[p].units)

settled_within(i, n) ==
    sum({p \in entries("settlement", n) : Claim[log[p].claim].submitter = i},
        LAMBDA p : log[p].reward)

served_within(i, n) ==
    sum({p \in entries("availability_settlement", n) : i \in DOMAIN log[p].paid},
        LAMBDA p : log[p].paid[i])

\* A live challenge's bond; a decided one moved what its settlement says.
challenge_bonds_within(i, n) ==
    sum({p \in entries("challenge", n) :
            /\ log[p].challenger = i
            /\ \A q \in entries("challenge_settlement", n) :
                    log[q].challenge # p},
        LAMBDA p : log[p].bond)

\* Mutant of challenge_won: the winner gets the bond, whatever the loser lost.
challenge_won_the_bond(i, n) ==
    sum({q \in entries("challenge_settlement", n) : log[q].winner = i},
        LAMBDA q : log[log[q].challenge].bond)

challenge_won(i, n) ==
    sum({q \in entries("challenge_settlement", n) : log[q].winner = i},
        LAMBDA q : log[q].units)
challenge_lost(i, n) ==
    sum({q \in entries("challenge_settlement", n) : log[q].loser = i},
        LAMBDA q : log[q].units)

\* The log's own clock: the highest epoch with a BATCH.
settled_epoch_within(n) == Max({log[p].epoch : p \in entries("batch", n)} \cup {0})

attestation_window_open(p, at) == at <= log[p].ts + AttestationWindow

slashed(p, n) ==
    \E q \in entries("verification_slash", n) : log[q].attestation = p

\* One bond per attestation, live until it is slashed or its window has shut.
attestation_bonds_within(i, n) ==
    VerificationBond *
    Cardinality({p \in entries("attestation", n) :
                    /\ log[p].attestor = i /\ ~slashed(p, n)
                    /\ attestation_window_open(p, settled_epoch_within(n))})

caught_within(i, n) ==
    sum({q \in entries("verification_slash", n) : log[q].catcher = i},
        LAMBDA q : log[q].units)
slashed_within(i, n) ==
    sum({q \in entries("verification_slash", n) : log[q].attestor = i},
        LAMBDA q : log[q].units)

locked_within(i, n) ==
    sum({p \in entries("undertaking", n) : log[p].identity = i},
        LAMBDA p : log[p].bond)

ceiling(a) == Pool[a].per_epoch * (Pool[a].to_epoch - Pool[a].from_epoch + 1)
covers(a, e) == Pool[a].from_epoch <= e /\ e <= Pool[a].to_epoch

\* What posting took from a funder, whole and for good.
rewards_charged(i, t, n) ==
    sum({p \in entries("objective", n) :
            Objective[log[p].objective].funder = i
            /\ Objective[log[p].objective].tier \in t},
        LAMBDA p : Objective[log[p].objective].reward)
pools_charged(i, n) ==
    sum({p \in entries("availability_pool", n) : Pool[log[p].pool].funder = i},
        LAMBDA p : ceiling(log[p].pool))
charged_within(i, n) == rewards_charged(i, Kinds, n) + pools_charged(i, n)

gross_paid_within(i, n) ==
    issued_within(i, n) + challenge_won(i, n) + caught_within(i, n)
    + settled_within(i, n) + served_within(i, n)

committed_within(i, n) ==
    locked_within(i, n) + charged_within(i, n) + challenge_bonds_within(i, n)
    + challenge_lost(i, n) + attestation_bonds_within(i, n)
    + slashed_within(i, n)

balances_within(i, n) == minus(gross_paid_within(i, n), committed_within(i, n))

spendable_within(i, n) == balances_within(i, n)

\* What has been escrowed and not yet paid out.  An availability payment names
\* no pool, so payments are charged against the pools in log order.
escrowed_rewards(n) ==
    sum(entries("objective", n),
        LAMBDA p : minus(Objective[log[p].objective].reward,
            sum({q \in entries("settlement", n) :
                    Claim[log[q].claim].objective = log[p].objective},
                LAMBDA q : log[q].reward)))
escrowed_pools(n) ==
    LET pools == entries("availability_pool", n)
        drawn == sum(Identities, LAMBDA i : served_within(i, n))
        before(p) == sum({q \in pools : q < p}, LAMBDA q : ceiling(log[q].pool))
    IN  sum(pools, LAMBDA p : minus(ceiling(log[p].pool),
                                    minus(drawn, before(p))))
escrowed_within(n) == escrowed_rewards(n) + escrowed_pools(n)
-----------------------------------------------------------------------------
(* Tiers (src/src/tier.rs): a unit earned for one verifier's work cannot     *)
(* fund another's; the universal reserve covers any shortfall.               *)

tier_held(i, t, n) ==
    IF t = Universal
    THEN issued_within(i, n) + served_within(i, n) + challenge_won(i, n)
         + caught_within(i, n)
    ELSE sum({p \in entries("settlement", n) :
                /\ Claim[log[p].claim].submitter = i
                /\ Objective[Claim[log[p].claim].objective].tier = t},
             LAMBDA p : log[p].reward)

service_charges(i, n) ==
    pools_charged(i, n) + locked_within(i, n) + challenge_bonds_within(i, n)
    + challenge_lost(i, n) + attestation_bonds_within(i, n)
    + slashed_within(i, n)

tier_committed(i, t, n) ==
    IF t = Universal THEN service_charges(i, n)
    ELSE rewards_charged(i, {t}, n)

universal_drawn(i, n) ==
    tier_committed(i, Universal, n)
    + sum(Kinds, LAMBDA t : minus(tier_committed(i, t, n), tier_held(i, t, n)))

spendable_in(i, t, n) ==
    minus(tier_held(i, t, n), tier_committed(i, t, n))
    + minus(tier_held(i, Universal, n), universal_drawn(i, n))

solvent(i, n) == universal_drawn(i, n) <= tier_held(i, Universal, n)
-----------------------------------------------------------------------------
(* Availability: which promises an epoch samples, what answers them, and the *)
(* settlement that follows from the log's first n entries.                   *)

\* Promises whose height was the log's and whose bond was affordable.
undertakings_within(n) ==
    {p \in entries("undertaking", n) :
        /\ log[p].height = p - 1
        /\ log[p].bond <= spendable_within(log[p].identity, p - 1)}

\* The last entry stamped before the epoch, among the first n.
anchor_at(e, n) == Max({p \in 1 .. n : log[p].ts < e} \cup {0})

\* Mutant of sampled_index: the anchor of the whole log.
sampled_index_now(u, e, n) ==
    Draw(log[u].identity, u, <<e, anchor_at(e, Len(log))>>, log[u].height)

sampled_index(u, e, n) ==
    Draw(log[u].identity, u, <<e, anchor_at(e, n)>>, log[u].height)

\* `a' is an AVAILABILITY record that lands after n entries.
check_availability(a, n) ==
    /\ a.undertaking \in undertakings_within(n)
    /\ log[a.undertaking].identity = a.identity
    /\ a.index = sampled_index(a.undertaking, a.epoch, n)

\* The answers that check, each where it landed.
availability_answers_within(n) ==
    {p \in entries("availability", n) : check_availability(log[p], p - 1)}

answered(u, e, n) ==
    \E p \in availability_answers_within(n) :
        log[p].undertaking = u /\ log[p].epoch = e

\* Entries before the first that is stamped in or after the epoch.
boundary(e, n) ==
    Max({m \in 0 .. n : \A p \in 1 .. m : log[p].ts < e})

offered_within(e, n) ==
    sum({p \in entries("availability_pool", n) : covers(log[p].pool, e)},
        LAMBDA p : Pool[log[p].pool].per_epoch)

\* weight >> k, for every k of the word.
shifts(weight) ==
    LET s[k \in 0 .. Bits] == IF k = 0 THEN weight ELSE s[k - 1] \div 2 IN s

\* value * weight / total, rounded down, by doubling and adding over weight's
\* bits so that no product exceeds the word.
mul_div_floor(value, weight, total) ==
    LET rem  == value % total
        bits == shifts(weight)
        carry(q, r) == IF r >= total THEN [q |-> q + 1, r |-> r - total]
                       ELSE [q |-> q, r |-> r]
        step[b \in 0 .. Bits] ==
            IF b = 0 THEN [q |-> 0, r |-> 0]
            ELSE LET d == carry(2 * step[b - 1].q, 2 * step[b - 1].r)
                     on == bits[Bits - b] % 2 = 1
                 IN  IF on THEN carry(d.q, d.r + rem) ELSE d
    IN  IF total = 0 THEN 0
        ELSE (value \div total) * weight + step[Bits].q

eligible(e, n) == undertakings_within(boundary(e, n))

availability_settlement_at(e, n) ==
    LET promises == eligible(e, n)
        kept     == {u \in promises : answered(u, e, n)}
        payees   == {log[u].identity : u \in kept}
        weight   == [i \in payees |->
                        sum({u \in kept : log[u].identity = i},
                            LAMBDA u : log[u].bond)]
        total    == sum(payees, LAMBDA i : weight[i])
        offered  == offered_within(e, boundary(e, n))
        paid     == [i \in payees |-> mul_div_floor(offered, weight[i], total)]
    IN  [epoch |-> e, paid |-> paid, silent |-> promises \ kept,
         unpaid |-> offered - sum(payees, LAMBDA i : paid[i])]
-----------------------------------------------------------------------------
Init == log = <<>> /\ now = 1

\* The bounds: one of the Worlds allows as many entries of each kind.
room(kind) ==
    \E w \in Worlds :
        \A k \in {log[p].kind : p \in 1 .. Len(log)} \cup {kind} :
            k # "settlement" =>
            /\ k \in DOMAIN w
            /\ Cardinality(entries(k, Len(log))) + (IF k = kind THEN 1 ELSE 0) <= w[k]

append(entry) == log' = Append(log, entry) /\ now' = now

afford(i, amount) ==
    declares_supply => amount <= spendable_within(i, Len(log))

\* Mutant of afford_in: the total is enough.
afford_in_total(i, amount, t) ==
    declares_supply => amount <= spendable_within(i, Len(log))

afford_in(i, amount, t) ==
    declares_supply => amount <= spendable_in(i, t, Len(log))

\* Node::post_issuance: only while nothing else has been written.
PostIssuance(r) ==
    /\ room("issuance")
    /\ genesis_prefix = Len(log)
    /\ append([kind |-> "issuance", holder |-> r.holder, units |-> r.units,
               ts |-> now])

\* Node::post_objective, stamped now, or with its own date when a session
\* replays it.
PostObjective(o, at) ==
    /\ \A p \in entries("objective", Len(log)) : log[p].objective # o
    /\ room("objective")
    /\ afford(Objective[o].funder, Objective[o].reward)
    /\ afford_in(Objective[o].funder, Objective[o].reward, Objective[o].tier)
    /\ append([kind |-> "objective", objective |-> o, ts |-> at])

inLog(c) == \E p \in entries("claim", Len(log)) : log[p].claim = c

\* Node::reveal, its outcome only: the claim and the verifier's verdict.
Reveal(c) ==
    /\ \E p \in entries("objective", Len(log)) : log[p].objective = Claim[c].objective
    /\ ~inLog(c)
    /\ room("claim")
    /\ append([kind |-> "claim", claim |-> c, ts |-> now])

accepted(e) ==
    {c \in Claims : \E p \in entries("claim", Len(log)) :
        log[p].claim = c /\ log[p].ts = e /\ Claim[c].truth = "accept"}

settlement_of(o) ==
    \E p \in entries("settlement", Len(log)) : Claim[log[p].claim].objective = o

\* The anchor of an epoch's order: the beacon drawn in that epoch, or else the
\* head of the chain of batches, which stops at the epoch's own batch.
beacon_is_in_time(p, e) == log[p].ts = e

epoch_beacon_within(e, n) ==
    LET drawn == {p \in entries("beacon", n) :
                    log[p].orders = e /\ beacon_is_in_time(p, e)}
    IN  IF drawn = {} THEN {} ELSE {log[Min(drawn)].value}

epoch_chain_head_before(n, e) ==
    {<<log[p].epoch, log[p].claims>> : p \in {q \in entries("batch", n) :
        \A r \in entries("batch", q) : log[r].epoch # e}}

anchor_of_epoch_within(e, n) ==
    IF epoch_beacon_within(e, n) # {} THEN epoch_beacon_within(e, n)
    ELSE epoch_chain_head_before(n, e)

due_epochs ==
    {e \in Epochs :
        /\ accepted(e) # {} /\ e + FinalityEpochs < now
        /\ \A p \in entries("batch", Len(log)) : log[p].epoch < e}

\* Node::settle_due for the first due epoch of objectives that pay once: the
\* SETTLEMENT of one claim of each unsettled objective, then the BATCH.
SettleDue(e) ==
    LET open == {o \in {Claim[c].objective : c \in accepted(e)} : ~settlement_of(o)}
        row(c) == [kind |-> "settlement", claim |-> c,
                   reward |-> Objective[Claim[c].objective].reward, ts |-> now]
    IN
    /\ e \in due_epochs /\ \A d \in due_epochs : e <= d
    /\ room("batch")
    /\ \E paid \in {S \in SUBSET accepted(e) :
            /\ {Claim[c].objective : c \in S} = open
            /\ Cardinality(S) = Cardinality(open)} :
        \E order \in [1 .. Cardinality(paid) -> paid] :
            /\ \A c \in paid : \E k \in DOMAIN order : order[k] = c
            /\ log' = log \o [k \in DOMAIN order |-> row(order[k])]
                          \o <<[kind |-> "batch", epoch |-> e, claims |-> accepted(e),
                                anchor |-> anchor_of_epoch_within(e, Len(log)),
                                ts |-> now]>>
    /\ now' = now

\* Node::record_beacon: once an epoch, for the epoch it is written in.
RecordBeacon(e, value) ==
    /\ e = now
    /\ epoch_beacon_within(e, Len(log)) = {}
    /\ room("beacon")
    /\ append([kind |-> "beacon", orders |-> e, value |-> value, ts |-> now])

\* Node::post_availability_pool: the whole ceiling must be affordable.
PostAvailabilityPool(a) ==
    /\ \A p \in entries("availability_pool", Len(log)) : log[p].pool # a
    /\ room("availability_pool")
    /\ afford(Pool[a].funder, ceiling(a))
    /\ append([kind |-> "availability_pool", pool |-> a, ts |-> now])

\* Node::post_undertaking: over the whole log as it stands, and the bond must
\* be there whether or not a supply was declared.
PostUndertaking(i, bond) ==
    /\ room("undertaking")
    /\ Len(log) > 0
    /\ bond <= spendable_within(i, Len(log))
    /\ append([kind |-> "undertaking", identity |-> i, bond |-> bond,
               height |-> Len(log), ts |-> now])

\* Node::post_availability, by the promiser, who holds the log.  The epoch is
\* the one the command line names, or the current one.
PostAvailability(u, e) ==
    LET a == [kind |-> "availability", undertaking |-> u,
              identity |-> log[u].identity, epoch |-> e,
              index |-> sampled_index(u, e, Len(log)), ts |-> now]
    IN
    /\ room("availability")
    /\ check_availability(a, Len(log))
    /\ ~answered(u, e, Len(log))
    /\ append(a)

\* Mutant of epochClosed: the epoch may still be running.
epochClosedOrNow(e) ==
    /\ e <= now
    /\ \A p \in entries("availability_settlement", Len(log)) : log[p].epoch # e

\* The command line settles closed epochs, and an epoch settles once.
epochClosed(e) ==
    /\ e < now
    /\ \A p \in entries("availability_settlement", Len(log)) : log[p].epoch # e

\* Node::settle_availability
SettleAvailability(e) ==
    LET s == availability_settlement_at(e, Len(log)) IN
    /\ epochClosed(e)
    /\ room("availability_settlement")
    /\ s.silent # {} \/ DOMAIN s.paid # {}
    /\ append([kind |-> "availability_settlement", ts |-> now, epoch |-> e,
               paid |-> s.paid, silent |-> s.silent, unpaid |-> s.unpaid])

\* Node::post_attestation
PostAttestation(i, c, status) ==
    /\ inLog(c)
    /\ \A p \in entries("attestation", Len(log)) :
            ~(log[p].claim = c /\ log[p].attestor = i)
    /\ room("attestation")
    /\ afford(i, VerificationBond)
    /\ append([kind |-> "attestation", claim |-> c, attestor |-> i,
               status |-> status, ts |-> now])

\* Not slashed, the window open by the log's own clock, and the verifier, run
\* again, contradicts the attestation.
slashable(p) ==
    /\ ~slashed(p, Len(log))
    /\ attestation_window_open(p, settled_epoch_within(Len(log)))
    /\ Claim[log[p].claim].truth # log[p].status

\* Node::slash_attestation.  When the verifier cannot run nothing is written.
SlashAttestation(p, catcher) ==
    /\ slashable(p)
    /\ room("verification_slash")
    /\ append([kind |-> "verification_slash", attestation |-> p,
               attestor |-> log[p].attestor, catcher |-> catcher,
               units |-> VerificationBond, ts |-> now])

\* Node::post_challenge, as far as money goes.
PostChallenge(i, c, bond) ==
    /\ inLog(c) /\ Claim[c].truth = "accept"
    /\ \A p \in entries("challenge", Len(log)) :
            ~(log[p].claim = c /\ log[p].challenger = i)
    /\ room("challenge")
    /\ afford(i, bond)
    /\ append([kind |-> "challenge", challenger |-> i, claim |-> c,
               bond |-> bond, ts |-> now])

\* Mutant of defenderLoses: the whole reward, held or not.
defenderLosesReward(c) == Objective[Claim[c].objective].reward

\* At most what the defender still holds, and at most the objective's reward.
defenderLoses(c) ==
    LET held   == balances_within(Claim[c].submitter, Len(log))
        reward == Objective[Claim[c].objective].reward
    IN  IF held < reward THEN held ELSE reward

\* Node::settle_challenge: either side may have won.
SettleChallenge(p, defended) ==
    LET c == log[p].claim IN
    /\ room("challenge_settlement")
    /\ \A q \in entries("challenge_settlement", Len(log)) : log[q].challenge # p
    /\ append(IF defended
              THEN [kind |-> "challenge_settlement", challenge |-> p,
                    winner |-> Claim[c].submitter, loser |-> log[p].challenger,
                    units |-> log[p].bond, ts |-> now]
              ELSE [kind |-> "challenge_settlement", challenge |-> p,
                    winner |-> log[p].challenger, loser |-> Claim[c].submitter,
                    units |-> defenderLoses(c), ts |-> now])

\* The bounds: MaxEpoch epochs, counted from the first record.
AdvanceClock == log # <<>> /\ now < MaxEpoch /\ now' = now + 1 /\ log' = log

Next ==
    \/ \E r \in Issuances : PostIssuance(r)
    \/ \E o \in Objectives, at \in Epochs :
            at <= now /\ now <= at + SyncLag /\ PostObjective(o, at)
    \/ \E c \in Claims : Reveal(c)
    \/ \E e \in Epochs : SettleDue(e)
    \/ \E e \in Epochs, v \in BeaconValues : RecordBeacon(e, v)
    \/ \E a \in Pools : PostAvailabilityPool(a)
    \/ \E i \in Identities, b \in Bonds : PostUndertaking(i, b)
    \/ \E u \in entries("undertaking", Len(log)), e \in Epochs : PostAvailability(u, e)
    \/ \E e \in Epochs : SettleAvailability(e)
    \/ \E i \in Identities, c \in Claims, s \in Statuses : PostAttestation(i, c, s)
    \/ \E p \in entries("attestation", Len(log)), i \in Identities :
            SlashAttestation(p, i)
    \/ \E i \in Identities, c \in Claims, b \in ChallengeBonds : PostChallenge(i, c, b)
    \/ \E p \in entries("challenge", Len(log)), d \in BOOLEAN : SettleChallenge(p, d)
    \/ AdvanceClock

Spec == Init /\ [][Next]_vars
-----------------------------------------------------------------------------
(* Node::audit: what a reader of the whole log faults.  Each operator is the *)
(* set of entries, or of identities, that its part of the audit reports.     *)

audit_issuances ==
    {p \in entries("issuance", Len(log)) : p > genesis_prefix}

audit_conservation ==
    {i \in Identities :
        declares_supply /\ committed_within(i, Len(log)) > gross_paid_within(i, Len(log))}

audit_tiers == {i \in Identities : declares_supply /\ ~solvent(i, Len(log))}

audit_undertakings ==
    {p \in entries("undertaking", Len(log)) :
        \/ log[p].height # p - 1
        \/ log[p].bond > spendable_within(log[p].identity, p - 1)}

\* An answer that does not check, or the second one that does.
audit_availability ==
    {p \in entries("availability", Len(log)) :
        \/ ~check_availability(log[p], p - 1)
        \/ answered(log[p].undertaking, log[p].epoch, p - 1)}

rowsOf(p) == [paid |-> log[p].paid, silent |-> log[p].silent, unpaid |-> log[p].unpaid]

\* A settlement that is not the one its position in the log gives, or the
\* epoch's second.
audit_availability_settlements ==
    {p \in entries("availability_settlement", Len(log)) :
        LET s == availability_settlement_at(log[p].epoch, p - 1) IN
        \/ s.silent = {} /\ DOMAIN s.paid = {}
        \/ rowsOf(p) # [paid |-> s.paid, silent |-> s.silent, unpaid |-> s.unpaid]
        \/ \E q \in entries("availability_settlement", p - 1) : log[q].epoch = log[p].epoch}

rewards(p) == sum(DOMAIN log[p].paid, LAMBDA i : log[p].paid[i])

\* A settlement whose rewards and remainder are not what the pools of the whole
\* log offer its epoch.
audit_offers ==
    {p \in entries("availability_settlement", Len(log)) :
        rewards(p) + log[p].unpaid # offered_within(log[p].epoch, Len(log))}

audit_pools_overspent ==
    sum(entries("availability_settlement", Len(log)), rewards)
        > sum(entries("availability_pool", Len(log)), LAMBDA p : ceiling(log[p].pool))

\* A payment of a claim that was not accepted, of another amount than the
\* objective's, or the objective's second.
audit_settlements ==
    {p \in entries("settlement", Len(log)) :
        \/ ~inLog(log[p].claim) \/ Claim[log[p].claim].truth # "accept"
        \/ log[p].reward # Objective[Claim[log[p].claim].objective].reward
        \/ \E q \in entries("settlement", p - 1) :
                Claim[log[q].claim].objective = Claim[log[p].claim].objective}

\* The accepted claims of an epoch among the first n entries.
accepted_in_epoch_within(e, n) ==
    {log[p].claim : p \in {q \in entries("claim", n) :
        log[q].ts = e /\ Claim[log[q].claim].truth = "accept"}}

\* Over the log as it stood when the batch was written.  A batch is a set here: that
\* its claims stand in the order of their ranks is Settlement's BeaconOrderDecides.
audit_batches ==
    {p \in entries("batch", Len(log)) :
        \/ log[p].anchor # anchor_of_epoch_within(log[p].epoch, p - 1)
        \/ log[p].claims = {}
        \/ log[p].claims # accepted_in_epoch_within(log[p].epoch, p - 1)
        \/ \E q \in entries("batch", p - 1) : log[q].epoch = log[p].epoch}

audit_beacons ==
    {p \in entries("beacon", Len(log)) :
        \/ ~beacon_is_in_time(p, log[p].orders)
        \/ \E q \in entries("beacon", p - 1) : log[q].orders = log[p].orders}

\* Objections to what was not accepted, or raised twice.  The rest of what the
\* audit asks of a dispute's records is about traces and windows (Dispute).
audit_challenges ==
    {p \in entries("challenge", Len(log)) :
        \/ ~inLog(log[p].claim) \/ Claim[log[p].claim].truth # "accept"
        \/ \E q \in entries("challenge", p - 1) :
                log[q].claim = log[p].claim /\ log[q].challenger = log[p].challenger}

\* Outcomes between others than the two parties, beyond what was at stake, or
\* the dispute's second; who had to win is not asked.
audit_challenge_settlements ==
    {p \in entries("challenge_settlement", Len(log)) :
        LET c == log[log[p].challenge]
            parties == {Claim[c.claim].submitter, c.challenger}
        IN
        \/ \E q \in entries("challenge_settlement", p - 1) :
                log[q].challenge = log[p].challenge
        \/ ~({log[p].winner, log[p].loser} \subseteq parties)
        \/ log[p].winner = log[p].loser
        \/ log[p].units > (IF log[p].loser = c.challenger THEN c.bond
                           ELSE Objective[Claim[c.claim].objective].reward)}

\* Among others, bonds that were not there when they were staked; whether a
\* supply was declared is not asked.
audit_attestations ==
    {p \in entries("attestation", Len(log)) :
        \/ ~inLog(log[p].claim)
        \/ VerificationBond > spendable_within(log[p].attestor, p - 1)
        \/ \E q \in entries("attestation", p - 1) :
                log[q].claim = log[p].claim /\ log[q].attestor = log[p].attestor}

\* Slashes that came twice, too late, or for telling the truth.
audit_slashes ==
    {p \in entries("verification_slash", Len(log)) :
        LET a == log[p].attestation IN
        \/ slashed(a, p - 1)
        \/ log[p].attestor # log[a].attestor \/ log[p].units # VerificationBond
        \/ ~attestation_window_open(a, settled_epoch_within(p - 1))
        \/ Claim[log[a].claim].truth = log[a].status}
-----------------------------------------------------------------------------
\* Entries are stamped within the clock and refer to earlier entries.
TypeOK ==
    /\ now \in Epochs
    /\ \A p \in 1 .. Len(log) :
        /\ log[p].ts \in 1 .. now
        /\ log[p].kind = "availability" => log[p].undertaking \in 1 .. p - 1
        /\ log[p].kind = "verification_slash" => log[p].attestation \in 1 .. p - 1
        /\ log[p].kind = "challenge_settlement" => log[p].challenge \in 1 .. p - 1

\* The audit's conservation rule (Node::audit): on a log that declares a supply
\* nobody has committed more than the log issued or paid them, whatever was
\* bonded, lost, slashed and returned in between.  The balances saturate, so a
\* shortfall would be units made out of nothing.
NobodyOwesMoreThanTheyHold == audit_conservation = {}

\* Every declared unit is somewhere: spendable, bonded, or escrowed and not yet
\* paid out.  What escrowed_within reports closes the account.
SupplyIsAccountedFor ==
    declares_supply =>
        LET n == Len(log) IN
        sum(Identities, LAMBDA i : issued_within(i, n)) =
        escrowed_within(n) +
        sum(Identities, LAMBDA i :
            balances_within(i, n) + locked_within(i, n)
            + challenge_bonds_within(i, n) + attestation_bonds_within(i, n))

\* What audit_tiers asks, of identities whose commitments are all rewards: each
\* was funded from its own tier or from a reserve no other tier leans on.
TypedWorkIsBacked ==
    \A i \in audit_tiers : service_charges(i, Len(log)) > 0

\* A log the node's rules wrote audits clean, and goes on doing so as it grows:
\* no entry, back-dated, late or paid since, turns an admitted record into a
\* fault.  Left out: the offer of an epoch (audit_offers) and the balance by
\* tier, which have properties of their own; disputes an identity has with
\* itself, whose winner is the loser; and bonds of attestors on a log without
\* a supply, which admission does not ask for (Node::audit, post_attestation).
HonestLogsAuditClean ==
    /\ audit_issuances \cup audit_undertakings \cup audit_availability
       \cup audit_availability_settlements \cup audit_settlements
       \cup audit_batches \cup audit_beacons \cup audit_challenges
       \cup audit_slashes = {}
    /\ ~audit_pools_overspent
    /\ \A p \in audit_challenge_settlements : log[p].winner = log[p].loser
    /\ declares_supply => audit_attestations = {}

\* An epoch's pool pays each promiser the floor of its share by bond, once, and
\* never names as silent a promise that was answered while the epoch ran.
AnsweredPromisesArePaid ==
    \A p \in entries("availability_settlement", Len(log)) :
        LET s == log[p]
            total == sum(DOMAIN s.paid, LAMBDA i : s.paid[i]) + s.unpaid
            kept(i) == {u \in eligible(s.epoch, p - 1) :
                            log[u].identity = i /\ u \notin s.silent}
            weight(i) == sum(kept(i), LAMBDA u : log[u].bond)
            all == sum(DOMAIN s.paid, LAMBDA i : weight(i))
        IN
        /\ \A i \in DOMAIN s.paid : s.paid[i] = (total * weight(i)) \div all
        /\ \A q \in entries("availability", Len(log)) :
                log[q].epoch = s.epoch /\ log[q].ts <= s.epoch =>
                    log[q].undertaking \notin s.silent
        /\ \A q \in entries("availability_settlement", Len(log)) :
                log[q].epoch = s.epoch => q = p

\* Nobody is paid for an epoch on a promise made in or after it: an entry
\* stamped in the epoch precedes no promise the epoch pays.
PromisesPrecedeTheirEpoch ==
    \A p \in entries("availability_settlement", Len(log)) :
        \A i \in DOMAIN log[p].paid :
            \E u \in entries("undertaking", p) :
                /\ log[u].identity = i
                /\ \A q \in 1 .. u : log[q].ts < log[p].epoch

\* A bond is taken once and while it was locked: no slash, however late it
\* comes, takes units that the window had given back to the attestor and that
\* may be spent by then (Node::slash_attestation).
SlashesAreDeserved ==
    \A q \in entries("verification_slash", Len(log)) :
        LET p == log[q].attestation IN
        /\ attestation_bonds_within(log[p].attestor, q - 1) >= VerificationBond
        /\ attestation_bonds_within(log[p].attestor, q)
                = attestation_bonds_within(log[p].attestor, q - 1) - VerificationBond

\* A paid epoch's order stands: the anchor its batch names is also what the
\* whole log gives for the epoch, whatever was drawn, posted or paid since
\* (Node::anchor_of_epoch).
AnchorsStand ==
    \A p \in entries("batch", Len(log)) :
        log[p].anchor = anchor_of_epoch_within(log[p].epoch, Len(log))

\* What the audit says of an availability settlement: rewards and remainder are
\* what the pools of the whole log offer that epoch.
SettlementsMatchTheOffer == audit_offers = {}

\* What docs/tiers.md says of service bonds: units earned in a tier cannot buy
\* them, so every identity is solvent tier by tier.
ServiceBondsAreUniversal == audit_tiers = {}

\* What the comment on audit_tiers says of every scarcity rule: silent on a log
\* with no declared supply, so that no attestation is faulted for its bond.
ScarcityIsSilentWithoutSupply == declares_supply \/ audit_attestations = {}
=============================================================================
