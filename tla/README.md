# Cairn: a TLA+ development of its rules, its money and its network

Cairn is a log on which anybody may post a research objective with a reward,
others commit to and reveal solutions, a pinned verifier judges them, and the
node pays. Every node replays the same records through the same rules, so the
rules must hold up under crashes, late records, competing submitters and
disputes; and the records must reach every node, through sessions, lookups,
transfers and a daemon that all fail in their own ways. This directory models
these parts in TLA+, checks them with TLC on small instances and proves the
central ones with TLAPS for every instance.

All line numbers are of the files under `src/src/`. The repository carries TLA+
of its own (`spec/tla/`); nothing here is taken from it, every definition is
translated from the Rust code.

## 1. Inventory of the system

| Component | State | Operations | Makes it correct |
|---|---|---|---|
| Rules path (`node.rs`, `records.rs`) | the log; everything else is derived from it by scanning | `post_objective`, `commit`, `reveal`, `settle_due`/`settle_at`, `settle_one`, `settle_unit`, `settle_improvement` | no pool overspent, nothing paid twice, paid claims were committed, revealed and accepted, epochs frozen once paid, order by beacon and not by arrival, every accepted claim settles |
| Reward curve (`frontier.rs`) | none (pure) | `validate`, `progress`, `improves`, `cumulative`, `payout`, `stall`, `is_exhausted` | payouts telescope, the pool empties at the target, exhaustion is final, slicing is bounded |
| Piecework (`piecework.rs`) | none (pure) | `unit_keys`, `payout_for` | a unit is paid once per job, and is paid while there is money |
| Epochs and ranks (`partition.rs`) | none (pure) | `FINALITY_EPOCHS`, `settlement_rank` | nodes that hold the same records settle the same batches |
| Session replay (`p2p/service.rs`, `p2p/sync.rs`) | what the peer already has | `replay_records_with_horizon`, `apply_records`; digests and ranges | replays in any order converge |
| Disputes (`challenge.rs`, `node.rs` 1600-2220) | challenges, moves, settlements in the log | `post_challenge`, `post_bisection`, `settle_challenge`, `overdue` | the search stays on a real divergence, truth wins the step, only silence forfeits, disputes close |
| Supply (`node.rs` 4600-5025, `tier.rs`) | issuance, escrow, bonds, balances derived from the log | `post_issuance`, `afford_in`, `balances_within` | no unit is committed twice, a tier's work is backed |
| Availability (`node.rs` 2711-3300, 5048-5211) | pools, undertakings, answers, attestations | `post_undertaking`, `post_availability`, `settle_availability`, `post_attestation`, `slash_attestation` | an answered promise is paid, a pool pays once an epoch, slashing is deserved |
| Audit (`node.rs` 6600-7640) | none (re-reads a log) | `audit_*` | an honest log has no faults |
| Committees, sealed submissions (`sealed.rs`, `node.rs` 3330-4330) | peers, envelopes, commitments, shares | committee draw, `seal`, `commit_sealed`, `post_committee_share`, `open_sealed`, custody guard | a quorum opens and nothing less, shares stay valid, exposure is guarded |
| Beacon (`drand.rs`, `vdf.rs`) | beacon entries | `record_beacon` | one value per epoch, fixed before it is used |
| Ledger file (`ledger.rs`) | the file, its lock, the entries in memory, a change stamp | `open`, `append`, `load`, `reload_if_changed` | memory is the file, torn tails are refused, sequence numbers are dense |
| Checkpoints (`checkpoint.rs`) | a signed (height, root) | sign, `verify_prefix` | an accepted log extends the signed prefix |
| Daemon, HTTP, spool (`daemon.rs`, `serve.rs`, `mcp.rs`) | spool files, the node's mutex | `settle_tick`, spool drain | calls are serialised, spooled records are applied once |
| Sessions (`p2p/session.rs`, `sync.rs`, `code.rs`, `peers.rs`, `pop.rs`, `service.rs`) | a staging peer, the hint store | five rounds of question and answer | both ends in step, records and code converge, hints never go back |
| Population (`gossip.rs`) | top-K candidates per island | `insert`, `ingest`, `prune` | merging converges, an inflated score displaces nothing real |
| Directory (`dht.rs`, `p2p/dht.rs`) | routing table, lookups, providers, key requests | `seed_from_log`, `peers_for`, `next_hops`, `on_providers`, `on_unreachable` | lookups end, living peers stay, only first-hand facts are served |
| Swarm (`p2p/swarm/`) | piece maps, reservations, choke state | `fetch`, `serve`, `on_*`, `schedule`, `rechoke` | what arrives is the blob, no reservation is stranded, honest transfers succeed |
| Transport (`p2p/handshake.rs`, `transport.rs`, `portmap.rs`, ...) | sockets | handshake, framing, port mapping | bytes arrive as sent, or not |
| Blob store (`blobs.rs`, `store/`, `shards/`) | content-addressed files, quota | put, get, evict | quota never exceeded |
| Verifiers (`verifiers/`) | none | run a pinned checker | deterministic, or `Unavailable` |
| Reports (`knowledge.rs`, `attribution.rs`, `tier.rs`, ...) | none | read-only scans of a log | attribution's shares add up |

**Interaction.** Everything meets at the log. A handler takes the node's mutex,
first drains the epochs that are due at its own stamp (`settle_due`), then
judges its record against what the log says by then, then appends. The daemon
calls `settle_tick` in a loop, drains the spool that the HTTP handlers fill and
dials whom the directory chose; a peer session compares inventories, fetches
what is missing, fetches the verifier code it will need, and only then replays the other side's records
through the same `commit` and `reveal`, each at the record's own `created_at`.
Dispute and supply records are judged against balances derived from the same
entries the settlement rules write.

**What is hard.** (a) One operation is several appends and the process may die
between any two of them; the marker that an epoch was settled (`BATCH`) comes
last. (b) A record is judged against the state at delivery, and different nodes
get it at different times. (c) Verifiers may be unavailable. (d) Money is moved
by differences of truncated values, and subtracted with saturation. (e) A
dispute needs moves of two parties who may stop answering. (f) Every balance is
a scan of a prefix of the log, while entries with older stamps still arrive.
(g) The two ends of a session must take the same early-outs. (h) The daemon's
threads share one mutex and wait for the network; the swarm's threads compute
under a lock and send after it. The complete list,
each at its line and with the properties that would notice, is under `hazards`
in `PROJECT.json`.

## 2. Modules

```
Ratchet ---- MCRatchet                    the reward curve
   |
Settlement - MCSettlement                 one node's rules path
   |    \--- Pool (INSTANCE)              what it promises about money
Convergence - MCConvergence               that node and a second (INSTANCE)
        \--- SettlementProofs             (also extends MCRatchet)
Bisection -- Dispute -- MCDispute         the dispute game, and its money
                  \---- DisputeProofs
LedgerFile - MCLedgerFile                 the log as a file
   \-------- LedgerFileProofs
Economy ---- MCEconomy                    supply, bonds, availability, audit
   \-------- Sealed -- MCSealed           sealed submissions over that log
                \---- EconomyProofs
Exchange --- MCExchange                   sessions between two nodes
   \-------- ExchangeProofs
Directory -- MCDirectory                  routing and lookups of one node
   \-------- DirectoryProofs
Daemon ----- MCDaemon                     the threads of one process
   \-------- DaemonProofs
Swarm ------ MCSwarm                      transfer of a blob in pieces
   \-------- SwarmProofs
```

The modules meet at what each takes as open: `Settlement` judges records that
`Exchange` delivers, `Convergence` is two of them; `Daemon` calls settlement and
sessions as single steps that may end either way; `Exchange` takes the DHT round
as one exchange, which `Directory` details; the code that a session asks for
comes from the blobs that `Swarm` moves; `Dispute` takes other commitments of
units as `Charge`, which `Economy` details.

### Ratchet

The integer curve of `frontier.rs`: `progress` measures and clamps a score
between baseline and target in either direction, `improves` demands
`min_improvement`, `cumulative` truncates `reward * progress / span`, and
`payout` is a difference of two cumulative values. The code's checked 128-bit
arithmetic cannot overflow on `i64` scores and `u64` rewards, so plain integers
are exact. `MCRatchet` drives the curve the way `settle_improvement` does.

### Settlement

The log is kept as the tables the code derives from it: `posted`, `committed`
(epoch of the first COMMITMENT), `revealed` (epoch of the first CLAIM),
`verdict` (the last VERDICT), `receipts` and `total` (SETTLEMENT), `frontier`
(last FRONTIER), `batch` (BATCH). `pc`, `call` and `drain` are the stack of the
handler that holds the mutex, with one action per append:

| Action | Code |
|---|---|
| `PostObjective` | `post_objective`: structure checks, one append |
| `Tick`, `CommitCall`, `RevealCall` | a handler takes the lock; `settle_at`, `commit`, `reveal` |
| `StartBatch` | `settle_due` picks the lowest due epoch and sorts its batch |
| `SettlePlain`, `SettleUnit`, `AdvanceFrontier`, `PayImprovement`, `SettleNothing` | `settle_one` and what it calls; FRONTIER and SETTLEMENT are separate steps |
| `WriteBatch` | the BATCH append |
| `TickReturns`, `CommitReturns`, `AppendClaim`, `RefuseClaim`, `AppendVerdict` | the handler's own part, after the drain |
| `Crash` | the process dies, or an append fails and its error leaves the handler: the stack is lost, the log stays |
| `AdvanceClock` | the wall clock enters the next epoch |

Abstractions. Records are members of small sets with the fields the rules read.
Checks of a record's own bytes (signatures, field shapes, the committee
parameters of a seal) refuse a record or say nothing, so inadmissible records
are simply not in the sets. The log declares no supply, in which case the code's
affordability checks are skipped (`Dispute` models a log that declares one). The
verifier's answer is a function of the claim, as the code's pinned verifiers
are, except that a run may be `Unavailable`. `Rank` is any function of epoch,
anchor and commitment. The anchor of an epoch is the beacon that was recorded for
it, where there is one (`Beacon`; recording it is an action of `Economy`), and
else the history of earlier batches, which is what the epoch chain hashes. A claim that opens a sealed commitment keeps the
commitment's `created_at` and may be revealed in any later epoch; who assembles
the shares is not modelled.

### Pool

What settlement promises about money and nothing else: pools are opened, and an
unpaid claim draws once from what its pool still holds. `Settlement` is checked
and proved to implement it, with `paid` read from the SETTLEMENT entries.

### Convergence

Two nodes, A and B, over the same records: A is the node of `Settlement`, which the
module extends, B an instance of it with variables of its own. They share the
clock; each gets each record by its own session, in any order, at most `SyncLag`
epochs late (`apply_records`, `replay_records_with_horizon`): the clock waits
until what one log holds has reached the other node, which then holds it too or
refuses it. Beacons are not among the records that sessions exchange
(`service.rs` 1084), so B's are a constant of their own (`BeaconB`). The handlers
of two nodes touch nothing of each other, so each runs to its end before the
other node moves.

### Bisection and Dispute

`Bisection` has the operators of `challenge.rs`: the interval in dispute, which
states each side has opened, the midpoint, the narrowing, and the decision by
one step. `Dispute` has the handlers of `node.rs`: `PostChallenge`,
`OpenEndpoint` and `Answer` (`post_bisection`), `SettleVoid`, `SettleForfeit`
and `SettleByStepping` (`settle_challenge`), the bonds and what a decided
dispute moves, and `Charge`, any other record that commits units of an identity.
Each handler is one append. Time is counted from the claim's admission and from
the dispute's last record, up to one past the window, which is all that the code
compares. Merkle openings are binding, so a side can only show the state its
committed trace has; any pair of traces may be committed, true, false,
ill-founded or diverging and rejoining. A stepper that cannot run leaves the
dispute open, a stuttering step. An identity that challenges its own claim is
the challenger and never answers as the defender, as in `side_of`.

### LedgerFile

Below the rules: the file, the lock, and each process's handle (`entries`,
`loaded_stamp`, and where it is in a call). The lock is advisory: `open_exclusive`
takes it, `append` does not ask for it, and any open handle may append, as the one
of `cairn peer` does (`cmd_peer`, main.rs 4382 and 4398). `raced` remembers that
such an append met another writer: that somebody else was appending or held the lock
when it began, that somebody took the lock or began to append while it was under
way, or that what it had read was no longer the file. `append` is several
steps, because a reader, a dying process, a failed call or a power failure may
come between any two: the line's bytes arrive in parts, are synced, and only
then is memory extended. A line cut before its newline is run on by the next
append, as `O_APPEND` does. Since an entry's hash covers everything before it,
an entry is modelled by that history, which makes `verify_chain` a comparison of
neighbours. The at-rest cipher binds a line to its position and is left out: the
model is of a plain log. Between them the `Crash` of `Settlement` (the log ends
after some append) is what this module's `Exit` and `FailWrite` come to when the
file still loads.

### Economy

The log is a sequence of entries and nothing else is state, as in the code:
every balance is an operator over the first n entries, named as the code's
`..._within`. Entry p was admitted against the p - 1 entries before it. One
action per handler: `PostIssuance`, `PostObjective` (its stamp may lie up to
`SyncLag` epochs back, as a session brings it), `Reveal`, `SettleDue`,
`RecordBeacon`, `PostAvailabilityPool`, `PostUndertaking`, `PostAvailability`,
`SettleAvailability`, `PostAttestation`, `SlashAttestation`, `PostChallenge`,
`SettleChallenge`, and the clock. Claims are judged when they are revealed and a
batch's order is left to `Settlement`; how a dispute is decided is left to
`Dispute`. Records are well formed and signed; a Merkle answer proves the
entry that was drawn. `mul_div_floor` is modelled bit by bit, as the
code's doubling division, with `shifts` for the bits of the weight.

The audit (`audit_*`) is modelled as operators on the finished log that return
the faults they would report. A batch is a set there, so the half of
`audit_batches` that compares its order (node.rs 7905-7923) is left out; the order
itself is `BeaconOrderDecides` of `Settlement`. Left out too are the re-derivation of ratchet and
piecework rewards (the curve is `Ratchet`'s), the moves of a bisection, the
epochs that claims declare and the report of the epoch length.

### Sealed

Extends `Economy` with peer records, the committee that an epoch's rank draws
from them, the custody guard, sealed commitments, shares, and the two ways to
open: from a threshold of shares by anybody, and by the submitter. A submitter
draws the committee when it seals, the node when the commitment lands, and again
for every share. Shamir's scheme and the ciphers are perfect, and a wrong share
looks like a right one.

### Exchange

A step is what one end does between two receives: it takes the message it waits
for, computes, and sends the next. `On...` are the rounds in the order of
`session.rs`: inventories and buckets, wants and records, verifier code, DHT,
peer hints, populations. `Abort` is a refusal (a limit, an unexpected message),
`Cut` loses the connection, `Drop` and `Fail` are how an end learns of it. A
body hashes to its id, and an inventory's count and XOR of a bucket tell its
content. Of the node's rules there is what depends on what else it holds:
`replay_records` takes objectives, then commitments, then claims, each kind in the
order of `created_at` (ids break ties); a commitment or a claim first settles the
epochs that are due at its stamp; and it is refused when what it names is missing or
was not accepted, when its epoch is settled, when its plain objective was paid, or when
it does not cite the frontier. Who is paid, and how much, is left to `Settlement`.

### Directory

The Directory is a record and its methods are operators on it; the actions are
the tick's phases (`SeedFromLog`, `PeersFor`, then dials that succeed, fail, or
end their DHT round and fail in a later one (`DialRound`), and `Sleep`), calls from other peers (`Inbound`), and provider records that lapse.
What other peers know is constant, true or false. The caps on providers and keys
are not reached.

### Daemon

The tick, accept, HTTP and agent threads, with the one mutex, and everything on
disk as state of its own: log, checkpoint, spool files with their temporaries,
the agent's pending file. Waiting for the network with the lock held is a state
that only a timeout has to end. `Crash` loses what is not on disk, `Start` reads
it back. Reads and writes of the operator's own files may fail, up to `MaxFaults`
times: `PendingStore::save` is best effort, a pending file that cannot be read is an
empty store, which the next save writes over it; `persist` only logs a checkpoint that
could not be written, after the dirty flag was taken; a spool file may not be removed.
`excused` names the nonces such an error, a crash or a refusal was about, `missed`
says that the last checkpoint due was not written. Which submission is admitted and
what a peer brings is open. That an artifact is not submitted again once it is
claimed (`claimed`) is an assumption on the agent: `submit_claim` does not check it.

### Swarm

Leeches that fetch one blob and peers that serve it. `schedule`, `on_manifest`,
`on_bitfield`, `on_have`, `on_choke`, `on_piece`, `on_request`, `rechoke`,
`tick`, `remove_peer` and `finish` are `swarm/mod.rs`'s methods; the actions are
the threads of `tcp.rs`: `Connect` or `DialFails`, the readers (`LeechReads`,
`SeedReads`), a ticker per served connection (`SeedTick`), the fetch loop
(`FetchTurn`, `FetchFails`, `Deadline`, which is also the `blobs.put` that fails at
the end, `tcp.rs` 850-852). Every thread computes in one step and
dispatches in another (`LeechDispatch`, `Dispatch`), so that messages computed
in one order may be sent in the other. `Break`, `Timeout`, `HangUp` and
`...SeesEnd` end connections. A peer serves what its store holds and is complete
from the start, so it never asks for anything; what a leech announces to it
changes nothing it reads again and is left out. Peers of other programs may hold
a part, claim another blob, forge the piece hashes or serve junk. A manifest
above `max_blob` or with another piece length is not modelled, nor are the wire
format and the address exchange on the same connection. `SwarmAssumption` gives a
leech no more endpoints than `max_peers` (32): `fetch_using` dials every endpoint it
is given (`tcp.rs` 780), and one over the limit would stay connected and unregistered
(`mod.rs` 434-436). `Timeout` is a connection
on which nothing is on its way and nobody will send: `IO_TIMEOUT` (30 s) is
taken to be longer than a message takes. Where another connection of the leech is
still at work, an idle one may time out only as a counted fault.

## 3. Runs

| Run | Shows |
|---|---|
| `ratchet_curve` | For every block with targets within 6 and scores within 8, both directions, four minimum improvements and four rewards (more and less than the span): the pool is paid out exactly at the target, and `is_exhausted` is right about every further score |
| `settle` | Four logs (`Worlds`), one crash at any append, deliveries up to one epoch late. Certificates: competing, copied, one commitment opened twice. A curve whose pool is smaller than its span: competing, building, stale and sealed improvements. Two pools of one job: overlapping batches, and a pool that runs dry in the middle of a claim. Two jobs whose claims of one epoch share a unit. The inductive invariant of the proofs (types, control, log and money), beacon order, units paid while funded, the pool refinement; under fairness every accepted claim settles |
| `settle_late` | Records up to three epochs late, past the finality delay, a crash and a verifier outage: a paid epoch stays frozen, and what was paid was earned |
| `converge` | Two nodes that get every record at most one epoch late, as late as `FINALITY_EPOCHS` allows, in any order, on a curve, a certificate and piecework, with a beacon recorded for one epoch: whenever neither has anything left to settle, they have the same batches, payments and frontiers, unless a rule that reads what was settled refused one of them a record that the other took |
| `dispute` | Two identities dispute each other's claims over traces of five states while one of them spends: the search invariant, truth wins the step, only silence forfeits, bonds covered; under fairness disputes close |
| `ledger` | Two processes, with the lock or without, and a file of up to two lines, writes cut anywhere, failed reads and syncs, dying processes and power failures: a file that loads holds every acknowledged entry and is a continuation of what anybody read, whatever the writers do to each other; and while syncs succeed and no append without the lock meets another writer, it is one chain, and a continuation of what any writer holds |
| `economy` | One declared supply shared by objectives, escrow, promises, pools, attestations and disputes, with objectives stamped one epoch back: nobody owes more than they hold, no unit is made or lost, typed work is backed by its tier or the reserve, the audit finds nothing on a log that the rules admitted, and an answered promise is paid once its epoch is settled |
| `sealed` | Back-dated entries, peers that join and replace their keys, a member that publishes wrong shares, committees of three and four: shares stay valid, a quorum of right shares opens and nothing less does, an epoch's exposure is covered by the stake |
| `exchange` | Six pairs of nodes, one lost connection, clients, clocks that differ, epochs that come due on either side: ends in step; a session delivers the other's log but for what the rules refuse for a reason older than the claims it brings; claims meet their checker; and under fairness nothing stays missing that a node's rules would take |
| `directory` | Two keys looked up at once, two peers that share a bucket with room for one, dials that fail, missing keys, wrong relays, inbound sessions: an in-flight contact is owed an outcome, living peers keep their place, lookups end |
| `daemon` | An agent and an epoch to settle; one submission retried by two handlers; a peer's record and an epoch; in each a crash anywhere and one I/O error anywhere: no starved tick, answered submissions ruled on, own records signed unless the last checkpoint due was not written, and no nonce lost but those a crash, an error or a refusal was about |
| `swarm` | Twelve situations of one leech with two peers, or two leeches with one peer or both: a true rarity index, no stranded reservation, a fetch from a peer with the whole blob fails only when the endgame's late copies had every such peer dropped, and no state without a step in which somebody still fetches (deadlock is checked) |

The runs check the properties that say most. Other properties stated in the
modules hold on the same instances and can be added to the same cfg: each
module's `TypeOK` (`SealedTypeOK`); of the curve, `MovesAreBounded` and
`StallIsTruthful`; of settlement, `PoolNeverOverspent`, `PaidAtMostOnce`,
`FrontierTelescopes`, `FrontierOnlyImproves` and `EpochsPaidInOrder` (all proved),
`TimelyRecordsAreNeverLate` (`MCSettlement.cfg`) and `AdvancesArePaid`
(`MCSettlementLate.cfg` with `MaxCrashes = 0`); `SearchIsLogarithmic` and
`UnplayedChallengesClose`; `StampIsHonest`; `PromisesPrecedeTheirEpoch`,
`SlashesAreDeserved` and `AnchorsStand`; `SealsMatchTheirDraw`;
`VouchedPeersAreOffered`, `HintsNeverGoBack`, `BestNeverFalls` and
`PopulationsConverge`, `LogsAreStaged` (proved); `FirstHandOnly` (proved) and `FreshnessNeverFalls`;
`DueEpochsSettle` and `AgentWorkLands`; `OnePeerPerPiece`, `FetchedIsTheBlob` and
`BlameIsDeserved` (all proved).

**Bounds.** `FinalityEpochs = 1` is the code's value. `MaxEpoch` 5 or 6 lets a
claim be committed (1), revealed (2), closed and settled (4) and a second epoch
be settled after it, which is what order, lateness and anchors need. One crash
suffices for the questions asked of a drain that is run again: the state after
it is an ordinary log, and the proofs cover any number. Four claims are enough
for two to compete in one epoch, a third to build on or copy either, and a
fourth to arrive late. In `dispute`, a trace of five states (`Last = 4`) needs
two rounds in every branch, so that an interval is narrowed on both sides;
`Window = 1` distinguishes before, at and after the deadline. `Scenarios`
enumerates the trace pairs that matter: a right defence against an early lie, two
different lies, different starts (void), and a lie that rejoins the execution, so
that the ends are equal (void); beside each, an honest objection to a late lie. `Spenders` and `Diligents`
bound which identities are charged by other records, and which one is assumed to
answer. In `ledger`, two lines hold a line in trouble and one after it, and two
processes a writer and its successor, its rival or a reader; both are
symmetric, as are the records. Appends are synced there, since without that a
power failure may take acknowledged entries by design.

`MCEconomy` lists which records may share a log (`Worlds`): verdicts and slashes,
disputes, three objectives of two tiers, beacons and two batches, availability.
Mixing all of them adds interleavings of entries that do not read each other.
`FinalityEpochs = 0` there (the code's constant is 1) lets commit, settlement and
what follows happen within three epochs; `SyncLag = 1` is then already later than
finality, so back-dated entries do meet paid epochs. `AttestationWindow = 0` and
bonds of one and two units make windows close and balances run out. Sums are
small, so the rounding of shares is checked apart, by the assumption
`MulDivFloorIsTheQuotient` over all small quotients. `MCSealed` needs four peers:
three seats, one of them lying, and one more for a committee that grows; seals
are symmetric. In `MCExchange` limits are between one and four, so that each is met; record 12
is too large for a message; the clocks stand at epochs 1, 2 and 4, so that an epoch
can be settled before, at and after the record that it would refuse. `MCDirectory` has `K`, `Alpha` and
`MaxAsk` at one, which makes buckets full and lookups wait; two keys share the
dials. `MCDaemon` has one of everything but handlers, of which two are needed for
the race on one spool file; one I/O error is enough to lose a nonce or a checkpoint,
and one crash to meet it again after a restart. `MCSwarm` has three pieces: one that is there, one in
flight and one to ask for, with the endgame from the start (as the program's own
limits have it for blobs up to a MiB), at the last piece, and never; one fault per
behaviour where one leech is at work; `Rounds = 2`, since a peer reads its round only
modulo the number of leeches that hope for a slot, and the instances have at most
two; `MaxQueue` keeps a peer from changing its mind about a leech while it
has messages under way, and so bounds the queues. In one of
the worlds the endgame does cost the only whole peer, and the fetch fails.

**Fairness.** Settlement: a handler that holds the mutex runs on (weak); the
daemon's loop returns to `settle_tick` whatever other calls arrive (strong, as
calls may take the lock in between but never keep it from the loop for ever); the
clock advances. Nothing is assumed about records, and crashes are bounded by
`MaxCrashes`. Dispute: time passes; settlement of a challenge is requested again
and again, which anybody may do; and one identity, any one of `Diligents`,
answers what it is asked. Nothing is assumed of the other side: that is what the
answer window is for. Exchange: a node dials again whenever it may (the daemon
dials every tick), an end with a message or a closed connection goes on (timeouts
end every wait), clocks advance. Directory: the tick thread goes round;
`LookupsTerminate` has premises of its own, that `next_hops` cuts nobody off and
that some tick has a dial to spare, since the code guarantees neither. Daemon:
the tick, accept and agent threads get the mutex again and again (strong: a
`std::sync::Mutex` is not queued, but each holder releases it), handlers and the
clock go on, and a crashed process is started again. Swarm, Economy and Sealed
state safety only.

Each property of a run has a mutant in `PROJECT.json`: a variant of one
definition, as a plausible mistake in the code would make it, under which TLC
finds the property violated. The variants stand beside the definitions they
change.

## 4. Theorems

TLAPS checks the proofs of eight modules. The assumptions are the named `ASSUME`s
of the component modules (types of the records, non-negative bounds, finite sets
of units, identities' kinds and handlers), which TLC evaluates in the runs;
where a theorem needs more, its statement says so and the paragraph below says
why.

**SettlementProofs.** First the curve: it lies between nothing and the whole pool
(`CumulativeWithinPool`), and two moves pay together what one move over both
would (`PayoutTelescopes`), for every valid block. The same for any sequence of
offered scores: `ClimbInv` (what was paid is the curve at the score reached; the
moves so far are covered by the distance) is inductive, and gives `PaidInFull`,
`ExhaustionFinal` and `MovesBounded`. `ClimbAssumption` has the scores reach every
target, since "no score moves it" is only as strong as the set of scores.

Then the rules path. `MoneyInv` is inductive (`MoneyInvariant`), and from it
follow `TypeCorrect`, `PoolSafety`, `NoDoublePayment`, `Telescopes`,
`FrontierImproves`, `PaidInOrder` and `PoolRefinement`. The money properties are
not inductive alone. The argument needs

- `ControlOK`: while a batch is paid, its members are still the accepted claims
  of its epoch, the epoch is above every paid one, and an advance whose
  settlement is outstanding has no receipt;
- `LogOK`: what admission established about records in the log;
- `MoneyOK`: per kind, why a repeated drain pays nothing again. A certificate's
  total is its reward exactly when a settlement exists. A piecework total is
  within the pool, because the payment is capped by what is left; and a unit of a
  paid claim is never novel again. A frontier's running total is the curve at its
  score, the money paid is at most that, and a paid improvement lies behind the
  frontier it moved, so it cannot improve on it again, although no BATCH entry
  says that it was paid.

The last point is why the drain is safe under a crash at any append, for any
number of crashes, records, ranks and delivery delays.

The theorems about epochs have hypotheses, each of which marks a real limit of the
code:

- `PaidEpochFrozen` and `PaidWereEarned`. Without sealed commitments
  (`NothingSealed`) they hold with any crashes, outages and delays. A claim that
  opens a sealed commitment keeps the commitment's stamp and may be revealed
  again after its epoch was paid; its verifier then runs again, and an outage
  (for both) or a crash between CLAIM and VERDICT (for the first) may change
  what the log says of a paid claim. With sealed commitments they are proved for
  nodes without those faults.
- `BeaconDecides` and `TimelyIsPaid` need records that arrive within the finality
  delay and no sealed commitments: a later record may join an epoch whose
  payment was cut short by a crash, and change whom its order names first.

Their invariants say when a claim may still appear (`OwnStamps`, `TimelyInv`: an
epoch that is closed for the finality delay gets no more claims), what a drain
that was cut short left (`OpenInv`, `JudgedInv`, `FinalWhenPaid`), that turns are
taken in rank order (`TurnsInv`), and which units the claims already served
account for (`UnitsInv`).

`UnitsPaid` has no hypothesis: a unit of a claim that was paid nothing for it was paid
for to its job or, in the same batch, to any job, since a batch keeps one set of
consumed keys (section 6).

`Convergent` is `NodesConverge` for any objectives, records, ranks and recorded
beacons, where records come within the finality delay, none is sealed, none names a
claim made after it, and verifiers run (`Prompt`), and where the two nodes recorded
the same beacons (`BeaconB = Beacon`). Each is needed: the first is the synchrony bound
of `partition.rs`; a sealed claim may be opened in an epoch of each node's choosing;
beacons are not exchanged. `RanksAreNumbers` says that two ranks compare as the
code's hashes do. The two nodes stand at different points of their drains at any
moment, so no relation between their states is inductive. Instead:

- what a node has paid, its purse, is one that its log leads to (`Traced`): there is a
  sequence of purses, from the empty one to this, in which each follows from the one
  before by a step of `settle_due` on the log's closed epochs;
- each purse has at most one successor (`OneSuccessor`), and closed epochs do not change
  while the log grows (`MovesStay`), so that two logs that agree on the closed epochs
  lead to one result (`OneResult`), whatever was drained when;
- the logs agree on every epoch that is more than `SyncLag` old (`Agreed`), or one node
  was refused a record by a rule that reads what was settled (`refusedTo`), which is
  then so for good (`RefusalStays`, `RefusalAges`): an epoch is settled only
  `FinalityEpochs` later, so closed epochs are among the agreed ones;
- of the claims that one node took and the other lacks, the first taken names none of
  the others (`InTurn`), hence the other node would take it too or refused it for what
  it had settled (`ClaimsCaughtUp`). That is why the clock's guard, that every record
  due has reached both, leaves two logs that agree on one more epoch (`ClockAgrees`).

**DisputeProofs.** `DisputeInv` is inductive (`DisputeInvariant`), and from it
`SearchSound`, `FaithfulWins`, `SilenceForfeits` and `BondsCovered`, for traces
of any length, any set of parties, challenges and bonds, and any window. The
invariant adds to the properties what a dispute's interval and its opened states
say of each other in every phase (`GameOK`), and that a decided dispute was
posted. Truth wins because the interval always brackets a divergence: once it is
one step wide, both sides agree on the state before it, so a true execution's
next state is what the stepper returns. Bonds stay covered because every record
that locks or debits is admitted against what is held, and a decision moves a
bond from `locked` to `debits` or releases it.

**LedgerFileProofs.** For any processes, with the lock or without, records and file
length, and any number of cut writes, failed syncs, dying processes and power failures.
`FileInv` has two parts. The first holds whatever the writers do to each other: only
the last line can be without an end (`wellFormed`), an acknowledged entry lies in the
part no power failure takes, or a line of that part was run on and it no longer loads
(`DurableOK`), and what was only read is a past of the file (`readOnly`). It gives
`AcknowledgedKept`, without any condition on the lock or on syncs, and the readers' half
of `PastIsHeld`. The second, `Clean`, holds until a sync fails or an append without the
lock meets another writer: there is one appender, the holder of the lock if anybody has
it; whole lines follow each other (`chained`); and the appender's memory is the file up
to the line it is writing (`appenderKnows`, `holderKnows`). It gives `OneChain`, the
writers' half of `PastIsHeld`, and that the lock's holder may trust the change stamp
(`HonestStamp`). An append without the lock that meets nobody and knows the file is in
the second part too, so these say more than that locked writers exclude each other.

**DaemonProofs.** `DaemonInv` gives the types and the mutual exclusion of the
threads, and how far handlers that check the cap together may exceed it.
`NonceInv` says that every commitment in the log is `Safe`: it is claimed, or its nonce
is on its way to disk, or on disk and, while the process runs, in memory too, or it is
excused: a crash came between it and its first save, the save or the load of its nonce
failed, or it was refused for good. From it `NoncesAreKept`, for any number of works,
crashes, I/O errors and refusals: each costs the nonces it was about and no other.

**ExchangeProofs.** `ExchangeInv` describes both ends and both queues at once: which
messages may be under way for each pair of places (`InStep`), and what a staging
area holds by then (`Staged`). It gives `SidesInStep` and `WholeLogStaged` for any
records, dependencies, limits and clocks: when a session comes to apply what it
fetched, everything the other end's log holds is staged. What the rules then make of it
is `SessionsDeliver`, which TLC checks. `CheckersMet` adds `OfferInv`, that the
code asked for is on its way, and needs `ClientsBringNoCode`: the property compares
with what the other end holds when the code arrives, and a client that publishes
an objective with its verifier between question and answer makes it hold more than
it was asked for.

**EconomyProofs.** Every balance is a sum over a prefix of the log, so the module
first proves what the sums do: `SumFunction` splits, adds and grows (`SumSplit`,
`SumAdds`, `SumGrows`), by induction in the form of least counterexamples, which
needs no operator parameter (`LeastNatural`, `EverySubset`). A group of lemmas says
what one more entry does to each sum (`NextSettled` to `NextAttestationBonds`,
together `NextGross` and `NextCommitted`), another that sums over a prefix do not
change while the log grows (`KeptMoney`). `EconomyInv` says of every entry that it
was in order, stamped within the clock and affordable against the entries before
it. `MoneyConserved` follows by induction over the prefixes of the log
(`Conserved`): what an entry commits was spendable, and a decision or a slash
takes no more than the bond it releases or the balance that is there.
`FloorExact` shows the doubling division exact for weights that fit the word and
never more than the quotient for others.

The audit asks of a finished log what the node asked when each entry landed.
`AuditInv` says that every entry still answers: what it was asked of the p - 1
entries before it (that a batch holds the accepted claims of an epoch no other batch
has, that a settlement pays an objective nobody was paid for, that an availability
settlement is the one its epoch's promises give, that a bond was spendable) is a
function of those entries, and lemmas `Kept...` show that none of these functions
looks further. It is needed beside `EconomyInv` because an audit
recomputes amounts, where `EconomyInv` knows only that they were covered. From both:

- `HonestLogsStayClean`: the audit of a log these rules wrote finds nothing, at any
  later length. The amounts need `PoolsCover` and `SharesWithinOffer`: what the
  settlements of availability pay is what the pools pay in, by sums over two
  indices exchanged (`SumSwap`) and split by owner (`SumFibres`).
- `AnsweredArePaid`, for behaviours in which every weight fits the word
  (`WeightsFitTheWord`): `mul_div_floor` (node.rs:8244) takes its weight as a `u128`
  and reads that many bits of it. The model's bonds are any naturals, so the
  hypothesis says what the type of the code's bonds does.
- `WorkIsBacked`: what was issued to an identity or earned by serving covers what its
  rewards took beyond the tiers they were drawn from, by induction over the prefixes
  (`ReserveCovers`).
- `SupplyAccounted`: at every length, balances, bonds and what is escrowed in pools and
  open rewards add up to what was issued. Each account balances exactly, since
  `MoneyConserved` leaves no saturated subtraction (`AccountBalances`); the sums over
  identities are exchanged with the sums over entries (`SumOwners`); and pools and
  rewards, which are charged in the log's order, hold together what was offered less
  what was drawn (`ChargedInOrder`). It needs finitely many identities.

The part on committees works over the same prefixes. `SealedInv` adds to `EconomyInv`
that each peer record outdated its identity's earlier ones, that each commitment had
as many keys as the committee drawn from the entries before it has seats and was
within its custody, that each share answered its own seat first and in time, and
that each opening had its threshold of right shares. It is inductive because a
committee, its size and its guard are functions of a prefix (`KeptCommittee`,
`KeptGuard`, `KeptSize`). `PostedSharesStand`, `ExposureStaysCovered`,
`QuorumDoesOpen` and `SealedTypes` follow, under `RanksDiffer`: no two identities tie.
The code sorts by `settlement_rank` and then by transport (node.rs:2464), so this says
that two identities do not publish one transport, as everywhere in `Sealed`; two
records of one identity may.

**DirectoryProofs.** For any peers, keys, distances and limits, however dials fail and
sessions come in between. `DirectoryInv` has the types; that failures are counted
against dials that went unanswered (`Counted`); that providers are recorded first
hand; and that the lookups are clean: one that ended has nothing in flight, and whom
one waits for is to be dialled in this tick or was cut off by `next_hops`, and at most
`Alpha` at once. From it `TypesHold`, `InFlightHolds` and `FirstHandHolds`, and as an
action property `LivingPeersHold`: a contact leaves the table only after `MaxFailures`
dials in a row. Sightings fold over a sequence; what the fold keeps (`Keeps`, `Stays`)
is proved along its trace.

**SwarmProofs.** For any worlds: leeches, peers, what peers hold, gain, claim and serve,
limits and faults. `schedule` folds over the peers in an order of their ids; `Rows` and
its lemmas say that such a fold has a trace, and `Turned` what one turn does. Then
three invariants, each on top of the one before:

- `Base`: a leech's tables fit together (`Sound`: the index counts the holders, what is
  reserved is missing and with a holder that unchoked, and with one peer before the
  endgame), and both ends of each connection fit what is under way between them. It
  gives `AvailabilityHolds` and `OnePeerHolds`, and with one more induction
  `FetchedHolds` and `BlameHolds` (`Blaming`: a leech that knows no manifest asked for
  nothing).
- `Hosting`: what a peer last decided about a leech is what it last sent or will send
  (`LastWord`), although messages leave after the lock; so a request that is out is
  owed, until a choke releases it. It gives `ReservationsHold` for leeches that do not
  contend (`Uncontended`).
- `Assured`: where no manifest is forged (`Unforged`), leeches do not contend and
  connections hold, a peer that has and serves the whole blob (`Whole`) stays until the
  blob is complete or it is dropped for a piece that another peer sent first. Every
  request to it is answered once (`Once`) for the pieces that are followed
  (`Tracked`: all of them where no piece is asked of two peers, else those still
  missing), and a leech that misses something has it to ask (`Serving`). It gives
  `HonestTransfersHold`: a fetch that fails had every whole peer dropped by the endgame,
  so it cannot fail with a single endpoint or with `endgame_at` at most one. With the
  program's own `endgame_at` of four and several endpoints it can (section 6).

**Only model-checked.** Liveness under fairness is outside the prover's reach:
`AcceptedClaimsSettle`, `DisputesClose`, `UnplayedChallengesClose`,
`RecordsConverge`, `LookupsTerminate`, `TicksReturn`, `AcknowledgedIsDecided` and
`OwnRecordsAreSigned`. `SessionsDeliver` is about what the folds of `replay_records` leave
of a whole batch, which takes an induction over the batch, and has no theorem. No other
property of the runs is without one.
Of those stated in the modules beside the runs, `SearchIsLogarithmic` has a recursive
bound, and `StallIsTruthful`, `FreshnessNeverFalls`, `VouchedPeersAreOffered`, `HintsNeverGoBack`, `BestNeverFalls`,
`PopulationsConverge`, `PromisesPrecedeTheirEpoch`, `SlashesAreDeserved`, `AnchorsStand`
and `SealsMatchTheirDraw` have no proof yet. No module declares a RECURSIVE operator.

## 5. Plan

Done, in this order: Ratchet, Pool, Settlement, Convergence, Bisection, Dispute,
LedgerFile and the proofs of the first invariants; Economy with its audit,
Sealed, Exchange, Directory, Daemon, Swarm; the proofs of the epochs' properties,
the file, the daemon's nonces and threads, sessions, the climb, conservation of
money, the audit, typed work, the supply, committees, the directory, the swarm, and
the convergence of two nodes. Next:

1. That `Economy` abstracts to the `Charge` of `Dispute`.
2. The blob store's quota and eviction, and checkpoints over `LedgerFile`.
3. A proof of `SessionsDeliver`, along the trace of the replay's fold.

## 6. Where code and text disagree

Each of these is stated as a property in its module and does not hold. None is
part of a run; adding the property to the cfg of its module, with the constants
named, shows the counterexample.

- **`AdvancesArePaid`** (`Settlement`, `MCSettlement.cfg`, with crashes). FRONTIER
  and SETTLEMENT are two appends (6221, 6230). After a crash between them the
  drain runs again, the claim does not improve on the frontier it moved, and the
  payment is never made; the doc comment at 6151 says an advance always appends
  both. Nothing is overpaid (proved).
- **`UnitsArePaidPerJob`** (`Settlement`, `MCSettlement.cfg`: objectives 5 and 6).
  `consumed` (4568) is one set per epoch for all objectives, so a unit paid for one job
  shadows an equal key of another job in the same batch; `piecework.rs` 57-60 limits
  novelty to the job. `UnitsArePaidWhileFunded` excepts these units and no others.
- **`OutageRefutesNothing`** (`Settlement`, `MCSettlementLate.cfg` with
  `Outage...` for `Mixed...`, one objective and two commitments and claims).
  `artifact_ids_before` (8006) counts claims whose verdict was `Unavailable`, so
  an artifact revealed again after an outage is a duplicate;
  `docs/threat-model.md` 16 says that `UNAVAILABLE` never refutes.
- **`NodesAlwaysConverge`** (`Convergence`, `MCConvergence.cfg`). A claim delivered one
  epoch late, within `FINALITY_EPOCHS`, is refused by a node whose frontier has
  moved meanwhile (4462-4470) and admitted by one that got it earlier, and so is a
  commitment to a certificate that was paid meanwhile (4033-4040);
  `partition.rs` 91-94 promises equal batches within that bound. `NodesConverge`
  excepts these two refusals and nothing else. With another `BeaconB` it fails too:
  beacons decide the order (5518-5522), and sessions do not exchange them
  (`service.rs` 1084).
- **`LossIsCappedByTheClaim`** (`Dispute`, `Pair...` for `Cross...`, one claim and
  three parties). Each lost dispute takes up to the objective's reward (2124) and
  nothing counts what earlier disputes over the claim took; the comment at
  2119-2122 caps the loss at what the claim was worth.
- **`FailedAppendsDoNotFork`** (`LedgerFile`). A failed `sync_data` (`ledger.rs`
  897) returns an error with the line in the file and not in memory; the node goes
  on, and its next append repeats the number and the predecessor. The comment at
  833 says that a failed append leaves the ledger as it was.
- **`AppendsAreLocked`** (`LedgerFile`). main.rs 184 says that every command that
  appends takes the lock; `cmd_peer` opens the node without it (4382) and appends
  (4398), and `Ledger::append` does not ask. Beside a running daemon the two may fork
  the chain (`FailedAppendsDoNotFork` then fails without a failed sync) or run on each
  other's lines; what was acknowledged is still in every file that loads (proved).
- **`NoClaimIsLostInItsSession`** (`Exchange`). The replay sorts claims by `created_at`,
  so that no claim settles the epoch of another that came with it (`service.rs`
  1142-1158); but commitments are replayed before all claims and drain too, so a late
  commitment of the session may settle the epoch of a claim that waits behind it.
- **`OwnRecordsAreSignedAnyway`** (`Daemon`). The tick takes the dirty flag
  (`daemon.rs` 836) before `persist`, which only logs a checkpoint that could not be
  written (427-441): what the node appended stays unsigned until something else changes.
- **`HonestPeersConverge`** (`Exchange`, as it is or with `MaxBytes = 2`).
  `reconcile` puts every id it lacks into one Want (`session.rs` 272-290), and
  `Peer::serve` refuses a Want of more than 512 ids (`sync.rs` 589), which ends
  the session before anything is applied; the next session asks for the same.
  Two honest nodes further apart than that never exchange a record, and one record
  that is too large fails its whole batch every time. `docs/formal-model.md` 199:
  "honest peers converge, on everything honest peers hold"; `docs/p2p.md` 216:
  "One bad record does not poison a batch".
- **`SettlementsMatchTheOffer`** (`Economy`). Settlement fixes an epoch's offer at
  its boundary; the audit computes it over the whole log (6643), so a pool that
  lands late makes an honest log look wrong.
- **`ServiceBondsAreUniversal`** (`Economy`). Bonds of services are checked against
  totals and may be backed by units of a tier; `docs/tiers.md` 112 charges them in
  universal units.
- **`ScarcityIsSilentWithoutSupply`** (`Economy`). `audit_attestations` (7190)
  faults a bond on a log that declares no supply; the comment at 7316 says that it
  is silent there.
- **`SealedAuditIsClean`** (`Sealed`). `audit_sealed` (7363-7411) draws committees
  from positions in the whole log, admission drew them from the log of its time.
- **`HonestPeersAreKept`** (`Swarm`). When a piece arrives, `on_piece` removes the
  request from every peer it was made to, and Cancel changes nothing at a peer
  (`mod.rs` 508), so the endgame's loser delivers a piece that counts as
  unsolicited and is dropped with a verdict; the comment at 697 says that losing
  the race is not misbehaviour. Blobs of up to four pieces are in the endgame from
  the start. No peer has to die for this to cost the transfer: of two honest seeds
  with five pieces between them and `endgame_at` at its default of four, each can
  lose a race to the other, both are dropped, and the fetch fails.
- **`WholePeersSuffice`** (`Swarm`, `MCSwarm.cfg`). For the same reason a fetch from
  peers that have and serve the whole blob need not succeed. `HonestTransfersSucceed` names the exception, a
  late copy in the endgame, and no other.

Met while modelling, not stated as properties.

*Rules.* A sealed claim that is revealed again during an outage replaces a paid
acceptance by `Unavailable` (8138), which is why `PaidClaimsWereEarned` is checked
without sealed claims, and proved with them for verifiers that run; a frontier whose remaining span is below `min_improvement`
answers `BelowMinImprovement` where no larger improvement exists (`frontier.rs`
572 against 561-562); the starting state of a trace is called pinned
(`challenge.rs` 78) but a different one only voids the challenge, at the
challenger's cost; the count of records in a dispute (`challenge.rs` 37) leaves
out the four endpoints. `post_availability` does not check that the epoch it
answers for is the current one. An identity may challenge its own claim, and the
settlement then names it twice, which `audit_challenges` (7625-7632) reports. A
crash between CLAIM and VERDICT audits as "no verdict recorded" (6730), and replay
skips the claim. The embargo binds the committee only, not the submitter.

*File.* A tail that lacks only its newline is not caught on the next open
(`ledger.rs` 840), is loaded, and makes the line unreadable when the next append
runs it on: `AcknowledgedIsKept` says that this is never silent, not that it
cannot happen. A reader that calls `reload_if_changed` may take an append between
its reading and its stamp for loaded (817); only the writer calls it. An entry
that a dying process had written and not synced is loaded by the next one as if it
were durable.

*Network.* A session between a node with a population and one without ends in an
error every time, after its records were applied; the checkpoint is persisted
after successful sessions only. Two hints with the same sequence number and
different contents are asked for again in every session. `next_hops` cuts its list
after marking contacts in flight; `key_wants` asks only for the smallest id, which
may be the node's own; with `K >= 2` a pending newcomer can be inserted twice;
`seed_from_log` clears failure counts, so dead peers that the log names are never
dropped; finished lookups are collected only after a successful DHT round. In the
swarm, one ticker per connection (`tcp.rs` 465 calls it harmless) lets a choke
overtake an unchoke and strand a reservation until the timeout, which takes two
leeches and a peer that still gains pieces (the last conjunct of `Uncontended`
leaves that case out); a peer over
`max_peers` is not told and stays connected and mute; a forged manifest is taken
from whoever sends it first, and honest pieces then count as bad.

*Process.* `Spool::offer` names its temporary by content: two handlers of one
submission share it and may install it torn (`serve.rs` 179-181), after which
later offers answer Ok and nothing is admitted. The cap on queued files is counted
before writing. The agent's commitment is appended before its nonce is saved, the save
may fail without a word to the agent (`mcp.rs` 478-505), and a pending file that cannot be
read is taken for an empty one and written over (388-433): in each case the commitment
can never be opened.
`commit` and `reveal` have no check for duplicates, so a crash between
`drain_into` and `take` appends the same record again.

## 7. Not modelled

The map names about seven percent of the repository's Rust. What it leaves out is
mostly not state that a model checker could say something about: tests make up a
large part of every file; `main.rs` (11,000 lines) parses arguments, calls the
handlers modelled here and prints; `reference/` implements the log format a second
time; `verifiers/` runs checkers, judged here by their answers; `knowledge.rs`,
`attribution.rs`, `canary.rs`, `compute`, `corpus`, the incentive analysis and the
arena are computations on a log or simulations of their own; the web interfaces
render.

- Cryptography: VDF, drand, threshold shares, McEliece handshakes and ciphers are
  functions of bytes and taken as perfect where a module needs them.
- Blob store, shards, mirrors and quotas: sequential code over files. The store is
  a set in `Exchange` and `Swarm`; its quota is planned.
- Transport framing, port mapping, proxies, multicast packets: I/O.
- Checkpoints: when one is signed is in `Daemon`; roots, prefixes and signatures
  are not modelled.
- Rules: repricing, decisions and the knowledge records; of the MCP tools, those
  that only read.
- The audit's parts named under Economy above.

## 8. Running

```
tlc -workers 2 -config MCSettlement.cfg MCSettlement
tlc -workers 2 -config MCEconomy.cfg MCEconomy
tlapm SettlementProofs.tla
```
