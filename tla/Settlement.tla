----------------------------- MODULE Settlement ------------------------------
(***************************************************************************)
(* One node's rules path (src/src/node.rs): objectives are posted, work is *)
(* committed, revealed and verified, and closed epochs are settled in      *)
(* beacon order.                                                           *)
(*                                                                         *)
(* The append-only log is kept as the tables that the code derives from it *)
(* by scanning: `committed', `revealed', `verdict', `receipts', ... .      *)
(* These survive a crash.  `pc', `call' and `drain' are the stack of the   *)
(* handler that holds the node's lock, one step per append, and do not.    *)
(*                                                                         *)
(* Epochs are 1 .. MaxEpoch; 0 means `not in the log'.  Records that fail  *)
(* a check of their own bytes (signature, shape, policy) change nothing    *)
(* and are not in the sets below.                                          *)
(***************************************************************************)
EXTENDS Ratchet, FiniteSets

CONSTANTS
    Objectives,       \* ids of the objectives that may be posted
    Commitments,      \* commitment hashes
    Claims,           \* claim ids; naturals, as their order breaks rank ties
    Artifacts,        \* artifact contents
    Units,            \* novelty keys of piecework units
    Jobs,             \* (verifier, piecework block) pairs
    Objective,        \* what each objective record says
    Commitment,       \* what each commitment record says
    Claim,            \* what each claim record says
    Rank(_, _, _),    \* settlement_rank(epoch, anchor, commitment hash)
    NoBeacon,         \* no beacon was recorded
    Beacon,           \* what record_beacon wrote for an epoch while it was open
    FinalityEpochs,   \* partition.rs FINALITY_EPOCHS
    Worlds,           \* bound: the sets of objectives that share a log
    SyncLag,          \* bound: a record is delivered at most this late
    MaxEpoch,         \* bound on the clock
    MaxCrashes,       \* bound on crashes and failed appends
    MaxOutages        \* bound on verifier runs that return Unavailable

Epochs   == 1 .. MaxEpoch
Kinds    == {"plain", "ratchet", "piecework"}
Verdicts == {"accept", "reject", "unavailable"}

ASSUME BoundsAssumption ==
    /\ MaxEpoch \in Nat \ {0}
    /\ FinalityEpochs \in Nat
    /\ SyncLag \in Nat
    /\ MaxCrashes \in Nat
    /\ MaxOutages \in Nat

\* Objectives is finite for TLC only; the rules read one objective at a time.
ASSUME ObjectiveAssumption ==
    Objective \in [Objectives ->
        [kind : Kinds, reward : Nat, ratchet : RatchetBlock,
         unit_price : Nat, job : Jobs]]

ASSUME CommitmentAssumption ==
    Commitment \in [Commitments ->
        [objective : Objectives, created_at : Epochs, sealed : BOOLEAN]]

\* `judge' and `score' are what the pinned verifier answers when it can run:
\* it is deterministic, so they belong to the record.
ASSUME ClaimAssumption ==
    /\ Claims \subseteq Nat
    /\ Claim \in [Claims ->
        [objective : Objectives, commitment : Commitments,
         artifact : Artifacts, created_at : Epochs, cites : SUBSET Claims,
         relations : SUBSET Claims, judge : {"accept", "reject"},
         score : Int \cup {NoScore}, units : SUBSET Units]]
    /\ \A c \in Claims : IsFiniteSet(Claim[c].units)
    \* The hash binds the objective (Claim::commitment_hash).
    /\ \A c \in Claims :
        Commitment[Claim[c].commitment].objective = Claim[c].objective

VARIABLES
    now,        \* the epoch the wall clock is in
    posted,     \* OBJECTIVE entries
    committed,  \* epoch of the first COMMITMENT entry of a hash
    revealed,   \* epoch of the first CLAIM entry of a claim
    verdict,    \* the VERDICT entry last written for a claim
    receipts,   \* number of SETTLEMENT entries naming a claim
    total,      \* sum of the rewards of an objective's SETTLEMENT entries
    frontier,   \* the last FRONTIER entry of an objective
    batch,      \* claims named by an epoch's BATCH entry; {} if none
    pc,         \* where the running handler is
    call,       \* the handler that runs and its arguments
    drain,      \* settle_due's locals for the epoch being drained
    crashes, outages

logVars  == <<posted, committed, revealed, verdict, receipts, total, frontier,
              batch>>
handlerVars == <<pc, call, drain>>
vars == <<now, posted, committed, revealed, verdict, receipts, total, frontier,
          batch, pc, call, drain, crashes, outages>>
-----------------------------------------------------------------------------
(* What the code derives from the log. *)

kindOf(c)   == Objective[Claim[c].objective].kind
accepted    == {c \in Claims : revealed[c] # 0 /\ verdict[c] = "accept"}
drained_epochs == {e \in Epochs : batch[e] # {}}
epoch_is_drained(e) == e \in drained_epochs

accepted_in_epoch(e) == {c \in accepted : revealed[c] = e}

\* Mutant of due_epochs: settling an epoch one epoch too soon.
due_epochs_early(at) ==
    {e \in Epochs : /\ accepted_in_epoch(e) # {} /\ ~epoch_is_drained(e)
                    /\ e + FinalityEpochs <= at
                    /\ \A d \in drained_epochs : d < e}

\* Epochs holding accepted claims that closed FinalityEpochs ago and lie above
\* every epoch already paid.
due_epochs(at) ==
    {e \in Epochs :
        /\ accepted_in_epoch(e) # {}
        /\ ~epoch_is_drained(e)
        /\ e + FinalityEpochs < at
        /\ \A d \in drained_epochs : d < e}

\* Epochs whose accepted claims can never be paid here any more.
late_epochs ==
    {e \in Epochs :
        /\ accepted_in_epoch(e) # {}
        /\ ~epoch_is_drained(e)
        /\ \E d \in drained_epochs : e <= d}

\* The head of the epoch chain: a link per batch, over the set of its claims.
\* Batches are written in ascending epoch order, so the chain up to the
\* epoch's own batch is this function of the earlier epochs.
epoch_chain_head(e) ==
    [d \in {x \in drained_epochs : x < e} |-> batch[d]]

\* A recorded beacon wins.  It must be recorded in the epoch that it orders,
\* so it is in the log before that epoch is due.
anchor_of_epoch(e) ==
    IF Beacon[e] # NoBeacon THEN Beacon[e] ELSE epoch_chain_head(e)

\* The batch's sort key is (rank of the commitment, claim id).
precedes(e, c, d) ==
    LET rc == Rank(e, anchor_of_epoch(e), Claim[c].commitment)
        rd == Rank(e, anchor_of_epoch(e), Claim[d].commitment)
    IN  rc < rd \/ (rc = rd /\ c < d)

settlements_of(o) == {c \in Claims : Claim[c].objective = o /\ receipts[c] > 0}
settlement_of(o)  == settlements_of(o) # {}

artifact_id(c) == <<"artifact", Claim[c].objective, Claim[c].artifact>>
unitKeys(c)    == {<<"piece", u>> : u \in Claim[c].units}

\* Artifacts revealed against the objective in an earlier epoch, whatever the
\* verifier said of them.
artifact_ids_before(o, e) ==
    {artifact_id(c) : c \in
        {d \in Claims : Claim[d].objective = o /\ revealed[d] # 0
                        /\ revealed[d] < e}}

piecework_scope(o) ==
    {p \in posted : Objective[p].kind = "piecework"
                    /\ Objective[p].job = Objective[o].job}

\* Mutant of paid_unit_keys: novelty read from the BATCH entries.
paid_unit_keys_of_batches(o) ==
    UNION {unitKeys(c) : c \in
        {d \in Claims : Claim[d].objective \in piecework_scope(o)
                        /\ receipts[d] > 0
                        /\ \E e \in drained_epochs : d \in batch[e]}}

\* Every unit of every paid claim of the job.
paid_unit_keys(o) ==
    UNION {unitKeys(c) : c \in
        {d \in Claims : Claim[d].objective \in piecework_scope(o)
                        /\ receipts[d] > 0}}

payout_for(o, novel, remaining) ==
    LET owed == Objective[o].unit_price * novel
    IN  IF owed <= remaining THEN owed ELSE remaining
-----------------------------------------------------------------------------
NoCall  == [op |-> "none", what |-> 0, at |-> 0]
NoDrain == [epoch |-> 0, members |-> {}, todo |-> {}, consumed |-> {},
            payee |-> 0, owed |-> 0]
NoFrontier == [claim |-> 0, score |-> NoScore, paid_cumulative |-> 0]

Init ==
    /\ now = 1
    /\ posted = {}
    /\ committed = [h \in Commitments |-> 0]
    /\ revealed = [c \in Claims |-> 0]
    /\ verdict = [c \in Claims |-> "none"]
    /\ receipts = [c \in Claims |-> 0]
    /\ total = [o \in Objectives |-> 0]
    /\ frontier = [o \in Objectives |-> NoFrontier]
    /\ batch = [e \in Epochs |-> {}]
    /\ pc = "idle" /\ call = NoCall /\ drain = NoDrain
    /\ crashes = 0 /\ outages = 0

\* Node::post_objective: the checks of the reward structure, then one append.
admissible(o) ==
    LET obj == Objective[o] IN
    /\ obj.kind = "ratchet" =>
            validate(obj.ratchet) /\ obj.ratchet.reward = obj.reward
    /\ obj.kind = "piecework" =>
            obj.unit_price >= 1 /\ obj.unit_price <= obj.reward

\* The bound Worlds: what is posted decides which other records there are.
ofThisLog(o) == \E w \in Worlds : posted \cup {o} \subseteq w

PostObjective(o) ==
    /\ pc = "idle"
    /\ o \notin posted
    /\ ofThisLog(o)
    /\ admissible(o)
    /\ posted' = posted \cup {o}
    /\ UNCHANGED <<now, committed, revealed, verdict, receipts, total, frontier,
                   batch, pc, call, drain, crashes, outages>>

\* Taking the node's lock for a handler.  Every handler drains first.
Enter(op, what, at) ==
    /\ pc = "idle"
    /\ pc' = "drain"
    /\ call' = [op |-> op, what |-> what, at |-> at]
    /\ UNCHANGED <<now, logVars, drain, crashes, outages>>

\* The daemon's settle_tick, at the clock's epoch.
Tick == Enter("tick", 0, now)

\* A record reaches the node either while its own epoch is open, or by a
\* session's replay, stamped with its own created_at, unless the log already
\* holds it.
Deliverable(created_at, known) ==
    \/ created_at = now
    \/ ~known /\ created_at < now /\ now <= created_at + SyncLag

\* The declared epoch must be the admission epoch, so the stamp is created_at.
CommitCall(h) ==
    /\ ofThisLog(Commitment[h].objective)
    /\ Deliverable(Commitment[h].created_at, committed[h] # 0)
    /\ Enter("commit", h, Commitment[h].created_at)

\* A claim that opens a sealed commitment may be revealed in any later epoch;
\* its created_at is the commitment's.
RevealCall(c) ==
    /\ ofThisLog(Claim[c].objective)
    /\ \/ /\ Deliverable(Claim[c].created_at, revealed[c] # 0)
          /\ Enter("reveal", c, Claim[c].created_at)
       \/ /\ committed[Claim[c].commitment] # 0
          /\ Commitment[Claim[c].commitment].sealed
          /\ Enter("reveal", c, now)
-----------------------------------------------------------------------------
(* settle_due: for each due epoch in ascending order, pay the batch in rank  *)
(* order, then write the BATCH entry.                                        *)

\* Mutant of StartBatch: the newest due epoch first.
StartNewestBatch ==
    /\ pc = "drain"
    /\ \E e \in due_epochs(call.at) :
        /\ \A d \in due_epochs(call.at) : d <= e
        /\ drain' = [epoch |-> e, members |-> accepted_in_epoch(e),
                     todo |-> accepted_in_epoch(e), consumed |-> {},
                     payee |-> 0, owed |-> 0]
    /\ pc' = "pay"
    /\ UNCHANGED <<now, logVars, call, crashes, outages>>

StartBatch ==
    /\ pc = "drain"
    /\ \E e \in due_epochs(call.at) :
        /\ \A d \in due_epochs(call.at) : e <= d
        /\ drain' = [epoch |-> e, members |-> accepted_in_epoch(e),
                     todo |-> accepted_in_epoch(e), consumed |-> {},
                     payee |-> 0, owed |-> 0]
    /\ pc' = "pay"
    /\ UNCHANGED <<now, logVars, call, crashes, outages>>

\* Mutant of IsNext: the batch is paid in the order it was stored.
IsNextInAnyOrder(c) == pc = "pay" /\ c \in drain.todo

\* The claim of the batch whose turn it is.
IsNext(c) ==
    /\ pc = "pay"
    /\ c \in drain.todo
    /\ \A d \in drain.todo \ {c} : precedes(drain.epoch, c, d)

\* Done with c: a claim that is not piecework consumes its artifact whatever
\* came of it, a piecework claim consumes its units only when it was paid.
consumedBy(c, settled) ==
    IF kindOf(c) = "piecework"
    THEN IF settled THEN unitKeys(c) ELSE {}
    ELSE {artifact_id(c)}

Finish(c, settled) ==
    drain' = [drain EXCEPT !.todo = @ \ {c},
                           !.consumed = @ \cup consumedBy(c, settled)]

\* The SETTLEMENT entry.
Pay(c, reward) ==
    /\ receipts' = [receipts EXCEPT ![c] = @ + 1]
    /\ total' = [total EXCEPT ![Claim[c].objective] = @ + reward]

\* settle_one's last part: an objective that pays once.
plainPays(c) ==
    /\ artifact_id(c) \notin drain.consumed
    /\ artifact_id(c) \notin artifact_ids_before(Claim[c].objective, drain.epoch)
    /\ ~settlement_of(Claim[c].objective)

SettlePlain(c) ==
    /\ IsNext(c) /\ kindOf(c) = "plain" /\ plainPays(c)
    /\ Pay(c, Objective[Claim[c].objective].reward)
    /\ Finish(c, TRUE)
    /\ UNCHANGED <<now, posted, committed, revealed, verdict, frontier, batch,
                   pc, call, crashes, outages>>

\* Mutant of novelUnits: a unit is old once an accepted claim carries it.
novelUnitsOfAccepted(c) ==
    unitKeys(c) \ (drain.consumed \cup UNION {unitKeys(d) : d \in accepted})

\* settle_unit: unit_price per novel unit, out of what the pool still holds.
novelUnits(c) ==
    unitKeys(c) \ (drain.consumed \cup paid_unit_keys(Claim[c].objective))

unitReward(c) ==
    LET o == Claim[c].objective IN
    payout_for(o, Cardinality(novelUnits(c)), Objective[o].reward - total[o])

SettleUnit(c) ==
    /\ IsNext(c) /\ kindOf(c) = "piecework"
    /\ novelUnits(c) # {} /\ unitReward(c) > 0
    /\ Pay(c, unitReward(c))
    /\ Finish(c, TRUE)
    /\ UNCHANGED <<now, posted, committed, revealed, verdict, frontier, batch,
                   pc, call, crashes, outages>>

\* settle_improvement: the FRONTIER entry, and then, if the move earns
\* anything, the SETTLEMENT entry.  The two are separate appends.
advances(c) ==
    /\ Claim[c].score # NoScore
    /\ improves(Objective[Claim[c].objective].ratchet,
                frontier[Claim[c].objective].score, Claim[c].score)

\* Mutant of AdvanceFrontier: the payment without the FRONTIER entry.
PayWithoutAdvance(c) ==
    LET o == Claim[c].objective
        reward == payout(Objective[o].ratchet, frontier[o].score, Claim[c].score)
    IN
    /\ IsNext(c) /\ kindOf(c) = "ratchet" /\ advances(c)
    /\ IF reward > 0
       THEN /\ pc' = "settlement"
            /\ drain' = [drain EXCEPT !.payee = c, !.owed = reward]
       ELSE pc' = pc /\ Finish(c, TRUE)
    /\ UNCHANGED <<now, logVars, call, crashes, outages>>

AdvanceFrontier(c) ==
    LET o == Claim[c].objective
        reward == payout(Objective[o].ratchet, frontier[o].score, Claim[c].score)
    IN
    /\ IsNext(c) /\ kindOf(c) = "ratchet" /\ advances(c)
    /\ frontier' = [frontier EXCEPT ![o] =
            [claim |-> c, score |-> Claim[c].score,
             paid_cumulative |-> @.paid_cumulative + reward]]
    /\ IF reward > 0
       THEN /\ pc' = "settlement"
            /\ drain' = [drain EXCEPT !.payee = c, !.owed = reward]
       ELSE pc' = pc /\ Finish(c, TRUE)
    /\ UNCHANGED <<now, posted, committed, revealed, verdict, receipts, total,
                   batch, call, crashes, outages>>

PayImprovement ==
    /\ pc = "settlement"
    /\ Pay(drain.payee, drain.owed)
    /\ drain' = [drain EXCEPT !.todo = @ \ {drain.payee},
                              !.consumed = @ \cup {artifact_id(drain.payee)},
                              !.payee = 0, !.owed = 0]
    /\ pc' = "pay"
    /\ UNCHANGED <<now, posted, committed, revealed, verdict, frontier, batch,
                   call, crashes, outages>>

\* Every outcome of settle_one that writes nothing.
earnsNothing(c) ==
    \/ kindOf(c) = "plain" /\ ~plainPays(c)
    \/ kindOf(c) = "piecework" /\ (novelUnits(c) = {} \/ unitReward(c) = 0)
    \/ kindOf(c) = "ratchet" /\ ~advances(c)

SettleNothing(c) ==
    /\ IsNext(c) /\ earnsNothing(c)
    /\ Finish(c, FALSE)
    /\ UNCHANGED <<now, logVars, pc, call, crashes, outages>>

WriteBatch ==
    /\ pc = "pay" /\ drain.todo = {}
    /\ batch' = [batch EXCEPT ![drain.epoch] = drain.members]
    /\ pc' = "drain" /\ drain' = NoDrain
    /\ UNCHANGED <<now, posted, committed, revealed, verdict, receipts, total,
                   frontier, call, crashes, outages>>
-----------------------------------------------------------------------------
(* The rest of the handler, once nothing is due at its stamp.                *)

Drained(op) == pc = "drain" /\ due_epochs(call.at) = {} /\ call.op = op

Return == pc' = "idle" /\ call' = NoCall

\* settle_tick is done when the drain is.
TickReturns ==
    /\ Drained("tick")
    /\ Return
    /\ UNCHANGED <<now, logVars, drain, crashes, outages>>

\* Node::commit.
commitAdmissible(h) ==
    LET o == Commitment[h].objective IN
    /\ o \in posted
    /\ Objective[o].kind = "plain" => ~settlement_of(o)

CommitReturns ==
    /\ Drained("commit")
    /\ LET h == call.what IN
        committed' = IF commitAdmissible(h) /\ committed[h] = 0
                     THEN [committed EXCEPT ![h] = call.at] ELSE committed
    /\ Return
    /\ UNCHANGED <<now, posted, revealed, verdict, receipts, total, frontier,
                   batch, drain, crashes, outages>>

\* Mutant of revealAdmissible: a reveal into an epoch that was paid.
revealIntoPaidEpoch(c, at) ==
    /\ Claim[c].objective \in posted
    /\ committed[Claim[c].commitment] # 0 /\ at > committed[Claim[c].commitment]
    /\ Claim[c].cites \subseteq accepted

\* Node::reveal, up to the CLAIM entry.
revealAdmissible(c, at) ==
    LET o == Claim[c].objective
        h == Claim[c].commitment
    IN
    /\ o \in posted
    /\ committed[h] # 0
    /\ at > committed[h]
    /\ ~epoch_is_drained(at)
    /\ Claim[c].cites \subseteq accepted
    /\ \A t \in Claim[c].relations : revealed[t] # 0
    /\ (Objective[o].kind = "ratchet" /\ frontier[o].score # NoScore)
            => frontier[o].claim \in Claim[c].cites

AppendClaim ==
    /\ Drained("reveal")
    /\ revealAdmissible(call.what, call.at)
    /\ LET c == call.what IN
        revealed' = IF revealed[c] = 0
                    THEN [revealed EXCEPT ![c] = call.at] ELSE revealed
    /\ pc' = "verdict"
    /\ UNCHANGED <<now, posted, committed, verdict, receipts, total, frontier,
                   batch, call, drain, crashes, outages>>

RefuseClaim ==
    /\ Drained("reveal")
    /\ ~revealAdmissible(call.what, call.at)
    /\ Return
    /\ UNCHANGED <<now, logVars, drain, crashes, outages>>

\* The verifier runs and its answer is the VERDICT entry.  A verifier that
\* cannot run answers Unavailable; it supersedes what was recorded before.
AppendVerdict ==
    /\ pc = "verdict"
    /\ \/ /\ verdict' = [verdict EXCEPT ![call.what] = Claim[call.what].judge]
          /\ outages' = outages
       \/ /\ outages < MaxOutages
          /\ verdict' = [verdict EXCEPT ![call.what] = "unavailable"]
          /\ outages' = outages + 1
    /\ Return
    /\ UNCHANGED <<now, posted, committed, revealed, receipts, total, frontier,
                   batch, drain, crashes>>
-----------------------------------------------------------------------------
\* The process dies, or an append fails and the error leaves the handler.
Crash ==
    /\ pc # "idle"
    /\ crashes < MaxCrashes
    /\ crashes' = crashes + 1
    /\ pc' = "idle" /\ call' = NoCall /\ drain' = NoDrain
    /\ UNCHANGED <<now, logVars, outages>>

AdvanceClock ==
    /\ now < MaxEpoch
    /\ now' = now + 1
    /\ UNCHANGED <<logVars, handlerVars, crashes, outages>>

Settle ==
    \/ StartBatch
    \/ \E c \in Claims :
        \/ SettlePlain(c) \/ SettleUnit(c) \/ AdvanceFrontier(c)
        \/ SettleNothing(c)
    \/ PayImprovement
    \/ WriteBatch

HandlerStep ==
    \/ Settle
    \/ TickReturns \/ CommitReturns \/ AppendClaim \/ RefuseClaim
    \/ AppendVerdict

Next ==
    \/ \E o \in Objectives : PostObjective(o)
    \/ Tick
    \/ \E h \in Commitments : CommitCall(h)
    \/ \E c \in Claims : RevealCall(c)
    \/ HandlerStep
    \/ Crash
    \/ AdvanceClock

\* A handler that holds the lock runs on; the daemon's loop always comes back
\* to settle_tick after it has drained the spool, so calls cannot starve it;
\* and time passes.
Fairness ==
    /\ WF_vars(HandlerStep)
    /\ SF_vars(Tick)
    /\ WF_vars(AdvanceClock)

Spec     == Init /\ [][Next]_vars
FairSpec == Spec /\ Fairness
-----------------------------------------------------------------------------
Keys == ({"artifact"} \X Objectives \X Artifacts) \cup ({"piece"} \X Units)

Drains ==
    [epoch : Epochs \cup {0}, members : SUBSET Claims, todo : SUBSET Claims,
     consumed : SUBSET Keys, payee : Claims \cup {0}, owed : Nat]

TypeOK ==
    /\ now \in Epochs
    /\ posted \in SUBSET Objectives
    /\ committed \in [Commitments -> Epochs \cup {0}]
    /\ revealed \in [Claims -> Epochs \cup {0}]
    /\ verdict \in [Claims -> Verdicts \cup {"none"}]
    /\ receipts \in [Claims -> Nat]
    /\ total \in [Objectives -> Nat]
    /\ frontier \in [Objectives ->
            [claim : Claims \cup {0}, score : Int \cup {NoScore},
             paid_cumulative : Nat]]
    /\ batch \in [Epochs -> SUBSET Claims]
    /\ pc \in {"idle", "drain", "pay", "settlement", "verdict"}
    /\ call \in [op : {"none", "tick", "commit", "reveal"},
                 what : Commitments \cup Claims \cup {0}, at : Epochs \cup {0}]
    /\ call.op = "commit" => call.what \in Commitments
    /\ call.op = "reveal" => call.what \in Claims
    /\ drain \in Drains
    /\ crashes \in 0 .. MaxCrashes
    /\ outages \in 0 .. MaxOutages

\* How the handler's locals stand to the log: the epoch being drained is due,
\* its members are the epoch's accepted claims, and an advance whose settlement
\* is still to be written has not been paid.
ControlOK ==
    /\ pc # "idle" => call.at \in Epochs /\ call.at <= now
    /\ pc = "verdict" => call.op = "reveal"
    /\ pc \in {"pay", "settlement"} =>
        /\ drain.epoch \in Epochs
        /\ drain.epoch + FinalityEpochs < call.at
        /\ \A d \in drained_epochs : d < drain.epoch
        /\ drain.members = accepted_in_epoch(drain.epoch)
        /\ drain.members # {}
        /\ drain.todo \subseteq drain.members
    /\ pc = "settlement" =>
        /\ drain.payee \in drain.todo
        /\ kindOf(drain.payee) = "ratchet"
        /\ receipts[drain.payee] = 0
        /\ frontier[Claim[drain.payee].objective].score
                = Claim[drain.payee].score

\* What admission established about the records of the log.
LogOK ==
    /\ \A o \in posted : admissible(o)
    /\ \A c \in Claims : revealed[c] # 0 =>
        /\ Claim[c].objective \in posted
        /\ committed[Claim[c].commitment] # 0
        /\ committed[Claim[c].commitment] < revealed[c]
        /\ revealed[c] <= now

\* The reward of an advance whose SETTLEMENT entry is still to be written.
pending(o) ==
    IF pc = "settlement" /\ Claim[drain.payee].objective = o
    THEN drain.owed ELSE 0

\* Why the pools hold and no payment repeats: for each kind of objective, what
\* its settlements say of its total.
MoneyOK ==
    /\ \A c \in Claims : receipts[c] > 0 => revealed[c] # 0
    /\ \A o \in Objectives \ posted : total[o] = 0 /\ frontier[o] = NoFrontier
    /\ \A o \in posted :
        LET obj == Objective[o] IN
        /\ obj.kind = "plain" =>
                total[o] = IF settlement_of(o) THEN obj.reward ELSE 0
        /\ obj.kind = "piecework" => total[o] <= obj.reward
        /\ obj.kind = "ratchet" =>
                /\ total[o] + pending(o) <= frontier[o].paid_cumulative
                /\ frontier[o].paid_cumulative =
                        cumulativeOf(obj.ratchet, frontier[o].score)
    \* A paid improvement is behind the frontier it moved.
    /\ \A c \in Claims : (receipts[c] > 0 /\ kindOf(c) = "ratchet") =>
        progressOf(Objective[Claim[c].objective].ratchet, Claim[c].score) <=
        progressOf(Objective[Claim[c].objective].ratchet,
                   frontier[Claim[c].objective].score)

\* No pool pays more than it holds, however often a drain is cut short by a
\* crash and run again (node.rs settle_due, settle_one, settle_unit,
\* settle_improvement).
PoolNeverOverspent ==
    \A o \in Objectives : total[o] <= Objective[o].reward

\* No claim is settled twice and an objective that pays once pays one claim:
\* the drain is idempotent without the BATCH entry that a crash withheld
\* (node.rs settle_due).
PaidAtMostOnce ==
    /\ \A c \in Claims : receipts[c] <= 1
    /\ \A c, d \in Claims :
        /\ receipts[c] > 0 /\ receipts[d] > 0
        /\ Claim[c].objective = Claim[d].objective
        /\ kindOf(c) = "plain"
        => c = d

\* The inductive invariant of the two money properties.
MoneyInv == TypeOK /\ ControlOK /\ LogOK /\ MoneyOK /\ PaidAtMostOnce

\* Settlement with everything but the money hidden.
Pools == INSTANCE Pool WITH
    reward    <- [o \in Objectives |-> Objective[o].reward],
    objective <- [c \in Claims |-> Claim[c].objective],
    open      <- posted,
    paid      <- {c \in Claims : receipts[c] > 0},
    spent     <- total

\* Every step of the node leaves the money alone, opens a pool, or lets one
\* unpaid claim draw what its pool still holds (node.rs settle_due).
ImplementsPool == Pools!Spec

\* A paid claim was committed in an earlier epoch than it was revealed in, its
\* epoch has been closed for the finality delay, and the verdict the log holds
\* for it is still an acceptance, which is what audit demands of a settlement
\* (node.rs reveal, due_epochs, audit).
PaidClaimsWereEarned ==
    \A c \in Claims : receipts[c] > 0 =>
        /\ committed[Claim[c].commitment] # 0
        /\ committed[Claim[c].commitment] < revealed[c]
        /\ revealed[c] + FinalityEpochs < now
        /\ verdict[c] = "accept"

\* The claims an epoch was settled with are the claims accepted in it, for
\* ever after: nothing joins an epoch that was paid and nothing is withdrawn
\* from it (node.rs reveal's EpochAlreadySettled, accepted_in_epoch).
PaidEpochIsFrozen ==
    \A e \in drained_epochs : accepted_in_epoch(e) = batch[e]

\* When every record arrives within the finality delay, no accepted claim is
\* left behind by a later epoch that was paid first (node.rs due_epochs,
\* late_epochs).
TimelyRecordsAreNeverLate == late_epochs = {}

\* Of the claims of an epoch that compete for an objective that pays once, the
\* one the beacon ranks first is paid, whatever order they were appended in
\* (node.rs settle_due).
BeaconOrderDecides ==
    \A c, d \in Claims :
        /\ receipts[c] > 0
        /\ c # d /\ d \in accepted_in_epoch(revealed[c])
        /\ Claim[d].objective = Claim[c].objective
        /\ kindOf(c) = "plain"
        /\ artifact_id(d) \notin
                artifact_ids_before(Claim[d].objective, revealed[d])
        => precedes(revealed[c], c, d)

\* The running total of a frontier is the curve's value at its score: steps of
\* any number and size earn what one step would have (node.rs
\* settle_improvement, frontier.rs payout).
FrontierTelescopes ==
    \A o \in posted : Objective[o].kind = "ratchet" =>
        frontier[o].paid_cumulative =
            cumulativeOf(Objective[o].ratchet, frontier[o].score)

\* What the frontier says was paid was paid: every advance is followed by its
\* settlement (node.rs settle_improvement).
AdvancesArePaid ==
    \A o \in posted : (Objective[o].kind = "ratchet" /\ pc # "settlement") =>
        total[o] = frontier[o].paid_cumulative

\* The units that the paid piecework claims of a batch carry, of whichever job.
unitsPaidOf(members) ==
    UNION {unitKeys(c) : c \in
        {d \in members : kindOf(d) = "piecework" /\ receipts[d] > 0}}

\* A settled piecework claim leaves no unit unpaid while its pool has money,
\* but for one that a claim of the same epoch was paid for: novelty is decided
\* by the settlements of the job and, within a batch, by one set of consumed
\* keys for all jobs (node.rs settle_due, settle_unit, piecework.rs).
UnitsArePaidWhileFunded ==
    \A e \in drained_epochs : \A c \in batch[e] :
        kindOf(c) = "piecework" =>
            \/ unitKeys(c) \subseteq
                    paid_unit_keys(Claim[c].objective) \cup unitsPaidOf(batch[e])
            \/ total[Claim[c].objective] = Objective[Claim[c].objective].reward

\* The same for each job by itself; README section 6 says why it fails.
UnitsArePaidPerJob ==
    \A e \in drained_epochs : \A c \in batch[e] :
        kindOf(c) = "piecework" =>
            \/ unitKeys(c) \subseteq paid_unit_keys(Claim[c].objective)
            \/ total[Claim[c].objective] = Objective[Claim[c].objective].reward

\* An artifact the verifier has never judged before is paid when it is
\* accepted while its objective is open: an outage refutes nothing (node.rs
\* reveal, artifact_ids_before).
OutageRefutesNothing ==
    \A e \in drained_epochs : \A c \in batch[e] :
        kindOf(c) = "plain" =>
            \/ settlement_of(Claim[c].objective)
            \/ \E d \in Claims :
                /\ artifact_id(d) = artifact_id(c)
                /\ revealed[d] # 0 /\ revealed[d] < e
                /\ verdict[d] \in {"accept", "reject"}

\* A frontier never falls back, and every move clears the minimum improvement
\* (node.rs settle_improvement).
FrontierOnlyImproves ==
    [][\A o \in Objectives :
        frontier'[o] # frontier[o] =>
            improves(Objective[o].ratchet, frontier[o].score,
                     frontier'[o].score)]_vars

\* Epochs are paid in ascending order, so the anchor of a batch never depends
\* on an epoch above it (node.rs due_epochs).
EpochsPaidInOrder ==
    [][\A e \in Epochs : batch'[e] # batch[e] =>
        batch[e] = {} /\ \A d \in drained_epochs : d < e]_vars

\* Every accepted claim whose finality delay can pass is settled with its epoch
\* in the end, and for good, across crashes (daemon.rs settle_tick, node.rs
\* settle_due).
AcceptedClaimsSettle ==
    <>[](\A c \in accepted :
            revealed[c] + FinalityEpochs < MaxEpoch => c \in batch[revealed[c]])
=============================================================================
