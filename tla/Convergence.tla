---------------------------- MODULE Convergence ------------------------------
(***************************************************************************)
(* Two nodes that apply the rules of Settlement to the same records, each  *)
(* delivered to each node within SyncLag epochs of the epoch it declares.  *)
(* src/src/partition.rs says when the two settle the same batches.         *)
(*                                                                         *)
(* Node A is the node of Settlement, B an instance of it with variables of *)
(* its own; they share the clock and the objectives, which both know from  *)
(* the start.  The handlers of two nodes share no state, so their steps    *)
(* commute: here one node's handler runs to its end before the other node  *)
(* moves or the clock does.  Nobody crashes.                               *)
(***************************************************************************)
EXTENDS Settlement

CONSTANT BeaconB   \* node B's recorded beacons; sessions do not exchange them

VARIABLES
    committedB, revealedB, verdictB, receiptsB, totalB, frontierB, batchB,
    pcB, callB, drainB

varsA  == <<committed, revealed, verdict, receipts, total, frontier, batch,
            handlerVars>>
varsB  == <<committedB, revealedB, verdictB, receiptsB, totalB, frontierB,
            batchB, pcB, callB, drainB>>
shared == <<posted, crashes, outages>>
varsAB == <<now, shared, varsA, varsB>>

B == INSTANCE Settlement WITH
    Beacon <- BeaconB,
    committed <- committedB, revealed <- revealedB, verdict <- verdictB,
    receipts <- receiptsB, total <- totalB, frontier <- frontierB,
    batch <- batchB, pc <- pcB, call <- callB, drain <- drainB

\* Settlement's initial state at both nodes, with the objectives posted.
InitAB ==
    /\ now = 1 /\ posted = Objectives /\ crashes = 0 /\ outages = 0
    /\ committed = [h \in Commitments |-> 0] /\ committedB = committed
    /\ revealed = [c \in Claims |-> 0] /\ revealedB = revealed
    /\ verdict = [c \in Claims |-> "none"] /\ verdictB = verdict
    /\ receipts = [c \in Claims |-> 0] /\ receiptsB = receipts
    /\ total = [o \in Objectives |-> 0] /\ totalB = total
    /\ frontier = [o \in Objectives |-> NoFrontier] /\ frontierB = frontier
    /\ batch = [e \in Epochs |-> {}] /\ batchB = batch
    /\ pc = "idle" /\ pcB = "idle"
    /\ call = NoCall /\ callB = NoCall
    /\ drain = NoDrain /\ drainB = NoDrain

StepA ==
    /\ pcB = "idle"
    /\ \/ Tick
       \/ \E h \in Commitments : CommitCall(h)
       \/ \E c \in Claims : RevealCall(c)
       \/ HandlerStep
    /\ UNCHANGED varsB

StepB ==
    /\ pc = "idle"
    /\ \/ B!Tick
       \/ \E h \in Commitments : B!CommitCall(h)
       \/ \E c \in Claims : B!RevealCall(c)
       \/ B!HandlerStep
    /\ UNCHANGED varsA

\* A record that one node's log holds has reached the other, which holds it
\* too or refuses it: a session offers what a peer lacks again and again
\* (p2p/service.rs replay_records_with_horizon).
Reached ==
    /\ \A h \in Commitments :
        LET at == Commitment[h].created_at IN
        at + SyncLag <= now =>
            /\ committed[h] # 0 => \/ committedB[h] # 0
                                   \/ B!due_epochs(at) = {} /\ ~B!commitAdmissible(h)
            /\ committedB[h] # 0 => \/ committed[h] # 0
                                    \/ due_epochs(at) = {} /\ ~commitAdmissible(h)
    /\ \A c \in Claims :
        LET at == Claim[c].created_at IN
        at + SyncLag <= now =>
            /\ revealed[c] # 0 => \/ revealedB[c] # 0
                                  \/ B!due_epochs(at) = {} /\ ~B!revealAdmissible(c, at)
            /\ revealedB[c] # 0 => \/ revealed[c] # 0
                                   \/ due_epochs(at) = {} /\ ~revealAdmissible(c, at)

AdvanceBoth ==
    /\ now < MaxEpoch
    /\ pc = "idle" /\ pcB = "idle"
    /\ Reached
    /\ now' = now + 1
    /\ UNCHANGED <<shared, varsA, varsB>>

NextAB == StepA \/ StepB \/ AdvanceBoth

SpecAB == InitAB /\ [][NextAB]_varsAB
-----------------------------------------------------------------------------
\* Both nodes have settled all that the clock lets them.
AllSettled ==
    /\ pc = "idle" /\ pcB = "idle"
    /\ due_epochs(now) = {} /\ B!due_epochs(now) = {}

\* The two rules of admission that read what was settled refused one node a
\* record that the other took, and its time to be delivered is over: a
\* commitment to a certificate that was paid meanwhile (node.rs commit), or an
\* improvement that does not cite a frontier reached meanwhile (reveal).
Refused ==
    \/ \E h \in Commitments :
        /\ Commitment[h].created_at + SyncLag < now
        /\ Objective[Commitment[h].objective].kind = "plain"
        /\ (committed[h] = 0) # (committedB[h] = 0)
    \/ \E c \in Claims :
        /\ Claim[c].created_at + SyncLag < now
        /\ kindOf(c) = "ratchet"
        /\ (revealed[c] = 0) # (revealedB[c] = 0)

SameSettlements ==
    /\ batch = batchB /\ receipts = receiptsB
    /\ total = totalB /\ frontier = frontierB

\* Two nodes that every record reaches within the synchrony bound, as late as
\* the finality delay allows, settle the same batches in the same order and
\* pay the same claims, unless a rule that reads the settled state refused one
\* of them a record that the other took (node.rs due_epochs, settle_due,
\* partition.rs FINALITY_EPOCHS).
NodesConverge == AllSettled => SameSettlements \/ Refused

\* What partition.rs says of the bound, without the exception; README section
\* 6 says why it fails.
NodesAlwaysConverge == AllSettled => SameSettlements
=============================================================================
