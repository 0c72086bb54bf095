------------------------------- MODULE Daemon -------------------------------
(***************************************************************************)
(* The operator's process: src/src/daemon.rs run, with the HTTP handlers    *)
(* that queue submissions (src/src/serve.rs Spool) and the agent's server   *)
(* (src/src/mcp.rs submit_claim).  Four kinds of thread share one mutex     *)
(* over the node: the tick thread drains the spool, settles, asks for keys  *)
(* and dials; the accept thread serves one peer at a time; the agent's      *)
(* thread commits and reveals; the HTTP handlers only touch spool files.    *)
(* The process may crash at any step; what is on disk then is what the next *)
(* one starts from.                                                         *)
(*                                                                         *)
(* The log is the set of entries written (LedgerFile has the file itself).  *)
(* Which submission the rules admit, which records a peer brings and how a  *)
(* session ends are open.  Waiting on the network with the lock held is a   *)
(* state of its own, which a timeout ends at the latest.                    *)
(***************************************************************************)
EXTENDS Naturals, FiniteSets

CONSTANTS
    Subs,       \* submissions that arrive over HTTP
    Handlers,   \* HTTP handler threads
    Works,      \* artifacts the agent submits
    Epochs,     \* reveal epochs that come due
    Arrivals,   \* records peers bring
    Worlds,     \* which submissions, artifacts, arrivals and epochs there are at once
    MaxQueued,  \* --max-queued
    Fanout,     \* peers dialled in one tick
    MaxCrashes, MaxRefusals,
    MaxFaults   \* reads and writes of the operator's own files that fail

ASSUME DaemonAssumption ==
    MaxQueued \in Nat \ {0} /\ Fanout \in Nat \ {0}
    /\ MaxCrashes \in Nat /\ MaxRefusals \in Nat /\ MaxFaults \in Nat
    /\ IsFiniteSet(Handlers)
    /\ Worlds \subseteq SUBSET (Subs \cup Works \cup Arrivals \cup Epochs)

VARIABLES
    world,     \* the member of Worlds this behaviour is about
    up,        \* the process runs
    lock,      \* who holds the State mutex between steps: "free", "tick", "accept"
    tick,      \* the tick thread: where it is, what it drained, what it dialled
    accept,    \* the accept thread
    http,      \* the handlers: where each is, its submission, its open file
    agent,     \* the agent's thread: idle, or between the log and its own file
    dirty,     \* the agent appended since the last checkpoint
    pending,   \* the agent's open commitments, in memory
    log,       \* on disk: the entries of the log
    signed,    \* on disk: the entries the checkpoint covers
    file, tmp, \* on disk: a submission's spool file and its temporary
    saved,     \* on disk: the agent's open commitments
    due,       \* epochs that may be settled by now
    acked, decided,  \* submissions answered 202; submissions the node ruled on
    crashes, refusals, faults,
    excused,   \* nonces an I/O error, a crash or a final refusal may have cost
    missed     \* the last checkpoint due could not be written

disk == <<log, signed, file, tmp, saved>>
vars == <<world, up, lock, tick, accept, http, agent, dirty, pending, disk, due,
          acked, decided, crashes, refusals, faults, excused, missed>>

Entry(kind, of, n) == [kind |-> kind, of |-> of, n |-> n]
Settlements(E) == {Entry("batch", e, 0) : e \in E}

Started == [at |-> "drain", batch |-> {}, changed |-> FALSE, dials |-> 0]
Resting == [at |-> "idle", sub |-> {}, on |-> "none"]
Quiet == [at |-> "idle", entry |-> {}]

Init ==
    /\ world \in Worlds
    /\ up = TRUE /\ lock = "free" /\ tick = Started /\ accept = "listen"
    /\ http = [h \in Handlers |-> Resting]
    /\ agent = Quiet /\ dirty = FALSE /\ pending = {}
    /\ log = {} /\ signed = {} /\ saved = {}
    /\ file = [s \in Subs |-> "none"] /\ tmp = [s \in Subs |-> "none"]
    /\ due = {} /\ acked = {} /\ decided = {} /\ crashes = 0 /\ refusals = 0
    /\ faults = 0 /\ excused = {} /\ missed = FALSE
-----------------------------------------------------------------------------
(* The HTTP handlers: serve.rs Spool::offer.                                 *)

queued == {s \in Subs : file[s] # "none"}

\* A file already queued answers the resend; nothing is written.
Offer(h, s) ==
    /\ http[h].at = "idle" /\ s \in world
    /\ IF file[s] # "none"
       THEN acked' = acked \cup {s} /\ UNCHANGED http
       ELSE /\ http' = [http EXCEPT ![h] = [Resting EXCEPT !.at = "new", !.sub = {s}]]
            /\ UNCHANGED acked
    /\ UNCHANGED <<world, up, lock, tick, accept, agent, dirty, pending, disk, due,
                   decided, crashes, refusals, faults, excused, missed>>

\* The cap is read before the file is written: handlers race past it.
Count(h) ==
    /\ http[h].at = "new"
    /\ http' = [http EXCEPT ![h] =
            IF Cardinality(queued) >= MaxQueued THEN Resting ELSE [@ EXCEPT !.at = "room"]]
    /\ UNCHANGED <<world, up, lock, tick, accept, agent, dirty, pending, disk, due,
                   acked, decided, crashes, refusals, faults, excused, missed>>

\* fs::write opens the temporary, whose name depends on the content alone, and
\* truncates it, ...
Truncate(h) ==
    /\ http[h].at = "room"
    /\ http' = [http EXCEPT ![h].at = "open", ![h].on = "tmp"]
    /\ \E s \in http[h].sub : tmp' = [tmp EXCEPT ![s] = "torn"]
    /\ UNCHANGED <<world, up, lock, tick, accept, agent, dirty, pending, log, signed,
                   file, saved, due, acked, decided, crashes, refusals, faults, excused, missed>>

\* ... and writes the bytes to the file it opened, wherever that is by now.
Write(h) ==
    /\ http[h].at = "open"
    /\ http' = [http EXCEPT ![h].at = "full"]
    /\ \E s \in http[h].sub :
        /\ tmp' = IF http[h].on = "tmp" THEN [tmp EXCEPT ![s] = "whole"] ELSE tmp
        /\ file' = IF http[h].on = "path" THEN [file EXCEPT ![s] = "whole"] ELSE file
    /\ UNCHANGED <<world, up, lock, tick, accept, agent, dirty, pending, log, signed,
                   saved, due, acked, decided, crashes, refusals, faults, excused, missed>>

\* What the other handlers hold open after a rename of s, or an unlink of S.
renamed(s, on) == IF on = "tmp" THEN "path" ELSE "gone"
unlinked(on) == IF on = "path" THEN "gone" ELSE on

Rename(h) ==
    /\ http[h].at = "full"
    /\ \E s \in http[h].sub :
        \/ /\ tmp[s] = "none"            \* another handler took it: a 500
           /\ http' = [http EXCEPT ![h] = Resting]
           /\ UNCHANGED <<file, tmp, acked>>
        \/ /\ tmp[s] # "none"
           /\ file' = [file EXCEPT ![s] = tmp[s]]
           /\ tmp' = [tmp EXCEPT ![s] = "none"]
           /\ acked' = acked \cup {s}
           /\ http' = [g \in Handlers |->
                    IF g = h THEN Resting
                    ELSE IF http[g].at = "open" /\ s \in http[g].sub
                    THEN [http[g] EXCEPT !.on = renamed(s, @)] ELSE http[g]]
    /\ UNCHANGED <<world, up, lock, tick, accept, agent, dirty, pending, log, signed,
                   saved, due, decided, crashes, refusals, faults, excused, missed>>

HandlerStep(h) == Count(h) \/ Truncate(h) \/ Write(h) \/ Rename(h)
-----------------------------------------------------------------------------
(* The tick thread: the loop of daemon.rs run.                               *)

\* Everything queued is ruled on by the node, and only then taken away.
Drain ==
    /\ tick.at = "drain" /\ lock = "free"
    /\ lock' = "tick"
    /\ LET batch == {s \in Subs : file[s] = "whole"} IN
        /\ tick' = [tick EXCEPT !.at = "take", !.batch = batch, !.changed = dirty]
        /\ \E admitted \in SUBSET batch :
            log' = log \cup {Entry("sub", s, 0) : s \in admitted}
        /\ decided' = decided \cup batch
    /\ dirty' = FALSE
    /\ UNCHANGED <<world, up, accept, http, agent, pending, signed, file, tmp, saved,
                   due, acked, crashes, refusals, faults, excused, missed>>

\* Node::settle_due: a batch for every epoch that has come due.
settle_due == log \cup Settlements(due)

\* Mutant of removed: the spool is emptied, not just of what was drained.
removedAll(gone) ==
    /\ file' = [s \in Subs |-> "none"]
    /\ http' = [h \in Handlers |->
            IF http[h].at = "open" /\ http[h].sub \subseteq gone
            THEN [http[h] EXCEPT !.on = unlinked(@)] ELSE http[h]]

removed(gone) ==
    /\ file' = [s \in Subs |-> IF s \in gone THEN "none" ELSE file[s]]
    /\ http' = [h \in Handlers |->
            IF http[h].at = "open" /\ http[h].sub \subseteq gone
            THEN [http[h] EXCEPT !.on = unlinked(@)] ELSE http[h]]

\* A log that changed is signed; a checkpoint that cannot be written is logged
\* and not tried again before the next change.
persist(written) ==
    IF tick.changed \/ tick.batch # {} \/ log' # log
    THEN signed' = (IF written THEN log' ELSE signed) /\ missed' = ~written
    ELSE written /\ UNCHANGED <<signed, missed>>

\* The drained files go, but for what cannot be removed; what is due is settled
\* whether or not anything arrived.
Take ==
    /\ tick.at = "take"
    /\ log' = settle_due
    /\ \E left \in SUBSET tick.batch, written \in BOOLEAN :
        /\ removed(tick.batch \ left)
        /\ persist(written)
        /\ faults' = IF left = {} /\ written THEN faults ELSE faults + 1
        /\ faults' <= MaxFaults
    /\ tick' = [Started EXCEPT !.at = "seed"]
    /\ lock' = "free"
    /\ UNCHANGED <<world, up, accept, agent, dirty, pending, tmp, saved, due, acked,
                   decided, crashes, refusals, excused>>

\* seed_from_log and absorb_beacons ask peers for their keys, under the lock.
Seed ==
    /\ tick.at = "seed" /\ lock = "free"
    /\ lock' = "tick" /\ tick' = [tick EXCEPT !.at = "asking"]
    /\ UNCHANGED <<world, up, accept, http, agent, dirty, pending, disk, due, acked,
                   decided, crashes, refusals, faults, excused, missed>>

Seeded ==
    /\ tick.at = "asking"
    /\ lock' = "free" /\ tick' = [tick EXCEPT !.at = "dial"]
    /\ UNCHANGED <<world, up, accept, http, agent, dirty, pending, disk, due, acked,
                   decided, crashes, refusals, faults, excused, missed>>

Dial ==
    /\ tick.at = "dial" /\ tick.dials < Fanout /\ lock = "free"
    /\ lock' = "tick" /\ tick' = [tick EXCEPT !.at = "calling", !.dials = @ + 1]
    /\ UNCHANGED <<world, up, accept, http, agent, dirty, pending, disk, due, acked,
                   decided, crashes, refusals, faults, excused, missed>>

\* A session ends: records that came are applied and what is due is settled; it
\* is signed only if every later round, and the write, went well too.
SessionEnds ==
    \/ /\ \E came \in SUBSET (Arrivals \cap world) :
            log' = settle_due \cup {Entry("peer", a, 0) : a \in came}
       /\ \/ signed' = log' /\ missed' = FALSE
          \/ UNCHANGED <<signed, missed>>
    \/ UNCHANGED <<log, signed, missed>>

Dialled ==
    /\ tick.at = "calling"
    /\ SessionEnds
    /\ lock' = "free" /\ tick' = [tick EXCEPT !.at = "dial"]
    /\ UNCHANGED <<world, up, accept, http, agent, dirty, pending, file, tmp, saved,
                   due, acked, decided, crashes, refusals, faults, excused>>

Rest ==
    /\ tick.at = "dial"
    /\ tick' = [tick EXCEPT !.at = "sleep"]
    /\ UNCHANGED <<world, up, lock, accept, http, agent, dirty, pending, disk, due,
                   acked, decided, crashes, refusals, faults, excused, missed>>

Wake ==
    /\ tick.at = "sleep"
    /\ tick' = Started
    /\ UNCHANGED <<world, up, lock, accept, http, agent, dirty, pending, disk, due,
                   acked, decided, crashes, refusals, faults, excused, missed>>

TickThread == Drain \/ Take \/ Seed \/ Seeded \/ Dial \/ Dialled \/ Rest \/ Wake
-----------------------------------------------------------------------------
(* The accept thread.                                                        *)

\* Mutant of Connect: the lock is taken before somebody dials.
ConnectLocked ==
    /\ \/ accept = "listen" /\ lock = "free" /\ lock' = "accept" /\ accept' = "held"
       \/ accept = "held" /\ accept' = "reading" /\ lock' = "free"
    /\ UNCHANGED <<world, up, tick, http, agent, dirty, pending, disk, due, acked,
                   decided, crashes, refusals, faults, excused, missed>>

\* Somebody dials; nothing is held until the first frame is in.
Connect ==
    /\ accept = "listen"
    /\ accept' = "reading"
    /\ UNCHANGED <<world, up, lock, tick, http, agent, dirty, pending, disk, due, acked,
                   decided, crashes, refusals, faults, excused, missed>>

\* The first frame, an error or a timeout.  A key request is answered at once.
FirstFrame ==
    /\ accept = "reading"
    /\ accept' \in {"listen", "waiting"}
    /\ UNCHANGED <<world, up, lock, tick, http, agent, dirty, pending, disk, due, acked,
                   decided, crashes, refusals, faults, excused, missed>>

Serve ==
    /\ accept = "waiting" /\ lock = "free"
    /\ accept' = "serving" /\ lock' = "accept"
    /\ UNCHANGED <<world, up, tick, http, agent, dirty, pending, disk, due, acked,
                   decided, crashes, refusals, faults, excused, missed>>

Served ==
    /\ accept = "serving"
    /\ SessionEnds
    /\ accept' = "listen" /\ lock' = "free"
    /\ UNCHANGED <<world, up, tick, http, agent, dirty, pending, file, tmp, saved, due,
                   acked, decided, crashes, refusals, faults, excused>>

AcceptThread == FirstFrame \/ Serve \/ Served
-----------------------------------------------------------------------------
(* The agent's thread: mcp.rs submit_claim.                                  *)

Commitments == {e \in log : e.kind = "commit"}

\* Every nonce drawn so far was committed to at once.
fresh(w) == Cardinality({e \in Commitments : e.of = w}) + 1

open(w) == {p \in pending : p.of = w}

\* An agent whose work is in does not submit it again; the server would commit.
claimed == {e.of : e \in {x \in log : x.kind = "claim"}}

\* Mutant of wrote: the guard's Drop does not look at the log's length.
wroteQuietly(entries) ==
    /\ log' = settle_due \cup entries
    /\ UNCHANGED dirty

\* A write through the shared node settles first; the guard notes a longer log.
wrote(entries) ==
    /\ log' = settle_due \cup entries
    /\ dirty' = (dirty \/ log' # log)

\* The first call: commit, and only then remember the nonce.  A few commitments
\* turn out to be doomed: their reveal is refused for good.
Commit(w) ==
    /\ agent.at = "idle" /\ lock = "free" /\ w \in world
    /\ open(w) = {} /\ w \notin claimed
    /\ \E doomed \in BOOLEAN :
        /\ doomed => refusals < MaxRefusals
        /\ refusals' = IF doomed THEN refusals + 1 ELSE refusals
        /\ wrote({Entry("commit", w, fresh(w))})
        /\ agent' = [at |-> "committed", entry |->
                {[of |-> w, n |-> fresh(w), ripe |-> FALSE, doomed |-> doomed]}]
    /\ UNCHANGED <<world, up, lock, tick, accept, http, pending, signed, file, tmp,
                   saved, due, acked, decided, crashes, faults, excused, missed>>

\* Mutant of Remember: the store is not written out.
RememberInMemory ==
    /\ agent.at = "committed"
    /\ pending' = pending \cup agent.entry
    /\ agent' = Quiet
    /\ UNCHANGED <<world, up, lock, tick, accept, http, dirty, disk, due, acked, decided,
                   crashes, refusals, faults, excused, missed>>

\* PendingStore::save is best effort: the file is replaced whole, or stays as it is.
save(store) ==
    \/ saved' = store /\ UNCHANGED faults
    \/ faults < MaxFaults /\ faults' = faults + 1 /\ UNCHANGED saved

nonces(S) == {<<p.of, p.n>> : p \in S}

Remember ==
    /\ agent.at = "committed"
    /\ pending' = pending \cup agent.entry
    /\ save(pending')
    /\ excused' = IF faults' = faults THEN excused ELSE excused \cup nonces(agent.entry)
    /\ agent' = Quiet
    /\ UNCHANGED <<world, up, lock, tick, accept, http, dirty, log, signed, file, tmp,
                   due, acked, decided, crashes, refusals, missed>>

\* A call after the epoch has turned: the reveal, admitted or refused for good;
\* either way the commitment is then forgotten.
Reveal(w) ==
    /\ agent.at = "idle" /\ lock = "free"
    /\ \E p \in open(w) :
        /\ p.ripe
        /\ wrote(IF p.doomed THEN {} ELSE {Entry("claim", w, p.n)})
        /\ agent' = [at |-> "revealed", entry |-> {p}]
        /\ excused' = IF p.doomed THEN excused \cup nonces({p}) ELSE excused
    /\ UNCHANGED <<world, up, lock, tick, accept, http, pending, signed, file, tmp,
                   saved, due, acked, decided, crashes, refusals, faults, missed>>

Forget ==
    /\ agent.at = "revealed"
    /\ pending' = pending \ agent.entry
    /\ save(pending')
    /\ agent' = Quiet
    /\ UNCHANGED <<world, up, lock, tick, accept, http, dirty, log, signed, file, tmp,
                   due, acked, decided, crashes, refusals, excused, missed>>

AgentThread(w) == Commit(w) \/ Reveal(w) \/ Remember \/ Forget
-----------------------------------------------------------------------------
(* The clock and the process.                                                *)

ripened(S) == {[p EXCEPT !.ripe = TRUE] : p \in S}

\* The epoch turns: commitments made before it can be opened.
EpochTurns ==
    /\ pending # ripened(pending) \/ agent.entry # ripened(agent.entry)
    /\ pending' = ripened(pending) /\ saved' = ripened(saved)
    /\ agent' = [agent EXCEPT !.entry = ripened(@)]
    /\ UNCHANGED <<world, up, lock, tick, accept, http, dirty, log, signed, file, tmp,
                   due, acked, decided, crashes, refusals, faults, excused, missed>>

ComesDue(e) ==
    /\ e \in (Epochs \cap world) \ due
    /\ due' = due \cup {e}
    /\ UNCHANGED <<world, up, lock, tick, accept, http, agent, dirty, pending, disk,
                   acked, decided, crashes, refusals, faults, excused, missed>>

\* A crash, or the end of the agent's input: the threads and what they hold
\* in memory are gone.
Crash ==
    /\ up /\ crashes < MaxCrashes
    /\ up' = FALSE /\ crashes' = crashes + 1
    /\ excused' = IF agent.at = "committed" THEN excused \cup nonces(agent.entry) ELSE excused
    /\ lock' = "free" /\ tick' = Started /\ accept' = "listen"
    /\ http' = [h \in Handlers |-> Resting]
    /\ agent' = Quiet /\ dirty' = FALSE /\ pending' = {}
    /\ UNCHANGED <<world, disk, due, acked, decided, refusals, faults, missed>>

\* The log is opened, a checkpoint written (without it there is no process), the
\* agent's commitments loaded; a file that cannot be read, opened or parsed is an
\* empty store, which the next save writes over it.
Start ==
    /\ ~up
    /\ up' = TRUE
    /\ signed' = log /\ missed' = FALSE
    /\ \/ pending' = saved /\ UNCHANGED <<faults, excused>>
       \/ /\ saved # {} /\ faults < MaxFaults /\ faults' = faults + 1
          /\ pending' = {}
          /\ excused' = excused \cup nonces(saved)
    /\ UNCHANGED <<world, lock, tick, accept, http, agent, dirty, log, file, tmp, saved,
                   due, acked, decided, crashes, refusals>>

Next ==
    \/ up /\ (TickThread \/ Connect \/ AcceptThread)
    \/ \E h \in Handlers : up /\ ((\E s \in Subs : Offer(h, s)) \/ HandlerStep(h))
    \/ \E w \in Works : up /\ AgentThread(w)
    \/ up /\ EpochTurns
    \/ \E e \in Epochs : ComesDue(e)
    \/ Crash \/ Start

Spec == Init /\ [][Next]_vars

\* Every wait on a peer ends in a timeout; a thread that keeps finding the mutex
\* free gets it; the agent calls again until its work is in; the process is
\* restarted.
FairSpec ==
    /\ Spec
    /\ SF_vars(up /\ TickThread)
    /\ SF_vars(up /\ AcceptThread)
    /\ \A h \in Handlers : WF_vars(up /\ HandlerStep(h))
    /\ \A w \in Works : SF_vars(up /\ AgentThread(w))
    /\ WF_vars(up /\ EpochTurns)
    /\ WF_vars(Start)
-----------------------------------------------------------------------------
(* Properties.                                                               *)

\* The shapes of the state: a thread inside its critical section is the one the
\* mutex names, and the spool overshoots its cap by the racing handlers only.
TypeOK ==
    /\ lock \in {"free", "tick", "accept"}
    /\ (tick.at \in {"take", "asking", "calling"}) = (lock = "tick")
    /\ (accept = "serving") = (lock = "accept")
    /\ tick.batch \subseteq Subs /\ tick.dials \in 0 .. Fanout
    /\ \A h \in Handlers : http[h].at \in {"idle", "new", "room", "open", "full"}
    /\ \A s \in Subs : {file[s], tmp[s]} \subseteq {"none", "torn", "whole"}
    /\ Cardinality(queued) <= MaxQueued + Cardinality(Handlers) - 1
    /\ signed \subseteq log

\* The tick thread, which dials, fetches code, settles and drains, is never
\* starved by a peer that dials and stays silent, or by none dialling at all
\* ("the main loop ran once and then waited on a mutex for the rest of the
\* process's life", service.rs).
TicksReturn == []<>(tick.at = "sleep")

\* A submission answered 202 is ruled on, across crashes between the ruling and
\* the removal of its file, unless its spool file was left torn.
AcknowledgedIsDecided ==
    \A s \in Subs : s \in acked ~> (s \in decided \/ file[s] = "torn")

\* An epoch that came due is settled by a node that nobody dials and nobody
\* submits to (daemon.rs settle_tick).
DueEpochsSettle ==
    \A e \in Epochs : e \in due ~> Entry("batch", e, 0) \in log

Own == {e \in log : e.kind \in {"sub", "commit", "claim"}}

\* What the node itself appended, from the spool or for the agent, comes under
\* the checkpoint it serves, unless the last checkpoint due could not be written
\* (daemon.rs State.dirty, persist).
OwnRecordsAreSigned == Own # {} ~> (Own \subseteq signed \/ missed)

\* The same without the excuse: a checkpoint that failed is written again.
OwnRecordsAreSignedAnyway == Own # {} ~> Own \subseteq signed

\* Commitments in the log whose nonce nobody has any more.
Stranded ==
    {e \in Commitments :
        /\ Entry("claim", e.of, e.n) \notin log
        /\ \A p \in pending \cup saved \cup agent.entry : <<p.of, p.n>> # <<e.of, e.n>>}

\* The nonce survives a restart (mcp.rs PendingStore).  What can cost it is a
\* crash between the commitment and the write of its nonce, a write of it that
\* fails, a start that cannot read the file, or a final refusal: each costs the
\* nonces it was about, and no other.
NoncesSurvive == {<<e.of, e.n>> : e \in Stranded} \subseteq excused

\* An agent that calls again gets its work into the log, through crashes and
\* commitments that can never be opened (mcp.rs submit_claim).
AgentWorkLands == \A w \in Works : w \in world => <>(w \in claimed)
=============================================================================
