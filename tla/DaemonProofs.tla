---------------------------- MODULE DaemonProofs -----------------------------
(***************************************************************************)
(* Proofs about Daemon: the nonces of the agent's commitments survive       *)
(* crashes, the threads exclude each other, and the spool overshoots its    *)
(* cap by the racing handlers only, for any number of handlers,             *)
(* submissions, artifacts, crashes, I/O errors and refusals.                *)
(***************************************************************************)
EXTENDS Daemon, TLAPS, FiniteSetTheorems

Nonces == [of : Works, n : Nat, ripe : BOOLEAN, doomed : BOOLEAN]

\* Somebody in S still has the nonce of the commitment e.
held(S, e) == \E p \in S : p.of = e.of /\ p.n = e.n

\* A commitment that is opened or excused; or its nonce is on its way to disk;
\* or it is on disk and, while the process runs, in memory too.
Safe(e) ==
    \/ Entry("claim", e.of, e.n) \in log
    \/ <<e.of, e.n>> \in excused
    \/ agent.at = "committed" /\ held(agent.entry, e)
    \/ held(saved, e) /\ (up => held(pending, e))

NonceType ==
    /\ up \in BOOLEAN
    /\ agent \in [at : {"idle", "committed", "revealed"}, entry : SUBSET Nonces]
    /\ pending \in SUBSET Nonces /\ saved \in SUBSET Nonces
    /\ IsFiniteSet(Commitments)

\* What the agent is about to forget is in the log or was refused.
NonceInv ==
    /\ NonceType
    /\ agent.at = "idle" => agent.entry = {}
    /\ ~up => agent.at = "idle"
    /\ agent.at = "revealed" => \A p \in agent.entry :
            Entry("claim", p.of, p.n) \in log \/ <<p.of, p.n>> \in excused
    /\ \A e \in Commitments : Safe(e)
-----------------------------------------------------------------------------
Places == {"drain", "take", "seed", "asking", "dial", "calling", "sleep"}
Marks  == {"none", "torn", "whole"}
Ends   == {"none", "tmp", "path", "gone"}
Stages == {"idle", "new", "room", "open", "full"}
Dials  == 0 .. Fanout
Ticks  == [at : Places, batch : SUBSET Subs, changed : BOOLEAN, dials : Dials]
Calls  == [at : Stages, sub : SUBSET Subs, on : Ends]

\* The handlers that have been told there is room.
Admitted == {h \in Handlers : http[h].at \in {"room", "open", "full"}}

ShapeOK ==
    /\ lock \in {"free", "tick", "accept"}
    /\ tick \in Ticks
    /\ accept \in {"listen", "reading", "waiting", "serving"}
    /\ http \in [Handlers -> Calls]
    /\ file \in [Subs -> Marks] /\ tmp \in [Subs -> Marks]
    /\ dirty \in BOOLEAN
    /\ signed \subseteq log

\* The mutex names the thread that is in its critical section.
MutexOK ==
    /\ tick.at \in {"take", "asking", "calling"} <=> lock = "tick"
    /\ accept = "serving" <=> lock = "accept"

\* A handler that writes to a spool file's own path has it in the spool, and a
\* handler that was told there is room counts as a file.
SpoolOK ==
    /\ \A h \in Handlers :
        /\ http[h].at # "idle" => \E s \in Subs : http[h].sub = {s}
        /\ http[h].at = "open" /\ http[h].on = "path" =>
            \A s \in http[h].sub : file[s] # "none"
    /\ IsFiniteSet(queued)
    /\ Cardinality(queued) + Cardinality(Admitted)
            <= MaxQueued + Cardinality(Handlers) - 1

DaemonInv == ShapeOK /\ MutexOK /\ SpoolOK
-----------------------------------------------------------------------------
(* The nonces.                                                               *)

\* A step that leaves the agent's store alone and appends no commitment.
LEMMA NoncesElsewhere ==
    ASSUME NonceInv, UNCHANGED <<up, agent, pending, saved, excused>>,
           log \subseteq log', Commitments' = Commitments
    PROVE  NonceInv'
  <1>1. \A e \in Commitments : Safe(e)'
    BY DEF NonceInv, Safe
  <1>2. agent.at = "revealed" => \A p \in agent.entry :
            Entry("claim", p.of, p.n) \in log' \/ <<p.of, p.n>> \in excused
    BY DEF NonceInv
  <1> QED BY <1>1, <1>2 DEF NonceInv, NonceType

LEMMA NoCommitment ==
    ASSUME NEW X, log' = log \cup X, \A e \in X : e.kind # "commit"
    PROVE  log \subseteq log' /\ Commitments' = Commitments
  BY DEF Commitments

\* What the tick and the accept threads, the handlers and the clock append.
LEMMA OtherThreads ==
    ASSUME \/ TickThread \/ Connect \/ AcceptThread
           \/ \E h \in Handlers : (\E s \in Subs : Offer(h, s)) \/ HandlerStep(h)
           \/ \E e \in Epochs : ComesDue(e)
    PROVE  /\ UNCHANGED <<up, agent, pending, saved, excused>>
           /\ log \subseteq log' /\ Commitments' = Commitments
  <1>b. \A e \in Settlements(due) : e.kind # "commit"
    BY DEF Settlements, Entry
  <1>q. \A e \in {} : e.kind # "commit"
    OBVIOUS
  <1>s. ASSUME SessionEnds PROVE log \subseteq log' /\ Commitments' = Commitments
    <2>1. CASE UNCHANGED <<log, signed>>
      BY <2>1 DEF Commitments
    <2>2. CASE ~UNCHANGED <<log, signed>>
      <3>1. PICK came : log' = settle_due \cup {Entry("peer", a, 0) : a \in came}
        BY <1>s, <2>2 DEF SessionEnds
      <3> DEFINE X == Settlements(due) \cup {Entry("peer", a, 0) : a \in came}
      <3>2. log' = log \cup X
        BY <3>1 DEF settle_due
      <3>3. \A e \in X : e.kind # "commit"
        BY <1>b DEF Entry
      <3> HIDE DEF X
      <3> QED BY <3>2, <3>3, NoCommitment
    <2> QED BY <2>1, <2>2
  <1>u. ASSUME UNCHANGED log PROVE log \subseteq log' /\ Commitments' = Commitments
    BY <1>u DEF Commitments
  <1>1. CASE Drain
    <2>1. PICK admitted : log' = log \cup {Entry("sub", s, 0) : s \in admitted}
      BY <1>1 DEF Drain
    <2> DEFINE X == {Entry("sub", s, 0) : s \in admitted}
    <2>2. \A e \in X : e.kind # "commit"
      BY DEF Entry
    <2>3. log' = log \cup X
      BY <2>1
    <2> HIDE DEF X
    <2>4. log \subseteq log' /\ Commitments' = Commitments
      BY <2>2, <2>3, NoCommitment
    <2> QED BY <1>1, <2>4 DEF Drain
  <1>2. CASE Take
    <2>1. log' = log \cup Settlements(due)
      BY <1>2 DEF Take, settle_due
    <2>2. log \subseteq log' /\ Commitments' = Commitments
      BY <1>b, <2>1, NoCommitment
    <2> QED BY <1>2, <2>2 DEF Take
  <1>3. CASE Dialled \/ Served
    BY <1>3, <1>s DEF Dialled, Served
  <1>4. CASE Seed \/ Seeded \/ Dial \/ Rest \/ Wake \/ Connect \/ FirstFrame \/ Serve
    BY <1>4, <1>u DEF Seed, Seeded, Dial, Rest, Wake, Connect, FirstFrame, Serve, disk
  <1>5. CASE \E h \in Handlers : (\E s \in Subs : Offer(h, s)) \/ HandlerStep(h)
    BY <1>5, <1>u DEF Offer, HandlerStep, Count, Truncate, Write, Rename, disk
  <1>6. CASE \E e \in Epochs : ComesDue(e)
    BY <1>6, <1>u DEF ComesDue, disk
  <1> QED BY <1>1, <1>2, <1>3, <1>4, <1>5, <1>6 DEF TickThread, AcceptThread

LEMMA CommitStep ==
    ASSUME NonceInv, up, NEW w \in Works, Commit(w)
    PROVE  NonceInv'
  <1>t. NonceType /\ agent.at = "idle"
    BY DEF NonceInv, Commit
  <1>1. PICK doomed \in BOOLEAN :
            /\ log' = settle_due \cup {Entry("commit", w, fresh(w))}
            /\ agent' = [at |-> "committed", entry |->
                    {[of |-> w, n |-> fresh(w), ripe |-> FALSE, doomed |-> doomed]}]
    BY DEF Commit, wrote
  <1>2. UNCHANGED <<up, pending, saved, excused>>
    BY DEF Commit
  <1>3. fresh(w) \in Nat
    <2>1. {e \in Commitments : e.of = w} \subseteq Commitments
      OBVIOUS
    <2>2. IsFiniteSet({e \in Commitments : e.of = w})
      BY <1>t, <2>1, FS_Subset DEF NonceType
    <2> QED BY <2>2, FS_CardinalityType DEF fresh
  <1>4. PICK c, p : /\ c = Entry("commit", w, fresh(w))
                    /\ p = [of |-> w, n |-> fresh(w), ripe |-> FALSE, doomed |-> doomed]
    OBVIOUS
  <1>5. /\ p \in Nonces /\ p.of = w /\ p.n = fresh(w)
        /\ c.kind = "commit" /\ c.of = w /\ c.n = fresh(w)
    BY <1>3, <1>4 DEF Nonces, Entry
  <1>6. /\ log' = settle_due \cup {c} /\ agent'.at = "committed" /\ agent'.entry = {p}
        /\ agent' \in [at : {"idle", "committed", "revealed"}, entry : SUBSET Nonces]
    BY <1>1, <1>4, <1>5
  <1>7. Commitments' = Commitments \cup {c} /\ log \subseteq log'
    <2>1. \A e \in Settlements(due) : e.kind # "commit"
      BY DEF Settlements, Entry
    <2> QED BY <1>5, <1>6, <2>1 DEF Commitments, settle_due
  <1>8. NonceType'
    <2>1. IsFiniteSet(Commitments')
      BY <1>t, <1>7, FS_AddElement DEF NonceType
    <2> QED BY <1>t, <1>2, <1>6, <2>1 DEF NonceType
  <1>9. \A e \in Commitments' : Safe(e)'
    <2>1. Safe(c)'
      BY <1>5, <1>6 DEF Safe, held
    <2>2. ASSUME NEW e \in Commitments PROVE Safe(e)'
      <3>1. Safe(e) /\ agent.at # "committed"
        BY <1>t DEF NonceInv
      <3> QED BY <1>2, <1>7, <3>1 DEF Safe
    <2> QED BY <1>7, <2>1, <2>2
  <1> QED BY <1>2, <1>6, <1>8, <1>9 DEF NonceInv

LEMMA RememberStep ==
    ASSUME NonceInv, up, Remember
    PROVE  NonceInv'
  <1>1. /\ pending' = pending \cup agent.entry
        /\ \/ saved' = pending \cup agent.entry /\ faults' = faults
           \/ saved' = saved /\ faults' = faults + 1 /\ faults < MaxFaults
        /\ agent.at = "committed" /\ agent' = Quiet /\ UNCHANGED <<up, log>>
        /\ excused' = IF faults' = faults THEN excused ELSE excused \cup nonces(agent.entry)
    BY DEF Remember, save
  <1>2. NonceType /\ agent.entry \subseteq Nonces
    BY DEF NonceInv, NonceType
  <1>3. /\ agent'.at = "idle" /\ agent'.entry = {}
        /\ agent' \in [at : {"idle", "committed", "revealed"}, entry : SUBSET Nonces]
    BY <1>1 DEF Quiet
  <1>4. Commitments' = Commitments
    BY <1>1 DEF Commitments
  <1>5. NonceType'
    BY <1>1, <1>2, <1>3, <1>4 DEF NonceType
  <1>6. ASSUME NEW e \in Commitments PROVE Safe(e)'
    <2>1. Safe(e)
      BY DEF NonceInv
    <2>2. excused \subseteq excused'
      BY <1>1
    <2>3. CASE Entry("claim", e.of, e.n) \in log \/ <<e.of, e.n>> \in excused
      BY <1>1, <2>2, <2>3 DEF Safe
    <2>4. CASE held(saved, e) /\ held(pending, e)
      <3>1. held(saved', e) /\ held(pending', e)
        BY <1>1, <2>4 DEF held
      <3> QED BY <3>1 DEF Safe, held
    <2>5. CASE held(agent.entry, e)
      <3>1. held(pending', e)
        BY <1>1, <2>5 DEF held
      <3>2. held(saved', e) \/ <<e.of, e.n>> \in excused'
        <4>1. <<e.of, e.n>> \in nonces(agent.entry)
          BY <2>5 DEF nonces, held
        <4>2. CASE saved' = pending \cup agent.entry
          BY <2>5, <4>2 DEF held
        <4>3. CASE saved' = saved /\ faults' = faults + 1 /\ faults' # faults
          BY <1>1, <4>1, <4>3
        <4>4. CASE saved' = saved /\ faults' = faults + 1 /\ faults' = faults
          BY <1>1, <2>1, <4>4
        <4> QED BY <1>1, <4>2, <4>3, <4>4
      <3> QED BY <3>1, <3>2 DEF Safe, held
    <2> QED BY <2>1, <2>3, <2>4, <2>5 DEF Safe
  <1> QED BY <1>1, <1>3, <1>4, <1>5, <1>6 DEF NonceInv

LEMMA RevealStep ==
    ASSUME NonceInv, up, NEW w \in Works, Reveal(w)
    PROVE  NonceInv'
  <1>1. PICK p \in open(w) :
            /\ log' = settle_due \cup (IF p.doomed THEN {} ELSE {Entry("claim", w, p.n)})
            /\ agent' = [at |-> "revealed", entry |-> {p}]
            /\ excused' = IF p.doomed THEN excused \cup nonces({p}) ELSE excused
    BY DEF Reveal, wrote
  <1>2. UNCHANGED <<up, pending, saved>> /\ agent.at = "idle"
    BY DEF Reveal
  <1>3. NonceType /\ p \in pending /\ p \in Nonces /\ p.of = w
    BY DEF NonceInv, NonceType, open
  <1>4. /\ agent'.at = "revealed" /\ agent'.entry = {p}
        /\ agent' \in [at : {"idle", "committed", "revealed"}, entry : SUBSET Nonces]
    BY <1>1, <1>3
  <1>5. /\ Commitments' = Commitments /\ log \subseteq log'
        /\ p.doomed \/ Entry("claim", p.of, p.n) \in log'
    <2> DEFINE X == Settlements(due) \cup (IF p.doomed THEN {} ELSE {Entry("claim", w, p.n)})
    <2>1. log' = log \cup X
      BY <1>1 DEF settle_due
    <2>2. \A e \in X : e.kind # "commit"
      BY DEF Settlements, Entry
    <2>3. p.doomed \/ Entry("claim", p.of, p.n) \in X
      BY <1>3
    <2> HIDE DEF X
    <2>4. log \subseteq log' /\ Commitments' = Commitments
      BY <2>1, <2>2, NoCommitment
    <2> QED BY <2>1, <2>3, <2>4
  <1>6. /\ excused \subseteq excused'
        /\ Entry("claim", p.of, p.n) \in log' \/ <<p.of, p.n>> \in excused'
    <2>1. <<p.of, p.n>> \in nonces({p})
      BY DEF nonces
    <2> QED BY <1>1, <1>5, <2>1
  <1>7. \A e \in Commitments : Safe(e)'
    BY <1>2, <1>5, <1>6 DEF NonceInv, Safe
  <1>8. NonceType'
    BY <1>2, <1>3, <1>4, <1>5 DEF NonceType
  <1> QED BY <1>2, <1>4, <1>5, <1>6, <1>7, <1>8 DEF NonceInv

LEMMA ForgetStep ==
    ASSUME NonceInv, up, Forget
    PROVE  NonceInv'
  <1>1. /\ agent.at = "revealed" /\ pending' = pending \ agent.entry
        /\ saved' = pending' \/ saved' = saved
        /\ agent' = Quiet /\ UNCHANGED <<up, log, excused>>
    BY DEF Forget, save
  <1>2. /\ NonceType
        /\ \A p \in agent.entry :
            Entry("claim", p.of, p.n) \in log \/ <<p.of, p.n>> \in excused
    BY <1>1 DEF NonceInv
  <1>3. /\ agent'.at = "idle" /\ agent'.entry = {}
        /\ agent' \in [at : {"idle", "committed", "revealed"}, entry : SUBSET Nonces]
    BY <1>1 DEF Quiet
  <1>4. Commitments' = Commitments
    BY <1>1 DEF Commitments
  <1>5. NonceType'
    BY <1>1, <1>2, <1>3, <1>4 DEF NonceType
  <1>6. ASSUME NEW e \in Commitments PROVE Safe(e)'
    <2>1. Safe(e) /\ agent.at # "committed"
      BY <1>1 DEF NonceInv
    <2>2. CASE Entry("claim", e.of, e.n) \in log \/ <<e.of, e.n>> \in excused
      BY <1>1, <2>2 DEF Safe
    <2>3. CASE held(saved, e) /\ held(pending, e) /\ held(agent.entry, e)
      BY <1>1, <1>2, <2>3 DEF Safe, held
    <2>4. CASE held(saved, e) /\ held(pending, e) /\ ~held(agent.entry, e)
      <3>1. held(pending', e)
        BY <1>1, <2>4 DEF held
      <3>2. held(saved', e)
        BY <1>1, <2>4, <3>1
      <3> QED BY <3>1, <3>2 DEF Safe, held
    <2> QED BY <2>1, <2>2, <2>3, <2>4 DEF Safe
  <1> QED BY <1>1, <1>3, <1>4, <1>5, <1>6 DEF NonceInv

LEMMA RipenedNonces ==
    ASSUME NEW S \in SUBSET Nonces
    PROVE  /\ ripened(S) \in SUBSET Nonces
           /\ \A q \in ripened(S) : \E p \in S :
                q.of = p.of /\ q.n = p.n /\ (q.doomed <=> p.doomed)
           /\ \A p \in S : \E q \in ripened(S) :
                q.of = p.of /\ q.n = p.n /\ (q.doomed <=> p.doomed)
  <1>1. \A p \in S : LET q == [p EXCEPT !.ripe = TRUE] IN
            q \in Nonces /\ q.of = p.of /\ q.n = p.n /\ (q.doomed <=> p.doomed)
    BY DEF Nonces
  <1>2. \A q \in ripened(S) : \E p \in S : q = [p EXCEPT !.ripe = TRUE]
    BY DEF ripened
  <1>3. \A p \in S : [p EXCEPT !.ripe = TRUE] \in ripened(S)
    BY DEF ripened
  <1>4. \A q \in ripened(S) : q \in Nonces /\ \E p \in S :
            q.of = p.of /\ q.n = p.n /\ (q.doomed <=> p.doomed)
    <2> TAKE q \in ripened(S)
    <2>1. PICK p \in S : q = [p EXCEPT !.ripe = TRUE]
      BY <1>2
    <2>2. q \in Nonces /\ q.of = p.of /\ q.n = p.n /\ (q.doomed <=> p.doomed)
      BY <1>1, <2>1, Zenon
    <2> QED BY <2>2
  <1>5. \A p \in S : \E q \in ripened(S) :
            q.of = p.of /\ q.n = p.n /\ (q.doomed <=> p.doomed)
    BY <1>1, <1>3, Zenon
  <1> QED BY <1>4, <1>5

LEMMA EpochTurnsStep ==
    ASSUME NonceInv, up, EpochTurns
    PROVE  NonceInv'
  <1>1. /\ pending' = ripened(pending) /\ saved' = ripened(saved)
        /\ agent' = [agent EXCEPT !.entry = ripened(@)]
        /\ UNCHANGED <<up, log, excused>>
    BY DEF EpochTurns
  <1>2. /\ NonceType /\ agent.entry \in SUBSET Nonces
        /\ pending \in SUBSET Nonces /\ saved \in SUBSET Nonces
        /\ agent \in [at : {"idle", "committed", "revealed"}, entry : SUBSET Nonces]
    BY DEF NonceInv, NonceType
  <1>3. /\ agent'.at = agent.at /\ agent'.entry = ripened(agent.entry)
        /\ agent' \in [at : {"idle", "committed", "revealed"}, entry : SUBSET Nonces]
    BY <1>1, <1>2, RipenedNonces
  <1>4. Commitments' = Commitments
    BY <1>1 DEF Commitments
  <1>5. NonceType'
    <2>1. pending' \in SUBSET Nonces /\ saved' \in SUBSET Nonces
      BY <1>1, <1>2, RipenedNonces
    <2> QED BY <1>1, <1>2, <1>3, <1>4, <2>1 DEF NonceType
  <1>6. \A S \in SUBSET Nonces : \A e : held(S, e) => held(ripened(S), e)
    <2> SUFFICES ASSUME NEW S \in SUBSET Nonces, NEW e, held(S, e)
                 PROVE  held(ripened(S), e)
      OBVIOUS
    <2>1. PICK p \in S : p.of = e.of /\ p.n = e.n
      BY DEF held
    <2>2. PICK q \in ripened(S) : q.of = p.of /\ q.n = p.n
      BY RipenedNonces
    <2> QED BY <2>1, <2>2 DEF held
  <1>7. ASSUME NEW e \in Commitments PROVE Safe(e)'
    <2>1. Safe(e)
      BY DEF NonceInv
    <2>2. /\ held(agent.entry, e) => held(agent'.entry, e)
          /\ held(saved, e) => held(saved', e)
          /\ held(pending, e) => held(pending', e)
      BY <1>1, <1>2, <1>3, <1>6
    <2> QED BY <1>1, <1>3, <2>1, <2>2 DEF Safe, held
  <1>8. agent.at = "idle" => agent'.entry = {}
    BY <1>3 DEF NonceInv, ripened
  <1>9. agent.at = "revealed" => \A q \in agent'.entry :
            Entry("claim", q.of, q.n) \in log \/ <<q.of, q.n>> \in excused
    <2> SUFFICES ASSUME agent.at = "revealed", NEW q \in agent'.entry
                 PROVE  Entry("claim", q.of, q.n) \in log \/ <<q.of, q.n>> \in excused
      OBVIOUS
    <2>1. PICK p \in agent.entry : q.of = p.of /\ q.n = p.n
      BY <1>2, <1>3, RipenedNonces
    <2> QED BY <2>1 DEF NonceInv
  <1> QED BY <1>1, <1>3, <1>4, <1>5, <1>7, <1>8, <1>9 DEF NonceInv

LEMMA CrashStep ==
    ASSUME NonceInv, Crash
    PROVE  NonceInv'
  <1>1. /\ up /\ up' = FALSE /\ agent' = Quiet /\ pending' = {}
        /\ excused' = IF agent.at = "committed" THEN excused \cup nonces(agent.entry)
                      ELSE excused
        /\ UNCHANGED <<log, saved>>
    BY DEF Crash, disk
  <1>2. NonceType
    BY DEF NonceInv
  <1>3. /\ agent'.at = "idle" /\ agent'.entry = {}
        /\ agent' \in [at : {"idle", "committed", "revealed"}, entry : SUBSET Nonces]
    BY <1>1 DEF Quiet
  <1>4. Commitments' = Commitments
    BY <1>1 DEF Commitments
  <1>5. NonceType'
    <2>1. up' \in BOOLEAN /\ pending' \in SUBSET Nonces
      BY <1>1, Zenon
    <2> QED BY <1>1, <1>2, <1>3, <1>4, <2>1 DEF NonceType
  <1>6. ASSUME NEW e \in Commitments PROVE Safe(e)'
    <2>1. Safe(e)
      BY DEF NonceInv
    <2>2. CASE agent.at = "committed" /\ held(agent.entry, e)
      <3>1. <<e.of, e.n>> \in nonces(agent.entry)
        BY <2>2 DEF nonces, held
      <3> QED BY <1>1, <2>2, <3>1 DEF Safe
    <2>3. CASE ~(agent.at = "committed" /\ held(agent.entry, e))
      <3>1. held(saved, e) => held(saved', e)
        BY <1>1
      <3> QED BY <1>1, <2>1, <2>3, <3>1 DEF Safe, held
    <2> QED BY <2>2, <2>3
  <1> QED BY <1>1, <1>3, <1>4, <1>5, <1>6 DEF NonceInv

LEMMA StartStep ==
    ASSUME NonceInv, Start
    PROVE  NonceInv'
  <1>1. /\ ~up /\ up' = TRUE /\ UNCHANGED <<log, saved, agent>>
        /\ \/ pending' = saved /\ excused' = excused
           \/ pending' = {} /\ excused' = excused \cup nonces(saved)
    BY DEF Start
  <1>2. NonceType /\ agent.at = "idle" /\ agent.entry = {}
    BY <1>1 DEF NonceInv
  <1>3. Commitments' = Commitments
    BY <1>1 DEF Commitments
  <1>4. NonceType'
    <2>1. up' \in BOOLEAN /\ pending' \in SUBSET Nonces
      BY <1>1, <1>2 DEF NonceType
    <2> QED BY <1>1, <1>2, <1>3, <2>1 DEF NonceType
  <1>5. ASSUME NEW e \in Commitments PROVE Safe(e)'
    <2>1. Safe(e)
      BY DEF NonceInv
    <2>2. CASE Entry("claim", e.of, e.n) \in log \/ <<e.of, e.n>> \in excused
      BY <1>1, <2>2 DEF Safe
    <2>3. CASE held(saved, e)
      <3>1. <<e.of, e.n>> \in nonces(saved)
        BY <2>3 DEF nonces, held
      <3>2. held(pending', e) \/ <<e.of, e.n>> \in excused'
        BY <1>1, <2>3, <3>1
      <3> QED BY <1>1, <2>3, <3>2 DEF Safe, held
    <2> QED BY <1>2, <2>1, <2>2, <2>3 DEF Safe
  <1> QED BY <1>1, <1>2, <1>3, <1>4, <1>5 DEF NonceInv

\* In every reachable state each commitment is opened, or its nonce is on its way
\* to disk, or on disk and in the running process's memory, or an I/O error, a
\* crash or a final refusal about that very nonce excuses it (mcp.rs
\* submit_claim, PendingStore::load, PendingStore::save).
THEOREM NonceInvariant == Spec => []NonceInv
  <1>1. Init => NonceInv
    <2> SUFFICES ASSUME Init PROVE NonceInv
      OBVIOUS
    <2>1. /\ up = TRUE /\ agent = Quiet
          /\ pending = {} /\ saved = {} /\ log = {}
      BY DEF Init
    <2>2. Commitments = {}
      BY <2>1 DEF Commitments
    <2>3. IsFiniteSet({})
      BY FS_EmptySet
    <2>4. agent.at = "idle" /\ agent.entry = {}
      BY <2>1 DEF Quiet
    <2>5. agent \in [at : {"idle", "committed", "revealed"}, entry : SUBSET Nonces]
      BY <2>1 DEF Quiet
    <2> QED BY <2>1, <2>2, <2>3, <2>4, <2>5 DEF NonceInv, NonceType
  <1>2. NonceInv /\ [Next]_vars => NonceInv'
    <2> SUFFICES ASSUME NonceInv, [Next]_vars PROVE NonceInv'
      OBVIOUS
    <2>1. CASE \/ TickThread \/ Connect \/ AcceptThread
               \/ \E h \in Handlers : (\E s \in Subs : Offer(h, s)) \/ HandlerStep(h)
               \/ \E e \in Epochs : ComesDue(e)
      BY <2>1, OtherThreads, NoncesElsewhere
    <2>2. ASSUME NEW w \in Works, up, AgentThread(w) PROVE NonceInv'
      BY <2>2, CommitStep, RevealStep, RememberStep, ForgetStep DEF AgentThread
    <2>3. CASE up /\ EpochTurns
      BY <2>3, EpochTurnsStep
    <2>4. CASE Crash \/ Start
      BY <2>4, CrashStep, StartStep
    <2>5. CASE UNCHANGED vars
      <3>1. UNCHANGED <<up, agent, pending, saved, excused, log>>
        BY <2>5 DEF vars, disk
      <3>2. log \subseteq log' /\ Commitments' = Commitments
        BY <3>1 DEF Commitments
      <3> QED BY <3>1, <3>2, NoncesElsewhere
    <2> QED BY <2>1, <2>2, <2>3, <2>4, <2>5 DEF Next
  <1> QED BY <1>1, <1>2, PTL DEF Spec

\* A nonce is lost only to a crash before its write, a write or a read of the
\* pending file that failed, or a final refusal, and only the nonces each of them
\* was about, for any number of artifacts, crashes and faults (mcp.rs
\* submit_claim, PendingStore).
THEOREM NoncesAreKept == Spec => []NoncesSurvive
  <1>1. NonceInv => NoncesSurvive
    <2> SUFFICES ASSUME NonceInv, NEW e \in Stranded PROVE <<e.of, e.n>> \in excused
      BY DEF NoncesSurvive
    <2>1. /\ e \in Commitments /\ Entry("claim", e.of, e.n) \notin log
          /\ ~held(saved, e) /\ ~held(agent.entry, e)
      BY DEF Stranded, held
    <2> QED BY <2>1 DEF NonceInv, Safe
  <1> QED BY <1>1, NonceInvariant, PTL
-----------------------------------------------------------------------------
(* The threads and the spool.                                                *)

\* The threads that take the lock touch no spool file but in Take.
LEMMA ThreadStep ==
    ASSUME ShapeOK, MutexOK, DaemonAssumption,
           Drain \/ Take \/ Seed \/ Seeded \/ Dial \/ Dialled \/ Rest \/ Wake
    PROVE  /\ lock' \in {"free", "tick", "accept"} /\ tick' \in Ticks
           /\ dirty' \in BOOLEAN /\ signed' \subseteq log' /\ MutexOK'
           /\ accept' = accept
  <1>t. /\ tick \in Ticks /\ tick.dials \in Dials /\ dirty \in BOOLEAN
        /\ signed \subseteq log /\ lock \in {"free", "tick", "accept"}
        /\ Fanout \in Nat
    BY DEF ShapeOK, Ticks, DaemonAssumption
  <1>s. Started \in Ticks /\ Started.at = "drain"
        /\ [Started EXCEPT !.at = "seed"] \in Ticks
        /\ [Started EXCEPT !.at = "seed"].at = "seed"
    <2>1. 0 \in Dials
      BY <1>t DEF Dials
    <2> QED BY <2>1 DEF Started, Ticks, Places
  <1>1. CASE Drain
    <2> DEFINE batch == {s \in Subs : file[s] = "whole"}
    <2>1. /\ tick' = [tick EXCEPT !.at = "take", !.batch = batch, !.changed = dirty]
          /\ lock = "free" /\ lock' = "tick" /\ dirty' = FALSE /\ accept' = accept
          /\ signed' = signed /\ log \subseteq log'
      BY <1>1 DEF Drain
    <2>2. batch \subseteq Subs
      OBVIOUS
    <2> HIDE DEF batch
    <2>3. tick' \in Ticks /\ tick'.at = "take"
      BY <1>t, <2>1, <2>2 DEF Ticks, Places
    <2> QED BY <1>t, <2>1, <2>3 DEF MutexOK
  <1>2. CASE Take
    <2>1. /\ tick.at = "take" /\ tick' = [Started EXCEPT !.at = "seed"]
          /\ lock' = "free" /\ dirty' = dirty /\ accept' = accept
          /\ log \subseteq log' /\ (signed' = log' \/ signed' = signed)
      BY <1>2 DEF Take, persist, settle_due
    <2> QED BY <1>t, <1>s, <2>1 DEF MutexOK
  <1>3. CASE Seed \/ Seeded \/ Dial \/ Rest
    <2>1. /\ dirty' = dirty /\ accept' = accept /\ signed' = signed /\ log' = log
      BY <1>3 DEF Seed, Seeded, Dial, Rest, disk
    <2>2. CASE Seed
      BY <1>t, <2>1, <2>2 DEF Seed, MutexOK, Ticks, Places
    <2>3. CASE Seeded
      BY <1>t, <2>1, <2>3 DEF Seeded, MutexOK, Ticks, Places
    <2>4. CASE Rest
      BY <1>t, <2>1, <2>4 DEF Rest, MutexOK, Ticks, Places
    <2>5. CASE Dial
      <3>1. tick.dials + 1 \in Dials
        BY <1>t, <2>5 DEF Dial, Dials
      <3>2. PICK d \in Dials : tick' = [tick EXCEPT !.at = "calling", !.dials = d]
        BY <2>5, <3>1 DEF Dial
      <3> QED BY <1>t, <2>1, <2>5, <3>2 DEF Dial, MutexOK, Ticks, Places
    <2> QED BY <1>3, <2>2, <2>3, <2>4, <2>5
  <1>4. CASE Dialled
    <2>1. /\ tick.at = "calling" /\ tick' = [tick EXCEPT !.at = "dial"]
          /\ lock' = "free" /\ dirty' = dirty /\ accept' = accept
          /\ log \subseteq log' /\ (signed' = log' \/ signed' = signed)
      BY <1>4 DEF Dialled, SessionEnds, settle_due
    <2>2. tick' \in Ticks /\ tick'.at = "dial"
      BY <1>t, <2>1 DEF Ticks, Places
    <2> QED BY <1>t, <2>1, <2>2 DEF MutexOK
  <1>5. CASE Wake
    <2>1. /\ tick.at = "sleep" /\ tick' = Started /\ lock' = lock /\ dirty' = dirty
          /\ accept' = accept /\ signed' = signed /\ log' = log
      BY <1>5 DEF Wake, disk
    <2> QED BY <1>t, <1>s, <2>1 DEF MutexOK
  <1> QED BY <1>1, <1>2, <1>3, <1>4, <1>5

\* Fewer files and handlers, or one file for one handler.
traded(Q, A, R, B) ==
    \/ R \subseteq Q /\ B \subseteq A
    \/ \E s, h : R \subseteq Q \cup {s} /\ h \in A /\ B \subseteq A \ {h}

LEMMA SpoolCount ==
    ASSUME NEW Q, NEW A, IsFiniteSet(Q), IsFiniteSet(A), NEW k \in Int,
           Cardinality(Q) + Cardinality(A) <= k, NEW R, NEW B,
           traded(Q, A, R, B)
    PROVE  IsFiniteSet(R) /\ Cardinality(R) + Cardinality(B) <= k
  <1>t. Cardinality(Q) \in Nat /\ Cardinality(A) \in Nat
    BY FS_CardinalityType
  <1>1. CASE R \subseteq Q /\ B \subseteq A
    <2>1. /\ IsFiniteSet(R) /\ IsFiniteSet(B) /\ Cardinality(R) <= Cardinality(Q)
          /\ Cardinality(B) <= Cardinality(A)
      BY <1>1, FS_Subset
    <2>2. Cardinality(R) \in Nat /\ Cardinality(B) \in Nat
      BY <2>1, FS_CardinalityType
    <2> QED BY <1>t, <2>1, <2>2
  <1>2. CASE \E s, h : R \subseteq Q \cup {s} /\ h \in A /\ B \subseteq A \ {h}
    <2>1. PICK s, h : R \subseteq Q \cup {s} /\ h \in A /\ B \subseteq A \ {h}
      BY <1>2
    <2>2. /\ IsFiniteSet(Q \cup {s}) /\ Cardinality(Q \cup {s}) <= Cardinality(Q) + 1
          /\ Cardinality(Q \cup {s}) \in Nat
      <3>1. /\ IsFiniteSet(Q \cup {s})
            /\ Cardinality(Q \cup {s}) =
                    IF s \in Q THEN Cardinality(Q) ELSE Cardinality(Q) + 1
        BY FS_AddElement
      <3> QED BY <1>t, <3>1
    <2>3. /\ IsFiniteSet(A \ {h}) /\ Cardinality(A \ {h}) = Cardinality(A) - 1
      BY <2>1, FS_RemoveElement
    <2>4. /\ IsFiniteSet(R) /\ IsFiniteSet(B)
          /\ Cardinality(R) <= Cardinality(Q \cup {s})
          /\ Cardinality(B) <= Cardinality(A \ {h})
      BY <2>1, <2>2, <2>3, FS_Subset
    <2>5. Cardinality(R) \in Nat /\ Cardinality(B) \in Nat
      BY <2>4, FS_CardinalityType
    <2> QED BY <1>t, <2>2, <2>3, <2>4, <2>5
  <1> QED BY <1>1, <1>2 DEF traded

\* The first conjunct of SpoolOK, of a handler c over the files f.
fileOpen(c, f) ==
    /\ c.at # "idle" => \E s \in Subs : c.sub = {s}
    /\ c.at = "open" /\ c.on = "path" => \A s \in c.sub : f[s] # "none"

\* A step keeps SpoolOK if it keeps the two numbers and every handler's file.
LEMMA SpoolStep ==
    ASSUME SpoolOK, DaemonAssumption,
           \A h \in Handlers : fileOpen(http'[h], file'),
           traded(queued, Admitted, queued', Admitted')
    PROVE  SpoolOK'
  <1>1. IsFiniteSet(Handlers) /\ MaxQueued \in Nat /\ Cardinality(Handlers) \in Nat
    BY FS_CardinalityType DEF DaemonAssumption
  <1>2. IsFiniteSet(Admitted)
    BY <1>1, FS_Subset DEF Admitted
  <1>3. PICK k \in Int : k = MaxQueued + Cardinality(Handlers) - 1
    BY <1>1
  <1>4. /\ IsFiniteSet(queued) /\ Cardinality(queued) + Cardinality(Admitted) <= k
    BY <1>3 DEF SpoolOK
  <1>5. IsFiniteSet(queued') /\ Cardinality(queued') + Cardinality(Admitted') <= k
    BY <1>2, <1>4, SpoolCount
  <1> QED BY <1>3, <1>5 DEF SpoolOK, fileOpen

LEMMA HandlerFields ==
    ASSUME ShapeOK, SpoolOK, NEW h \in Handlers
    PROVE  /\ http[h] \in Calls /\ http[h].at \in Stages
           /\ http[h].sub \in SUBSET Subs /\ http[h].on \in Ends
           /\ fileOpen(http[h], file)
  <1>1. http[h] \in Calls
    BY DEF ShapeOK
  <1> QED BY <1>1 DEF Calls, SpoolOK, fileOpen

\* A handler that is in its offer has one submission.
LEMMA OneSub ==
    ASSUME ShapeOK, SpoolOK, NEW h \in Handlers, http[h].at # "idle"
    PROVE  \E s \in Subs : http[h].sub = {s}
  BY DEF SpoolOK

LEMMA OfferStep ==
    ASSUME ShapeOK, SpoolOK, DaemonAssumption, NEW h \in Handlers, NEW s \in Subs,
           Offer(h, s)
    PROVE  http' \in [Handlers -> Calls] /\ UNCHANGED <<file, tmp>> /\ SpoolOK'
  <1>t. http \in [Handlers -> Calls] /\ http[h].at = "idle"
    BY DEF ShapeOK, Offer
  <1>1. UNCHANGED <<file, tmp>> /\ queued' = queued
    BY DEF Offer, disk, queued
  <1>2. CASE http' = http
    <2>1. \A g \in Handlers : fileOpen(http'[g], file')
      BY <1>1, <1>2, HandlerFields
    <2>2. traded(queued, Admitted, queued', Admitted')
      BY <1>1, <1>2 DEF traded, Admitted
    <2> QED BY <1>t, <1>1, <1>2, <2>1, <2>2, SpoolStep
  <1>3. CASE http' # http
    <2> DEFINE c == [Resting EXCEPT !.at = "new", !.sub = {s}]
    <2>1. http' = [http EXCEPT ![h] = c]
      BY <1>3 DEF Offer
    <2>2. c \in Calls /\ c.at = "new" /\ c.sub = {s}
      BY DEF Resting, Calls, Stages, Ends
    <2> HIDE DEF c
    <2>3. /\ http' \in [Handlers -> Calls] /\ http'[h] = c
          /\ \A g \in Handlers : g # h => http'[g] = http[g]
      BY <1>t, <2>1, <2>2
    <2>4. fileOpen(c, file')
      BY <2>2 DEF fileOpen
    <2>5. \A g \in Handlers : fileOpen(http'[g], file')
      BY <1>1, <2>3, <2>4, HandlerFields
    <2>6. traded(queued, Admitted, queued', Admitted')
      BY <1>1, <2>2, <2>3 DEF traded, Admitted
    <2> QED BY <1>1, <2>3, <2>5, <2>6, SpoolStep
  <1> QED BY <1>2, <1>3

LEMMA CountStep ==
    ASSUME ShapeOK, SpoolOK, DaemonAssumption, NEW h \in Handlers, Count(h)
    PROVE  http' \in [Handlers -> Calls] /\ UNCHANGED <<file, tmp>> /\ SpoolOK'
  <1>t. /\ http \in [Handlers -> Calls] /\ http[h].at = "new" /\ http[h] \in Calls
        /\ IsFiniteSet(Handlers) /\ MaxQueued \in Nat
        /\ Cardinality(Handlers) \in Nat
    BY FS_CardinalityType DEF ShapeOK, Count, DaemonAssumption
  <1>1. UNCHANGED <<file, tmp>> /\ queued' = queued
    BY DEF Count, disk, queued
  <1>2. CASE Cardinality(queued) >= MaxQueued
    <2>1. http' = [http EXCEPT ![h] = Resting]
      BY <1>2 DEF Count
    <2>2. Resting \in Calls /\ Resting.at = "idle"
      BY DEF Resting, Calls, Stages, Ends
    <2>3. /\ http' \in [Handlers -> Calls] /\ http'[h] = Resting
          /\ \A g \in Handlers : g # h => http'[g] = http[g]
      BY <1>t, <2>1, <2>2
    <2>4. fileOpen(Resting, file')
      BY <2>2 DEF fileOpen
    <2>5. \A g \in Handlers : fileOpen(http'[g], file')
      BY <1>1, <2>3, <2>4, HandlerFields
    <2>6. traded(queued, Admitted, queued', Admitted')
      BY <1>1, <2>2, <2>3 DEF traded, Admitted
    <2> QED BY <1>1, <2>3, <2>5, <2>6, SpoolStep
  <1>3. CASE ~(Cardinality(queued) >= MaxQueued)
    <2> DEFINE c == [http[h] EXCEPT !.at = "room"]
    <2>1. http' = [http EXCEPT ![h] = c]
      BY <1>3 DEF Count
    <2>2. c \in Calls /\ c.at = "room" /\ c.sub = http[h].sub
      BY <1>t DEF Calls, Stages
    <2> HIDE DEF c
    <2>3. /\ http' \in [Handlers -> Calls] /\ http'[h] = c
          /\ \A g \in Handlers : g # h => http'[g] = http[g]
      BY <1>t, <2>1, <2>2
    <2>4. fileOpen(c, file')
      BY <1>t, <2>2, OneSub DEF fileOpen
    <2>5. \A g \in Handlers : fileOpen(http'[g], file')
      BY <1>1, <2>3, <2>4, HandlerFields
    <2>6. IsFiniteSet(queued') /\ Cardinality(queued') = Cardinality(queued)
          /\ Cardinality(queued) \in Nat
      BY <1>1, FS_CardinalityType DEF SpoolOK
    <2>7. Cardinality(Admitted') <= Cardinality(Handlers) /\ Cardinality(Admitted') \in Nat
      <3>1. Admitted' \subseteq Handlers
        BY DEF Admitted
      <3> QED BY <1>t, <3>1, FS_Subset, FS_CardinalityType
    <2>8. Cardinality(queued') + Cardinality(Admitted')
                <= MaxQueued + Cardinality(Handlers) - 1
      BY <1>t, <1>3, <2>6, <2>7
    <2> QED BY <1>1, <2>3, <2>5, <2>6, <2>8 DEF SpoolOK, fileOpen
  <1> QED BY <1>2, <1>3

LEMMA TruncateStep ==
    ASSUME ShapeOK, SpoolOK, DaemonAssumption, NEW h \in Handlers, Truncate(h)
    PROVE  http' \in [Handlers -> Calls] /\ file' = file /\ tmp' \in [Subs -> Marks]
           /\ SpoolOK'
  <1> DEFINE c == [http[h] EXCEPT !.at = "open", !.on = "tmp"]
  <1>t. /\ http \in [Handlers -> Calls] /\ http[h].at = "room" /\ http[h] \in Calls
        /\ tmp \in [Subs -> Marks]
    BY DEF ShapeOK, Truncate
  <1>1. file' = file /\ queued' = queued /\ http' = [http EXCEPT ![h] = c]
    BY DEF Truncate, queued
  <1>2. tmp' \in [Subs -> Marks]
    BY <1>t DEF Truncate, Marks
  <1>3. c \in Calls /\ c.at = "open" /\ c.on = "tmp" /\ c.sub = http[h].sub
    BY <1>t DEF Calls, Stages, Ends
  <1> HIDE DEF c
  <1>4. /\ http' \in [Handlers -> Calls] /\ http'[h] = c
        /\ \A g \in Handlers : g # h => http'[g] = http[g]
    BY <1>t, <1>1, <1>3
  <1>5. fileOpen(c, file')
    BY <1>t, <1>3, OneSub DEF fileOpen
  <1>6. \A g \in Handlers : fileOpen(http'[g], file')
    BY <1>1, <1>4, <1>5, HandlerFields
  <1>7. traded(queued, Admitted, queued', Admitted')
    BY <1>t, <1>1, <1>3, <1>4 DEF traded, Admitted
  <1> QED BY <1>1, <1>2, <1>4, <1>6, <1>7, SpoolStep

LEMMA WriteStep ==
    ASSUME ShapeOK, SpoolOK, DaemonAssumption, NEW h \in Handlers, Write(h)
    PROVE  http' \in [Handlers -> Calls] /\ file' \in [Subs -> Marks]
           /\ tmp' \in [Subs -> Marks] /\ SpoolOK'
  <1> DEFINE c == [http[h] EXCEPT !.at = "full"]
  <1>t. /\ http \in [Handlers -> Calls] /\ http[h].at = "open" /\ http[h] \in Calls
        /\ tmp \in [Subs -> Marks] /\ file \in [Subs -> Marks]
        /\ fileOpen(http[h], file)
    BY HandlerFields DEF ShapeOK, Write
  <1>1. PICK s \in http[h].sub :
            /\ tmp' = IF http[h].on = "tmp" THEN [tmp EXCEPT ![s] = "whole"] ELSE tmp
            /\ file' = IF http[h].on = "path" THEN [file EXCEPT ![s] = "whole"] ELSE file
    BY DEF Write
  <1>2. http' = [http EXCEPT ![h] = c]
    BY DEF Write
  <1>3. s \in Subs /\ (http[h].on = "path" => file[s] # "none")
    BY <1>t DEF Calls, fileOpen
  <1>4. tmp' \in [Subs -> Marks] /\ file' \in [Subs -> Marks]
    BY <1>t, <1>1 DEF Marks
  <1>5. \A x \in Subs : file'[x] # "none" <=> file[x] # "none"
    BY <1>t, <1>1, <1>3
  <1>6. queued' = queued
    BY <1>5 DEF queued
  <1>7. c \in Calls /\ c.at = "full" /\ c.sub = http[h].sub
    BY <1>t DEF Calls, Stages
  <1> HIDE DEF c
  <1>8. /\ http' \in [Handlers -> Calls] /\ http'[h] = c
        /\ \A g \in Handlers : g # h => http'[g] = http[g]
    BY <1>t, <1>2, <1>7
  <1>9. fileOpen(c, file')
    BY <1>t, <1>7, OneSub DEF fileOpen
  <1>10. \A g \in Handlers : g # h => fileOpen(http[g], file')
    <2> SUFFICES ASSUME NEW g \in Handlers PROVE fileOpen(http[g], file')
      OBVIOUS
    <2>1. fileOpen(http[g], file) /\ http[g].sub \subseteq Subs
      BY HandlerFields
    <2> QED BY <1>5, <2>1 DEF fileOpen
  <1>11. \A g \in Handlers : fileOpen(http'[g], file')
    BY <1>8, <1>9, <1>10
  <1>12. traded(queued, Admitted, queued', Admitted')
    BY <1>t, <1>6, <1>7, <1>8 DEF traded, Admitted
  <1> QED BY <1>4, <1>8, <1>11, <1>12, SpoolStep

LEMMA RenameStep ==
    ASSUME ShapeOK, SpoolOK, DaemonAssumption, NEW h \in Handlers, Rename(h)
    PROVE  http' \in [Handlers -> Calls] /\ file' \in [Subs -> Marks]
           /\ tmp' \in [Subs -> Marks] /\ SpoolOK'
  <1>t. /\ http \in [Handlers -> Calls] /\ http[h].at = "full" /\ http[h] \in Calls
        /\ tmp \in [Subs -> Marks] /\ file \in [Subs -> Marks] /\ h \in Admitted
    BY DEF ShapeOK, Rename, Admitted
  <1>r. Resting \in Calls /\ Resting.at = "idle" /\ fileOpen(Resting, file')
    BY DEF Resting, Calls, Stages, Ends, fileOpen
  <1>1. PICK s \in http[h].sub :
        \/ /\ http' = [http EXCEPT ![h] = Resting]
           /\ UNCHANGED <<file, tmp>>
        \/ /\ tmp[s] # "none"
           /\ file' = [file EXCEPT ![s] = tmp[s]]
           /\ tmp' = [tmp EXCEPT ![s] = "none"]
           /\ http' = [g \in Handlers |->
                    IF g = h THEN Resting
                    ELSE IF http[g].at = "open" /\ s \in http[g].sub
                    THEN [http[g] EXCEPT !.on = renamed(s, @)] ELSE http[g]]
    BY DEF Rename
  <1>s. s \in Subs
    BY <1>t DEF Calls
  <1>2. CASE http' = [http EXCEPT ![h] = Resting] /\ UNCHANGED <<file, tmp>>
    <2>1. /\ http' \in [Handlers -> Calls] /\ http'[h] = Resting
          /\ \A g \in Handlers : g # h => http'[g] = http[g]
      BY <1>t, <1>r, <1>2
    <2>2. \A g \in Handlers : fileOpen(http'[g], file')
      BY <1>r, <1>2, <2>1, HandlerFields
    <2>3. queued' = queued
      BY <1>2 DEF queued
    <2>4. traded(queued, Admitted, queued', Admitted')
      BY <1>r, <2>1, <2>3 DEF traded, Admitted
    <2> QED BY <1>t, <1>2, <2>1, <2>2, <2>4, SpoolStep
  <1>3. CASE /\ tmp[s] # "none"
             /\ file' = [file EXCEPT ![s] = tmp[s]]
             /\ tmp' = [tmp EXCEPT ![s] = "none"]
             /\ http' = [g \in Handlers |->
                    IF g = h THEN Resting
                    ELSE IF http[g].at = "open" /\ s \in http[g].sub
                    THEN [http[g] EXCEPT !.on = renamed(s, @)] ELSE http[g]]
    <2>1. /\ file' \in [Subs -> Marks] /\ tmp' \in [Subs -> Marks]
          /\ file'[s] # "none" /\ \A x \in Subs : x # s => file'[x] = file[x]
      BY <1>t, <1>s, <1>3 DEF Marks
    <2>2. ASSUME NEW g \in Handlers, g # h
          PROVE  /\ http'[g] \in Calls /\ http'[g].at = http[g].at
                 /\ fileOpen(http'[g], file')
      <3>1. http[g] \in Calls /\ fileOpen(http[g], file) /\ http[g].sub \subseteq Subs
        BY HandlerFields
      <3>2. CASE http[g].at = "open" /\ s \in http[g].sub
        <4>1. PICK o \in Ends : o = renamed(s, http[g].on)
          BY DEF renamed, Ends
        <4>2. http'[g] = [http[g] EXCEPT !.on = o]
          BY <1>3, <2>2, <3>2, <4>1
        <4>3. http'[g] \in Calls /\ http'[g].at = http[g].at /\ http'[g].sub = http[g].sub
          BY <3>1, <4>2 DEF Calls
        <4>4. PICK x \in Subs : http[g].sub = {x}
          BY <3>1, <3>2 DEF fileOpen
        <4>5. x = s
          BY <3>2, <4>4
        <4> QED BY <2>1, <4>3, <4>4, <4>5 DEF fileOpen
      <3>3. CASE ~(http[g].at = "open" /\ s \in http[g].sub)
        <4>1. http'[g] = http[g]
          BY <1>3, <2>2, <3>3
        <4>2. fileOpen(http[g], file')
          BY <2>1, <3>1, <3>3 DEF fileOpen
        <4> QED BY <3>1, <4>1, <4>2
      <3> QED BY <3>2, <3>3
    <2>3. http'[h] = Resting
      BY <1>3
    <2>4. http' \in [Handlers -> Calls]
      <3>1. \A g \in Handlers : http'[g] \in Calls
        BY <1>r, <2>2, <2>3
      <3>2. http' = [g \in Handlers |-> http'[g]]
        BY <1>3
      <3> QED BY <3>1, <3>2
    <2>5. \A g \in Handlers : fileOpen(http'[g], file')
      BY <1>r, <2>2, <2>3
    <2>6. queued' \subseteq queued \cup {s}
      BY <2>1 DEF queued
    <2>7. Admitted' \subseteq Admitted \ {h}
      BY <1>r, <2>2, <2>3 DEF Admitted
    <2>8. traded(queued, Admitted, queued', Admitted')
      BY <1>t, <2>6, <2>7 DEF traded
    <2> QED BY <2>1, <2>4, <2>5, <2>8, SpoolStep
  <1> QED BY <1>1, <1>2, <1>3

LEMMA TakeStep ==
    ASSUME ShapeOK, SpoolOK, DaemonAssumption, Take
    PROVE  http' \in [Handlers -> Calls] /\ file' \in [Subs -> Marks] /\ SpoolOK'
  <1>0. PICK gone : removed(gone)
    BY DEF Take
  <1>1. /\ file' = [s \in Subs |-> IF s \in gone THEN "none" ELSE file[s]]
        /\ http' = [h \in Handlers |->
                IF http[h].at = "open" /\ http[h].sub \subseteq gone
                THEN [http[h] EXCEPT !.on = unlinked(@)] ELSE http[h]]
    BY <1>0 DEF removed
  <1>2. file \in [Subs -> Marks] /\ http \in [Handlers -> Calls]
    BY DEF ShapeOK
  <1>3. file' \in [Subs -> Marks] /\ queued' \subseteq queued
    BY <1>1, <1>2 DEF Marks, queued
  <1>4. ASSUME NEW g \in Handlers
        PROVE  /\ http'[g] \in Calls /\ http'[g].at = http[g].at
               /\ fileOpen(http'[g], file')
    <2>1. /\ http[g] \in Calls /\ fileOpen(http[g], file) /\ http[g].sub \subseteq Subs
          /\ http[g].on \in Ends
      BY HandlerFields DEF ShapeOK
    <2>2. CASE http[g].at = "open" /\ http[g].sub \subseteq gone
      <3>1. PICK o \in Ends : o = unlinked(http[g].on) /\ o # "path"
        BY <2>1 DEF unlinked, Ends
      <3>2. http'[g] = [http[g] EXCEPT !.on = o]
        BY <1>1, <2>2, <3>1
      <3>3. /\ http'[g] \in Calls /\ http'[g].at = http[g].at
            /\ http'[g].sub = http[g].sub /\ http'[g].on = o
        BY <2>1, <3>2 DEF Calls
      <3> QED BY <2>1, <3>1, <3>3 DEF fileOpen
    <2>3. CASE ~(http[g].at = "open" /\ http[g].sub \subseteq gone)
      <3>1. http'[g] = http[g]
        BY <1>1, <2>3
      <3>2. fileOpen(http[g], file')
        <4> SUFFICES ASSUME http[g].at = "open", http[g].on = "path", NEW s \in http[g].sub
                     PROVE  file'[s] # "none"
          BY <2>1 DEF fileOpen
        <4>1. PICK x \in Subs : http[g].sub = {x}
          BY <2>1 DEF fileOpen
        <4>2. s \in Subs /\ s \notin gone /\ file[s] # "none"
          BY <2>1, <2>3, <4>1 DEF fileOpen
        <4> QED BY <1>1, <4>2
      <3> QED BY <2>1, <3>1, <3>2
    <2> QED BY <2>2, <2>3
  <1>5. http' \in [Handlers -> Calls]
    <2>1. http' = [g \in Handlers |-> http'[g]]
      BY <1>1
    <2> QED BY <1>4, <2>1
  <1>6. traded(queued, Admitted, queued', Admitted')
    BY <1>3, <1>4 DEF traded, Admitted
  <1> QED BY <1>3, <1>4, <1>5, <1>6, SpoolStep

\* A step that leaves the spool and its handlers alone.
LEMMA SpoolElsewhere ==
    ASSUME ShapeOK, SpoolOK, UNCHANGED <<file, tmp, http>>
    PROVE  /\ http' \in [Handlers -> Calls] /\ file' \in [Subs -> Marks]
           /\ tmp' \in [Subs -> Marks] /\ SpoolOK'
  BY DEF ShapeOK, SpoolOK, queued, Admitted

\* A step that leaves the lock and the threads that hold it alone.
LEMMA MutexElsewhere ==
    ASSUME ShapeOK, MutexOK, UNCHANGED <<lock, tick, accept>>
    PROVE  /\ lock' \in {"free", "tick", "accept"} /\ tick' \in Ticks
           /\ accept' \in {"listen", "reading", "waiting", "serving"} /\ MutexOK'
  BY DEF ShapeOK, MutexOK

\* In every reachable state the mutex names the thread in its critical section
\* and the spool's files and admitted handlers are within the cap (daemon.rs
\* run, serve.rs Spool::offer).
THEOREM DaemonInvariant == Spec => []DaemonInv
  <1> USE DaemonAssumption
  <1>1. Init => DaemonInv
    <2> SUFFICES ASSUME Init PROVE DaemonInv
      OBVIOUS
    <2>1. /\ lock = "free" /\ tick = Started /\ accept = "listen" /\ dirty = FALSE
          /\ http = [h \in Handlers |-> Resting] /\ signed = {} /\ log = {}
          /\ file = [s \in Subs |-> "none"] /\ tmp = [s \in Subs |-> "none"]
      BY DEF Init
    <2>2. Started \in Ticks /\ Started.at = "drain"
      <3>1. 0 \in Dials
        BY DEF Dials, DaemonAssumption
      <3> QED BY <3>1 DEF Started, Ticks, Places
    <2>3. Resting \in Calls /\ Resting.at = "idle"
      BY DEF Resting, Calls, Stages, Ends
    <2>4. ShapeOK
      BY <2>1, <2>2, <2>3 DEF ShapeOK, Marks
    <2>5. MutexOK
      BY <2>1, <2>2 DEF MutexOK
    <2>6. queued = {} /\ Admitted = {}
      BY <2>1, <2>3 DEF queued, Admitted
    <2>7. IsFiniteSet({}) /\ Cardinality({}) = 0
      BY FS_EmptySet
    <2>8. MaxQueued \in Nat \ {0} /\ Cardinality(Handlers) \in Nat
      BY FS_CardinalityType DEF DaemonAssumption
    <2>9. SpoolOK
      BY <2>1, <2>3, <2>6, <2>7, <2>8 DEF SpoolOK
    <2> QED BY <2>4, <2>5, <2>9 DEF DaemonInv
  <1>2. DaemonInv /\ [Next]_vars => DaemonInv'
    <2> SUFFICES ASSUME DaemonInv, [Next]_vars PROVE DaemonInv'
      OBVIOUS
    <2>t. /\ ShapeOK /\ MutexOK /\ SpoolOK /\ dirty \in BOOLEAN /\ signed \subseteq log
          /\ lock \in {"free", "tick", "accept"}
          /\ accept \in {"listen", "reading", "waiting", "serving"} /\ tick \in Ticks
      BY DEF DaemonInv, ShapeOK
    <2>1. CASE TickThread
      <3>1. /\ lock' \in {"free", "tick", "accept"} /\ tick' \in Ticks
            /\ dirty' \in BOOLEAN /\ signed' \subseteq log' /\ MutexOK'
            /\ accept' = accept
        BY <2>t, <2>1, ThreadStep DEF TickThread
      <3>2. /\ http' \in [Handlers -> Calls] /\ file' \in [Subs -> Marks]
            /\ tmp' \in [Subs -> Marks] /\ SpoolOK'
        <4>1. CASE Take
          <5>1. tmp' = tmp
            BY <4>1 DEF Take
          <5> QED BY <2>t, <4>1, <5>1, TakeStep DEF ShapeOK
        <4>2. CASE ~Take
          <5>1. UNCHANGED <<file, tmp, http>>
            BY <2>1, <4>2 DEF TickThread, Drain, Seed, Seeded, Dial, Dialled, Rest,
                              Wake, disk
          <5> QED BY <2>t, <5>1, SpoolElsewhere
        <4> QED BY <4>1, <4>2
      <3> QED BY <2>t, <3>1, <3>2 DEF DaemonInv, ShapeOK
    <2>2. CASE Connect \/ AcceptThread
      <3>1. UNCHANGED <<file, tmp, http, tick, dirty>>
        BY <2>2 DEF Connect, AcceptThread, FirstFrame, Serve, Served, disk
      <3>2. /\ lock' \in {"free", "tick", "accept"} /\ MutexOK'
            /\ accept' \in {"listen", "reading", "waiting", "serving"}
        BY <2>t, <2>2, <3>1 DEF Connect, AcceptThread, FirstFrame, Serve, Served, MutexOK
      <3>3. signed' \subseteq log'
        <4>1. CASE Served
          BY <2>t, <4>1 DEF Served, SessionEnds, settle_due
        <4>2. CASE ~Served
          BY <2>t, <2>2, <4>2 DEF Connect, AcceptThread, FirstFrame, Serve, disk
        <4> QED BY <4>1, <4>2
      <3> QED BY <2>t, <3>1, <3>2, <3>3, SpoolElsewhere DEF DaemonInv, ShapeOK
    <2>3. ASSUME NEW h \in Handlers, (\E s \in Subs : Offer(h, s)) \/ HandlerStep(h)
          PROVE  DaemonInv'
      <3>1. UNCHANGED <<lock, tick, accept, dirty, log, signed>>
        BY <2>3 DEF Offer, HandlerStep, Count, Truncate, Write, Rename, disk
      <3>2. /\ http' \in [Handlers -> Calls] /\ file' \in [Subs -> Marks]
            /\ tmp' \in [Subs -> Marks] /\ SpoolOK'
        <4>1. ASSUME NEW s \in Subs, Offer(h, s)
              PROVE  http' \in [Handlers -> Calls] /\ UNCHANGED <<file, tmp>> /\ SpoolOK'
          BY <2>t, <4>1, OfferStep
        <4>2. ASSUME Count(h)
              PROVE  http' \in [Handlers -> Calls] /\ UNCHANGED <<file, tmp>> /\ SpoolOK'
          BY <2>t, <4>2, CountStep
        <4>3. CASE Truncate(h)
          BY <2>t, <4>3, TruncateStep DEF ShapeOK
        <4>4. CASE Write(h) \/ Rename(h)
          BY <2>t, <4>4, WriteStep, RenameStep
        <4> QED BY <2>t, <2>3, <4>1, <4>2, <4>3, <4>4 DEF HandlerStep, ShapeOK
      <3> QED BY <2>t, <3>1, <3>2, MutexElsewhere DEF DaemonInv, ShapeOK
    <2>4. ASSUME NEW w \in Works, AgentThread(w) PROVE DaemonInv'
      <3>1. UNCHANGED <<lock, tick, accept, http, file, tmp, signed>>
        BY <2>4 DEF AgentThread, Commit, Reveal, Remember, Forget
      <3>2. log \subseteq log' /\ dirty' \in BOOLEAN
        <4>1. CASE Commit(w) \/ Reveal(w)
          BY <4>1 DEF Commit, Reveal, wrote, settle_due
        <4>2. CASE Remember \/ Forget
          BY <2>t, <4>2 DEF Remember, Forget
        <4> QED BY <2>4, <4>1, <4>2 DEF AgentThread
      <3> QED BY <2>t, <3>1, <3>2, MutexElsewhere, SpoolElsewhere DEF DaemonInv, ShapeOK
    <2>5. CASE EpochTurns \/ (\E e \in Epochs : ComesDue(e)) \/ Start \/ UNCHANGED vars
      <3>1. UNCHANGED <<lock, tick, accept, http, file, tmp, dirty, log>>
        BY <2>5 DEF EpochTurns, ComesDue, Start, disk, vars
      <3>2. signed' \subseteq log'
        BY <2>t, <2>5 DEF EpochTurns, ComesDue, Start, disk, vars
      <3> QED BY <2>t, <3>1, <3>2, MutexElsewhere, SpoolElsewhere DEF DaemonInv, ShapeOK
    <2>6. CASE Crash
      <3>1. /\ lock' = "free" /\ tick' = Started /\ accept' = "listen" /\ dirty' = FALSE
            /\ http' = [h \in Handlers |-> Resting]
            /\ UNCHANGED <<log, signed, file, tmp>>
        BY <2>6 DEF Crash, disk
      <3>2. Started \in Ticks /\ Started.at = "drain"
        <4>1. 0 \in Dials
          BY DEF Dials, DaemonAssumption
        <4> QED BY <4>1 DEF Started, Ticks, Places
      <3>3. Resting \in Calls /\ Resting.at = "idle" /\ fileOpen(Resting, file')
        BY DEF Resting, Calls, Stages, Ends, fileOpen
      <3>4. http' \in [Handlers -> Calls] /\ \A h \in Handlers : http'[h] = Resting
        BY <3>1, <3>3
      <3>5. Admitted' = {} /\ queued' = queued
        BY <3>1, <3>3, <3>4 DEF Admitted, queued
      <3>6. traded(queued, Admitted, queued', Admitted')
        BY <3>5 DEF traded
      <3>7. SpoolOK'
        BY <2>t, <3>3, <3>4, <3>6, SpoolStep
      <3>8. MutexOK'
        BY <3>1, <3>2 DEF MutexOK
      <3> QED BY <2>t, <3>1, <3>2, <3>4, <3>7, <3>8 DEF DaemonInv, ShapeOK
    <2> QED BY <2>1, <2>2, <2>3, <2>4, <2>5, <2>6 DEF Next
  <1> QED BY <1>1, <1>2, PTL DEF Spec

\* The threads exclude each other, the checkpoint never covers what is not in
\* the log, and the spool overshoots --max-queued by the racing handlers only,
\* in every reachable state (daemon.rs run, serve.rs Spool::offer).
THEOREM DaemonTypes == Spec => []TypeOK
  <1> USE DaemonAssumption
  <1>1. DaemonInv => TypeOK
    <2> SUFFICES ASSUME DaemonInv PROVE TypeOK
      OBVIOUS
    <2>1. tick.batch \subseteq Subs /\ tick.dials \in 0 .. Fanout
      BY DEF DaemonInv, ShapeOK, Ticks, Dials
    <2>2. \A h \in Handlers : http[h].at \in {"idle", "new", "room", "open", "full"}
      BY DEF DaemonInv, ShapeOK, Calls, Stages
    <2>3. \A s \in Subs : {file[s], tmp[s]} \subseteq {"none", "torn", "whole"}
      BY DEF DaemonInv, ShapeOK, Marks
    <2>4. Cardinality(queued) <= MaxQueued + Cardinality(Handlers) - 1
      <3>1. IsFiniteSet(Admitted) /\ IsFiniteSet(queued) /\ Cardinality(Handlers) \in Nat
        BY FS_Subset, FS_CardinalityType DEF DaemonInv, SpoolOK, Admitted, DaemonAssumption
      <3>2. Cardinality(Admitted) \in Nat /\ Cardinality(queued) \in Nat /\ MaxQueued \in Nat
        BY <3>1, FS_CardinalityType DEF DaemonAssumption
      <3>3. Cardinality(queued) + Cardinality(Admitted)
                <= MaxQueued + Cardinality(Handlers) - 1
        BY DEF DaemonInv, SpoolOK
      <3> QED BY <3>1, <3>2, <3>3
    <2>5. /\ lock \in {"free", "tick", "accept"} /\ signed \subseteq log
          /\ (tick.at \in {"take", "asking", "calling"}) = (lock = "tick")
          /\ (accept = "serving") = (lock = "accept")
      BY DEF DaemonInv, ShapeOK, MutexOK
    <2> QED BY <2>1, <2>2, <2>3, <2>4, <2>5 DEF TypeOK
  <1> QED BY <1>1, DaemonInvariant, PTL
=============================================================================
