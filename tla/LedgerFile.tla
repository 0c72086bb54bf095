----------------------------- MODULE LedgerFile ------------------------------
(***************************************************************************)
(* The log as a file (src/src/ledger.rs): processes open it, one of them   *)
(* under the writer's lock, load it, append to it and re-read it, while    *)
(* writes are cut short, processes die and the power fails.  The lock is   *)
(* advisory: append does not ask for it, and `cairn peer' (src/src/main.rs *)
(* cmd_peer) appends through a handle that was opened without it.          *)
(*                                                                         *)
(* An entry's hash covers its sequence number, its payload and the hash    *)
(* before it, so an entry is modelled by what its hash covers: the         *)
(* sequence of (number, payload) pairs that ends in its own.  A line of    *)
(* the file is the entry whose text it begins with, whether that text is   *)
(* `whole', whether there is `more' or other text in the line, and whether *)
(* it is `ended' by a newline.                                             *)
(***************************************************************************)
EXTENDS Integers, SequencesExt

CONSTANTS
    Processes,    \* processes that open the log
    Payloads,     \* records
    Fsync,        \* whether appends are synced (CAIRN_LEDGER_FSYNC)
    MaxLines      \* bound on the file

ASSUME ModeAssumption  == Fsync \in BOOLEAN
ASSUME LinesAssumption == MaxLines \in Nat

VARIABLES
    file,     \* the lines of the file
    durable,  \* how many of them a power failure cannot take
    lock,     \* the process that holds the lock on the file
    handle,   \* each process's Ledger and the call it is in
    acked,    \* entries whose append returned Ok
    syncFailed, \* whether a sync has ever reported an error
    raced     \* whether an append without the lock met another writer

vars == <<file, durable, lock, handle, acked, syncFailed, raced>>
-----------------------------------------------------------------------------
readable(line) == line.whole /\ ~line.more

\* Ledger::load accepts a file whose lines all parse, ended or not.
loads(f) == \A i \in DOMAIN f : readable(f[i])

\* The entries read before the first line that does not parse.
readBack(f) ==
    LET good == {n \in 0 .. Len(f) : \A i \in 1 .. n : readable(f[i])}
        last == CHOOSE n \in good : \A m \in good : m <= n
    IN  [i \in 1 .. last |-> f[i].entry]

\* Size and modification time tell two files apart that a writer had time to
\* load or finish; the last line's state stands for them.
stampOf(f) ==
    <<Len(f), IF f = <<>> THEN <<>>
              ELSE <<Last(f).whole, Last(f).more, Last(f).ended>>>>

\* Ledger::verify_chain, as the positions it has a problem with.
problems(es) ==
    {i \in DOMAIN es :
        \/ Last(es[i])[1] # i - 1
        \/ Front(es[i]) # IF i = 1 THEN <<>> ELSE es[i - 1]}

\* The entry append builds on top of what the handle holds.
nextEntry(es, x) ==
    Append(IF es = <<>> THEN <<>> ELSE Last(es), <<Len(es), x>>)

\* The file after more of an entry's line was written at its end: 1 is some of
\* the text, 2 all of it, 3 the newline too.  A line that was left without a
\* newline is run on; a text that another writer broke into goes on in a line
\* that does not parse; a newline on its own makes a blank line, which load
\* skips.
writeTo(f, e, from, to) ==
    LET line == [entry |-> e, whole |-> to >= 2, more |-> FALSE, ended |-> to = 3]
        begun == [entry |-> e, whole |-> FALSE, more |-> FALSE, ended |-> FALSE]
        last == Last(f)
    IN  IF f # <<>> /\ ~last.ended
        THEN Append(Front(f),
                IF from = 1 /\ last = begun THEN line
                ELSE [last EXCEPT !.more = @ \/ from < 2 \/ ~last.whole,
                                  !.ended = to = 3])
        ELSE IF from = 2 THEN f
        ELSE Append(f, [line EXCEPT !.more = from = 1])

\* How many lines are complete.
endedLines(f) == IF f = <<>> \/ Last(f).ended THEN Len(f) ELSE Len(f) - 1
-----------------------------------------------------------------------------
Closed ==
    [at |-> "closed", entries |-> <<>>, stamp |-> <<>>, new |-> <<>>,
     part |-> 0, wrote |-> FALSE]

\* The processes in the middle of an append.
Appending == {p \in Processes : handle[p].at \in {"write", "sync", "push"}}

Init ==
    /\ file = <<>> /\ durable = 0
    /\ lock = {}
    /\ handle = [p \in Processes |-> Closed]
    /\ acked = {} /\ syncFailed = FALSE /\ raced = FALSE

\* Mutant of OpenExclusive: the lock is taken without asking whether it is free.
OpenExclusiveAnyway(p) ==
    /\ handle[p].at = "closed"
    /\ lock' = lock \cup {p}
    /\ handle' = [handle EXCEPT ![p].at = "load"]
    /\ raced' = (raced \/ \E q \in Appending : q \notin lock)
    /\ UNCHANGED <<file, durable, acked, syncFailed>>

\* Ledger::open_exclusive: the lock first, then the file.  Another holder is a
\* refusal.
OpenExclusive(p) ==
    /\ handle[p].at = "closed"
    /\ lock = {}
    /\ lock' = {p}
    /\ handle' = [handle EXCEPT ![p].at = "load"]
    /\ raced' = (raced \/ Appending # {})
    /\ UNCHANGED <<file, durable, acked, syncFailed>>

\* Ledger::open: a reader takes no lock.
Open(p) ==
    /\ handle[p].at = "closed"
    /\ handle' = [handle EXCEPT ![p].at = "load"]
    /\ UNCHANGED <<file, durable, lock, acked, syncFailed, raced>>

\* Ledger::load: the file is read, and its stamp is taken after that.
Load(p) ==
    /\ handle[p].at \in {"load", "reload"}
    /\ loads(file)
    /\ handle' = [handle EXCEPT ![p].at = "stamp", ![p].entries = readBack(file),
                                ![p].wrote = FALSE]
    /\ UNCHANGED <<file, durable, lock, acked, syncFailed, raced>>

TakeStamp(p) ==
    /\ handle[p].at = "stamp"
    /\ handle' = [handle EXCEPT ![p].at = "idle", ![p].stamp = stampOf(file)]
    /\ UNCHANGED <<file, durable, lock, acked, syncFailed, raced>>

\* Reading fails, or a line does not parse.  An open is refused and its lock
\* released; a reload keeps what it has read so far.
LoadFails(p) ==
    \/ /\ handle[p].at = "load"
       /\ handle' = [handle EXCEPT ![p] = Closed]
       /\ lock' = lock \ {p}
       /\ UNCHANGED <<file, durable, acked, syncFailed, raced>>
    \/ /\ handle[p].at = "reload"
       /\ \E es \in {<<>>} \cup (IF loads(file) THEN {} ELSE {readBack(file)}) :
            handle' = [handle EXCEPT ![p].at = "idle", ![p].entries = es]
       /\ UNCHANGED <<file, durable, lock, acked, syncFailed, raced>>

\* Ledger::reload_if_changed.
ReloadIfChanged(p) ==
    /\ handle[p].at = "idle"
    /\ handle[p].stamp # stampOf(file)
    /\ handle' = [handle EXCEPT ![p].at = "reload", ![p].entries = <<>>,
                                ![p].wrote = FALSE]
    /\ UNCHANGED <<file, durable, lock, acked, syncFailed, raced>>

\* What the handle holds is what the file holds.
upToDate(p) == loads(file) => handle[p].entries = readBack(file)

\* An append without the lock beside a lock holder or another append, or on a
\* tail that has moved.
races(p) == p \notin lock /\ (lock # {} \/ Appending # {} \/ ~upToDate(p))

\* Mutant of StartAppend: the tail in memory is extended before the write.
StartAppendInMemory(p, x) ==
    LET e == nextEntry(handle[p].entries, x) IN
    /\ handle[p].at = "idle"
    /\ Len(file) < MaxLines
    /\ handle' = [handle EXCEPT ![p].at = "write", ![p].new = e, ![p].part = 0,
                                ![p].entries = Append(@, e)]
    /\ raced' = (raced \/ races(p))
    /\ UNCHANGED <<file, durable, lock, acked, syncFailed>>

\* Ledger::append, through any handle.  The line is built before the file is
\* touched.
StartAppend(p, x) ==
    /\ handle[p].at = "idle"
    /\ Len(file) < MaxLines
    /\ handle' = [handle EXCEPT ![p].at = "write",
                                ![p].new = nextEntry(handle[p].entries, x)]
    /\ raced' = (raced \/ races(p))
    /\ UNCHANGED <<file, durable, lock, acked, syncFailed>>

\* Mutant of afterWrite: the sync is left out.
afterWriteUnsynced == "push"

afterWrite == IF Fsync THEN "sync" ELSE "push"

\* The line's bytes reach the file in up to three parts.
WriteMore(p) ==
    /\ handle[p].at = "write"
    /\ \E part \in handle[p].part + 1 .. 3 :
        /\ file' = writeTo(file, handle[p].new, handle[p].part, part)
        /\ handle' = [handle EXCEPT ![p].part = part,
                ![p].at = IF part = 3 THEN afterWrite ELSE "write"]
    /\ UNCHANGED <<durable, lock, acked, syncFailed, raced>>

AppendReturns(p) == [handle[p] EXCEPT !.at = "idle", !.new = <<>>, !.part = 0]

\* write_all fails; what it wrote stays, and the handle is as it was.
FailWrite(p) ==
    /\ handle[p].at = "write"
    /\ handle' = [handle EXCEPT ![p] = AppendReturns(p)]
    /\ UNCHANGED <<file, durable, lock, acked, syncFailed, raced>>

SyncData(p) ==
    /\ handle[p].at = "sync"
    /\ durable' = endedLines(file)
    /\ handle' = [handle EXCEPT ![p].at = "push"]
    /\ UNCHANGED <<file, lock, acked, syncFailed, raced>>

\* sync_data fails: the line is in the file, the handle is as it was.
FailSync(p) ==
    /\ handle[p].at = "sync"
    /\ handle' = [handle EXCEPT ![p] = AppendReturns(p)]
    /\ syncFailed' = TRUE
    /\ UNCHANGED <<file, durable, lock, acked, raced>>

\* The tail in memory, the stamp, and Ok.
Push(p) ==
    /\ handle[p].at = "push"
    /\ handle' = [handle EXCEPT ![p] =
            [AppendReturns(p) EXCEPT !.entries = Append(@, handle[p].new),
                                     !.wrote = TRUE, !.stamp = stampOf(file)]]
    /\ acked' = acked \cup {handle[p].new}
    /\ UNCHANGED <<file, durable, lock, syncFailed, raced>>

\* The handle is dropped or its process dies, wherever it is; the lock goes
\* with it.
Exit(p) ==
    /\ handle[p].at # "closed"
    /\ handle' = [handle EXCEPT ![p] = Closed]
    /\ lock' = lock \ {p}
    /\ UNCHANGED <<file, durable, acked, syncFailed, raced>>

\* What may be left of a line.
cuts(line) ==
    {[line EXCEPT !.whole = FALSE, !.more = FALSE, !.ended = FALSE], line}
        \cup (IF line.whole
              THEN {[line EXCEPT !.more = FALSE, !.ended = FALSE]} ELSE {})
        \cup (IF line.more THEN {[line EXCEPT !.ended = FALSE]} ELSE {})

\* The power fails: every process is gone and the file is cut, anywhere after
\* what is durable.
PowerLoss ==
    /\ \E n \in durable .. Len(file) :
        \/ file' = SubSeq(file, 1, n) /\ durable' = endedLines(SubSeq(file, 1, n))
        \/ /\ n < Len(file)
           /\ durable' = n
           /\ \E line \in cuts(file[n + 1]) :
                file' = Append(SubSeq(file, 1, n), line)
    /\ lock' = {}
    /\ handle' = [p \in Processes |-> Closed]
    /\ UNCHANGED <<acked, syncFailed, raced>>

Next ==
    \/ \E p \in Processes :
        \/ OpenExclusive(p) \/ Open(p)
        \/ Load(p) \/ TakeStamp(p) \/ LoadFails(p) \/ ReloadIfChanged(p)
        \/ \E x \in Payloads : StartAppend(p, x)
        \/ WriteMore(p) \/ FailWrite(p) \/ SyncData(p) \/ FailSync(p) \/ Push(p)
        \/ Exit(p)
    \/ PowerLoss

Spec == Init /\ [][Next]_vars
-----------------------------------------------------------------------------
Entries == Seq(Nat \X Payloads)
Lines   == [entry : Entries, whole : BOOLEAN, more : BOOLEAN, ended : BOOLEAN]

\* Types, and that only the last line of a file may lack its newline.
TypeOK ==
    /\ file \in Seq(Lines)
    /\ \A i \in 1 .. Len(file) - 1 : file[i].ended
    /\ durable \in 0 .. endedLines(file)
    /\ lock \in SUBSET Processes
    /\ \A p \in Processes :
        /\ handle[p].at \in {"closed", "load", "reload", "stamp", "idle",
                             "write", "sync", "push"}
        /\ handle[p].entries \in Seq(Entries)
        /\ handle[p].part \in 0 .. 3
        /\ handle[p].wrote \in BOOLEAN
    /\ acked \in SUBSET Entries
    /\ syncFailed \in BOOLEAN /\ raced \in BOOLEAN

\* A file that loads is one hash chain with dense numbers: a failed append
\* leaves nothing that the next one forks from (ledger.rs append).
FailedAppendsDoNotFork == loads(file) => problems(readBack(file)) = {}

\* Every append holds the lock (main.rs open_node_for_writing).
AppendsAreLocked == Appending \subseteq lock

\* While syncs succeed and no append without the lock meets another writer, a
\* file that loads is one hash chain, whatever writers came and went, with the
\* lock or without, and wherever they were cut off (ledger.rs open_exclusive,
\* append, verify_chain; main.rs cmd_peer).
LoadableFileIsOneChain == (~syncFailed /\ ~raced) => FailedAppendsDoNotFork

\* An append that returned Ok is never lost in silence, though other processes
\* write into its line: a file that loads holds it, after any power failure,
\* when appends are synced (ledger.rs append).
AcknowledgedIsKept ==
    (Fsync /\ loads(file)) => acked \subseteq ToSet(readBack(file))

\* Reading a log while other processes write it, whatever they do to each
\* other, gives a past of it, never an entry that is not there; and so does
\* appending to it, while syncs succeed and no append without the lock meets
\* another writer (ledger.rs open, append; main.rs open_node).
HandlesHoldThePast ==
    loads(file) => \A p \in Processes :
        (~handle[p].wrote \/ (~syncFailed /\ ~raced)) =>
            IsPrefix(handle[p].entries, readBack(file))

\* A writer whose stamp is the file's holds what the file holds, so
\* reload_if_changed may skip the reading (ledger.rs reload_if_changed).
StampIsHonest ==
    (~syncFailed /\ ~raced /\ loads(file)) =>
        \A p \in lock :
            (handle[p].at = "idle" /\ handle[p].stamp = stampOf(file)) =>
                handle[p].entries = readBack(file)
=============================================================================
